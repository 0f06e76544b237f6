----------------------------- MODULE OrdersProofs -----------------------------
(***************************************************************************)
(* What is proved of the order lifecycle and the returns, one operation at *)
(* a time (Sequential): any number of orders, lines, pulls, users, remaps, *)
(* cancellations and crashes.  First which stages an order line goes       *)
(* through, then the stock that moves with them: the reserved bucket is    *)
(* what the lines hold that have been reserved and have neither shipped    *)
(* nor been released, and what is on hand is what there was, less what has *)
(* shipped and has not come back.                                          *)
(***************************************************************************)
EXTENDS Returns, StockMovesProofs

-----------------------------------------------------------------------------
(* What the scenario of a behaviour may have to exclude.                   *)

\* The staff mark orders shipped or cancel them, not both: cancelOrder followed
\* by a pull makes a released order look paid, and markOrderShipped ships it.
OneWayOut == ~({"ship", "cancel"} \subseteq world.ops)

\* No line gets its variant after its order was first pulled.
FixedLines == world.remaps = {} /\ "resolve" \notin world.ops

\* No operation dies and the marketplace cancels no whole order.
Undisturbed == world.crashes = 0 /\ "order" \notin world.cancels

-----------------------------------------------------------------------------
(* The state without stock and returns.                                    *)

orderVars == <<channel, mapping, order, rows, pull, task, crashes, world>>

Shape ==
  /\ channel \in [OrderIds -> ChannelOrder]
  /\ mapping \in Mapping
  /\ order \in [OrderIds -> OrderRow]
  /\ rows \in [OrderIds -> [Listings -> LedgerCount]]
  /\ pull \in [Pullers -> Pull]
  /\ task \in [Staff -> Task]
  /\ crashes \in 0..world.crashes
  /\ world \in Scenarios

\* One operation at a time.
Alone ==
  /\ \A p, q \in Pullers : pull[p] # NoPull /\ pull[q] # NoPull => p = q
  /\ \A s, t \in Staff : task[s] # NoTask /\ task[t] # NoTask => s = t
  /\ \A p \in Pullers, s \in Staff : pull[p] # NoPull => task[s] = NoTask

\* A reservation belongs to an order that is stamped for it and to a line that
\* has a variant, and there is one at most.
ReservedOnce ==
  \A o \in OrderIds, l \in Listings : rows[o][l].RESERVE > 0 =>
    /\ rows[o][l].RESERVE = 1
    /\ order[o].applied /\ l \in Resolved(o, order[o].variant)

\* An order is stamped shipped or released once it was reserved.
StampsInOrder ==
  \A o \in OrderIds :
    /\ order[o].applied => order[o].saved
    /\ order[o].shipped \/ order[o].reverted => order[o].applied

\* What a pull is still due to do fits the order it is at: the stages were
\* decided once, and nobody else has touched the order since.
DueFitsOrder ==
  \A p \in Pullers : LET w == pull[p]  row == order[w.current] IN
    w.due # {} =>
      /\ w.current \in OrderIds \ w.todo
      /\ w.items = row.variant /\ row.saved
      /\ "reserve" \in w.due => ~row.applied /\ PaidOrBeyond(row.status)
                                /\ (row.status = "PAID" \/ "ship" \in w.due)
      /\ "delta" \in w.due => row.applied /\ OpenOrder(row)
      /\ "ship" \in w.due \/ "release" \in w.due =>
           OpenOrder(row) /\ (row.applied \/ "reserve" \in w.due)
      /\ "release" \in w.due => row.status = "CANCELLED" /\ "ship" \notin w.due

\* The lines found late are those without a reservation.
LateUnreserved ==
  \A p \in Pullers : LET w == pull[p] IN
    "delta" \in w.due => /\ w.late \subseteq Resolved(w.current, order[w.current].variant)
                         /\ \A l \in w.late : rows[w.current][l].RESERVE = 0

\* The row once resolveOrderItem has filled its line.
FilledRow(t) ==
  [t.read EXCEPT !.variant =
     [l \in Listings |-> IF l \in NewlyResolved(t) THEN t.to ELSE t.read.variant[l]]]

\* The staff work on the order as it is; resolveOrderItem has filled its line
\* when it gets to reserving it.
ReadIsFresh ==
  \A s \in Staff : LET t == task[s] IN
    t # NoTask =>
      /\ t.order \in OrderIds /\ t.op \in world.ops /\ t.read.saved
      /\ t.op = "ship" => ShipGuard(t.read)
      /\ t.op = "cancel" => CancelGuard(t.read)
      /\ t.op = "resolve" => t.fresh
      /\ t.step < 3 => order[t.order] = t.read
      /\ t.step = 3 => /\ t.op = "resolve" /\ t.read.status = "PAID"
                       /\ order[t.order] = FilledRow(t)
                       /\ \A l \in NewlyResolved(t) : rows[t.order][l].RESERVE = 0

OrderInv ==
  Shape /\ Alone /\ ReservedOnce /\ StampsInOrder /\ DueFitsOrder /\ LateUnreserved /\ ReadIsFresh

-----------------------------------------------------------------------------
(* Shipped or released.                                                    *)

\* What a pull has fetched is a past of what the channel reports.
FetchedBefore ==
  \A p \in Pullers, o \in OrderIds : pull[p] # NoPull =>
    /\ pull[p].fetched[o].status = "CANCELLED" => channel[o].status = "CANCELLED"
    /\ pull[p].fetched[o].status # "PENDING" => channel[o].status # "PENDING"

\* Without cancelOrder only the marketplace's cancellation releases, and it is
\* final: no pull makes a released order look paid again.
ReleasedIsCancelled ==
  "cancel" \notin world.ops =>
    \A o \in OrderIds : order[o].reverted =>
      /\ channel[o].status = "CANCELLED" /\ order[o].status = "CANCELLED"
      /\ \A p \in Pullers : o \in pull[p].todo => pull[p].fetched[o].status = "CANCELLED"

CancelledAtChannel ==
  "cancel" \notin world.ops =>
    \A o \in OrderIds : order[o].status = "CANCELLED" => channel[o].status = "CANCELLED"

\* A line leaves its reservation with the stamp of its order.
LeftIsStamped ==
  \A o \in OrderIds, l \in Listings :
    rows[o][l].SHIP + rows[o][l].RELEASE > 0 => order[o].shipped \/ order[o].reverted

WayOutInv ==
  FetchedBefore /\ ReleasedIsCancelled /\ CancelledAtChannel /\ LeftIsStamped /\ ShippedOrReleased

-----------------------------------------------------------------------------
(* Each stage once.                                                        *)

\* Without late mappings the lines of an order have the variants of the start.
FixedVariant(o) == [l \in Listings |-> IF l \in Lines(o) THEN world.mapping[l] ELSE Unmapped]

LinesStayFixed ==
  FixedLines =>
    /\ mapping = world.mapping
    /\ \A p \in Pullers : /\ pull[p] # NoPull => pull[p].resolution = mapping
                          /\ "delta" \notin pull[p].due
    /\ \A o \in OrderIds : order[o].saved => order[o].variant = FixedVariant(o)

\* An order that was paid once is not PENDING again.
PaidStaysPaid ==
  \A o \in OrderIds :
    order[o].applied \/ order[o].status \notin {"PENDING", "CANCELLED"} =>
      /\ channel[o].status # "PENDING"
      /\ \A p \in Pullers : o \in pull[p].todo => pull[p].fetched[o].status # "PENDING"

\* Without a cancellation or a crash, an order that holds its reservation is
\* PAID, or about to be shipped by the pull that is at it.
HeldIsPaid ==
  Undisturbed =>
    \A o \in OrderIds :
      /\ channel[o].status # "CANCELLED"
      /\ \A p \in Pullers : pull[p] # NoPull => pull[p].fetched[o].status # "CANCELLED"
      /\ Held(o) => \/ order[o].status = "PAID"
                    \/ \E p \in Pullers : pull[p].current = o /\ "ship" \in pull[p].due

\* and a PAID order without a reservation has nothing to reserve, or it is
\* about to be reserved.
PaidIsReserved ==
  Undisturbed =>
    \A o \in OrderIds : order[o].status = "PAID" /\ ~order[o].applied =>
      \/ Resolved(o, order[o].variant) = {}
      \/ \E p \in Pullers : pull[p].current = o /\ "reserve" \in pull[p].due
      \/ \E s \in Staff : /\ task[s].step = 3 /\ task[s].order = o
                         /\ Resolved(o, order[o].variant) \subseteq NewlyResolved(task[s])

\* Every line of a held order is reserved, or about to be.
HeldLinesReserved ==
  \A o \in OrderIds : Held(o) =>
    \A l \in Resolved(o, order[o].variant) :
      \/ rows[o][l].RESERVE = 1
      \/ \E p \in Pullers : pull[p].current = o /\ "delta" \in pull[p].due /\ l \in pull[p].late
      \/ \E s \in Staff : task[s].step = 3 /\ task[s].order = o /\ l \in NewlyResolved(task[s])

StageInv ==
  PaidStaysPaid /\ HeldIsPaid /\ PaidIsReserved
    /\ (FixedLines \/ Undisturbed => HeldLinesReserved /\ EachStageOnce)

OrderSafety == OrderInv /\ LinesStayFixed /\ (OneWayOut => WayOutInv /\ StageInv)

-----------------------------------------------------------------------------
(* Returns.                                                                *)

\* Only whole orders come back, of lines that are fixed.
WholeReturns == FixedLines /\ "line" \notin world.cancels

\* A return brings back lines that went out.
ReturnedShipped ==
  \A o \in OrderIds, l \in Listings : returns[o].variant[l] # Unmapped => rows[o][l].SHIP > 0

\* What went out is the whole order.
WholeOrdersShip ==
  /\ \A o \in OrderIds : channel[o].cancelled = {}
  /\ \A p \in Pullers, o \in OrderIds : pull[p].fetched[o].cancelled = {}
  /\ \A o \in OrderIds : order[o].shipped =>
       \A l \in Resolved(o, order[o].variant) : rows[o][l].SHIP > 0

ReturnInv ==
  /\ returns \in [OrderIds -> ReturnRow]
  /\ WholeReturns => WholeOrdersShip /\ ReturnedShipped

-----------------------------------------------------------------------------
(* Ledger rows of order lines.                                             *)

LedgerKinds == {"RESERVE", "SHIP", "RELEASE"}

\* A movement of some lines adds one row of its kind to each of them, and
\* nothing else.
LEMMA RecordedAt ==
  ASSUME NEW rs \in [OrderIds -> [Listings -> LedgerCount]], NEW kind \in LedgerKinds,
         NEW o \in OrderIds, NEW lines
  PROVE  /\ \A q \in OrderIds : q # o => Recorded(rs, kind, o, lines)[q] = rs[q]
         /\ \A l \in Listings, k \in LedgerKinds :
              Recorded(rs, kind, o, lines)[o][l][k] =
                IF l \in lines /\ k = kind THEN rs[o][l][k] + 1 ELSE rs[o][l][k]
BY DEF Recorded, LedgerCount, LedgerKinds

LEMMA RecordedType ==
  ASSUME NEW rs \in [OrderIds -> [Listings -> LedgerCount]], NEW kind \in LedgerKinds,
         NEW o \in OrderIds, NEW lines,
         \A l \in Listings \cap lines : rs[o][l][kind] < MaxRows
  PROVE  Recorded(rs, kind, o, lines) \in [OrderIds -> [Listings -> LedgerCount]]
<1>1. MaxRows \in Nat
  BY OrdersAssumption
<1>2. ASSUME NEW l \in Listings \cap lines
      PROVE  [rs[o][l] EXCEPT ![kind] = rs[o][l][kind] + 1] \in LedgerCount
  <2>1. rs[o][l] \in LedgerCount /\ rs[o][l][kind] < MaxRows
    OBVIOUS
  <2>2. CASE kind = "RESERVE"
    BY <1>1, <2>1, <2>2 DEF LedgerCount
  <2>3. CASE kind = "SHIP"
    BY <1>1, <2>1, <2>3 DEF LedgerCount
  <2>4. CASE kind = "RELEASE"
    BY <1>1, <2>1, <2>4 DEF LedgerCount
  <2> QED
    BY <2>2, <2>3, <2>4 DEF LedgerKinds
<1> QED
  BY <1>2 DEF Recorded

-----------------------------------------------------------------------------
(* What the steps do, field by field.                                      *)

UpsertedRow(p, o) ==
  [order[o] EXCEPT !.saved = TRUE,
                   !.variant = UpsertedVariants(o, order[o], pull[p].resolution),
                   !.status = pull[p].fetched[o].status]

LateLines(p, o) ==
  IF order[o].applied
  THEN {l \in Resolved(o, UpsertedVariants(o, order[o], pull[p].resolution)) :
          order[o].variant[l] = Unmapped}
  ELSE {}

\* The other pulls stay as they are, and p keeps the page it works on.
PullGoesOn(p) ==
  /\ pull' \in [Pullers -> Pull]
  /\ \A q \in Pullers : q # p => pull'[q] = pull[q]
  /\ pull[p] # NoPull
  /\ pull'[p] # NoPull =>
       pull'[p].fetched = pull[p].fetched /\ pull'[p].resolution = pull[p].resolution

LEMMA NoPullType == NoPull \in Pull
BY DEF NoPull, Pull, ChannelOrder, Statuses, NoMapping, Mapping, Stages

LEMMA NoTaskType == NoTask \in Task
<1>1. (CHOOSE l \in Listings : TRUE) \in Listings /\ (CHOOSE v \in Variants : TRUE) \in Variants
  BY OrdersAssumption
<1> QED
  BY <1>1 DEF NoTask, Task, NewOrder, OrderRow, NoMapping, Mapping, Statuses

LEMMA NoTaskFields == NoTask.op = "none" /\ NoTask.step = 1 /\ NoTask.order = NoOrder
BY DEF NoTask

\* Whoever is at something is the only one.
LEMMA PullAlone ==
  ASSUME Alone, NEW p \in Pullers, pull[p] # NoPull
  PROVE  /\ \A q \in Pullers : q # p => pull[q] = NoPull
         /\ \A s \in Staff : task[s] = NoTask
BY DEF Alone

LEMMA TaskAlone ==
  ASSUME Alone, NEW s \in Staff, task[s] # NoTask
  PROVE  /\ \A p \in Pullers : pull[p] = NoPull
         /\ \A t \in Staff : t # s => task[t] = NoTask
BY DEF Alone

LEMMA UpsertedVariantsType ==
  ASSUME Shape, NEW p \in Pullers, NEW o \in OrderIds
  PROVE  UpsertedVariants(o, order[o], pull[p].resolution) \in Mapping
BY DEF Shape, UpsertedVariants, Mapping, OrderRow, Pull, Lines

LEMMA UpsertEffect ==
  ASSUME Shape, Alone, NEW p \in Pullers, UpsertOrder(p)
  PROVE  /\ UNCHANGED <<channel, mapping, rows, task, crashes, world>>
         /\ pull[p].due = {} /\ PullGoesOn(p)
         /\ \E o \in OrderIds :
              /\ o \in pull[p].todo /\ pull'[p].todo = pull[p].todo \ {o}
              /\ order' = [order EXCEPT ![o] = UpsertedRow(p, o)]
              /\ pull'[p].due = DueStages(o, UpsertedRow(p, o), LateLines(p, o))
              /\ pull'[p].due # {} => /\ pull'[p].current = o
                                      /\ pull'[p].items = UpsertedRow(p, o).variant
                                      /\ pull'[p].late = LateLines(p, o)
<1>1. PICK o \in pull[p].todo :
        /\ order' = [order EXCEPT ![o] = UpsertedRow(p, o)]
        /\ pull' = [pull EXCEPT ![p] = Settled(
               [pull[p] EXCEPT !.todo = @ \ {o}, !.current = o,
                               !.items = UpsertedVariants(o, order[o], pull[p].resolution),
                               !.late = LateLines(p, o),
                               !.due = DueStages(o, UpsertedRow(p, o), LateLines(p, o))])]
        /\ task' = [s \in Staff |-> IF task[s].order = o
                                    THEN [task[s] EXCEPT !.fresh = FALSE] ELSE task[s]]
  BY Zenon DEF UpsertOrder, UpsertedRow, LateLines, UpsertedStatus
<1>2. o \in OrderIds /\ pull[p] \in Pull
  BY DEF Shape, Pull
<1>3. pull[p] # NoPull
  BY <1>1 DEF NoPull
<1>4. task' = task
  <2>1. \A s \in Staff : task[s].order # o
    BY <1>2, <1>3, PullAlone, NoTaskFields, OrdersAssumption
  <2> QED  BY <1>1, <2>1 DEF Shape
<1> DEFINE w == [pull[p] EXCEPT !.todo = @ \ {o}, !.current = o,
                               !.items = UpsertedVariants(o, order[o], pull[p].resolution),
                               !.late = LateLines(p, o),
                               !.due = DueStages(o, UpsertedRow(p, o), LateLines(p, o))]
<1>5. /\ w \in Pull /\ w.todo = pull[p].todo \ {o} /\ w.current = o
      /\ w.items = UpsertedRow(p, o).variant /\ w.late = LateLines(p, o)
      /\ w.due = DueStages(o, UpsertedRow(p, o), LateLines(p, o))
      /\ w.fetched = pull[p].fetched /\ w.resolution = pull[p].resolution
  <2>1. UpsertedVariants(o, order[o], pull[p].resolution) \in Mapping
    BY <1>2, UpsertedVariantsType
  <2>2. /\ LateLines(p, o) \subseteq Listings
        /\ DueStages(o, UpsertedRow(p, o), LateLines(p, o)) \subseteq Stages
    BY DEF LateLines, Resolved, Lines, DueStages
  <2>3. UpsertedRow(p, o).variant = UpsertedVariants(o, order[o], pull[p].resolution)
    BY <1>2 DEF UpsertedRow, Shape, OrderRow
  <2> QED  BY <1>2, <2>1, <2>2, <2>3 DEF Pull
<1>6. pull' = [pull EXCEPT ![p] = Settled(w)]
  BY <1>1
<1> HIDE DEF w
<1>7. pull'[p] = Settled(w) /\ \A q \in Pullers : q # p => pull'[q] = pull[q]
  BY <1>6 DEF Shape
<1>8. (Settled(w) = NoPull /\ w.todo = {} /\ w.due = {}) \/ Settled(w) = w
  BY DEF Settled
<1>9. NoPull.todo = {} /\ NoPull.due = {}
  BY DEF NoPull
<1>10. PullGoesOn(p)
  <2>1. pull' \in [Pullers -> Pull]
    BY <1>5, <1>6, <1>8, NoPullType DEF Shape
  <2> QED  BY <1>3, <1>5, <1>7, <1>8, <2>1 DEF PullGoesOn
<1>11. UNCHANGED <<channel, mapping, rows, crashes, world>> /\ pull[p].due = {}
  BY DEF UpsertOrder
<1>12. /\ pull'[p].todo = pull[p].todo \ {o}
       /\ pull'[p].due = DueStages(o, UpsertedRow(p, o), LateLines(p, o))
       /\ pull'[p].due # {} => /\ pull'[p].current = o
                               /\ pull'[p].items = UpsertedRow(p, o).variant
                               /\ pull'[p].late = LateLines(p, o)
  BY <1>5, <1>7, <1>8, <1>9
<1> QED  BY <1>1, <1>2, <1>4, <1>10, <1>11, <1>12

LEMMA StageDoneEffect ==
  ASSUME Shape, NEW p \in Pullers, NEW stage \in pull[p].due, StageDone(p, stage)
  PROVE  /\ PullGoesOn(p)
         /\ pull'[p].todo = pull[p].todo /\ pull'[p].due = pull[p].due \ {stage}
         /\ pull'[p].due # {} => /\ pull'[p].current = pull[p].current
                                 /\ pull'[p].items = pull[p].items
                                 /\ pull'[p].late = pull[p].late
<1> DEFINE w == [pull[p] EXCEPT !.due = @ \ {stage}]
<1>1. pull[p] \in Pull
  BY DEF Shape
<1>2. /\ w \in Pull /\ w.todo = pull[p].todo /\ w.due = pull[p].due \ {stage}
      /\ w.current = pull[p].current /\ w.items = pull[p].items /\ w.late = pull[p].late
      /\ w.fetched = pull[p].fetched /\ w.resolution = pull[p].resolution
  BY <1>1 DEF Pull
<1>3. pull' = [pull EXCEPT ![p] = Settled(w)]
  BY DEF StageDone
<1> HIDE DEF w
<1>4. pull'[p] = Settled(w) /\ \A q \in Pullers : q # p => pull'[q] = pull[q]
  BY <1>3 DEF Shape
<1>5. (Settled(w) = NoPull /\ w.todo = {} /\ w.due = {}) \/ Settled(w) = w
  BY DEF Settled
<1>6. NoPull.todo = {} /\ NoPull.due = {}
  BY DEF NoPull
<1>7. pull[p] # NoPull
  BY <1>6
<1>8. pull' \in [Pullers -> Pull]
  BY <1>2, <1>3, <1>5, NoPullType DEF Shape
<1> QED  BY <1>2, <1>4, <1>5, <1>6, <1>7, <1>8 DEF PullGoesOn

\* What all stages of a pull have in common.
LEMMA StageEffect ==
  ASSUME OrderInv, NEW p \in Pullers, StageStep(p)
  PROVE  /\ UNCHANGED <<channel, mapping, task, crashes, world>>
         /\ PullGoesOn(p) /\ pull[p].due # {} /\ pull[p].current \in OrderIds
         /\ pull'[p].todo = pull[p].todo
         /\ pull'[p].due # {} => /\ pull'[p].current = pull[p].current
                                 /\ pull'[p].items = pull[p].items
                                 /\ pull'[p].late = pull[p].late
         /\ \E stage \in Stages :
              /\ stage \in pull[p].due /\ pull'[p].due = pull[p].due \ {stage}
              /\ \/ stage = "reserve" /\ Reserve(p)
                 \/ stage = "delta" /\ ReserveDelta(p)
                 \/ stage = "ship" /\ Ship(p)
                 \/ stage = "release" /\ Release(p)
                 \/ stage = "return" /\ OpenReturn(p)
<1>1. PICK stage \in Stages :
        /\ stage \in pull[p].due /\ StageDone(p, stage)
        /\ \/ stage = "reserve" /\ Reserve(p)
           \/ stage = "delta" /\ ReserveDelta(p)
           \/ stage = "ship" /\ Ship(p)
           \/ stage = "release" /\ Release(p)
           \/ stage = "return" /\ OpenReturn(p)
  BY Zenon DEF StageStep, Reserve, ReserveDelta, Ship, Release, OpenReturn, Stages
<1>2. UNCHANGED <<channel, mapping, task, crashes, world>>
  BY <1>1 DEF Reserve, ReserveDelta, Ship, Release, OpenReturn
<1>3. pull[p].current \in OrderIds
  BY <1>1 DEF OrderInv, DueFitsOrder
<1>4. Shape
  BY DEF OrderInv
<1> QED  BY <1>1, <1>2, <1>3, <1>4, StageDoneEffect

LEMMA StartEffect ==
  ASSUME Shape, Sequential, NEW p \in Pullers, StartPull(p)
  PROVE  /\ UNCHANGED <<channel, mapping, order, rows, task, crashes, world>>
         /\ \A q \in Pullers : pull[q] = NoPull
         /\ \A s \in Staff : task[s] = NoTask
         /\ pull' \in [Pullers -> Pull]
         /\ \A q \in Pullers : q # p => pull'[q] = NoPull
         /\ pull'[p].due = {} /\ pull'[p].todo \subseteq world.orders
         /\ pull'[p].fetched = channel /\ pull'[p].resolution = mapping
<1>1. world.orders \subseteq OrderIds
  BY OrdersAssumption DEF Shape, Scenario
<1>0. PICK listed \in SUBSET world.orders :
        pull' = [pull EXCEPT ![p] = [NoPull EXCEPT !.todo = listed, !.fetched = channel,
                                                   !.resolution = mapping]]
  BY DEF StartPull
<1> DEFINE w == [NoPull EXCEPT !.todo = listed, !.fetched = channel, !.resolution = mapping]
<1>2. /\ w \in Pull /\ w.due = {} /\ w.todo = listed /\ w.fetched = channel
      /\ w.resolution = mapping
  <2>1. w.due = {}
    BY DEF NoPull
  <2> QED  BY <1>1, <2>1, NoPullType DEF Shape, Pull
<1>3. pull' = [pull EXCEPT ![p] = w]
  BY <1>0
<1> HIDE DEF w
<1>4. /\ \A q \in Pullers : pull[q] = NoPull
      /\ \A s \in Staff : task[s] = NoTask
      /\ UNCHANGED <<channel, mapping, order, rows, task, crashes, world>>
  BY DEF StartPull, Idle, PullIdle
<1> QED  BY <1>2, <1>3, <1>4 DEF Shape

-----------------------------------------------------------------------------
(* One operation at a time.                                                *)

LEMMA InitShape == Init => Shape
<1> SUFFICES ASSUME Init  PROVE Shape
  OBVIOUS
<1> USE OrdersAssumption DEF Init
<1>1. pull \in [Pullers -> Pull] /\ task \in [Staff -> Task]
  BY NoPullType, NoTaskType
<1>2. channel \in [OrderIds -> ChannelOrder] /\ order \in [OrderIds -> OrderRow]
  BY DEF ChannelOrder, Statuses, OrderRow, NewOrder, Mapping, NoMapping
<1>3. rows \in [OrderIds -> [Listings -> LedgerCount]]
  BY DEF LedgerCount
<1>4. mapping \in Mapping /\ crashes \in 0..world.crashes /\ world \in Scenarios
  BY DEF Scenario, Mapping
<1> QED  BY <1>1, <1>2, <1>3, <1>4 DEF Shape

LEMMA InitOrderInv == Init => OrderInv
<1> SUFFICES ASSUME Init  PROVE OrderInv
  OBVIOUS
<1>1. Shape
  BY InitShape
<1>2. /\ \A p \in Pullers : pull[p] = NoPull /\ pull[p].due = {}
      /\ \A s \in Staff : task[s] = NoTask
  BY DEF Init, NoPull
<1>3. /\ \A o \in OrderIds, l \in Listings : rows[o][l].RESERVE = 0
      /\ \A o \in OrderIds : ~order[o].applied /\ ~order[o].shipped /\ ~order[o].reverted
  BY DEF Init, NewOrder
<1>4. Alone /\ ReservedOnce /\ StampsInOrder
  BY <1>2, <1>3 DEF Alone, ReservedOnce, StampsInOrder
<1>5. DueFitsOrder /\ LateUnreserved /\ ReadIsFresh
  BY <1>2 DEF DueFitsOrder, LateUnreserved, ReadIsFresh
<1> QED  BY <1>1, <1>4, <1>5 DEF OrderInv

\* Orders change at the marketplace, the catalogue maps: the program's own
\* state stays as it is.
LEMMA OutsideInv ==
  ASSUME OrderInv, UNCHANGED <<order, rows, pull, task, crashes, world>>,
         channel' \in [OrderIds -> ChannelOrder], mapping' \in Mapping
  PROVE  OrderInv'
<1>1. Shape'
  BY DEF OrderInv, Shape
<1>2. Alone' /\ ReservedOnce' /\ StampsInOrder'
  BY DEF OrderInv, Alone, ReservedOnce, StampsInOrder
<1>3. DueFitsOrder' /\ LateUnreserved'
  BY DEF OrderInv, DueFitsOrder, LateUnreserved
<1>4. ReadIsFresh'
  BY DEF OrderInv, ReadIsFresh
<1> QED  BY <1>1, <1>2, <1>3, <1>4 DEF OrderInv

LEMMA StartInv ==
  ASSUME OrderInv, Sequential, NEW p \in Pullers, StartPull(p)
  PROVE  OrderInv'
<1>0. Shape
  BY DEF OrderInv
<1>1. Shape'
  BY <1>0, StartEffect DEF Shape
<1>2. Alone'
  BY <1>0, StartEffect DEF Alone
<1>3. ReservedOnce' /\ StampsInOrder'
  BY <1>0, StartEffect DEF OrderInv, ReservedOnce, StampsInOrder
<1>4. \A q \in Pullers : pull'[q].due = {}
  BY <1>0, StartEffect DEF NoPull
<1>5. DueFitsOrder' /\ LateUnreserved'
  BY <1>4 DEF DueFitsOrder, LateUnreserved
<1>6. ReadIsFresh'
  BY <1>0, StartEffect DEF ReadIsFresh
<1> QED  BY <1>1, <1>2, <1>3, <1>5, <1>6 DEF OrderInv

\* The saved row keeps the stamps, and the variants of what is reserved.
LEMMA UpsertedRowFields ==
  ASSUME Shape, NEW p \in Pullers, NEW o \in OrderIds
  PROVE  LET row == UpsertedRow(p, o) IN
         /\ row \in OrderRow /\ row.saved /\ row.status = pull[p].fetched[o].status
         /\ row.applied = order[o].applied /\ row.shipped = order[o].shipped
         /\ row.reverted = order[o].reverted
         /\ row.variant = UpsertedVariants(o, order[o], pull[p].resolution)
         /\ \A l \in Lines(o) : order[o].applied /\ order[o].variant[l] # Unmapped =>
              row.variant[l] = order[o].variant[l]
<1>1. order[o] \in OrderRow /\ pull[p].fetched[o].status \in Statuses
  BY DEF Shape, Pull, ChannelOrder
<1>2. UpsertedVariants(o, order[o], pull[p].resolution) \in Mapping
  BY UpsertedVariantsType
<1>3. \A l \in Lines(o) : order[o].applied /\ order[o].variant[l] # Unmapped =>
        UpsertedVariants(o, order[o], pull[p].resolution)[l] = order[o].variant[l]
  BY DEF UpsertedVariants, Lines
<1> QED  BY <1>1, <1>2, <1>3 DEF UpsertedRow, OrderRow

LEMMA NaturalRows ==
  ASSUME Shape
  PROVE  \A o \in OrderIds, l \in Listings :
           rows[o][l].RESERVE \in Nat /\ rows[o][l].SHIP \in Nat /\ rows[o][l].RELEASE \in Nat
BY OrdersAssumption DEF Shape, LedgerCount

LEMMA UpsertInv ==
  ASSUME OrderInv, NEW p \in Pullers, UpsertOrder(p)
  PROVE  OrderInv'
<1>0. Shape /\ Alone
  BY DEF OrderInv
<1>1. PICK o \in OrderIds :
        /\ o \in pull[p].todo /\ pull'[p].todo = pull[p].todo \ {o}
        /\ order' = [order EXCEPT ![o] = UpsertedRow(p, o)]
        /\ pull'[p].due = DueStages(o, UpsertedRow(p, o), LateLines(p, o))
        /\ pull'[p].due # {} => /\ pull'[p].current = o
                                /\ pull'[p].items = UpsertedRow(p, o).variant
                                /\ pull'[p].late = LateLines(p, o)
  BY <1>0, UpsertEffect
<1>2. /\ UNCHANGED <<channel, mapping, rows, task, crashes, world>>
      /\ PullGoesOn(p)
  BY <1>0, UpsertEffect
<1>3. /\ \A q \in Pullers : q # p => pull'[q] = NoPull
      /\ \A s \in Staff : task'[s] = NoTask
  BY <1>0, <1>2, PullAlone DEF PullGoesOn
<1> DEFINE row == UpsertedRow(p, o)
<1>4. /\ row \in OrderRow /\ row.saved
      /\ row.applied = order[o].applied /\ row.shipped = order[o].shipped
      /\ row.reverted = order[o].reverted
      /\ \A l \in Lines(o) : order[o].applied /\ order[o].variant[l] # Unmapped =>
           row.variant[l] = order[o].variant[l]
  BY <1>0, UpsertedRowFields
<1>5. order'[o] = row /\ \A q \in OrderIds : q # o => order'[q] = order[q]
  BY <1>0, <1>1 DEF Shape
<1> HIDE DEF row
<1>6. Shape'
  <2>1. order' \in [OrderIds -> OrderRow]
    BY <1>0, <1>1, <1>4 DEF Shape, row
  <2> QED  BY <1>0, <1>2, <2>1 DEF Shape, PullGoesOn
<1>7. Alone'
  BY <1>3 DEF Alone
<1>8. ReservedOnce'
  <2>1. \A l \in Listings : l \in Resolved(o, order[o].variant) /\ order[o].applied =>
          l \in Resolved(o, row.variant)
    BY <1>4 DEF Resolved
  <2> QED  BY <1>2, <1>4, <1>5, <2>1 DEF OrderInv, ReservedOnce
<1>9. StampsInOrder'
  BY <1>4, <1>5 DEF OrderInv, StampsInOrder
<1>10. \A q \in Pullers : q # p => pull'[q].due = {}
  BY <1>3 DEF NoPull
<1>11. DueFitsOrder'
  <2> SUFFICES ASSUME pull'[p].due # {}
               PROVE  LET w == pull'[p] IN
                      /\ w.current \in OrderIds \ w.todo
                      /\ w.items = row.variant /\ row.saved
                      /\ "reserve" \in w.due => ~row.applied /\ PaidOrBeyond(row.status)
                                                /\ (row.status = "PAID" \/ "ship" \in w.due)
                      /\ "delta" \in w.due => row.applied /\ OpenOrder(row)
                      /\ "ship" \in w.due \/ "release" \in w.due =>
                           OpenOrder(row) /\ (row.applied \/ "reserve" \in w.due)
                      /\ "release" \in w.due => row.status = "CANCELLED" /\ "ship" \notin w.due
    BY <1>1, <1>5, <1>10 DEF DueFitsOrder
  <2>1. row.shipped => row.applied
    BY <1>4 DEF OrderInv, StampsInOrder
  <2>2. pull'[p].due = DueStages(o, row, LateLines(p, o))
    BY <1>1 DEF row
  <2>3. row.applied \in BOOLEAN /\ row.shipped \in BOOLEAN /\ row.reverted \in BOOLEAN
    BY <1>4 DEF OrderRow
  <2> QED
    BY <1>1, <1>4, <2>1, <2>2, <2>3 DEF DueStages, Stages, ReserveDue, PaidOrBeyond, OpenOrder, row
<1>12. LateUnreserved'
  <2>1. ASSUME "delta" \in pull'[p].due
        PROVE  /\ pull'[p].late \subseteq Resolved(o, row.variant)
               /\ \A l \in pull'[p].late : rows[o][l].RESERVE = 0
    <3>1. pull'[p].late = LateLines(p, o) /\ row.variant =
             UpsertedVariants(o, order[o], pull[p].resolution)
      BY <1>0, <1>1, <2>1, UpsertedRowFields DEF row
    <3>2. \A l \in LateLines(p, o) : l \in Listings /\ order[o].variant[l] = Unmapped
      BY DEF LateLines, Resolved, Lines
    <3>3. \A l \in LateLines(p, o) : ~(rows[o][l].RESERVE > 0)
      BY <3>2 DEF OrderInv, ReservedOnce, Resolved
    <3> QED  BY <1>0, <3>1, <3>2, <3>3, NaturalRows DEF LateLines
  <2> QED  BY <1>1, <1>2, <1>5, <1>10, <2>1 DEF LateUnreserved
<1>13. ReadIsFresh'
  BY <1>3 DEF ReadIsFresh
<1> QED  BY <1>6, <1>7, <1>8, <1>9, <1>11, <1>12, <1>13 DEF OrderInv

\* The lines a stage of pull p makes movements of one kind for.
MovedBy(p, stage, kind) ==
  LET lines == Resolved(pull[p].current, pull[p].items)
      cancelled == pull[p].fetched[pull[p].current].cancelled IN
  CASE kind = "RESERVE" -> IF stage = "reserve" THEN lines
                           ELSE IF stage = "delta" THEN pull[p].late ELSE {}
    [] kind = "SHIP" -> IF stage = "ship" THEN lines \ cancelled ELSE {}
    [] kind = "RELEASE" -> IF stage = "ship" THEN lines \cap cancelled
                           ELSE IF stage = "release" THEN lines ELSE {}

\* A stage stamps the order it is at, and moves some of its lines.
Staged(p, stage) ==
  LET o == pull[p].current IN
  /\ order' \in [OrderIds -> OrderRow] /\ rows' \in [OrderIds -> [Listings -> LedgerCount]]
  /\ \A q \in OrderIds : q # o => order'[q] = order[q] /\ rows'[q] = rows[q]
  /\ order'[o].saved = order[o].saved /\ order'[o].status = order[o].status
  /\ order'[o].variant = order[o].variant
  /\ order'[o].applied = (order[o].applied \/ stage = "reserve")
  /\ order'[o].shipped = (order[o].shipped \/ stage = "ship")
  /\ order'[o].reverted = (order[o].reverted \/ stage = "release")
  /\ \A l \in Listings, kind \in LedgerKinds :
       rows'[o][l][kind] = IF l \in MovedBy(p, stage, kind) THEN rows[o][l][kind] + 1
                           ELSE rows[o][l][kind]

LEMMA StageStaged ==
  ASSUME OrderInv, NEW p \in Pullers, StageStep(p)
  PROVE  \E stage \in Stages :
           /\ stage \in pull[p].due /\ pull'[p].due = pull[p].due \ {stage}
           /\ stage \in {"ship", "release"} => ~Reserving(p)
           /\ Staged(p, stage)
<1> DEFINE o == pull[p].current  lines == Resolved(o, pull[p].items)
<1>1. /\ o \in OrderIds /\ order \in [OrderIds -> OrderRow]
      /\ rows \in [OrderIds -> [Listings -> LedgerCount]]
  BY StageEffect DEF OrderInv, Shape
<1>2. lines \subseteq Listings /\ pull[p].late \subseteq Listings
  BY DEF Resolved, Lines, OrderInv, Shape, Pull
<1>3. PICK stage \in Stages :
        /\ stage \in pull[p].due /\ pull'[p].due = pull[p].due \ {stage}
        /\ \/ stage = "reserve" /\ Reserve(p)
           \/ stage = "delta" /\ ReserveDelta(p)
           \/ stage = "ship" /\ Ship(p)
           \/ stage = "release" /\ Release(p)
           \/ stage = "return" /\ OpenReturn(p)
  BY StageEffect
<1> SUFFICES Staged(p, stage) /\ (stage \in {"ship", "release"} => ~Reserving(p))
  BY SMTT(30), <1>3
<1>4. CASE stage = "reserve" /\ Reserve(p)
  <2>1. /\ order' = [order EXCEPT ![o].applied = TRUE]
        /\ rows' = Recorded(rows, "RESERVE", o, lines)
        /\ \A l \in lines : rows[o][l]["RESERVE"] < MaxRows
    BY <1>4 DEF Reserve, RoomFor
  <2>2. rows' \in [OrderIds -> [Listings -> LedgerCount]]
    BY <1>1, <2>1, RecordedType DEF LedgerKinds
  <2>3. /\ \A q \in OrderIds : q # o => rows'[q] = rows[q]
        /\ \A l \in Listings, k \in LedgerKinds :
             rows'[o][l][k] = IF l \in lines /\ k = "RESERVE" THEN rows[o][l][k] + 1
                              ELSE rows[o][l][k]
    BY <1>1, <2>1, RecordedAt DEF LedgerKinds
  <2>4. \A l \in Listings, k \in LedgerKinds :
          rows'[o][l][k] = IF l \in MovedBy(p, stage, k) THEN rows[o][l][k] + 1
                           ELSE rows[o][l][k]
    BY <1>4, <2>3 DEF MovedBy, LedgerKinds
  <2>5. order' \in [OrderIds -> OrderRow]
    BY <1>1, <2>1 DEF OrderRow
  <2> QED  BY ZenonT(60), <1>1, <1>4, <2>1, <2>2, <2>3, <2>4, <2>5 DEF Staged, OrderRow
<1>5. CASE stage = "delta" /\ ReserveDelta(p)
  <2>1. /\ order' = order
        /\ rows' = Recorded(rows, "RESERVE", o, pull[p].late)
        /\ \A l \in pull[p].late : rows[o][l]["RESERVE"] < MaxRows
    BY <1>5 DEF ReserveDelta, RoomFor
  <2>2. rows' \in [OrderIds -> [Listings -> LedgerCount]]
    BY <1>1, <2>1, RecordedType DEF LedgerKinds
  <2>3. /\ \A q \in OrderIds : q # o => rows'[q] = rows[q]
        /\ \A l \in Listings, k \in LedgerKinds :
             rows'[o][l][k] = IF l \in pull[p].late /\ k = "RESERVE" THEN rows[o][l][k] + 1
                              ELSE rows[o][l][k]
    BY <1>1, <2>1, RecordedAt DEF LedgerKinds
  <2>4. \A l \in Listings, k \in LedgerKinds :
          rows'[o][l][k] = IF l \in MovedBy(p, stage, k) THEN rows[o][l][k] + 1
                           ELSE rows[o][l][k]
    BY <1>5, <2>3 DEF MovedBy, LedgerKinds
  <2>5. order' \in [OrderIds -> OrderRow]
    BY SMTT(30), <1>1, <2>1 DEF OrderRow
  <2> QED  BY <1>1, <1>5, <2>1, <2>2, <2>3, <2>4, <2>5 DEF Staged, OrderRow
<1>6. CASE stage = "ship" /\ Ship(p)
  <2> DEFINE back == lines \cap pull[p].fetched[o].cancelled  gone == lines \ back
             shipped == Recorded(rows, "SHIP", o, gone)
  <2>1. /\ order' = [order EXCEPT ![o].shipped = TRUE] /\ ~Reserving(p)
        /\ rows' = Recorded(shipped, "RELEASE", o, back)
        /\ \A l \in gone : rows[o][l]["SHIP"] < MaxRows
        /\ \A l \in back : rows[o][l]["RELEASE"] < MaxRows
    BY <1>6 DEF Ship, RoomFor
  <2>2. shipped \in [OrderIds -> [Listings -> LedgerCount]]
    BY <1>1, <2>1, RecordedType DEF LedgerKinds
  <2>3. /\ \A q \in OrderIds : q # o => shipped[q] = rows[q]
        /\ \A l \in Listings, k \in LedgerKinds :
             shipped[o][l][k] = IF l \in gone /\ k = "SHIP" THEN rows[o][l][k] + 1
                                ELSE rows[o][l][k]
    <3> HIDE DEF gone
    <3> QED  BY <1>1, RecordedAt DEF LedgerKinds
  <2> HIDE DEF shipped
  <2>4. \A l \in Listings \cap back : shipped[o][l]["RELEASE"] < MaxRows
    BY <2>1, <2>3 DEF LedgerKinds
  <2>5. rows' \in [OrderIds -> [Listings -> LedgerCount]]
    <3> HIDE DEF back
    <3> QED  BY <1>1, <2>1, <2>2, <2>4, RecordedType DEF LedgerKinds
  <2>6. /\ \A q \in OrderIds : q # o => rows'[q] = shipped[q]
        /\ \A l \in Listings, k \in LedgerKinds :
             rows'[o][l][k] = IF l \in back /\ k = "RELEASE" THEN shipped[o][l][k] + 1
                              ELSE shipped[o][l][k]
    <3>1. rows' = Recorded(shipped, "RELEASE", o, back) /\ o \in OrderIds
      BY <1>1, <2>1
    <3> HIDE DEF back, o
    <3> QED  BY <2>2, <3>1, RecordedAt DEF LedgerKinds
  <2>7. \A l \in Listings, k \in LedgerKinds :
          rows'[o][l][k] = IF l \in MovedBy(p, stage, k) THEN rows[o][l][k] + 1
                           ELSE rows[o][l][k]
    <3>1. /\ MovedBy(p, stage, "RESERVE") = {}
          /\ MovedBy(p, stage, "SHIP") = gone /\ MovedBy(p, stage, "RELEASE") = back
      BY <1>6 DEF MovedBy
    <3> QED  BY <2>3, <2>6, <3>1 DEF LedgerKinds
  <2>8. order' \in [OrderIds -> OrderRow]
    BY ZenonT(60), <1>1, <2>1 DEF OrderRow
  <2>9. /\ \A q \in OrderIds : q # o => order'[q] = order[q] /\ rows'[q] = rows[q]
        /\ order'[o] = [order[o] EXCEPT !.shipped = TRUE]
    BY Zenon, <1>1, <2>1, <2>3, <2>6
  <2> QED  BY ZenonT(60), <1>1, <1>6, <2>1, <2>5, <2>7, <2>8, <2>9 DEF Staged, OrderRow
<1>7. CASE stage = "release" /\ Release(p)
  <2>1. /\ order' = [order EXCEPT ![o].reverted = TRUE] /\ ~Reserving(p)
        /\ rows' = Recorded(rows, "RELEASE", o, lines)
        /\ \A l \in lines : rows[o][l]["RELEASE"] < MaxRows
    BY <1>7 DEF Release, RoomFor
  <2>2. rows' \in [OrderIds -> [Listings -> LedgerCount]]
    BY <1>1, <2>1, RecordedType DEF LedgerKinds
  <2>3. /\ \A q \in OrderIds : q # o => rows'[q] = rows[q]
        /\ \A l \in Listings, k \in LedgerKinds :
             rows'[o][l][k] = IF l \in lines /\ k = "RELEASE" THEN rows[o][l][k] + 1
                              ELSE rows[o][l][k]
    BY <1>1, <2>1, RecordedAt DEF LedgerKinds
  <2>4. \A l \in Listings, k \in LedgerKinds :
          rows'[o][l][k] = IF l \in MovedBy(p, stage, k) THEN rows[o][l][k] + 1
                           ELSE rows[o][l][k]
    BY <1>7, <2>3 DEF MovedBy, LedgerKinds
  <2>5. order' \in [OrderIds -> OrderRow]
    BY <1>1, <2>1 DEF OrderRow
  <2> QED  BY ZenonT(60), <1>1, <1>7, <2>1, <2>2, <2>3, <2>4, <2>5 DEF Staged, OrderRow
<1>8. CASE stage = "return" /\ OpenReturn(p)
  BY <1>1, <1>8 DEF OpenReturn, Staged, MovedBy, LedgerKinds, OrderRow
<1> QED  BY <1>3, <1>4, <1>5, <1>6, <1>7, <1>8

LEMMA StageInvariant ==
  ASSUME OrderInv, NEW p \in Pullers, StageStep(p)
  PROVE  OrderInv'
<1> DEFINE o == pull[p].current
<1>1. /\ UNCHANGED <<channel, mapping, task, crashes, world>>
      /\ PullGoesOn(p) /\ pull[p].due # {} /\ o \in OrderIds
      /\ pull'[p].todo = pull[p].todo
      /\ pull'[p].due # {} => pull'[p].current = o /\ pull'[p].items = pull[p].items
                              /\ pull'[p].late = pull[p].late
  BY StageEffect
<1>2. PICK stage \in Stages :
        /\ stage \in pull[p].due /\ pull'[p].due = pull[p].due \ {stage}
        /\ stage \in {"ship", "release"} => ~Reserving(p)
        /\ Staged(p, stage)
  BY StageStaged
<1>3. /\ \A q \in Pullers : q # p => pull'[q] = NoPull /\ pull'[q].due = {}
      /\ \A s \in Staff : task'[s] = NoTask
  <2>1. Alone /\ NoPull.due = {}
    BY DEF OrderInv, NoPull
  <2> QED  BY <1>1, <2>1, PullAlone DEF PullGoesOn
<1>4. /\ o \notin pull[p].todo /\ pull[p].items = order[o].variant /\ order[o].saved
      /\ "reserve" \in pull[p].due => ~order[o].applied /\ PaidOrBeyond(order[o].status)
                           /\ (order[o].status = "PAID" \/ "ship" \in pull[p].due)
      /\ "delta" \in pull[p].due => order[o].applied /\ OpenOrder(order[o])
      /\ "ship" \in pull[p].due \/ "release" \in pull[p].due =>
           OpenOrder(order[o]) /\ (order[o].applied \/ "reserve" \in pull[p].due)
      /\ "release" \in pull[p].due => order[o].status = "CANCELLED" /\ "ship" \notin pull[p].due
  BY <1>1 DEF OrderInv, DueFitsOrder
<1>5. "delta" \in pull[p].due => /\ pull[p].late \subseteq Resolved(o, order[o].variant)
                                 /\ \A l \in pull[p].late : rows[o][l].RESERVE = 0
  BY SMTT(30), <1>1 DEF OrderInv, LateUnreserved
<1>6. /\ order' \in [OrderIds -> OrderRow] /\ rows' \in [OrderIds -> [Listings -> LedgerCount]]
      /\ \A q \in OrderIds : q # o => order'[q] = order[q] /\ rows'[q] = rows[q]
      /\ order'[o].saved = order[o].saved /\ order'[o].status = order[o].status
      /\ order'[o].variant = order[o].variant
      /\ order'[o].applied = (order[o].applied \/ stage = "reserve")
      /\ order'[o].shipped = (order[o].shipped \/ stage = "ship")
      /\ order'[o].reverted = (order[o].reverted \/ stage = "release")
      /\ \A l \in Listings : rows'[o][l].RESERVE =
           IF l \in MovedBy(p, stage, "RESERVE") THEN rows[o][l].RESERVE + 1
           ELSE rows[o][l].RESERVE
  BY <1>2 DEF Staged, LedgerKinds
<1>7. Shape'
  BY <1>1, <1>6 DEF OrderInv, Shape, PullGoesOn
<1>8. Alone'
  BY <1>3 DEF Alone
<1>9. ReservedOnce'
  <2>1. ASSUME NEW l \in Listings, l \in MovedBy(p, stage, "RESERVE")
        PROVE  /\ rows[o][l].RESERVE = 0 /\ order'[o].applied
               /\ l \in Resolved(o, order[o].variant)
    <3>1. CASE stage = "reserve"
      <4>1. rows[o][l].RESERVE = 0
        BY <1>1, <1>2, <1>4, <3>1, NaturalRows DEF OrderInv, ReservedOnce
      <4> QED  BY <1>4, <1>6, <2>1, <3>1, <4>1 DEF MovedBy
    <3>2. CASE stage = "delta"
      BY <1>2, <1>4, <1>5, <1>6, <2>1, <3>2 DEF MovedBy
    <3> QED  BY <2>1, <3>1, <3>2 DEF MovedBy
  <2>2. ASSUME NEW l \in Listings, l \notin MovedBy(p, stage, "RESERVE"), rows[o][l].RESERVE > 0
        PROVE  /\ rows'[o][l].RESERVE = 1 /\ order'[o].applied
               /\ l \in Resolved(o, order'[o].variant)
    BY ZenonT(60), <1>1, <1>6, <2>2 DEF OrderInv, ReservedOnce
  <2>3. ASSUME NEW l \in Listings, rows'[o][l].RESERVE > 0
        PROVE  /\ rows'[o][l].RESERVE = 1 /\ order'[o].applied
               /\ l \in Resolved(o, order'[o].variant)
    BY <1>6, <2>1, <2>2, <2>3
  <2>4. ASSUME NEW q \in OrderIds, q # o, NEW l \in Listings, rows'[q][l].RESERVE > 0
        PROVE  /\ rows'[q][l].RESERVE = 1 /\ order'[q].applied
               /\ l \in Resolved(q, order'[q].variant)
    BY <1>6, <2>4 DEF OrderInv, ReservedOnce
  <2> QED  BY <2>3, <2>4 DEF ReservedOnce
<1>10. StampsInOrder'
  BY <1>1, <1>2, <1>4, <1>6 DEF OrderInv, StampsInOrder, Reserving
<1>11. DueFitsOrder'
  <2> SUFFICES ASSUME pull'[p].due # {}
               PROVE  LET w == pull'[p]  row == order'[o] IN
                      /\ w.current = o /\ o \notin w.todo
                      /\ w.items = row.variant /\ row.saved
                      /\ "reserve" \in w.due => ~row.applied /\ PaidOrBeyond(row.status)
                                                /\ (row.status = "PAID" \/ "ship" \in w.due)
                      /\ "delta" \in w.due => row.applied /\ OpenOrder(row)
                      /\ "ship" \in w.due \/ "release" \in w.due =>
                           OpenOrder(row) /\ (row.applied \/ "reserve" \in w.due)
                      /\ "release" \in w.due => row.status = "CANCELLED" /\ "ship" \notin w.due
    BY <1>1, <1>3 DEF DueFitsOrder
  <2>1. stage \in {"ship", "release"} => pull'[p].due \cap {"reserve", "delta", "ship", "release"} = {}
    BY <1>2, <1>4 DEF Reserving
  <2>2. stage = "reserve" => "delta" \notin pull[p].due
    BY <1>2, <1>4
  <2>3. \/ order'[o].shipped = order[o].shipped /\ order'[o].reverted = order[o].reverted
        \/ stage \in {"ship", "release"}
    BY <1>6 DEF OrderInv, Shape, OrderRow
  <2>4. order'[o].applied = order[o].applied \/ stage = "reserve"
    BY <1>6 DEF OrderInv, Shape, OrderRow
  <2> QED  BY <1>1, <1>2, <1>4, <1>6, <2>1, <2>2, <2>3, <2>4 DEF OpenOrder
<1>12. LateUnreserved'
  <2> SUFFICES ASSUME "delta" \in pull'[p].due
               PROVE  /\ pull[p].late \subseteq Resolved(o, order[o].variant)
                      /\ \A l \in pull[p].late : rows'[o][l].RESERVE = 0
    BY <1>1, <1>3, <1>6 DEF LateUnreserved
  <2>1. stage = "return"
    BY <1>2, <1>4 DEF Reserving, Stages
  <2>2. MovedBy(p, stage, "RESERVE") = {}
    BY <2>1 DEF MovedBy
  <2> QED  BY <1>2, <1>5, <1>6, <2>2 DEF OrderInv, Shape, Pull
<1>13. ReadIsFresh'
  BY <1>3 DEF ReadIsFresh
<1> QED  BY <1>7, <1>8, <1>9, <1>10, <1>11, <1>12, <1>13 DEF OrderInv

-----------------------------------------------------------------------------
(* The staff, one operation at a time.                                     *)

\* Only order o and its ledger rows change: lines get a row of one kind.
RowsAdded(o, kind, lines) ==
  /\ rows' \in [OrderIds -> [Listings -> LedgerCount]]
  /\ \A q \in OrderIds : q # o => rows'[q] = rows[q]
  /\ \A l \in Listings, k \in LedgerKinds :
       rows'[o][l][k] = IF l \in lines /\ k = kind THEN rows[o][l][k] + 1 ELSE rows[o][l][k]

RowChanged(o, row) ==
  /\ order' = [order EXCEPT ![o] = row] /\ row \in OrderRow
  /\ order' \in [OrderIds -> OrderRow]
  /\ order'[o] = row
  /\ \A q \in OrderIds : q # o => order'[q] = order[q]

LEMMA RecordedRows ==
  ASSUME Shape, NEW kind \in LedgerKinds, NEW o \in OrderIds, NEW lines,
         RoomFor(kind, o, lines), rows' = Recorded(rows, kind, o, lines)
  PROVE  RowsAdded(o, kind, lines)
<1>1. \A l \in Listings \cap lines : rows[o][l][kind] < MaxRows
  BY DEF RoomFor
<1>2. rows \in [OrderIds -> [Listings -> LedgerCount]]
  BY DEF Shape
<1> QED  BY <1>1, <1>2, RecordedAt, RecordedType DEF RowsAdded

LEMMA RowChange ==
  ASSUME Shape, NEW o \in OrderIds, NEW row \in OrderRow, order' = [order EXCEPT ![o] = row]
  PROVE  RowChanged(o, row)
BY DEF Shape, RowChanged

\* A staff request that was let in.
LetIn(t) ==
  /\ t \in Task /\ t # NoTask /\ t.order \in OrderIds /\ t.op \in world.ops /\ t.read.saved
  /\ t.op = "ship" => ShipGuard(t.read)
  /\ t.op = "cancel" => CancelGuard(t.read)
  /\ t.op = "resolve" => t.fresh

LEMMA LoadEffect ==
  ASSUME OrderInv, Sequential, NEW s \in Staff, LoadStep(s)
  PROVE  /\ UNCHANGED <<channel, mapping, order, rows, pull, crashes, world>>
         /\ \A p \in Pullers : pull[p] = NoPull
         /\ \A t \in Staff : task[t] = NoTask
         /\ task' \in [Staff -> Task]
         /\ \A t \in Staff : t # s => task'[t] = NoTask
         /\ LetIn(task'[s]) /\ task'[s].step = 1
         /\ task'[s].read = order[task'[s].order]
<1>1. PICK o \in OrderIds :
        \/ "ship" \in world.ops /\ LoadForShip(s, o)
        \/ "cancel" \in world.ops /\ LoadForCancel(s, o)
        \/ /\ "resolve" \in world.ops
           /\ \E l \in Lines(o), v \in Variants : LoadForResolve(s, o, l, v)
  BY DEF LoadStep
<1>2. order[o] \in OrderRow /\ NoTask \in Task /\ task \in [Staff -> Task]
  BY NoTaskType DEF OrderInv, Shape
<1> DEFINE Loaded(t) == /\ t \in Task /\ t.order = o /\ t.read = order[o] /\ t.step = 1
                        /\ t.op \in world.ops /\ t.op \in {"ship", "cancel", "resolve"}
                        /\ t.op = "ship" => ShipGuard(t.read)
                        /\ t.op = "cancel" => CancelGuard(t.read)
                        /\ t.op = "resolve" => t.fresh /\ order[o].saved
<1>3. \E t : Loaded(t) /\ BeginTask(s, t)
  <2>1. CASE "ship" \in world.ops /\ LoadForShip(s, o)
    <3> DEFINE t == [NoTask EXCEPT !.op = "ship", !.order = o, !.read = order[o]]
    <3>1. Loaded(t)
      BY <1>2, <2>1, NoTaskFields DEF LoadForShip, Task
    <3> QED  BY <2>1, <3>1 DEF LoadForShip
  <2>2. CASE "cancel" \in world.ops /\ LoadForCancel(s, o)
    <3> DEFINE t == [NoTask EXCEPT !.op = "cancel", !.order = o, !.read = order[o]]
    <3>1. Loaded(t)
      BY <1>2, <2>2, NoTaskFields DEF LoadForCancel, Task
    <3> QED  BY <2>2, <3>1 DEF LoadForCancel
  <2>3. ASSUME "resolve" \in world.ops, NEW l \in Lines(o), NEW v \in Variants,
               LoadForResolve(s, o, l, v)
        PROVE  \E t : Loaded(t) /\ BeginTask(s, t)
    <3> DEFINE t == [NoTask EXCEPT !.op = "resolve", !.order = o, !.read = order[o],
                                   !.fresh = TRUE, !.line = l, !.to = v]
    <3>1. l \in Listings
      BY DEF Lines
    <3>2. Loaded(t)
      BY <1>2, <2>3, <3>1, NoTaskFields DEF LoadForResolve, Task
    <3> QED  BY <2>3, <3>2 DEF LoadForResolve
  <2> QED  BY <1>1, <2>1, <2>2, <2>3
<1>4. PICK t : Loaded(t) /\ BeginTask(s, t)
  BY <1>3
<1>5. /\ UNCHANGED <<channel, mapping, order, rows, pull, crashes, world>>
      /\ task' = [task EXCEPT ![s] = t]
      /\ \A p \in Pullers : pull[p] = NoPull
      /\ \A u \in Staff : task[u] = NoTask
  BY <1>4 DEF BeginTask, Idle, PullIdle
<1>6. task'[s] = t /\ task' \in [Staff -> Task] /\ \A u \in Staff : u # s => task'[u] = task[u]
  BY <1>2, <1>4, <1>5
<1>7. LetIn(t)'
  BY <1>4, <1>5, NoTaskFields DEF LetIn, ShipGuard, CancelGuard
<1> QED  BY <1>4, <1>5, <1>6, <1>7 DEF LetIn

LEMMA LoadInv ==
  ASSUME OrderInv, Sequential, NEW s \in Staff, LoadStep(s)
  PROVE  OrderInv'
<1>1. Shape'
  BY LoadEffect DEF OrderInv, Shape
<1>2. Alone'
  BY LoadEffect DEF Alone
<1>3. ReservedOnce' /\ StampsInOrder'
  BY LoadEffect DEF OrderInv, ReservedOnce, StampsInOrder
<1>4. DueFitsOrder' /\ LateUnreserved'
  BY LoadEffect DEF OrderInv, DueFitsOrder, LateUnreserved
<1>5. ReadIsFresh'
  BY LoadEffect DEF ReadIsFresh, LetIn
<1> QED  BY <1>1, <1>2, <1>3, <1>4, <1>5 DEF OrderInv

\* What all steps of a staff request have in common.
LEMMA TaskEffect ==
  ASSUME OrderInv, NEW s \in Staff, TaskStep(s)
  PROVE  /\ UNCHANGED <<channel, pull, crashes, world>>
         /\ \A p \in Pullers : pull[p] = NoPull
         /\ \A t \in Staff : t # s => task[t] = NoTask /\ task'[t] = NoTask
         /\ LetIn(task[s])
         /\ order[task[s].order] \in OrderRow
         /\ task[s].step < 3 => order[task[s].order] = task[s].read
         /\ task[s].step = 3 => task[s].op = "resolve"
<1>1. Alone /\ task \in [Staff -> Task] /\ order \in [OrderIds -> OrderRow]
  BY DEF OrderInv, Shape
<1>2. task[s] # NoTask /\ UNCHANGED <<channel, pull, crashes, world>>
  BY NoTaskFields DEF TaskStep, MarkShipped, Cancel, ResolveMap, ResolveFill, ResolveReserve
<1>3. \A t \in Staff : t # s => task'[t] = task[t]
  BY <1>1 DEF TaskStep, MarkShipped, Cancel, ResolveMap, ResolveFill, ResolveReserve
<1>4. /\ \A p \in Pullers : pull[p] = NoPull
      /\ \A t \in Staff : t # s => task[t] = NoTask
  BY <1>1, <1>2, TaskAlone
<1>5. /\ LetIn(task[s])
      /\ task[s].step < 3 => order[task[s].order] = task[s].read
      /\ task[s].step = 3 => task[s].op = "resolve"
  BY <1>1, <1>2 DEF OrderInv, ReadIsFresh, LetIn
<1> QED  BY <1>1, <1>2, <1>3, <1>4, <1>5 DEF LetIn

LEMMA MarkShippedEffect ==
  ASSUME OrderInv, NEW s \in Staff, MarkShipped(s)
  PROVE  LET o == task[s].order IN
         /\ UNCHANGED mapping /\ task' = [task EXCEPT ![s] = NoTask]
         /\ "ship" \in world.ops /\ ShipGuard(order[o]) /\ task[s].read = order[o]
         /\ RowChanged(o, [order[o] EXCEPT !.status = "SHIPPED", !.shipped = TRUE])
         /\ RowsAdded(o, "SHIP", Resolved(o, order[o].variant))
<1> DEFINE o == task[s].order
<1>1. /\ task[s].op = "ship" /\ LetIn(task[s]) /\ Shape
      /\ order[o] = task[s].read /\ order[o] \in OrderRow
  <2>1. TaskStep(s)
    BY DEF TaskStep
  <2>2. task[s].op = "ship" /\ LetIn(task[s]) /\ task[s].step \in 1..3
    BY <2>1, TaskEffect DEF MarkShipped, LetIn, Task
  <2>3. task[s].step < 3
    BY <2>1, <2>2, TaskEffect
  <2> QED  BY <2>1, <2>2, <2>3, TaskEffect DEF OrderInv
<1>2. /\ RoomFor("SHIP", o, Resolved(o, order[o].variant))
      /\ rows' = Recorded(rows, "SHIP", o, Resolved(o, order[o].variant))
      /\ order' = [order EXCEPT ![o].status = "SHIPPED", ![o].shipped = TRUE]
      /\ task' = [task EXCEPT ![s] = NoTask] /\ UNCHANGED mapping
  BY <1>1 DEF MarkShipped
<1>3. RowsAdded(o, "SHIP", Resolved(o, order[o].variant))
  BY <1>1, <1>2, RecordedRows DEF LetIn, LedgerKinds
<1>4. [order[o] EXCEPT !.status = "SHIPPED", !.shipped = TRUE] \in OrderRow
  BY <1>1 DEF OrderRow, Statuses
<1>5. order' = [order EXCEPT ![o] = [order[o] EXCEPT !.status = "SHIPPED", !.shipped = TRUE]]
  BY <1>1, <1>2 DEF Shape
<1>6. RowChanged(o, [order[o] EXCEPT !.status = "SHIPPED", !.shipped = TRUE])
  BY <1>1, <1>4, <1>5, RowChange DEF LetIn
<1> QED  BY <1>1, <1>2, <1>3, <1>6 DEF LetIn

LEMMA CancelEffect ==
  ASSUME OrderInv, NEW s \in Staff, Cancel(s)
  PROVE  LET o == task[s].order
             releases == order[o].applied /\ ~order[o].reverted IN
         /\ UNCHANGED mapping /\ task' = [task EXCEPT ![s] = NoTask]
         /\ "cancel" \in world.ops /\ CancelGuard(order[o])
         /\ RowChanged(o, [order[o] EXCEPT !.status = "CANCELLED",
                                           !.reverted = @ \/ releases])
         /\ RowsAdded(o, "RELEASE", IF releases THEN Resolved(o, order[o].variant) ELSE {})
<1> DEFINE o == task[s].order
           releases == order[o].applied /\ ~order[o].reverted
           lines == IF releases THEN Resolved(o, order[o].variant) ELSE {}
           row == [order[o] EXCEPT !.status = "CANCELLED", !.reverted = @ \/ releases]
<1>1. /\ task[s].op = "cancel" /\ LetIn(task[s]) /\ Shape
      /\ order[o] = task[s].read /\ order[o] \in OrderRow
  <2>1. TaskStep(s)
    BY DEF TaskStep
  <2>2. task[s].op = "cancel" /\ LetIn(task[s]) /\ task[s].step \in 1..3
    BY <2>1, TaskEffect DEF Cancel, LetIn, Task
  <2>3. task[s].step < 3
    BY <2>1, <2>2, TaskEffect
  <2> QED  BY <2>1, <2>2, <2>3, TaskEffect DEF OrderInv
<1>2. /\ RoomFor("RELEASE", o, lines)
      /\ rows' = Recorded(rows, "RELEASE", o, lines)
      /\ order' = [order EXCEPT ![o].status = "CANCELLED", ![o].reverted = @ \/ releases]
      /\ task' = [task EXCEPT ![s] = NoTask] /\ UNCHANGED mapping
  BY <1>1 DEF Cancel
<1>3. RowsAdded(o, "RELEASE", lines)
  <2> HIDE DEF lines
  <2> QED  BY <1>1, <1>2, RecordedRows DEF LetIn, LedgerKinds
<1>4. row \in OrderRow
  BY <1>1 DEF OrderRow, Statuses
<1>5. order' = [order EXCEPT ![o] = row]
  BY <1>1, <1>2 DEF Shape
<1>6. RowChanged(o, row)
  <2> HIDE DEF row
  <2> QED  BY <1>1, <1>4, <1>5, RowChange DEF LetIn
<1> QED  BY <1>1, <1>2, <1>3, <1>6 DEF LetIn

LEMMA ResolveMapEffect ==
  ASSUME OrderInv, NEW s \in Staff, ResolveMap(s)
  PROVE  /\ UNCHANGED <<order, rows>> /\ mapping' \in Mapping
         /\ task[s].op = "resolve" /\ task[s].step = 1
         /\ task' = [task EXCEPT ![s].step = 2]
         /\ "resolve" \in world.ops
<1>1. TaskStep(s)
  BY DEF TaskStep
<1>2. LetIn(task[s]) /\ task[s].op = "resolve"
  BY <1>1, TaskEffect DEF ResolveMap
<1>3. task[s].to \in Variants /\ mapping \in Mapping
  BY <1>2 DEF LetIn, Task, OrderInv, Shape
<1> QED  BY <1>2, <1>3 DEF ResolveMap, Mapping, LetIn

LEMMA FilledRowFields ==
  ASSUME NEW t \in Task
  PROVE  LET row == FilledRow(t) IN
         /\ row \in OrderRow
         /\ row.saved = t.read.saved /\ row.status = t.read.status
         /\ row.applied = t.read.applied /\ row.shipped = t.read.shipped
         /\ row.reverted = t.read.reverted
         /\ \A l \in Listings : l \notin NewlyResolved(t) => row.variant[l] = t.read.variant[l]
         /\ \A l \in Listings : l \in NewlyResolved(t) => row.variant[l] = t.to
         /\ NewlyResolved(t) \subseteq Lines(t.order) \ Resolved(t.order, t.read.variant)
         /\ NewlyResolved(t) \subseteq Resolved(t.order, row.variant)
<1>1. /\ t.read \in OrderRow /\ t.to \in Variants
      /\ t.read.variant \in Mapping
  BY DEF Task, OrderRow
<1> DEFINE variant == [l \in Listings |-> IF l \in NewlyResolved(t) THEN t.to
                                          ELSE t.read.variant[l]]
<1>2. variant \in Mapping
  BY <1>1 DEF Mapping
<1>3. /\ FilledRow(t) \in OrderRow /\ FilledRow(t).variant = variant
      /\ FilledRow(t).saved = t.read.saved /\ FilledRow(t).status = t.read.status
      /\ FilledRow(t).applied = t.read.applied /\ FilledRow(t).shipped = t.read.shipped
      /\ FilledRow(t).reverted = t.read.reverted
  <2>1. FilledRow(t) = [t.read EXCEPT !.variant = variant]
    BY DEF FilledRow
  <2> HIDE DEF variant
  <2> QED  BY <1>1, <1>2, <2>1 DEF OrderRow
<1>4. NewlyResolved(t) \subseteq Lines(t.order) \ Resolved(t.order, t.read.variant)
  BY DEF NewlyResolved
<1>5. NewlyResolved(t) \subseteq Resolved(t.order, FilledRow(t).variant)
  <2>1. \A l \in NewlyResolved(t) : variant[l] = t.to /\ l \in Lines(t.order)
    BY <1>4 DEF Lines
  <2> QED  BY <1>1, <1>3, <2>1, OrdersAssumption DEF Resolved
<1> QED  BY <1>3, <1>4, <1>5

LEMMA ResolveFillEffect ==
  ASSUME OrderInv, NEW s \in Staff, ResolveFill(s)
  PROVE  LET t == task[s] IN
         /\ UNCHANGED <<mapping, rows>>
         /\ t.op = "resolve" /\ t.step = 2 /\ t.read = order[t.order]
         /\ RowChanged(t.order, FilledRow(t))
         /\ task' = [task EXCEPT ![s] =
                       IF t.read.status = "PAID" /\ NewlyResolved(t) # {}
                       THEN [t EXCEPT !.step = 3] ELSE NoTask]
<1> DEFINE t == task[s]
<1>1. TaskStep(s)
  BY DEF TaskStep
<1>2. /\ t.op = "resolve" /\ t.step = 2 /\ UNCHANGED <<mapping, rows>>
      /\ LetIn(t) /\ t.fresh /\ order[t.order] = t.read /\ Shape
  BY <1>1, TaskEffect DEF ResolveFill, OrderInv, LetIn
<1>3. order' = [order EXCEPT ![t.order].variant =
                  [l \in Listings |-> IF l \in NewlyResolved(t) THEN t.to
                                      ELSE order[t.order].variant[l]]]
  BY <1>2 DEF ResolveFill
<1>4. order' = [order EXCEPT ![t.order] = FilledRow(t)]
  BY <1>2, <1>3 DEF FilledRow, Shape
<1>5. RowChanged(t.order, FilledRow(t))
  <2>1. FilledRow(t) \in OrderRow /\ t.order \in OrderIds
    BY <1>2, FilledRowFields DEF LetIn
  <2> QED  BY <1>2, <1>4, <2>1, RowChange
<1> QED  BY <1>2, <1>5 DEF ResolveFill

LEMMA ResolveReserveEffect ==
  ASSUME OrderInv, NEW s \in Staff, ResolveReserve(s)
  PROVE  LET t == task[s] IN
         /\ UNCHANGED mapping /\ task' = [task EXCEPT ![s] = NoTask]
         /\ t.op = "resolve" /\ t.step = 3 /\ t.read.status = "PAID"
         /\ order[t.order] = FilledRow(t)
         /\ RowChanged(t.order, [order[t.order] EXCEPT !.applied = TRUE])
         /\ \A l \in NewlyResolved(t) : rows[t.order][l].RESERVE = 0
         /\ RowsAdded(t.order, "RESERVE", NewlyResolved(t))
<1> DEFINE t == task[s]
<1>1. TaskStep(s)
  BY DEF TaskStep
<1>2. /\ t.op = "resolve" /\ t.step = 3 /\ UNCHANGED mapping
      /\ LetIn(t) /\ Shape /\ t.read.status = "PAID"
      /\ order[t.order] = FilledRow(t)
      /\ \A l \in NewlyResolved(t) : rows[t.order][l].RESERVE = 0
  BY <1>1, TaskEffect DEF ResolveReserve, OrderInv, LetIn, ReadIsFresh
<1>3. /\ RoomFor("RESERVE", t.order, NewlyResolved(t))
      /\ rows' = Recorded(rows, "RESERVE", t.order, NewlyResolved(t))
      /\ order' = [order EXCEPT ![t.order].applied = @ \/ ~t.read.applied]
      /\ task' = [task EXCEPT ![s] = NoTask]
  BY <1>2 DEF ResolveReserve
<1>4. RowsAdded(t.order, "RESERVE", NewlyResolved(t))
  BY <1>2, <1>3, RecordedRows DEF LetIn, LedgerKinds
<1>5. order[t.order] \in OrderRow /\ (order[t.order].applied \/ ~t.read.applied) = TRUE
  <2>1. order[t.order].applied = t.read.applied /\ order[t.order] \in OrderRow
    BY <1>2, FilledRowFields DEF LetIn
  <2> QED  BY <2>1 DEF OrderRow
<1>6. order' = [order EXCEPT ![t.order] = [order[t.order] EXCEPT !.applied = TRUE]]
  BY <1>2, <1>3, <1>5 DEF Shape
<1>7. RowChanged(t.order, [order[t.order] EXCEPT !.applied = TRUE])
  <2>1. [order[t.order] EXCEPT !.applied = TRUE] \in OrderRow
    BY <1>5 DEF OrderRow
  <2> QED  BY <1>2, <1>6, <2>1, RowChange DEF LetIn
<1> QED  BY <1>2, <1>3, <1>4, <1>7

\* Nothing is due, so a staff request need only keep the orders in shape.
LEMMA TaskFrame ==
  ASSUME OrderInv, NEW s \in Staff, TaskStep(s), Shape', ReservedOnce', StampsInOrder',
         task'[s] = NoTask \/ ReadIsFresh'
  PROVE  OrderInv'
<1>1. \A p \in Pullers : pull'[p] = NoPull /\ pull'[p].due = {}
  <2>1. NoPull.due = {}
    BY DEF NoPull
  <2> QED  BY <2>1, TaskEffect
<1>2. \A t \in Staff : t # s => task'[t] = NoTask
  BY TaskEffect
<1>3. Alone'
  BY <1>1, <1>2 DEF Alone
<1>4. DueFitsOrder' /\ LateUnreserved'
  BY <1>1 DEF DueFitsOrder, LateUnreserved
<1>5. ReadIsFresh'
  BY SMTT(30), <1>2 DEF ReadIsFresh
<1> QED  BY <1>3, <1>4, <1>5 DEF OrderInv

LEMMA MarkShippedInv ==
  ASSUME OrderInv, NEW s \in Staff, MarkShipped(s)
  PROVE  OrderInv'
<1> DEFINE o == task[s].order
<1>1. /\ UNCHANGED <<channel, pull, crashes, world, mapping>> /\ TaskStep(s)
      /\ o \in OrderIds /\ order[o] \in OrderRow /\ task' = [task EXCEPT ![s] = NoTask]
  BY TaskEffect, MarkShippedEffect DEF TaskStep, LetIn
<1>2. /\ ShipGuard(order[o])
      /\ RowChanged(o, [order[o] EXCEPT !.status = "SHIPPED", !.shipped = TRUE])
      /\ RowsAdded(o, "SHIP", Resolved(o, order[o].variant))
  BY MarkShippedEffect
<1>3. /\ \A q \in OrderIds : q # o => order'[q] = order[q] /\ rows'[q] = rows[q]
      /\ order'[o].saved = order[o].saved /\ order'[o].variant = order[o].variant
      /\ order'[o].applied = order[o].applied
      /\ \A l \in Listings : rows'[o][l].RESERVE = rows[o][l].RESERVE
  BY <1>1, <1>2 DEF RowChanged, RowsAdded, OrderRow, LedgerKinds
<1>4. Shape'
  BY <1>1, <1>2, NoTaskType DEF OrderInv, Shape, RowChanged, RowsAdded
<1>5. ReservedOnce'
  BY <1>3 DEF OrderInv, ReservedOnce
<1>6. StampsInOrder'
  BY ZenonT(60), <1>2, <1>3 DEF OrderInv, StampsInOrder, ShipGuard
<1>7. task'[s] = NoTask
  BY <1>1 DEF OrderInv, Shape
<1> QED  BY <1>1, <1>4, <1>5, <1>6, <1>7, TaskFrame

LEMMA CancelInv ==
  ASSUME OrderInv, NEW s \in Staff, Cancel(s)
  PROVE  OrderInv'
<1> DEFINE o == task[s].order  releases == order[o].applied /\ ~order[o].reverted
<1>1. /\ UNCHANGED <<channel, pull, crashes, world, mapping>> /\ TaskStep(s)
      /\ o \in OrderIds /\ order[o] \in OrderRow /\ task' = [task EXCEPT ![s] = NoTask]
  BY Zenon, TaskEffect, CancelEffect DEF TaskStep, LetIn
<1>2. /\ RowChanged(o, [order[o] EXCEPT !.status = "CANCELLED", !.reverted = @ \/ releases])
      /\ \E lines : RowsAdded(o, "RELEASE", lines)
  BY ZenonT(60), CancelEffect
<1>3. /\ \A q \in OrderIds : q # o => order'[q] = order[q] /\ rows'[q] = rows[q]
      /\ order'[o].saved = order[o].saved /\ order'[o].variant = order[o].variant
      /\ order'[o].applied = order[o].applied /\ order'[o].shipped = order[o].shipped
      /\ order'[o].reverted = (order[o].reverted \/ releases)
      /\ \A l \in Listings : rows'[o][l].RESERVE = rows[o][l].RESERVE
  <2> HIDE DEF releases
  <2> QED  BY Zenon, <1>1, <1>2 DEF RowChanged, RowsAdded, OrderRow, LedgerKinds, releases
<1>4. Shape'
  BY <1>1, <1>2, NoTaskType DEF OrderInv, Shape, RowChanged, RowsAdded
<1>5. ReservedOnce'
  BY <1>3 DEF OrderInv, ReservedOnce
<1>6. StampsInOrder'
  BY <1>3 DEF OrderInv, StampsInOrder
<1>7. task'[s] = NoTask
  BY <1>1 DEF OrderInv, Shape
<1> QED  BY <1>1, <1>4, <1>5, <1>6, <1>7, TaskFrame

LEMMA ResolveMapInv ==
  ASSUME OrderInv, NEW s \in Staff, ResolveMap(s)
  PROVE  OrderInv'
<1> DEFINE t == task[s]
<1>1. /\ UNCHANGED <<channel, pull, crashes, world, order, rows>> /\ TaskStep(s)
      /\ mapping' \in Mapping /\ LetIn(t) /\ order[t.order] = t.read
      /\ t.op = "resolve" /\ task' = [task EXCEPT ![s].step = 2]
      /\ \A u \in Staff : u # s => task'[u] = NoTask
  BY TaskEffect, ResolveMapEffect DEF TaskStep
<1>2. /\ task'[s] = [t EXCEPT !.step = 2] /\ [t EXCEPT !.step = 2] \in Task
      /\ task' \in [Staff -> Task]
  <2>1. t \in Task /\ task \in [Staff -> Task]
    BY <1>1 DEF LetIn, OrderInv, Shape
  <2>2. [t EXCEPT !.step = 2] \in Task
    BY <2>1 DEF Task
  <2>3. task' = [task EXCEPT ![s] = [t EXCEPT !.step = 2]]
    BY <1>1, <2>1
  <2> QED  BY <2>1, <2>2, <2>3
<1>3. /\ task'[s].op = t.op /\ task'[s].order = t.order /\ task'[s].read = t.read
      /\ task'[s].fresh = t.fresh /\ task'[s].step = 2
  BY <1>1, <1>2 DEF LetIn, Task
<1>4. Shape'
  BY <1>1, <1>2 DEF OrderInv, Shape
<1>5. ReservedOnce' /\ StampsInOrder'
  BY <1>1 DEF OrderInv, ReservedOnce, StampsInOrder
<1>6. ReadIsFresh'
  BY <1>1, <1>3 DEF ReadIsFresh, LetIn
<1> QED  BY <1>1, <1>4, <1>5, <1>6, TaskFrame

LEMMA ResolveFillInv ==
  ASSUME OrderInv, NEW s \in Staff, ResolveFill(s)
  PROVE  OrderInv'
<1> DEFINE t == task[s]  o == t.order
<1>1. /\ UNCHANGED <<channel, pull, crashes, world, mapping, rows>> /\ TaskStep(s)
      /\ LetIn(t) /\ t.read = order[o] /\ t.op = "resolve"
      /\ RowChanged(o, FilledRow(t))
      /\ task' = [task EXCEPT ![s] =
                    IF t.read.status = "PAID" /\ NewlyResolved(t) # {}
                    THEN [t EXCEPT !.step = 3] ELSE NoTask]
      /\ \A u \in Staff : u # s => task'[u] = NoTask
  BY TaskEffect, ResolveFillEffect DEF TaskStep
<1>2. /\ o \in OrderIds /\ t \in Task /\ t.read.saved
      /\ \A q \in OrderIds : q # o => order'[q] = order[q]
      /\ order'[o] = FilledRow(t) /\ order' \in [OrderIds -> OrderRow]
  BY <1>1 DEF LetIn, RowChanged
<1>3. /\ order'[o].saved = order[o].saved /\ order'[o].applied = order[o].applied
      /\ order'[o].shipped = order[o].shipped /\ order'[o].reverted = order[o].reverted
      /\ \A l \in Listings \ NewlyResolved(t) : order'[o].variant[l] = order[o].variant[l]
      /\ \A l \in NewlyResolved(t) : l \in Listings /\ l \notin Resolved(o, order[o].variant)
  <2>1. NewlyResolved(t) \subseteq Lines(o) \ Resolved(o, order[o].variant)
    BY <1>1 DEF NewlyResolved
  <2>2. NewlyResolved(t) \subseteq Listings
    BY <2>1 DEF Lines
  <2>3. /\ FilledRow(t).saved = t.read.saved /\ FilledRow(t).applied = t.read.applied
        /\ FilledRow(t).shipped = t.read.shipped /\ FilledRow(t).reverted = t.read.reverted
        /\ \A l \in Listings \ NewlyResolved(t) : FilledRow(t).variant[l] = t.read.variant[l]
    <3> HIDE DEF t
    <3> QED  BY <1>2, FilledRowFields
  <2> HIDE DEF o, t
  <2> QED  BY <1>1, <1>2, <2>1, <2>2, <2>3
<1>4. [t EXCEPT !.step = 3] \in Task /\ task' \in [Staff -> Task]
  <2>1. task \in [Staff -> Task]
    BY DEF OrderInv, Shape
  <2>2. [t EXCEPT !.step = 3] \in Task
    BY <1>2 DEF Task
  <2> QED  BY <1>1, <2>1, <2>2, NoTaskType
<1>5. Shape'
  BY <1>1, <1>2, <1>4 DEF OrderInv, Shape
<1>6. ReservedOnce'
  <2>1. \A l \in Listings : l \in Resolved(o, order[o].variant) => l \in Resolved(o, order'[o].variant)
    BY <1>3 DEF Resolved
  <2> QED  BY <1>1, <1>2, <1>3, <2>1 DEF OrderInv, ReservedOnce
<1>7. StampsInOrder'
  BY <1>2, <1>3 DEF OrderInv, StampsInOrder
<1>8. task'[s] = NoTask \/ ReadIsFresh'
  <2> SUFFICES ASSUME t.read.status = "PAID", task'[s] = [t EXCEPT !.step = 3]
               PROVE  ReadIsFresh'
    BY <1>1 DEF OrderInv, Shape
  <2>1. /\ task'[s].op = t.op /\ task'[s].order = o /\ task'[s].read = t.read
        /\ task'[s].fresh = t.fresh /\ task'[s].step = 3
        /\ task'[s].line = t.line /\ task'[s].to = t.to
    BY <1>2 DEF Task
  <2>2. FilledRow(task'[s]) = FilledRow(t) /\ NewlyResolved(task'[s]) = NewlyResolved(t)
    BY <2>1 DEF FilledRow, NewlyResolved
  <2>3. \A l \in NewlyResolved(t) : rows'[o][l].RESERVE = 0
    <3>1. \A l \in NewlyResolved(t) : l \in Listings /\ ~(rows[o][l].RESERVE > 0)
      BY <1>2, <1>3 DEF OrderInv, ReservedOnce
    <3> QED  BY <1>1, <1>2, <3>1, NaturalRows DEF OrderInv
  <2>4. LetIn(t)
    BY <1>1
  <2>5. FilledRow(task[s])' = FilledRow(task'[s]) /\ NewlyResolved(task[s])' = NewlyResolved(task'[s])
    BY DEF FilledRow, NewlyResolved, Lines, Resolved
  <2>6. /\ o \in OrderIds /\ t.op \in world'.ops /\ t.read.saved
        /\ t.op = "resolve" /\ t.fresh /\ order'[o] = FilledRow(t)
    BY <1>1, <1>2 DEF LetIn
  <2>7. FilledRow(task[s])' = FilledRow(t) /\ NewlyResolved(task[s])' = NewlyResolved(t)
    BY <2>2, <2>5
  <2> HIDE DEF t, o
  <2>8. ASSUME NEW u \in Staff, u = s
        PROVE  /\ task'[u].order \in OrderIds /\ task'[u].op \in world'.ops /\ task'[u].read.saved
               /\ task'[u].op = "resolve" /\ task'[u].fresh /\ task'[u].step = 3
               /\ task'[u].read.status = "PAID" /\ order'[task'[u].order] = FilledRow(task[u])'
               /\ \A l \in NewlyResolved(task[u])' : rows'[task'[u].order][l].RESERVE = 0
    BY <2>1, <2>3, <2>6, <2>7, <2>8
  <2> QED  BY <1>1, <2>8 DEF ReadIsFresh
<1> QED  BY <1>1, <1>5, <1>6, <1>7, <1>8, TaskFrame

LEMMA ResolveReserveInv ==
  ASSUME OrderInv, NEW s \in Staff, ResolveReserve(s)
  PROVE  OrderInv'
<1> DEFINE t == task[s]  o == t.order
<1>1. /\ UNCHANGED <<channel, pull, crashes, world, mapping>> /\ TaskStep(s)
      /\ LetIn(t) /\ order[o] = FilledRow(t) /\ task' = [task EXCEPT ![s] = NoTask]
      /\ RowChanged(o, [order[o] EXCEPT !.applied = TRUE])
      /\ RowsAdded(o, "RESERVE", NewlyResolved(t))
      /\ \A l \in NewlyResolved(t) : rows[o][l].RESERVE = 0
  BY TaskEffect, ResolveReserveEffect DEF TaskStep
<1>2. o \in OrderIds /\ t \in Task /\ order[o] \in OrderRow /\ t.read.saved
  BY <1>1, FilledRowFields DEF LetIn
<1>3. /\ order'[o].saved = order[o].saved /\ order'[o].applied = TRUE
      /\ order'[o].variant = order[o].variant
      /\ \A q \in OrderIds : q # o => order'[q] = order[q] /\ rows'[q] = rows[q]
      /\ order[o].saved
      /\ \A l \in NewlyResolved(t) : l \in Resolved(o, order[o].variant)
  BY <1>1, <1>2, FilledRowFields DEF RowChanged, RowsAdded, OrderRow
<1>4. \A l \in Listings : rows'[o][l].RESERVE = IF l \in NewlyResolved(t) THEN 1
                                               ELSE rows[o][l].RESERVE
  BY <1>1, <1>2 DEF RowsAdded, LedgerKinds
<1>5. Shape'
  BY <1>1, NoTaskType DEF OrderInv, Shape, RowChanged, RowsAdded
<1>6. ReservedOnce'
  BY <1>2, <1>3, <1>4 DEF OrderInv, ReservedOnce
<1>7. StampsInOrder'
  BY <1>2, <1>3 DEF OrderInv, StampsInOrder
<1>8. task'[s] = NoTask
  BY <1>1 DEF OrderInv, Shape
<1> QED  BY <1>1, <1>5, <1>6, <1>7, <1>8, TaskFrame

LEMMA CrashInv ==
  ASSUME OrderInv, \/ \E p \in Pullers : CrashPull(p)
                   \/ \E s \in Staff : CrashTask(s)
  PROVE  OrderInv'
<1>1. /\ UNCHANGED <<channel, mapping, order, rows, world>> /\ crashes' \in 0..world.crashes
      /\ pull' \in [Pullers -> Pull] /\ task' \in [Staff -> Task]
      /\ \A p \in Pullers : pull'[p] = NoPull \/ pull'[p] = pull[p]
      /\ \A s \in Staff : task'[s] = NoTask \/ task'[s] = task[s]
  <2>1. world.crashes \in Nat
    BY OrdersAssumption DEF OrderInv, Shape, Scenario
  <2>2. CASE \E p \in Pullers : CrashPull(p)
    BY <2>1, <2>2, NoPullType DEF CrashPull, OrderInv, Shape
  <2>3. CASE \E s \in Staff : CrashTask(s)
    BY <2>1, <2>3, NoTaskType DEF CrashTask, OrderInv, Shape
  <2> QED  BY <2>2, <2>3
<1>2. Shape'
  BY <1>1 DEF OrderInv, Shape
<1>3. Alone'
  BY <1>1 DEF OrderInv, Alone
<1>4. ReservedOnce' /\ StampsInOrder'
  BY <1>1 DEF OrderInv, ReservedOnce, StampsInOrder
<1>5. NoPull.due = {}
  BY DEF NoPull
<1>6. DueFitsOrder' /\ LateUnreserved'
  BY <1>1, <1>5 DEF OrderInv, DueFitsOrder, LateUnreserved
<1>7. ReadIsFresh'
  BY <1>1 DEF OrderInv, ReadIsFresh
<1> QED  BY <1>2, <1>3, <1>4, <1>6, <1>7 DEF OrderInv

-----------------------------------------------------------------------------
(* The steps of the whole system.                                          *)

\* Orders only move on at the marketplace, and a cancellation is final.
ChannelMovesOn ==
  \A o \in OrderIds :
    /\ channel[o].status = "CANCELLED" => channel'[o].status = "CANCELLED"
    /\ channel[o].status # "PENDING" => channel'[o].status # "PENDING"
    /\ "order" \notin world.cancels /\ channel'[o].status = "CANCELLED" =>
         channel[o].status = "CANCELLED"
    /\ "line" \notin world.cancels => channel'[o].cancelled = channel[o].cancelled

Outside == (\E o \in OrderIds : ChannelAdvance(o) \/ ChannelCancelLine(o))
           \/ (\E l \in Listings : MapListing(l))

LEMMA OutsideEffect ==
  ASSUME Shape, Outside
  PROVE  /\ UNCHANGED <<order, rows, returns, pull, task, crashes, world>>
         /\ channel' \in [OrderIds -> ChannelOrder] /\ mapping' \in Mapping
         /\ ChannelMovesOn
         /\ world.remaps = {} => mapping' = mapping
<1>1. CASE \E o \in OrderIds : ChannelAdvance(o)
  <2>1. PICK o \in OrderIds : ChannelAdvance(o)
    BY <1>1
  <2>2. PICK status \in Follows(channel[o].status) :
          /\ status = "CANCELLED" => "order" \in world.cancels
          /\ channel' = [channel EXCEPT ![o].status = status]
    BY <2>1 DEF ChannelAdvance
  <2>3. channel[o] \in ChannelOrder /\ channel \in [OrderIds -> ChannelOrder]
    BY DEF Shape
  <2>4. /\ status \in Statuses /\ status # "PENDING"
        /\ channel[o].status # "CANCELLED"
    BY <2>2, <2>3 DEF Follows, Statuses, ChannelOrder
  <2>5. UNCHANGED <<mapping, order, rows, returns, pull, task, crashes, world>>
    BY <2>1 DEF ChannelAdvance
  <2>6. channel' \in [OrderIds -> ChannelOrder] /\ ChannelMovesOn
    BY <2>2, <2>3, <2>4 DEF ChannelOrder, ChannelMovesOn
  <2> QED  BY <2>5, <2>6 DEF Shape
<1>2. CASE \E o \in OrderIds : ChannelCancelLine(o)
  <2>1. PICK o \in OrderIds : ChannelCancelLine(o)
    BY <1>2
  <2>2. PICK l \in Lines(o) : channel' = [channel EXCEPT ![o].cancelled = @ \cup {l}]
    BY <2>1 DEF ChannelCancelLine
  <2>3. channel[o] \in ChannelOrder /\ channel \in [OrderIds -> ChannelOrder] /\ l \in Listings
    BY DEF Shape, Lines
  <2>4. "line" \in world.cancels
    BY <2>1 DEF ChannelCancelLine
  <2>5. UNCHANGED <<mapping, order, rows, returns, pull, task, crashes, world>>
    BY <2>1 DEF ChannelCancelLine
  <2>6. channel' \in [OrderIds -> ChannelOrder] /\ ChannelMovesOn
    BY <2>2, <2>3, <2>4 DEF ChannelOrder, ChannelMovesOn
  <2> QED  BY <2>5, <2>6 DEF Shape
<1>3. CASE \E l \in Listings : MapListing(l)
  BY <1>3 DEF MapListing, Shape, Mapping, ChannelMovesOn
<1> QED  BY <1>1, <1>2, <1>3 DEF Outside

Crash == (\E p \in Pullers : CrashPull(p)) \/ (\E s \in Staff : CrashTask(s))

LEMMA NextCases ==
  ASSUME Next
  PROVE  \/ Outside \/ Crash
         \/ \E p \in Pullers : StartPull(p) \/ UpsertOrder(p) \/ StageStep(p)
         \/ \E s \in Staff : \/ LoadStep(s) \/ MarkShipped(s) \/ Cancel(s)
                             \/ ResolveMap(s) \/ ResolveFill(s) \/ ResolveReserve(s)
BY Zenon DEF Next, Outside, Crash, StageStep

LEMMA NextOrderInv ==
  ASSUME Sequential, OrderInv, [Next]_vars
  PROVE  OrderInv'
<1>1. CASE UNCHANGED vars
  BY <1>1, OutsideInv DEF vars, OrderInv, Shape
<1>2. CASE Outside
  BY <1>2, OutsideEffect, OutsideInv DEF OrderInv
<1>3. CASE Crash
  BY <1>3, CrashInv DEF Crash
<1>4. ASSUME NEW p \in Pullers, StartPull(p) \/ UpsertOrder(p) \/ StageStep(p)
      PROVE  OrderInv'
  BY <1>4, StartInv, UpsertInv, StageInvariant
<1>5. ASSUME NEW s \in Staff,
             \/ LoadStep(s) \/ MarkShipped(s) \/ Cancel(s)
             \/ ResolveMap(s) \/ ResolveFill(s) \/ ResolveReserve(s)
      PROVE  OrderInv'
  BY <1>5, LoadInv, MarkShippedInv, CancelInv, ResolveMapInv, ResolveFillInv, ResolveReserveInv
<1> QED  BY <1>1, <1>2, <1>3, <1>4, <1>5, NextCases

\* The only steps that change an order's variants are the upsert of a pull and
\* the fill of resolveOrderItem, and both leave a reserved line alone.
LEMMA FrozenStep ==
  ASSUME Sequential, OrderInv, [Next]_vars,
         NEW o \in OrderIds, NEW l \in Listings,
         rows[o][l].RESERVE > rows[o][l].SHIP + rows[o][l].RELEASE
  PROVE  order'[o].variant[l] = order[o].variant[l]
<1>0. Shape /\ order \in [OrderIds -> OrderRow]
  BY DEF OrderInv, Shape
<1>1. order[o].applied /\ l \in Lines(o) /\ order[o].variant[l] # Unmapped
  BY <1>0, NaturalRows DEF OrderInv, ReservedOnce, Resolved
<1>2. CASE order' = order
  BY <1>2
<1>3. ASSUME NEW p \in Pullers, UpsertOrder(p)
      PROVE  order'[o].variant[l] = order[o].variant[l]
  <2>1. PICK q \in OrderIds : order' = [order EXCEPT ![q] = UpsertedRow(p, q)]
    BY <1>0, <1>3, UpsertEffect DEF OrderInv
  <2> QED  BY <1>0, <1>1, <2>1, UpsertedRowFields
<1>4. ASSUME NEW p \in Pullers, StageStep(p)
      PROVE  order'[o].variant[l] = order[o].variant[l]
  BY <1>4, StageStaged DEF Staged
<1>5. ASSUME NEW s \in Staff, MarkShipped(s)
      PROVE  order'[o].variant[l] = order[o].variant[l]
  BY ZenonT(60), <1>0, <1>5, MarkShippedEffect DEF RowChanged, OrderRow
<1>6. ASSUME NEW s \in Staff, Cancel(s)
      PROVE  order'[o].variant[l] = order[o].variant[l]
  BY ZenonT(60), <1>0, <1>6, CancelEffect DEF RowChanged, OrderRow
<1>7. ASSUME NEW s \in Staff, ResolveFill(s)
      PROVE  order'[o].variant[l] = order[o].variant[l]
  <2> DEFINE t == task[s]
  <2>1. RowChanged(t.order, FilledRow(t)) /\ t.read = order[t.order] /\ t \in Task
    BY <1>0, <1>7, ResolveFillEffect, TaskEffect DEF TaskStep, LetIn
  <2>2. t.order = o => l \notin NewlyResolved(t)
    BY <1>1, <2>1 DEF NewlyResolved, Resolved
  <2> HIDE DEF t
  <2> QED  BY <2>1, <2>2, FilledRowFields DEF RowChanged
<1>8. ASSUME NEW s \in Staff, ResolveReserve(s)
      PROVE  order'[o].variant[l] = order[o].variant[l]
  <2>1. RowChanged(task[s].order, [order[task[s].order] EXCEPT !.applied = TRUE])
    BY <1>8, ResolveReserveEffect
  <2> QED  BY <1>0, <2>1 DEF RowChanged, OrderRow
<1>9. Outside \/ Crash \/ UNCHANGED vars => order' = order
  BY DEF Outside, ChannelAdvance, ChannelCancelLine, MapListing, Crash, CrashPull, CrashTask, vars
<1>10. \A p \in Pullers : StartPull(p) => order' = order
  BY DEF StartPull
<1>11. \A s \in Staff : LoadStep(s) \/ ResolveMap(s) => order' = order
  BY LoadEffect DEF ResolveMap
<1> QED
  BY <1>2, <1>3, <1>4, <1>5, <1>6, <1>7, <1>8, <1>9, <1>10, <1>11, NextCases

\* One operation at a time, in every scenario: while a line holds a reservation
\* its variant is frozen, whatever the catalogue maps the listing to meanwhile.
THEOREM ReservedLinesKeepVariant ==
  ASSUME Sequential
  PROVE  Spec => ReservedVariantFrozen
<1>1. Init => OrderInv
  BY InitOrderInv
<1>2. OrderInv /\ [Next]_vars => OrderInv'
  BY NextOrderInv
<1>3. OrderInv /\ [Next]_vars =>
        [\A o \in OrderIds, l \in Listings :
           rows[o][l].RESERVE > rows[o][l].SHIP + rows[o][l].RELEASE =>
             order'[o].variant[l] = order[o].variant[l]]_vars
  BY FrozenStep
<1> QED  BY <1>1, <1>2, <1>3, PTL DEF Spec, ReservedVariantFrozen

-----------------------------------------------------------------------------
(* Shipped or released.                                                    *)

\* A pull that goes on has the page it had, and less of it to do.
PagesKept ==
  \A p \in Pullers :
    \/ pull'[p] = NoPull
    \/ /\ pull[p] # NoPull /\ pull'[p].fetched = pull[p].fetched
       /\ pull'[p].resolution = pull[p].resolution /\ pull'[p].todo \subseteq pull[p].todo

\* The steps that leave every order and its ledger as they are, and start no
\* pull.
Quiet == UNCHANGED <<order, rows, world>> /\ PagesKept /\ ChannelMovesOn

LEMMA PullKeepsPages ==
  ASSUME Alone, NEW p \in Pullers, PullGoesOn(p), pull'[p].todo \subseteq pull[p].todo
  PROVE  PagesKept
BY PullAlone DEF PullGoesOn, PagesKept

LEMMA UnchangedKeepsPages == ASSUME pull' = pull  PROVE PagesKept
<1>1. \A p \in Pullers : pull'[p] = pull[p]
  OBVIOUS
<1> QED  BY <1>1 DEF PagesKept

LEMMA ChannelStays == ASSUME channel' = channel  PROVE ChannelMovesOn
BY DEF ChannelMovesOn

LEMMA QuietSteps ==
  ASSUME OrderInv, Sequential,
         Outside \/ Crash \/ UNCHANGED orderVars
           \/ (\E s \in Staff : LoadStep(s) \/ ResolveMap(s))
  PROVE  Quiet
<1>1. CASE Outside
  BY <1>1, OutsideEffect, UnchangedKeepsPages DEF Quiet, OrderInv
<1>2. CASE Crash
  <2>1. UNCHANGED <<order, rows, world, channel>>
    BY <1>2 DEF Crash, CrashPull, CrashTask
  <2>2. \A p \in Pullers : pull'[p] = NoPull \/ pull'[p] = pull[p]
    BY <1>2 DEF Crash, CrashPull, CrashTask, OrderInv, Shape
  <2>3. PagesKept
    BY <2>2 DEF PagesKept
  <2> QED  BY <2>1, <2>3, ChannelStays DEF Quiet
<1>3. CASE UNCHANGED orderVars
  BY <1>3, UnchangedKeepsPages, ChannelStays DEF Quiet, orderVars
<1>4. ASSUME NEW s \in Staff, LoadStep(s) \/ ResolveMap(s)
      PROVE  Quiet
  <2>1. UNCHANGED <<order, rows, world, channel, pull>>
    BY <1>4, LoadEffect DEF ResolveMap
  <2> QED  BY <2>1, UnchangedKeepsPages, ChannelStays DEF Quiet
<1> QED  BY <1>1, <1>2, <1>3, <1>4

LEMMA FetchedStays ==
  ASSUME Shape, FetchedBefore, PagesKept, ChannelMovesOn
  PROVE  FetchedBefore'
BY DEF FetchedBefore, PagesKept, ChannelMovesOn

LEMMA NoPullFields == NoPull.todo = {} /\ NoPull.due = {}
BY DEF NoPull

LEMMA QuietWayOut ==
  ASSUME Shape, WayOutInv, Quiet
  PROVE  WayOutInv'
<1>1. FetchedBefore'
  BY FetchedStays DEF WayOutInv, Quiet
<1>2. ReleasedIsCancelled'
  BY NoPullFields DEF WayOutInv, Quiet, ReleasedIsCancelled, PagesKept, ChannelMovesOn
<1>3. CancelledAtChannel'
  BY DEF WayOutInv, Quiet, CancelledAtChannel, ChannelMovesOn
<1>4. LeftIsStamped' /\ ShippedOrReleased'
  BY DEF WayOutInv, Quiet, LeftIsStamped, ShippedOrReleased
<1> QED  BY <1>1, <1>2, <1>3, <1>4 DEF WayOutInv

LEMMA StartWayOut ==
  ASSUME Shape, Sequential, WayOutInv, NEW p \in Pullers, StartPull(p)
  PROVE  WayOutInv'
<1>1. /\ UNCHANGED <<channel, order, rows, world>>
      /\ \A q \in Pullers : pull'[q] = NoPull \/ pull'[q].fetched = channel
  BY StartEffect
<1>2. FetchedBefore'
  <2>1. \A q \in Pullers : pull'[q] # NoPull => pull'[q].fetched = channel'
    BY <1>1
  <2> QED  BY <2>1 DEF FetchedBefore
<1>3. ReleasedIsCancelled'
  BY <1>1, NoPullFields DEF WayOutInv, ReleasedIsCancelled
<1>4. CancelledAtChannel' /\ LeftIsStamped' /\ ShippedOrReleased'
  BY <1>1 DEF WayOutInv, CancelledAtChannel, LeftIsStamped, ShippedOrReleased
<1> QED  BY <1>2, <1>3, <1>4 DEF WayOutInv

LEMMA UpsertWayOut ==
  ASSUME OrderInv, WayOutInv, NEW p \in Pullers, UpsertOrder(p)
  PROVE  WayOutInv'
<1>0. Shape /\ Alone
  BY DEF OrderInv
<1>1. PICK o \in OrderIds :
        /\ o \in pull[p].todo /\ pull'[p].todo = pull[p].todo \ {o}
        /\ order' = [order EXCEPT ![o] = UpsertedRow(p, o)]
  BY <1>0, UpsertEffect
<1>2. UNCHANGED <<channel, rows, world>> /\ PullGoesOn(p)
  BY <1>0, UpsertEffect
<1>3. PagesKept /\ ChannelMovesOn /\ \A q \in Pullers : q # p => pull'[q] = NoPull
  BY <1>0, <1>1, <1>2, PullKeepsPages, ChannelStays, PullAlone DEF PullGoesOn
<1>4. /\ \A q \in OrderIds : q # o => order'[q] = order[q]
      /\ order'[o].status = pull[p].fetched[o].status
      /\ order'[o].shipped = order[o].shipped /\ order'[o].reverted = order[o].reverted
  BY <1>0, <1>1, UpsertedRowFields DEF Shape
<1>5. pull[p] # NoPull
  BY <1>1, NoPullFields
<1>6. FetchedBefore'
  BY <1>0, <1>3, FetchedStays DEF WayOutInv
<1>7. ReleasedIsCancelled'
  <2> SUFFICES ASSUME "cancel" \notin world.ops, NEW q \in OrderIds, order'[q].reverted
               PROVE  /\ channel[q].status = "CANCELLED" /\ order'[q].status = "CANCELLED"
                      /\ \A r \in Pullers : q \in pull'[r].todo =>
                           pull'[r].fetched[q].status = "CANCELLED"
    BY <1>2 DEF ReleasedIsCancelled
  <2>1. /\ channel[q].status = "CANCELLED" /\ order[q].status = "CANCELLED"
        /\ \A r \in Pullers : q \in pull[r].todo => pull[r].fetched[q].status = "CANCELLED"
    BY <1>4 DEF WayOutInv, ReleasedIsCancelled
  <2> QED  BY <1>1, <1>3, <1>4, <2>1, NoPullFields DEF PagesKept
<1>8. CancelledAtChannel'
  BY <1>2, <1>4, <1>5 DEF WayOutInv, CancelledAtChannel, FetchedBefore
<1>9. LeftIsStamped' /\ ShippedOrReleased'
  BY <1>2, <1>4 DEF WayOutInv, LeftIsStamped, ShippedOrReleased
<1> QED  BY <1>6, <1>7, <1>8, <1>9 DEF WayOutInv

LEMMA StageWayOut ==
  ASSUME OrderInv, WayOutInv, NEW p \in Pullers, StageStep(p)
  PROVE  WayOutInv'
<1> DEFINE o == pull[p].current
<1>0. Shape /\ Alone
  BY DEF OrderInv
<1>1. PICK stage \in Stages :
        /\ stage \in pull[p].due /\ pull'[p].due = pull[p].due \ {stage}
        /\ stage \in {"ship", "release"} => ~Reserving(p)
        /\ Staged(p, stage)
  BY StageStaged
<1>2. /\ UNCHANGED <<channel, world>> /\ PullGoesOn(p) /\ pull'[p].todo = pull[p].todo
      /\ o \in OrderIds
  BY StageEffect
<1>3. PagesKept /\ ChannelMovesOn /\ \A q \in Pullers : q # p => pull'[q] = NoPull
  BY SMTT(30), <1>0, <1>2, PullKeepsPages, ChannelStays, PullAlone DEF PullGoesOn
<1>4. /\ \A q \in OrderIds : q # o => order'[q] = order[q] /\ rows'[q] = rows[q]
      /\ order'[o].status = order[o].status
      /\ order'[o].shipped = (order[o].shipped \/ stage = "ship")
      /\ order'[o].reverted = (order[o].reverted \/ stage = "release")
      /\ stage \notin {"ship", "release"} => \A l \in Listings :
           rows'[o][l].SHIP = rows[o][l].SHIP /\ rows'[o][l].RELEASE = rows[o][l].RELEASE
  BY Zenon, <1>1 DEF Staged, MovedBy, LedgerKinds
<1>5. /\ o \notin pull[p].todo
      /\ stage \in {"ship", "release"} => OpenOrder(order[o])
      /\ stage = "release" => order[o].status = "CANCELLED"
  BY <1>1, <1>2 DEF OrderInv, DueFitsOrder
<1> HIDE DEF o
<1>6. FetchedBefore'
  BY <1>0, <1>3, FetchedStays DEF WayOutInv
<1>7. ReleasedIsCancelled'
  <2> SUFFICES ASSUME "cancel" \notin world.ops, NEW q \in OrderIds, order'[q].reverted
               PROVE  /\ channel[q].status = "CANCELLED" /\ order'[q].status = "CANCELLED"
                      /\ \A r \in Pullers : q \in pull'[r].todo =>
                           pull'[r].fetched[q].status = "CANCELLED"
    BY <1>2 DEF ReleasedIsCancelled
  <2>1. CASE order[q].reverted
    <3>1. /\ channel[q].status = "CANCELLED" /\ order[q].status = "CANCELLED"
          /\ \A r \in Pullers : q \in pull[r].todo => pull[r].fetched[q].status = "CANCELLED"
      BY <2>1 DEF WayOutInv, ReleasedIsCancelled
    <3> QED  BY <1>3, <1>4, <3>1, NoPullFields DEF PagesKept
  <2>2. CASE ~order[q].reverted
    <3>1. q = o /\ order[o].status = "CANCELLED"
      BY <1>4, <1>5, <2>2
    <3> QED  BY <1>2, <1>3, <1>4, <1>5, <3>1, NoPullFields DEF WayOutInv, CancelledAtChannel
  <2> QED  BY <2>1, <2>2
<1>8. CancelledAtChannel'
  BY <1>2, <1>4 DEF WayOutInv, CancelledAtChannel
<1>9. LeftIsStamped'
  BY <1>4 DEF WayOutInv, LeftIsStamped
<1>10. ShippedOrReleased'
  BY <1>4, <1>5 DEF WayOutInv, ShippedOrReleased, OpenOrder
<1> QED  BY <1>6, <1>7, <1>8, <1>9, <1>10 DEF WayOutInv

\* A staff request that changes order o as told.
LEMMA TaskWayOut ==
  ASSUME OrderInv, WayOutInv, NEW s \in Staff, TaskStep(s), NEW o \in OrderIds,
         \A q \in OrderIds : q # o => order'[q] = order[q] /\ rows'[q] = rows[q],
         order[o].shipped => order'[o].shipped,
         order[o].reverted => order'[o].reverted,
         "cancel" \notin world.ops =>
           /\ order'[o].reverted => order[o].reverted /\ order'[o].status = order[o].status
           /\ order'[o].status = "CANCELLED" => order[o].status = "CANCELLED",
         ~(order'[o].shipped /\ order'[o].reverted),
         \A l \in Listings : rows'[o][l].SHIP + rows'[o][l].RELEASE > 0 =>
           \/ rows[o][l].SHIP + rows[o][l].RELEASE > 0
           \/ order'[o].shipped \/ order'[o].reverted
  PROVE  WayOutInv'
<1>1. UNCHANGED <<channel, world, pull>> /\ \A p \in Pullers : pull'[p] = NoPull
  BY TaskEffect
<1>2. FetchedBefore'
  BY <1>1 DEF FetchedBefore
<1>3. ReleasedIsCancelled'
  BY <1>1, NoPullFields DEF WayOutInv, ReleasedIsCancelled
<1>4. CancelledAtChannel'
  BY <1>1 DEF WayOutInv, CancelledAtChannel
<1>5. LeftIsStamped' /\ ShippedOrReleased'
  BY DEF WayOutInv, LeftIsStamped, ShippedOrReleased
<1> QED  BY <1>2, <1>3, <1>4, <1>5 DEF WayOutInv

LEMMA StaffWayOut ==
  ASSUME OrderInv, WayOutInv, OneWayOut, NEW s \in Staff,
         MarkShipped(s) \/ Cancel(s) \/ ResolveFill(s) \/ ResolveReserve(s)
  PROVE  WayOutInv'
<1> DEFINE o == task[s].order
<1>1. /\ TaskStep(s) /\ o \in OrderIds /\ order[o] \in OrderRow
      /\ \A q \in OrderIds : ~(order[q].shipped /\ order[q].reverted)
  BY TaskEffect DEF TaskStep, LetIn, WayOutInv, ShippedOrReleased
<1>2. CASE MarkShipped(s)
  <2>1. /\ RowChanged(o, [order[o] EXCEPT !.status = "SHIPPED", !.shipped = TRUE])
        /\ RowsAdded(o, "SHIP", Resolved(o, order[o].variant))
        /\ "ship" \in world.ops /\ ShipGuard(order[o])
    BY <1>2, MarkShippedEffect
  <2>2. "cancel" \notin world.ops /\ ~order[o].reverted
    BY <1>1, <2>1 DEF OneWayOut, WayOutInv, ReleasedIsCancelled, ShipGuard
  <2>3. /\ \A q \in OrderIds : q # o => order'[q] = order[q] /\ rows'[q] = rows[q]
        /\ order'[o].shipped /\ order'[o].reverted = order[o].reverted
        /\ order'[o].status = "SHIPPED"
    BY <1>1, <2>1 DEF RowChanged, RowsAdded, OrderRow
  <2> HIDE DEF o
  <2> QED  BY SMTT(30), <1>1, <2>2, <2>3, TaskWayOut
<1>3. CASE Cancel(s)
  <2> DEFINE releases == order[o].applied /\ ~order[o].reverted
             lines == IF releases THEN Resolved(o, order[o].variant) ELSE {}
  <2>1. /\ RowChanged(o, [order[o] EXCEPT !.status = "CANCELLED", !.reverted = @ \/ releases])
        /\ RowsAdded(o, "RELEASE", lines)
        /\ "cancel" \in world.ops /\ CancelGuard(order[o])
    BY Zenon, <1>3, CancelEffect
  <2> HIDE DEF lines
  <2>2. /\ \A q \in OrderIds : q # o => order'[q] = order[q] /\ rows'[q] = rows[q]
        /\ order'[o].shipped = order[o].shipped /\ ~order[o].shipped
        /\ order'[o].reverted = (order[o].reverted \/ releases)
        /\ \A l \in Listings : l \notin lines =>
             rows'[o][l].SHIP = rows[o][l].SHIP /\ rows'[o][l].RELEASE = rows[o][l].RELEASE
    <3> HIDE DEF releases
    <3> QED  BY ZenonT(60), <1>1, <2>1 DEF RowChanged, RowsAdded, OrderRow, LedgerKinds, CancelGuard, releases
  <2>3. \A l \in lines : order'[o].reverted
    BY <2>2 DEF lines
  <2>4. \A l \in Listings : rows'[o][l].SHIP + rows'[o][l].RELEASE > 0 =>
          rows[o][l].SHIP + rows[o][l].RELEASE > 0 \/ order'[o].reverted
    BY <2>2, <2>3
  <2> HIDE DEF o, releases
  <2> QED  BY ZenonT(60), <1>1, <2>1, <2>2, <2>4, TaskWayOut
<1>4. CASE ResolveFill(s)
  <2>1. RowChanged(o, FilledRow(task[s])) /\ rows' = rows /\ task[s].read = order[o]
    BY <1>4, ResolveFillEffect
  <2>2. task[s] \in Task
    BY <1>1, TaskEffect DEF LetIn
  <2>3. /\ \A q \in OrderIds : q # o => order'[q] = order[q] /\ rows'[q] = rows[q]
        /\ order'[o].shipped = order[o].shipped /\ order'[o].reverted = order[o].reverted
        /\ order'[o].status = order[o].status
    BY <2>1, <2>2, FilledRowFields DEF RowChanged
  <2> HIDE DEF o
  <2> QED  BY <1>1, <2>1, <2>3, TaskWayOut
<1>5. CASE ResolveReserve(s)
  <2>1. /\ RowChanged(o, [order[o] EXCEPT !.applied = TRUE])
        /\ RowsAdded(o, "RESERVE", NewlyResolved(task[s]))
    BY <1>5, ResolveReserveEffect
  <2>2. /\ \A q \in OrderIds : q # o => order'[q] = order[q] /\ rows'[q] = rows[q]
        /\ order'[o].shipped = order[o].shipped /\ order'[o].reverted = order[o].reverted
        /\ order'[o].status = order[o].status
        /\ \A l \in Listings : rows'[o][l].SHIP = rows[o][l].SHIP
                               /\ rows'[o][l].RELEASE = rows[o][l].RELEASE
    BY <1>1, <2>1 DEF RowChanged, RowsAdded, OrderRow, LedgerKinds
  <2> HIDE DEF o
  <2> QED  BY <1>1, <2>2, TaskWayOut
<1> QED  BY <1>2, <1>3, <1>4, <1>5

-----------------------------------------------------------------------------
(* Each stage once.                                                        *)

\* With fixed lines nothing is filled or found late.
LEMMA NothingLate ==
  ASSUME OrderInv, LinesStayFixed, FixedLines
  PROVE  /\ \A p \in Pullers : "delta" \notin pull[p].due
         /\ \A s \in Staff : task[s].step # 3
<1>1. \A p \in Pullers : "delta" \notin pull[p].due
  BY DEF LinesStayFixed
<1>2. ASSUME NEW s \in Staff, task[s].step = 3
      PROVE  FALSE
  <2>1. task[s] # NoTask
    BY <1>2, NoTaskFields
  <2>2. task[s].op = "resolve" /\ task[s].op \in world.ops
    BY <1>2, <2>1 DEF OrderInv, ReadIsFresh
  <2> QED  BY <2>2 DEF FixedLines
<1> QED  BY <1>1, <1>2

\* When nobody is at anything, every line of a held order is reserved.
LEMMA QuietHeld ==
  ASSUME StageInv, FixedLines \/ Undisturbed,
         \A p \in Pullers : pull[p].due = {}, \A s \in Staff : task[s].step # 3,
         NEW o \in OrderIds, Held(o), NEW l \in Resolved(o, order[o].variant)
  PROVE  rows[o][l].RESERVE = 1
BY DEF StageInv, HeldLinesReserved

\* What the quiet steps do to the excuses for a line not yet reserved.
LEMMA QuietExcuses ==
  ASSUME OrderInv, Sequential,
         Outside \/ Crash \/ UNCHANGED orderVars
           \/ (\E s \in Staff : LoadStep(s) \/ ResolveMap(s))
  PROVE  /\ \A p \in Pullers : pull'[p] = NoPull \/ pull'[p] = pull[p]
         /\ FixedLines => mapping' = mapping
         /\ Undisturbed => pull' = pull /\ (task' = task \/ \A s \in Staff : task[s].step # 3)
<1>1. CASE Outside
  BY <1>1, OutsideEffect DEF OrderInv, FixedLines
<1>2. CASE Crash
  <2>1. /\ mapping' = mapping
        /\ \A p \in Pullers : pull'[p] = NoPull \/ pull'[p] = pull[p]
    BY <1>2 DEF Crash, CrashPull, CrashTask, OrderInv, Shape
  <2>2. world.crashes # 0
    BY <1>2 DEF Crash, CrashPull, CrashTask, OrderInv, Shape
  <2> QED  BY <2>1, <2>2 DEF Undisturbed
<1>3. CASE UNCHANGED orderVars
  BY <1>3 DEF orderVars
<1>4. ASSUME NEW s \in Staff, LoadStep(s)
      PROVE  UNCHANGED <<mapping, pull>> /\ \A t \in Staff : task[t].step # 3
  BY <1>4, LoadEffect, NoTaskFields
<1>5. ASSUME NEW s \in Staff, ResolveMap(s)
      PROVE  pull' = pull /\ ~FixedLines /\ \A t \in Staff : task[t].step # 3
  <2>1. \A t \in Staff : t # s => task[t] = NoTask
    BY <1>5, TaskEffect DEF TaskStep
  <2>2. task[s].step = 1 /\ "resolve" \in world.ops
    BY <1>5, ResolveMapEffect
  <2>3. pull' = pull
    BY <1>5 DEF ResolveMap
  <2>4. \A t \in Staff : task[t].step # 3
    BY <2>1, <2>2, NoTaskFields
  <2> QED  BY <2>2, <2>3, <2>4 DEF FixedLines
<1> QED  BY <1>1, <1>2, <1>3, <1>4, <1>5

\* With fixed lines a pull finds the variants the order has, and nothing late.
LEMMA UpsertFixed ==
  ASSUME OrderInv, LinesStayFixed, FixedLines, NEW p \in Pullers, pull[p] # NoPull,
         NEW o \in OrderIds
  PROVE  LateLines(p, o) = {} /\ UpsertedRow(p, o).variant = FixedVariant(o)
<1> DEFINE variant == UpsertedVariants(o, order[o], pull[p].resolution)
<1>1. pull[p].resolution = world.mapping
  BY DEF LinesStayFixed
<1>2. order[o].applied => order[o].variant = FixedVariant(o)
  BY DEF LinesStayFixed, OrderInv, StampsInOrder
<1>3. variant = FixedVariant(o)
  <2>1. \A l \in Listings : order[o].applied => order[o].variant[l] =
          IF l \in Lines(o) THEN world.mapping[l] ELSE Unmapped
    BY <1>2 DEF FixedVariant
  <2> QED  BY <1>1, <2>1 DEF UpsertedVariants, FixedVariant
<1>4. UpsertedRow(p, o).variant = variant
  BY UpsertedRowFields DEF OrderInv
<1> HIDE DEF variant
<1>5. ASSUME order[o].applied, NEW l \in Resolved(o, variant), order[o].variant[l] = Unmapped
      PROVE  FALSE
  BY <1>2, <1>3, <1>5 DEF Resolved
<1> QED  BY <1>3, <1>4, <1>5 DEF LateLines, variant

LEMMA LinesFixedStep ==
  ASSUME Sequential, OrderInv, LinesStayFixed, Next \/ UNCHANGED orderVars
  PROVE  LinesStayFixed'
<1> DEFINE Kept == /\ \A o \in OrderIds : order'[o].saved => order'[o].variant = FixedVariant(o)
                   /\ \A p \in Pullers : /\ pull'[p] # NoPull => pull'[p].resolution = mapping
                                         /\ "delta" \notin pull'[p].due
                   /\ mapping' = mapping
<1>1. world' = world
  BY ZenonT(60) DEF Next, LoadStep, LoadForShip, LoadForCancel, LoadForResolve, BeginTask, MarkShipped, Cancel,
         ResolveMap, ResolveFill, ResolveReserve, CrashTask, StartPull, UpsertOrder, Reserve,
         ReserveDelta, Ship, Release, OpenReturn, CrashPull, MapListing, ChannelAdvance,
         ChannelCancelLine, orderVars
<1>2. /\ FixedLines' <=> FixedLines
      /\ \A o \in OrderIds : FixedVariant(o)' = FixedVariant(o)
  BY <1>1 DEF FixedLines, FixedVariant, Lines
<1> SUFFICES ASSUME FixedLines
             PROVE  Kept
  <2>1. mapping = world.mapping \/ ~FixedLines
    BY DEF LinesStayFixed
  <2> QED  BY <1>1, <1>2, <2>1 DEF LinesStayFixed
<1>3. /\ \A o \in OrderIds : order[o].saved => order[o].variant = FixedVariant(o)
      /\ \A p \in Pullers : /\ pull[p] # NoPull => pull[p].resolution = mapping
                            /\ "delta" \notin pull[p].due
      /\ \A s \in Staff : task[s].step # 3
      /\ "resolve" \notin world.ops
  BY NothingLate DEF LinesStayFixed, FixedLines
<1>4. CASE Outside \/ Crash \/ UNCHANGED orderVars \/ (\E s \in Staff : LoadStep(s))
  <2>1. /\ \A p \in Pullers : pull'[p] = NoPull \/ pull'[p] = pull[p]
        /\ mapping' = mapping /\ order' = order
    BY <1>4, QuietExcuses, QuietSteps DEF Quiet
  <2> QED  BY <1>3, <2>1, NoPullFields
<1>5. ASSUME NEW p \in Pullers, StartPull(p)
      PROVE  Kept
  <2>1. /\ UNCHANGED <<mapping, order>> /\ pull'[p].due = {} /\ pull'[p].resolution = mapping
        /\ \A q \in Pullers : q # p => pull'[q] = NoPull
    BY <1>5, StartEffect DEF OrderInv
  <2> QED  BY <1>3, <2>1, NoPullFields
<1>6. ASSUME NEW p \in Pullers, UpsertOrder(p)
      PROVE  Kept
  <2>0. Shape /\ Alone
    BY DEF OrderInv
  <2>1. PICK o \in OrderIds :
          /\ order' = [order EXCEPT ![o] = UpsertedRow(p, o)]
          /\ pull'[p].due = DueStages(o, UpsertedRow(p, o), LateLines(p, o))
    BY <1>6, <2>0, UpsertEffect
  <2>2. mapping' = mapping /\ PullGoesOn(p)
    BY <1>6, <2>0, UpsertEffect
  <2>3. \A q \in Pullers : q # p => pull'[q] = NoPull
    BY <2>0, <2>2, PullAlone DEF PullGoesOn
  <2>4. LateLines(p, o) = {} /\ UpsertedRow(p, o).variant = FixedVariant(o)
    BY <2>2, UpsertFixed DEF PullGoesOn
  <2>5. "delta" \notin pull'[p].due
    BY <2>1, <2>4 DEF DueStages
  <2>6. \A q \in OrderIds : order'[q] = order[q] \/ order'[q].variant = FixedVariant(q)
    BY <2>0, <2>1, <2>4 DEF Shape
  <2> QED  BY <1>3, <2>2, <2>3, <2>5, <2>6, NoPullFields DEF PullGoesOn
<1>7. ASSUME NEW p \in Pullers, StageStep(p)
      PROVE  Kept
  <2>1. PICK stage \in Stages : pull'[p].due = pull[p].due \ {stage} /\ Staged(p, stage)
    BY <1>7, StageStaged
  <2>2. mapping' = mapping /\ PullGoesOn(p)
    BY <1>7, StageEffect
  <2>3. \A q \in Pullers : q # p => pull'[q] = NoPull
    BY <2>2, PullAlone DEF PullGoesOn, OrderInv
  <2>4. \A o \in OrderIds : order'[o].saved = order[o].saved /\ order'[o].variant = order[o].variant
    BY <2>1 DEF Staged
  <2> QED  BY <1>3, <2>1, <2>2, <2>3, <2>4, NoPullFields DEF PullGoesOn
<1>8. ASSUME NEW s \in Staff, MarkShipped(s) \/ Cancel(s)
      PROVE  Kept
  <2>1. order[task[s].order] \in OrderRow /\ pull' = pull
    BY <1>8, TaskEffect DEF TaskStep
  <2>2. /\ mapping' = mapping
        /\ \A o \in OrderIds : order'[o].saved = order[o].saved /\ order'[o].variant = order[o].variant
    <3>1. CASE MarkShipped(s)
      BY ZenonT(60), <2>1, <3>1, MarkShippedEffect DEF RowChanged, OrderRow
    <3>2. CASE Cancel(s)
      BY ZenonT(60), <2>1, <3>2, CancelEffect DEF RowChanged, OrderRow
    <3> QED  BY <1>8, <3>1, <3>2
  <2> QED  BY <1>3, <2>1, <2>2
<1>9. ASSUME NEW s \in Staff, ResolveMap(s) \/ ResolveFill(s) \/ ResolveReserve(s)
      PROVE  FALSE
  <2>1. TaskStep(s) /\ task[s].op = "resolve"
    BY <1>9 DEF TaskStep, ResolveMap, ResolveFill, ResolveReserve
  <2> QED  BY <1>3, <2>1, TaskEffect DEF LetIn
<1> QED  BY SMTT(30), <1>4, <1>5, <1>6, <1>7, <1>8, <1>9, NextCases

LEMMA QuietStage ==
  ASSUME OrderInv, LinesStayFixed, StageInv, Sequential,
         Outside \/ Crash \/ UNCHANGED orderVars
           \/ (\E s \in Staff : LoadStep(s) \/ ResolveMap(s))
  PROVE  StageInv'
<1>1. /\ UNCHANGED <<order, rows, world>> /\ PagesKept /\ ChannelMovesOn
      /\ \A p \in Pullers : pull'[p] = NoPull \/ pull'[p] = pull[p]
      /\ FixedLines => mapping' = mapping
      /\ Undisturbed => pull' = pull /\ (task' = task \/ \A s \in Staff : task[s].step # 3)
  BY QuietSteps, QuietExcuses DEF Quiet
<1>2. (FixedLines' <=> FixedLines) /\ (Undisturbed' <=> Undisturbed)
  BY <1>1 DEF FixedLines, Undisturbed
<1>4. PaidStaysPaid'
  BY <1>1, NoPullFields DEF StageInv, PaidStaysPaid, ChannelMovesOn
<1>5. HeldIsPaid'
  <2> SUFFICES ASSUME Undisturbed, NEW o \in OrderIds
               PROVE  /\ channel'[o].status # "CANCELLED"
                      /\ \A p \in Pullers : pull[p] # NoPull => pull[p].fetched[o].status # "CANCELLED"
                      /\ Held(o)' => \/ order[o].status = "PAID"
                                     \/ \E p \in Pullers : pull[p].current = o /\ "ship" \in pull[p].due
    BY <1>1, <1>2 DEF HeldIsPaid
  <2>1. Held(o)' <=> Held(o)
    BY <1>1 DEF Held
  <2> QED  BY <1>1, <2>1 DEF StageInv, HeldIsPaid, ChannelMovesOn, Undisturbed
<1>6. PaidIsReserved'
  <2> SUFFICES ASSUME Undisturbed, NEW o \in OrderIds, order[o].status = "PAID", ~order[o].applied
               PROVE  \/ Resolved(o, order[o].variant) = {}
                      \/ \E p \in Pullers : pull[p].current = o /\ "reserve" \in pull[p].due
                      \/ \E s \in Staff :
                           /\ task'[s].step = 3 /\ task'[s].order = o
                           /\ Resolved(o, order[o].variant) \subseteq NewlyResolved(task'[s])
    BY <1>1, <1>2 DEF PaidIsReserved, NewlyResolved, Resolved, Lines
  <2> QED  BY <1>1 DEF StageInv, PaidIsReserved
<1>7. ASSUME FixedLines \/ Undisturbed
      PROVE  HeldLinesReserved' /\ EachStageOnce'
  <2> SUFFICES ASSUME NEW o \in OrderIds, Held(o)', NEW l \in Resolved(o, order[o].variant)
               PROVE  \/ rows[o][l].RESERVE = 1
                      \/ \E p \in Pullers : pull'[p].current = o /\ "delta" \in pull'[p].due
                                            /\ l \in pull'[p].late
                      \/ \E s \in Staff : /\ task'[s].step = 3 /\ task'[s].order = o
                                          /\ l \in NewlyResolved(task'[s])
    BY <1>1, <1>7 DEF HeldLinesReserved, EachStageOnce, StageInv, NewlyResolved, Resolved, Lines
  <2>1. Held(o)
    BY <1>1 DEF Held
  <2>2. \/ rows[o][l].RESERVE = 1
        \/ \E p \in Pullers : pull[p].current = o /\ "delta" \in pull[p].due /\ l \in pull[p].late
        \/ \E s \in Staff : task[s].step = 3 /\ task[s].order = o /\ l \in NewlyResolved(task[s])
    BY <1>7, <2>1 DEF StageInv, HeldLinesReserved
  <2>3. CASE FixedLines
    BY <2>2, <2>3, NothingLate
  <2>4. CASE Undisturbed
    BY <1>1, <2>2, <2>4
  <2> QED  BY <1>7, <2>3, <2>4
<1> QED  BY <1>2, <1>4, <1>5, <1>6, <1>7 DEF StageInv

LEMMA StartStage ==
  ASSUME OrderInv, StageInv, Sequential, NEW p \in Pullers, StartPull(p)
  PROVE  StageInv'
<1>1. /\ UNCHANGED <<channel, mapping, order, rows, task, crashes, world>>
      /\ \A q \in Pullers : pull[q].due = {}
      /\ \A s \in Staff : task[s].step # 3
      /\ \A q \in Pullers : q # p => pull'[q] = NoPull
      /\ pull'[p].due = {} /\ pull'[p].fetched = channel /\ pull'[p].resolution = mapping
  BY StartEffect, NoPullFields, NoTaskFields DEF OrderInv
<1>2. (FixedLines' <=> FixedLines) /\ (Undisturbed' <=> Undisturbed)
  BY <1>1 DEF FixedLines, Undisturbed
<1>4. PaidStaysPaid'
  BY <1>1, NoPullFields DEF StageInv, PaidStaysPaid
<1>5. \A o \in OrderIds : Held(o)' <=> Held(o)
  BY <1>1 DEF Held
<1>6. HeldIsPaid'
  BY <1>1, <1>2, <1>5 DEF StageInv, HeldIsPaid
<1>7. PaidIsReserved'
  BY <1>1, <1>2 DEF StageInv, PaidIsReserved
<1>8. ASSUME FixedLines \/ Undisturbed
      PROVE  HeldLinesReserved' /\ EachStageOnce'
  <2>1. HeldLinesReserved'
    BY <1>1, <1>5, <1>8, QuietHeld DEF HeldLinesReserved
  <2> QED  BY <1>1, <1>8, <2>1 DEF StageInv, EachStageOnce
<1> QED  BY <1>2, <1>4, <1>6, <1>7, <1>8 DEF StageInv

LEMMA UpsertStage ==
  ASSUME OrderInv, LinesStayFixed, WayOutInv, StageInv, NEW p \in Pullers, UpsertOrder(p)
  PROVE  StageInv'
<1>0. Shape /\ Alone
  BY DEF OrderInv
<1>1. PICK o \in OrderIds :
        /\ o \in pull[p].todo /\ pull'[p].todo = pull[p].todo \ {o}
        /\ order' = [order EXCEPT ![o] = UpsertedRow(p, o)]
        /\ pull'[p].due = DueStages(o, UpsertedRow(p, o), LateLines(p, o))
        /\ pull'[p].due # {} => /\ pull'[p].current = o
                                /\ pull'[p].items = UpsertedRow(p, o).variant
                                /\ pull'[p].late = LateLines(p, o)
  BY <1>0, UpsertEffect
<1>2. /\ UNCHANGED <<channel, mapping, rows, task, crashes, world>>
      /\ PullGoesOn(p) /\ pull[p].due = {}
  BY <1>0, UpsertEffect
<1>3. /\ pull[p] # NoPull
      /\ \A q \in Pullers : q # p => pull[q] = NoPull /\ pull'[q] = NoPull
      /\ \A s \in Staff : task[s] = NoTask
  BY <1>0, <1>2, PullAlone DEF PullGoesOn
<1>4. /\ \A q \in Pullers : pull[q].due = {}
      /\ \A s \in Staff : task[s].step # 3
      /\ \A q \in Pullers : q # p => pull'[q].due = {} /\ pull'[q].todo = {}
  BY <1>2, <1>3, NoPullFields, NoTaskFields
<1> DEFINE row == UpsertedRow(p, o)  late == LateLines(p, o)  fetched == pull[p].fetched[o].status
<1>5. /\ row \in OrderRow /\ row.saved /\ row.status = fetched
      /\ row.applied = order[o].applied /\ row.shipped = order[o].shipped
      /\ row.reverted = order[o].reverted
      /\ row.variant = UpsertedVariants(o, order[o], pull[p].resolution)
  BY <1>0, UpsertedRowFields
<1>6. order'[o] = row /\ \A q \in OrderIds : q # o => order'[q] = order[q]
  BY <1>0, <1>1 DEF Shape
<1>7. fetched \in Statuses /\ row.applied \in BOOLEAN /\ row.shipped \in BOOLEAN
      /\ row.reverted \in BOOLEAN
  BY <1>0, <1>5 DEF Shape, Pull, ChannelOrder, OrderRow
<1>8. pull'[p].due = DueStages(o, row, late)
  BY <1>1
<1> HIDE DEF row, late
<1>9. (FixedLines' <=> FixedLines) /\ (Undisturbed' <=> Undisturbed)
  BY <1>2 DEF FixedLines, Undisturbed
<1>10. order[o].applied => /\ fetched # "PENDING" /\ channel[o].status # "PENDING"
  BY <1>1 DEF StageInv, PaidStaysPaid
<1>11. Undisturbed => fetched # "CANCELLED"
  BY <1>3 DEF StageInv, HeldIsPaid
<1>12. late = IF order[o].applied
              THEN {l \in Resolved(o, row.variant) : order[o].variant[l] = Unmapped} ELSE {}
  BY <1>5 DEF late, LateLines
<1>13. FixedLines => late = {}
  BY <1>3, UpsertFixed DEF late
<1>15. PaidStaysPaid'
  <2> SUFFICES ASSUME NEW q \in OrderIds,
                      order'[q].applied \/ order'[q].status \notin {"PENDING", "CANCELLED"}
               PROVE  /\ channel[q].status # "PENDING"
                      /\ \A r \in Pullers : q \in pull'[r].todo => pull'[r].fetched[q].status # "PENDING"
    BY <1>2 DEF PaidStaysPaid
  <2>1. CASE q = o
    <3>1. channel[o].status # "PENDING"
      BY <1>3, <1>5, <1>6, <1>10, <2>1 DEF WayOutInv, FetchedBefore
    <3> QED  BY <1>1, <1>4, <2>1, <3>1
  <2>2. CASE q # o
    <3>1. order[q].applied \/ order[q].status \notin {"PENDING", "CANCELLED"}
      BY <1>6, <2>2
    <3>2. /\ channel[q].status # "PENDING"
          /\ q \in pull[p].todo => pull[p].fetched[q].status # "PENDING"
      BY <3>1 DEF StageInv, PaidStaysPaid
    <3> QED  BY <1>1, <1>2, <1>4, <3>2, NoPullFields DEF PullGoesOn
  <2> QED  BY <2>1, <2>2
<1>16. \A q \in OrderIds : Held(q)' <=> Held(q)
  BY <1>5, <1>6 DEF Held
<1>17. order[o].applied /\ PaidOrBeyond(fetched) /\ OpenOrder(row) /\ late # {} =>
         "delta" \in pull'[p].due
  BY <1>5, <1>8 DEF DueStages, Stages
<1>18. order[o].applied /\ fetched \in {"SHIPPED", "COMPLETED"} /\ OpenOrder(row) =>
         "ship" \in pull'[p].due
  BY <1>5, <1>8 DEF DueStages, Stages
<1>19. fetched = "PAID" /\ ~order[o].applied /\ Resolved(o, row.variant) # {} =>
         "reserve" \in pull'[p].due
  <2>1. ~order[o].applied => ~row.reverted
    BY <1>5 DEF OrderInv, StampsInOrder
  <2> QED  BY <1>5, <1>8, <2>1 DEF DueStages, Stages, ReserveDue, PaidOrBeyond
<1>20. HeldIsPaid'
  <2> SUFFICES ASSUME Undisturbed, NEW q \in OrderIds
               PROVE  /\ channel[q].status # "CANCELLED"
                      /\ \A r \in Pullers : pull'[r] # NoPull => pull'[r].fetched[q].status # "CANCELLED"
                      /\ Held(q) => \/ order'[q].status = "PAID"
                                    \/ \E r \in Pullers : pull'[r].current = q /\ "ship" \in pull'[r].due
    BY <1>2, <1>9, <1>16 DEF HeldIsPaid
  <2>1. /\ channel[q].status # "CANCELLED" /\ pull[p].fetched[q].status # "CANCELLED"
        /\ Held(q) => order[q].status = "PAID"
    BY <1>3, <1>4 DEF StageInv, HeldIsPaid
  <2>2. \A r \in Pullers : pull'[r] # NoPull => pull'[r].fetched[q].status # "CANCELLED"
    BY <1>2, <1>3, <2>1 DEF PullGoesOn
  <2>3. q = o /\ Held(q) => order'[q].status = "PAID" \/ "ship" \in pull'[p].due
    BY <1>5, <1>6, <1>7, <1>10, <1>11, <1>18 DEF Held, OpenOrder, Statuses
  <2> QED  BY <1>1, <1>6, <2>1, <2>2, <2>3
<1>21. PaidIsReserved'
  <2> SUFFICES ASSUME Undisturbed, NEW q \in OrderIds, order'[q].status = "PAID", ~order'[q].applied
               PROVE  \/ Resolved(q, order'[q].variant) = {}
                      \/ \E r \in Pullers : pull'[r].current = q /\ "reserve" \in pull'[r].due
    BY <1>2, <1>9 DEF PaidIsReserved, Resolved, Lines
  <2>1. q # o => Resolved(q, order'[q].variant) = {}
    BY <1>4, <1>6 DEF StageInv, PaidIsReserved
  <2>2. q = o => Resolved(q, order'[q].variant) = {} \/ "reserve" \in pull'[p].due
    BY <1>5, <1>6, <1>19
  <2> QED  BY <1>1, <2>1, <2>2
<1>22. ASSUME FixedLines \/ Undisturbed
       PROVE  HeldLinesReserved' /\ EachStageOnce'
  <2>1. EachStageOnce'
    BY <1>2, <1>22 DEF StageInv, EachStageOnce
  <2> SUFFICES ASSUME NEW q \in OrderIds, Held(q), NEW l \in Resolved(q, order'[q].variant)
               PROVE  \/ rows[q][l].RESERVE = 1
                      \/ \E r \in Pullers : pull'[r].current = q /\ "delta" \in pull'[r].due
                                            /\ l \in pull'[r].late
    BY <1>2, <1>16, <2>1 DEF HeldLinesReserved, Resolved, Lines
  <2>2. CASE l \in Resolved(q, order[q].variant)
    BY <1>4, <1>22, <2>2, QuietHeld
  <2>3. CASE l \notin Resolved(q, order[q].variant)
    <3>1. q = o /\ l \in Lines(o)
      BY <1>6, <2>3 DEF Resolved
    <3>2. l \in late
      BY <1>6, <1>12, <2>3, <3>1 DEF Held, Resolved
    <3>3. Undisturbed
      BY <1>13, <1>22, <3>2
    <3>4. "delta" \in pull'[p].due
      <4>1. PaidOrBeyond(fetched) /\ order[o].applied /\ OpenOrder(row)
        BY <1>5, <1>7, <1>10, <1>11, <3>1, <3>3 DEF Held, OpenOrder, PaidOrBeyond, Statuses
      <4> QED  BY <1>17, <3>2, <4>1
    <3> QED  BY <1>1, <3>1, <3>2, <3>4 DEF late
  <2> QED  BY <2>2, <2>3
<1> QED  BY <1>9, <1>15, <1>20, <1>21, <1>22 DEF StageInv

LEMMA StageOnce ==
  ASSUME OrderInv, WayOutInv, StageInv, NEW p \in Pullers, StageStep(p)
  PROVE  StageInv'
<1> DEFINE o == pull[p].current
<1>0. Shape /\ Alone
  BY DEF OrderInv
<1>1. PICK stage \in Stages :
        /\ stage \in pull[p].due /\ pull'[p].due = pull[p].due \ {stage}
        /\ stage \in {"ship", "release"} => ~Reserving(p)
        /\ Staged(p, stage)
  BY StageStaged
<1>2. /\ UNCHANGED <<channel, mapping, task, crashes, world>> /\ PullGoesOn(p)
      /\ pull'[p].todo = pull[p].todo /\ o \in OrderIds
      /\ pull'[p].due # {} => pull'[p].current = o /\ pull'[p].late = pull[p].late
  BY StageEffect
<1>3. /\ \A q \in Pullers : q # p => pull[q] = NoPull /\ pull'[q] = NoPull
      /\ \A s \in Staff : task[s] = NoTask
  BY <1>0, <1>2, PullAlone DEF PullGoesOn
<1>4. /\ \A q \in Pullers : q # p => /\ pull[q].due = {}
                                     /\ pull'[q].due = {} /\ pull'[q].todo = {}
      /\ \A s \in Staff : task[s].step # 3
  BY SMTT(30), <1>3, NoPullFields, NoTaskFields
<1>5. /\ \A q \in OrderIds : q # o => order'[q] = order[q] /\ rows'[q] = rows[q]
      /\ order'[o].saved = order[o].saved /\ order'[o].status = order[o].status
      /\ order'[o].variant = order[o].variant
      /\ order'[o].applied = (order[o].applied \/ stage = "reserve")
      /\ order'[o].shipped = (order[o].shipped \/ stage = "ship")
      /\ order'[o].reverted = (order[o].reverted \/ stage = "release")
      /\ \A l \in Listings, kind \in LedgerKinds :
           rows'[o][l][kind] = IF l \in MovedBy(p, stage, kind) THEN rows[o][l][kind] + 1
                               ELSE rows[o][l][kind]
  BY <1>1 DEF Staged
<1>6. /\ o \notin pull[p].todo /\ pull[p].items = order[o].variant /\ order[o].saved
      /\ "reserve" \in pull[p].due => ~order[o].applied /\ PaidOrBeyond(order[o].status)
                           /\ (order[o].status = "PAID" \/ "ship" \in pull[p].due)
      /\ "delta" \in pull[p].due => order[o].applied
      /\ stage \in {"ship", "release"} => /\ OpenOrder(order[o]) /\ order[o].applied
                                          /\ "delta" \notin pull[p].due
  BY SMTT(30), <1>1, <1>2 DEF OrderInv, DueFitsOrder, Reserving
<1> DEFINE lines == Resolved(o, order[o].variant)
<1>7. /\ \A l \in Listings : rows'[o][l].RESERVE =
           IF l \in MovedBy(p, stage, "RESERVE") THEN rows[o][l].RESERVE + 1
           ELSE rows[o][l].RESERVE
      /\ stage = "reserve" => MovedBy(p, stage, "RESERVE") = lines
      /\ stage = "delta" => MovedBy(p, stage, "RESERVE") = pull[p].late
      /\ stage \notin {"reserve", "delta"} => MovedBy(p, stage, "RESERVE") = {}
  BY Zenon, <1>5, <1>6 DEF MovedBy, LedgerKinds
<1>8. /\ stage \notin {"ship", "release"} => \A l \in Listings :
           rows'[o][l].SHIP = rows[o][l].SHIP /\ rows'[o][l].RELEASE = rows[o][l].RELEASE
      /\ \A l \in Listings : l \notin lines =>
           rows'[o][l].SHIP = rows[o][l].SHIP /\ rows'[o][l].RELEASE = rows[o][l].RELEASE
      /\ \A l \in lines : rows'[o][l].SHIP + rows'[o][l].RELEASE <=
                            rows[o][l].SHIP + rows[o][l].RELEASE + 1
  <2>1. lines \subseteq Listings
    BY DEF Resolved, Lines
  <2>2. /\ stage \notin {"ship", "release"} => MovedBy(p, stage, "SHIP") = {}
                                               /\ MovedBy(p, stage, "RELEASE") = {}
        /\ MovedBy(p, stage, "SHIP") \cap MovedBy(p, stage, "RELEASE") = {}
        /\ MovedBy(p, stage, "SHIP") \cup MovedBy(p, stage, "RELEASE") \subseteq lines
    BY <1>6 DEF MovedBy
  <2>3. \A l \in Listings :
          /\ rows'[o][l].SHIP = IF l \in MovedBy(p, stage, "SHIP") THEN rows[o][l].SHIP + 1
                                ELSE rows[o][l].SHIP
          /\ rows'[o][l].RELEASE = IF l \in MovedBy(p, stage, "RELEASE")
                                   THEN rows[o][l].RELEASE + 1 ELSE rows[o][l].RELEASE
    BY <1>5 DEF LedgerKinds
  <2>4. \A l \in Listings : rows[o][l].SHIP \in Nat /\ rows[o][l].RELEASE \in Nat
    BY <1>0, <1>2, NaturalRows
  <2> HIDE DEF lines, o
  <2> QED  BY <2>1, <2>2, <2>3, <2>4
<1>9. \A l \in Listings : rows[o][l].SHIP \in Nat /\ rows[o][l].RELEASE \in Nat
                          /\ rows[o][l].RESERVE \in Nat
  BY <1>0, <1>2, NaturalRows
<1>10. (FixedLines' <=> FixedLines) /\ (Undisturbed' <=> Undisturbed)
  BY <1>2 DEF FixedLines, Undisturbed
<1>11. order[o].applied \in BOOLEAN /\ order[o].shipped \in BOOLEAN /\ order[o].reverted \in BOOLEAN
  BY <1>0, <1>2 DEF Shape, OrderRow
<1> HIDE DEF o, lines
<1>13. PaidStaysPaid'
  <2> SUFFICES ASSUME NEW q \in OrderIds,
                      order'[q].applied \/ order'[q].status \notin {"PENDING", "CANCELLED"}
               PROVE  /\ channel[q].status # "PENDING"
                      /\ \A r \in Pullers : q \in pull'[r].todo => pull'[r].fetched[q].status # "PENDING"
    BY <1>2 DEF PaidStaysPaid
  <2>1. order[q].applied \/ order[q].status \notin {"PENDING", "CANCELLED"}
    BY <1>1, <1>5, <1>6 DEF PaidOrBeyond
  <2>2. /\ channel[q].status # "PENDING"
        /\ q \in pull[p].todo => pull[p].fetched[q].status # "PENDING"
    BY <2>1 DEF StageInv, PaidStaysPaid
  <2> QED  BY <1>2, <1>4, <2>2, NoPullFields DEF PullGoesOn
<1>14. HeldIsPaid'
  <2> SUFFICES ASSUME Undisturbed, NEW q \in OrderIds
               PROVE  /\ channel[q].status # "CANCELLED"
                      /\ \A r \in Pullers : pull'[r] # NoPull => pull'[r].fetched[q].status # "CANCELLED"
                      /\ Held(q)' => \/ order'[q].status = "PAID"
                                     \/ \E r \in Pullers : pull'[r].current = q /\ "ship" \in pull'[r].due
    BY <1>2, <1>10 DEF HeldIsPaid
  <2>1. /\ channel[q].status # "CANCELLED"
        /\ \A r \in Pullers : pull[r] # NoPull => pull[r].fetched[q].status # "CANCELLED"
        /\ Held(q) => \/ order[q].status = "PAID"
                      \/ \E r \in Pullers : pull[r].current = q /\ "ship" \in pull[r].due
    BY DEF StageInv, HeldIsPaid
  <2>2. \A r \in Pullers : pull'[r] # NoPull => pull'[r].fetched[q].status # "CANCELLED"
    BY <1>2, <1>3, <2>1 DEF PullGoesOn
  <2>3. ASSUME q # o, Held(q)'
        PROVE  order'[q].status = "PAID"
    BY <1>4, <1>5, <2>1, <2>3 DEF Held, o
  <2>4. ASSUME q = o, Held(q)'
        PROVE  order'[q].status = "PAID" \/ ("ship" \in pull'[p].due /\ pull'[p].current = o)
    <3>1. stage # "ship" /\ order'[o].status = order[o].status
      BY <1>5, <2>4 DEF Held
    <3>2. order[o].status = "PAID" \/ "ship" \in pull[p].due
      <4>1. CASE stage = "reserve"
        BY <1>1, <1>6, <4>1
      <4>2. CASE stage # "reserve"
        BY <1>4, <1>5, <2>1, <2>4, <4>2 DEF Held
      <4> QED  BY <4>1, <4>2
    <3> QED  BY <1>1, <1>2, <2>4, <3>1, <3>2
  <2> QED  BY <2>1, <2>2, <2>3, <2>4
<1>15. PaidIsReserved'
  <2> SUFFICES ASSUME Undisturbed, NEW q \in OrderIds, order'[q].status = "PAID", ~order'[q].applied
               PROVE  \/ Resolved(q, order'[q].variant) = {}
                      \/ \E r \in Pullers : pull'[r].current = q /\ "reserve" \in pull'[r].due
    BY <1>2, <1>10 DEF PaidIsReserved, Resolved, Lines
  <2>1. /\ order[q].status = "PAID" /\ ~order[q].applied /\ order'[q].variant = order[q].variant
        /\ q = o => stage # "reserve"
    BY <1>5, <1>11
  <2>2. \/ Resolved(q, order[q].variant) = {}
        \/ q = o /\ "reserve" \in pull[p].due
    BY <1>4, <2>1 DEF StageInv, PaidIsReserved, o
  <2>3. q = o /\ "reserve" \in pull[p].due => "reserve" \in pull'[p].due
    BY <1>1, <2>1
  <2> QED  BY <1>2, <2>1, <2>2, <2>3
<1>16. ASSUME FixedLines \/ Undisturbed
       PROVE  HeldLinesReserved' /\ EachStageOnce'
  <2>1. ASSUME NEW q \in OrderIds, Held(q), NEW l \in Resolved(q, order[q].variant)
        PROVE  \/ rows[q][l].RESERVE = 1
               \/ q = o /\ "delta" \in pull[p].due /\ l \in pull[p].late
    BY <1>4, <1>16, <2>1 DEF StageInv, HeldLinesReserved, o
  <2>2. HeldLinesReserved'
    <3> SUFFICES ASSUME NEW q \in OrderIds, Held(q)', NEW l \in Resolved(q, order'[q].variant)
                 PROVE  \/ rows'[q][l].RESERVE = 1
                        \/ \E r \in Pullers : pull'[r].current = q /\ "delta" \in pull'[r].due
                                              /\ l \in pull'[r].late
      BY DEF HeldLinesReserved, Resolved, Lines
    <3>1. CASE q # o
      <4>1. Held(q) /\ l \in Resolved(q, order[q].variant) /\ rows'[q] = rows[q]
        BY <1>5, <3>1 DEF Held
      <4> QED  BY <2>1, <3>1, <4>1
    <3>2. CASE q = o /\ stage = "reserve"
      <4>1. l \in lines /\ l \in Listings /\ ~order[o].applied
        BY <1>1, <1>5, <1>6, <3>2 DEF lines, Resolved, Lines
      <4>2. ~(rows[o][l].RESERVE > 0)
        BY <1>2, <4>1 DEF OrderInv, ReservedOnce
      <4> QED  BY <1>7, <1>9, <3>2, <4>1, <4>2
    <3>3. CASE q = o /\ stage # "reserve"
      <4>1. Held(o) /\ l \in Resolved(o, order[o].variant) /\ stage \notin {"ship", "release"}
        BY <1>5, <1>11, <3>3 DEF Held
      <4>2. l \in Listings
        BY <4>1 DEF Resolved, Lines
      <4>3. CASE stage = "delta" /\ l \in pull[p].late
        <5>1. rows[o][l].RESERVE = 0
          BY <1>1, <4>3 DEF OrderInv, LateUnreserved, o
        <5> QED  BY <1>7, <3>3, <4>2, <4>3, <5>1
      <4>4. CASE rows[o][l].RESERVE = 1 /\ ~(stage = "delta" /\ l \in pull[p].late)
        BY <1>7, <3>3, <4>2, <4>4
      <4>5. CASE stage # "delta" /\ "delta" \in pull[p].due /\ l \in pull[p].late
        BY <1>1, <1>2, <3>3, <4>5
      <4> QED  BY <1>2, <2>1, <4>1, <4>3, <4>4, <4>5
    <3> QED  BY <3>1, <3>2, <3>3
  <2>3. ASSUME NEW l \in Listings
        PROVE  rows'[o][l].SHIP + rows'[o][l].RELEASE <= rows'[o][l].RESERVE
    <3>1. /\ rows[o][l].SHIP + rows[o][l].RELEASE <= rows[o][l].RESERVE
          /\ rows'[o][l].RESERVE \in {rows[o][l].RESERVE, rows[o][l].RESERVE + 1}
      BY <1>2, <1>7, <1>16 DEF StageInv, EachStageOnce
    <3>2. CASE stage \notin {"ship", "release"} \/ l \notin lines
      BY <1>8, <1>9, <3>1, <3>2
    <3>3. CASE stage \in {"ship", "release"} /\ l \in lines
      <4>1. Held(o) /\ "delta" \notin pull[p].due
        BY <1>6, <3>3 DEF Held, OpenOrder
      <4>2. rows[o][l].RESERVE = 1
        BY <1>2, <2>1, <3>3, <4>1 DEF lines
      <4>3. rows[o][l].SHIP = 0 /\ rows[o][l].RELEASE = 0
        <5>1. ~(rows[o][l].SHIP + rows[o][l].RELEASE > 0)
          BY <1>2, <4>1 DEF WayOutInv, LeftIsStamped, Held
        <5> QED  BY <1>9, <5>1
      <4>4. rows'[o][l].RESERVE = 1
        BY <1>7, <3>3, <4>2
      <4> QED  BY <1>8, <3>3, <4>3, <4>4
    <3> QED  BY <3>2, <3>3
  <2>4. OrderInv'
    BY StageInvariant
  <2>5. \A q \in OrderIds, l \in Listings : rows'[q][l].RESERVE <= 1
    <3>1. \A q \in OrderIds, l \in Listings : rows'[q][l].RESERVE \in Nat
      BY <2>4, OrdersAssumption DEF OrderInv, Shape, LedgerCount
    <3> QED  BY <2>4, <3>1 DEF OrderInv, ReservedOnce
  <2>6. EachStageOnce'
    BY <1>5, <1>16, <2>3, <2>5 DEF StageInv, EachStageOnce
  <2> QED  BY <2>2, <2>6
<1> QED  BY <1>10, <1>13, <1>14, <1>15, <1>16 DEF StageInv

\* A staff request that changes the order it is for as told.
LEMMA TaskOnce ==
  ASSUME OrderInv, StageInv, NEW s \in Staff, TaskStep(s), NEW o \in OrderIds,
         o = task[s].order,
         \A q \in OrderIds : q # o => order'[q] = order[q] /\ rows'[q] = rows[q],
         order'[o].applied \/ order'[o].status \notin {"PENDING", "CANCELLED"} =>
           order[o].applied \/ order[o].status \notin {"PENDING", "CANCELLED"},
         Undisturbed /\ Held(o)' => order'[o].status = "PAID",
         Undisturbed /\ order'[o].status = "PAID" /\ ~order'[o].applied =>
           \/ Resolved(o, order'[o].variant) = {}
           \/ /\ task'[s].step = 3 /\ task'[s].order = o
              /\ Resolved(o, order'[o].variant) \subseteq NewlyResolved(task'[s]),
         FixedLines \/ Undisturbed =>
           /\ Held(o)' => \A l \in Resolved(o, order'[o].variant) :
                \/ rows'[o][l].RESERVE = 1
                \/ task'[s].step = 3 /\ task'[s].order = o /\ l \in NewlyResolved(task'[s])
           /\ \A l \in Listings : rows'[o][l].RESERVE <= 1
                                  /\ rows'[o][l].SHIP + rows'[o][l].RELEASE <= rows'[o][l].RESERVE
  PROVE  StageInv'
<1>1. /\ UNCHANGED <<channel, pull, crashes, world>>
      /\ \A p \in Pullers : pull[p].due = {} /\ pull[p] = NoPull /\ pull[p].todo = {}
      /\ \A t \in Staff : t # s => task[t].step # 3
  BY TaskEffect, NoPullFields, NoTaskFields
<1>2. (FixedLines' <=> FixedLines) /\ (Undisturbed' <=> Undisturbed)
  BY <1>1 DEF FixedLines, Undisturbed
<1>4. PaidStaysPaid'
  BY <1>1 DEF StageInv, PaidStaysPaid
<1>5. \A q \in OrderIds : q # o => (Held(q)' <=> Held(q))
  BY DEF Held
<1>6. HeldIsPaid'
  <2> SUFFICES ASSUME Undisturbed, NEW q \in OrderIds
               PROVE  /\ channel[q].status # "CANCELLED"
                      /\ Held(q)' => order'[q].status = "PAID"
    BY <1>1, <1>2 DEF HeldIsPaid
  <2> QED  BY <1>1, <1>5 DEF StageInv, HeldIsPaid
<1>7. PaidIsReserved'
  <2> SUFFICES ASSUME Undisturbed, NEW q \in OrderIds, order'[q].status = "PAID", ~order'[q].applied
               PROVE  \/ Resolved(q, order'[q].variant) = {}
                      \/ /\ task'[s].step = 3 /\ task'[s].order = q
                         /\ Resolved(q, order'[q].variant) \subseteq NewlyResolved(task'[s])
    BY <1>1, <1>2 DEF PaidIsReserved, Resolved, Lines, NewlyResolved
  <2>1. CASE q # o
    <3>1. order[q].status = "PAID" /\ ~order[q].applied /\ order'[q] = order[q]
      BY <2>1
    <3> QED  BY <1>1, <2>1, <3>1 DEF StageInv, PaidIsReserved
  <2> QED  BY <2>1
<1>8. ASSUME FixedLines \/ Undisturbed
      PROVE  HeldLinesReserved' /\ EachStageOnce'
  <2>1. HeldLinesReserved'
    <3> SUFFICES ASSUME NEW q \in OrderIds, Held(q)', NEW l \in Resolved(q, order'[q].variant)
                 PROVE  \/ rows'[q][l].RESERVE = 1
                        \/ task'[s].step = 3 /\ task'[s].order = q /\ l \in NewlyResolved(task'[s])
      BY DEF HeldLinesReserved, Resolved, Lines, NewlyResolved
    <3>1. CASE q # o
      <4>1. Held(q) /\ l \in Resolved(q, order[q].variant) /\ rows'[q] = rows[q]
        BY <1>5, <3>1
      <4> QED  BY <1>1, <1>8, <3>1, <4>1 DEF StageInv, HeldLinesReserved
    <3> QED  BY <1>8, <3>1
  <2>2. EachStageOnce'
    BY <1>8 DEF StageInv, EachStageOnce
  <2> QED  BY <2>1, <2>2
<1> QED  BY <1>2, <1>4, <1>6, <1>7, <1>8 DEF StageInv

LEMMA StaffOnce ==
  ASSUME OrderInv, WayOutInv, StageInv, OneWayOut, NEW s \in Staff,
         NEW o \in OrderIds, o = task[s].order,
         MarkShipped(s) \/ Cancel(s) \/ ResolveFill(s) \/ ResolveReserve(s)
  PROVE  StageInv'
<1>0. Shape
  BY DEF OrderInv
<1>1. /\ TaskStep(s) /\ o \in OrderIds /\ order[o] \in OrderRow /\ task[s] \in Task
      /\ \A p \in Pullers : pull[p].due = {}
      /\ \A t \in Staff : t # s => task[t].step # 3
  BY TaskEffect, NoPullFields, NoTaskFields DEF TaskStep, LetIn
<1>2. /\ \A l \in Listings : rows[o][l].SHIP \in Nat /\ rows[o][l].RELEASE \in Nat
                             /\ rows[o][l].RESERVE \in Nat
      /\ ~order[o].shipped /\ ~order[o].reverted =>
           \A l \in Listings : rows[o][l].SHIP = 0 /\ rows[o][l].RELEASE = 0
  <2>1. \A l \in Listings : rows[o][l].SHIP \in Nat /\ rows[o][l].RELEASE \in Nat
                            /\ rows[o][l].RESERVE \in Nat
    BY <1>0, <1>1, NaturalRows
  <2>2. ~order[o].shipped /\ ~order[o].reverted =>
          \A l \in Listings : ~(rows[o][l].SHIP + rows[o][l].RELEASE > 0)
    BY <1>1 DEF WayOutInv, LeftIsStamped
  <2> QED  BY <2>1, <2>2
<1>3. FixedLines \/ Undisturbed => \A l \in Listings :
        /\ rows[o][l].RESERVE <= 1
        /\ rows[o][l].SHIP + rows[o][l].RELEASE <= rows[o][l].RESERVE
  BY <1>1 DEF StageInv, EachStageOnce
<1>4. task[s].step # 3 =>
        /\ FixedLines \/ Undisturbed =>
             (Held(o) => \A l \in Resolved(o, order[o].variant) : rows[o][l].RESERVE = 1)
        /\ Undisturbed => (order[o].status = "PAID" /\ ~order[o].applied =>
                             Resolved(o, order[o].variant) = {})
  BY <1>1, QuietHeld DEF StageInv, PaidIsReserved
<1>5. Undisturbed => (Held(o) => order[o].status = "PAID")
  BY <1>1 DEF StageInv, HeldIsPaid
<1>6. Resolved(o, order[o].variant) \subseteq Listings
  BY DEF Resolved, Lines
<1>7. CASE MarkShipped(s)
  <2>1. /\ RowChanged(o, [order[o] EXCEPT !.status = "SHIPPED", !.shipped = TRUE])
        /\ RowsAdded(o, "SHIP", Resolved(o, order[o].variant))
        /\ "ship" \in world.ops /\ ShipGuard(order[o]) /\ mapping' = mapping
    BY <1>7, MarkShippedEffect
  <2>2. ~order[o].reverted
    BY SMTT(30), <1>1, <2>1 DEF OneWayOut, WayOutInv, ReleasedIsCancelled, ShipGuard
  <2>3. /\ \A q \in OrderIds : q # o => order'[q] = order[q] /\ rows'[q] = rows[q]
        /\ order'[o].shipped /\ order'[o].status = "SHIPPED"
        /\ order'[o].saved = order[o].saved /\ order'[o].variant = order[o].variant
        /\ order'[o].applied = order[o].applied
        /\ \A l \in Listings :
             /\ rows'[o][l].RESERVE = rows[o][l].RESERVE
             /\ rows'[o][l].RELEASE = rows[o][l].RELEASE
             /\ rows'[o][l].SHIP = IF l \in Resolved(o, order[o].variant)
                                   THEN rows[o][l].SHIP + 1 ELSE rows[o][l].SHIP
    BY ZenonT(60), <1>1, <2>1 DEF RowChanged, RowsAdded, OrderRow, LedgerKinds
  <2>4. Held(o) /\ order[o].status = "PAID" /\ task[s].step # 3
    BY <1>1, <1>7, <2>1, <2>2, TaskEffect DEF ShipGuard, Held, MarkShipped
  <2>5. FixedLines \/ Undisturbed => \A l \in Listings :
          /\ rows'[o][l].RESERVE <= 1
          /\ rows'[o][l].SHIP + rows'[o][l].RELEASE <= rows'[o][l].RESERVE
    <3> QED  BY <1>2, <1>3, <1>4, <2>3, <2>4 DEF Held
  <2>6. ~Held(o)'
    BY <2>3 DEF Held
  <2> QED  BY ZenonT(60), <1>1, <2>1, <2>3, <2>4, <2>5, <2>6, TaskOnce
<1>8. CASE Cancel(s)
  <2> DEFINE releases == order[o].applied /\ ~order[o].reverted
             lines == IF releases THEN Resolved(o, order[o].variant) ELSE {}
  <2>1. /\ RowChanged(o, [order[o] EXCEPT !.status = "CANCELLED", !.reverted = @ \/ releases])
        /\ RowsAdded(o, "RELEASE", lines)
        /\ CancelGuard(order[o]) /\ mapping' = mapping
    BY Zenon, <1>8, CancelEffect
  <2>2. lines \subseteq Resolved(o, order[o].variant) /\ (releases <=> Held(o))
    BY <2>1 DEF Held, CancelGuard
  <2>3. ~releases => lines = {}
    OBVIOUS
  <2> HIDE DEF lines, releases
  <2>4. /\ \A q \in OrderIds : q # o => order'[q] = order[q] /\ rows'[q] = rows[q]
        /\ order'[o].shipped = order[o].shipped /\ order'[o].status = "CANCELLED"
        /\ order'[o].reverted = (order[o].reverted \/ releases)
        /\ order'[o].saved = order[o].saved /\ order'[o].variant = order[o].variant
        /\ order'[o].applied = order[o].applied
        /\ \A l \in Listings :
             /\ rows'[o][l].RESERVE = rows[o][l].RESERVE
             /\ rows'[o][l].SHIP = rows[o][l].SHIP
             /\ rows'[o][l].RELEASE = IF l \in lines THEN rows[o][l].RELEASE + 1
                                      ELSE rows[o][l].RELEASE
    BY ZenonT(60), <1>1, <2>1 DEF RowChanged, RowsAdded, OrderRow, LedgerKinds
  <2>5. task[s].step # 3
    BY <1>1, <1>8, TaskEffect DEF Cancel
  <2>6. FixedLines \/ Undisturbed => \A l \in Listings :
          /\ rows'[o][l].RESERVE <= 1
          /\ rows'[o][l].SHIP + rows'[o][l].RELEASE <= rows'[o][l].RESERVE
    <3>1. CASE Held(o)
      <4>1. \A l \in Listings : rows[o][l].SHIP = 0 /\ rows[o][l].RELEASE = 0
        BY <1>2, <3>1 DEF Held
      <4>2. FixedLines \/ Undisturbed => \A l \in lines : rows[o][l].RESERVE = 1
        BY <1>4, <2>2, <2>5, <3>1
      <4>3. \A l \in Listings : rows[o][l].RESERVE \in Nat
        BY <1>2
      <4> QED  BY <1>3, <2>4, <4>1, <4>2, <4>3
    <3>2. CASE ~Held(o)
      BY <1>3, <2>2, <2>3, <2>4, <3>2
    <3> QED  BY SMTT(30), <3>1, <3>2
  <2>7. ~Held(o)'
    <3>1. order[o].applied => order[o].reverted \/ releases
      BY DEF releases
    <3> QED  BY <2>4, <3>1 DEF Held
  <2>8. order'[o].applied \/ order'[o].status \notin {"PENDING", "CANCELLED"} =>
          order[o].applied \/ order[o].status \notin {"PENDING", "CANCELLED"}
    BY <2>4
  <2>9. order'[o].status # "PAID"
        /\ \A q \in OrderIds : q # o => order'[q] = order[q] /\ rows'[q] = rows[q]
    BY <2>4
  <2> QED  BY SMTT(30), <1>1, <2>6, <2>7, <2>8, <2>9, TaskOnce
<1>9. CASE ResolveFill(s)
  <2> DEFINE t == task[s]
  <2>1. /\ RowChanged(o, FilledRow(t)) /\ UNCHANGED <<mapping, rows>> /\ t.read = order[o]
        /\ t.step = 2 /\ t.op = "resolve"
        /\ task' = [task EXCEPT ![s] =
                       IF t.read.status = "PAID" /\ NewlyResolved(t) # {}
                       THEN [t EXCEPT !.step = 3] ELSE NoTask]
    BY <1>9, ResolveFillEffect
  <2>2. ~FixedLines
    BY <1>1, <2>1, TaskEffect DEF LetIn, FixedLines
  <2>3. /\ \A q \in OrderIds : q # o => order'[q] = order[q] /\ rows'[q] = rows[q]
        /\ order'[o] = FilledRow(t)
        /\ order'[o].saved = order[o].saved /\ order'[o].applied = order[o].applied
        /\ order'[o].shipped = order[o].shipped /\ order'[o].reverted = order[o].reverted
        /\ order'[o].status = order[o].status
    BY <1>1, <2>1, FilledRowFields DEF RowChanged
  <2>4. Held(o)' <=> Held(o)
    BY <2>3 DEF Held
  <2>5. \A l \in Resolved(o, order'[o].variant) :
          l \in Resolved(o, order[o].variant) \/ l \in NewlyResolved(t)
    <3>1. \A l \in Listings : l \notin NewlyResolved(t) => order'[o].variant[l] = order[o].variant[l]
      BY <1>1, <2>1, <2>3, FilledRowFields
    <3> QED  BY <3>1 DEF Resolved, Lines
  <2>6. order[o].status = "PAID" /\ NewlyResolved(t) # {} =>
          /\ task'[s].step = 3 /\ task'[s].order = o
          /\ NewlyResolved(task'[s]) = NewlyResolved(t)
    <3> SUFFICES ASSUME order[o].status = "PAID", NewlyResolved(t) # {}
                 PROVE  /\ task'[s].step = 3 /\ task'[s].order = o
                        /\ NewlyResolved(task'[s]) = NewlyResolved(t)
      OBVIOUS
    <3>1. task'[s] = [t EXCEPT !.step = 3]
      BY <1>0, <2>1 DEF Shape
    <3>2. /\ task'[s].step = 3 /\ task'[s].order = o
          /\ task'[s].read = t.read /\ task'[s].line = t.line
      BY <1>1, <3>1 DEF Task
    <3> QED  BY <3>2 DEF NewlyResolved
  <2>7. o = t.order /\ task[s].step # 3
    BY <2>1
  <2> HIDE DEF t
  <2>8. Undisturbed /\ order'[o].status = "PAID" /\ ~order'[o].applied =>
           \/ Resolved(o, order'[o].variant) = {}
           \/ /\ task'[s].step = 3 /\ task'[s].order = o
              /\ Resolved(o, order'[o].variant) \subseteq NewlyResolved(task'[s])
    BY <1>4, <2>3, <2>5, <2>6, <2>7
  <2>9. Undisturbed /\ Held(o)' => \A l \in Resolved(o, order'[o].variant) :
          \/ rows'[o][l].RESERVE = 1
          \/ task'[s].step = 3 /\ task'[s].order = o /\ l \in NewlyResolved(task'[s])
    BY <1>4, <1>5, <2>1, <2>4, <2>5, <2>6, <2>7
  <2>10. \A l \in Listings : rows'[o][l] = rows[o][l]
    BY <2>1
  <2>11. FixedLines \/ Undisturbed =>
           /\ Held(o)' => \A l \in Resolved(o, order'[o].variant) :
                \/ rows'[o][l].RESERVE = 1
                \/ task'[s].step = 3 /\ task'[s].order = o /\ l \in NewlyResolved(task'[s])
           /\ \A l \in Listings : rows'[o][l].RESERVE <= 1
                                  /\ rows'[o][l].SHIP + rows'[o][l].RELEASE <= rows'[o][l].RESERVE
    BY <1>3, <2>2, <2>9, <2>10
  <2>12. Undisturbed /\ Held(o)' => order'[o].status = "PAID"
    BY <1>5, <2>3, <2>4
  <2>13. /\ \A q \in OrderIds : q # o => order'[q] = order[q] /\ rows'[q] = rows[q]
         /\ order'[o].applied \/ order'[o].status \notin {"PENDING", "CANCELLED"} =>
              order[o].applied \/ order[o].status \notin {"PENDING", "CANCELLED"}
    BY <2>3
  <2> QED  BY <1>1, <2>8, <2>11, <2>12, <2>13, TaskOnce
<1>10. CASE ResolveReserve(s)
  <2> DEFINE t == task[s]
  <2>1. /\ RowChanged(o, [order[o] EXCEPT !.applied = TRUE]) /\ mapping' = mapping
        /\ RowsAdded(o, "RESERVE", NewlyResolved(t)) /\ t.op = "resolve"
        /\ t.step = 3 /\ t.read.status = "PAID" /\ order[o] = FilledRow(t)
        /\ \A l \in NewlyResolved(t) : rows[o][l].RESERVE = 0
    BY <1>10, ResolveReserveEffect
  <2>2. ~FixedLines
    BY <1>1, <2>1, TaskEffect DEF LetIn, FixedLines
  <2>3. /\ \A q \in OrderIds : q # o => order'[q] = order[q] /\ rows'[q] = rows[q]
        /\ order'[o].saved = order[o].saved /\ order'[o].applied
        /\ order'[o].shipped = order[o].shipped /\ order'[o].reverted = order[o].reverted
        /\ order'[o].status = order[o].status /\ order'[o].variant = order[o].variant
        /\ \A l \in Listings :
             /\ rows'[o][l].SHIP = rows[o][l].SHIP /\ rows'[o][l].RELEASE = rows[o][l].RELEASE
             /\ rows'[o][l].RESERVE = IF l \in NewlyResolved(t) THEN rows[o][l].RESERVE + 1
                                      ELSE rows[o][l].RESERVE
    BY <1>1, <2>1 DEF RowChanged, RowsAdded, OrderRow, LedgerKinds
  <2>4. order[o].status = "PAID"
    BY <1>1, <2>1, FilledRowFields
  <2>6. Undisturbed => \A l \in Resolved(o, order[o].variant) : Held(o)' =>
          rows[o][l].RESERVE = 1 \/ l \in NewlyResolved(t)
    <3> SUFFICES ASSUME Undisturbed, Held(o)', NEW l \in Resolved(o, order[o].variant)
                 PROVE  rows[o][l].RESERVE = 1 \/ l \in NewlyResolved(t)
      OBVIOUS
    <3>1. CASE order[o].applied
      <4>1. Held(o)
        BY <2>3, <3>1 DEF Held
      <4> QED  BY <1>1, <4>1 DEF StageInv, HeldLinesReserved
    <3>2. CASE ~order[o].applied
      BY SMTT(30), <1>1, <2>4, <3>2 DEF StageInv, PaidIsReserved
    <3> QED  BY <3>1, <3>2
  <2> HIDE DEF t
  <2>7. Undisturbed => \A l \in Listings :
          /\ rows'[o][l].RESERVE <= 1
          /\ rows'[o][l].SHIP + rows'[o][l].RELEASE <= rows'[o][l].RESERVE
    BY <1>2, <1>3, <2>1, <2>3
  <2>8. Undisturbed /\ Held(o)' => \A l \in Resolved(o, order'[o].variant) : rows'[o][l].RESERVE = 1
    BY <1>6, <2>1, <2>3, <2>6
  <2> QED  BY <1>1, <2>1, <2>2, <2>3, <2>4, <2>7, <2>8, TaskOnce
<1> QED  BY <1>7, <1>8, <1>9, <1>10

LEMMA InitSafety == Init => OrderSafety
<1> SUFFICES ASSUME Init  PROVE OrderSafety
  OBVIOUS
<1>1. OrderInv
  BY InitOrderInv
<1>2. /\ \A p \in Pullers : pull[p] = NoPull /\ pull[p].todo = {} /\ pull[p].due = {}
      /\ mapping = world.mapping
      /\ \A o \in OrderIds : channel[o].status = "PENDING"
  BY NoPullFields DEF Init
<1>3. \A o \in OrderIds : /\ order[o].status = "PENDING" /\ ~order[o].saved /\ ~order[o].applied
                          /\ ~order[o].shipped /\ ~order[o].reverted
  BY DEF Init, NewOrder
<1>4. \A o \in OrderIds, l \in Listings :
        rows[o][l].RESERVE = 0 /\ rows[o][l].SHIP = 0 /\ rows[o][l].RELEASE = 0
  BY DEF Init
<1>5. LinesStayFixed
  BY <1>2, <1>3 DEF LinesStayFixed
<1>6. WayOutInv
  BY <1>2, <1>3, <1>4 DEF WayOutInv, FetchedBefore, ReleasedIsCancelled, CancelledAtChannel,
                          LeftIsStamped, ShippedOrReleased
<1>7. StageInv
  BY <1>2, <1>3, <1>4 DEF StageInv, PaidStaysPaid, HeldIsPaid, PaidIsReserved, HeldLinesReserved,
                          Held, EachStageOnce
<1> QED  BY <1>1, <1>5, <1>6, <1>7 DEF OrderSafety

LEMMA SafetyStep ==
  ASSUME Sequential, OrderSafety, Next \/ UNCHANGED orderVars
  PROVE  OrderSafety'
<1>0. OrderInv /\ LinesStayFixed /\ (OneWayOut => WayOutInv /\ StageInv) /\ Shape
  BY DEF OrderSafety, OrderInv
<1>1. OrderInv'
  <2>1. CASE Next
    BY <1>0, <2>1, NextOrderInv
  <2>2. CASE UNCHANGED orderVars
    BY <1>0, <2>2, OutsideInv DEF orderVars, Shape
  <2> QED  BY <2>1, <2>2
<1>2. LinesStayFixed'
  BY <1>0, LinesFixedStep
<1>3. ASSUME OneWayOut'
      PROVE  WayOutInv' /\ StageInv'
  <2>1. CASE Outside \/ Crash \/ UNCHANGED orderVars
               \/ (\E s \in Staff : LoadStep(s) \/ ResolveMap(s))
    <3>1. Quiet
      BY <1>0, <2>1, QuietSteps
    <3>2. OneWayOut
      BY <1>3, <3>1 DEF OneWayOut, Quiet
    <3> QED  BY <1>0, <2>1, <3>1, <3>2, QuietWayOut, QuietStage
  <2>2. ASSUME NEW p \in Pullers, StartPull(p)
        PROVE  WayOutInv' /\ StageInv'
    <3>1. OneWayOut
      BY <1>0, <1>3, <2>2, StartEffect DEF OneWayOut
    <3> QED  BY <1>0, <2>2, <3>1, StartWayOut, StartStage
  <2>3. ASSUME NEW p \in Pullers, UpsertOrder(p)
        PROVE  WayOutInv' /\ StageInv'
    <3>1. OneWayOut
      BY <1>3, <2>3 DEF OneWayOut, UpsertOrder
    <3> QED  BY <1>0, <2>3, <3>1, UpsertWayOut, UpsertStage
  <2>4. ASSUME NEW p \in Pullers, StageStep(p)
        PROVE  WayOutInv' /\ StageInv'
    <3>1. OneWayOut
      BY <1>0, <1>3, <2>4, StageEffect DEF OneWayOut
    <3> QED  BY <1>0, <2>4, <3>1, StageWayOut, StageOnce
  <2>5. ASSUME NEW s \in Staff,
               MarkShipped(s) \/ Cancel(s) \/ ResolveFill(s) \/ ResolveReserve(s)
        PROVE  WayOutInv' /\ StageInv'
    <3>1. TaskStep(s)
      BY <2>5 DEF TaskStep
    <3>2. OneWayOut /\ task[s].order \in OrderIds
      BY <1>0, <1>3, <3>1, TaskEffect DEF OneWayOut, LetIn
    <3> QED  BY <1>0, <2>5, <3>2, StaffWayOut, StaffOnce
  <2> QED  BY <2>1, <2>2, <2>3, <2>4, <2>5, NextCases
<1> QED  BY <1>1, <1>2, <1>3 DEF OrderSafety

\* The returns touch no order, ledger row, pull or staff request.
LEMMA ReturnsFrame ==
  ASSUME [ReturnsNext]_returnVars
  PROVE  Next \/ UNCHANGED orderVars
<1>1. CASE UNCHANGED returnVars
  BY <1>1 DEF returnVars, vars, orderVars
<1>2. CASE \E o \in OrderIds : CreateReturn(o)
  BY <1>2 DEF CreateReturn, orderVars
<1>3. CASE \E h \in Handlers : ProcessReturn(h) \/ RejectReturn(h)
  BY <1>3 DEF ProcessReturn, RejectReturn, orderVars
<1>4. CASE \/ \E h \in Handlers : CrashHandling(h)
           \/ \E o \in OrderIds, h \in Handlers, op \in {"process", "reject"} : OpenHandling(h, o, op)
  BY <1>4 DEF CrashHandling, OpenHandling, vars, orderVars
<1> QED  BY <1>1, <1>2, <1>3, <1>4 DEF ReturnsNext

\* One operation at a time, where the staff ship orders or cancel them but not
\* both, and either no line gets its variant late or no operation dies and no
\* whole order is cancelled: every line is reserved once at most, and leaves its
\* reservation once at most.
THEOREM LinesGoThroughOnce ==
  ASSUME Sequential
  PROVE  ReturnsSpec => [](OneWayOut /\ (FixedLines \/ Undisturbed) => EachStageOnce)
<1>1. ReturnsInit => OrderSafety
  BY InitSafety DEF ReturnsInit
<1>2. OrderSafety /\ [ReturnsNext]_returnVars => OrderSafety'
  BY SafetyStep, ReturnsFrame
<1>3. OrderSafety => (OneWayOut /\ (FixedLines \/ Undisturbed) => EachStageOnce)
  BY DEF OrderSafety, StageInv
<1> QED  BY <1>1, <1>2, <1>3, PTL DEF ReturnsSpec

\* Who ships or releases an order finds it reserved, not shipped and not
\* released, unless it is markOrderShipped.
LEMMA LeavesWhatIsHeld ==
  ASSUME Sequential, OrderInv, Next \/ UNCHANGED orderVars, NEW o \in OrderIds,
         \/ order'[o].shipped /\ ~order[o].shipped
         \/ order'[o].reverted /\ ~order[o].reverted
  PROVE  Held(o) \/ \E s \in Staff : task[s].order = o /\ MarkShipped(s)
<1> DEFINE Stamps(q) == /\ order'[q].shipped = order[q].shipped
                        /\ order'[q].reverted = order[q].reverted
<1>0. Shape
  BY DEF OrderInv
<1>1. ASSUME \A q \in OrderIds : Stamps(q)
      PROVE  FALSE
  BY <1>1
<1>2. CASE Outside \/ Crash \/ UNCHANGED orderVars
             \/ (\E s \in Staff : LoadStep(s) \/ ResolveMap(s))
  <2>1. order' = order
    BY <1>2, QuietSteps DEF Quiet
  <2> QED  BY <1>1, <2>1
<1>3. ASSUME NEW p \in Pullers, StartPull(p)
      PROVE  FALSE
  BY <1>1, <1>3 DEF StartPull
<1>4. ASSUME NEW p \in Pullers, UpsertOrder(p)
      PROVE  FALSE
  <2>1. PICK q \in OrderIds : order' = [order EXCEPT ![q] = UpsertedRow(p, q)]
    BY <1>0, <1>4, UpsertEffect DEF OrderInv
  <2> QED  BY <1>0, <1>1, <2>1, UpsertedRowFields DEF Shape
<1>5. ASSUME NEW p \in Pullers, StageStep(p)
      PROVE  Held(o)
  <2>1. PICK stage \in Stages :
          /\ stage \in pull[p].due /\ Staged(p, stage)
          /\ stage \in {"ship", "release"} => ~Reserving(p)
    BY <1>5, StageStaged
  <2>2. stage \in {"ship", "release"} /\ o = pull[p].current
    BY <2>1 DEF Staged
  <2>3. "reserve" \notin pull[p].due
    BY <2>1, <2>2 DEF Reserving
  <2> QED  BY <2>1, <2>2, <2>3 DEF OrderInv, DueFitsOrder, OpenOrder, Held
<1>6. ASSUME NEW s \in Staff, MarkShipped(s)
      PROVE  task[s].order = o
  <2>1. \A q \in OrderIds : q # task[s].order => order'[q] = order[q]
    BY <1>6, MarkShippedEffect DEF RowChanged
  <2> QED  BY <2>1
<1>7. ASSUME NEW s \in Staff, Cancel(s)
      PROVE  Held(o)
  <2>1. TaskStep(s)
    BY SMTT(30), <1>7 DEF TaskStep
  <2>2. /\ order[task[s].order] \in OrderRow /\ task[s].order \in OrderIds
        /\ \A q \in OrderIds : q # task[s].order => order'[q] = order[q]
        /\ CancelGuard(order[task[s].order])
    BY Zenon, <1>7, <2>1, TaskEffect, CancelEffect DEF RowChanged, LetIn
  <2>3. o = task[s].order
    BY <2>2
  <2> DEFINE releases == order[o].applied /\ ~order[o].reverted
  <2>4. order' = [order EXCEPT ![o] = [order[o] EXCEPT !.status = "CANCELLED",
                                                      !.reverted = @ \/ releases]]
    BY <1>7, <2>3, CancelEffect DEF RowChanged
  <2>5. order[o].applied \in BOOLEAN /\ order[o].shipped \in BOOLEAN /\ order[o].reverted \in BOOLEAN
    BY <2>2, <2>3 DEF OrderRow
  <2>6. order'[o].shipped = order[o].shipped /\ order'[o].reverted = (order[o].reverted \/ releases)
    <3> HIDE DEF releases
    <3> QED  BY <1>0, <2>2, <2>3, <2>4 DEF Shape, OrderRow
  <2> QED  BY <2>2, <2>3, <2>5, <2>6 DEF CancelGuard, Held
<1>8. ASSUME NEW s \in Staff, ResolveFill(s)
      PROVE  FALSE
  <2>1. TaskStep(s)
    BY <1>8 DEF TaskStep
  <2>2. task[s] \in Task /\ task[s].order \in OrderIds
    BY <2>1, TaskEffect DEF LetIn
  <2>3. RowChanged(task[s].order, FilledRow(task[s])) /\ task[s].read = order[task[s].order]
    BY <1>8, ResolveFillEffect
  <2> QED  BY <1>1, <2>2, <2>3, FilledRowFields DEF RowChanged
<1>9. ASSUME NEW s \in Staff, ResolveReserve(s)
      PROVE  FALSE
  BY <1>0, <1>1, <1>9 DEF ResolveReserve, Shape, OrderRow
<1> QED  BY <1>2, <1>3, <1>4, <1>5, <1>6, <1>7, <1>8, <1>9, NextCases

\* One operation at a time, in every scenario: whatever a pull ships or releases
\* and whatever the staff cancel holds its reservation when it leaves it; an
\* order that was released can only be shipped by markOrderShipped.
THEOREM OnlyTheHeldLeave ==
  ASSUME Sequential
  PROVE  ReturnsSpec => OnlyHeldOrdersLeave
<1> DEFINE Leaves == \A o \in OrderIds :
             \/ order'[o].shipped /\ ~order[o].shipped
             \/ order'[o].reverted /\ ~order[o].reverted
             => Held(o) \/ \E s \in Staff : task[s].order = o /\ MarkShipped(s)
<1>1. ReturnsInit => OrderSafety
  BY InitSafety DEF ReturnsInit
<1>2. OrderSafety /\ [ReturnsNext]_returnVars => OrderSafety'
  BY SafetyStep, ReturnsFrame
<1>3. OrderSafety /\ [ReturnsNext]_returnVars => [Leaves]_vars
  BY ReturnsFrame, LeavesWhatIsHeld DEF OrderSafety
<1>4. ReturnsSpec => [][Leaves]_vars
  <2> HIDE DEF Leaves
  <2> QED  BY <1>1, <1>2, <1>3, PTL DEF ReturnsSpec
<1> QED  BY SMTT(30), <1>4 DEF OnlyHeldOrdersLeave

\* Under the condition of LinesGoThroughOnce: with no operation under way, every
\* resolved line of a held order has its reservation.
THEOREM NoReservationMissing ==
  ASSUME Sequential
  PROVE  ReturnsSpec => [](OneWayOut /\ (FixedLines \/ Undisturbed) /\ Idle => EveryHeldLineReserved)
<1>1. ReturnsInit => OrderSafety
  BY InitSafety DEF ReturnsInit
<1>2. OrderSafety /\ [ReturnsNext]_returnVars => OrderSafety'
  BY SafetyStep, ReturnsFrame
<1>3. ASSUME OrderSafety, OneWayOut, FixedLines \/ Undisturbed, Idle
      PROVE  EveryHeldLineReserved
  <2>1. /\ \A p \in Pullers : pull[p].due = {}
        /\ \A s \in Staff : task[s].step # 3
    BY <1>3, NoPullFields, NoTaskFields DEF Idle, PullIdle
  <2>2. StageInv
    BY <1>3 DEF OrderSafety
  <2> QED  BY <1>3, <2>1, <2>2, QuietHeld DEF EveryHeldLineReserved
<1>4. OrderSafety => (OneWayOut /\ (FixedLines \/ Undisturbed) /\ Idle => EveryHeldLineReserved)
  BY <1>3
<1> QED  BY <1>1, <1>2, <1>4, PTL DEF ReturnsSpec

-----------------------------------------------------------------------------
(* Returns of whole orders.                                                *)

LEMMA NoPullFetched == \A o \in OrderIds : NoPull.fetched[o].cancelled = {}
BY DEF NoPull

\* Ledger rows only add up.
LEMMA RowsGrow ==
  ASSUME Sequential, OrderInv, Next \/ UNCHANGED orderVars,
         NEW o \in OrderIds, NEW l \in Listings
  PROVE  rows'[o][l].SHIP >= rows[o][l].SHIP
<1>0. Shape /\ rows[o][l].SHIP \in Nat
  BY NaturalRows DEF OrderInv
<1>1. CASE rows' = rows
  BY <1>0, <1>1
<1>2. ASSUME NEW p \in Pullers, StageStep(p)
      PROVE  rows'[o][l].SHIP >= rows[o][l].SHIP
  <2>1. PICK stage \in Stages : Staged(p, stage)
    BY <1>2, StageStaged
  <2> QED  BY <1>0, <2>1 DEF Staged, LedgerKinds
<1>3. ASSUME NEW s \in Staff, MarkShipped(s) \/ Cancel(s) \/ ResolveReserve(s)
      PROVE  rows'[o][l].SHIP >= rows[o][l].SHIP
  <2>1. \E kind \in LedgerKinds : \E lines : RowsAdded(task[s].order, kind, lines)
    BY Zenon, <1>3, MarkShippedEffect, CancelEffect, ResolveReserveEffect DEF LedgerKinds
  <2>2. PICK kind \in LedgerKinds : \E lines : RowsAdded(task[s].order, kind, lines)
    BY <2>1
  <2>3. PICK lines : RowsAdded(task[s].order, kind, lines)
    BY <2>2
  <2> QED  BY <1>0, <2>3 DEF RowsAdded, LedgerKinds
<1>4. ASSUME Outside \/ Crash \/ UNCHANGED orderVars
               \/ (\E s \in Staff : LoadStep(s) \/ ResolveMap(s))
      PROVE  rows' = rows
  BY SMTT(30), <1>4, QuietSteps DEF Quiet
<1>5. \A p \in Pullers : StartPull(p) \/ UpsertOrder(p) => rows' = rows
  BY Zenon DEF StartPull, UpsertOrder
<1>6. \A s \in Staff : ResolveFill(s) => rows' = rows
  BY DEF ResolveFill
<1> QED  BY <1>1, <1>2, <1>3, <1>4, <1>5, <1>6, NextCases

\* An order ships with all its lines, and none of them is added later.
LEMMA WholeOrdersStep ==
  ASSUME Sequential, OrderInv, LinesStayFixed, WholeReturns, WholeOrdersShip,
         Next \/ UNCHANGED orderVars
  PROVE  WholeOrdersShip'
<1>0. Shape /\ Alone /\ FixedLines /\ OrderInv' /\ LinesStayFixed'
  <2>1. OrderInv'
    <3>1. CASE Next
      BY <3>1, NextOrderInv
    <3>2. CASE UNCHANGED orderVars
      BY <3>2, OutsideInv DEF orderVars, OrderInv, Shape
    <3> QED  BY <3>1, <3>2
  <2> QED  BY <2>1, LinesFixedStep DEF OrderInv, WholeReturns
<1> DEFINE Done(o) == order'[o].shipped =>
             \A l \in Resolved(o, order'[o].variant) : rows'[o][l].SHIP > 0
           Pages == /\ \A o \in OrderIds : channel'[o].cancelled = {}
                    /\ \A p \in Pullers, o \in OrderIds : pull'[p].fetched[o].cancelled = {}
<1>1. ASSUME NEW o \in OrderIds, order[o].shipped, order'[o].variant = order[o].variant
      PROVE  Done(o)
  <2>1. \A l \in Resolved(o, order[o].variant) : rows[o][l].SHIP > 0 /\ l \in Listings
    BY <1>1 DEF WholeOrdersShip, Resolved, Lines
  <2>2. \A l \in Listings : rows[o][l].SHIP \in Nat /\ rows'[o][l].SHIP >= rows[o][l].SHIP
                            /\ rows'[o][l].SHIP \in Nat
    BY <1>0, NaturalRows, RowsGrow, OrdersAssumption DEF OrderInv, Shape, LedgerCount
  <2> QED  BY <1>1, <2>1, <2>2
<1>2. CASE Outside \/ Crash \/ UNCHANGED orderVars
             \/ (\E s \in Staff : LoadStep(s) \/ ResolveMap(s))
  <2>1. UNCHANGED <<order, rows, world>> /\ PagesKept /\ ChannelMovesOn
    BY <1>2, QuietSteps DEF Quiet
  <2>2. Pages
    BY <2>1, NoPullFetched DEF WholeOrdersShip, WholeReturns, PagesKept, ChannelMovesOn
  <2> QED  BY <2>1, <2>2 DEF WholeOrdersShip, Resolved, Lines
<1>3. ASSUME NEW p \in Pullers, StartPull(p)
      PROVE  WholeOrdersShip'
  <2>1. /\ UNCHANGED <<channel, order, rows>> /\ pull'[p].fetched = channel
        /\ \A q \in Pullers : q # p => pull'[q] = NoPull
    BY <1>0, <1>3, StartEffect
  <2>2. Pages
    BY <2>1, NoPullFetched DEF WholeOrdersShip
  <2> QED  BY <2>1, <2>2 DEF WholeOrdersShip, Resolved, Lines
<1>4. ASSUME NEW p \in Pullers, channel' = channel, PullGoesOn(p), \A o \in OrderIds : Done(o)
      PROVE  WholeOrdersShip'
  <2>1. \A q \in Pullers : q # p => pull'[q] = NoPull
    BY <1>0, <1>4, PullAlone DEF PullGoesOn
  <2>2. pull'[p] = NoPull \/ pull'[p].fetched = pull[p].fetched
    BY <1>4 DEF PullGoesOn
  <2>3. Pages
    BY <1>4, <2>1, <2>2, NoPullFetched DEF WholeOrdersShip
  <2> QED  BY <1>4, <2>3 DEF WholeOrdersShip, Resolved, Lines
<1>5. ASSUME NEW p \in Pullers, UpsertOrder(p)
      PROVE  WholeOrdersShip'
  <2>1. PICK o \in OrderIds : order' = [order EXCEPT ![o] = UpsertedRow(p, o)]
    BY <1>0, <1>5, UpsertEffect
  <2>2. UNCHANGED <<channel, rows, world>> /\ PullGoesOn(p)
    BY <1>0, <1>5, UpsertEffect
  <2>3. \A q \in OrderIds : order'[q].shipped = order[q].shipped
    BY <1>0, <2>1, UpsertedRowFields DEF Shape
  <2>4. \A q \in OrderIds : order[q].shipped => order'[q].variant = order[q].variant
    <3>1. \A q \in OrderIds : order[q].shipped => order[q].saved
      BY DEF OrderInv, StampsInOrder
    <3>2. order[o].shipped => order[o].variant = FixedVariant(o)
      BY <1>0, <3>1 DEF LinesStayFixed
    <3>3. UpsertedRow(p, o).variant = FixedVariant(o)
      BY <1>0, <2>2, UpsertFixed DEF PullGoesOn
    <3> QED  BY <1>0, <2>1, <3>2, <3>3 DEF Shape
  <2>5. \A q \in OrderIds : Done(q)
    BY <1>1, <2>3, <2>4
  <2> QED  BY <1>4, <2>2, <2>5
<1>6. ASSUME NEW p \in Pullers, StageStep(p)
      PROVE  WholeOrdersShip'
  <2>1. PICK stage \in Stages : stage \in pull[p].due /\ Staged(p, stage)
    BY <1>6, StageStaged
  <2>2. UNCHANGED <<channel, world>> /\ PullGoesOn(p) /\ pull[p].current \in OrderIds
    BY <1>6, StageEffect
  <2>3. PICK o \in OrderIds : o = pull[p].current
    BY SMTT(30), <2>2
  <2>4. /\ pull[p].items = order[o].variant /\ pull[p].fetched[o].cancelled = {}
        /\ \A q \in OrderIds : order'[q].variant = order[q].variant
        /\ \A q \in OrderIds : order'[q].shipped => order[q].shipped \/ (q = o /\ stage = "ship")
        /\ \A l \in Listings : l \in MovedBy(p, stage, "SHIP") => rows'[o][l].SHIP = rows[o][l].SHIP + 1
    BY Zenon, <2>1, <2>3 DEF Staged, OrderInv, DueFitsOrder, WholeOrdersShip, LedgerKinds
  <2>5. stage = "ship" => MovedBy(p, stage, "SHIP") = Resolved(o, order[o].variant)
    BY <2>3, <2>4 DEF MovedBy
  <2>6. ASSUME stage = "ship"
        PROVE  Done(o)
    <3>1. \A l \in Resolved(o, order[o].variant) : l \in Listings /\ rows[o][l].SHIP \in Nat
      BY <1>0, NaturalRows DEF Resolved, Lines
    <3> QED  BY <2>4, <2>5, <2>6, <3>1
  <2>7. \A q \in OrderIds : Done(q)
    BY <1>1, <2>4, <2>6
  <2> QED  BY <1>4, <2>2, <2>7
<1>7. ASSUME UNCHANGED <<channel, pull>>, \A o \in OrderIds : Done(o)
      PROVE  WholeOrdersShip'
  BY <1>7 DEF WholeOrdersShip, Resolved, Lines
<1>8. ASSUME NEW s \in Staff, MarkShipped(s) \/ Cancel(s)
      PROVE  WholeOrdersShip'
  <2>1. /\ order[task[s].order] \in OrderRow /\ UNCHANGED <<channel, pull>>
        /\ task[s].order \in OrderIds
    BY <1>8, TaskEffect DEF TaskStep, LetIn
  <2>2. PICK o \in OrderIds : o = task[s].order
    BY <2>1
  <2>3. \A q \in OrderIds : order'[q].variant = order[q].variant
    <3>1. CASE MarkShipped(s)
      BY ZenonT(60), <2>1, <3>1, MarkShippedEffect DEF RowChanged, OrderRow
    <3>2. CASE Cancel(s)
      BY ZenonT(60), <2>1, <3>2, CancelEffect DEF RowChanged, OrderRow
    <3> QED  BY <1>8, <3>1, <3>2
  <2>4. CASE MarkShipped(s)
    <3>1. /\ \A q \in OrderIds : q # o => order'[q] = order[q]
          /\ RowsAdded(o, "SHIP", Resolved(o, order[o].variant))
      BY <2>2, <2>4, MarkShippedEffect DEF RowChanged
    <3>2. \A l \in Resolved(o, order[o].variant) : l \in Listings /\ rows[o][l].SHIP \in Nat
      BY <1>0, NaturalRows DEF Resolved, Lines
    <3>3. Done(o)
      BY <2>3, <3>1, <3>2 DEF RowsAdded, LedgerKinds
    <3>4. ASSUME NEW q \in OrderIds, q # o
          PROVE  Done(q)
      <4>1. order'[q] = order[q]
        BY <3>1, <3>4
      <4> QED  BY <1>1, <4>1
    <3>5. \A q \in OrderIds : Done(q)
      BY <3>3, <3>4
    <3> QED  BY <1>7, <2>1, <3>5
  <2>5. CASE Cancel(s)
    <3> DEFINE releases == order[o].applied /\ ~order[o].reverted
    <3>0. RowChanged(o, [order[o] EXCEPT !.status = "CANCELLED", !.reverted = @ \/ releases])
      BY Zenon, <2>2, <2>5, CancelEffect
    <3> HIDE DEF releases
    <3>1. \A q \in OrderIds : order'[q].shipped = order[q].shipped
      BY <2>1, <2>2, <3>0 DEF RowChanged, OrderRow
    <3> QED  BY SMTT(30), <1>1, <1>7, <2>1, <2>3, <3>1
  <2> QED  BY <1>8, <2>4, <2>5
<1>9. ASSUME NEW s \in Staff, ResolveFill(s) \/ ResolveReserve(s)
      PROVE  FALSE
  <2>1. TaskStep(s) /\ task[s].op = "resolve"
    BY <1>9 DEF TaskStep, ResolveFill, ResolveReserve
  <2> QED  BY <1>0, <2>1, TaskEffect DEF LetIn, FixedLines
<1> QED  BY <1>2, <1>3, <1>5, <1>6, <1>8, <1>9, NextCases

LEMMA NoReturnType == NoReturn \in ReturnRow /\ \A l \in Listings : NoReturn.variant[l] = Unmapped
BY DEF NoReturn, ReturnRow, NoMapping, Mapping

\* A return is seeded from the lines of an order that has shipped.
LEMMA WithReturnShipped ==
  ASSUME OrderInv, LinesStayFixed, ReturnInv, NEW o \in OrderIds,
         returns' \in {returns, WithReturn(o)}
  PROVE  /\ returns' \in [OrderIds -> ReturnRow]
         /\ WholeReturns => \A q \in OrderIds, l \in Listings :
              returns'[q].variant[l] # Unmapped => rows[q][l].SHIP > 0
<1>1. CASE returns' = returns
  BY <1>1 DEF ReturnInv, ReturnedShipped
<1>2. CASE /\ order[o].shipped
           /\ returns' = [returns EXCEPT ![o] = [status |-> "PENDING", variant |-> order[o].variant]]
  <2> DEFINE row == [status |-> "PENDING", variant |-> order[o].variant]
  <2>1. row \in ReturnRow /\ row.variant = order[o].variant
    BY DEF OrderInv, Shape, OrderRow, ReturnRow
  <2> HIDE DEF row
  <2>2. /\ returns' \in [OrderIds -> ReturnRow] /\ returns'[o].variant = order[o].variant
        /\ \A q \in OrderIds : q # o => returns'[q] = returns[q]
    BY <1>2, <2>1 DEF ReturnInv, row
  <2>3. ASSUME WholeReturns, NEW l \in Listings, order[o].variant[l] # Unmapped
        PROVE  rows[o][l].SHIP > 0
    <3>1. order[o].saved
      BY <1>2 DEF OrderInv, StampsInOrder
    <3>2. order[o].variant = FixedVariant(o)
      BY <2>3, <3>1 DEF LinesStayFixed, WholeReturns
    <3>3. l \in Resolved(o, order[o].variant)
      BY <2>3, <3>2 DEF FixedVariant, Resolved, Lines
    <3> QED  BY <1>2, <2>3, <3>3 DEF ReturnInv, WholeOrdersShip
  <2> QED  BY <2>2, <2>3 DEF ReturnInv, ReturnedShipped
<1> QED  BY <1>1, <1>2 DEF WithReturn, Returnable

LEMMA ReturnStep ==
  ASSUME Sequential, OrderInv, LinesStayFixed, ReturnInv, [ReturnsNext]_returnVars
  PROVE  ReturnInv'
<1>1. Next \/ UNCHANGED orderVars
  BY SMTT(30), ReturnsFrame
<1>2. world' = world
  BY ZenonT(60), <1>1, LinesFixedStep DEF Next, LoadStep, LoadForShip, LoadForCancel, LoadForResolve, BeginTask,
         MarkShipped, Cancel, ResolveMap, ResolveFill, ResolveReserve, CrashTask, StartPull,
         UpsertOrder, Reserve, ReserveDelta, Ship, Release, OpenReturn, CrashPull, MapListing,
         ChannelAdvance, ChannelCancelLine, orderVars
<1>3. WholeReturns' <=> WholeReturns
  BY <1>2 DEF WholeReturns, FixedLines
<1>4. WholeReturns => WholeOrdersShip'
  BY <1>1, WholeOrdersStep DEF ReturnInv
<1>5. /\ returns' \in [OrderIds -> ReturnRow]
      /\ WholeReturns => \A q \in OrderIds, l \in Listings :
           returns'[q].variant[l] # Unmapped => rows[q][l].SHIP > 0
  <2>1. CASE returns' = returns
    BY <2>1 DEF ReturnInv, ReturnedShipped
  <2>2. ASSUME NEW o \in OrderIds, returns' \in {returns, WithReturn(o)}
        PROVE  /\ returns' \in [OrderIds -> ReturnRow]
               /\ WholeReturns => \A q \in OrderIds, l \in Listings :
                    returns'[q].variant[l] # Unmapped => rows[q][l].SHIP > 0
    BY <2>2, WithReturnShipped
  <2>3. ASSUME NEW o, NEW status \in {"RECEIVED", "REJECTED"},
               returns' = [returns EXCEPT ![o].status = status]
        PROVE  /\ returns' \in [OrderIds -> ReturnRow]
               /\ WholeReturns => \A q \in OrderIds, l \in Listings :
                    returns'[q].variant[l] # Unmapped => rows[q][l].SHIP > 0
    <3>1. returns \in [OrderIds -> ReturnRow]
      BY DEF ReturnInv
    <3>2. /\ returns' \in [OrderIds -> ReturnRow]
          /\ \A q \in OrderIds : returns'[q].variant = returns[q].variant
      BY <2>3, <3>1 DEF ReturnRow
    <3> QED  BY <3>2 DEF ReturnInv, ReturnedShipped
  <2>4. \A h \in Handlers : ProcessReturn(h) \/ RejectReturn(h) =>
          \E o : \E status \in {"RECEIVED", "REJECTED"} :
            returns' = [returns EXCEPT ![o].status = status]
    BY DEF ProcessReturn, RejectReturn
  <2>5. \A o \in OrderIds : CreateReturn(o) => returns' \in {returns, WithReturn(o)}
    BY DEF CreateReturn
  <2>6. \A h \in Handlers : /\ CrashHandling(h) => returns' = returns
                            /\ \A o, op : OpenHandling(h, o, op) => returns' = returns
    BY DEF CrashHandling, OpenHandling, vars
  <2>7. ASSUME NEW p \in Pullers, OpenReturn(p)
        PROVE  \E o \in OrderIds : returns' \in {returns, WithReturn(o)}
    <3>1. StageStep(p)
      BY <2>7 DEF StageStep
    <3>2. pull[p].current \in OrderIds
      BY <3>1, StageEffect
    <3> QED  BY <2>7, <3>2 DEF OpenReturn
  <2>8. ASSUME Next, \A p \in Pullers : ~OpenReturn(p)
        PROVE  returns' = returns
    BY ZenonT(60), <2>8 DEF Next, LoadStep, LoadForShip, LoadForCancel, LoadForResolve, BeginTask,
         MarkShipped, Cancel, ResolveMap, ResolveFill, ResolveReserve, CrashTask, StartPull,
         UpsertOrder, Reserve, ReserveDelta, Ship, Release, CrashPull, MapListing,
         ChannelAdvance, ChannelCancelLine
  <2>9. CASE UNCHANGED returnVars
    BY <2>1, <2>9 DEF returnVars, vars
  <2>10. CASE Next
    BY <2>1, <2>2, <2>7, <2>8, <2>10
  <2> QED  BY <2>1, <2>2, <2>3, <2>4, <2>5, <2>6, <2>9, <2>10 DEF ReturnsNext
<1>6. ASSUME WholeReturns
      PROVE  ReturnedShipped'
  <2>1. OrderInv'
    <3>1. CASE Next
      BY <3>1, NextOrderInv
    <3>2. CASE UNCHANGED orderVars
      BY <3>2, OutsideInv DEF orderVars, OrderInv, Shape
    <3> QED  BY <1>1, <3>1, <3>2
  <2>2. \A q \in OrderIds, l \in Listings :
          /\ rows[q][l].SHIP \in Nat /\ rows'[q][l].SHIP \in Nat
          /\ rows'[q][l].SHIP >= rows[q][l].SHIP
    BY <1>1, <2>1, NaturalRows, RowsGrow, OrdersAssumption DEF OrderInv, Shape, LedgerCount
  <2>3. ASSUME NEW q \in OrderIds, NEW l \in Listings, returns'[q].variant[l] # Unmapped
        PROVE  rows'[q][l].SHIP > 0
    <3>1. rows[q][l].SHIP > 0
      BY <1>5, <1>6, <2>3
    <3> QED  BY <2>2, <3>1
  <2> QED  BY <2>3 DEF ReturnedShipped
<1> QED  BY <1>3, <1>4, <1>5, <1>6 DEF ReturnInv

-----------------------------------------------------------------------------
(* The stock of orders.                                                     *)

\* resolveOrderItem looks at the status it loaded, and at no stamp: where the
\* staff also ship or cancel, a pull can make an order PAID again whose lines
\* have left, and the line resolved then is reserved for good.
ResolveAlone == "resolve" \in world.ops => world.ops \cap {"ship", "cancel"} = {}

\* The scenarios in which reservations add up.
Orderly == OneWayOut /\ ResolveAlone /\ (FixedLines \/ Undisturbed)

-----------------------------------------------------------------------------
(* The units of some lines.                                                *)

LEMMA SumUnion ==
  ASSUME NEW S, IsFiniteSet(S), NEW f, Integral(f, S),
         NEW A \in SUBSET S, NEW B \in SUBSET S, A \cap B = {}
  PROVE  SumFunctionOnSet(f, A \cup B) = SumFunctionOnSet(f, A) + SumFunctionOnSet(f, B)
<1> DEFINE T == {U \in SUBSET B :
        SumFunctionOnSet(f, A \cup U) = SumFunctionOnSet(f, A) + SumFunctionOnSet(f, U)}
<1>0. SumFunctionOnSet(f, A) \in Int /\ IsFiniteSet(A) /\ IsFiniteSet(B)
  BY SubsetsAreFinite, SumType DEF Integral
<1>1. {} \in T
  <2>1. A \cup {} = A
    OBVIOUS
  <2> QED  BY <1>0, <2>1, SumEmpty
<1>2. ASSUME NEW U \in SUBSET B, NEW x \in B, U \in T, x \notin U
      PROVE  U \cup {x} \in T
  <2>1. /\ IsFiniteSet(U) /\ IsFiniteSet(A \cup U) /\ Integral(f, U) /\ Integral(f, A \cup U)
        /\ f[x] \in Int /\ x \notin A \cup U
    BY <1>2, SubsetsAreFinite DEF Integral
  <2>2. SumFunctionOnSet(f, U) \in Int
    BY <2>1, SumType
  <2>3. /\ SumFunctionOnSet(f, U \cup {x}) = f[x] + SumFunctionOnSet(f, U)
        /\ SumFunctionOnSet(f, (A \cup U) \cup {x}) = f[x] + SumFunctionOnSet(f, A \cup U)
    BY <1>2, <2>1, SumInsert
  <2>4. SumFunctionOnSet(f, A \cup U) = SumFunctionOnSet(f, A) + SumFunctionOnSet(f, U)
    BY <1>2
  <2>5. (A \cup U) \cup {x} = A \cup (U \cup {x})
    OBVIOUS
  <2>6. SumFunctionOnSet(f, A \cup (U \cup {x}))
          = SumFunctionOnSet(f, A) + SumFunctionOnSet(f, U \cup {x})
    <3>1. SumFunctionOnSet(f, A \cup (U \cup {x})) = f[x] + SumFunctionOnSet(f, A \cup U)
      BY <2>3, <2>5
    <3> QED  BY <1>0, <2>1, <2>2, <2>3, <2>4, <3>1
  <2> QED  BY <1>2, <2>6
<1> HIDE DEF T
<1>3. \A U \in SUBSET B : U \in T
  BY <1>0, <1>1, <1>2, SetInduction
<1>4. B \in T
  BY <1>3
<1> QED  BY <1>4 DEF T

LEMMA UnitsType ==
  ASSUME NEW o \in OrderIds, NEW lines \in SUBSET Listings, NEW variant, NEW v
  PROVE  UnitsOf(o, lines, variant, v) \in Nat
<1> DEFINE S == {l \in lines : variant[l] = v}
<1>1. IsFiniteSet(S) /\ \A l \in S : LineQty[o][l] \in Nat
  BY FinitelyMany, OrdersAssumption, SubsetsAreFinite
<1> HIDE DEF S
<1>2. SumFunctionOnSet(LineQty[o], S) \in Nat
  BY <1>1, SumNat
<1> QED  BY <1>2 DEF UnitsOf, S

\* Lines apart add up.
LEMMA UnitsJoin ==
  ASSUME NEW o \in OrderIds, NEW A \in SUBSET Listings, NEW B \in SUBSET Listings,
         A \cap B = {}, NEW variant, NEW v
  PROVE  UnitsOf(o, A \cup B, variant, v) = UnitsOf(o, A, variant, v) + UnitsOf(o, B, variant, v)
<1> DEFINE X == {l \in A : variant[l] = v}  Y == {l \in B : variant[l] = v}
<1>1. Integral(LineQty[o], Listings)
  BY OrdersAssumption DEF Integral
<1>2. X \in SUBSET Listings /\ Y \in SUBSET Listings /\ X \cap Y = {}
  OBVIOUS
<1>3. {l \in A \cup B : variant[l] = v} = X \cup Y
  OBVIOUS
<1> HIDE DEF X, Y
<1>4. SumFunctionOnSet(LineQty[o], X \cup Y)
        = SumFunctionOnSet(LineQty[o], X) + SumFunctionOnSet(LineQty[o], Y)
  BY <1>1, <1>2, FinitelyMany, SumUnion
<1> QED  BY <1>3, <1>4 DEF UnitsOf, X, Y

\* Only the lines' own variants count.
LEMMA UnitsSame ==
  ASSUME NEW o, NEW lines, NEW variant, NEW other, NEW v,
         \A l \in lines : variant[l] = other[l]
  PROVE  UnitsOf(o, lines, variant, v) = UnitsOf(o, lines, other, v)
<1>1. {l \in lines : variant[l] = v} = {l \in lines : other[l] = v}
  OBVIOUS
<1> QED  BY <1>1 DEF UnitsOf

\* No line, no units.
LEMMA UnitsNone ==
  ASSUME NEW o, NEW variant, NEW v
  PROVE  UnitsOf(o, {}, variant, v) = 0
<1>1. {l \in {} : variant[l] = v} = {}
  OBVIOUS
<1> QED  BY <1>1, SumEmpty DEF UnitsOf

-----------------------------------------------------------------------------
(* What a movement of several lines does to one variant.                   *)

OnHand(row) == row.available + row.reserved + row.damaged

Stocked(st) == st \in [Variants -> Row]

LEMMA RowFields ==
  ASSUME NEW row \in Row
  PROVE  /\ row.available \in Int /\ row.reserved \in Nat /\ row.damaged \in Nat
         /\ OnHand(row) \in Int
BY DEF Row, OnHand

\* The kinds of movements orders and their returns make.
LineKinds == OrderKinds \cup ReturnKinds

LEMMA MovedStocked ==
  ASSUME NEW st, Stocked(st), NEW kind \in LineKinds, NEW o \in OrderIds,
         NEW lines \in SUBSET Listings, NEW variant
  PROVE  Stocked(MovedLines(st, kind, o, lines, variant))
<1>1. ASSUME NEW v \in Variants
      PROVE  Written([kind |-> kind, variant |-> v, qty |-> UnitsOf(o, lines, variant, v)],
                     st[v], st[v]) \in Row
  <2> DEFINE m == [kind |-> kind, variant |-> v, qty |-> UnitsOf(o, lines, variant, v)]
  <2>1. UnitsOf(o, lines, variant, v) \in Nat /\ st[v] \in Row
    BY UnitsType DEF Stocked
  <2>2. m.kind = kind /\ m.qty = UnitsOf(o, lines, variant, v)
    OBVIOUS
  <2>3. ValidMove(m)
    <3>1. kind \in Kinds
      BY DEF LineKinds, Kinds
    <3> QED  BY <2>1, <2>2, <3>1 DEF ValidMove
  <2> HIDE DEF m
  <2>4. Written(m, st[v], st[v]) \in Row
    BY <2>1, <2>3, WrittenIsRow
  <2> QED  BY <2>4 DEF m
<1> QED  BY <1>1 DEF MovedLines, Stocked

\* RESERVE moves units from available to reserved; SHIP takes reserved ones
\* out of the warehouse and RELEASE back to available, as long as as many are
\* reserved; returns come back to available or damaged stock.
LEMMA MovedRow ==
  ASSUME NEW st, Stocked(st), NEW kind \in LineKinds, NEW o \in OrderIds,
         NEW lines \in SUBSET Listings, NEW variant, NEW v \in Variants
  PROVE  LET q == UnitsOf(o, lines, variant, v)
             after == MovedLines(st, kind, o, lines, variant)[v] IN
         /\ kind = "RESERVE" => /\ after.reserved = st[v].reserved + q
                                /\ OnHand(after) = OnHand(st[v])
         /\ kind = "SHIP" /\ q <= st[v].reserved =>
              /\ after.reserved = st[v].reserved - q
              /\ OnHand(after) = OnHand(st[v]) - q
         /\ kind = "RELEASE" /\ q <= st[v].reserved =>
              /\ after.reserved = st[v].reserved - q
              /\ OnHand(after) = OnHand(st[v])
         /\ kind \in ReturnKinds =>
              /\ after.reserved = st[v].reserved
              /\ OnHand(after) = OnHand(st[v]) + q
<1> DEFINE q == UnitsOf(o, lines, variant, v)
           m == [kind |-> kind, variant |-> v, qty |-> q]
           after == Written(m, st[v], st[v])
<1>1. /\ q \in Nat /\ st[v].available \in Int /\ st[v].reserved \in Nat /\ st[v].damaged \in Nat
      /\ m.kind = kind /\ m.qty = q
  BY UnitsType, RowFields DEF Stocked
<1>2. MovedLines(st, kind, o, lines, variant)[v] = after
  BY DEF MovedLines
<1> HIDE DEF q, m
<1>3. /\ after.available = IF kind = "SHIP" \/ kind = "RETURN_DAMAGED" THEN st[v].available
                           ELSE IF kind = "RESERVE" THEN st[v].available - q
                           ELSE st[v].available + q
      /\ after.damaged = st[v].damaged + (IF kind = "RETURN_DAMAGED" THEN q ELSE 0)
      /\ after.reserved = IF kind = "RESERVE" THEN st[v].reserved + q
                          ELSE IF kind \in ReturnKinds THEN st[v].reserved
                          ELSE IF st[v].reserved < q THEN 0 ELSE st[v].reserved - q
  <2>1. kind \in {"RESERVE", "SHIP", "RELEASE", "RETURN_RESTOCK", "RETURN_DAMAGED"}
    BY DEF LineKinds, OrderKinds, ReturnKinds
  <2>2. after.available = IF kind = "SHIP" \/ kind = "RETURN_DAMAGED" THEN st[v].available
                           ELSE IF kind = "RESERVE" THEN st[v].available - q
                           ELSE st[v].available + q
    BY <1>1, <2>1 DEF Written, WritesAvailable, BalanceAfter, AvailableDelta
  <2>3. after.damaged = st[v].damaged + (IF kind = "RETURN_DAMAGED" THEN q ELSE 0)
    BY <1>1, <2>1 DEF Written, DamagedIn
  <2>4. after.reserved = IF kind = "RESERVE" THEN st[v].reserved + q
                          ELSE IF kind \in ReturnKinds THEN st[v].reserved
                          ELSE IF st[v].reserved < q THEN 0 ELSE st[v].reserved - q
    BY <1>1, <2>1 DEF Written, ReservedAfter, ClampedMinus, AtLeastZero, ReturnKinds
  <2> QED  BY <2>2, <2>3, <2>4
<1> HIDE DEF after
<1>4. /\ kind = "RESERVE" => /\ after.reserved = st[v].reserved + q
                             /\ OnHand(after) = OnHand(st[v])
      /\ kind = "SHIP" /\ q <= st[v].reserved =>
           /\ after.reserved = st[v].reserved - q
           /\ OnHand(after) = OnHand(st[v]) - q
      /\ kind = "RELEASE" /\ q <= st[v].reserved =>
           /\ after.reserved = st[v].reserved - q
           /\ OnHand(after) = OnHand(st[v])
      /\ kind \in ReturnKinds =>
           /\ after.reserved = st[v].reserved
           /\ OnHand(after) = OnHand(st[v]) + q
  BY <1>1, <1>3 DEF OnHand, ReturnKinds
<1> QED  BY <1>2, <1>4 DEF q

-----------------------------------------------------------------------------
(* The reservations that lines hold.                                       *)

\* The lines of an order that have been reserved and have not left.
Outstanding(o) ==
  {l \in Lines(o) : rows[o][l].RESERVE > rows[o][l].SHIP + rows[o][l].RELEASE}

Owed(o, v) == UnitsOf(o, Outstanding(o), order[o].variant, v)

\* The reserved bucket at every moment, operations under way included.
ReservedIsOwed ==
  \A v \in Variants : stock[v].reserved = SumFunction([o \in OrderIds |-> Owed(o, v)])

\* An order that has shipped or was released holds nothing.
GoneHoldNothing ==
  \A o \in OrderIds : order[o].shipped \/ order[o].reverted => Outstanding(o) = {}

LEMMA OutstandingLines == \A o \in OrderIds : Outstanding(o) \subseteq Listings
BY DEF Outstanding, Lines

\* A step that reserves the lines R of order o, or ships G and releases B.
LinesMove(o, R, G, B) ==
  /\ R \subseteq Lines(o) /\ G \subseteq Lines(o) /\ B \subseteq Lines(o)
  /\ R = {} \/ G \cup B = {}
  /\ \A q \in OrderIds : q # o => rows'[q] = rows[q] /\ order'[q].variant = order[q].variant
  /\ \A l \in Listings :
       /\ rows'[o][l].RESERVE = IF l \in R THEN rows[o][l].RESERVE + 1 ELSE rows[o][l].RESERVE
       /\ rows'[o][l].SHIP = IF l \in G THEN rows[o][l].SHIP + 1 ELSE rows[o][l].SHIP
       /\ rows'[o][l].RELEASE = IF l \in B THEN rows[o][l].RELEASE + 1 ELSE rows[o][l].RELEASE

\* Some lines of an order are reserved, or some of them ship and others are
\* released: each was waiting for it, since every stage happens once.
LEMMA OutstandingChange ==
  ASSUME Shape, Shape', EachStageOnce, EachStageOnce', NEW o \in OrderIds,
         NEW R, NEW G, NEW B, LinesMove(o, R, G, B)
  PROVE  /\ Outstanding(o)' = (Outstanding(o) \cup R) \ (G \cup B)
         /\ R \cap Outstanding(o) = {} /\ G \cap B = {} /\ G \cup B \subseteq Outstanding(o)
<1> DEFINE Was(l) == l \in Outstanding(o)
           Is(l) == l \in Outstanding(o)'
<1>1. ASSUME NEW l \in Lines(o)
      PROVE  /\ Is(l) <=> (Was(l) \/ l \in R) /\ l \notin G \cup B
             /\ l \in R => ~Was(l)
             /\ ~(l \in G /\ l \in B)
             /\ l \in G \cup B => Was(l)
  <2> DEFINE r == rows[o][l].RESERVE  s == rows[o][l].SHIP  e == rows[o][l].RELEASE
             r2 == rows'[o][l].RESERVE  s2 == rows'[o][l].SHIP  e2 == rows'[o][l].RELEASE
  <2>1. l \in Listings
    BY DEF Lines
  <2>2. r \in Nat /\ s \in Nat /\ e \in Nat
    BY <2>1, NaturalRows
  <2>3. /\ r2 = IF l \in R THEN r + 1 ELSE r
        /\ s2 = IF l \in G THEN s + 1 ELSE s
        /\ e2 = IF l \in B THEN e + 1 ELSE e
    BY <2>1 DEF LinesMove
  <2>4. r <= 1 /\ s + e <= r /\ r2 <= 1 /\ s2 + e2 <= r2
    BY <2>1 DEF EachStageOnce
  <2>5. (Was(l) <=> r > s + e) /\ (Is(l) <=> r2 > s2 + e2)
    BY DEF Outstanding, Lines
  <2>6. R = {} \/ G \cup B = {}
    BY DEF LinesMove
  <2> HIDE DEF r, s, e, r2, s2, e2, Was, Is
  <2> QED  BY <2>2, <2>3, <2>4, <2>5, <2>6
<1>2. /\ Outstanding(o) \subseteq Lines(o) /\ Outstanding(o)' \subseteq Lines(o)
      /\ R \subseteq Lines(o) /\ G \subseteq Lines(o) /\ B \subseteq Lines(o)
  BY DEF Outstanding, Lines, LinesMove
<1> QED  BY <1>1, <1>2

LEMMA OwedType ==
  ASSUME NEW o \in OrderIds, NEW v
  PROVE  Owed(o, v) \in Nat
BY OutstandingLines, UnitsType DEF Owed

\* Whatever some of an order's outstanding lines need is in the reserved bucket.
LEMMA OwedIsReserved ==
  ASSUME ReservedIsOwed, NEW o \in OrderIds, NEW lines \in SUBSET Outstanding(o),
         NEW v \in Variants
  PROVE  UnitsOf(o, lines, order[o].variant, v) <= stock[v].reserved
<1> DEFINE rest == Outstanding(o) \ lines  owed == [q \in OrderIds |-> Owed(q, v)]
<1>1. lines \in SUBSET Listings /\ rest \in SUBSET Listings /\ lines \cup rest = Outstanding(o)
  BY OutstandingLines
<1>2. /\ UnitsOf(o, lines, order[o].variant, v) \in Nat
      /\ UnitsOf(o, rest, order[o].variant, v) \in Nat
  BY <1>1, UnitsType
<1>3. Owed(o, v) = UnitsOf(o, lines, order[o].variant, v) + UnitsOf(o, rest, order[o].variant, v)
  <2>1. lines \cap rest = {}
    OBVIOUS
  <2> HIDE DEF rest
  <2> QED  BY <1>1, <2>1, UnitsJoin DEF Owed
<1>4. owed \in [OrderIds -> Nat] /\ owed[o] = Owed(o, v)
  BY OwedType
<1>5. stock[v].reserved = SumFunction(owed)
  BY DEF ReservedIsOwed
<1> HIDE DEF owed
<1>6. SumFunction(owed) \in Nat /\ Owed(o, v) <= SumFunction(owed)
  BY <1>4, FinitelyMany, TotalAtLeast
<1> QED  BY <1>2, <1>3, <1>5, <1>6

\* One order's lines change what they need, and the reserved bucket with them.
LEMMA OwedFollows ==
  ASSUME ReservedIsOwed, NEW o \in OrderIds,
         \A q \in OrderIds : q # o => Outstanding(q)' = Outstanding(q)
                                      /\ \A l \in Outstanding(q) :
                                           order'[q].variant[l] = order[q].variant[l],
         \A v \in Variants :
           /\ stock[v].reserved \in Int
           /\ stock'[v].reserved = stock[v].reserved - Owed(o, v) + Owed(o, v)'
  PROVE  ReservedIsOwed'
<1> SUFFICES ASSUME NEW v \in Variants
             PROVE  stock'[v].reserved = SumFunction([q \in OrderIds |-> Owed(q, v)'])
  BY DEF ReservedIsOwed
<1> DEFINE owed == [q \in OrderIds |-> Owed(q, v)]  next == [q \in OrderIds |-> Owed(q, v)']
<1>1. owed \in [OrderIds -> Int] /\ owed[o] = Owed(o, v)
  BY OwedType
<1>2. \A q \in OrderIds : Owed(q, v)' \in Nat
  <2>1. \A q \in OrderIds : Outstanding(q)' \in SUBSET Listings
    BY DEF Outstanding, Lines
  <2>2. \A q \in OrderIds : Owed(q, v)' = UnitsOf(q, Outstanding(q)', order'[q].variant, v)
    BY DEF Owed
  <2> QED  BY <2>1, <2>2, UnitsType
<1>3. next \in [OrderIds -> Int] /\ next[o] = Owed(o, v)'
  BY <1>2
<1>4. \A q \in OrderIds \ {o} : next[q] = owed[q]
  <2> SUFFICES ASSUME NEW q \in OrderIds, q # o
               PROVE  Owed(q, v)' = Owed(q, v)
    OBVIOUS
  <2>1. Owed(q, v)' = UnitsOf(q, Outstanding(q), order'[q].variant, v)
    BY DEF Owed
  <2> QED  BY <2>1, UnitsSame DEF Owed
<1>5. stock[v].reserved = SumFunction(owed)
  BY DEF ReservedIsOwed
<1> HIDE DEF owed, next
<1>6. SumFunction(owed) \in Int /\ SumFunction(next) = SumFunction(owed) - owed[o] + next[o]
  BY <1>1, <1>3, <1>4, FinitelyMany, TotalChange
<1>7. stock'[v].reserved = SumFunction(next)
  BY <1>1, <1>3, <1>5, <1>6
<1> QED  BY <1>7 DEF next

\* Around such a step.
Around == /\ Shape /\ Shape' /\ EachStageOnce /\ EachStageOnce'
          /\ Stocked(stock) /\ ReservedIsOwed

LEMMA OthersOwed ==
  ASSUME NEW o \in OrderIds, NEW R, NEW G, NEW B, LinesMove(o, R, G, B)
  PROVE  \A q \in OrderIds : q # o => Outstanding(q)' = Outstanding(q)
                                      /\ \A l \in Outstanding(q) :
                                           order'[q].variant[l] = order[q].variant[l]
<1>1. \A q \in OrderIds : q # o => rows'[q] = rows[q] /\ order'[q].variant = order[q].variant
  BY DEF LinesMove
<1> QED  BY <1>1 DEF Outstanding, Lines

LEMMA LinesReserved ==
  ASSUME Around, NEW o \in OrderIds, NEW R, LinesMove(o, R, {}, {}), NEW variant,
         stock' = MovedLines(stock, "RESERVE", o, R, variant),
         \A l \in Outstanding(o) : order'[o].variant[l] = order[o].variant[l],
         \A l \in R : order'[o].variant[l] = variant[l]
  PROVE  /\ Stocked(stock') /\ ReservedIsOwed' /\ Outstanding(o)' = Outstanding(o) \cup R
         /\ \A v \in Variants : OnHand(stock'[v]) = OnHand(stock[v])
<1>1. /\ Outstanding(o)' = Outstanding(o) \cup R /\ R \cap Outstanding(o) = {}
      /\ R \in SUBSET Listings /\ Outstanding(o) \in SUBSET Listings
  <2>1. R \in SUBSET Lines(o) /\ {} \in SUBSET Lines(o) /\ Lines(o) \subseteq Listings
    BY DEF LinesMove, Lines
  <2>2. /\ Outstanding(o)' = (Outstanding(o) \cup R) \ ({} \cup {}) /\ R \cap Outstanding(o) = {}
    BY OutstandingChange DEF Around
  <2> QED  BY <2>1, <2>2, OutstandingLines
<1>2. "RESERVE" \in LineKinds /\ Stocked(stock)
  BY DEF LineKinds, OrderKinds, Around
<1>3. Stocked(stock')
  BY <1>1, <1>2, MovedStocked
<1>4. ASSUME NEW v \in Variants
      PROVE  /\ stock'[v].reserved = stock[v].reserved + UnitsOf(o, R, variant, v)
             /\ OnHand(stock'[v]) = OnHand(stock[v]) /\ stock[v].reserved \in Int
             /\ Owed(o, v)' = Owed(o, v) + UnitsOf(o, R, variant, v)
             /\ Owed(o, v) \in Int /\ UnitsOf(o, R, variant, v) \in Int
  <2>1. /\ stock'[v].reserved = stock[v].reserved + UnitsOf(o, R, variant, v)
        /\ OnHand(stock'[v]) = OnHand(stock[v])
    BY <1>1, <1>2, MovedRow
  <2>2. Owed(o, v)' = UnitsOf(o, Outstanding(o) \cup R, order'[o].variant, v)
    BY <1>1 DEF Owed
  <2>3. UnitsOf(o, Outstanding(o) \cup R, order'[o].variant, v)
          = UnitsOf(o, Outstanding(o), order'[o].variant, v) + UnitsOf(o, R, order'[o].variant, v)
    BY <1>1, UnitsJoin
  <2>4. /\ UnitsOf(o, Outstanding(o), order'[o].variant, v) = Owed(o, v)
        /\ UnitsOf(o, R, order'[o].variant, v) = UnitsOf(o, R, variant, v)
    BY UnitsSame DEF Owed
  <2>5. Owed(o, v) \in Int /\ UnitsOf(o, R, variant, v) \in Int /\ stock[v].reserved \in Int
    BY <1>1, <1>2, OwedType, UnitsType, RowFields DEF Stocked
  <2> QED  BY <2>1, <2>2, <2>3, <2>4, <2>5
<1>5. \A v \in Variants : /\ stock[v].reserved \in Int
                          /\ stock'[v].reserved = stock[v].reserved - Owed(o, v) + Owed(o, v)'
  <2> SUFFICES ASSUME NEW v \in Variants
               PROVE  /\ stock[v].reserved \in Int
                      /\ stock'[v].reserved = stock[v].reserved - Owed(o, v) + Owed(o, v)'
    OBVIOUS
  <2> DEFINE a == Owed(o, v)  b == Owed(o, v)'  c == UnitsOf(o, R, variant, v)
             r == stock[v].reserved  s == stock'[v].reserved
  <2>1. r \in Int /\ a \in Int /\ c \in Int /\ s = r + c /\ b = a + c
    BY <1>4
  <2> HIDE DEF a, b, c, r, s
  <2>2. r \in Int /\ s = r - a + b
    BY <2>1
  <2> QED  BY <2>2 DEF a, b, r, s
<1>6. ReservedIsOwed'
  BY <1>5, OthersOwed, OwedFollows DEF Around
<1> QED  BY <1>1, <1>3, <1>4, <1>6

\* The units that ship leave; those of released lines only leave the reserved
\* bucket.  Neither runs into the clamp.
LEMMA LinesLeave ==
  ASSUME Around, NEW o \in OrderIds, NEW G, NEW B, LinesMove(o, {}, G, B), NEW variant,
         \/ stock' = MovedLines(MovedLines(stock, "SHIP", o, G, variant),
                                "RELEASE", o, B, variant)
         \/ B = {} /\ stock' = MovedLines(stock, "SHIP", o, G, variant)
         \/ G = {} /\ stock' = MovedLines(stock, "RELEASE", o, B, variant),
         order'[o].variant = order[o].variant,
         \A l \in G \cup B : variant[l] = order[o].variant[l]
  PROVE  /\ Stocked(stock') /\ ReservedIsOwed' /\ Outstanding(o)' = Outstanding(o) \ (G \cup B)
         /\ \A v \in Variants :
              OnHand(stock'[v]) = OnHand(stock[v]) - UnitsOf(o, G, order[o].variant, v)
<1> DEFINE kept == Outstanding(o) \ (G \cup B)
<1>1. /\ Outstanding(o)' = kept /\ G \cap B = {} /\ G \cup B \subseteq Outstanding(o)
      /\ G \in SUBSET Listings /\ B \in SUBSET Listings /\ kept \in SUBSET Listings
      /\ kept \cap (G \cup B) = {} /\ Outstanding(o) = kept \cup (G \cup B)
  <2>1. {} \in SUBSET Lines(o) /\ G \in SUBSET Lines(o) /\ B \in SUBSET Lines(o)
        /\ Lines(o) \subseteq Listings
    BY DEF LinesMove, Lines
  <2>2. /\ Outstanding(o)' = (Outstanding(o) \cup {}) \ (G \cup B)
        /\ G \cap B = {} /\ G \cup B \subseteq Outstanding(o)
    BY OutstandingChange DEF Around
  <2>3. Outstanding(o) \subseteq Listings
    BY OutstandingLines
  <2> QED  BY <2>1, <2>2, <2>3
<1> HIDE DEF kept
<1>2. "SHIP" \in LineKinds /\ "RELEASE" \in LineKinds /\ Stocked(stock) /\ ReservedIsOwed
  BY DEF LineKinds, OrderKinds, Around
<1> DEFINE shipped == MovedLines(stock, "SHIP", o, G, variant)
<1>3. Stocked(shipped) /\ Stocked(stock')
  <2>1. Stocked(shipped)
    BY <1>1, <1>2, MovedStocked
  <2> HIDE DEF shipped
  <2>2. Stocked(MovedLines(shipped, "RELEASE", o, B, variant))
    BY <1>1, <1>2, <2>1, MovedStocked
  <2>3. Stocked(MovedLines(stock, "RELEASE", o, B, variant))
    BY <1>1, <1>2, MovedStocked
  <2> QED  BY <2>1, <2>2, <2>3 DEF shipped
<1>4. ASSUME NEW v \in Variants
      PROVE  LET g == UnitsOf(o, G, order[o].variant, v)  b == UnitsOf(o, B, order[o].variant, v) IN
             /\ g \in Nat /\ b \in Nat /\ stock[v].reserved \in Int /\ OnHand(stock[v]) \in Int
             /\ stock'[v].reserved = stock[v].reserved - (g + b)
             /\ OnHand(stock'[v]) = OnHand(stock[v]) - g
             /\ Owed(o, v)' + (g + b) = Owed(o, v) /\ Owed(o, v)' \in Int
  <2> DEFINE g == UnitsOf(o, G, order[o].variant, v)  b == UnitsOf(o, B, order[o].variant, v)
  <2>1. /\ g \in Nat /\ b \in Nat /\ stock[v].reserved \in Int /\ OnHand(stock[v]) \in Int
        /\ UnitsOf(o, G, variant, v) = g /\ UnitsOf(o, B, variant, v) = b
    BY <1>1, <1>2, UnitsType, UnitsSame, RowFields DEF Stocked
  <2>2. UnitsOf(o, G \cup B, order[o].variant, v) = g + b
    BY <1>1, UnitsJoin
  <2>3. g + b <= stock[v].reserved
    <3>1. G \cup B \in SUBSET Outstanding(o)
      BY <1>1
    <3> QED  BY <1>2, <2>2, <3>1, OwedIsReserved
  <2>4. Owed(o, v)' + (g + b) = Owed(o, v) /\ Owed(o, v)' \in Int
    <3>1. Owed(o, v)' = UnitsOf(o, kept, order[o].variant, v)
      BY <1>1 DEF Owed
    <3>2. Owed(o, v) = UnitsOf(o, kept \cup (G \cup B), order[o].variant, v)
      BY <1>1 DEF Owed
    <3>3. UnitsOf(o, kept \cup (G \cup B), order[o].variant, v)
            = UnitsOf(o, kept, order[o].variant, v) + UnitsOf(o, G \cup B, order[o].variant, v)
      <4>1. G \cup B \in SUBSET Listings
        BY <1>1
      <4> QED  BY <1>1, <4>1, UnitsJoin
    <3>4. UnitsOf(o, kept, order[o].variant, v) \in Nat
      BY <1>1, UnitsType
    <3> QED  BY <2>1, <2>2, <3>1, <3>2, <3>3, <3>4
  <2> HIDE DEF g, b
  <2>5. g <= stock[v].reserved /\ b <= stock[v].reserved
    BY <2>1, <2>3
  <2>6. /\ shipped[v].reserved = stock[v].reserved - g
        /\ OnHand(shipped[v]) = OnHand(stock[v]) - g
    BY <1>1, <1>2, <2>1, <2>5, MovedRow
  <2>7. CASE stock' = MovedLines(shipped, "RELEASE", o, B, variant)
    <3>1. b <= shipped[v].reserved
      BY <2>1, <2>3, <2>6
    <3> HIDE DEF shipped
    <3>2. /\ stock'[v].reserved = shipped[v].reserved - b
          /\ OnHand(stock'[v]) = OnHand(shipped[v])
      BY <1>1, <1>2, <1>3, <2>1, <2>7, <3>1, MovedRow
    <3>3. /\ stock'[v].reserved = stock[v].reserved - (g + b)
          /\ OnHand(stock'[v]) = OnHand(stock[v]) - g
      BY <2>1, <2>6, <3>2
    <3> QED  BY <2>1, <2>4, <3>3 DEF g, b
  <2>8. CASE B = {} /\ stock' = shipped
    <3>1. b = 0
      BY <2>8, UnitsNone DEF b
    <3>2. /\ stock'[v].reserved = stock[v].reserved - (g + b)
          /\ OnHand(stock'[v]) = OnHand(stock[v]) - g
      BY <2>1, <2>6, <2>8, <3>1
    <3> QED  BY <2>1, <2>4, <3>2 DEF g, b
  <2>9. CASE G = {} /\ stock' = MovedLines(stock, "RELEASE", o, B, variant)
    <3>1. g = 0
      BY <2>9, UnitsNone DEF g
    <3>2. /\ stock'[v].reserved = stock[v].reserved - b
          /\ OnHand(stock'[v]) = OnHand(stock[v])
      BY <1>1, <1>2, <2>1, <2>5, <2>9, MovedRow
    <3>3. /\ stock'[v].reserved = stock[v].reserved - (g + b)
          /\ OnHand(stock'[v]) = OnHand(stock[v]) - g
      BY <2>1, <3>1, <3>2
    <3> QED  BY <2>1, <2>4, <3>3 DEF g, b
  <2> QED  BY <2>7, <2>8, <2>9
<1>5. \A v \in Variants : /\ stock[v].reserved \in Int
                          /\ stock'[v].reserved = stock[v].reserved - Owed(o, v) + Owed(o, v)'
  <2> SUFFICES ASSUME NEW v \in Variants
               PROVE  /\ stock[v].reserved \in Int
                      /\ stock'[v].reserved = stock[v].reserved - Owed(o, v) + Owed(o, v)'
    OBVIOUS
  <2> DEFINE was == Owed(o, v)  is == Owed(o, v)'
             c == UnitsOf(o, G, order[o].variant, v) + UnitsOf(o, B, order[o].variant, v)
             r == stock[v].reserved  s == stock'[v].reserved
  <2>1. r \in Int /\ is \in Int /\ c \in Int /\ s = r - c /\ is + c = was
    BY <1>4
  <2> HIDE DEF was, is, c, r, s
  <2>2. r \in Int /\ s = r - was + is
    BY <2>1
  <2> QED  BY <2>2 DEF was, is, r, s
<1>6. ReservedIsOwed'
  <2>1. \A q \in OrderIds : q # o => Outstanding(q)' = Outstanding(q)
                                      /\ \A l \in Outstanding(q) :
                                           order'[q].variant[l] = order[q].variant[l]
    BY OthersOwed
  <2> QED  BY <1>2, <1>5, <2>1, OwedFollows
<1> QED  BY <1>1, <1>3, <1>4, <1>6 DEF kept

-----------------------------------------------------------------------------
(* When orders ship by pulls only, a shipped order is not PAID again.      *)

Departed == {"SHIPPED", "COMPLETED", "CANCELLED"}

ByPullOnly == world.ops \cap {"ship", "cancel"} = {}

\* A pull ships an order that it has seen depart.
DueHasDeparted ==
  \A p \in Pullers : "ship" \in pull[p].due => order[pull[p].current].status \in Departed

\* What a page or an order knows to have departed has departed at the channel,
\* and no page that is still to be stored is older than the shipment.
ShippedHasDeparted ==
  \A o \in OrderIds :
    /\ order[o].status \in Departed => channel[o].status \in Departed
    /\ \A p \in Pullers : pull[p] # NoPull /\ pull[p].fetched[o].status \in Departed =>
         channel[o].status \in Departed
    /\ order[o].shipped =>
         /\ order[o].status \in Departed
         /\ \A p \in Pullers : o \in pull[p].todo => pull[p].fetched[o].status \in Departed

DepartInv == DueHasDeparted /\ (ByPullOnly => ShippedHasDeparted)

\* A departed order stays departed at the channel.
LEMMA ChannelDeparts ==
  ASSUME Shape, Outside
  PROVE  \A o \in OrderIds : channel[o].status \in Departed => channel'[o].status \in Departed
<1>1. ASSUME NEW q \in OrderIds, ChannelAdvance(q)
      PROVE  \A o \in OrderIds : channel[o].status \in Departed => channel'[o].status \in Departed
  <2>1. PICK status \in Follows(channel[q].status) : channel' = [channel EXCEPT ![q].status = status]
    BY <1>1 DEF ChannelAdvance
  <2>2. channel \in [OrderIds -> ChannelOrder] /\ channel[q].status \in Statuses
    BY DEF Shape, ChannelOrder
  <2>3. channel[q].status \in Departed => status \in Departed
    BY <2>1, <2>2 DEF Follows, Statuses, Departed
  <2> QED  BY <2>1, <2>2, <2>3 DEF ChannelOrder
<1>2. ASSUME NEW q \in OrderIds, ChannelCancelLine(q)
      PROVE  \A o \in OrderIds : channel'[o].status = channel[o].status
  BY <1>2 DEF ChannelCancelLine, Shape, ChannelOrder
<1>3. \A l \in Listings : MapListing(l) => channel' = channel
  BY DEF MapListing
<1> QED  BY <1>1, <1>2, <1>3 DEF Outside

\* The steps that leave orders alone and start no pull.
LEMMA QuietDepart ==
  ASSUME Shape, DepartInv, Quiet,
         \A p \in Pullers : pull'[p] = NoPull \/ pull'[p] = pull[p],
         \A o \in OrderIds : channel[o].status \in Departed => channel'[o].status \in Departed
  PROVE  DepartInv'
<1>1. DueHasDeparted'
  BY NoPullFields DEF Quiet, DepartInv, DueHasDeparted
<1>2. ASSUME ByPullOnly'
      PROVE  ShippedHasDeparted'
  BY <1>2, NoPullFields DEF Quiet, DepartInv, ShippedHasDeparted, ByPullOnly
<1> QED  BY <1>1, <1>2 DEF DepartInv

LEMMA StartDepart ==
  ASSUME Sequential, Shape, DepartInv, NEW p \in Pullers, StartPull(p)
  PROVE  DepartInv'
<1>1. /\ UNCHANGED <<channel, order, world>> /\ pull'[p].due = {} /\ pull'[p].fetched = channel
      /\ \A q \in Pullers : q # p => pull'[q] = NoPull
  BY StartEffect
<1>2. DueHasDeparted'
  BY <1>1, NoPullFields DEF DueHasDeparted
<1>3. ASSUME ByPullOnly'
      PROVE  ShippedHasDeparted'
  BY <1>1, <1>3, NoPullFields DEF DepartInv, ShippedHasDeparted, ByPullOnly
<1> QED  BY <1>2, <1>3 DEF DepartInv

LEMMA UpsertDepart ==
  ASSUME OrderInv, DepartInv, NEW p \in Pullers, UpsertOrder(p)
  PROVE  DepartInv'
<1>0. Shape /\ Alone
  BY DEF OrderInv
<1>1. PICK o \in OrderIds :
        /\ o \in pull[p].todo /\ pull'[p].todo = pull[p].todo \ {o}
        /\ order' = [order EXCEPT ![o] = UpsertedRow(p, o)]
        /\ pull'[p].due = DueStages(o, UpsertedRow(p, o), LateLines(p, o))
        /\ pull'[p].due # {} => pull'[p].current = o
  BY <1>0, UpsertEffect
<1>2. UNCHANGED <<channel, world>> /\ PullGoesOn(p)
  BY <1>0, UpsertEffect
<1>3. PagesKept /\ \A q \in Pullers : q # p => pull'[q] = NoPull
  BY <1>0, <1>1, <1>2, PullKeepsPages, PullAlone DEF PullGoesOn
<1>4. /\ \A q \in OrderIds : q # o => order'[q] = order[q]
      /\ order'[o] = UpsertedRow(p, o) /\ UpsertedRow(p, o).status = pull[p].fetched[o].status
      /\ order'[o].shipped = order[o].shipped
  BY <1>0, <1>1, UpsertedRowFields DEF Shape
<1>5. pull[p] # NoPull
  BY <1>1, NoPullFields
<1>6. DueHasDeparted'
  <2>1. "ship" \in pull'[p].due => UpsertedRow(p, o).status \in Departed
    BY <1>1 DEF DueStages, Departed
  <2>2. "ship" \in pull'[p].due => order'[pull'[p].current].status \in Departed
    BY <1>1, <1>4, <2>1
  <2> QED  BY <1>3, <2>2, NoPullFields DEF DueHasDeparted
<1>7. ASSUME ByPullOnly'
      PROVE  ShippedHasDeparted'
  <2>1. ShippedHasDeparted
    BY <1>2, <1>7 DEF DepartInv, ByPullOnly
  <2>2. ASSUME NEW q \in OrderIds
        PROVE  /\ order'[q].status \in Departed => channel'[q].status \in Departed
               /\ order'[q].shipped => order'[q].status \in Departed
    BY <1>1, <1>2, <1>4, <1>5, <2>1 DEF ShippedHasDeparted
  <2>3. ASSUME NEW q \in OrderIds, NEW r \in Pullers
        PROVE  /\ pull'[r] # NoPull /\ pull'[r].fetched[q].status \in Departed =>
                    channel'[q].status \in Departed
               /\ order'[q].shipped /\ q \in pull'[r].todo => pull'[r].fetched[q].status \in Departed
    <3>1. order'[q].shipped = order[q].shipped
      BY <1>4
    <3> QED  BY <1>2, <1>3, <2>1, <3>1, NoPullFields DEF ShippedHasDeparted, PagesKept
  <2> QED  BY <2>2, <2>3 DEF ShippedHasDeparted
<1> QED  BY <1>6, <1>7 DEF DepartInv

LEMMA StageDepart ==
  ASSUME OrderInv, DepartInv, NEW p \in Pullers, StageStep(p)
  PROVE  DepartInv'
<1>0. Shape /\ Alone
  BY DEF OrderInv
<1>1. /\ UNCHANGED <<channel, world>> /\ PullGoesOn(p) /\ pull'[p].todo = pull[p].todo
      /\ pull'[p].due # {} => pull'[p].current = pull[p].current
      /\ pull[p].due # {}
  BY StageEffect
<1>2. PICK stage \in Stages :
        /\ stage \in pull[p].due /\ pull'[p].due = pull[p].due \ {stage} /\ Staged(p, stage)
  BY StageStaged
<1>3. PICK o \in OrderIds : o = pull[p].current /\ o \notin pull[p].todo
  BY <1>1 DEF OrderInv, DueFitsOrder
<1>4. /\ \A q \in OrderIds : order'[q].status = order[q].status
      /\ \A q \in OrderIds : order'[q].shipped =>
           order[q].shipped \/ (q = o /\ order[q].status \in Departed)
  BY <1>2, <1>3 DEF Staged, DepartInv, DueHasDeparted
<1>5. PagesKept /\ \A q \in Pullers : q # p => pull'[q] = NoPull
  BY <1>0, <1>1, PullKeepsPages, PullAlone DEF PullGoesOn
<1>6. DueHasDeparted'
  <2>1. "ship" \in pull'[p].due => order'[pull'[p].current].status \in Departed
    BY <1>1, <1>2, <1>3, <1>4 DEF DepartInv, DueHasDeparted
  <2> QED  BY <1>5, <2>1, NoPullFields DEF DueHasDeparted
<1>7. ASSUME ByPullOnly'
      PROVE  ShippedHasDeparted'
  <2>1. ShippedHasDeparted
    BY <1>1, <1>7 DEF DepartInv, ByPullOnly
  <2>2. ASSUME NEW q \in OrderIds
        PROVE  /\ order'[q].status \in Departed => channel'[q].status \in Departed
               /\ order'[q].shipped => order'[q].status \in Departed
    BY <1>1, <1>4, <2>1 DEF ShippedHasDeparted
  <2>3. ASSUME NEW q \in OrderIds, NEW r \in Pullers
        PROVE  /\ pull'[r] # NoPull /\ pull'[r].fetched[q].status \in Departed =>
                    channel'[q].status \in Departed
               /\ order'[q].shipped /\ q \in pull'[r].todo => pull'[r].fetched[q].status \in Departed
    <3>1. q \in pull'[r].todo => r = p /\ q # o
      BY <1>1, <1>3, <1>5, NoPullFields
    <3> QED  BY <1>1, <1>4, <1>5, <2>1, <3>1, NoPullFields DEF ShippedHasDeparted, PagesKept
  <2> QED  BY <2>2, <2>3 DEF ShippedHasDeparted
<1> QED  BY <1>6, <1>7 DEF DepartInv

LEMMA StaffDepart ==
  ASSUME OrderInv, DepartInv, NEW s \in Staff,
         MarkShipped(s) \/ Cancel(s) \/ ResolveFill(s) \/ ResolveReserve(s)
  PROVE  DepartInv'
<1> DEFINE o == task[s].order
<1>1. /\ UNCHANGED <<channel, pull, world>> /\ \A p \in Pullers : pull'[p] = NoPull
      /\ LetIn(task[s]) /\ order[o] \in OrderRow
  BY TaskEffect DEF TaskStep
<1>2. DueHasDeparted'
  BY <1>1, NoPullFields DEF DueHasDeparted
<1>3. ASSUME ByPullOnly'
      PROVE  ShippedHasDeparted'
  <2>1. ByPullOnly /\ ShippedHasDeparted
    BY SMTT(30), <1>1, <1>3 DEF DepartInv, ByPullOnly
  <2>2. ResolveFill(s) \/ ResolveReserve(s)
    BY Zenon, <2>1, MarkShippedEffect, CancelEffect DEF ByPullOnly
  <2>3. \A q \in OrderIds : order'[q].status = order[q].status /\ order'[q].shipped = order[q].shipped
    <3>1. CASE ResolveFill(s)
      <4>1. RowChanged(o, FilledRow(task[s])) /\ task[s].read = order[o] /\ task[s] \in Task
        BY <1>1, <3>1, ResolveFillEffect DEF LetIn
      <4> QED  BY <4>1, FilledRowFields DEF RowChanged
    <3>2. CASE ResolveReserve(s)
      <4>1. RowChanged(o, [order[o] EXCEPT !.applied = TRUE])
        BY <3>2, ResolveReserveEffect
      <4> QED  BY <1>1, <4>1 DEF RowChanged, OrderRow
    <3> QED  BY <2>2, <3>1, <3>2
  <2> QED  BY <1>1, <2>1, <2>3, NoPullFields DEF ShippedHasDeparted
<1> QED  BY <1>2, <1>3 DEF DepartInv

LEMMA DepartStep ==
  ASSUME Sequential, OrderInv, DepartInv, Next \/ UNCHANGED orderVars
  PROVE  DepartInv'
<1>0. Shape
  BY DEF OrderInv
<1>1. CASE Outside
  <2>1. Quiet /\ pull' = pull
    BY <1>0, <1>1, QuietSteps, OutsideEffect
  <2> QED  BY <1>0, <1>1, <2>1, ChannelDeparts, QuietDepart
<1>2. CASE Crash \/ UNCHANGED orderVars \/ (\E s \in Staff : LoadStep(s) \/ ResolveMap(s))
  <2>1. Quiet
    BY <1>2, QuietSteps
  <2>2. channel' = channel /\ \A p \in Pullers : pull'[p] = NoPull \/ pull'[p] = pull[p]
    <3>1. CASE Crash
      BY <1>0, <3>1 DEF Crash, CrashPull, CrashTask, Shape
    <3>2. CASE UNCHANGED orderVars
      BY <3>2 DEF orderVars
    <3>3. CASE \E s \in Staff : LoadStep(s) \/ ResolveMap(s)
      BY <3>3, LoadEffect DEF ResolveMap
    <3> QED  BY <1>2, <3>1, <3>2, <3>3
  <2> QED  BY <1>0, <2>1, <2>2, QuietDepart
<1>3. ASSUME NEW p \in Pullers, StartPull(p) \/ UpsertOrder(p) \/ StageStep(p)
      PROVE  DepartInv'
  BY <1>0, <1>3, StartDepart, UpsertDepart, StageDepart
<1>4. ASSUME NEW s \in Staff, MarkShipped(s) \/ Cancel(s) \/ ResolveFill(s) \/ ResolveReserve(s)
      PROVE  DepartInv'
  BY <1>4, StaffDepart
<1> QED  BY <1>1, <1>2, <1>3, <1>4, NextCases

-----------------------------------------------------------------------------
(* The steps that move stock.                                              *)

\* A step that reserves the lines R of order o, or ships G and releases B, with
\* the stock that goes with it.
StockMove(o, R, G, B) ==
  /\ LinesMove(o, R, G, B) /\ order'[o].variant = order[o].variant
  /\ \E variant :
       /\ \A l \in R \cup G \cup B : variant[l] = order[o].variant[l]
       /\ \/ G \cup B = {} /\ stock' = MovedLines(stock, "RESERVE", o, R, variant)
          \/ R = {} /\ stock' = MovedLines(MovedLines(stock, "SHIP", o, G, variant),
                                           "RELEASE", o, B, variant)
          \/ R = {} /\ B = {} /\ stock' = MovedLines(stock, "SHIP", o, G, variant)
          \/ R = {} /\ G = {} /\ stock' = MovedLines(stock, "RELEASE", o, B, variant)

\* The stamps go with the lines: who reserves has an open order, and who ships
\* or releases an order does so with all the lines it has.
StampsFit(o, R, G, B) ==
  /\ \A q \in OrderIds : q # o => /\ order'[q].shipped = order[q].shipped
                                  /\ order'[q].reverted = order[q].reverted
  /\ \/ ~order'[o].shipped /\ ~order'[o].reverted
     \/ R = {} /\ Resolved(o, order[o].variant) \subseteq G \cup B
     \/ R = {} /\ order'[o].shipped = order[o].shipped /\ order'[o].reverted = order[o].reverted

LEMMA StockMoveStocked ==
  ASSUME Stocked(stock), NEW o \in OrderIds, NEW R, NEW G, NEW B, StockMove(o, R, G, B)
  PROVE  Stocked(stock')
<1>1. R \in SUBSET Listings /\ G \in SUBSET Listings /\ B \in SUBSET Listings
  BY DEF StockMove, LinesMove, Lines
<1>2. {"RESERVE", "SHIP", "RELEASE"} \subseteq LineKinds
  BY DEF LineKinds, OrderKinds
<1>3. PICK variant :
       \/ stock' = MovedLines(stock, "RESERVE", o, R, variant)
       \/ stock' = MovedLines(MovedLines(stock, "SHIP", o, G, variant), "RELEASE", o, B, variant)
       \/ stock' = MovedLines(stock, "SHIP", o, G, variant)
       \/ stock' = MovedLines(stock, "RELEASE", o, B, variant)
  BY DEF StockMove
<1> DEFINE shipped == MovedLines(stock, "SHIP", o, G, variant)
<1>4. Stocked(shipped)
  BY <1>1, <1>2, MovedStocked
<1>5. Stocked(MovedLines(shipped, "RELEASE", o, B, variant))
  <2> HIDE DEF shipped
  <2> QED  BY <1>1, <1>2, <1>4, MovedStocked
<1>6. /\ Stocked(MovedLines(stock, "RESERVE", o, R, variant))
      /\ Stocked(MovedLines(stock, "RELEASE", o, B, variant))
  BY <1>1, <1>2, MovedStocked
<1> QED  BY <1>3, <1>4, <1>5, <1>6

LEMMA StockMoveEffect ==
  ASSUME Around, NEW o \in OrderIds, NEW R, NEW G, NEW B, StockMove(o, R, G, B)
  PROVE  /\ ReservedIsOwed' /\ Outstanding(o)' = (Outstanding(o) \cup R) \ (G \cup B)
         /\ \A v \in Variants :
              OnHand(stock'[v]) = OnHand(stock[v]) - UnitsOf(o, G, order[o].variant, v)
<1>1. PICK variant :
       /\ \A l \in R \cup G \cup B : variant[l] = order[o].variant[l]
       /\ \/ G \cup B = {} /\ stock' = MovedLines(stock, "RESERVE", o, R, variant)
          \/ R = {} /\ stock' = MovedLines(MovedLines(stock, "SHIP", o, G, variant),
                                           "RELEASE", o, B, variant)
          \/ R = {} /\ B = {} /\ stock' = MovedLines(stock, "SHIP", o, G, variant)
          \/ R = {} /\ G = {} /\ stock' = MovedLines(stock, "RELEASE", o, B, variant)
  BY DEF StockMove
<1>2. LinesMove(o, R, G, B) /\ order'[o].variant = order[o].variant
  BY DEF StockMove
<1>3. CASE G \cup B = {} /\ stock' = MovedLines(stock, "RESERVE", o, R, variant)
  <2>1. G = {} /\ B = {}
    BY <1>3
  <2>2. LinesMove(o, R, {}, {})
    BY <1>2, <2>1
  <2>3. /\ ReservedIsOwed' /\ Outstanding(o)' = Outstanding(o) \cup R
        /\ \A v \in Variants : OnHand(stock'[v]) = OnHand(stock[v])
    BY <1>1, <1>2, <1>3, <2>2, LinesReserved
  <2>4. \A v \in Variants : UnitsOf(o, G, order[o].variant, v) = 0 /\ OnHand(stock[v]) \in Int
    BY <2>1, UnitsNone, RowFields DEF Around, Stocked
  <2> QED  BY <2>1, <2>3, <2>4
<1>4. CASE \/ R = {} /\ stock' = MovedLines(MovedLines(stock, "SHIP", o, G, variant),
                                            "RELEASE", o, B, variant)
           \/ R = {} /\ B = {} /\ stock' = MovedLines(stock, "SHIP", o, G, variant)
           \/ R = {} /\ G = {} /\ stock' = MovedLines(stock, "RELEASE", o, B, variant)
  <2>1. LinesMove(o, {}, G, B) /\ R = {}
    BY <1>2, <1>4
  <2>2. /\ ReservedIsOwed' /\ Outstanding(o)' = Outstanding(o) \ (G \cup B)
        /\ \A v \in Variants :
             OnHand(stock'[v]) = OnHand(stock[v]) - UnitsOf(o, G, order[o].variant, v)
    BY <1>1, <1>2, <1>4, <2>1, LinesLeave
  <2> QED  BY <2>1, <2>2
<1> QED  BY <1>1, <1>3, <1>4

LEMMA StockMoveGone ==
  ASSUME Around, ReservedOnce, GoneHoldNothing,
         NEW o \in OrderIds, NEW R, NEW G, NEW B, StockMove(o, R, G, B), StampsFit(o, R, G, B)
  PROVE  GoneHoldNothing'
<1>1. \A q \in OrderIds : q # o => Outstanding(q)' = Outstanding(q)
  BY OthersOwed DEF StockMove
<1>2. Outstanding(o)' = (Outstanding(o) \cup R) \ (G \cup B) /\ (R = {} \/ G \cup B = {})
  <2>1. Outstanding(o)' = (Outstanding(o) \cup R) \ (G \cup B)
    BY StockMoveEffect
  <2> QED  BY <2>1 DEF StockMove, LinesMove
<1>3. Outstanding(o) \subseteq Resolved(o, order[o].variant)
  <2> SUFFICES ASSUME NEW l \in Outstanding(o)  PROVE l \in Resolved(o, order[o].variant)
    OBVIOUS
  <2>1. l \in Listings /\ rows[o][l].RESERVE > rows[o][l].SHIP + rows[o][l].RELEASE
    BY DEF Outstanding, Lines
  <2>2. rows[o][l].RESERVE \in Nat /\ rows[o][l].SHIP \in Nat /\ rows[o][l].RELEASE \in Nat
    BY <2>1, NaturalRows DEF Around
  <2>3. rows[o][l].RESERVE > 0
    BY <2>1, <2>2
  <2> QED  BY <2>1, <2>3 DEF ReservedOnce
<1>4. order'[o].shipped \/ order'[o].reverted => Outstanding(o)' = {}
  <2>1. CASE R = {} /\ Resolved(o, order[o].variant) \subseteq G \cup B
    BY <1>2, <1>3, <2>1
  <2>2. CASE R = {} /\ order'[o].shipped = order[o].shipped /\ order'[o].reverted = order[o].reverted
    BY <1>2, <2>2 DEF GoneHoldNothing
  <2> QED  BY <2>1, <2>2 DEF StampsFit
<1> QED  BY <1>1, <1>4 DEF GoneHoldNothing, StampsFit

LEMMA ResolvedLines ==
  \A o \in OrderIds : \A variant : Resolved(o, variant) \subseteq Lines(o)
BY DEF Resolved

\* The stages of a pull.
LEMMA StageMoves ==
  ASSUME OrderInv, NEW p \in Pullers, StageStep(p)
  PROVE  \/ OpenReturn(p)
         \/ \E R, G, B : /\ StockMove(pull[p].current, R, G, B)
                         /\ StampsFit(pull[p].current, R, G, B)
<1>1. PICK stage \in Stages :
        /\ stage \in pull[p].due /\ pull'[p].due = pull[p].due \ {stage}
        /\ \/ stage = "reserve" /\ Reserve(p)
           \/ stage = "delta" /\ ReserveDelta(p)
           \/ stage = "ship" /\ Ship(p)
           \/ stage = "release" /\ Release(p)
           \/ stage = "return" /\ OpenReturn(p)
  BY StageEffect
<1>2. Staged(p, stage)
  <2>1. PICK other \in Stages :
          /\ other \in pull[p].due /\ pull'[p].due = pull[p].due \ {other} /\ Staged(p, other)
    BY StageStaged
  <2>2. other = stage
    BY <1>1, <2>1
  <2> QED  BY <2>1, <2>2
<1>3. PICK o \in OrderIds : o = pull[p].current
  BY StageEffect
<1> DEFINE items == order[o].variant  lines == Resolved(o, items)
<1>4. pull[p].items = items /\ lines \subseteq Lines(o) /\ Lines(o) \subseteq Listings
  BY <1>1, <1>3, ResolvedLines DEF OrderInv, DueFitsOrder, Lines
<1>5. /\ \A q \in OrderIds : q # o => order'[q] = order[q] /\ rows'[q] = rows[q]
      /\ order'[o].variant = items
      /\ order'[o].shipped = (order[o].shipped \/ stage = "ship")
      /\ order'[o].reverted = (order[o].reverted \/ stage = "release")
  BY <1>2, <1>3 DEF Staged
<1>6. ASSUME NEW R, NEW G, NEW B, R \subseteq Lines(o), G \subseteq Lines(o), B \subseteq Lines(o),
             R = {} \/ G \cup B = {}, MovedBy(p, stage, "RESERVE") = R,
             MovedBy(p, stage, "SHIP") = G, MovedBy(p, stage, "RELEASE") = B
      PROVE  LinesMove(o, R, G, B)
  <2>1. \A l \in Listings :
          /\ rows'[o][l].RESERVE = IF l \in R THEN rows[o][l].RESERVE + 1 ELSE rows[o][l].RESERVE
          /\ rows'[o][l].SHIP = IF l \in G THEN rows[o][l].SHIP + 1 ELSE rows[o][l].SHIP
          /\ rows'[o][l].RELEASE = IF l \in B THEN rows[o][l].RELEASE + 1 ELSE rows[o][l].RELEASE
    BY <1>2, <1>3, <1>6 DEF Staged, LedgerKinds
  <2> QED  BY SMTT(30), <1>5, <1>6, <2>1 DEF LinesMove
<1>7. CASE stage = "reserve" /\ Reserve(p)
  <2>1. LinesMove(o, lines, {}, {})
    BY <1>3, <1>4, <1>6, <1>7 DEF MovedBy
  <2>2. stock' = MovedLines(stock, "RESERVE", o, lines, items)
    BY <1>3, <1>4, <1>7 DEF Reserve
  <2>3. ~order[o].applied
    BY <1>1, <1>3, <1>7 DEF OrderInv, DueFitsOrder
  <2>4. ~order'[o].shipped /\ ~order'[o].reverted
    BY <1>5, <1>7, <2>3 DEF OrderInv, StampsInOrder
  <2>5. StockMove(o, lines, {}, {})
    BY <1>5, <2>1, <2>2 DEF StockMove
  <2>6. StampsFit(o, lines, {}, {})
    BY <1>5, <2>4 DEF StampsFit
  <2> QED  BY <1>3, <2>5, <2>6
<1>8. CASE stage = "delta" /\ ReserveDelta(p)
  <2> DEFINE late == pull[p].late
  <2>1. late \subseteq Lines(o) /\ OpenOrder(order[o])
    BY <1>1, <1>3, <1>4, <1>8 DEF OrderInv, DueFitsOrder, LateUnreserved
  <2>2. LinesMove(o, late, {}, {})
    BY <1>3, <1>6, <1>8, <2>1 DEF MovedBy
  <2>3. stock' = MovedLines(stock, "RESERVE", o, late, items)
    BY <1>3, <1>4, <1>8 DEF ReserveDelta
  <2>4. ~order'[o].shipped /\ ~order'[o].reverted
    BY <1>5, <1>8, <2>1 DEF OpenOrder
  <2>5. StockMove(o, late, {}, {})
    BY <1>5, <2>2, <2>3 DEF StockMove
  <2>6. StampsFit(o, late, {}, {})
    BY <1>5, <2>4 DEF StampsFit
  <2> QED  BY <1>3, <2>5, <2>6
<1>9. CASE stage = "ship" /\ Ship(p)
  <2> DEFINE back == lines \cap pull[p].fetched[o].cancelled  gone == lines \ back
  <2>1. back \subseteq Lines(o) /\ gone \subseteq Lines(o) /\ lines \subseteq gone \cup back
    BY <1>4
  <2>2. /\ MovedBy(p, stage, "RESERVE") = {} /\ MovedBy(p, stage, "SHIP") = gone
        /\ MovedBy(p, stage, "RELEASE") = back
    BY SMTT(30), <1>3, <1>4, <1>9 DEF MovedBy
  <2>3. stock' = MovedLines(MovedLines(stock, "SHIP", o, gone, items), "RELEASE", o, back, items)
    BY Zenon, <1>3, <1>4, <1>9 DEF Ship
  <2> HIDE DEF gone, back
  <2>4. LinesMove(o, {}, gone, back)
    BY <1>6, <2>1, <2>2
  <2>5. StockMove(o, {}, gone, back)
    BY <1>5, <2>3, <2>4 DEF StockMove
  <2>6. StampsFit(o, {}, gone, back)
    BY <1>5, <2>1 DEF StampsFit
  <2> QED  BY <1>3, <2>5, <2>6
<1>10. CASE stage = "release" /\ Release(p)
  <2>1. LinesMove(o, {}, {}, lines)
    BY <1>3, <1>4, <1>6, <1>10 DEF MovedBy
  <2>2. stock' = MovedLines(stock, "RELEASE", o, lines, items)
    BY <1>3, <1>4, <1>10 DEF Release
  <2>3. StockMove(o, {}, {}, lines)
    BY <1>5, <2>1, <2>2 DEF StockMove
  <2>4. StampsFit(o, {}, {}, lines)
    BY <1>5 DEF StampsFit
  <2> QED  BY <1>3, <2>3, <2>4
<1> QED  BY <1>1, <1>7, <1>8, <1>9, <1>10

\* The staff's operations that move stock.
LEMMA StaffMoves ==
  ASSUME OrderInv, NEW s \in Staff, MarkShipped(s) \/ Cancel(s) \/ ResolveReserve(s)
  PROVE  LET o == task[s].order IN
         \/ \E R, G, B : StockMove(o, R, G, B) /\ StampsFit(o, R, G, B)
         \/ /\ ResolveReserve(s) /\ ~(OpenOrder(order[o]) /\ order[o].status = "PAID")
            /\ \E R, G, B : StockMove(o, R, G, B)
<1>1. /\ TaskStep(s) /\ LetIn(task[s]) /\ task[s].order \in OrderIds
      /\ order[task[s].order] \in OrderRow
  BY TaskEffect DEF TaskStep, LetIn
<1>2. PICK o \in OrderIds : o = task[s].order
  BY <1>1
<1> DEFINE lines == Resolved(o, order[o].variant)
<1>3. lines \subseteq Lines(o)
  BY ResolvedLines
<1>4. ASSUME NEW kind \in LedgerKinds, NEW moved, RowsAdded(o, kind, moved),
             moved \subseteq Lines(o), \A q \in OrderIds : order'[q].variant = order[q].variant
      PROVE  /\ kind = "RESERVE" => LinesMove(o, moved, {}, {})
             /\ kind = "SHIP" => LinesMove(o, {}, moved, {})
             /\ kind = "RELEASE" => LinesMove(o, {}, {}, moved)
  <2>1. \A l \in Listings :
          /\ rows'[o][l].RESERVE = IF l \in moved /\ kind = "RESERVE" THEN rows[o][l].RESERVE + 1
                                   ELSE rows[o][l].RESERVE
          /\ rows'[o][l].SHIP = IF l \in moved /\ kind = "SHIP" THEN rows[o][l].SHIP + 1
                                ELSE rows[o][l].SHIP
          /\ rows'[o][l].RELEASE = IF l \in moved /\ kind = "RELEASE" THEN rows[o][l].RELEASE + 1
                                   ELSE rows[o][l].RELEASE
    BY <1>4 DEF RowsAdded, LedgerKinds
  <2>2. \A q \in OrderIds : q # o => rows'[q] = rows[q]
    BY <1>4 DEF RowsAdded
  <2> QED  BY <1>4, <2>1, <2>2 DEF LinesMove
<1>5. CASE MarkShipped(s)
  <2>1. /\ RowChanged(o, [order[o] EXCEPT !.status = "SHIPPED", !.shipped = TRUE])
        /\ RowsAdded(o, "SHIP", lines) /\ task[s].read = order[o]
    BY <1>2, <1>5, MarkShippedEffect
  <2>2. /\ \A q \in OrderIds : q # o => order'[q] = order[q]
        /\ order'[o].variant = order[o].variant
    BY <1>1, <1>2, <2>1 DEF RowChanged, OrderRow
  <2>3. LinesMove(o, {}, lines, {})
    BY <1>3, <1>4, <2>1, <2>2 DEF LedgerKinds
  <2>4. stock' = MovedLines(stock, "SHIP", o, lines, order[o].variant)
    BY <1>2, <1>5, <2>1 DEF MarkShipped
  <2>5. StockMove(o, {}, lines, {})
    BY <2>2, <2>3, <2>4 DEF StockMove
  <2>6. StampsFit(o, {}, lines, {})
    BY <2>2 DEF StampsFit
  <2> HIDE DEF lines
  <2> QED  BY SMTT(30), <1>2, <2>5, <2>6
<1>6. CASE Cancel(s)
  <2> DEFINE releases == order[o].applied /\ ~order[o].reverted
             moved == IF releases THEN lines ELSE {}
  <2>1. /\ RowChanged(o, [order[o] EXCEPT !.status = "CANCELLED", !.reverted = @ \/ releases])
        /\ RowsAdded(o, "RELEASE", moved)
    BY Zenon, <1>2, <1>6, CancelEffect
  <2>2. task[s].read = order[o] /\ task[s].op = "cancel"
    <3>1. task[s].op = "cancel" /\ task[s].step \in 1..3
      BY <1>1, <1>6 DEF Cancel, LetIn, Task
    <3>2. task[s].step # 3
      BY <1>1, <3>1, TaskEffect
    <3>3. task[s].step < 3
      BY SMTT(30), <3>1, <3>2
    <3> QED  BY <1>1, <1>2, <3>1, <3>3, TaskEffect
  <2>3. stock' = MovedLines(stock, "RELEASE", o, moved, order[o].variant)
    BY SMTT(30), <1>2, <1>6, <2>2 DEF Cancel
  <2>4. /\ \A q \in OrderIds : q # o => order'[q] = order[q]
        /\ order'[o].variant = order[o].variant /\ order'[o].shipped = order[o].shipped
        /\ order'[o].reverted = (order[o].reverted \/ releases)
    <3> HIDE DEF releases
    <3> QED  BY Zenon, <1>1, <1>2, <2>1 DEF RowChanged, OrderRow, releases
  <2>5. moved \subseteq Lines(o)
    BY <1>3
  <2>6. releases => lines \subseteq moved
    OBVIOUS
  <2>7. order[o].reverted \in BOOLEAN
    BY <1>1, <1>2 DEF OrderRow
  <2> HIDE DEF releases, moved
  <2>8. LinesMove(o, {}, {}, moved)
    BY <1>4, <2>1, <2>4, <2>5 DEF LedgerKinds
  <2>9. StockMove(o, {}, {}, moved)
    BY <2>3, <2>4, <2>8 DEF StockMove
  <2>10. StampsFit(o, {}, {}, moved)
    <3>1. CASE releases
      BY <2>4, <2>6, <3>1 DEF StampsFit
    <3>2. CASE ~releases
      BY <2>4, <2>7, <3>2 DEF StampsFit
    <3> QED  BY <3>1, <3>2
  <2> QED  BY SMTT(30), <1>2, <2>9, <2>10
<1>7. CASE ResolveReserve(s)
  <2> DEFINE t == task[s]  moved == NewlyResolved(t)
  <2>1. /\ t.read.status = "PAID" /\ order[o] = FilledRow(t)
        /\ RowChanged(o, [order[o] EXCEPT !.applied = TRUE])
        /\ RowsAdded(o, "RESERVE", moved)
    BY <1>2, <1>7, ResolveReserveEffect
  <2>2. t \in Task
    BY <1>1 DEF LetIn
  <2>3. /\ FilledRow(t).status = t.read.status
        /\ \A l \in Listings : l \in moved => FilledRow(t).variant[l] = t.to
        /\ moved \subseteq Lines(o)
    BY <1>2, <2>2, FilledRowFields
  <2>4. stock' = MovedLines(stock, "RESERVE", o, moved, [l \in Listings |-> t.to])
    BY <1>2, <1>7 DEF ResolveReserve
  <2>5. /\ \A q \in OrderIds : q # o => order'[q] = order[q]
        /\ order'[o].variant = order[o].variant /\ order'[o].shipped = order[o].shipped
        /\ order'[o].reverted = order[o].reverted
    BY <1>1, <1>2, <2>1 DEF RowChanged, OrderRow
  <2> HIDE DEF t, moved
  <2>6. LinesMove(o, moved, {}, {})
    BY <1>4, <2>1, <2>3, <2>5 DEF LedgerKinds
  <2>7. \A l \in moved : [m \in Listings |-> t.to][l] = order[o].variant[l]
    BY <2>1, <2>3 DEF Lines
  <2>8. StockMove(o, moved, {}, {})
    BY <2>4, <2>5, <2>6, <2>7 DEF StockMove
  <2>9. order[o].status = "PAID"
    BY <2>1, <2>3
  <2>10. OpenOrder(order[o]) => StampsFit(o, moved, {}, {})
    BY <2>5 DEF StampsFit, OpenOrder
  <2> QED  BY <1>2, <1>7, <2>8, <2>9, <2>10
<1> QED  BY <1>5, <1>6, <1>7

\* Where reservations add up, an order whose line resolveOrderItem reserves
\* has not left.
LEMMA ResolveOpens ==
  ASSUME OrderSafety, DepartInv, Orderly, NEW s \in Staff, ResolveReserve(s)
  PROVE  OpenOrder(order[task[s].order]) /\ order[task[s].order].status = "PAID"
<1>1. TaskStep(s) /\ OrderInv /\ (OneWayOut => WayOutInv)
  BY DEF TaskStep, OrderSafety
<1>2. LetIn(task[s]) /\ order[task[s].order] \in OrderRow
  BY <1>1, TaskEffect
<1>3. PICK o \in OrderIds : o = task[s].order
  BY <1>2 DEF LetIn
<1>4. /\ task[s].op = "resolve" /\ task[s].read.status = "PAID" /\ order[o] = FilledRow(task[s])
  BY <1>1, <1>3, ResolveReserveEffect
<1>5. order[o].status = "PAID"
  BY <1>2, <1>4, FilledRowFields DEF LetIn
<1>6. ByPullOnly /\ "cancel" \notin world.ops /\ WayOutInv
  BY <1>1, <1>2, <1>4 DEF LetIn, Orderly, ResolveAlone, ByPullOnly
<1>7. ~order[o].shipped
  BY <1>5, <1>6 DEF DepartInv, ShippedHasDeparted, Departed
<1>8. ~order[o].reverted
  BY <1>5, <1>6 DEF WayOutInv, ReleasedIsCancelled
<1> QED  BY <1>3, <1>5, <1>7, <1>8 DEF OpenOrder

\* The steps of the orders that move no stock.
Still ==
  /\ stock' = stock /\ rows' = rows
  /\ \A o \in OrderIds : order'[o].shipped = order[o].shipped
                         /\ order'[o].reverted = order[o].reverted

\* A step of the orders makes one movement or none.
LEMMA NextMoves ==
  ASSUME Sequential, OrderSafety, DepartInv, Next
  PROVE  \/ Still
         \/ /\ returns' = returns
            /\ \E o \in OrderIds : \E R, G, B :
                 StockMove(o, R, G, B) /\ (Orderly => StampsFit(o, R, G, B))
<1>0. OrderInv /\ Shape
  BY DEF OrderSafety, OrderInv
<1>1. CASE Outside \/ Crash \/ (\E s \in Staff : LoadStep(s) \/ ResolveMap(s))
  <2>1. order' = order /\ rows' = rows
    BY <1>0, <1>1, QuietSteps DEF Quiet
  <2>2. stock' = stock
    <3>1. CASE Outside \/ Crash
      BY SMTT(30), <3>1 DEF Outside, ChannelAdvance, ChannelCancelLine, MapListing, Crash, CrashPull, CrashTask
    <3>2. CASE \E s \in Staff : LoadStep(s) \/ ResolveMap(s)
      BY Zenon, <3>2 DEF LoadStep, LoadForShip, LoadForCancel, LoadForResolve, BeginTask, ResolveMap
    <3> QED  BY <1>1, <3>1, <3>2
  <2> QED  BY <2>1, <2>2 DEF Still
<1>2. ASSUME NEW p \in Pullers, StartPull(p)
      PROVE  Still
  BY <1>2 DEF StartPull, Still
<1>3. ASSUME NEW p \in Pullers, UpsertOrder(p)
      PROVE  Still
  <2>1. PICK o \in OrderIds : order' = [order EXCEPT ![o] = UpsertedRow(p, o)]
    BY <1>0, <1>3, UpsertEffect DEF OrderInv
  <2>2. \A q \in OrderIds : order'[q].shipped = order[q].shipped
                            /\ order'[q].reverted = order[q].reverted
    BY <1>0, <2>1, UpsertedRowFields DEF Shape
  <2> QED  BY <1>3, <2>2 DEF UpsertOrder, Still
<1>4. ASSUME NEW p \in Pullers, StageStep(p)
      PROVE  \/ Still
             \/ /\ returns' = returns
                /\ \E o \in OrderIds : \E R, G, B :
                     StockMove(o, R, G, B) /\ (Orderly => StampsFit(o, R, G, B))
  <2>1. CASE OpenReturn(p)
    BY <2>1 DEF OpenReturn, Still
  <2>2. CASE ~OpenReturn(p)
    <3>1. returns' = returns
      BY <1>4, <2>2 DEF StageStep, Reserve, ReserveDelta, Ship, Release
    <3>2. pull[p].current \in OrderIds
      BY <1>0, <1>4, StageEffect
    <3> QED  BY <1>0, <1>4, <2>2, <3>1, <3>2, StageMoves
  <2> QED  BY <2>1, <2>2
<1>5. ASSUME NEW s \in Staff, ResolveFill(s)
      PROVE  Still
  <2>1. TaskStep(s)
    BY <1>5 DEF TaskStep
  <2>2. task[s].order \in OrderIds /\ task[s] \in Task
    BY <1>0, <2>1, TaskEffect DEF LetIn
  <2>3. RowChanged(task[s].order, FilledRow(task[s])) /\ task[s].read = order[task[s].order]
    BY <1>0, <1>5, ResolveFillEffect
  <2>4. \A q \in OrderIds : order'[q].shipped = order[q].shipped
                            /\ order'[q].reverted = order[q].reverted
    BY <2>2, <2>3, FilledRowFields DEF RowChanged
  <2> QED  BY <1>5, <2>4 DEF ResolveFill, Still
<1>6. ASSUME NEW s \in Staff, MarkShipped(s) \/ Cancel(s) \/ ResolveReserve(s)
      PROVE  /\ returns' = returns
             /\ \E o \in OrderIds : \E R, G, B :
                  StockMove(o, R, G, B) /\ (Orderly => StampsFit(o, R, G, B))
  <2>1. TaskStep(s) /\ returns' = returns
    BY <1>6 DEF TaskStep, MarkShipped, Cancel, ResolveReserve
  <2>2. PICK o \in OrderIds : o = task[s].order
    BY <1>0, <2>1, TaskEffect DEF LetIn
  <2>3. ResolveReserve(s) /\ Orderly => OpenOrder(order[o]) /\ order[o].status = "PAID"
    BY <2>2, ResolveOpens
  <2>4. \/ \E R, G, B : StockMove(o, R, G, B) /\ StampsFit(o, R, G, B)
        \/ ~Orderly /\ \E R, G, B : StockMove(o, R, G, B)
    BY <1>0, <1>6, <2>2, <2>3, StaffMoves
  <2>5. \E R, G, B : StockMove(o, R, G, B) /\ (Orderly => StampsFit(o, R, G, B))
    BY <2>4
  <2> QED  BY <2>1, <2>5
<1> QED  BY <1>1, <1>2, <1>3, <1>4, <1>5, <1>6, NextCases

-----------------------------------------------------------------------------
(* The steps of the returns.                                               *)

HandlingRow == [op : {"none", "process", "reject"}, order : OrderIds \cup {NoOrder},
                read : ReturnRow]

\* Who works alone on a return goes on from what it still is.
HandlingFits ==
  \A h \in Handlers : handling[h].op # "none" =>
    /\ handling[h].read = returns[handling[h].order]
    /\ handling[h].read.status = "PENDING"
    /\ \A g \in Handlers : handling[g].order = handling[h].order => g = h

HandlingInv ==
  /\ handling \in [Handlers -> HandlingRow]
  /\ \A h \in Handlers : handling[h].op # "none" => handling[h].order \in OrderIds
  /\ ~HandleTogether => HandlingFits

LEMMA NotHandlingType == NotHandling \in HandlingRow /\ NotHandling.order = NoOrder
                         /\ NotHandling.op = "none"
BY NoReturnType DEF NotHandling, HandlingRow

\* A return is received: each of its lines comes back to available or damaged.
ReceiveMove(o, good, lines, variant) ==
  /\ good \subseteq lines /\ lines = Resolved(o, variant)
  /\ stock' = MovedLines(MovedLines(stock, "RETURN_RESTOCK", o, good, variant),
                         "RETURN_DAMAGED", o, lines \ good, variant)

LEMMA ReceiveEffect ==
  ASSUME Stocked(stock), NEW o \in OrderIds, NEW good, NEW lines, NEW variant,
         ReceiveMove(o, good, lines, variant)
  PROVE  /\ Stocked(stock')
         /\ \A v \in Variants :
              /\ stock'[v].reserved = stock[v].reserved
              /\ OnHand(stock'[v]) = OnHand(stock[v]) + UnitsOf(o, lines, variant, v)
<1> DEFINE bad == lines \ good  restocked == MovedLines(stock, "RETURN_RESTOCK", o, good, variant)
<1>1. /\ good \in SUBSET Listings /\ bad \in SUBSET Listings
      /\ good \cap bad = {} /\ good \cup bad = lines
  BY ResolvedLines DEF ReceiveMove, Lines
<1>2. /\ {"RETURN_RESTOCK", "RETURN_DAMAGED"} \subseteq LineKinds
      /\ {"RETURN_RESTOCK", "RETURN_DAMAGED"} \subseteq ReturnKinds
      /\ stock' = MovedLines(restocked, "RETURN_DAMAGED", o, bad, variant)
  BY DEF LineKinds, ReturnKinds, ReceiveMove
<1> HIDE DEF bad
<1>3. Stocked(restocked)
  BY <1>1, <1>2, MovedStocked
<1>4. \A v \in Variants :
        /\ restocked[v].reserved = stock[v].reserved
        /\ OnHand(restocked[v]) = OnHand(stock[v]) + UnitsOf(o, good, variant, v)
  BY <1>1, <1>2, MovedRow
<1> HIDE DEF restocked
<1>5. Stocked(stock')
  BY <1>1, <1>2, <1>3, MovedStocked
<1>6. \A v \in Variants :
        /\ stock'[v].reserved = restocked[v].reserved
        /\ OnHand(stock'[v]) = OnHand(restocked[v]) + UnitsOf(o, bad, variant, v)
  BY <1>1, <1>2, <1>3, MovedRow
<1>7. ASSUME NEW v \in Variants
      PROVE  OnHand(stock'[v]) = OnHand(stock[v]) + UnitsOf(o, lines, variant, v)
  <2>1. UnitsOf(o, lines, variant, v) = UnitsOf(o, good, variant, v) + UnitsOf(o, bad, variant, v)
    BY <1>1, UnitsJoin
  <2>2. /\ UnitsOf(o, good, variant, v) \in Nat /\ UnitsOf(o, bad, variant, v) \in Nat
        /\ OnHand(stock[v]) \in Int
    BY <1>1, UnitsType, RowFields DEF Stocked
  <2> QED  BY <1>4, <1>6, <2>1, <2>2
<1> QED  BY <1>4, <1>5, <1>6, <1>7

\* What a step of the returns does to the stock and to the returns.
LEMMA ReturnMoves ==
  ASSUME HandlingInv, [ReturnsNext]_returnVars
  PROVE  \/ Next
         \/ UNCHANGED orderVars /\ stock' = stock
         \/ UNCHANGED orderVars /\ \E h \in Handlers : ProcessReturn(h)
<1>1. CASE UNCHANGED returnVars
  BY <1>1 DEF returnVars, vars, orderVars
<1>2. CASE \E o \in OrderIds : CreateReturn(o)
  BY <1>2 DEF CreateReturn, orderVars
<1>3. ASSUME NEW h \in Handlers, ProcessReturn(h)
      PROVE  UNCHANGED orderVars
  BY <1>3 DEF ProcessReturn, orderVars
<1>4. CASE \E h \in Handlers : RejectReturn(h)
  BY <1>4 DEF RejectReturn, orderVars
<1>5. CASE \/ \E h \in Handlers : CrashHandling(h)
           \/ \E o \in OrderIds, h \in Handlers, op \in {"process", "reject"} : OpenHandling(h, o, op)
  BY <1>5 DEF CrashHandling, OpenHandling, vars, orderVars
<1> QED  BY <1>1, <1>2, <1>3, <1>4, <1>5 DEF ReturnsNext

LEMMA ProcessMove ==
  ASSUME HandlingInv, NEW h \in Handlers, ProcessReturn(h)
  PROVE  /\ handling[h].order \in OrderIds
         /\ returns' = [returns EXCEPT ![handling[h].order].status = "RECEIVED"]
         /\ \E good, lines :
              ReceiveMove(handling[h].order, good, lines, handling[h].read.variant)
<1>1. PICK good \in SUBSET Resolved(handling[h].order, handling[h].read.variant) :
        stock' = MovedLines(MovedLines(stock, "RETURN_RESTOCK", handling[h].order, good,
                                       handling[h].read.variant),
                            "RETURN_DAMAGED", handling[h].order,
                            Resolved(handling[h].order, handling[h].read.variant) \ good,
                            handling[h].read.variant)
  BY DEF ProcessReturn
<1>2. ReceiveMove(handling[h].order, good,
                  Resolved(handling[h].order, handling[h].read.variant), handling[h].read.variant)
  BY <1>1 DEF ReceiveMove
<1>3. handling[h].op # "none" /\ returns' = [returns EXCEPT ![handling[h].order].status = "RECEIVED"]
  BY DEF ProcessReturn
<1> QED  BY <1>2, <1>3 DEF HandlingInv

LEMMA InitHandling == ReturnsInit => HandlingInv
BY NotHandlingType DEF ReturnsInit, HandlingInv, HandlingFits

\* A pending return changes only when it is handled.
LEMMA PendingStays ==
  ASSUME ReturnInv, NEW o \in OrderIds, returns' \in {returns, WithReturn(o)}
  PROVE  \A q \in OrderIds : returns[q].status = "PENDING" => returns'[q] = returns[q]
<1>1. NoReturn.status # "PENDING"
  BY DEF NoReturn
<1> QED  BY <1>1 DEF WithReturn, ReturnInv

\* The returns after a step of the orders, and after a return is asked for.
ReturnsOpened == \E o \in OrderIds : returns' \in {returns, WithReturn(o)}

LEMMA NextReturns ==
  ASSUME OrderInv, Next
  PROVE  returns' = returns \/ ReturnsOpened
<1>1. ASSUME NEW p \in Pullers, OpenReturn(p)
      PROVE  ReturnsOpened
  <2>1. pull[p].current \in OrderIds
    BY SMTT(30), <1>1, StageEffect DEF StageStep
  <2> QED  BY <1>1, <2>1 DEF OpenReturn, ReturnsOpened
<1>2. ASSUME \A p \in Pullers : ~OpenReturn(p)
      PROVE  returns' = returns
  BY ZenonT(60), <1>2 DEF Next, LoadStep, LoadForShip, LoadForCancel, LoadForResolve, BeginTask,
       MarkShipped, Cancel, ResolveMap, ResolveFill, ResolveReserve, CrashTask, StartPull,
       UpsertOrder, Reserve, ReserveDelta, Ship, Release, CrashPull, MapListing,
       ChannelAdvance, ChannelCancelLine
<1> QED  BY <1>1, <1>2

LEMMA HandlingStep ==
  ASSUME OrderInv, ReturnInv, HandlingInv, [ReturnsNext]_returnVars
  PROVE  HandlingInv'
<1> USE DEF HandlingInv
<1>1. ASSUME handling' = handling,
             \A o \in OrderIds : returns[o].status = "PENDING" => returns'[o] = returns[o]
      PROVE  HandlingInv'
  <2>1. ASSUME ~HandleTogether
        PROVE  HandlingFits'
    <3>1. HandlingFits
      BY <2>1
    <3> QED  BY <1>1, <3>1 DEF HandlingFits
  <2> QED  BY <1>1, <2>1
<1>2. ASSUME NEW h \in Handlers, handling' = [handling EXCEPT ![h] = NotHandling],
             \A o \in OrderIds : returns'[o] = returns[o] \/ o = handling[h].order
      PROVE  HandlingInv'
  <2>1. /\ handling'[h] = NotHandling /\ \A g \in Handlers : g # h => handling'[g] = handling[g]
        /\ handling' \in [Handlers -> HandlingRow]
    BY <1>2, NotHandlingType
  <2>2. ASSUME ~HandleTogether
        PROVE  HandlingFits'
    <3>1. HandlingFits
      BY <2>2
    <3> SUFFICES ASSUME NEW g \in Handlers, handling'[g].op # "none"
                 PROVE  /\ handling'[g].read = returns'[handling'[g].order]
                        /\ handling'[g].read.status = "PENDING"
                        /\ \A k \in Handlers : handling'[k].order = handling'[g].order => k = g
      BY DEF HandlingFits
    <3>2. g # h /\ handling'[g] = handling[g] /\ handling[g].order \in OrderIds
      BY <2>1, NotHandlingType
    <3>3. handling[h].order # handling[g].order
      BY <3>1, <3>2 DEF HandlingFits
    <3>4. returns'[handling[g].order] = returns[handling[g].order]
      BY <1>2, <3>2, <3>3
    <3>5. \A k \in Handlers : handling'[k].order = handling'[g].order => k = g
      BY <2>1, <3>1, <3>2, NotHandlingType, OrdersAssumption DEF HandlingFits
    <3> QED  BY <3>1, <3>2, <3>4, <3>5 DEF HandlingFits
  <2>3. \A g \in Handlers : handling'[g].op # "none" => handling'[g].order \in OrderIds
    BY <2>1, NotHandlingType
  <2> QED  BY <2>1, <2>2, <2>3
<1>3. CASE UNCHANGED returnVars
  BY <1>1, <1>3 DEF returnVars, vars
<1>4. CASE Next /\ handling' = handling
  BY <1>1, <1>4, NextReturns, PendingStays DEF ReturnsOpened
<1>5. ASSUME NEW o \in OrderIds, CreateReturn(o)
      PROVE  HandlingInv'
  BY <1>1, <1>5, PendingStays DEF CreateReturn
<1>6. ASSUME NEW o \in OrderIds, NEW h \in Handlers, NEW op \in {"process", "reject"},
             OpenHandling(h, o, op)
      PROVE  HandlingInv'
  <2> DEFINE row == [op |-> op, order |-> o, read |-> returns[o]]
  <2>1. row \in HandlingRow /\ row.order = o /\ row.op # "none" /\ row.read = returns[o]
    BY DEF HandlingRow, ReturnInv
  <2>2. handling' = [handling EXCEPT ![h] = row] /\ returns' = returns
    BY <1>6 DEF OpenHandling, vars
  <2> HIDE DEF row
  <2>3. /\ handling'[h] = row /\ \A g \in Handlers : g # h => handling'[g] = handling[g]
        /\ handling' \in [Handlers -> HandlingRow]
    BY <2>1, <2>2
  <2>4. ASSUME ~HandleTogether
        PROVE  HandlingFits'
    <3>1. HandlingFits /\ (\A g \in Handlers : handling[g].order # o) /\ returns[o].status = "PENDING"
      BY <1>6, <2>4 DEF OpenHandling, Pending
    <3> QED  BY <2>1, <2>2, <2>3, <3>1 DEF HandlingFits
  <2>5. \A g \in Handlers : handling'[g].op # "none" => handling'[g].order \in OrderIds
    BY <2>1, <2>3
  <2> QED  BY <2>3, <2>4, <2>5
<1>7. ASSUME NEW h \in Handlers, ProcessReturn(h) \/ RejectReturn(h)
      PROVE  HandlingInv'
  <2>1. handling' = [handling EXCEPT ![h] = NotHandling]
    BY <1>7 DEF ProcessReturn, RejectReturn, Handled
  <2>2. \E status : returns' = [returns EXCEPT ![handling[h].order].status = status]
    BY <1>7 DEF ProcessReturn, RejectReturn
  <2>3. \A o \in OrderIds : returns'[o] = returns[o] \/ o = handling[h].order
    BY <2>2 DEF ReturnInv
  <2> QED  BY <1>2, <2>1, <2>3
<1>8. ASSUME NEW h \in Handlers, CrashHandling(h)
      PROVE  HandlingInv'
  BY <1>2, <1>8 DEF CrashHandling, Handled, vars
<1> QED  BY <1>3, <1>4, <1>5, <1>6, <1>7, <1>8 DEF ReturnsNext

-----------------------------------------------------------------------------
(* The reserved bucket.                                                    *)

StockInv ==
  Stocked(stock) /\ DepartInv /\ (Orderly => ReservedIsOwed /\ GoneHoldNothing)

LEMMA InitStock == Init => StockInv
<1> SUFFICES ASSUME Init  PROVE StockInv
  OBVIOUS
<1>1. EmptyRow \in Row /\ EmptyRow.reserved = 0
  BY DEF EmptyRow, Row
<1>2. Stocked(stock) /\ \A v \in Variants : stock[v].reserved = 0
  BY <1>1, OrdersAssumption DEF Init, Stocked, EmptyRow, Row
<1>3. \A o \in OrderIds : Outstanding(o) = {}
  <2>1. \A o \in OrderIds, l \in Listings :
          rows[o][l].RESERVE = 0 /\ rows[o][l].SHIP = 0 /\ rows[o][l].RELEASE = 0
    BY DEF Init
  <2> QED  BY <2>1 DEF Outstanding, Lines
<1>4. ReservedIsOwed
  <2> SUFFICES ASSUME NEW v \in Variants
               PROVE  stock[v].reserved = SumFunction([o \in OrderIds |-> Owed(o, v)])
    BY DEF ReservedIsOwed
  <2> DEFINE owed == [o \in OrderIds |-> Owed(o, v)]
  <2>1. DOMAIN owed = OrderIds /\ \A o \in OrderIds : owed[o] = 0
    BY <1>3, UnitsNone DEF Owed
  <2> HIDE DEF owed
  <2>2. SumFunction(owed) = 0
    BY <2>1, FinitelyMany, SumZero DEF SumFunction
  <2> QED  BY <1>2, <2>2 DEF owed
<1>5. DepartInv
  <2>1. \A p \in Pullers : pull[p] = NoPull
    BY DEF Init
  <2>2. \A o \in OrderIds : order[o].status = "PENDING" /\ ~order[o].shipped
    BY SMTT(30) DEF Init, NewOrder
  <2> QED  BY <2>1, <2>2, NoPullFields DEF DepartInv, DueHasDeparted, ShippedHasDeparted, Departed
<1> QED  BY <1>2, <1>3, <1>4, <1>5 DEF StockInv, GoneHoldNothing

\* The scenario does not change, so neither do the conditions on it.
LEMMA WorldStays ==
  ASSUME Next \/ UNCHANGED orderVars
  PROVE  world' = world
BY ZenonT(60) DEF Next, LoadStep, LoadForShip, LoadForCancel, LoadForResolve, BeginTask,
       MarkShipped, Cancel, ResolveMap, ResolveFill, ResolveReserve, CrashTask, StartPull,
       UpsertOrder, Reserve, ReserveDelta, Ship, Release, OpenReturn, CrashPull, MapListing,
       ChannelAdvance, ChannelCancelLine, orderVars

\* Reserved units and the lines that hold them stay as they are.
LEMMA OwedStays ==
  ASSUME Stocked(stock), ReservedIsOwed, GoneHoldNothing, rows' = rows,
         \A v \in Variants : stock'[v].reserved = stock[v].reserved,
         \A o \in OrderIds : /\ order'[o].shipped = order[o].shipped
                             /\ order'[o].reverted = order[o].reverted
                             /\ \A l \in Outstanding(o) :
                                  order'[o].variant[l] = order[o].variant[l]
  PROVE  ReservedIsOwed' /\ GoneHoldNothing'
<1>1. \A o \in OrderIds : Outstanding(o)' = Outstanding(o)
  BY DEF Outstanding, Lines
<1>2. ASSUME NEW v \in Variants
      PROVE  stock'[v].reserved = SumFunction([o \in OrderIds |-> Owed(o, v)'])
  <2>1. \A o \in OrderIds : Owed(o, v)' = Owed(o, v)
    <3> SUFFICES ASSUME NEW o \in OrderIds
                 PROVE  Owed(o, v)' = Owed(o, v)
      OBVIOUS
    <3>1. Owed(o, v)' = UnitsOf(o, Outstanding(o), order'[o].variant, v)
      BY <1>1 DEF Owed
    <3> QED  BY <3>1, UnitsSame DEF Owed
  <2>2. [o \in OrderIds |-> Owed(o, v)'] = [o \in OrderIds |-> Owed(o, v)]
    BY <2>1
  <2> QED  BY <2>2 DEF ReservedIsOwed
<1>3. ReservedIsOwed'
  BY <1>2 DEF ReservedIsOwed
<1> QED  BY <1>1, <1>3 DEF GoneHoldNothing

LEMMA StockStep ==
  ASSUME Sequential, OrderSafety, HandlingInv, StockInv, [ReturnsNext]_returnVars
  PROVE  StockInv'
<1>0. /\ Stocked(stock) /\ DepartInv /\ OrderInv /\ Shape
      /\ (Next \/ UNCHANGED orderVars) /\ OrderSafety' /\ Shape'
  <2>1. (Next \/ UNCHANGED orderVars) /\ OrderSafety'
    BY ReturnsFrame, SafetyStep
  <2> QED  BY <2>1 DEF StockInv, OrderSafety, OrderInv
<1>1. DepartInv' /\ world' = world
  BY <1>0, DepartStep, WorldStays
<1>2. Orderly' <=> Orderly
  BY <1>1 DEF Orderly, OneWayOut, ResolveAlone, FixedLines, Undisturbed
<1>3. ASSUME Orderly
      PROVE  /\ Around /\ EachStageOnce' /\ ReservedOnce /\ GoneHoldNothing
             /\ ReservedIsOwed /\ WayOutInv
  <2>1. OneWayOut /\ OneWayOut' /\ (FixedLines \/ Undisturbed) /\ (FixedLines \/ Undisturbed)'
    BY <1>1, <1>3 DEF Orderly, OneWayOut, FixedLines, Undisturbed
  <2>2. StageInv /\ StageInv' /\ WayOutInv
    BY <1>0, <2>1 DEF OrderSafety
  <2>3. EachStageOnce /\ EachStageOnce'
    BY <2>1, <2>2 DEF StageInv
  <2> QED  BY <1>0, <1>3, <2>2, <2>3 DEF Around, StockInv, OrderInv
<1>4. CASE Next
  <2>1. CASE Still
    <3>1. ASSUME Orderly
          PROVE  ReservedIsOwed' /\ GoneHoldNothing'
      <4>1. \A o \in OrderIds : \A l \in Outstanding(o) : order'[o].variant[l] = order[o].variant[l]
        BY <1>0, <1>4, FrozenStep DEF Outstanding, Lines
      <4> QED  BY <1>3, <2>1, <3>1, <4>1, OwedStays DEF Still, Around
    <3> QED  BY <1>0, <1>1, <1>2, <2>1, <3>1 DEF Still, StockInv
  <2>2. ASSUME NEW o \in OrderIds, NEW R, NEW G, NEW B,
               StockMove(o, R, G, B) /\ (Orderly => StampsFit(o, R, G, B))
        PROVE  StockInv'
    <3>1. Stocked(stock')
      BY <1>0, <2>2, StockMoveStocked
    <3>2. ASSUME Orderly
          PROVE  ReservedIsOwed' /\ GoneHoldNothing'
      BY <1>3, <2>2, <3>2, StockMoveEffect, StockMoveGone
    <3> QED  BY <1>1, <1>2, <3>1, <3>2 DEF StockInv
  <2> QED  BY <1>0, <1>4, <2>1, <2>2, NextMoves
<1>5. CASE UNCHANGED orderVars /\ (stock' = stock \/ \E h \in Handlers : ProcessReturn(h))
  <2>1. Stocked(stock') /\ \A v \in Variants : stock'[v].reserved = stock[v].reserved
    <3>1. ASSUME NEW h \in Handlers, ProcessReturn(h)
          PROVE  Stocked(stock') /\ \A v \in Variants : stock'[v].reserved = stock[v].reserved
      BY <1>0, <3>1, ProcessMove, ReceiveEffect
    <3> QED  BY <1>0, <1>5, <3>1
  <2>2. ASSUME Orderly
        PROVE  ReservedIsOwed' /\ GoneHoldNothing'
    <3>1. rows' = rows /\ order' = order
      BY <1>5 DEF orderVars
    <3> QED  BY <1>0, <1>3, <2>1, <2>2, <3>1, OwedStays
  <2> QED  BY <1>1, <1>2, <2>1, <2>2 DEF StockInv
<1> QED  BY <1>4, <1>5, ReturnMoves

\* With no operation under way, an order holds what its lines do.
LEMMA HeldIsOwed ==
  ASSUME OrderSafety, StockInv, Orderly, Idle, NEW o \in OrderIds, NEW v \in Variants
  PROVE  HeldUnits(o, v) = Owed(o, v)
<1>1. /\ WayOutInv /\ StageInv /\ ReservedOnce /\ Shape /\ (FixedLines \/ Undisturbed)
      /\ GoneHoldNothing
  BY DEF OrderSafety, OrderInv, Orderly, StockInv
<1>2. /\ \A p \in Pullers : pull[p].due = {}
      /\ \A s \in Staff : task[s].step # 3
  BY NoPullFields, NoTaskFields DEF Idle, PullIdle
<1>3. \A l \in Listings : /\ rows[o][l].RESERVE \in Nat /\ rows[o][l].SHIP \in Nat
                          /\ rows[o][l].RELEASE \in Nat
  BY <1>1, NaturalRows
<1>4. ASSUME NEW l \in Outstanding(o)
      PROVE  order[o].applied /\ l \in Resolved(o, order[o].variant)
  <2>1. l \in Listings /\ rows[o][l].RESERVE > 0
    BY <1>3 DEF Outstanding, Lines
  <2> QED  BY <1>1, <2>1 DEF ReservedOnce
<1>5. CASE Held(o)
  <2>1. ASSUME NEW l \in Resolved(o, order[o].variant)
        PROVE  l \in Outstanding(o)
    <3>1. l \in Lines(o) /\ l \in Listings
      BY DEF Resolved, Lines
    <3>2. rows[o][l].RESERVE = 1
      BY <1>1, <1>2, <1>5, QuietHeld
    <3>3. ~(rows[o][l].SHIP + rows[o][l].RELEASE > 0)
      BY <1>1, <1>5, <3>1 DEF Held, WayOutInv, LeftIsStamped
    <3>4. rows[o][l].RESERVE > rows[o][l].SHIP + rows[o][l].RELEASE
      BY <1>3, <3>1, <3>2, <3>3
    <3> QED  BY <3>1, <3>4 DEF Outstanding
  <2>2. Outstanding(o) = Resolved(o, order[o].variant)
    BY <1>4, <2>1
  <2>3. {l \in Lines(o) : order[o].variant[l] = v} = {l \in Outstanding(o) : order[o].variant[l] = v}
    BY <2>2, OrdersAssumption DEF Resolved
  <2> QED  BY <1>5, <2>3 DEF HeldUnits, Owed, UnitsOf
<1>6. CASE ~Held(o)
  <2>1. Outstanding(o) = {}
    BY <1>1, <1>4, <1>6 DEF Held, GoneHoldNothing
  <2>2. Owed(o, v) = 0
    BY <2>1, UnitsNone DEF Owed
  <2> QED  BY <1>6, <2>2 DEF HeldUnits
<1> QED  BY <1>5, <1>6

LEMMA OwedIsHeld ==
  ASSUME OrderSafety, StockInv, Orderly
  PROVE  ReservedMatchesOrders
<1> SUFFICES ASSUME Idle, NEW v \in Variants
             PROVE  stock[v].reserved = SumFunction([o \in OrderIds |-> HeldUnits(o, v)])
  BY DEF ReservedMatchesOrders
<1>1. [o \in OrderIds |-> HeldUnits(o, v)] = [o \in OrderIds |-> Owed(o, v)]
  BY HeldIsOwed
<1>2. stock[v].reserved = SumFunction([o \in OrderIds |-> Owed(o, v)])
  BY DEF StockInv, ReservedIsOwed
<1> QED  BY <1>1, <1>2

-----------------------------------------------------------------------------
(* What is on hand.                                                        *)

\* The lines of a received return, and the lines that are away.
Back(o) == {l \in Listings : returns[o].status = "RECEIVED" /\ returns[o].variant[l] # Unmapped}
Away(o) == {l \in Lines(o) : rows[o][l].SHIP > 0} \ Back(o)

AwayUnits(o, v) == UnitsOf(o, Away(o), FixedVariant(o), v)

\* Whole orders leave one way, and one member of the staff handles a return.
WholeHandling == WholeReturns /\ OneWayOut /\ ~HandleTogether

\* A return holds the variants its order has from the start.
ReturnsFixed ==
  \A o \in OrderIds, l \in Listings : returns[o].variant[l] \in {Unmapped, FixedVariant(o)[l]}

NothingAppears ==
  \A v \in Variants :
    OnHand(stock[v]) + SumFunction([o \in OrderIds |-> AwayUnits(o, v)]) = InitialStock

OnHandInv == WholeHandling => ReturnsFixed /\ NothingAppears

LEMMA AwayLines == \A o \in OrderIds : Away(o) \subseteq Listings /\ Away(o) \subseteq Lines(o)
BY DEF Away, Lines

LEMMA AwayType ==
  ASSUME NEW o \in OrderIds, NEW v
  PROVE  AwayUnits(o, v) \in Nat
BY AwayLines, UnitsType DEF AwayUnits

\* One order's lines go or come, and what is on hand with them.
LEMMA OnHandFollows ==
  ASSUME Stocked(stock), NothingAppears, world' = world, NEW o \in OrderIds,
         \A q \in OrderIds : q # o => Away(q)' = Away(q),
         \A v \in Variants :
           OnHand(stock'[v]) = OnHand(stock[v]) + AwayUnits(o, v) - AwayUnits(o, v)'
  PROVE  NothingAppears'
<1> SUFFICES ASSUME NEW v \in Variants
             PROVE  OnHand(stock'[v]) + SumFunction([q \in OrderIds |-> AwayUnits(q, v)'])
                      = InitialStock
  BY DEF NothingAppears, OnHand
<1> DEFINE away == [q \in OrderIds |-> AwayUnits(q, v)]
           next == [q \in OrderIds |-> AwayUnits(q, v)']
<1>1. away \in [OrderIds -> Int] /\ away[o] = AwayUnits(o, v)
  BY AwayType
<1>2. \A q \in OrderIds : FixedVariant(q)' = FixedVariant(q)
  BY DEF FixedVariant
<1>3. \A q \in OrderIds : AwayUnits(q, v)' = UnitsOf(q, Away(q)', FixedVariant(q), v)
  BY <1>2 DEF AwayUnits
<1>4. \A q \in OrderIds : AwayUnits(q, v)' \in Nat
  <2>1. \A q \in OrderIds : Away(q)' \in SUBSET Listings
    BY DEF Away, Lines
  <2> QED  BY <1>3, <2>1, UnitsType
<1>5. next \in [OrderIds -> Int] /\ next[o] = AwayUnits(o, v)'
  BY <1>4
<1>6. \A q \in OrderIds \ {o} : next[q] = away[q]
  BY <1>3 DEF AwayUnits
<1>7. OnHand(stock[v]) + SumFunction(away) = InitialStock
  BY DEF NothingAppears
<1>8. OnHand(stock[v]) \in Int
  BY RowFields DEF Stocked
<1> HIDE DEF away, next
<1>9. SumFunction(away) \in Int /\ SumFunction(next) = SumFunction(away) - away[o] + next[o]
  BY <1>1, <1>5, <1>6, FinitelyMany, TotalChange
<1>10. OnHand(stock'[v]) = OnHand(stock[v]) + away[o] - next[o] /\ away[o] \in Int /\ next[o] \in Int
  BY <1>1, <1>5
<1>11. OnHand(stock'[v]) + SumFunction(next) = InitialStock
  BY <1>7, <1>8, <1>9, <1>10
<1> QED  BY <1>11 DEF next

\* Lines that ship go from the warehouse to the lines that are away.
LEMMA ShippedGoAway ==
  ASSUME OrderSafety, OrderSafety', StockInv, ReturnInv, WholeHandling, NothingAppears,
         world' = world, returns' = returns,
         NEW o \in OrderIds, NEW R, NEW G, NEW B, StockMove(o, R, G, B)
  PROVE  NothingAppears'
<1>1. OneWayOut /\ OneWayOut' /\ FixedLines /\ FixedLines' /\ Orderly /\ WholeReturns
  BY DEF WholeHandling, WholeReturns, OneWayOut, FixedLines, Orderly, ResolveAlone
<1>2. /\ Around /\ ReservedOnce /\ StampsInOrder
      /\ LinesStayFixed /\ ReturnedShipped
  <2>1. StageInv /\ StageInv' /\ OrderInv /\ OrderInv' /\ LinesStayFixed
    BY <1>1 DEF OrderSafety
  <2>2. EachStageOnce /\ EachStageOnce'
    BY <1>1, <2>1 DEF StageInv
  <2> QED  BY <1>1, <2>1, <2>2 DEF Around, OrderInv, StockInv, ReturnInv
<1>3. LinesMove(o, R, G, B)
  BY DEF StockMove
<1>4. G \subseteq Outstanding(o) /\ G \in SUBSET Listings /\ G \subseteq Lines(o)
  <2>1. G \cup B \subseteq Outstanding(o)
    BY <1>2, <1>3, OutstandingChange DEF Around
  <2> QED  BY <2>1, OutstandingLines DEF Outstanding
<1>5. ASSUME NEW l \in G
      PROVE  rows[o][l].SHIP = 0 /\ rows'[o][l].SHIP > 0 /\ l \notin Back(o) /\ order[o].saved
  <2>1. l \in Listings /\ rows[o][l].RESERVE > rows[o][l].SHIP + rows[o][l].RELEASE
    BY <1>4 DEF Outstanding
  <2>2. /\ rows[o][l].RESERVE \in Nat /\ rows[o][l].SHIP \in Nat /\ rows[o][l].RELEASE \in Nat
        /\ rows[o][l].RESERVE <= 1
    BY <1>2, <2>1, NaturalRows DEF Around, EachStageOnce
  <2>3. rows[o][l].SHIP = 0 /\ rows[o][l].RESERVE > 0
    <3> DEFINE r == rows[o][l].RESERVE  s == rows[o][l].SHIP  e == rows[o][l].RELEASE
    <3>1. r \in Nat /\ s \in Nat /\ e \in Nat /\ r <= 1 /\ r > s + e
      BY <2>1, <2>2
    <3> HIDE DEF r, s, e
    <3>2. s = 0 /\ r > 0
      BY <3>1
    <3> QED  BY <3>2 DEF r, s
  <2>4. rows'[o][l].SHIP = rows[o][l].SHIP + 1
    BY <1>3, <2>1 DEF LinesMove
  <2>5. order[o].saved
    BY <1>2, <2>1, <2>3 DEF ReservedOnce, StampsInOrder
  <2>6. l \notin Back(o)
    BY <1>2, <2>1, <2>3 DEF ReturnedShipped, Back
  <2> QED  BY <2>3, <2>4, <2>5, <2>6
<1>6. \A q \in OrderIds : Back(q)' = Back(q)
  BY DEF Back
<1>7. Away(o)' = Away(o) \cup G /\ Away(o) \cap G = {}
  <2>1. ASSUME NEW l \in Lines(o), l \notin G
        PROVE  rows'[o][l].SHIP = rows[o][l].SHIP
    BY <1>3, <2>1 DEF LinesMove, Lines
  <2>2. \A l \in Lines(o) : rows'[o][l].SHIP > 0 <=> rows[o][l].SHIP > 0 \/ l \in G
    BY <1>5, <2>1
  <2>3. {l \in Lines(o) : rows'[o][l].SHIP > 0} = {l \in Lines(o) : rows[o][l].SHIP > 0} \cup G
    BY <1>4, <2>2
  <2>4. Away(o)' = {l \in Lines(o) : rows'[o][l].SHIP > 0} \ Back(o)
    BY <1>6 DEF Away, Lines
  <2> QED  BY <1>5, <2>3, <2>4 DEF Away
<1>8. \A q \in OrderIds : q # o => Away(q)' = Away(q)
  BY <1>3, <1>6 DEF LinesMove, Away, Lines
<1>9. ASSUME NEW v \in Variants
      PROVE  OnHand(stock'[v]) = OnHand(stock[v]) + AwayUnits(o, v) - AwayUnits(o, v)'
  <2> DEFINE gone == UnitsOf(o, G, FixedVariant(o), v)
  <2>1. UnitsOf(o, G, order[o].variant, v) = gone
    <3>1. \A l \in G : order[o].variant[l] = FixedVariant(o)[l]
      BY <1>1, <1>2, <1>5 DEF LinesStayFixed
    <3> QED  BY <3>1, UnitsSame
  <2>2. AwayUnits(o, v)' = UnitsOf(o, Away(o) \cup G, FixedVariant(o), v)
    BY <1>7 DEF AwayUnits, FixedVariant
  <2>3. UnitsOf(o, Away(o) \cup G, FixedVariant(o), v) = AwayUnits(o, v) + gone
    BY <1>4, <1>7, AwayLines, UnitsJoin DEF AwayUnits
  <2>4. AwayUnits(o, v) \in Int /\ gone \in Int
    BY <1>4, AwayType, UnitsType
  <2>5. OnHand(stock'[v]) = OnHand(stock[v]) - UnitsOf(o, G, order[o].variant, v)
    BY <1>2, StockMoveEffect
  <2>6. OnHand(stock[v]) \in Int
    BY RowFields DEF StockInv, Stocked
  <2> HIDE DEF gone
  <2> QED  BY <2>1, <2>2, <2>3, <2>4, <2>5, <2>6
<1> QED  BY <1>8, <1>9, OnHandFollows DEF StockInv

\* What a received return brings back had been away.
LEMMA ReceivedComeBack ==
  ASSUME OrderSafety, StockInv, ReturnInv, HandlingInv, WholeHandling, ReturnsFixed,
         NothingAppears, UNCHANGED orderVars, NEW h \in Handlers, ProcessReturn(h)
  PROVE  NothingAppears'
<1>1. PICK o \in OrderIds : o = handling[h].order
  BY ProcessMove
<1>2. /\ handling[h].read = returns[o] /\ returns[o].status = "PENDING"
      /\ returns \in [OrderIds -> ReturnRow] /\ ReturnedShipped
  <2>1. handling[h].op # "none"
    BY DEF ProcessReturn
  <2>2. ~HandleTogether /\ WholeReturns
    BY DEF WholeHandling
  <2> QED  BY <1>1, <2>1, <2>2 DEF HandlingInv, HandlingFits, ReturnInv
<1> DEFINE variant == returns[o].variant
<1>3. PICK good, lines : ReceiveMove(o, good, lines, variant)
  <2>1. \E good, lines :
          ReceiveMove(handling[h].order, good, lines, handling[h].read.variant)
    BY ProcessMove
  <2>2. handling[h].read.variant = variant
    BY <1>2
  <2> HIDE DEF variant
  <2> QED  BY <1>1, <2>1, <2>2, Zenon
<1>4. /\ returns'[o].status = "RECEIVED" /\ returns'[o].variant = variant
      /\ \A q \in OrderIds : q # o => returns'[q] = returns[q]
  <2>1. returns' = [returns EXCEPT ![o].status = "RECEIVED"]
    BY <1>1, ProcessMove
  <2> QED  BY <1>2, <2>1 DEF ReturnRow
<1>5. lines = Resolved(o, variant) /\ lines \in SUBSET Listings /\ lines \subseteq Lines(o)
  BY <1>3 DEF ReceiveMove, Resolved, Lines
<1>6. rows' = rows /\ world' = world
  BY DEF orderVars
<1>7. \A q \in OrderIds : q # o => Away(q)' = Away(q)
  BY <1>4, <1>6 DEF Away, Back, Lines
<1>8. Away(o) = Away(o)' \cup lines /\ Away(o)' \cap lines = {}
  <2> DEFINE gone == {l \in Lines(o) : rows[o][l].SHIP > 0}
             back == {l \in Listings : variant[l] # Unmapped}
  <2>1. Back(o) = {} /\ Back(o)' = back
    BY <1>2, <1>4 DEF Back
  <2>2. Away(o) = gone /\ Away(o)' = gone \ back
    BY <1>6, <2>1 DEF Away, Lines
  <2>3. lines = Lines(o) \cap back
    BY <1>5 DEF Resolved, Lines
  <2>4. back \cap Lines(o) \subseteq gone
    BY <1>2 DEF ReturnedShipped
  <2>5. gone \subseteq Lines(o)
    OBVIOUS
  <2> HIDE DEF gone, back
  <2> QED  BY <2>2, <2>3, <2>4, <2>5
<1>9. ASSUME NEW v \in Variants
      PROVE  OnHand(stock'[v]) = OnHand(stock[v]) + AwayUnits(o, v) - AwayUnits(o, v)'
  <2> DEFINE came == UnitsOf(o, lines, FixedVariant(o), v)
  <2>1. UnitsOf(o, lines, variant, v) = came
    <3>1. \A l \in lines : variant[l] = FixedVariant(o)[l]
      BY <1>5 DEF ReturnsFixed, Resolved
    <3> QED  BY <3>1, UnitsSame
  <2>2. Away(o)' \in SUBSET Listings
    BY DEF Away, Lines
  <2>3. AwayUnits(o, v)' = UnitsOf(o, Away(o)', FixedVariant(o), v)
    BY <1>6 DEF AwayUnits, FixedVariant
  <2>4. AwayUnits(o, v) = UnitsOf(o, Away(o)' \cup lines, FixedVariant(o), v)
    BY <1>8 DEF AwayUnits
  <2>5. UnitsOf(o, Away(o)' \cup lines, FixedVariant(o), v)
          = UnitsOf(o, Away(o)', FixedVariant(o), v) + came
    BY <1>5, <1>8, <2>2, UnitsJoin
  <2>6. UnitsOf(o, Away(o)', FixedVariant(o), v) \in Int /\ came \in Int
    BY <1>5, <2>2, UnitsType
  <2>7. OnHand(stock'[v]) = OnHand(stock[v]) + UnitsOf(o, lines, variant, v)
    BY <1>3, ReceiveEffect DEF StockInv
  <2>8. OnHand(stock[v]) \in Int
    BY RowFields DEF StockInv, Stocked
  <2> HIDE DEF came
  <2> QED  BY <2>1, <2>3, <2>4, <2>5, <2>6, <2>7, <2>8
<1> QED  BY <1>6, <1>7, <1>9, OnHandFollows DEF StockInv

\* Nothing leaves and nothing comes back.
LEMMA OnHandStays ==
  ASSUME NothingAppears, world' = world, stock' = stock,
         \A o \in OrderIds : Away(o)' = Away(o)
  PROVE  NothingAppears'
<1> SUFFICES ASSUME NEW v \in Variants
             PROVE  OnHand(stock[v]) + SumFunction([o \in OrderIds |-> AwayUnits(o, v)'])
                      = InitialStock
  BY DEF NothingAppears, OnHand
<1>1. \A o \in OrderIds : AwayUnits(o, v)' = AwayUnits(o, v)
  BY DEF AwayUnits, FixedVariant
<1>2. [o \in OrderIds |-> AwayUnits(o, v)'] = [o \in OrderIds |-> AwayUnits(o, v)]
  BY <1>1
<1> QED  BY <1>2 DEF NothingAppears

\* A return is opened, received or rejected; only then does it change.
LEMMA ReturnCases ==
  ASSUME OrderInv, [ReturnsNext]_returnVars
  PROVE  \/ returns' = returns \/ ReturnsOpened
         \/ \E h \in Handlers : ProcessReturn(h) \/ RejectReturn(h)
<1>1. CASE UNCHANGED returnVars
  BY <1>1 DEF returnVars, vars
<1>2. CASE \E o \in OrderIds : CreateReturn(o)
  BY <1>2 DEF CreateReturn, ReturnsOpened
<1>3. CASE \/ \E h \in Handlers : CrashHandling(h)
           \/ \E o \in OrderIds, h \in Handlers, op \in {"process", "reject"} : OpenHandling(h, o, op)
  BY <1>3 DEF CrashHandling, OpenHandling, vars
<1> QED  BY <1>1, <1>2, <1>3, NextReturns DEF ReturnsNext

\* An opened return has come back no more than before.
LEMMA OpenedStaysAway ==
  ASSUME ReturnInv, ReturnsOpened
  PROVE  \A q \in OrderIds : Back(q)' = Back(q)
<1>1. NoReturn.status # "RECEIVED"
  BY DEF NoReturn
<1>2. PICK o \in OrderIds : returns' \in {returns, WithReturn(o)}
  BY DEF ReturnsOpened
<1>3. \A q \in OrderIds : returns'[q] = returns[q]
                          \/ (returns[q].status # "RECEIVED" /\ returns'[q].status # "RECEIVED")
  BY <1>1, <1>2 DEF WithReturn, ReturnInv
<1> QED  BY <1>3 DEF Back

LEMMA RejectedStaysAway ==
  ASSUME ReturnInv, HandlingInv, ~HandleTogether, NEW h \in Handlers, RejectReturn(h)
  PROVE  \A q \in OrderIds : Back(q)' = Back(q)
<1>1. /\ handling[h].op # "none"
      /\ returns' = [returns EXCEPT ![handling[h].order].status = "REJECTED"]
  BY DEF RejectReturn
<1>2. PICK o \in OrderIds : o = handling[h].order
  BY <1>1 DEF HandlingInv
<1>3. returns[o].status = "PENDING" /\ returns' = [returns EXCEPT ![o].status = "REJECTED"]
  BY <1>1, <1>2 DEF HandlingInv, HandlingFits
<1>4. \A q \in OrderIds : returns'[q] = returns[q]
                          \/ (returns[q].status # "RECEIVED" /\ returns'[q].status # "RECEIVED")
  BY <1>3 DEF ReturnInv, ReturnRow
<1> QED  BY <1>4 DEF Back

LEMMA ReturnsFixedStep ==
  ASSUME OrderSafety, ReturnInv, FixedLines, ReturnsFixed, world' = world, [ReturnsNext]_returnVars
  PROVE  ReturnsFixed'
<1>0. OrderInv /\ \A q \in OrderIds : FixedVariant(q)' = FixedVariant(q)
  BY DEF OrderSafety, FixedVariant
<1>1. CASE returns' = returns
  BY <1>0, <1>1 DEF ReturnsFixed
<1>2. CASE ReturnsOpened
  <2>1. PICK o \in OrderIds : returns' \in {returns, WithReturn(o)}
    BY <1>2 DEF ReturnsOpened
  <2>2. CASE /\ order[o].shipped
             /\ returns' = [returns EXCEPT ![o] = [status |-> "PENDING", variant |-> order[o].variant]]
    <3>1. order[o].saved
      BY <1>0, <2>2 DEF OrderInv, StampsInOrder
    <3>2. order[o].variant = FixedVariant(o)
      BY <3>1 DEF OrderSafety, LinesStayFixed
    <3>3. \A q \in OrderIds : returns'[q].variant = returns[q].variant
                              \/ returns'[q].variant = FixedVariant(q)
      BY <2>2, <3>2 DEF ReturnInv
    <3> QED  BY <1>0, <3>3 DEF ReturnsFixed
  <2> QED  BY <1>1, <2>1, <2>2 DEF WithReturn, Returnable
<1>3. CASE \E h \in Handlers : ProcessReturn(h) \/ RejectReturn(h)
  <2>1. \E o : \E status : returns' = [returns EXCEPT ![o].status = status]
    BY <1>3 DEF ProcessReturn, RejectReturn
  <2>2. \A q \in OrderIds : returns'[q].variant = returns[q].variant
    BY <2>1 DEF ReturnInv, ReturnRow
  <2> QED  BY <1>0, <2>2 DEF ReturnsFixed
<1> QED  BY <1>0, <1>1, <1>2, <1>3, ReturnCases

LEMMA OnHandStep ==
  ASSUME Sequential, OrderSafety, ReturnInv, HandlingInv, StockInv, OnHandInv,
         [ReturnsNext]_returnVars
  PROVE  OnHandInv'
<1>1. /\ OrderInv /\ DepartInv /\ OrderSafety' /\ world' = world
      /\ (Next \/ UNCHANGED orderVars)
  <2>1. Next \/ UNCHANGED orderVars
    BY ReturnsFrame
  <2> QED  BY <2>1, SafetyStep, WorldStays DEF OrderSafety, StockInv
<1> SUFFICES ASSUME WholeHandling
             PROVE  ReturnsFixed' /\ NothingAppears'
  BY <1>1 DEF OnHandInv, WholeHandling, WholeReturns, FixedLines, OneWayOut
<1>2. ReturnsFixed /\ NothingAppears /\ FixedLines /\ ~HandleTogether
  BY DEF OnHandInv, WholeHandling, WholeReturns
<1>3. ReturnsFixed'
  BY <1>1, <1>2, ReturnsFixedStep
<1>4. ASSUME stock' = stock, rows' = rows,
             returns' = returns \/ ReturnsOpened \/ \E h \in Handlers : RejectReturn(h)
      PROVE  NothingAppears'
  <2>1. \A q \in OrderIds : Back(q)' = Back(q)
    <3>1. CASE returns' = returns
      BY <3>1 DEF Back
    <3> QED  BY <1>2, <1>4, <3>1, OpenedStaysAway, RejectedStaysAway
  <2>2. \A q \in OrderIds : Away(q)' = Away(q)
    BY <1>4, <2>1 DEF Away, Lines
  <2> QED  BY <1>1, <1>2, <1>4, <2>2, OnHandStays
<1>5. CASE Next
  <2>1. CASE Still
    BY <1>1, <1>3, <1>4, <1>5, <2>1, NextReturns DEF Still
  <2>2. ASSUME returns' = returns, NEW o \in OrderIds, NEW R, NEW G, NEW B, StockMove(o, R, G, B)
        PROVE  NothingAppears'
    BY <1>1, <1>2, <2>2, ShippedGoAway
  <2> QED  BY <1>1, <1>3, <1>5, <2>1, <2>2, NextMoves
<1>6. ASSUME UNCHANGED orderVars, NEW h \in Handlers, ProcessReturn(h)
      PROVE  NothingAppears'
  BY <1>2, <1>6, ReceivedComeBack
<1>7. CASE UNCHANGED orderVars /\ stock' = stock
  <2>1. rows' = rows
    BY <1>7 DEF orderVars
  <2> QED  BY <1>1, <1>3, <1>4, <1>6, <1>7, <2>1, ReturnCases
<1> QED  BY <1>3, <1>5, <1>6, <1>7, ReturnMoves

LEMMA InitOnHand == ReturnsInit => OnHandInv
<1> SUFFICES ASSUME ReturnsInit  PROVE ReturnsFixed /\ NothingAppears
  BY DEF OnHandInv
<1>1. /\ \A v \in Variants : stock[v] = [EmptyRow EXCEPT !.available = InitialStock]
      /\ \A o \in OrderIds : returns[o] = NoReturn
      /\ \A o \in OrderIds, l \in Listings : rows[o][l].SHIP = 0
  BY DEF ReturnsInit, Init
<1>2. \A v \in Variants : OnHand(stock[v]) = InitialStock
  BY <1>1, OrdersAssumption DEF OnHand, EmptyRow
<1>3. \A o \in OrderIds : Away(o) = {}
  BY <1>1 DEF Away, Lines
<1>4. NothingAppears
  <2> SUFFICES ASSUME NEW v \in Variants
               PROVE  OnHand(stock[v]) + SumFunction([o \in OrderIds |-> AwayUnits(o, v)])
                        = InitialStock
    BY DEF NothingAppears
  <2> DEFINE away == [o \in OrderIds |-> AwayUnits(o, v)]
  <2>1. DOMAIN away = OrderIds /\ \A o \in OrderIds : away[o] = 0
    BY <1>3, UnitsNone DEF AwayUnits
  <2> HIDE DEF away
  <2>2. SumFunction(away) = 0
    BY <2>1, FinitelyMany, SumZero DEF SumFunction
  <2>3. OnHand(stock[v]) = InitialStock /\ InitialStock \in Nat
    BY <1>2, OrdersAssumption
  <2> QED  BY <2>2, <2>3 DEF away
<1>5. ReturnsFixed
  BY <1>1, NoReturnType DEF ReturnsFixed
<1> QED  BY <1>4, <1>5

\* What is on hand is what there was, less what is away.
LEMMA NoMoreOnHand ==
  ASSUME StockInv, OnHandInv, WholeHandling
  PROVE  NoPhantomStock
<1> SUFFICES ASSUME NEW v \in Variants
             PROVE  OnHand(stock[v]) <= InitialStock
  BY DEF NoPhantomStock, OnHand
<1> DEFINE away == [o \in OrderIds |-> AwayUnits(o, v)]
<1>1. DOMAIN away = OrderIds /\ \A o \in OrderIds : away[o] \in Nat
  BY AwayType
<1>2. OnHand(stock[v]) + SumFunction(away) = InitialStock
  BY DEF OnHandInv, NothingAppears
<1>3. OnHand(stock[v]) \in Int
  BY RowFields DEF StockInv, Stocked
<1> HIDE DEF away
<1>4. SumFunction(away) \in Nat
  BY <1>1, FinitelyMany, SumNat DEF SumFunction
<1> QED  BY <1>2, <1>3, <1>4

-----------------------------------------------------------------------------
(* Results.                                                                *)

WarehouseInv == OrderSafety /\ ReturnInv /\ HandlingInv /\ StockInv /\ OnHandInv

LEMMA WarehouseStep ==
  ASSUME Sequential, WarehouseInv, [ReturnsNext]_returnVars
  PROVE  WarehouseInv'
<1>1. OrderSafety /\ ReturnInv /\ HandlingInv /\ StockInv /\ OnHandInv /\ OrderInv
      /\ LinesStayFixed
  BY DEF WarehouseInv, OrderSafety
<1>2. OrderSafety'
  BY <1>1, SafetyStep, ReturnsFrame
<1>3. ReturnInv' /\ HandlingInv'
  BY <1>1, ReturnStep, HandlingStep
<1>4. StockInv' /\ OnHandInv'
  BY <1>1, StockStep, OnHandStep
<1> QED  BY <1>2, <1>3, <1>4 DEF WarehouseInv

LEMMA InitReturnInv == ReturnsInit => ReturnInv
<1> SUFFICES ASSUME ReturnsInit  PROVE ReturnInv
  OBVIOUS
<1>1. /\ \A o \in OrderIds : channel[o].cancelled = {} /\ ~order[o].shipped
      /\ \A p \in Pullers : pull[p] = NoPull
      /\ returns = [o \in OrderIds |-> NoReturn]
  BY DEF ReturnsInit, Init, NewOrder
<1>2. WholeOrdersShip
  BY <1>1, NoPullFetched DEF WholeOrdersShip
<1>3. returns \in [OrderIds -> ReturnRow] /\ ReturnedShipped
  BY <1>1, NoReturnType DEF ReturnedShipped
<1> QED  BY <1>2, <1>3 DEF ReturnInv

LEMMA ChangedOrders ==
  ASSUME Shape, changed \subseteq OrderIds, [ReturnsNext]_returnVars
  PROVE  changed' \subseteq OrderIds
<1>1. world.orders \subseteq OrderIds
  BY OrdersAssumption DEF Shape, Scenario
<1>2. \A p \in Pullers : CursorStep(p) => changed' \subseteq OrderIds
  BY <1>1 DEF CursorStep, NewSince
<1>3. \A p \in Pullers : UpsertOrder(p) \/ StageStep(p) => CursorStep(p)
  BY DEF UpsertOrder, StageStep, Reserve, ReserveDelta, Ship, Release, OpenReturn, StageDone
<1>4. CASE Next
  <2>1. CASE \E o \in OrderIds : ChannelAdvance(o) \/ ChannelCancelLine(o)
    BY <2>1 DEF ChannelAdvance, ChannelCancelLine
  <2>2. CASE \E l \in Listings : MapListing(l)
    BY <2>2 DEF MapListing
  <2>3. CASE \E p \in Pullers : UpsertOrder(p) \/ StageStep(p)
    BY <1>2, <1>3, <2>3
  <2>4. CASE \E p \in Pullers : StartPull(p) \/ CrashPull(p)
    BY <2>4 DEF StartPull, CrashPull
  <2>5. CASE \E s \in Staff : LoadStep(s)
    BY <2>5 DEF LoadStep, LoadForShip, LoadForCancel, LoadForResolve, BeginTask
  <2>6. CASE \E s \in Staff : \/ MarkShipped(s) \/ Cancel(s) \/ ResolveMap(s)
                               \/ ResolveFill(s) \/ ResolveReserve(s) \/ CrashTask(s)
    BY <2>6 DEF MarkShipped, Cancel, ResolveMap, ResolveFill, ResolveReserve, CrashTask
  <2> QED  BY <1>4, <2>1, <2>2, <2>3, <2>4, <2>5, <2>6 DEF Next, StageStep
<1>5. CASE ~Next
  BY <1>5 DEF ReturnsNext, CreateReturn, OpenHandling, ProcessReturn, RejectReturn,
       CrashHandling, returnVars, vars
<1> QED  BY <1>4, <1>5

LEMMA WarehouseAlways ==
  ASSUME Sequential
  PROVE  ReturnsSpec => []WarehouseInv
<1>1. ReturnsInit => WarehouseInv
  BY InitSafety, InitReturnInv, InitHandling, InitStock, InitOnHand DEF WarehouseInv, ReturnsInit
<1>2. WarehouseInv /\ [ReturnsNext]_returnVars => WarehouseInv'
  BY WarehouseStep
<1> QED  BY <1>1, <1>2, PTL DEF ReturnsSpec

\* Every variable of the lifecycle keeps its type, the stock of the variants and
\* the returns included, in every scenario: no movement of an order or a return
\* makes a bucket negative, except the available one.
THEOREM LifecycleTypes ==
  ASSUME Sequential
  PROVE  ReturnsSpec => []TypeOK
<1> DEFINE Listed == changed \subseteq OrderIds
<1>1. WarehouseInv /\ Listed => TypeOK
  BY DEF WarehouseInv, OrderSafety, OrderInv, Shape, ReturnInv, StockInv, Stocked, TypeOK
<1>2. ReturnsInit => Listed
  BY OrdersAssumption DEF ReturnsInit, Init, Scenario
<1>3. WarehouseInv /\ Listed /\ [ReturnsNext]_returnVars => Listed'
  BY ChangedOrders DEF WarehouseInv, OrderSafety, OrderInv
<1> QED  BY <1>1, <1>2, <1>3, WarehouseAlways, PTL DEF ReturnsSpec

\* One operation at a time, where the staff ship orders or cancel them but not
\* both, resolve lines only where they do neither, and either no line gets its
\* variant late or no operation dies and no whole order is cancelled: whenever
\* nothing is under way, what is reserved is what the held orders need.
THEOREM ReservationsAddUp ==
  ASSUME Sequential
  PROVE  ReturnsSpec => [](Orderly => ReservedMatchesOrders)
<1>1. WarehouseInv => (Orderly => ReservedMatchesOrders)
  BY OwedIsHeld DEF WarehouseInv
<1> QED  BY <1>1, WarehouseAlways, PTL

\* One operation at a time, one member of the staff to a return, lines that have
\* their variants from the start and orders that leave one way and are cancelled
\* whole: there are never more units on hand than there were, whatever crashes.
THEOREM NoStockAppears ==
  ASSUME Sequential
  PROVE  ReturnsSpec => [](WholeHandling => NoPhantomStock)
<1>1. WarehouseInv => (WholeHandling => NoPhantomStock)
  BY NoMoreOnHand DEF WarehouseInv
<1> QED  BY <1>1, WarehouseAlways, PTL
=============================================================================
