----------------------------- MODULE Purchasing -----------------------------
(***************************************************************************)
(* Purchase orders (PurchasingServerService): drafts that reserve nothing, *)
(* placed orders whose lines are counted as incoming stock, receipts that  *)
(* move units from incoming to available, and cancellation.                *)
(***************************************************************************)
EXTENDS BackOffice

CONSTANTS
  Purchases,     \* purchase order ids
  Carts          \* the carts users enter

ASSUME PurchasesAssumption ==
  /\ IsFiniteSet(Purchases)
  /\ Carts \subseteq Cart \ {EmptyCart}

VARIABLE purchase  \* the PurchaseOrder row and its items

PurchaseStatuses ==
  {"none", "DRAFT", "ORDERED", "PARTIALLY_RECEIVED", "RECEIVED", "CANCELLED"}
PurchaseRow == [status : PurchaseStatuses, ordered : Cart, received : Cart]
NoPurchase == [status |-> "none", ordered |-> EmptyCart, received |-> EmptyCart]

PurchaseInit == purchase = [o \in Purchases |-> NoPurchase]

\* createPurchaseOrder: one transaction, as a draft or placed at once.
CreatePurchase(o) ==
  /\ o \in open.documents /\ purchase[o].status = "none"
  /\ \E cart \in Carts, status \in {"DRAFT", "ORDERED"} :
       /\ purchase' = [purchase EXCEPT ![o] =
                         [status |-> status, ordered |-> cart, received |-> EmptyCart]]
       /\ stock' = IF status = "DRAFT" THEN stock ELSE MovedCart(stock, "INCOMING", cart)
  /\ desk' = desk

-----------------------------------------------------------------------------
\* The status checks, made on the loaded order.
Admits(op, status) ==
  CASE op \in {"update", "place", "discard"} -> status = "DRAFT"
    [] op = "receive" -> status \in {"ORDERED", "PARTIALLY_RECEIVED"}
    [] op = "cancel" -> status \notin {"none", "RECEIVED", "CANCELLED"}

Open(c, o, op, cart) ==
  /\ Admits(op, purchase[o].status)
  /\ TakeUp(c, [op |-> op, doc |-> o, read |-> purchase[o], cart |-> cart])
  /\ UNCHANGED <<stock, purchase>>

\* Each line clamped to what is outstanding on the order as loaded.
ReceiptFor(row, input) ==
  [i \in Items |-> Lesser(input[i], Outstanding(row.ordered, row.received)[i])]

OpenReceipt(c, o) ==
  \E input \in Carts :
    LET receipt == ReceiptFor(purchase[o], input) IN
    /\ receipt # EmptyCart
    /\ Open(c, o, "receive", receipt)

OpenOther(c, o) ==
  \/ \E cart \in Carts : Open(c, o, "update", cart)
  \/ Open(c, o, "place", EmptyCart)
  \/ Open(c, o, "discard", EmptyCart)
  \/ /\ purchase[o].status = "DRAFT" => open.cancelDrafts
     /\ Open(c, o, "cancel", EmptyCart)

\* The transaction of a request of kind op, on an order that still exists.
Runs(c, op) ==
  /\ desk[c].op = op
  /\ purchase[desk[c].doc].status # "none"
  /\ Answered(c)

\* updatePurchaseOrder replaces the lines and looks at the status no more.
UpdateDraft(c) ==
  /\ Runs(c, "update")
  /\ purchase' = [purchase EXCEPT ![desk[c].doc].ordered = desk[c].cart]
  /\ stock' = stock

\* placePurchaseOrder.
PlaceDraft(c) ==
  /\ Runs(c, "place")
  /\ purchase' = [purchase EXCEPT ![desk[c].doc].status = "ORDERED"]
  /\ stock' = MovedCart(stock, "INCOMING", desk[c].read.ordered)

\* discardDraftPurchaseOrder.
DiscardDraft(c) ==
  /\ Runs(c, "discard")
  /\ purchase' = [purchase EXCEPT ![desk[c].doc] = NoPurchase]
  /\ stock' = stock

Plus(a, b) == [i \in Items |-> a[i] + b[i]]

\* Faulty StatusAfter: one complete line completes the order.
StatusAfterAnyLine(read, receipt) ==
  IF \E i \in Items : read.ordered[i] > 0 /\ Plus(read.received, receipt)[i] >= read.ordered[i]
  THEN "RECEIVED" ELSE "PARTIALLY_RECEIVED"

StatusAfter(read, receipt) ==
  IF Outstanding(read.ordered, Plus(read.received, receipt)) = EmptyCart
  THEN "RECEIVED" ELSE "PARTIALLY_RECEIVED"

\* receivePurchaseOrder: receivedQuantity is incremented, the new status is
\* computed from the order as loaded.
ReceivePurchase(c) ==
  /\ Runs(c, "receive")
  /\ LET row == purchase[desk[c].doc] IN
     purchase' = [purchase EXCEPT ![desk[c].doc] =
       [status |-> StatusAfter(desk[c].read, desk[c].cart), ordered |-> row.ordered,
        received |-> Plus(row.received, desk[c].cart)]]
  /\ stock' = MovedCart(stock, "RECEIVE", desk[c].cart)

Negative(cart) == [i \in Items |-> -cart[i]]

\* Faulty StillExpected: the whole order is taken off, received units too.
StillExpectedWhole(read) == read.ordered

\* Faulty StillExpected: what a partly received order still lacks stays counted.
StillExpectedUntouched(read) ==
  IF read.status = "PARTIALLY_RECEIVED" THEN EmptyCart ELSE read.ordered

StillExpected(read) == Outstanding(read.ordered, read.received)

\* cancelPurchaseOrder: what was outstanding is expected no more.
CancelPurchase(c) ==
  /\ Runs(c, "cancel")
  /\ purchase' = [purchase EXCEPT ![desk[c].doc].status = "CANCELLED"]
  /\ stock' = MovedCart(stock, "INCOMING", Negative(StillExpected(desk[c].read)))

PurchaseNext ==
  \/ \E o \in Purchases :
       \/ CreatePurchase(o)
       \/ \E c \in Clerks : OpenReceipt(c, o) \/ OpenOther(c, o)
  \/ \E c \in Clerks :
       \/ UpdateDraft(c) \/ PlaceDraft(c) \/ DiscardDraft(c)
       \/ ReceivePurchase(c) \/ CancelPurchase(c)

-----------------------------------------------------------------------------
Placed(row) == row.status \in {"ORDERED", "PARTIALLY_RECEIVED"}

\* What an order still expects of variant v.
Expected(row, v) ==
  IF Placed(row) THEN Units(Outstanding(row.ordered, row.received), v) ELSE 0

\* The incoming bucket of every variant is exactly what the placed orders
\* still expect: drafts count for nothing, receipts and cancellations take
\* off what was counted, and the clamp at zero never hides a double one.
IncomingMatchesOrders ==
  \A v \in Variants :
    stock[v].incoming = SumFunction([o \in Purchases |-> Expected(purchase[o], v)])

\* So it is while no two requests work on one purchase order and cancel is
\* called on placed orders only.
IncomingMatchesUndisturbed ==
  open.meet \cap {"receive", "cancel"} = {} /\ ~open.cancelDrafts => IncomingMatchesOrders

\* Even when receipts and cancellations of one order meet and drafts are
\* cancelled, the incoming bucket never shows units that no order expects:
\* a receipt or cancellation computed from an older load takes off too much,
\* never too little.
IncomingIsExpected ==
  \A v \in Variants :
    stock[v].incoming <= SumFunction([o \in Purchases |-> Expected(purchase[o], v)])

\* However receipts and cancellations of one order meet, an order that ends as
\* received has every line complete: the status is computed from an older
\* load, but receivedQuantity is incremented and never falls behind it.
ReceivedIsComplete ==
  \A o \in Purchases :
    purchase[o].status = "RECEIVED" =>
      \A i \in Items : purchase[o].received[i] >= purchase[o].ordered[i]

\* No line receives more than was ordered, and an order is closed as received
\* exactly when every line is complete.
ReceiptsWithinOrder ==
  \A o \in Purchases :
    /\ \A i \in Items : purchase[o].received[i] <= purchase[o].ordered[i]
    /\ purchase[o].status = "RECEIVED" => purchase[o].received = purchase[o].ordered
    /\ Placed(purchase[o]) => purchase[o].received # purchase[o].ordered
=============================================================================
