--------------------------- MODULE BackOfficeProofs --------------------------
(***************************************************************************)
(* Proofs about the back office, for any documents, carts, lines and any   *)
(* number of clerks: an order marked received is complete, a sale is       *)
(* settled once, the incoming bucket shows nothing no order expects, the   *)
(* available stock is what the documents say, and an accurate count puts   *)
(* the books right.                                                        *)
(*                                                                         *)
(* Voids and refunds of one sale may meet, and so may the receipts and     *)
(* cancellations of one purchase order; drafts may be cancelled.  Edits of *)
(* a draft and requests on a count write what they loaded before their     *)
(* transaction began, and are assumed to work on their document alone      *)
(* (EditsWorkAlone).  The inductive invariant says who works on what       *)
(* (DeskInv), how far what a request loaded may be behind the document     *)
(* (PurchaseRequest, CountRequest), and relates each document's status to  *)
(* its quantities (PurchaseShape, SaleShape).                              *)
(***************************************************************************)
EXTENDS MCBackOffice, StockMovesProofs

DraftOps == {"update", "place", "discard"}
StockOps == {"receive", "cancel"}
PurchaseOps == DraftOps \cup StockOps
SaleOps == {"void", "refund"}
MeetOps == SaleOps \cup StockOps

\* The assumption on the scheduling of requests the theorems are about.
EditsWorkAlone == \A world \in Worlds : world.meet \subseteq MeetOps
FewMeet == open.meet \subseteq MeetOps

CountOps == {"count", "scan", "tally", "remove", "complete", "cancelCount"}
Ops == {"none"} \cup PurchaseOps \cup SaleOps \cup CountOps

Busy(c) == desk[c] # NoRequest

\* Two requests on one document are of the kinds that may meet.
DeskInv ==
  /\ desk = [c \in Clerks |-> desk[c]]
  /\ \A c \in Clerks : desk[c].op \in Ops
  /\ \A c \in Clerks : desk[c].op = "none" => desk[c] = NoRequest
  /\ \A c, d \in Clerks :
       c # d /\ Busy(c) /\ Busy(d) /\ desk[c].doc = desk[d].doc
       => desk[c].op \in MeetOps /\ desk[d].op \in MeetOps

\* What a purchase order's quantities can be in each status.
PurchaseShape(row) ==
  /\ row.status = "none" => row = NoPurchase
  /\ row.status \in {"DRAFT", "ORDERED"} => row.received = EmptyCart
  /\ row.status = "RECEIVED" => \A i \in Items : row.received[i] >= row.ordered[i]

\* A draft is still what an edit loaded.  What a receipt or a cancellation
\* loaded may be behind: more may have been received since, and the order may
\* have been closed, but its lines are the ones loaded.
PurchaseRequest(r) ==
  r.op \in PurchaseOps =>
    /\ r.doc \in Purchases /\ r.read \in PurchaseRow /\ r.cart \in Cart
    /\ Admits(r.op, r.read.status)
    /\ r.op \in DraftOps => r.read = purchase[r.doc]
    /\ r.op = "update" => r.cart \in Carts
    /\ r.op \in StockOps =>
         /\ purchase[r.doc].status # "none" /\ purchase[r.doc].ordered = r.read.ordered
         /\ \A i \in Items : r.read.received[i] <= purchase[r.doc].received[i]
    /\ r.op = "receive" =>
         \A i \in Items : r.cart[i] <= Outstanding(r.read.ordered, r.read.received)[i]

PurchaseInv ==
  /\ purchase \in [Purchases -> PurchaseRow]
  /\ \A o \in Purchases : PurchaseShape(purchase[o])
  /\ \A c \in Clerks : PurchaseRequest(desk[c])

\* A sale that does not exist or was voided has no refund.
SaleShape(row) ==
  /\ row.status = "none" => row = NoSale
  /\ row.status \in {"none", "VOID"} => row.refunded = EmptyCart
  /\ \A i \in Items : row.refunded[i] <= row.sold[i]

SaleRequest(r) ==
  /\ r.op \in SaleOps => r.doc \in SaleIds
  /\ r.op = "refund" => r.cart \in Refunds

SaleInv ==
  /\ sale \in [SaleIds -> SaleRow]
  /\ \A s \in SaleIds : SaleShape(sale[s])
  /\ \A c \in Clerks : SaleRequest(desk[c])

\* A line's variance is what was counted less its baseline.
VarianceInv ==
  \A n \in Opnames : \A v \in Counted(opname[n].item) :
    opname[n].item[v].variance = opname[n].item[v].counted - opname[n].item[v].system

CountRequest(r) ==
  r.op \in CountOps =>
    /\ r.doc \in Opnames /\ opname[r.doc].status = "DRAFT"
    /\ r.op \in {"count", "scan", "tally", "remove"} => r.variant \in Variants
    /\ r.op \in {"count", "scan", "tally"} =>
         r.system \in Int /\ r.since \in Int /\ r.existing \in OpnameItem \cup {NoItem}
    /\ r.op = "count" => r.counted \in Nat
    /\ r.op = "complete" => r.items = opname[r.doc].item

CountInv ==
  /\ opname \in [Opnames -> OpnameRow]
  /\ missing \in [Variants -> Int]
  /\ VarianceInv
  /\ \A c \in Clerks : CountRequest(desk[c])

OfficeInv ==
  /\ stock \in [Variants -> Row] /\ FewMeet
  /\ DeskInv /\ PurchaseInv /\ SaleInv /\ CountInv

-----------------------------------------------------------------------------
(* The desk.                                                               *)

\* A request that is taken up is alone on its document, or may meet the
\* others there.
LEMMA TakeUpDesk ==
  ASSUME FewMeet, DeskInv, NEW c \in Clerks, NEW r,
         r.op \in Ops \ {"none"}, TakeUp(c, r)
  PROVE  /\ DeskInv'
         /\ \A d \in Clerks : desk'[d] = IF d = c THEN r ELSE desk[d]
<1>1. desk = [d \in Clerks |-> desk[d]]
  BY DEF DeskInv
<1>2. desk' = [desk EXCEPT ![c] = r]
  BY DEF TakeUp
<1>3. \A d \in Clerks : desk'[d] = IF d = c THEN r ELSE desk[d]
  BY <1>1, <1>2
<1>4. desk' = [d \in Clerks |-> desk'[d]]
  BY <1>1, <1>2
<1>5. r # NoRequest
  BY DEF NoRequest
<1>6. \A d \in Clerks : desk'[d].op \in Ops /\ (desk'[d].op = "none" => desk'[d] = NoRequest)
  BY <1>3 DEF DeskInv
<1>7. ASSUME NEW d \in Clerks, d # c, Busy(d), desk[d].doc = r.doc
      PROVE  r.op \in MeetOps /\ desk[d].op \in MeetOps
  BY <1>7 DEF TakeUp, WorksOn, Busy, FewMeet
<1>8. ASSUME NEW d \in Clerks, NEW e \in Clerks, d # e,
             desk'[d] # NoRequest, desk'[e] # NoRequest, desk'[d].doc = desk'[e].doc
      PROVE  desk'[d].op \in MeetOps /\ desk'[e].op \in MeetOps
  <2>1. CASE d = c
    BY <1>3, <1>7, <1>8, <2>1 DEF Busy
  <2>2. CASE e = c
    BY <1>3, <1>7, <1>8, <2>2 DEF Busy
  <2>3. CASE d # c /\ e # c
    BY <1>3, <1>8, <2>3 DEF DeskInv, Busy
  <2> QED
    BY <2>1, <2>2, <2>3
<1> QED
  BY <1>3, <1>4, <1>6, <1>8 DEF DeskInv, Busy

\* A request that is answered leaves the others as they were.
LEMMA AnsweredDesk ==
  ASSUME DeskInv, NEW c \in Clerks, Answered(c)
  PROVE  /\ DeskInv'
         /\ \A d \in Clerks : desk'[d] = IF d = c THEN NoRequest ELSE desk[d]
<1>1. desk = [d \in Clerks |-> desk[d]]
  BY DEF DeskInv
<1>2. desk' = [desk EXCEPT ![c] = NoRequest]
  BY DEF Answered
<1>3. \A d \in Clerks : desk'[d] = IF d = c THEN NoRequest ELSE desk[d]
  BY <1>1, <1>2
<1>4. desk' = [d \in Clerks |-> desk'[d]]
  BY <1>1, <1>2
<1>5. NoRequest.op = "none"
  BY DEF NoRequest
<1>6. \A d \in Clerks : desk'[d].op \in Ops /\ (desk'[d].op = "none" => desk'[d] = NoRequest)
  BY <1>3, <1>5 DEF DeskInv, Ops
<1>7. ASSUME NEW d \in Clerks, NEW e \in Clerks, d # e,
             desk'[d] # NoRequest, desk'[e] # NoRequest, desk'[d].doc = desk'[e].doc
      PROVE  desk'[d].op \in MeetOps /\ desk'[e].op \in MeetOps
  BY <1>3, <1>7 DEF DeskInv, Busy
<1> QED
  BY <1>3, <1>4, <1>6, <1>7 DEF DeskInv, Busy

\* Whoever edits a draft or a count works on it alone.
LEMMA WorksAlone ==
  ASSUME DeskInv, NEW c \in Clerks, desk[c].op \in DraftOps \cup CountOps,
         NEW d \in Clerks, d # c, desk[d].op \in Ops \ {"none"}
  PROVE  desk[d].doc # desk[c].doc
<1>1. Busy(c) /\ Busy(d)
  BY DEF Busy, NoRequest, DraftOps, CountOps
<1> QED
  BY <1>1 DEF DeskInv, DraftOps, CountOps, MeetOps, StockOps, SaleOps

-----------------------------------------------------------------------------
(* Who changes what: the documents of one kind are left alone by the        *)
(* requests on the others.                                                  *)

LEMMA PurchasesLeft ==
  ASSUME PurchaseInv, purchase' = purchase,
         \A d \in Clerks : desk'[d] = desk[d] \/ desk'[d].op \notin PurchaseOps
  PROVE  PurchaseInv'
BY DEF PurchaseInv, PurchaseShape, PurchaseRequest

LEMMA SalesLeft ==
  ASSUME SaleInv, sale' = sale,
         \A d \in Clerks : desk'[d] = desk[d] \/ desk'[d].op \notin SaleOps
  PROVE  SaleInv'
BY DEF SaleInv, SaleShape, SaleRequest, SaleOps

LEMMA CountsLeft ==
  ASSUME CountInv, opname' = opname, missing' = missing,
         \A d \in Clerks : desk'[d] = desk[d] \/ desk'[d].op \notin CountOps
  PROVE  CountInv'
BY DEF CountInv, VarianceInv, Counted, CountRequest, CountOps

-----------------------------------------------------------------------------
(* Purchase orders.                                                        *)

LEMMA EmptyCartIsCart == EmptyCart \in Cart
BY DEF EmptyCart, Cart

LEMMA CreatePurchaseInv ==
  ASSUME DeskInv, PurchaseInv, NEW o \in Purchases, CreatePurchase(o)
  PROVE  DeskInv' /\ PurchaseInv'
<1>1. PICK cart \in Carts, status \in {"DRAFT", "ORDERED"} :
        purchase' = [purchase EXCEPT ![o] =
                       [status |-> status, ordered |-> cart, received |-> EmptyCart]]
  BY DEF CreatePurchase
<1> DEFINE row == [status |-> status, ordered |-> cart, received |-> EmptyCart]
<1>2. purchase' = [purchase EXCEPT ![o] = row]
  BY <1>1
<1>3. desk' = desk /\ purchase[o].status = "none"
  BY DEF CreatePurchase
<1>4. cart \in Cart /\ cart # EmptyCart
  BY PurchasesAssumption
<1>5. row \in PurchaseRow
  BY <1>4, EmptyCartIsCart DEF PurchaseRow, PurchaseStatuses
<1>6. PurchaseShape(row)
  BY <1>4 DEF PurchaseShape
<1> HIDE DEF row
<1>7. \A p \in Purchases : purchase'[p] = IF p = o THEN row ELSE purchase[p]
  BY <1>2 DEF PurchaseInv
<1>8. purchase' \in [Purchases -> PurchaseRow]
  BY <1>2, <1>5 DEF PurchaseInv
<1>9. \A p \in Purchases : PurchaseShape(purchase'[p])
  BY <1>6, <1>7 DEF PurchaseInv
<1>10. ASSUME NEW c \in Clerks, desk[c].op \in PurchaseOps
       PROVE  desk[c].doc \in Purchases /\ desk[c].doc # o
  <2>1. PurchaseRequest(desk[c])
    BY DEF PurchaseInv
  <2>2. desk[c].doc \in Purchases /\ purchase[desk[c].doc].status # "none"
    BY <1>10, <2>1 DEF PurchaseRequest, Admits, PurchaseOps, DraftOps, StockOps
  <2> QED
    BY <1>3, <2>2
<1>11. ASSUME NEW c \in Clerks
       PROVE  PurchaseRequest(desk[c])'
  BY <1>3, <1>7, <1>10 DEF PurchaseInv, PurchaseRequest
<1>12. DeskInv'
  BY <1>3 DEF DeskInv, Busy
<1> QED
  BY <1>8, <1>9, <1>11, <1>12 DEF PurchaseInv

\* A request on a purchase order is taken up: it has loaded the order.
LEMMA OpenPurchaseInv ==
  ASSUME FewMeet, DeskInv, PurchaseInv, NEW c \in Clerks, NEW o \in Purchases,
         NEW op \in PurchaseOps, NEW cart \in Cart, Open(c, o, op, cart),
         op = "update" => cart \in Carts,
         op = "receive" =>
           \A i \in Items :
             cart[i] <= Outstanding(purchase[o].ordered, purchase[o].received)[i]
  PROVE  /\ DeskInv' /\ PurchaseInv'
         /\ stock' = stock /\ purchase' = purchase
         /\ \A d \in Clerks : desk'[d] = desk[d] \/ desk'[d].op \in PurchaseOps
<1> DEFINE r == [op |-> op, doc |-> o, read |-> purchase[o], cart |-> cart]
<1>1. TakeUp(c, r) /\ stock' = stock /\ purchase' = purchase /\ Admits(op, purchase[o].status)
  BY DEF Open
<1>2. r.op \in Ops \ {"none"}
  BY DEF Ops, PurchaseOps, DraftOps, StockOps
<1>3. DeskInv' /\ \A d \in Clerks : desk'[d] = IF d = c THEN r ELSE desk[d]
  BY <1>1, <1>2, TakeUpDesk
<1>4. PurchaseRequest(r)
  <2>1. purchase[o] \in PurchaseRow
    BY DEF PurchaseInv
  <2>2. \A i \in Items : purchase[o].received[i] <= purchase[o].received[i]
    BY <2>1 DEF PurchaseRow, Cart
  <2>3. op \in StockOps => purchase[o].status # "none"
    BY <1>1 DEF Admits, StockOps
  <2> QED
    BY <1>1, <2>1, <2>2, <2>3 DEF PurchaseRequest
<1>5. \A d \in Clerks : desk'[d] = desk[d] \/ desk'[d] = r
  BY <1>3
<1>6. r.op \in PurchaseOps
  OBVIOUS
<1> HIDE DEF r
<1>7. ASSUME NEW d \in Clerks PROVE PurchaseRequest(desk'[d])
  BY <1>4, <1>5 DEF PurchaseInv
<1>8. PurchaseInv'
  BY <1>1, <1>7 DEF PurchaseInv, PurchaseShape, PurchaseRequest
<1> QED
  BY <1>1, <1>3, <1>5, <1>6, <1>8

LEMMA OpenReceiptInv ==
  ASSUME FewMeet, DeskInv, PurchaseInv, NEW c \in Clerks, NEW o \in Purchases,
         OpenReceipt(c, o)
  PROVE  /\ DeskInv' /\ PurchaseInv'
         /\ stock' = stock /\ purchase' = purchase
         /\ \A d \in Clerks : desk'[d] = desk[d] \/ desk'[d].op \in PurchaseOps
<1>1. PICK input \in Carts : Open(c, o, "receive", ReceiptFor(purchase[o], input))
  BY DEF OpenReceipt
<1> DEFINE cart == ReceiptFor(purchase[o], input)
<1>2. input \in Cart
  BY PurchasesAssumption
<1>3. purchase[o].ordered \in Cart /\ purchase[o].received \in Cart
  BY DEF PurchaseInv, PurchaseRow
<1>4. cart \in Cart
  BY <1>2, <1>3 DEF ReceiptFor, Lesser, Outstanding, AtLeastZero, Cart
<1>5. \A i \in Items : cart[i] <= Outstanding(purchase[o].ordered, purchase[o].received)[i]
  BY <1>2, <1>3 DEF ReceiptFor, Lesser, Outstanding, AtLeastZero, Cart
<1>6. "receive" \in PurchaseOps
  BY DEF PurchaseOps, DraftOps, StockOps
<1> HIDE DEF cart
<1>7. Open(c, o, "receive", cart)
  BY <1>1 DEF cart
<1> QED
  BY <1>4, <1>5, <1>6, <1>7, OpenPurchaseInv

LEMMA OpenOtherInv ==
  ASSUME FewMeet, DeskInv, PurchaseInv, NEW c \in Clerks, NEW o \in Purchases,
         OpenOther(c, o)
  PROVE  /\ DeskInv' /\ PurchaseInv'
         /\ stock' = stock /\ purchase' = purchase
         /\ \A d \in Clerks : desk'[d] = desk[d] \/ desk'[d].op \in PurchaseOps
<1>0. {"update", "place", "discard", "cancel"} \subseteq PurchaseOps
  BY DEF PurchaseOps, DraftOps, StockOps
<1>1. CASE \E cart \in Carts : Open(c, o, "update", cart)
  <2>1. PICK cart \in Carts : Open(c, o, "update", cart)
    BY <1>1
  <2>2. cart \in Cart
    BY PurchasesAssumption
  <2> QED
    BY <1>0, <2>1, <2>2, OpenPurchaseInv
<1>2. CASE Open(c, o, "place", EmptyCart)
  BY <1>0, <1>2, EmptyCartIsCart, OpenPurchaseInv
<1>3. CASE Open(c, o, "discard", EmptyCart)
  BY <1>0, <1>3, EmptyCartIsCart, OpenPurchaseInv
<1>4. CASE Open(c, o, "cancel", EmptyCart)
  BY <1>0, <1>4, EmptyCartIsCart, OpenPurchaseInv
<1> QED
  BY <1>1, <1>2, <1>3, <1>4 DEF OpenOther

\* The transaction of a purchase request writes the one order it works on.
LEMMA PurchaseWritten ==
  ASSUME DeskInv, PurchaseInv, NEW c \in Clerks, desk[c].op \in PurchaseOps, Answered(c),
         NEW row \in PurchaseRow, PurchaseShape(row),
         desk[c].op \in StockOps =>
           /\ row.status # "none" /\ row.ordered = purchase[desk[c].doc].ordered
           /\ \A i \in Items : purchase[desk[c].doc].received[i] <= row.received[i],
         purchase' = [purchase EXCEPT ![desk[c].doc] = row]
  PROVE  /\ DeskInv' /\ PurchaseInv'
         /\ \A d \in Clerks : desk'[d] = IF d = c THEN NoRequest ELSE desk[d]
<1>1. DeskInv' /\ \A d \in Clerks : desk'[d] = IF d = c THEN NoRequest ELSE desk[d]
  BY AnsweredDesk
<1>2. desk[c].doc \in Purchases
  BY DEF PurchaseInv, PurchaseRequest
<1>3. \A p \in Purchases : purchase'[p] = IF p = desk[c].doc THEN row ELSE purchase[p]
  BY DEF PurchaseInv
<1>4. purchase' \in [Purchases -> PurchaseRow]
  BY DEF PurchaseInv
<1>5. \A p \in Purchases : PurchaseShape(purchase'[p])
  BY <1>3 DEF PurchaseInv
<1>6. ASSUME NEW d \in Clerks, desk'[d].op \in PurchaseOps
      PROVE  PurchaseRequest(desk[d])'
  <2>1. d # c /\ desk'[d] = desk[d]
    BY <1>1, <1>6 DEF NoRequest, PurchaseOps, DraftOps, StockOps
  <2>2. desk[c].op \in Ops \ {"none"} /\ desk[d].op \in Ops \ {"none"}
    BY <1>6, <2>1 DEF Ops, PurchaseOps, DraftOps, StockOps
  <2>3. PurchaseRequest(desk[d]) /\ desk[d].doc \in Purchases
    BY <1>6, <2>1 DEF PurchaseInv, PurchaseRequest
  <2>4. CASE desk[d].doc # desk[c].doc
    <3>1. purchase'[desk[d].doc] = purchase[desk[d].doc]
      BY <1>3, <2>3, <2>4
    <3> QED
      BY <2>1, <2>3, <3>1 DEF PurchaseRequest
  <2>5. CASE desk[d].doc = desk[c].doc
    <3>1. desk[d].op \notin DraftOps /\ desk[c].op \notin DraftOps
      BY <2>1, <2>2, <2>5, WorksAlone
    <3>2. desk[d].op \in StockOps /\ desk[c].op \in StockOps
      BY <1>6, <2>1, <3>1 DEF PurchaseOps
    <3>3. /\ purchase'[desk[d].doc] = row /\ row.status # "none"
          /\ row.ordered = purchase[desk[d].doc].ordered
          /\ \A i \in Items : purchase[desk[d].doc].received[i] <= row.received[i]
      BY <1>2, <1>3, <2>5, <3>2
    <3>4. /\ desk[d].read \in PurchaseRow /\ purchase[desk[d].doc] \in PurchaseRow
          /\ \A i \in Items : desk[d].read.received[i] <= purchase[desk[d].doc].received[i]
          /\ purchase[desk[d].doc].ordered = desk[d].read.ordered
      BY <1>6, <2>1, <2>3, <3>2 DEF PurchaseRequest, PurchaseInv
    <3>5. \A i \in Items : desk[d].read.received[i] <= row.received[i]
      BY <3>3, <3>4 DEF PurchaseRow, Cart
    <3> QED
      BY <2>1, <2>3, <3>1, <3>3, <3>4, <3>5 DEF PurchaseRequest
  <2> QED
    BY <2>4, <2>5
<1>7. ASSUME NEW d \in Clerks PROVE PurchaseRequest(desk[d])'
  BY <1>6 DEF PurchaseRequest
<1> QED
  BY <1>1, <1>4, <1>5, <1>7 DEF PurchaseInv

LEMMA UpdateDraftInv ==
  ASSUME DeskInv, PurchaseInv, NEW c \in Clerks, UpdateDraft(c)
  PROVE  /\ DeskInv' /\ PurchaseInv'
         /\ \A d \in Clerks : desk'[d] = IF d = c THEN NoRequest ELSE desk[d]
<1> DEFINE o == desk[c].doc
           row == [purchase[o] EXCEPT !.ordered = desk[c].cart]
<1>1. /\ desk[c].op = "update" /\ Answered(c)
      /\ purchase' = [purchase EXCEPT ![o] = row]
  BY DEF UpdateDraft, Runs
<1>2. desk[c].op \in PurchaseOps
  BY <1>1 DEF PurchaseOps, DraftOps, StockOps
<1>3. /\ o \in Purchases /\ purchase[o].status = "DRAFT"
      /\ desk[c].cart \in Cart /\ desk[c].cart # EmptyCart
  <2>1. desk[c].op \in DraftOps /\ PurchaseRequest(desk[c])
    BY <1>1 DEF DraftOps, PurchaseInv
  <2> QED
    BY <1>1, <1>2, <2>1, PurchasesAssumption DEF PurchaseRequest, Admits
<1>4. purchase[o] \in PurchaseRow /\ PurchaseShape(purchase[o])
  BY <1>3 DEF PurchaseInv
<1>5. row \in PurchaseRow
  BY <1>3, <1>4 DEF PurchaseRow
<1>6. row.status = "DRAFT" /\ row.ordered = desk[c].cart /\ row.received = EmptyCart
  BY <1>3, <1>4 DEF PurchaseRow, PurchaseShape
<1>7. PurchaseShape(row)
  BY <1>6 DEF PurchaseShape
<1> QED
  BY <1>1, <1>2, <1>5, <1>7, PurchaseWritten DEF StockOps

LEMMA PlaceDraftInv ==
  ASSUME DeskInv, PurchaseInv, NEW c \in Clerks, PlaceDraft(c)
  PROVE  /\ DeskInv' /\ PurchaseInv'
         /\ \A d \in Clerks : desk'[d] = IF d = c THEN NoRequest ELSE desk[d]
<1> DEFINE o == desk[c].doc
           row == [purchase[o] EXCEPT !.status = "ORDERED"]
<1>1. /\ desk[c].op = "place" /\ Answered(c)
      /\ purchase' = [purchase EXCEPT ![o] = row]
  BY DEF PlaceDraft, Runs
<1>2. desk[c].op \in PurchaseOps
  BY <1>1 DEF PurchaseOps, DraftOps, StockOps
<1>3. o \in Purchases /\ purchase[o].status = "DRAFT"
  <2>1. desk[c].op \in DraftOps /\ PurchaseRequest(desk[c])
    BY <1>1 DEF DraftOps, PurchaseInv
  <2> QED
    BY <1>1, <1>2, <2>1 DEF PurchaseRequest, Admits
<1>4. purchase[o] \in PurchaseRow /\ PurchaseShape(purchase[o])
  BY <1>3 DEF PurchaseInv
<1>5. row \in PurchaseRow
  BY <1>4 DEF PurchaseRow, PurchaseStatuses
<1>6. row.status = "ORDERED" /\ row.ordered = purchase[o].ordered
        /\ row.received = purchase[o].received
  BY <1>4 DEF PurchaseRow
<1>7. PurchaseShape(row)
  BY <1>3, <1>4, <1>6 DEF PurchaseShape
<1> QED
  BY <1>1, <1>2, <1>5, <1>7, PurchaseWritten DEF StockOps

LEMMA DiscardDraftInv ==
  ASSUME DeskInv, PurchaseInv, NEW c \in Clerks, DiscardDraft(c)
  PROVE  /\ DeskInv' /\ PurchaseInv'
         /\ \A d \in Clerks : desk'[d] = IF d = c THEN NoRequest ELSE desk[d]
<1>1. /\ desk[c].op = "discard" /\ Answered(c)
      /\ purchase' = [purchase EXCEPT ![desk[c].doc] = NoPurchase]
  BY DEF DiscardDraft, Runs
<1>2. desk[c].op \in PurchaseOps
  BY <1>1 DEF PurchaseOps, DraftOps, StockOps
<1>3. NoPurchase \in PurchaseRow
  BY EmptyCartIsCart DEF NoPurchase, PurchaseRow, PurchaseStatuses
<1>4. PurchaseShape(NoPurchase)
  BY SMTT(30) DEF PurchaseShape, NoPurchase, EmptyCart
<1> QED
  BY <1>1, <1>2, <1>3, <1>4, PurchaseWritten DEF StockOps

\* The row a receipt writes.
ReceivedRow(c) ==
  LET row == purchase[desk[c].doc] IN
  [status |-> StatusAfter(desk[c].read, desk[c].cart), ordered |-> row.ordered,
   received |-> Plus(row.received, desk[c].cart)]

\* A receipt fits what its request loaded, and the order has received at least
\* as much by now; when the request finds the order complete, so it is.
LEMMA ReceivedRowFits ==
  ASSUME PurchaseInv, NEW c \in Clerks, desk[c].op = "receive"
  PROVE  /\ desk[c].doc \in Purchases /\ purchase[desk[c].doc] \in PurchaseRow
         /\ desk[c].cart \in Cart
         /\ ReceivedRow(c) \in PurchaseRow /\ PurchaseShape(ReceivedRow(c))
         /\ \A i \in Items :
              /\ ReceivedRow(c).received[i] = purchase[desk[c].doc].received[i] + desk[c].cart[i]
              /\ purchase[desk[c].doc].received[i] <= ReceivedRow(c).received[i]
         /\ ReceivedRow(c).status \in {"RECEIVED", "PARTIALLY_RECEIVED"}
<1> DEFINE o == desk[c].doc
           row == purchase[o]
           read == desk[c].read
           cart == desk[c].cart
<1>1. desk[c].op \in PurchaseOps /\ desk[c].op \in StockOps /\ PurchaseRequest(desk[c])
  BY DEF PurchaseOps, StockOps, PurchaseInv
<1>2. /\ o \in Purchases /\ read \in PurchaseRow /\ cart \in Cart
      /\ row.ordered = read.ordered
      /\ \A i \in Items : read.received[i] <= row.received[i]
  BY <1>1 DEF PurchaseRequest
<1>3. row \in PurchaseRow
  BY <1>2 DEF PurchaseInv
<1>4. row.ordered \in Cart /\ row.received \in Cart /\ read.received \in Cart
  BY <1>2, <1>3 DEF PurchaseRow
<1> DEFINE sum == Plus(row.received, cart)
           new == ReceivedRow(c)
<1>5. /\ sum \in Cart
      /\ \A i \in Items : sum[i] = row.received[i] + cart[i] /\ row.received[i] <= sum[i]
  BY <1>2, <1>4 DEF Plus, Cart
<1>6. new.status = StatusAfter(read, cart) /\ new.ordered = row.ordered /\ new.received = sum
  BY DEF ReceivedRow
<1>7. new.status \in {"RECEIVED", "PARTIALLY_RECEIVED"}
  BY <1>6 DEF StatusAfter
<1>8. new \in PurchaseRow
  BY <1>4, <1>5, <1>7 DEF ReceivedRow, PurchaseRow, PurchaseStatuses
<1>9. ASSUME new.status = "RECEIVED", NEW i \in Items PROVE sum[i] >= row.ordered[i]
  <2> HIDE DEF sum, new
  <2>1. Outstanding(read.ordered, Plus(read.received, cart)) = EmptyCart
    BY <1>6, <1>9 DEF StatusAfter
  <2>2. Outstanding(read.ordered, Plus(read.received, cart))[i] = 0
    BY <2>1 DEF EmptyCart
  <2>3. AtLeastZero(row.ordered[i] - (read.received[i] + cart[i])) = 0
    BY <1>2, <2>2 DEF Outstanding, Plus
  <2>4. /\ row.ordered[i] \in Int /\ row.received[i] \in Int
        /\ read.received[i] \in Int /\ cart[i] \in Int
    BY <1>2, <1>4 DEF Cart
  <2>5. row.ordered[i] <= read.received[i] + cart[i]
    BY <2>3, <2>4 DEF AtLeastZero
  <2>6. sum[i] = row.received[i] + cart[i] /\ read.received[i] <= row.received[i]
    BY <1>2, <1>5
  <2> QED
    BY <2>4, <2>5, <2>6
<1>10. PurchaseShape(new)
  <2> HIDE DEF new, sum
  <2> QED
    BY <1>6, <1>7, <1>9 DEF PurchaseShape
<1> QED
  BY <1>2, <1>3, <1>5, <1>6, <1>7, <1>8, <1>10

LEMMA ReceivePurchaseInv ==
  ASSUME DeskInv, PurchaseInv, NEW c \in Clerks, ReceivePurchase(c)
  PROVE  /\ DeskInv' /\ PurchaseInv'
         /\ \A d \in Clerks : desk'[d] = IF d = c THEN NoRequest ELSE desk[d]
<1>1. /\ desk[c].op = "receive" /\ Answered(c)
      /\ purchase' = [purchase EXCEPT ![desk[c].doc] = ReceivedRow(c)]
  BY DEF ReceivePurchase, Runs, ReceivedRow
<1>2. desk[c].op \in PurchaseOps
  BY <1>1 DEF PurchaseOps, DraftOps, StockOps
<1>3. /\ ReceivedRow(c) \in PurchaseRow /\ PurchaseShape(ReceivedRow(c))
      /\ ReceivedRow(c).status # "none"
      /\ \A i \in Items : purchase[desk[c].doc].received[i] <= ReceivedRow(c).received[i]
  BY <1>1, ReceivedRowFits
<1>4. ReceivedRow(c).ordered = purchase[desk[c].doc].ordered
  BY DEF ReceivedRow
<1> QED
  BY <1>1, <1>2, <1>3, <1>4, PurchaseWritten

LEMMA CancelPurchaseInv ==
  ASSUME DeskInv, PurchaseInv, NEW c \in Clerks, CancelPurchase(c)
  PROVE  /\ DeskInv' /\ PurchaseInv'
         /\ \A d \in Clerks : desk'[d] = IF d = c THEN NoRequest ELSE desk[d]
<1> DEFINE o == desk[c].doc
           row == [purchase[o] EXCEPT !.status = "CANCELLED"]
<1>1. /\ desk[c].op = "cancel" /\ Answered(c)
      /\ purchase' = [purchase EXCEPT ![o] = row]
  BY DEF CancelPurchase, Runs
<1>2. desk[c].op \in PurchaseOps
  BY <1>1 DEF PurchaseOps, DraftOps, StockOps
<1>3. o \in Purchases
  BY <1>2 DEF PurchaseInv, PurchaseRequest
<1>4. purchase[o] \in PurchaseRow /\ PurchaseShape(purchase[o])
  BY <1>3 DEF PurchaseInv
<1>5. row \in PurchaseRow
  BY <1>4 DEF PurchaseRow, PurchaseStatuses
<1>6. row.status = "CANCELLED" /\ row.ordered = purchase[o].ordered
        /\ row.received = purchase[o].received
  BY <1>4 DEF PurchaseRow
<1>7. PurchaseShape(row)
  BY <1>4, <1>6 DEF PurchaseShape
<1>8. \A i \in Items : purchase[o].received[i] <= row.received[i]
  BY <1>4, <1>6 DEF PurchaseRow, Cart
<1> HIDE DEF row
<1> QED
  BY <1>1, <1>2, <1>5, <1>6, <1>7, <1>8, PurchaseWritten

-----------------------------------------------------------------------------
(* Counter sales.                                                          *)

\* One sale is written; its requests are what they were or are answered.
LEMMA SaleWritten ==
  ASSUME SaleInv, NEW s \in SaleIds, NEW row \in SaleRow, SaleShape(row),
         sale' = [sale EXCEPT ![s] = row],
         \A d \in Clerks : desk'[d] = desk[d] \/ desk'[d] = NoRequest
  PROVE  SaleInv'
<1>1. \A t \in SaleIds : sale'[t] = IF t = s THEN row ELSE sale[t]
  BY DEF SaleInv
<1>2. sale' \in [SaleIds -> SaleRow]
  BY DEF SaleInv
<1>3. \A t \in SaleIds : SaleShape(sale'[t])
  BY <1>1 DEF SaleInv
<1>4. NoRequest.op \notin SaleOps
  BY DEF NoRequest, SaleOps
<1>5. ASSUME NEW d \in Clerks PROVE SaleRequest(desk'[d])
  BY <1>4 DEF SaleInv, SaleRequest, SaleOps
<1> QED
  BY <1>2, <1>3, <1>5 DEF SaleInv, SaleRequest, SaleShape

LEMMA CreateSaleInv ==
  ASSUME DeskInv, SaleInv, NEW s \in SaleIds, CreateSale(s)
  PROVE  DeskInv' /\ SaleInv'
<1>1. PICK cart \in Baskets : sale' = [sale EXCEPT ![s] =
                     [status |-> "COMPLETED", sold |-> cart, refunded |-> EmptyCart]]
  BY DEF CreateSale
<1> DEFINE row == [status |-> "COMPLETED", sold |-> cart, refunded |-> EmptyCart]
<1>2. cart \in Cart
  BY SalesAssumption
<1>3. row \in SaleRow
  BY <1>2, EmptyCartIsCart DEF SaleRow, SaleStatuses
<1>4. SaleShape(row)
  BY <1>2 DEF SaleShape, EmptyCart, Cart
<1>5. desk' = desk
  BY DEF CreateSale
<1>6. SaleInv'
  BY <1>1, <1>3, <1>4, <1>5, SaleWritten
<1> QED
  BY <1>5, <1>6 DEF DeskInv, Busy

LEMMA OpenSaleInv ==
  ASSUME FewMeet, DeskInv, SaleInv, NEW c \in Clerks, NEW s \in SaleIds,
         OpenVoid(c, s) \/ OpenRefund(c, s)
  PROVE  /\ DeskInv' /\ SaleInv'
         /\ stock' = stock /\ sale' = sale
         /\ \A d \in Clerks : desk'[d] = desk[d] \/ desk'[d].op \in SaleOps
<1>1. PICK r : /\ TakeUp(c, r) /\ r.op \in SaleOps /\ SaleRequest(r)
               /\ stock' = stock /\ sale' = sale
  <2>1. CASE OpenVoid(c, s)
    BY <2>1 DEF OpenVoid, SaleOps, SaleRequest
  <2>2. CASE OpenRefund(c, s)
    <3>1. PICK cart \in Refunds : TakeUp(c, [op |-> "refund", doc |-> s, cart |-> cart])
      BY <2>2 DEF OpenRefund
    <3>2. SaleRequest([op |-> "refund", doc |-> s, cart |-> cart])
      BY DEF SaleRequest
    <3>3. stock' = stock /\ sale' = sale
      BY <2>2 DEF OpenRefund
    <3> QED
      BY <3>1, <3>2, <3>3 DEF SaleOps
  <2> QED
    BY <2>1, <2>2
<1>2. r.op \in Ops \ {"none"}
  BY <1>1 DEF Ops, SaleOps
<1>3. DeskInv' /\ \A d \in Clerks : desk'[d] = IF d = c THEN r ELSE desk[d]
  BY <1>1, <1>2, TakeUpDesk
<1>4. \A d \in Clerks : SaleRequest(desk'[d])
  BY <1>1, <1>3 DEF SaleInv
<1>5. SaleInv'
  BY <1>1, <1>4 DEF SaleInv, SaleRequest, SaleShape
<1> QED
  BY <1>1, <1>3, <1>5

LEMMA VoidSaleInv ==
  ASSUME DeskInv, SaleInv, NEW c \in Clerks, VoidSale(c)
  PROVE  /\ DeskInv' /\ SaleInv'
         /\ \A d \in Clerks : desk'[d] = IF d = c THEN NoRequest ELSE desk[d]
<1> DEFINE s == desk[c].doc
           row == [sale[s] EXCEPT !.status = "VOID"]
<1>1. desk[c].op = "void" /\ Answered(c)
  BY DEF VoidSale
<1>2. DeskInv' /\ \A d \in Clerks : desk'[d] = IF d = c THEN NoRequest ELSE desk[d]
  BY <1>1, AnsweredDesk
<1>3. s \in SaleIds
  BY <1>1 DEF SaleInv, SaleRequest, SaleOps
<1>4. sale[s] \in SaleRow /\ SaleShape(sale[s])
  BY <1>3 DEF SaleInv
<1>5. CASE VoidStands(s)
  <2>1. sale' = [sale EXCEPT ![s] = row]
    BY <1>5 DEF VoidSale
  <2>2. row \in SaleRow
    BY <1>4 DEF SaleRow, SaleStatuses
  <2>3. row.status = "VOID" /\ row.refunded = sale[s].refunded /\ row.sold = sale[s].sold
    BY <1>4 DEF SaleRow
  <2>4. SaleShape(row)
    BY <1>4, <1>5, <2>3 DEF SaleShape, VoidStands, Voidable, HasRefund
  <2> QED
    BY <1>2, <1>3, <2>1, <2>2, <2>4, SaleWritten
<1>6. CASE ~VoidStands(s)
  <2>1. sale' = sale
    BY <1>6 DEF VoidSale
  <2>2. NoRequest.op \notin SaleOps
    BY DEF NoRequest, SaleOps
  <2> QED
    BY <1>2, <2>1, <2>2, SalesLeft
<1> QED
  BY <1>2, <1>5, <1>6

\* The row a refund writes.
RefundedRow(s, cart) ==
  [status |-> "PARTIALLY_REFUNDED", sold |-> sale[s].sold,
   refunded |-> [i \in Items |-> sale[s].refunded[i] + cart[i]]]

LEMMA RefundedRowFits ==
  ASSUME SaleInv, NEW s \in SaleIds, NEW cart \in Refunds, RefundStands(s, cart)
  PROVE  RefundedRow(s, cart) \in SaleRow /\ SaleShape(RefundedRow(s, cart))
<1>1. cart \in Cart
  BY SalesAssumption
<1>2. sale[s].sold \in Cart /\ sale[s].refunded \in Cart
  BY DEF SaleInv, SaleRow
<1>3. [i \in Items |-> sale[s].refunded[i] + cart[i]] \in Cart
  BY <1>1, <1>2 DEF Cart
<1>4. RefundedRow(s, cart) \in SaleRow
  BY <1>2, <1>3 DEF RefundedRow, SaleRow, SaleStatuses
<1>5. \A i \in Items : sale[s].refunded[i] + cart[i] <= sale[s].sold[i]
  BY <1>1, <1>2 DEF RefundStands, Refundable, Cart
<1> QED
  BY <1>4, <1>5 DEF RefundedRow, SaleShape

LEMMA RefundSaleInv ==
  ASSUME DeskInv, SaleInv, NEW c \in Clerks, RefundSale(c)
  PROVE  /\ DeskInv' /\ SaleInv'
         /\ \A d \in Clerks : desk'[d] = IF d = c THEN NoRequest ELSE desk[d]
<1> DEFINE s == desk[c].doc
           cart == desk[c].cart
<1>1. desk[c].op = "refund" /\ Answered(c)
  BY DEF RefundSale
<1>2. DeskInv' /\ \A d \in Clerks : desk'[d] = IF d = c THEN NoRequest ELSE desk[d]
  BY <1>1, AnsweredDesk
<1>3. s \in SaleIds /\ cart \in Refunds
  BY <1>1 DEF SaleInv, SaleRequest, SaleOps
<1>4. CASE RefundStands(s, cart)
  <2>1. sale' = [sale EXCEPT ![s] = RefundedRow(s, cart)]
    BY <1>4 DEF RefundSale, RefundedRow
  <2> QED
    BY <1>2, <1>3, <1>4, <2>1, RefundedRowFits, SaleWritten
<1>5. CASE ~RefundStands(s, cart)
  <2>1. sale' = sale
    BY <1>5 DEF RefundSale
  <2>2. NoRequest.op \notin SaleOps
    BY DEF NoRequest, SaleOps
  <2> QED
    BY <1>2, <2>1, <2>2, SalesLeft
<1> QED
  BY <1>2, <1>4, <1>5

-----------------------------------------------------------------------------
(* Stock counts.                                                           *)

LEMMA CreateOpnameInv ==
  ASSUME DeskInv, CountInv, NEW n \in Opnames, CreateOpname(n)
  PROVE  DeskInv' /\ CountInv'
<1>1. /\ opname[n].status = "none"
      /\ opname' = [opname EXCEPT ![n].status = "DRAFT"]
      /\ desk' = desk /\ missing' = missing
  BY DEF CreateOpname
<1>2. opname' \in [Opnames -> OpnameRow]
  BY <1>1 DEF CountInv, OpnameRow
<1>3. \A m \in Opnames :
        /\ opname'[m].item = opname[m].item
        /\ m # n => opname'[m] = opname[m]
  BY <1>1 DEF CountInv, OpnameRow
<1>4. VarianceInv'
  BY <1>3 DEF CountInv, VarianceInv, Counted
<1>5. ASSUME NEW c \in Clerks PROVE CountRequest(desk[c])'
  <2>1. SUFFICES ASSUME desk[c].op \in CountOps PROVE CountRequest(desk[c])'
    BY <1>1 DEF CountRequest
  <2>2. CountRequest(desk[c])
    BY DEF CountInv
  <2>3. desk[c].doc \in Opnames /\ desk[c].doc # n
    BY <1>1, <2>1, <2>2 DEF CountRequest
  <2> QED
    BY <1>1, <1>3, <2>2, <2>3 DEF CountRequest
<1>6. DeskInv'
  BY <1>1 DEF DeskInv, Busy
<1> QED
  BY <1>1, <1>2, <1>4, <1>5, <1>6 DEF CountInv

LEMMA LoseUnitInv ==
  ASSUME DeskInv, CountInv, NEW v \in Variants, LoseUnit(v)
  PROVE  DeskInv' /\ CountInv'
<1>1. PICK m \in {missing[v] - 1, missing[v] + 1} :
        m \in -MaxLoss..MaxLoss /\ missing' = [missing EXCEPT ![v] = m]
  BY DEF LoseUnit
<1>2. missing' \in [Variants -> Int]
  BY <1>1, OpnamesAssumption DEF CountInv
<1>3. opname' = opname /\ desk' = desk
  BY DEF LoseUnit
<1>4. VarianceInv' /\ \A c \in Clerks : CountRequest(desk[c])'
  BY <1>3 DEF CountInv, VarianceInv, Counted, CountRequest
<1> QED
  BY <1>2, <1>3, <1>4 DEF CountInv, DeskInv, Busy

\* A request on a count is taken up.
LEMMA OpenSessionInv ==
  ASSUME FewMeet, DeskInv, CountInv, NEW c \in Clerks, NEW n \in Opnames, NEW r,
         OpenSession(c, n, r), r.op \in CountOps, opname[n].status = "DRAFT" => CountRequest(r)
  PROVE  /\ DeskInv' /\ CountInv'
         /\ stock' = stock /\ opname' = opname /\ missing' = missing
         /\ \A d \in Clerks : desk'[d] = desk[d] \/ desk'[d].op \in CountOps
<1>1. /\ TakeUp(c, r) /\ CountRequest(r)
      /\ stock' = stock /\ opname' = opname /\ missing' = missing
  BY DEF OpenSession
<1>2. r.op \in Ops \ {"none"}
  BY DEF Ops, CountOps
<1>3. DeskInv' /\ \A d \in Clerks : desk'[d] = IF d = c THEN r ELSE desk[d]
  BY <1>1, <1>2, TakeUpDesk
<1>4. \A d \in Clerks : CountRequest(desk'[d])
  BY <1>1, <1>3 DEF CountInv
<1>5. CountInv'
  BY <1>1, <1>4 DEF CountInv, CountRequest, VarianceInv, Counted
<1> QED
  BY <1>1, <1>3, <1>5

OpensCount(c, n) ==
  \/ OpenCount(c, n) \/ OpenScan(c, n) \/ OpenRemove(c, n)
  \/ OpenComplete(c, n) \/ OpenCancelCount(c, n)

LEMMA OpensCountInv ==
  ASSUME FewMeet, DeskInv, CountInv, stock \in [Variants -> Row],
         NEW c \in Clerks, NEW n \in Opnames, OpensCount(c, n)
  PROVE  /\ DeskInv' /\ CountInv'
         /\ stock' = stock /\ opname' = opname /\ missing' = missing
         /\ \A d \in Clerks : desk'[d] = desk[d] \/ desk'[d].op \in CountOps
<1>1. \A v \in Variants : /\ stock[v].available \in Int /\ missing[v] \in Int
                          /\ opname[n].item[v] \in OpnameItem \cup {NoItem}
  BY DEF CountInv, OpnameRow, Row
<1>2. CASE OpenCount(c, n)
  <2>1. PICK v \in Variants, counted \in 0..MaxCount :
          OpenSession(c, n, [op |-> "count", doc |-> n, variant |-> v, counted |-> counted,
                             existing |-> opname[n].item[v], system |-> stock[v].available,
                             since |-> missing[v]])
    BY <1>2 DEF OpenCount
  <2> DEFINE r == [op |-> "count", doc |-> n, variant |-> v, counted |-> counted,
                   existing |-> opname[n].item[v], system |-> stock[v].available,
                   since |-> missing[v]]
  <2>2. r.op \in CountOps
    BY DEF CountOps
  <2>3. opname[n].status = "DRAFT" => CountRequest(r)
    BY <1>1, OpnamesAssumption DEF CountRequest
  <2> HIDE DEF r
  <2>4. OpenSession(c, n, r)
    BY <2>1 DEF r
  <2> QED
    BY <2>2, <2>3, <2>4, OpenSessionInv
<1>3. CASE OpenScan(c, n)
  <2>1. PICK v \in Variants :
          OpenSession(c, n, [op |-> "scan", doc |-> n, variant |-> v, existing |-> NoItem,
                             system |-> stock[v].available, since |-> missing[v]])
    BY <1>3 DEF OpenScan
  <2> DEFINE r == [op |-> "scan", doc |-> n, variant |-> v, existing |-> NoItem,
                   system |-> stock[v].available, since |-> missing[v]]
  <2>2. r.op \in CountOps
    BY DEF CountOps
  <2>3. opname[n].status = "DRAFT" => CountRequest(r)
    BY <1>1 DEF CountRequest
  <2> HIDE DEF r
  <2>4. OpenSession(c, n, r)
    BY <2>1 DEF r
  <2> QED
    BY <2>2, <2>3, <2>4, OpenSessionInv
<1>4. CASE OpenRemove(c, n)
  <2>1. PICK v \in Variants : OpenSession(c, n, [op |-> "remove", doc |-> n, variant |-> v])
    BY <1>4 DEF OpenRemove
  <2> DEFINE r == [op |-> "remove", doc |-> n, variant |-> v]
  <2>2. r.op \in CountOps /\ (opname[n].status = "DRAFT" => CountRequest(r))
    BY DEF CountOps, CountRequest
  <2> QED
    BY <2>1, <2>2, OpenSessionInv
<1>5. CASE OpenComplete(c, n)
  <2> DEFINE r == [op |-> "complete", doc |-> n, items |-> opname[n].item]
  <2>1. OpenSession(c, n, r)
    BY <1>5 DEF OpenComplete
  <2>2. r.op \in CountOps /\ (opname[n].status = "DRAFT" => CountRequest(r))
    BY DEF CountOps, CountRequest
  <2> QED
    BY <2>1, <2>2, OpenSessionInv
<1>6. CASE OpenCancelCount(c, n)
  <2> DEFINE r == [op |-> "cancelCount", doc |-> n]
  <2>1. OpenSession(c, n, r)
    BY <1>6 DEF OpenCancelCount
  <2>2. r.op \in CountOps /\ (opname[n].status = "DRAFT" => CountRequest(r))
    BY DEF CountOps, CountRequest
  <2> QED
    BY <2>1, <2>2, OpenSessionInv
<1> QED
  BY <1>2, <1>3, <1>4, <1>5, <1>6 DEF OpensCount

RowVariance(row) ==
  \A v \in Counted(row.item) : row.item[v].variance = row.item[v].counted - row.item[v].system

\* The transaction of a count request writes the one session it works on.
LEMMA CountWritten ==
  ASSUME DeskInv, CountInv, NEW c \in Clerks, desk[c].op \in CountOps, Answered(c),
         NEW row \in OpnameRow, RowVariance(row),
         opname' = [opname EXCEPT ![desk[c].doc] = row],
         missing' \in [Variants -> Int]
  PROVE  /\ DeskInv' /\ CountInv'
         /\ \A d \in Clerks : desk'[d] = IF d = c THEN NoRequest ELSE desk[d]
<1>1. DeskInv' /\ \A d \in Clerks : desk'[d] = IF d = c THEN NoRequest ELSE desk[d]
  BY AnsweredDesk
<1>2. desk[c].doc \in Opnames
  BY DEF CountInv, CountRequest
<1>3. \A n \in Opnames : opname'[n] = IF n = desk[c].doc THEN row ELSE opname[n]
  BY DEF CountInv
<1>4. opname' \in [Opnames -> OpnameRow]
  BY DEF CountInv
<1>5. ASSUME NEW n \in Opnames, NEW v \in Counted(opname'[n].item)
      PROVE  opname'[n].item[v].variance = opname'[n].item[v].counted - opname'[n].item[v].system
  <2>1. CASE n = desk[c].doc
    BY <1>3, <1>5, <2>1 DEF RowVariance
  <2>2. CASE n # desk[c].doc
    BY <1>3, <1>5, <2>2 DEF CountInv, VarianceInv
  <2> QED
    BY <2>1, <2>2
<1>6. VarianceInv'
  BY <1>5 DEF VarianceInv, Counted
<1>7. ASSUME NEW d \in Clerks, desk'[d].op \in CountOps
      PROVE  /\ desk'[d] = desk[d] /\ desk[d].doc \in Opnames
             /\ opname'[desk[d].doc] = opname[desk[d].doc]
  <2>1. d # c /\ desk'[d] = desk[d]
    BY <1>1, <1>7 DEF NoRequest, CountOps
  <2>2. desk[d].op \in Ops \ {"none"}
    BY <1>7, <2>1 DEF Ops, CountOps
  <2>3. desk[d].doc # desk[c].doc
    BY <2>1, <2>2, WorksAlone
  <2>4. desk[d].doc \in Opnames
    BY <1>7, <2>1 DEF CountInv, CountRequest
  <2> QED
    BY <1>3, <2>1, <2>3, <2>4
<1>8. ASSUME NEW d \in Clerks PROVE CountRequest(desk[d])'
  <2>1. CountRequest(desk[d])
    BY DEF CountInv
  <2> QED
    BY <1>7, <2>1 DEF CountRequest
<1> QED
  BY <1>1, <1>4, <1>6, <1>8 DEF CountInv

LEMMA LineFits ==
  ASSUME NEW system \in Int, NEW counted \in Nat, NEW scans \in Nat, NEW since \in Int
  PROVE  /\ Line(system, counted, scans, since) \in OpnameItem
         /\ Line(system, counted, scans, since).variance
              = Line(system, counted, scans, since).counted
                  - Line(system, counted, scans, since).system
BY DEF Line, OpnameItem

\* Writing one line of a session keeps the session's row.
LEMMA LineWritten ==
  ASSUME DeskInv, CountInv, NEW c \in Clerks, desk[c].op \in CountOps, Answered(c),
         NEW v \in Variants, NEW item \in OpnameItem \cup {NoItem},
         item # NoItem => item.variance = item.counted - item.system,
         opname' = [opname EXCEPT ![desk[c].doc].item[v] = item],
         missing' = missing
  PROVE  /\ DeskInv' /\ CountInv'
         /\ \A d \in Clerks : desk'[d] = IF d = c THEN NoRequest ELSE desk[d]
<1> DEFINE n == desk[c].doc
           row == [opname[n] EXCEPT !.item = [opname[n].item EXCEPT ![v] = item]]
<1>1. n \in Opnames
  BY DEF CountInv, CountRequest
<1>2. opname[n] \in OpnameRow
  BY <1>1 DEF CountInv
<1>3. opname[n].item \in [Variants -> OpnameItem \cup {NoItem}]
  BY <1>2 DEF OpnameRow
<1>4. row \in OpnameRow
  BY <1>2, <1>3 DEF OpnameRow
<1>5. \A u \in Variants : row.item[u] = IF u = v THEN item ELSE opname[n].item[u]
  BY <1>2, <1>3 DEF OpnameRow
<1>6. opname' = [opname EXCEPT ![n] = row]
  OBVIOUS
<1>7. ASSUME NEW u \in Counted(row.item)
      PROVE  row.item[u].variance = row.item[u].counted - row.item[u].system
  <2>1. u \in Variants /\ row.item[u] # NoItem
    BY DEF Counted
  <2>2. CASE u = v
    BY <1>5, <2>1, <2>2
  <2>3. CASE u # v
    <3>1. row.item[u] = opname[n].item[u] /\ u \in Counted(opname[n].item)
      BY <1>5, <2>1, <2>3 DEF Counted
    <3> QED
      BY <1>1, <3>1 DEF CountInv, VarianceInv
  <2> QED
    BY <2>2, <2>3
<1>8. RowVariance(row)
  BY <1>7 DEF RowVariance
<1>9. missing' \in [Variants -> Int]
  BY DEF CountInv
<1> HIDE DEF row
<1> QED
  BY <1>4, <1>6, <1>8, <1>9, CountWritten

LEMMA WriteCountInv ==
  ASSUME DeskInv, CountInv, NEW c \in Clerks, WriteCount(c)
  PROVE  /\ DeskInv' /\ CountInv' /\ stock' = stock
         /\ \A d \in Clerks : desk'[d] = IF d = c THEN NoRequest ELSE desk[d]
<1> DEFINE r == desk[c]
           since == IF r.existing = NoItem THEN r.since ELSE r.existing.since
           item == Line(Baseline(r.existing, r.system), r.counted, r.counted, since)
<1>1. /\ r.op = "count" /\ Answered(c) /\ stock' = stock /\ missing' = missing
      /\ opname' = [opname EXCEPT ![r.doc].item[r.variant] = item]
  BY DEF WriteCount
<1>2. r.op \in CountOps
  BY <1>1 DEF CountOps
<1>3. /\ r.variant \in Variants /\ r.system \in Int /\ r.since \in Int
      /\ r.existing \in OpnameItem \cup {NoItem} /\ r.counted \in Nat
  BY <1>1, <1>2 DEF CountInv, CountRequest
<1>4. Baseline(r.existing, r.system) \in Int /\ since \in Int
  BY <1>3 DEF Baseline, OpnameItem
<1>5. item \in OpnameItem /\ item.variance = item.counted - item.system
  BY <1>3, <1>4, LineFits
<1> HIDE DEF item
<1> QED
  BY <1>1, <1>2, <1>3, <1>5, LineWritten

LEMMA ReadScanInv ==
  ASSUME DeskInv, CountInv, NEW c \in Clerks, ReadScan(c)
  PROVE  /\ DeskInv' /\ CountInv'
         /\ stock' = stock /\ opname' = opname /\ missing' = missing
         /\ \A d \in Clerks : desk'[d] = desk[d] \/ desk'[d].op \in CountOps
<1> DEFINE q == desk[c]
           r == [op |-> "tally", doc |-> q.doc, variant |-> q.variant, system |-> q.system,
                 since |-> q.since, existing |-> opname[q.doc].item[q.variant]]
<1>1. /\ q.op = "scan" /\ stock' = stock /\ opname' = opname /\ missing' = missing
      /\ desk' = [desk EXCEPT ![c] = r]
  BY DEF ReadScan
<1>2. q.op \in CountOps /\ r.op \in CountOps /\ r.op \in Ops \ {"none"} /\ r # NoRequest
  BY <1>1 DEF CountOps, Ops, NoRequest
<1>3. desk = [d \in Clerks |-> desk[d]]
  BY DEF DeskInv
<1>4. \A d \in Clerks : desk'[d] = IF d = c THEN r ELSE desk[d]
  BY <1>1, <1>3
<1>5. desk' = [d \in Clerks |-> desk'[d]]
  BY <1>1, <1>3
<1>6. ASSUME NEW d \in Clerks, d # c, desk[d] # NoRequest PROVE desk[d].doc # r.doc
  <2>1. desk[d].op \in Ops \ {"none"}
    BY <1>6 DEF DeskInv
  <2> QED
    BY <1>2, <1>6, <2>1, WorksAlone
<1>7. DeskInv'
  BY <1>2, <1>4, <1>5, <1>6 DEF DeskInv, Busy
<1>8. /\ q.doc \in Opnames /\ opname[q.doc].status = "DRAFT" /\ q.variant \in Variants
      /\ q.system \in Int /\ q.since \in Int
  BY <1>1, <1>2 DEF CountInv, CountRequest
<1>9. opname[q.doc].item[q.variant] \in OpnameItem \cup {NoItem}
  BY <1>8 DEF CountInv, OpnameRow
<1>10. CountRequest(r)
  BY <1>8, <1>9 DEF CountRequest
<1>11. \A d \in Clerks : CountRequest(desk'[d])
  BY <1>4, <1>10 DEF CountInv
<1>12. CountInv'
  BY <1>1, <1>11 DEF CountInv, CountRequest, VarianceInv, Counted
<1> QED
  BY <1>1, <1>2, <1>4, <1>7, <1>12

LEMMA WriteScanInv ==
  ASSUME DeskInv, CountInv, NEW c \in Clerks, WriteScan(c)
  PROVE  /\ DeskInv' /\ CountInv' /\ stock' = stock
         /\ \A d \in Clerks : desk'[d] = IF d = c THEN NoRequest ELSE desk[d]
<1> DEFINE r == desk[c]
           now == opname[r.doc].item[r.variant]
           added == IF r.existing = NoItem THEN Line(r.system, 1, 1, r.since)
                    ELSE Line(r.existing.system, r.existing.counted + 1,
                              now.scans + 1, r.existing.since)
<1>1. /\ r.op = "tally" /\ Answered(c) /\ stock' = stock /\ missing' = missing
      /\ opname' = IF (r.existing = NoItem) = (now = NoItem)
                   THEN [opname EXCEPT ![r.doc].item[r.variant] = added]
                   ELSE opname
  BY DEF WriteScan
<1>2. r.op \in CountOps
  BY <1>1 DEF CountOps
<1>3. CASE (r.existing = NoItem) = (now = NoItem)
  <2>1. opname' = [opname EXCEPT ![r.doc].item[r.variant] = added]
    BY <1>1, <1>3
  <2>2. /\ r.doc \in Opnames /\ r.variant \in Variants /\ r.system \in Int /\ r.since \in Int
        /\ r.existing \in OpnameItem \cup {NoItem}
    BY <1>1, <1>2 DEF CountInv, CountRequest
  <2>3. now \in OpnameItem \cup {NoItem}
    BY SMTT(30), <2>2 DEF CountInv, OpnameRow
  <2>4. added \in OpnameItem /\ added.variance = added.counted - added.system
    <3>1. CASE r.existing = NoItem
      <4>1. r.system \in Int /\ 1 \in Nat /\ r.since \in Int
        BY <2>2
      <4>2. added = Line(r.system, 1, 1, r.since)
        BY <3>1
      <4> HIDE DEF added
      <4> QED
        BY Zenon, <4>1, <4>2, LineFits
    <3>2. CASE r.existing # NoItem
      <4>1. now # NoItem
        BY <1>3, <3>2
      <4>2. /\ r.existing.system \in Int /\ r.existing.counted + 1 \in Nat
            /\ r.existing.since \in Int /\ now.scans + 1 \in Nat
        BY <2>2, <2>3, <3>2, <4>1 DEF OpnameItem
      <4> QED
        BY ZenonT(60), <3>2, <4>2, LineFits
    <3> QED
      BY Zenon, <3>1, <3>2
  <2> HIDE DEF added
  <2> QED
    BY ZenonT(60), <1>1, <1>2, <2>1, <2>2, <2>4, LineWritten
<1>4. CASE ~((r.existing = NoItem) = (now = NoItem))
  <2>1. opname' = opname
    BY <1>1, <1>4
  <2>2. DeskInv' /\ \A d \in Clerks : desk'[d] = IF d = c THEN NoRequest ELSE desk[d]
    BY <1>1, AnsweredDesk
  <2>3. NoRequest.op \notin CountOps
    BY DEF NoRequest, CountOps
  <2> QED
    BY <1>1, <2>1, <2>2, <2>3, CountsLeft
<1> QED
  BY <1>3, <1>4

LEMMA RemoveItemInv ==
  ASSUME DeskInv, CountInv, NEW c \in Clerks, RemoveItem(c)
  PROVE  /\ DeskInv' /\ CountInv' /\ stock' = stock
         /\ \A d \in Clerks : desk'[d] = IF d = c THEN NoRequest ELSE desk[d]
<1>1. /\ desk[c].op = "remove" /\ Answered(c) /\ stock' = stock /\ missing' = missing
      /\ opname' = [opname EXCEPT ![desk[c].doc].item[desk[c].variant] = NoItem]
  BY DEF RemoveItem
<1>2. desk[c].op \in CountOps
  BY <1>1 DEF CountOps
<1>3. desk[c].variant \in Variants
  BY <1>1, <1>2 DEF CountInv, CountRequest
<1> QED
  BY <1>1, <1>2, <1>3, LineWritten

\* Only the status of a session changes when it is posted or cancelled.
LEMMA SessionClosed ==
  ASSUME DeskInv, CountInv, NEW c \in Clerks, desk[c].op \in CountOps, Answered(c),
         NEW status \in {"COMPLETED", "CANCELLED"},
         opname' = [opname EXCEPT ![desk[c].doc].status = status],
         missing' \in [Variants -> Int]
  PROVE  /\ DeskInv' /\ CountInv'
         /\ \A d \in Clerks : desk'[d] = IF d = c THEN NoRequest ELSE desk[d]
<1> DEFINE n == desk[c].doc
           row == [opname[n] EXCEPT !.status = status]
<1>1. n \in Opnames
  BY DEF CountInv, CountRequest
<1>2. opname[n] \in OpnameRow
  BY <1>1 DEF CountInv
<1>3. row \in OpnameRow /\ row.item = opname[n].item
  BY <1>2 DEF OpnameRow
<1>4. RowVariance(row)
  BY <1>1, <1>3 DEF CountInv, VarianceInv, RowVariance
<1> QED
  BY <1>3, <1>4, CountWritten

\* What posting corrects the books of variant v by.
CorrectionOf(items, v) ==
  IF items[v] = NoItem THEN 0 ELSE Correction(items[v], stock[v].available)

LEMMA CompleteOpnameFits ==
  ASSUME CountInv, NEW c \in Clerks, CompleteOpname(c)
  PROVE  /\ desk[c].op \in CountOps /\ desk[c].doc \in Opnames
         /\ opname[desk[c].doc].status = "DRAFT"
         /\ \A v \in Variants :
              LET item == opname[desk[c].doc].item[v] IN
              /\ item \in OpnameItem \cup {NoItem}
              /\ CorrectionOf(desk[c].items, v) = IF item = NoItem THEN 0 ELSE item.variance
              /\ CorrectionOf(desk[c].items, v) \in Int
         /\ missing' = [v \in Variants |-> missing[v] + CorrectionOf(desk[c].items, v)]
         /\ stock' = [v \in Variants |->
              Written([kind |-> "RECONCILE", variant |-> v,
                       qty |-> CorrectionOf(desk[c].items, v)], stock[v], stock[v])]
<1>1. desk[c].op = "complete" /\ desk[c].op \in CountOps
  BY DEF CompleteOpname, CountOps
<1>2. /\ desk[c].doc \in Opnames /\ opname[desk[c].doc].status = "DRAFT"
      /\ desk[c].items = opname[desk[c].doc].item
  BY <1>1 DEF CountInv, CountRequest
<1>3. opname[desk[c].doc].item \in [Variants -> OpnameItem \cup {NoItem}]
  BY <1>2 DEF CountInv, OpnameRow
<1>4. ASSUME NEW v \in Variants
      PROVE  LET item == opname[desk[c].doc].item[v] IN
             /\ item \in OpnameItem \cup {NoItem}
             /\ CorrectionOf(desk[c].items, v) = IF item = NoItem THEN 0 ELSE item.variance
             /\ CorrectionOf(desk[c].items, v) \in Int
  BY <1>2, <1>3 DEF CorrectionOf, Correction, OpnameItem
<1>5. /\ missing' = [v \in Variants |-> missing[v] + CorrectionOf(desk[c].items, v)]
      /\ stock' = [v \in Variants |->
           Written([kind |-> "RECONCILE", variant |-> v,
                    qty |-> CorrectionOf(desk[c].items, v)], stock[v], stock[v])]
  BY Zenon DEF CompleteOpname, CorrectionOf
<1> QED
  BY <1>1, <1>2, <1>4, <1>5

LEMMA CompleteOpnameInv ==
  ASSUME DeskInv, CountInv, NEW c \in Clerks, CompleteOpname(c)
  PROVE  /\ DeskInv' /\ CountInv'
         /\ \A d \in Clerks : desk'[d] = IF d = c THEN NoRequest ELSE desk[d]
<1>1. Answered(c) /\ opname' = [opname EXCEPT ![desk[c].doc].status = "COMPLETED"]
  BY DEF CompleteOpname
<1>2. desk[c].op \in CountOps
  BY CompleteOpnameFits
<1>3. missing' \in [Variants -> Int]
  BY CompleteOpnameFits DEF CountInv
<1> QED
  BY <1>1, <1>2, <1>3, SessionClosed

LEMMA CancelOpnameInv ==
  ASSUME DeskInv, CountInv, NEW c \in Clerks, CancelOpname(c)
  PROVE  /\ DeskInv' /\ CountInv' /\ stock' = stock
         /\ \A d \in Clerks : desk'[d] = IF d = c THEN NoRequest ELSE desk[d]
<1>1. /\ Answered(c) /\ desk[c].op \in CountOps /\ stock' = stock /\ missing' = missing
      /\ opname' = [opname EXCEPT ![desk[c].doc].status = "CANCELLED"]
  BY DEF CancelOpname, CountOps
<1>2. missing' \in [Variants -> Int]
  BY <1>1 DEF CountInv
<1> QED
  BY <1>1, <1>2, SessionClosed

-----------------------------------------------------------------------------
(* Units of a variant in a cart.                                           *)

ItemsOf(v) == {i \in Items : VariantOf[i] = v}

LEMMA ItemsOfFinite == \A v : IsFiniteSet(ItemsOf(v)) /\ ItemsOf(v) \subseteq Items
BY ItemsAssumption, FS_Subset DEF ItemsOf

\* What the stock moves by is a sum over the lines of the variant: it adds,
\* subtracts, negates and compares like the carts.
LEMMA UnitsType ==
  ASSUME NEW cart, NEW v
  PROVE  /\ cart \in Cart => Units(cart, v) \in Nat
         /\ cart \in [Items -> Int] => Units(cart, v) \in Int
<1>1. IsFiniteSet(ItemsOf(v)) /\ ItemsOf(v) \subseteq Items
  BY ItemsOfFinite
<1>2. Units(cart, v) = SumFunctionOnSet(cart, ItemsOf(v))
  BY DEF Units, ItemsOf
<1>3. ASSUME cart \in Cart PROVE Units(cart, v) \in Nat
  BY <1>1, <1>2, <1>3, SumNat DEF Cart
<1>4. ASSUME cart \in [Items -> Int] PROVE Units(cart, v) \in Int
  BY <1>1, <1>2, <1>4, SumType DEF Integral
<1> QED
  BY <1>3, <1>4

LEMMA UnitsMinus ==
  ASSUME NEW a \in [Items -> Int], NEW b \in [Items -> Int], NEW d,
         \A i \in Items : d[i] = a[i] - b[i], NEW v
  PROVE  Units(d, v) = Units(a, v) - Units(b, v)
<1>1. IsFiniteSet(ItemsOf(v)) /\ ItemsOf(v) \subseteq Items
  BY ItemsOfFinite
<1>2. Integral(a, ItemsOf(v)) /\ Integral(b, ItemsOf(v))
  BY <1>1 DEF Integral
<1>3. \A i \in ItemsOf(v) : d[i] = a[i] - b[i]
  BY <1>1
<1>4. SumFunctionOnSet(d, ItemsOf(v))
        = SumFunctionOnSet(a, ItemsOf(v)) - SumFunctionOnSet(b, ItemsOf(v))
  BY <1>1, <1>2, <1>3, SumMinus
<1> QED
  BY <1>4 DEF Units, ItemsOf

LEMMA UnitsPlus ==
  ASSUME NEW a \in [Items -> Int], NEW b \in [Items -> Int], NEW d,
         \A i \in Items : d[i] = a[i] + b[i], NEW v
  PROVE  Units(d, v) = Units(a, v) + Units(b, v)
<1>1. IsFiniteSet(ItemsOf(v)) /\ ItemsOf(v) \subseteq Items
  BY ItemsOfFinite
<1>2. Integral(a, ItemsOf(v)) /\ Integral(b, ItemsOf(v))
  BY <1>1 DEF Integral
<1>3. \A i \in ItemsOf(v) : d[i] = a[i] + b[i]
  BY <1>1
<1>4. SumFunctionOnSet(d, ItemsOf(v))
        = SumFunctionOnSet(a, ItemsOf(v)) + SumFunctionOnSet(b, ItemsOf(v))
  BY <1>1, <1>2, <1>3, SumPlus
<1> QED
  BY <1>4 DEF Units, ItemsOf

LEMMA UnitsAtMost ==
  ASSUME NEW a \in [Items -> Int], NEW b \in [Items -> Int],
         \A i \in Items : a[i] <= b[i], NEW v
  PROVE  Units(a, v) <= Units(b, v)
<1>1. IsFiniteSet(ItemsOf(v)) /\ ItemsOf(v) \subseteq Items
  BY ItemsOfFinite
<1>2. Integral(a, ItemsOf(v)) /\ Integral(b, ItemsOf(v))
  BY <1>1 DEF Integral
<1>3. \A i \in ItemsOf(v) : a[i] <= b[i]
  BY <1>1
<1>4. SumFunctionOnSet(a, ItemsOf(v)) <= SumFunctionOnSet(b, ItemsOf(v))
  BY <1>1, <1>2, <1>3, SumAtMost
<1> QED
  BY <1>4 DEF Units, ItemsOf

LEMMA UnitsZero ==
  ASSUME NEW cart, \A i \in Items : cart[i] = 0, NEW v
  PROVE  Units(cart, v) = 0
<1>1. IsFiniteSet(ItemsOf(v)) /\ ItemsOf(v) \subseteq Items
  BY ItemsOfFinite
<1>2. SumFunctionOnSet(cart, ItemsOf(v)) = 0
  BY <1>1, SumZero
<1> QED
  BY <1>2 DEF Units, ItemsOf

LEMMA CartsAreIntegral == Cart \subseteq [Items -> Int]
BY DEF Cart

LEMMA UnitsEmpty == \A v : Units(EmptyCart, v) = 0
BY UnitsZero DEF EmptyCart

LEMMA UnitsNegative ==
  ASSUME NEW cart \in Cart, NEW v
  PROVE  /\ Negative(cart) \in [Items -> Int]
         /\ Units(Negative(cart), v) = -Units(cart, v)
<1>1. /\ cart \in [Items -> Int] /\ EmptyCart \in [Items -> Int]
      /\ Negative(cart) \in [Items -> Int]
  BY EmptyCartIsCart, CartsAreIntegral DEF Negative, Cart
<1>2. \A i \in Items : Negative(cart)[i] = EmptyCart[i] - cart[i]
  BY <1>1 DEF Negative, EmptyCart
<1>3. Units(Negative(cart), v) = Units(EmptyCart, v) - Units(cart, v)
  BY <1>1, <1>2, UnitsMinus
<1> QED
  BY <1>1, <1>3, UnitsEmpty, UnitsType

-----------------------------------------------------------------------------
(* What the movements of a cart do to the stock.                           *)

LEMMA MovedCartIsStock ==
  ASSUME NEW st \in [Variants -> Row], NEW kind \in Kinds, NEW cart \in [Items -> Int],
         kind \notin SignedKinds => cart \in Cart
  PROVE  MovedCart(st, kind, cart) \in [Variants -> Row]
<1>1. ASSUME NEW v \in Variants
      PROVE  Written([kind |-> kind, variant |-> v, qty |-> Units(cart, v)], st[v], st[v]) \in Row
  <2> DEFINE m == [kind |-> kind, variant |-> v, qty |-> Units(cart, v)]
  <2>1. m.qty \in Int /\ (kind \notin SignedKinds => m.qty \in Nat)
    BY UnitsType
  <2>2. ValidMove(m)
    BY <2>1 DEF ValidMove
  <2> HIDE DEF m
  <2>3. Written(m, st[v], st[v]) \in Row
    BY <2>2, WrittenIsRow
  <2> QED
    BY <2>3 DEF m
<1> QED
  BY <1>1 DEF MovedCart

LEMMA MovedSale ==
  ASSUME NEW st, NEW cart, NEW v \in Variants
  PROVE  /\ MovedCart(st, "SALE", cart)[v].available = st[v].available + -Units(cart, v)
         /\ MovedCart(st, "SALE", cart)[v].incoming = st[v].incoming
         /\ MovedCart(st, "SALE_REVERSAL", cart)[v].available = st[v].available + Units(cart, v)
         /\ MovedCart(st, "SALE_REVERSAL", cart)[v].incoming = st[v].incoming
BY DEF MovedCart, Written, WritesAvailable, BalanceAfter, AvailableDelta

LEMMA MovedPurchase ==
  ASSUME NEW st, NEW cart, NEW v \in Variants
  PROVE  /\ MovedCart(st, "INCOMING", cart)[v].available = st[v].available
         /\ MovedCart(st, "INCOMING", cart)[v].incoming
              = AtLeastZero(st[v].incoming + Units(cart, v))
         /\ MovedCart(st, "RECEIVE", cart)[v].available = st[v].available + Units(cart, v)
         /\ MovedCart(st, "RECEIVE", cart)[v].incoming
              = AtLeastZero(st[v].incoming - Units(cart, v))
BY DEF MovedCart, Written, WritesAvailable, BalanceAfter, AvailableDelta, ClampedMinus

-----------------------------------------------------------------------------
(* Purchases and the stock.                                                *)

ExpectedTotal(v) == SumFunction([o \in Purchases |-> Expected(purchase[o], v)])
ReceivedTotal(v) == SumFunction([o \in Purchases |-> Units(purchase[o].received, v)])

LEMMA PurchaseUnits ==
  ASSUME NEW row \in PurchaseRow, NEW v
  PROVE  /\ Outstanding(row.ordered, row.received) \in Cart
         /\ Units(Outstanding(row.ordered, row.received), v) \in Nat
         /\ Expected(row, v) \in Nat
         /\ Expected(row, v) <= Units(Outstanding(row.ordered, row.received), v)
         /\ Units(row.received, v) \in Nat /\ Units(row.ordered, v) \in Nat
<1>1. row.ordered \in Cart /\ row.received \in Cart
  BY DEF PurchaseRow
<1>2. Outstanding(row.ordered, row.received) \in Cart
  BY <1>1 DEF Outstanding, AtLeastZero, Cart
<1>3. /\ Units(row.received, v) \in Nat /\ Units(row.ordered, v) \in Nat
      /\ Units(Outstanding(row.ordered, row.received), v) \in Nat
  BY <1>1, <1>2, UnitsType
<1>4. \/ Expected(row, v) = 0
      \/ Expected(row, v) = Units(Outstanding(row.ordered, row.received), v)
  BY DEF Expected
<1> QED
  BY <1>2, <1>3, <1>4

\* An order expects no more than all of them together.
LEMMA ExpectedIncluded ==
  ASSUME PurchaseInv, NEW o \in Purchases, NEW v
  PROVE  ExpectedTotal(v) \in Nat /\ Expected(purchase[o], v) <= ExpectedTotal(v)
<1> DEFINE f == [p \in Purchases |-> Expected(purchase[p], v)]
<1>1. \A p \in Purchases : purchase[p] \in PurchaseRow /\ PurchaseShape(purchase[p])
  BY DEF PurchaseInv
<1>2. f \in [Purchases -> Nat] /\ f[o] = Expected(purchase[o], v)
  BY <1>1, PurchaseUnits
<1>3. ExpectedTotal(v) = SumFunction(f)
  BY DEF ExpectedTotal
<1> HIDE DEF f
<1> QED
  BY <1>2, <1>3, PurchasesAssumption, TotalAtLeast

\* What writing one order does to the totals over all orders.
LEMMA PurchaseTotals ==
  ASSUME PurchaseInv, PurchaseInv', NEW o \in Purchases,
         \A p \in Purchases \ {o} : purchase'[p] = purchase[p], NEW v
  PROVE  /\ ExpectedTotal(v) \in Nat /\ Expected(purchase[o], v) <= ExpectedTotal(v)
         /\ ExpectedTotal(v)'
              = ExpectedTotal(v) - Expected(purchase[o], v) + Expected(purchase'[o], v)
         /\ ReceivedTotal(v) \in Int
         /\ ReceivedTotal(v)'
              = ReceivedTotal(v) - Units(purchase[o].received, v) + Units(purchase'[o].received, v)
<1> DEFINE f == [p \in Purchases |-> Expected(purchase[p], v)]
           g == [p \in Purchases |-> Expected(purchase'[p], v)]
           h == [p \in Purchases |-> Units(purchase[p].received, v)]
           k == [p \in Purchases |-> Units(purchase'[p].received, v)]
<1>1. /\ \A p \in Purchases : purchase[p] \in PurchaseRow /\ PurchaseShape(purchase[p])
      /\ \A p \in Purchases : purchase'[p] \in PurchaseRow /\ PurchaseShape(purchase'[p])
  BY DEF PurchaseInv, PurchaseShape
<1>2. /\ f \in [Purchases -> Nat] /\ g \in [Purchases -> Nat]
      /\ h \in [Purchases -> Nat] /\ k \in [Purchases -> Nat]
  BY <1>1, PurchaseUnits
<1>3. /\ f \in [Purchases -> Int] /\ g \in [Purchases -> Int]
      /\ h \in [Purchases -> Int] /\ k \in [Purchases -> Int]
  BY <1>2
<1>4. \A p \in Purchases \ {o} : g[p] = f[p] /\ k[p] = h[p]
  OBVIOUS
<1>5. /\ f[o] = Expected(purchase[o], v) /\ g[o] = Expected(purchase'[o], v)
      /\ h[o] = Units(purchase[o].received, v) /\ k[o] = Units(purchase'[o].received, v)
  OBVIOUS
<1>6. /\ ExpectedTotal(v) = SumFunction(f) /\ ExpectedTotal(v)' = SumFunction(g)
      /\ ReceivedTotal(v) = SumFunction(h) /\ ReceivedTotal(v)' = SumFunction(k)
  BY DEF ExpectedTotal, ReceivedTotal
<1> HIDE DEF f, g, h, k
<1>7. SumFunction(f) \in Nat /\ f[o] <= SumFunction(f)
  BY <1>2, PurchasesAssumption, TotalAtLeast
<1>8. SumFunction(g) = SumFunction(f) - f[o] + g[o]
  BY <1>3, <1>4, PurchasesAssumption, TotalChange
<1>9. SumFunction(h) \in Int /\ SumFunction(k) = SumFunction(h) - h[o] + k[o]
  BY <1>3, <1>4, PurchasesAssumption, TotalChange
<1> QED
  BY <1>5, <1>6, <1>7, <1>8, <1>9

\* The stock moves by what the row of order o says before and after; the
\* incoming bucket is not left above what is expected.
PurchaseMoves(o) ==
  \A v \in Variants :
    /\ stock'[v].available
         = stock[v].available - Units(purchase[o].received, v) + Units(purchase'[o].received, v)
    /\ stock[v].incoming <= ExpectedTotal(v) =>
         stock'[v].incoming
           <= ExpectedTotal(v) - Expected(purchase[o], v) + Expected(purchase'[o], v)

\* The stock stays put, and the order expects and has received what it did.
LEMMA PurchaseStays ==
  ASSUME stock \in [Variants -> Row], PurchaseInv, stock' = stock, NEW o \in Purchases,
         \A v \in Variants :
           /\ Expected(purchase[o], v) \in Nat /\ Units(purchase[o].received, v) \in Nat
           /\ Expected(purchase'[o], v) = Expected(purchase[o], v)
           /\ Units(purchase'[o].received, v) = Units(purchase[o].received, v)
  PROVE  PurchaseMoves(o)
<1>1. ASSUME NEW v \in Variants
      PROVE  /\ stock[v].available \in Int /\ ExpectedTotal(v) \in Int
             /\ Expected(purchase[o], v) \in Int /\ Units(purchase[o].received, v) \in Int
  BY ExpectedIncluded DEF Row
<1> QED
  BY <1>1 DEF PurchaseMoves

\* The incoming bucket grows by what a newly placed order expects.
LEMMA PlacedMoves ==
  ASSUME stock \in [Variants -> Row], PurchaseInv, NEW o \in Purchases, NEW cart \in Cart,
         stock' = MovedCart(stock, "INCOMING", cart),
         purchase'[o].status = "ORDERED", purchase'[o].received = EmptyCart,
         purchase'[o].ordered = cart,
         \A v : Expected(purchase[o], v) = 0 /\ Units(purchase[o].received, v) = 0
  PROVE  PurchaseMoves(o) /\ stock' \in [Variants -> Row]
<1>1. stock' \in [Variants -> Row]
  BY CartsAreIntegral, MovedCartIsStock DEF Kinds, PurchaseKinds, SignedKinds
<1>2. ASSUME NEW v \in Variants
      PROVE  Expected(purchase'[o], v) = Units(cart, v) /\ Units(cart, v) \in Nat
  <2>1. Units(cart, v) \in Nat
    BY UnitsType
  <2>2. \A i \in Items : Outstanding(cart, EmptyCart)[i] = cart[i] - EmptyCart[i]
    BY DEF Outstanding, AtLeastZero, EmptyCart, Cart
  <2>3. Units(Outstanding(cart, EmptyCart), v) = Units(cart, v) - Units(EmptyCart, v)
    BY <2>2, EmptyCartIsCart, CartsAreIntegral, UnitsMinus
  <2>4. Units(Outstanding(cart, EmptyCart), v) = Units(cart, v)
    BY <2>1, <2>3, UnitsEmpty
  <2>5. Expected(purchase'[o], v) = Units(Outstanding(cart, EmptyCart), v)
    BY DEF Expected, Placed
  <2> QED
    BY <2>1, <2>4, <2>5
<1>3. ASSUME NEW v \in Variants
      PROVE  /\ stock'[v].available = stock[v].available - 0 + 0
             /\ stock[v].incoming <= ExpectedTotal(v) =>
                  stock'[v].incoming <= ExpectedTotal(v) - 0 + Units(cart, v)
  <2>1. stock[v].available \in Int /\ stock[v].incoming \in Nat
    BY DEF Row
  <2>2. /\ stock'[v].available = stock[v].available
        /\ stock'[v].incoming = AtLeastZero(stock[v].incoming + Units(cart, v))
    BY MovedPurchase
  <2>3. ExpectedTotal(v) \in Nat
    BY ExpectedIncluded
  <2> QED
    BY <1>2, <2>1, <2>2, <2>3 DEF AtLeastZero
<1>4. \A v : Units(purchase'[o].received, v) = 0
  BY UnitsEmpty
<1> QED
  BY <1>1, <1>2, <1>3, <1>4 DEF PurchaseMoves

LEMMA CreatePurchaseMoves ==
  ASSUME stock \in [Variants -> Row], PurchaseInv,
         NEW o \in Purchases, CreatePurchase(o)
  PROVE  /\ stock' \in [Variants -> Row] /\ PurchaseMoves(o)
         /\ \A p \in Purchases \ {o} : purchase'[p] = purchase[p]
<1>1. PICK cart \in Carts, status \in {"DRAFT", "ORDERED"} :
        /\ purchase' = [purchase EXCEPT ![o] =
                          [status |-> status, ordered |-> cart, received |-> EmptyCart]]
        /\ stock' = IF status = "DRAFT" THEN stock ELSE MovedCart(stock, "INCOMING", cart)
  BY DEF CreatePurchase
<1>2. \A p \in Purchases \ {o} : purchase'[p] = purchase[p]
  BY <1>1
<1>3. /\ purchase'[o].status = status /\ purchase'[o].ordered = cart
      /\ purchase'[o].received = EmptyCart
  BY <1>1 DEF PurchaseInv
<1>4. cart \in Cart /\ cart \in [Items -> Int]
  BY PurchasesAssumption, CartsAreIntegral
<1>5. purchase[o].status = "none" /\ purchase[o] = NoPurchase
  BY DEF CreatePurchase, PurchaseInv, PurchaseShape
<1>6. \A v : Expected(purchase[o], v) = 0 /\ Units(purchase[o].received, v) = 0
  BY <1>5, UnitsEmpty DEF NoPurchase, Expected, Placed
<1>7. \A v : Units(purchase'[o].received, v) = 0
  BY <1>3, UnitsEmpty
<1>8. CASE status = "DRAFT"
  <2>1. \A v : Expected(purchase'[o], v) = 0
    BY <1>3, <1>8 DEF Expected, Placed
  <2>2. stock' = stock
    BY <1>1, <1>8
  <2>3. PurchaseMoves(o)
    BY <1>6, <1>7, <2>1, <2>2, PurchaseStays
  <2> QED
    BY <1>2, <2>2, <2>3
<1>9. CASE status = "ORDERED"
  <2>1. stock' = MovedCart(stock, "INCOMING", cart)
    BY <1>1, <1>9
  <2> QED
    BY <1>2, <1>3, <1>4, <1>6, <1>9, <2>1, PlacedMoves
<1> QED
  BY <1>8, <1>9

\* A transaction that works on a draft finds it expecting and having
\* received nothing.
LEMMA DraftUnits ==
  ASSUME PurchaseInv, NEW o \in Purchases, purchase[o].status = "DRAFT"
  PROVE  /\ purchase[o] \in PurchaseRow /\ purchase[o].received = EmptyCart
         /\ \A v : Expected(purchase[o], v) = 0 /\ Units(purchase[o].received, v) = 0
<1>1. purchase[o] \in PurchaseRow /\ purchase[o].received = EmptyCart
  BY DEF PurchaseInv, PurchaseShape
<1>2. \A v : Expected(purchase[o], v) = 0
  BY DEF Expected, Placed
<1> QED
  BY <1>1, <1>2, UnitsEmpty

\* What a request works on, and how far what it loaded is behind.
LEMMA PurchaseRead ==
  ASSUME PurchaseInv, NEW c \in Clerks, desk[c].op \in PurchaseOps
  PROVE  /\ desk[c].doc \in Purchases /\ desk[c].read \in PurchaseRow
         /\ Admits(desk[c].op, desk[c].read.status)
         /\ desk[c].op \in DraftOps => desk[c].read = purchase[desk[c].doc]
         /\ desk[c].op \in StockOps =>
              /\ purchase[desk[c].doc].ordered = desk[c].read.ordered
              /\ \A i \in Items :
                   desk[c].read.received[i] <= purchase[desk[c].doc].received[i]
BY DEF PurchaseInv, PurchaseRequest

\* Updating, placing and discarding: the draft.
LEMMA DraftMoves ==
  ASSUME stock \in [Variants -> Row], PurchaseInv, NEW c \in Clerks,
         UpdateDraft(c) \/ PlaceDraft(c) \/ DiscardDraft(c)
  PROVE  /\ stock' \in [Variants -> Row] /\ PurchaseMoves(desk[c].doc)
         /\ desk[c].doc \in Purchases
         /\ \A p \in Purchases \ {desk[c].doc} : purchase'[p] = purchase[p]
<1> DEFINE o == desk[c].doc
<1>1. desk[c].op \in {"update", "place", "discard"} /\ desk[c].op \in PurchaseOps
  BY DEF UpdateDraft, PlaceDraft, DiscardDraft, Runs, PurchaseOps, DraftOps, StockOps
<1>2. /\ o \in Purchases /\ desk[c].read = purchase[o]
      /\ purchase[o].status = "DRAFT"
  BY <1>1, PurchaseRead DEF Admits, DraftOps
<1>3. /\ purchase[o] \in PurchaseRow /\ purchase[o].received = EmptyCart
      /\ \A v : Expected(purchase[o], v) = 0 /\ Units(purchase[o].received, v) = 0
  BY <1>2, DraftUnits
<1>4. \A p \in Purchases \ {o} : purchase'[p] = purchase[p]
  <2>1. \E row : purchase' = [purchase EXCEPT ![o] = row]
    <3>1. CASE UpdateDraft(c)
      BY <3>1, Zenon DEF UpdateDraft
    <3>2. CASE PlaceDraft(c)
      BY <3>2, Zenon DEF PlaceDraft
    <3>3. CASE DiscardDraft(c)
      BY <3>3, Zenon DEF DiscardDraft
    <3> QED
      BY <3>1, <3>2, <3>3
  <2> QED
    BY <2>1
<1>5. CASE UpdateDraft(c)
  <2>1. stock' = stock /\ purchase' = [purchase EXCEPT ![o].ordered = desk[c].cart]
    BY <1>5 DEF UpdateDraft
  <2>2. purchase'[o].status = "DRAFT" /\ purchase'[o].received = EmptyCart
    BY <1>2, <1>3, <2>1 DEF PurchaseInv, PurchaseRow
  <2>3. \A v : Expected(purchase'[o], v) = 0 /\ Units(purchase'[o].received, v) = 0
    BY <2>2, UnitsEmpty DEF Expected, Placed
  <2>4. PurchaseMoves(o)
    BY <1>2, <1>3, <2>1, <2>3, PurchaseStays
  <2> QED
    BY <1>2, <1>4, <2>1, <2>4
<1>6. CASE DiscardDraft(c)
  <2>1. stock' = stock /\ purchase'[o] = NoPurchase
    BY <1>2, <1>6 DEF DiscardDraft, PurchaseInv
  <2>2. \A v : Expected(purchase'[o], v) = 0 /\ Units(purchase'[o].received, v) = 0
    BY <2>1, UnitsEmpty DEF NoPurchase, Expected, Placed
  <2>3. PurchaseMoves(o)
    BY <1>2, <1>3, <2>1, <2>2, PurchaseStays
  <2> QED
    BY <1>2, <1>4, <2>1, <2>3
<1>7. CASE PlaceDraft(c)
  <2> DEFINE cart == purchase[o].ordered
  <2>1. /\ stock' = MovedCart(stock, "INCOMING", cart)
        /\ purchase' = [purchase EXCEPT ![o].status = "ORDERED"]
    BY <1>2, <1>7 DEF PlaceDraft
  <2>2. /\ purchase'[o].status = "ORDERED" /\ purchase'[o].received = EmptyCart
        /\ purchase'[o].ordered = cart
    BY <1>2, <1>3, <2>1 DEF PurchaseInv, PurchaseRow
  <2>3. cart \in Cart /\ cart \in [Items -> Int]
    BY <1>3, CartsAreIntegral DEF PurchaseRow
  <2>4. PurchaseMoves(o) /\ stock' \in [Variants -> Row]
    BY <1>2, <1>3, <2>1, <2>2, <2>3, PlacedMoves
  <2> QED
    BY <1>2, <1>4, <2>4
<1> QED
  BY <1>5, <1>6, <1>7

LEMMA ReceivePurchaseMoves ==
  ASSUME stock \in [Variants -> Row], PurchaseInv, NEW c \in Clerks, ReceivePurchase(c)
  PROVE  /\ stock' \in [Variants -> Row] /\ PurchaseMoves(desk[c].doc)
         /\ desk[c].doc \in Purchases
         /\ \A p \in Purchases \ {desk[c].doc} : purchase'[p] = purchase[p]
<1> DEFINE o == desk[c].doc
           row == purchase[o]
           cart == desk[c].cart
           new == ReceivedRow(c)
<1>1. /\ desk[c].op = "receive"
      /\ purchase' = [purchase EXCEPT ![o] = new]
      /\ stock' = MovedCart(stock, "RECEIVE", cart)
  BY DEF ReceivePurchase, Runs, ReceivedRow
<1>2. /\ o \in Purchases /\ row \in PurchaseRow
      /\ cart \in Cart /\ new \in PurchaseRow /\ PurchaseShape(new)
      /\ \A i \in Items : new.received[i] = row.received[i] + cart[i]
      /\ new.status \in {"RECEIVED", "PARTIALLY_RECEIVED"}
  BY <1>1, ReceivedRowFits
<1>3. purchase'[o] = new /\ \A p \in Purchases \ {o} : purchase'[p] = purchase[p]
  BY <1>1, <1>2 DEF PurchaseInv
<1>4. new.ordered = row.ordered
  BY DEF ReceivedRow
<1>5. stock' \in [Variants -> Row]
  BY <1>1, <1>2, CartsAreIntegral, MovedCartIsStock DEF Kinds, PurchaseKinds, SignedKinds
<1> HIDE DEF new
<1>6. ASSUME NEW v \in Variants
      PROVE  /\ Units(cart, v) \in Nat /\ Units(row.received, v) \in Nat
             /\ Units(new.received, v) = Units(row.received, v) + Units(cart, v)
             /\ Expected(row, v) \in Nat /\ Expected(new, v) \in Nat
             /\ Expected(row, v) <= Expected(new, v) + Units(cart, v)
  <2> DEFINE out == Outstanding(row.ordered, row.received)
             left == Outstanding(new.ordered, new.received)
             both == Plus(left, cart)
  <2>1. /\ out \in Cart /\ Units(out, v) \in Nat /\ Units(row.received, v) \in Nat
        /\ Expected(row, v) \in Nat /\ Expected(row, v) <= Units(out, v)
    BY <1>2, PurchaseUnits
  <2>2. /\ left \in Cart /\ Units(left, v) \in Nat /\ Expected(new, v) \in Nat
    BY <1>2, PurchaseUnits
  <2>3. row.received \in Cart /\ new.received \in Cart /\ new.ordered \in Cart
    BY <1>2 DEF PurchaseRow
  <2>4. Units(new.received, v) = Units(row.received, v) + Units(cart, v)
    BY <1>2, <2>3, CartsAreIntegral, UnitsPlus
  <2>5. Units(cart, v) \in Nat
    BY <1>2, UnitsType
  <2>6. both \in Cart /\ \A i \in Items : both[i] = left[i] + cart[i]
    BY <1>2, <2>2 DEF Plus, Cart
  <2>7. Units(both, v) = Units(left, v) + Units(cart, v)
    BY <1>2, <2>2, <2>6, CartsAreIntegral, UnitsPlus
  <2>8. \A i \in Items : out[i] <= both[i]
    <3> SUFFICES ASSUME NEW i \in Items PROVE out[i] <= both[i]
      OBVIOUS
    <3>1. /\ row.ordered[i] \in Int /\ row.received[i] \in Int
          /\ new.received[i] \in Int /\ cart[i] \in Nat
      BY <1>2, <2>3 DEF Cart, PurchaseRow
    <3>2. out[i] = AtLeastZero(row.ordered[i] - row.received[i])
      BY DEF Outstanding
    <3>3. left[i] = AtLeastZero(row.ordered[i] - new.received[i])
      BY <1>4 DEF Outstanding
    <3>4. new.received[i] = row.received[i] + cart[i]
      BY <1>2
    <3>5. both[i] = left[i] + cart[i]
      BY <2>6
    <3> HIDE DEF out, left, both, row, cart
    <3> QED
      BY <3>1, <3>2, <3>3, <3>4, <3>5 DEF AtLeastZero
  <2>9. Units(out, v) <= Units(both, v)
    BY <2>1, <2>6, <2>8, CartsAreIntegral, UnitsAtMost
  <2>10. Expected(new, v) = Units(left, v)
    <3>1. CASE new.status = "PARTIALLY_RECEIVED"
      BY <3>1 DEF Expected, Placed
    <3>2. CASE new.status = "RECEIVED"
      <4>1. \A i \in Items : new.received[i] >= new.ordered[i]
        BY <1>2, <3>2 DEF PurchaseShape
      <4>2. \A i \in Items : left[i] = 0
        BY <2>3, <4>1 DEF Outstanding, AtLeastZero, Cart
      <4>3. Units(left, v) = 0
        BY <4>2, UnitsZero
      <4>4. Expected(new, v) = 0
        BY <3>2 DEF Expected, Placed
      <4> QED
        BY <4>3, <4>4
    <3> QED
      BY <1>2, <3>1, <3>2
  <2> HIDE DEF out, left, both
  <2> QED
    BY <2>1, <2>2, <2>4, <2>5, <2>7, <2>9, <2>10
<1>7. ASSUME NEW v \in Variants
      PROVE  /\ stock'[v].available
                  = stock[v].available - Units(row.received, v) + Units(new.received, v)
             /\ stock[v].incoming <= ExpectedTotal(v) =>
                  stock'[v].incoming <= ExpectedTotal(v) - Expected(row, v) + Expected(new, v)
  <2>1. stock[v].available \in Int /\ stock[v].incoming \in Nat
    BY DEF Row
  <2>2. /\ stock'[v].available = stock[v].available + Units(cart, v)
        /\ stock'[v].incoming = AtLeastZero(stock[v].incoming - Units(cart, v))
    BY <1>1, MovedPurchase
  <2>3. stock'[v].available
          = stock[v].available - Units(row.received, v) + Units(new.received, v)
    BY <1>6, <2>1, <2>2
  <2>4. ExpectedTotal(v) \in Nat /\ Expected(row, v) <= ExpectedTotal(v)
    BY <1>2, ExpectedIncluded
  <2>5. ASSUME stock[v].incoming <= ExpectedTotal(v)
        PROVE  stock'[v].incoming <= ExpectedTotal(v) - Expected(row, v) + Expected(new, v)
    BY <1>6, <2>1, <2>2, <2>4, <2>5 DEF AtLeastZero
  <2> QED
    BY <2>3, <2>5
<1>8. PurchaseMoves(o)
  BY <1>3, <1>7 DEF PurchaseMoves
<1> QED
  BY <1>2, <1>3, <1>5, <1>8

\* A cancellation takes off what was outstanding when it loaded the order,
\* which is at least what is outstanding now.
LEMMA CancelPurchaseMoves ==
  ASSUME stock \in [Variants -> Row], PurchaseInv, NEW c \in Clerks, CancelPurchase(c)
  PROVE  /\ stock' \in [Variants -> Row] /\ PurchaseMoves(desk[c].doc)
         /\ desk[c].doc \in Purchases
         /\ \A p \in Purchases \ {desk[c].doc} : purchase'[p] = purchase[p]
<1> DEFINE o == desk[c].doc
           row == purchase[o]
           read == desk[c].read
           out == Outstanding(row.ordered, row.received)
           off == Outstanding(read.ordered, read.received)
<1>1. /\ desk[c].op \in StockOps /\ desk[c].op \in PurchaseOps
      /\ purchase' = [purchase EXCEPT ![o].status = "CANCELLED"]
      /\ stock' = MovedCart(stock, "INCOMING", Negative(off))
  BY DEF CancelPurchase, Runs, PurchaseOps, StockOps, StillExpected
<1>2. /\ o \in Purchases /\ read \in PurchaseRow /\ row.ordered = read.ordered
      /\ \A i \in Items : read.received[i] <= row.received[i]
  BY <1>1, PurchaseRead
<1>3. row \in PurchaseRow
  BY <1>2 DEF PurchaseInv
<1>4. /\ purchase'[o].status = "CANCELLED" /\ purchase'[o].received = row.received
      /\ \A p \in Purchases \ {o} : purchase'[p] = purchase[p]
  BY <1>1, <1>2, <1>3 DEF PurchaseInv, PurchaseRow
<1>5. out \in Cart /\ off \in Cart /\ Negative(off) \in [Items -> Int]
  BY <1>2, <1>3, PurchaseUnits, UnitsNegative
<1>6. stock' \in [Variants -> Row]
  BY <1>1, <1>5, MovedCartIsStock DEF Kinds, PurchaseKinds, SignedKinds
<1>7. \A i \in Items : out[i] <= off[i]
  BY <1>2, <1>3 DEF Outstanding, AtLeastZero, PurchaseRow, Cart
<1> HIDE DEF out, off
<1>8. ASSUME NEW v \in Variants
      PROVE  /\ stock'[v].available
                  = stock[v].available - Units(row.received, v) + Units(purchase'[o].received, v)
             /\ stock[v].incoming <= ExpectedTotal(v) =>
                  stock'[v].incoming
                    <= ExpectedTotal(v) - Expected(row, v) + Expected(purchase'[o], v)
  <2>1. stock[v].available \in Int /\ stock[v].incoming \in Nat
    BY DEF Row
  <2>2. Units(Negative(off), v) = -Units(off, v) /\ Units(off, v) \in Nat
    BY <1>5, UnitsNegative, UnitsType
  <2>3. /\ stock'[v].available = stock[v].available
        /\ stock'[v].incoming = AtLeastZero(stock[v].incoming + -Units(off, v))
    BY <1>1, <2>2, MovedPurchase
  <2>4. /\ Units(row.received, v) \in Nat /\ Expected(row, v) \in Nat
        /\ Expected(row, v) <= Units(out, v)
    BY <1>3, PurchaseUnits DEF out
  <2>5. Units(out, v) \in Nat /\ Units(out, v) <= Units(off, v)
    BY <1>5, <1>7, CartsAreIntegral, UnitsAtMost, UnitsType
  <2>6. ExpectedTotal(v) \in Nat /\ Expected(row, v) <= ExpectedTotal(v)
    BY <1>2, ExpectedIncluded
  <2>7. Expected(purchase'[o], v) = 0
    BY <1>4 DEF Expected, Placed
  <2>8. stock'[v].available
          = stock[v].available - Units(row.received, v) + Units(purchase'[o].received, v)
    BY <1>4, <2>1, <2>3, <2>4
  <2>9. ASSUME stock[v].incoming <= ExpectedTotal(v)
        PROVE  stock'[v].incoming <= ExpectedTotal(v) - Expected(row, v) + 0
    BY <2>1, <2>2, <2>3, <2>4, <2>5, <2>6, <2>9 DEF AtLeastZero
  <2> QED
    BY <2>7, <2>8, <2>9
<1>9. PurchaseMoves(o)
  BY <1>8 DEF PurchaseMoves
<1> QED
  BY <1>2, <1>4, <1>6, <1>9

-----------------------------------------------------------------------------
(* Sales and the stock.                                                    *)

SoldTotal(v) == SumFunction([s \in SaleIds |-> Units(WithCustomer(sale[s]), v)])

LEMMA CustomerUnits ==
  ASSUME NEW row \in SaleRow, NEW v
  PROVE  /\ Units(row.sold, v) \in Nat /\ Units(row.refunded, v) \in Nat
         /\ Units(WithCustomer(row), v) \in Int
         /\ row.status = "VOID" => Units(WithCustomer(row), v) = 0
         /\ row.status # "VOID" =>
              Units(WithCustomer(row), v) = Units(row.sold, v) - Units(row.refunded, v)
<1>1. row.sold \in Cart /\ row.refunded \in Cart
  BY DEF SaleRow
<1>2. Units(row.sold, v) \in Nat /\ Units(row.refunded, v) \in Nat
  BY <1>1, UnitsType
<1>3. CASE row.status = "VOID"
  BY <1>2, <1>3, UnitsEmpty DEF WithCustomer
<1>4. CASE row.status # "VOID"
  <2>1. \A i \in Items : WithCustomer(row)[i] = row.sold[i] - row.refunded[i]
    BY <1>4 DEF WithCustomer
  <2>2. Units(WithCustomer(row), v) = Units(row.sold, v) - Units(row.refunded, v)
    BY <1>1, <2>1, CartsAreIntegral, UnitsMinus
  <2> QED
    BY <1>2, <1>4, <2>2
<1> QED
  BY <1>3, <1>4

\* What writing one sale does to the total over all sales.
LEMMA SaleTotals ==
  ASSUME SaleInv, SaleInv', NEW s \in SaleIds,
         \A t \in SaleIds \ {s} : sale'[t] = sale[t], NEW v
  PROVE  /\ SoldTotal(v) \in Int
         /\ SoldTotal(v)' = SoldTotal(v) - Units(WithCustomer(sale[s]), v)
                                         + Units(WithCustomer(sale'[s]), v)
<1> DEFINE f == [t \in SaleIds |-> Units(WithCustomer(sale[t]), v)]
           g == [t \in SaleIds |-> Units(WithCustomer(sale'[t]), v)]
<1>1. \A t \in SaleIds : sale[t] \in SaleRow /\ sale'[t] \in SaleRow
  BY DEF SaleInv
<1>2. f \in [SaleIds -> Int] /\ g \in [SaleIds -> Int]
  BY <1>1, CustomerUnits
<1>3. \A t \in SaleIds \ {s} : g[t] = f[t]
  OBVIOUS
<1>4. /\ f[s] = Units(WithCustomer(sale[s]), v)
      /\ g[s] = Units(WithCustomer(sale'[s]), v)
  OBVIOUS
<1>5. SoldTotal(v) = SumFunction(f) /\ SoldTotal(v)' = SumFunction(g)
  BY DEF SoldTotal
<1> HIDE DEF f, g
<1>6. SumFunction(f) \in Int /\ SumFunction(g) = SumFunction(f) - f[s] + g[s]
  BY <1>2, <1>3, SalesAssumption, TotalChange
<1> QED
  BY <1>4, <1>5, <1>6

\* The stock moves by what the customer of sale s has before and after.
SaleMoves(s) ==
  \A v \in Variants :
    /\ stock'[v].available = stock[v].available + Units(WithCustomer(sale[s]), v)
                                                - Units(WithCustomer(sale'[s]), v)
    /\ stock'[v].incoming = stock[v].incoming

LEMMA SaleStays ==
  ASSUME stock \in [Variants -> Row], SaleInv, stock' = stock, sale' = sale,
         NEW s \in SaleIds
  PROVE  SaleMoves(s)
<1>1. sale[s] \in SaleRow
  BY DEF SaleInv
<1>2. \A v \in Variants : /\ Units(WithCustomer(sale[s]), v) \in Int
                          /\ stock[v].available \in Int
  BY <1>1, CustomerUnits DEF Row
<1> QED
  BY <1>2 DEF SaleMoves

LEMMA CreateSaleMoves ==
  ASSUME stock \in [Variants -> Row], SaleInv, SaleInv', NEW s \in SaleIds, CreateSale(s)
  PROVE  /\ stock' \in [Variants -> Row] /\ SaleMoves(s)
         /\ \A t \in SaleIds \ {s} : sale'[t] = sale[t]
<1>1. PICK cart \in Baskets :
        /\ sale' = [sale EXCEPT ![s] =
             [status |-> "COMPLETED", sold |-> cart, refunded |-> EmptyCart]]
        /\ stock' = MovedCart(stock, "SALE", cart)
  BY DEF CreateSale
<1>2. \A t \in SaleIds \ {s} : sale'[t] = sale[t]
  BY <1>1
<1>3. /\ sale'[s].status = "COMPLETED" /\ sale'[s].sold = cart
      /\ sale'[s].refunded = EmptyCart /\ sale'[s] \in SaleRow
  BY <1>1 DEF SaleInv
<1>4. /\ sale[s].status = "none" /\ sale[s].sold = EmptyCart
      /\ sale[s].refunded = EmptyCart /\ sale[s] \in SaleRow
  BY DEF CreateSale, SaleInv, SaleShape, NoSale
<1>5. cart \in Cart /\ cart \in [Items -> Int]
  BY SalesAssumption, CartsAreIntegral
<1>6. stock' \in [Variants -> Row]
  BY <1>1, <1>5, MovedCartIsStock DEF Kinds, SaleKinds, SignedKinds
<1>7. ASSUME NEW v \in Variants
      PROVE  /\ stock'[v].available = stock[v].available + Units(WithCustomer(sale[s]), v)
                                                         - Units(WithCustomer(sale'[s]), v)
             /\ stock'[v].incoming = stock[v].incoming
  <2>1. /\ stock'[v].available = stock[v].available + -Units(cart, v)
        /\ stock'[v].incoming = stock[v].incoming
    BY <1>1, MovedSale
  <2>2. Units(cart, v) \in Nat /\ stock[v].available \in Int
    BY <1>5, UnitsType DEF Row
  <2>3. Units(WithCustomer(sale[s]), v) = 0
    BY <1>4, CustomerUnits, UnitsEmpty
  <2>4. Units(WithCustomer(sale'[s]), v) = Units(cart, v)
    BY <1>3, <2>2, CustomerUnits, UnitsEmpty
  <2> QED
    BY <2>1, <2>2, <2>3, <2>4
<1> QED
  BY <1>2, <1>6, <1>7 DEF SaleMoves

LEMMA VoidSaleMoves ==
  ASSUME stock \in [Variants -> Row], SaleInv, SaleInv', NEW c \in Clerks, VoidSale(c)
  PROVE  /\ stock' \in [Variants -> Row] /\ SaleMoves(desk[c].doc)
         /\ desk[c].doc \in SaleIds
         /\ \A t \in SaleIds \ {desk[c].doc} : sale'[t] = sale[t]
<1> DEFINE s == desk[c].doc
<1>1. desk[c].op = "void"
  BY DEF VoidSale
<1>2. s \in SaleIds
  BY <1>1 DEF SaleInv, SaleRequest, SaleOps
<1>3. CASE ~VoidStands(s)
  <2>1. sale' = sale /\ stock' = stock
    BY <1>3 DEF VoidSale
  <2> QED
    BY <1>2, <2>1, SaleStays
<1>4. CASE VoidStands(s)
  <2>1. /\ sale' = [sale EXCEPT ![s].status = "VOID"]
        /\ stock' = MovedCart(stock, "SALE_REVERSAL", sale[s].sold)
    BY <1>4 DEF VoidSale
  <2>2. \A t \in SaleIds \ {s} : sale'[t] = sale[t]
    BY <2>1
  <2>3. sale[s] \in SaleRow /\ sale'[s] \in SaleRow
    BY <1>2 DEF SaleInv
  <2>4. sale'[s].status = "VOID"
    BY <1>2, <2>1, <2>3 DEF SaleInv, SaleRow
  <2>5. sale[s].status # "VOID" /\ sale[s].refunded = EmptyCart
    BY <1>4 DEF VoidStands, Voidable, HasRefund
  <2>6. sale[s].sold \in Cart /\ sale[s].sold \in [Items -> Int]
    BY <2>3, CartsAreIntegral DEF SaleRow
  <2>7. stock' \in [Variants -> Row]
    BY <2>1, <2>6, MovedCartIsStock DEF Kinds, SaleKinds, SignedKinds
  <2>8. ASSUME NEW v \in Variants
        PROVE  /\ stock'[v].available = stock[v].available + Units(WithCustomer(sale[s]), v)
                                                           - Units(WithCustomer(sale'[s]), v)
               /\ stock'[v].incoming = stock[v].incoming
    <3>1. /\ stock'[v].available = stock[v].available + Units(sale[s].sold, v)
          /\ stock'[v].incoming = stock[v].incoming
      BY <2>1, MovedSale
    <3>2. Units(sale[s].sold, v) \in Nat /\ stock[v].available \in Int
      BY <2>6, UnitsType DEF Row
    <3>3. Units(WithCustomer(sale[s]), v) = Units(sale[s].sold, v)
      BY <2>3, <2>5, <3>2, CustomerUnits, UnitsEmpty
    <3>4. Units(WithCustomer(sale'[s]), v) = 0
      BY <2>3, <2>4, CustomerUnits
    <3> QED
      BY <3>1, <3>2, <3>3, <3>4
  <2> QED
    BY <1>2, <2>2, <2>7, <2>8 DEF SaleMoves
<1> QED
  BY <1>3, <1>4

LEMMA RefundSaleMoves ==
  ASSUME stock \in [Variants -> Row], SaleInv, SaleInv', NEW c \in Clerks, RefundSale(c)
  PROVE  /\ stock' \in [Variants -> Row] /\ SaleMoves(desk[c].doc)
         /\ desk[c].doc \in SaleIds
         /\ \A t \in SaleIds \ {desk[c].doc} : sale'[t] = sale[t]
<1> DEFINE s == desk[c].doc
           cart == desk[c].cart
<1>1. desk[c].op = "refund"
  BY DEF RefundSale
<1>2. s \in SaleIds /\ cart \in Refunds /\ cart \in Cart /\ cart \in [Items -> Int]
  BY <1>1, SalesAssumption, CartsAreIntegral DEF SaleInv, SaleRequest, SaleOps
<1>3. CASE ~RefundStands(s, cart)
  <2>1. sale' = sale /\ stock' = stock
    BY <1>3 DEF RefundSale
  <2> QED
    BY <1>2, <2>1, SaleStays
<1>4. CASE RefundStands(s, cart)
  <2> DEFINE row == RefundedRow(s, cart)
  <2>1. sale' = [sale EXCEPT ![s] = row] /\ stock' = MovedCart(stock, "SALE_REVERSAL", cart)
    BY <1>4 DEF RefundSale, RefundedRow
  <2>2. \A t \in SaleIds \ {s} : sale'[t] = sale[t]
    BY <2>1
  <2>3. sale[s] \in SaleRow /\ row \in SaleRow /\ sale'[s] = row
    BY <1>2, <1>4, <2>1, RefundedRowFits DEF SaleInv
  <2>4. /\ row.status # "VOID" /\ row.sold = sale[s].sold
        /\ \A i \in Items : row.refunded[i] = sale[s].refunded[i] + cart[i]
    BY DEF RefundedRow
  <2>5. sale[s].status # "VOID"
    BY <1>4 DEF RefundStands, Refundable
  <2>6. sale[s].refunded \in Cart
    BY <2>3 DEF SaleRow
  <2>7. stock' \in [Variants -> Row]
    BY <1>2, <2>1, MovedCartIsStock DEF Kinds, SaleKinds, SignedKinds
  <2> HIDE DEF row
  <2>8. ASSUME NEW v \in Variants
        PROVE  /\ stock'[v].available = stock[v].available + Units(WithCustomer(sale[s]), v)
                                                           - Units(WithCustomer(sale'[s]), v)
               /\ stock'[v].incoming = stock[v].incoming
    <3>1. /\ stock'[v].available = stock[v].available + Units(cart, v)
          /\ stock'[v].incoming = stock[v].incoming
      BY <2>1, MovedSale
    <3>2. Units(cart, v) \in Nat /\ stock[v].available \in Int
      BY <1>2, UnitsType DEF Row
    <3>3. Units(row.refunded, v) = Units(sale[s].refunded, v) + Units(cart, v)
      BY <1>2, <2>4, <2>6, CartsAreIntegral, UnitsPlus
    <3>4. /\ Units(sale[s].sold, v) \in Nat /\ Units(sale[s].refunded, v) \in Nat
          /\ Units(WithCustomer(sale[s]), v)
               = Units(sale[s].sold, v) - Units(sale[s].refunded, v)
      BY <2>3, <2>5, CustomerUnits
    <3>5. Units(WithCustomer(sale'[s]), v) = Units(sale[s].sold, v) - Units(row.refunded, v)
      BY <2>3, <2>4, CustomerUnits
    <3> QED
      BY <3>1, <3>2, <3>3, <3>4, <3>5
  <2> QED
    BY <1>2, <2>2, <2>7, <2>8 DEF SaleMoves
<1> QED
  BY <1>3, <1>4

-----------------------------------------------------------------------------
(* Counts and the stock.                                                   *)

PostedTotal(v) == SumFunction([n \in Opnames |-> PostedBy(opname[n], v)])

LEMMA PostedType ==
  ASSUME NEW row \in OpnameRow, NEW v \in Variants
  PROVE  PostedBy(row, v) \in Int
BY DEF PostedBy, OpnameRow, OpnameItem

\* What writing one session does to the total over all sessions.
LEMMA PostedTotals ==
  ASSUME CountInv, CountInv', NEW n \in Opnames,
         \A m \in Opnames \ {n} : opname'[m] = opname[m], NEW v \in Variants
  PROVE  /\ PostedTotal(v) \in Int
         /\ PostedTotal(v)' = PostedTotal(v) - PostedBy(opname[n], v) + PostedBy(opname'[n], v)
<1> DEFINE f == [m \in Opnames |-> PostedBy(opname[m], v)]
           g == [m \in Opnames |-> PostedBy(opname'[m], v)]
<1>1. \A m \in Opnames : opname[m] \in OpnameRow /\ opname'[m] \in OpnameRow
  BY DEF CountInv
<1>2. f \in [Opnames -> Int] /\ g \in [Opnames -> Int]
  BY <1>1, PostedType
<1>3. \A m \in Opnames \ {n} : g[m] = f[m]
  OBVIOUS
<1>4. f[n] = PostedBy(opname[n], v) /\ g[n] = PostedBy(opname'[n], v)
  OBVIOUS
<1>5. PostedTotal(v) = SumFunction(f) /\ PostedTotal(v)' = SumFunction(g)
  BY DEF PostedTotal
<1> HIDE DEF f, g
<1>6. SumFunction(f) \in Int /\ SumFunction(g) = SumFunction(f) - f[n] + g[n]
  BY <1>2, <1>3, OpnamesAssumption, TotalChange
<1> QED
  BY <1>4, <1>5, <1>6

LEMMA CompleteOpnameMoves ==
  ASSUME stock \in [Variants -> Row], CountInv, CountInv', NEW c \in Clerks, CompleteOpname(c)
  PROVE  /\ stock' \in [Variants -> Row] /\ desk[c].doc \in Opnames
         /\ \A m \in Opnames \ {desk[c].doc} : opname'[m] = opname[m]
         /\ \A v \in Variants :
              /\ stock'[v].available = stock[v].available
                   - PostedBy(opname[desk[c].doc], v) + PostedBy(opname'[desk[c].doc], v)
              /\ stock'[v].incoming = stock[v].incoming
<1> DEFINE n == desk[c].doc
           by(v) == CorrectionOf(desk[c].items, v)
           m(v) == [kind |-> "RECONCILE", variant |-> v, qty |-> by(v)]
<1>1. /\ n \in Opnames /\ opname[n].status = "DRAFT"
      /\ stock' = [v \in Variants |-> Written(m(v), stock[v], stock[v])]
      /\ \A v \in Variants :
           /\ by(v) = IF opname[n].item[v] = NoItem THEN 0 ELSE opname[n].item[v].variance
           /\ by(v) \in Int
  BY CompleteOpnameFits
<1>2. opname' = [opname EXCEPT ![n].status = "COMPLETED"]
  BY DEF CompleteOpname
<1>3. opname'[n].status = "COMPLETED" /\ opname'[n].item = opname[n].item
  BY <1>1, <1>2 DEF CountInv, OpnameRow
<1>4. \A k \in Opnames \ {n} : opname'[k] = opname[k]
  BY <1>2
<1>5. ASSUME NEW v \in Variants
      PROVE  PostedBy(opname[n], v) = 0 /\ PostedBy(opname'[n], v) = by(v)
  BY <1>1, <1>3 DEF PostedBy
<1> HIDE DEF by
<1>6. ASSUME NEW v \in Variants
      PROVE  /\ Written(m(v), stock[v], stock[v]) \in Row
             /\ Written(m(v), stock[v], stock[v]).available = stock[v].available + by(v)
             /\ Written(m(v), stock[v], stock[v]).incoming = stock[v].incoming
  <2>1. ValidMove(m(v))
    BY <1>1 DEF ValidMove, Kinds, SignedKinds
  <2>2. Written(m(v), stock[v], stock[v]) \in Row
    BY <2>1, WrittenIsRow
  <2>3. /\ Written(m(v), stock[v], stock[v]).available = stock[v].available + by(v)
        /\ Written(m(v), stock[v], stock[v]).incoming = stock[v].incoming
    BY DEF Written, WritesAvailable, BalanceAfter, AvailableDelta
  <2> QED
    BY <2>2, <2>3
<1>7. stock' \in [Variants -> Row]
  BY <1>1, <1>6
<1>8. ASSUME NEW v \in Variants
      PROVE  /\ stock'[v].available = stock[v].available
                   - PostedBy(opname[n], v) + PostedBy(opname'[n], v)
             /\ stock'[v].incoming = stock[v].incoming
  <2>1. stock[v].available \in Int /\ by(v) \in Int
    BY <1>1 DEF Row
  <2>2. /\ stock'[v].available = stock[v].available + by(v)
        /\ stock'[v].incoming = stock[v].incoming
    BY <1>1, <1>6
  <2> QED
    BY <1>5, <2>1, <2>2
<1> QED
  BY <1>1, <1>4, <1>7, <1>8

\* Nothing but completing a session posts it.
LEMMA UnpostedWrite ==
  ASSUME CountInv, NEW c \in Clerks,
         WriteCount(c) \/ WriteScan(c) \/ RemoveItem(c) \/ CancelOpname(c)
  PROVE  /\ desk[c].doc \in Opnames
         /\ \A m \in Opnames \ {desk[c].doc} : opname'[m] = opname[m]
         /\ opname[desk[c].doc].status # "COMPLETED"
         /\ opname'[desk[c].doc].status # "COMPLETED"
<1> DEFINE n == desk[c].doc
<1>1. desk[c].op \in CountOps
  BY DEF WriteCount, WriteScan, RemoveItem, CancelOpname, CountOps
<1>2. n \in Opnames /\ opname[n].status = "DRAFT"
  BY <1>1 DEF CountInv, CountRequest
<1>3. opname[n] \in OpnameRow
  BY <1>2 DEF CountInv
<1>4. \/ \E v, item : opname' = [opname EXCEPT ![n].item[v] = item]
      \/ opname' = [opname EXCEPT ![n].status = "CANCELLED"]
      \/ opname' = opname
  <2>1. CASE WriteCount(c)
    BY <2>1, Zenon DEF WriteCount
  <2>2. CASE WriteScan(c)
    BY <2>2, Zenon DEF WriteScan
  <2>3. CASE RemoveItem(c)
    BY <2>3, Zenon DEF RemoveItem
  <2>4. CASE CancelOpname(c)
    BY <2>4, Zenon DEF CancelOpname
  <2> QED
    BY <2>1, <2>2, <2>3, <2>4
<1>5. CASE \E v, item : opname' = [opname EXCEPT ![n].item[v] = item]
  <2>1. PICK v, item : opname' = [opname EXCEPT ![n].item[v] = item]
    BY <1>5
  <2>2. opname'[n].status = "DRAFT" /\ \A m \in Opnames \ {n} : opname'[m] = opname[m]
    BY <1>2, <1>3, <2>1 DEF CountInv, OpnameRow
  <2> QED
    BY <1>2, <2>2
<1>6. CASE opname' = [opname EXCEPT ![n].status = "CANCELLED"]
  <2>1. opname'[n].status = "CANCELLED" /\ \A m \in Opnames \ {n} : opname'[m] = opname[m]
    BY <1>2, <1>3, <1>6 DEF CountInv, OpnameRow
  <2> QED
    BY <1>2, <2>1
<1>7. CASE opname' = opname
  BY <1>2, <1>7
<1> QED
  BY <1>4, <1>5, <1>6, <1>7

-----------------------------------------------------------------------------
(* The steps.                                                              *)

\* A step on one kind of document moves the stock by what it writes there:
\* available less the total of that kind stays what it was.
LEMMA PurchaseStep ==
  ASSUME OfficeInv, PurchaseNext, UNCHANGED <<open, sale, opname, missing>>
  PROVE  /\ OfficeInv'
         /\ \A v \in Variants :
              /\ stock'[v].available - ReceivedTotal(v)' = stock[v].available - ReceivedTotal(v)
              /\ stock[v].incoming <= ExpectedTotal(v)
                   => stock'[v].incoming <= ExpectedTotal(v)'
<1>0. /\ stock \in [Variants -> Row] /\ DeskInv /\ PurchaseInv /\ SaleInv /\ CountInv
      /\ FewMeet /\ FewMeet'
  BY DEF OfficeInv, FewMeet
<1>1. CASE \E o \in Purchases, c \in Clerks : OpenReceipt(c, o) \/ OpenOther(c, o)
  <2>1. PICK o \in Purchases, c \in Clerks : OpenReceipt(c, o) \/ OpenOther(c, o)
    BY <1>1
  <2>2. /\ DeskInv' /\ PurchaseInv' /\ stock' = stock /\ purchase' = purchase
        /\ \A d \in Clerks : desk'[d] = desk[d] \/ desk'[d].op \in PurchaseOps
    BY <1>0, <2>1, OpenReceiptInv, OpenOtherInv
  <2>3. \A d \in Clerks : desk'[d] = desk[d] \/ desk'[d].op \notin SaleOps
    BY <2>2 DEF PurchaseOps, DraftOps, StockOps, SaleOps
  <2>4. \A d \in Clerks : desk'[d] = desk[d] \/ desk'[d].op \notin CountOps
    BY <2>2 DEF PurchaseOps, DraftOps, StockOps, CountOps
  <2>5. SaleInv' /\ CountInv'
    BY <1>0, <2>3, <2>4, SalesLeft, CountsLeft
  <2>6. \A v \in Variants : ReceivedTotal(v)' = ReceivedTotal(v) /\ ExpectedTotal(v)' = ExpectedTotal(v)
    BY <2>2 DEF ReceivedTotal, ExpectedTotal
  <2> QED
    BY <1>0, <2>2, <2>5, <2>6 DEF OfficeInv
<1>2. ASSUME DeskInv', PurchaseInv', stock' \in [Variants -> Row],
             NEW o \in Purchases, PurchaseMoves(o),
             \A p \in Purchases \ {o} : purchase'[p] = purchase[p],
             \A d \in Clerks : desk'[d] = desk[d] \/ desk'[d] = NoRequest
      PROVE  /\ OfficeInv'
             /\ \A v \in Variants :
                  /\ stock'[v].available - ReceivedTotal(v)'
                       = stock[v].available - ReceivedTotal(v)
                  /\ stock[v].incoming <= ExpectedTotal(v)
                       => stock'[v].incoming <= ExpectedTotal(v)'
  <2>1. NoRequest.op \notin SaleOps /\ NoRequest.op \notin CountOps
    BY DEF NoRequest, SaleOps, CountOps
  <2>2. SaleInv' /\ CountInv'
    BY <1>0, <1>2, <2>1, SalesLeft, CountsLeft
  <2>3. ASSUME NEW v \in Variants
        PROVE  /\ stock'[v].available - ReceivedTotal(v)'
                    = stock[v].available - ReceivedTotal(v)
               /\ stock[v].incoming <= ExpectedTotal(v)
                    => stock'[v].incoming <= ExpectedTotal(v)'
    <3>1. /\ ReceivedTotal(v) \in Int
          /\ ReceivedTotal(v)' = ReceivedTotal(v) - Units(purchase[o].received, v)
                                                  + Units(purchase'[o].received, v)
          /\ ExpectedTotal(v)' = ExpectedTotal(v) - Expected(purchase[o], v)
                                                  + Expected(purchase'[o], v)
      BY <1>0, <1>2, PurchaseTotals
    <3>2. /\ purchase[o] \in PurchaseRow /\ PurchaseShape(purchase[o])
          /\ purchase'[o] \in PurchaseRow /\ PurchaseShape(purchase'[o])
      BY <1>0, <1>2 DEF PurchaseInv, PurchaseShape
    <3>3. Units(purchase[o].received, v) \in Int /\ Units(purchase'[o].received, v) \in Int
      BY <3>2, UnitsType, CartsAreIntegral DEF PurchaseRow
    <3>4. stock[v].available \in Int
      BY <1>0 DEF Row
    <3>5. /\ stock'[v].available = stock[v].available - Units(purchase[o].received, v)
                                                      + Units(purchase'[o].received, v)
          /\ stock[v].incoming <= ExpectedTotal(v)
               => stock'[v].incoming <= ExpectedTotal(v)'
      BY <1>2, <3>1 DEF PurchaseMoves
    <3> QED
      BY <3>1, <3>3, <3>4, <3>5
  <2> QED
    BY <1>0, <1>2, <2>2, <2>3 DEF OfficeInv
<1>3. CASE \E o \in Purchases : CreatePurchase(o)
  <2>1. PICK o \in Purchases : CreatePurchase(o)
    BY <1>3
  <2>2. desk' = desk
    BY <2>1 DEF CreatePurchase
  <2>3. DeskInv' /\ PurchaseInv'
    BY <1>0, <2>1, CreatePurchaseInv
  <2>4. /\ stock' \in [Variants -> Row] /\ PurchaseMoves(o)
        /\ \A p \in Purchases \ {o} : purchase'[p] = purchase[p]
    BY <1>0, <2>1, CreatePurchaseMoves
  <2> QED
    BY <1>2, <2>2, <2>3, <2>4
<1>4. ASSUME NEW c \in Clerks,
             \/ UpdateDraft(c) \/ PlaceDraft(c) \/ DiscardDraft(c)
             \/ ReceivePurchase(c) \/ CancelPurchase(c)
      PROVE  /\ OfficeInv'
             /\ \A v \in Variants :
                  /\ stock'[v].available - ReceivedTotal(v)'
                       = stock[v].available - ReceivedTotal(v)
                  /\ stock[v].incoming <= ExpectedTotal(v)
                       => stock'[v].incoming <= ExpectedTotal(v)'
  <2>1. /\ DeskInv' /\ PurchaseInv'
        /\ \A d \in Clerks : desk'[d] = IF d = c THEN NoRequest ELSE desk[d]
    BY <1>0, <1>4, UpdateDraftInv, PlaceDraftInv, DiscardDraftInv, ReceivePurchaseInv,
       CancelPurchaseInv
  <2>2. /\ stock' \in [Variants -> Row] /\ PurchaseMoves(desk[c].doc)
        /\ desk[c].doc \in Purchases
        /\ \A p \in Purchases \ {desk[c].doc} : purchase'[p] = purchase[p]
    BY <1>0, <1>4, DraftMoves, ReceivePurchaseMoves, CancelPurchaseMoves
  <2>3. \A d \in Clerks : desk'[d] = desk[d] \/ desk'[d] = NoRequest
    BY <2>1
  <2> QED
    BY <1>2, <2>1, <2>2, <2>3
<1> QED
  BY <1>1, <1>3, <1>4 DEF PurchaseNext

LEMMA SaleStep ==
  ASSUME OfficeInv, SaleNext, UNCHANGED <<open, purchase, opname, missing>>
  PROVE  /\ OfficeInv'
         /\ \A v \in Variants :
              /\ stock'[v].available + SoldTotal(v)' = stock[v].available + SoldTotal(v)
              /\ stock'[v].incoming = stock[v].incoming
<1>0. /\ stock \in [Variants -> Row] /\ DeskInv /\ PurchaseInv /\ SaleInv /\ CountInv
      /\ FewMeet /\ FewMeet'
  BY DEF OfficeInv, FewMeet
<1>1. CASE \E s \in SaleIds, c \in Clerks : OpenVoid(c, s) \/ OpenRefund(c, s)
  <2>1. PICK s \in SaleIds, c \in Clerks : OpenVoid(c, s) \/ OpenRefund(c, s)
    BY <1>1
  <2>2. /\ DeskInv' /\ SaleInv' /\ stock' = stock /\ sale' = sale
        /\ \A d \in Clerks : desk'[d] = desk[d] \/ desk'[d].op \in SaleOps
    BY <1>0, <2>1, OpenSaleInv
  <2>3. \A d \in Clerks : desk'[d] = desk[d] \/ desk'[d].op \notin PurchaseOps
    BY <2>2 DEF PurchaseOps, DraftOps, StockOps, SaleOps
  <2>4. \A d \in Clerks : desk'[d] = desk[d] \/ desk'[d].op \notin CountOps
    BY <2>2 DEF SaleOps, CountOps
  <2>5. PurchaseInv' /\ CountInv'
    BY <1>0, <2>3, <2>4, PurchasesLeft, CountsLeft
  <2>6. \A v \in Variants : SoldTotal(v)' = SoldTotal(v)
    BY <2>2 DEF SoldTotal
  <2> QED
    BY <1>0, <2>2, <2>5, <2>6 DEF OfficeInv
<1>2. ASSUME DeskInv', SaleInv', stock' \in [Variants -> Row], NEW s \in SaleIds, SaleMoves(s),
             \A t \in SaleIds \ {s} : sale'[t] = sale[t],
             \A d \in Clerks : desk'[d] = desk[d] \/ desk'[d] = NoRequest
      PROVE  /\ OfficeInv'
             /\ \A v \in Variants :
                  /\ stock'[v].available + SoldTotal(v)' = stock[v].available + SoldTotal(v)
                  /\ stock'[v].incoming = stock[v].incoming
  <2>1. NoRequest.op \notin PurchaseOps /\ NoRequest.op \notin CountOps
    BY DEF NoRequest, PurchaseOps, DraftOps, StockOps, CountOps
  <2>2. PurchaseInv' /\ CountInv'
    BY <1>0, <1>2, <2>1, PurchasesLeft, CountsLeft
  <2>3. ASSUME NEW v \in Variants
        PROVE  /\ stock'[v].available + SoldTotal(v)' = stock[v].available + SoldTotal(v)
               /\ stock'[v].incoming = stock[v].incoming
    <3>1. /\ SoldTotal(v) \in Int
          /\ SoldTotal(v)' = SoldTotal(v) - Units(WithCustomer(sale[s]), v)
                                          + Units(WithCustomer(sale'[s]), v)
      BY <1>0, <1>2, SaleTotals
    <3>2. sale[s] \in SaleRow /\ sale'[s] \in SaleRow
      BY <1>0, <1>2 DEF SaleInv
    <3>3. /\ Units(WithCustomer(sale[s]), v) \in Int
          /\ Units(WithCustomer(sale'[s]), v) \in Int
      BY <3>2, CustomerUnits
    <3>4. stock[v].available \in Int
      BY <1>0 DEF Row
    <3>5. /\ stock'[v].available = stock[v].available + Units(WithCustomer(sale[s]), v)
                                                      - Units(WithCustomer(sale'[s]), v)
          /\ stock'[v].incoming = stock[v].incoming
      BY <1>2 DEF SaleMoves
    <3> QED
      BY <3>1, <3>3, <3>4, <3>5
  <2> QED
    BY <1>0, <1>2, <2>2, <2>3 DEF OfficeInv
<1>3. CASE \E s \in SaleIds : CreateSale(s)
  <2>1. PICK s \in SaleIds : CreateSale(s)
    BY <1>3
  <2>2. desk' = desk
    BY <2>1 DEF CreateSale
  <2>3. DeskInv' /\ SaleInv'
    BY <1>0, <2>1, CreateSaleInv
  <2>4. /\ stock' \in [Variants -> Row] /\ SaleMoves(s)
        /\ \A t \in SaleIds \ {s} : sale'[t] = sale[t]
    BY <1>0, <2>1, <2>3, CreateSaleMoves
  <2> QED
    BY <1>2, <2>2, <2>3, <2>4
<1>4. ASSUME NEW c \in Clerks, VoidSale(c) \/ RefundSale(c)
      PROVE  /\ OfficeInv'
             /\ \A v \in Variants :
                  /\ stock'[v].available + SoldTotal(v)' = stock[v].available + SoldTotal(v)
                  /\ stock'[v].incoming = stock[v].incoming
  <2>1. /\ DeskInv' /\ SaleInv'
        /\ \A d \in Clerks : desk'[d] = IF d = c THEN NoRequest ELSE desk[d]
    BY <1>0, <1>4, VoidSaleInv, RefundSaleInv
  <2>2. /\ stock' \in [Variants -> Row] /\ SaleMoves(desk[c].doc)
        /\ desk[c].doc \in SaleIds
        /\ \A t \in SaleIds \ {desk[c].doc} : sale'[t] = sale[t]
    BY <1>0, <1>4, <2>1, VoidSaleMoves, RefundSaleMoves
  <2>3. \A d \in Clerks : desk'[d] = desk[d] \/ desk'[d] = NoRequest
    BY <2>1
  <2> QED
    BY <1>2, <2>1, <2>2, <2>3
<1> QED
  BY <1>1, <1>3, <1>4 DEF SaleNext

LEMMA OpnameStep ==
  ASSUME OfficeInv, OpnameNext, UNCHANGED <<open, purchase, sale>>
  PROVE  /\ OfficeInv'
         /\ \A v \in Variants :
              /\ stock'[v].available - PostedTotal(v)' = stock[v].available - PostedTotal(v)
              /\ stock'[v].incoming = stock[v].incoming
<1>0. /\ stock \in [Variants -> Row] /\ DeskInv /\ PurchaseInv /\ SaleInv /\ CountInv
      /\ FewMeet /\ FewMeet'
  BY DEF OfficeInv, FewMeet
<1>1. ASSUME DeskInv', CountInv', stock' = stock,
             \A v \in Variants : PostedTotal(v)' = PostedTotal(v),
             \A d \in Clerks : desk'[d] = desk[d] \/ desk'[d] = NoRequest
                                 \/ desk'[d].op \in CountOps
      PROVE  /\ OfficeInv'
             /\ \A v \in Variants :
                  /\ stock'[v].available - PostedTotal(v)' = stock[v].available - PostedTotal(v)
                  /\ stock'[v].incoming = stock[v].incoming
  <2>1. \A d \in Clerks : desk'[d] = desk[d] \/ desk'[d].op \notin PurchaseOps
    BY <1>1 DEF NoRequest, PurchaseOps, DraftOps, StockOps, CountOps
  <2>2. \A d \in Clerks : desk'[d] = desk[d] \/ desk'[d].op \notin SaleOps
    BY <1>1 DEF NoRequest, SaleOps, CountOps
  <2>3. PurchaseInv' /\ SaleInv'
    BY <1>0, <2>1, <2>2, PurchasesLeft, SalesLeft
  <2> QED
    BY <1>0, <1>1, <2>3 DEF OfficeInv
<1>2. CASE \E n \in Opnames, c \in Clerks : OpensCount(c, n)
  <2>1. PICK n \in Opnames, c \in Clerks : OpensCount(c, n)
    BY <1>2
  <2>2. /\ DeskInv' /\ CountInv' /\ stock' = stock /\ opname' = opname
        /\ \A d \in Clerks : desk'[d] = desk[d] \/ desk'[d].op \in CountOps
    BY <1>0, <2>1, OpensCountInv
  <2>3. \A v \in Variants : PostedTotal(v)' = PostedTotal(v)
    BY <2>2 DEF PostedTotal
  <2> QED
    BY <1>1, <2>2, <2>3
<1>3. CASE \E v \in Variants : LoseUnit(v)
  <2>1. PICK v \in Variants : LoseUnit(v)
    BY <1>3
  <2>2. DeskInv' /\ CountInv' /\ stock' = stock /\ desk' = desk /\ opname' = opname
    BY <1>0, <2>1, LoseUnitInv DEF LoseUnit
  <2>3. \A u \in Variants : PostedTotal(u)' = PostedTotal(u)
    BY <2>2 DEF PostedTotal
  <2> QED
    BY <1>1, <2>2, <2>3
<1>4. ASSUME CountInv', NEW n \in Opnames,
             \A m \in Opnames \ {n} : opname'[m] = opname[m],
             opname[n].status # "COMPLETED", opname'[n].status # "COMPLETED"
      PROVE  \A v \in Variants : PostedTotal(v)' = PostedTotal(v)
  <2>1. SUFFICES ASSUME NEW v \in Variants PROVE PostedTotal(v)' = PostedTotal(v)
    OBVIOUS
  <2>2. PostedBy(opname[n], v) = 0 /\ PostedBy(opname'[n], v) = 0
    BY <1>4 DEF PostedBy
  <2>3. /\ PostedTotal(v) \in Int
        /\ PostedTotal(v)' = PostedTotal(v) - PostedBy(opname[n], v) + PostedBy(opname'[n], v)
    BY <1>0, <1>4, PostedTotals
  <2> QED
    BY <2>2, <2>3
<1>5. CASE \E n \in Opnames : CreateOpname(n)
  <2>1. PICK n \in Opnames : CreateOpname(n)
    BY <1>5
  <2>2. DeskInv' /\ CountInv'
    BY <1>0, <2>1, CreateOpnameInv
  <2>3. /\ stock' = stock /\ desk' = desk
        /\ opname' = [opname EXCEPT ![n].status = "DRAFT"] /\ opname[n].status = "none"
    BY <2>1 DEF CreateOpname
  <2>4. /\ opname'[n].status = "DRAFT" /\ \A m \in Opnames \ {n} : opname'[m] = opname[m]
    BY <1>0, <2>3 DEF CountInv, OpnameRow
  <2>5. \A v \in Variants : PostedTotal(v)' = PostedTotal(v)
    BY <1>4, <2>2, <2>3, <2>4
  <2> QED
    BY <1>1, <2>2, <2>3, <2>5
<1>6. ASSUME NEW c \in Clerks,
             WriteCount(c) \/ WriteScan(c) \/ RemoveItem(c) \/ CancelOpname(c)
      PROVE  /\ OfficeInv'
             /\ \A v \in Variants :
                  /\ stock'[v].available - PostedTotal(v)' = stock[v].available - PostedTotal(v)
                  /\ stock'[v].incoming = stock[v].incoming
  <2>1. /\ DeskInv' /\ CountInv' /\ stock' = stock
        /\ \A d \in Clerks : desk'[d] = IF d = c THEN NoRequest ELSE desk[d]
    BY <1>0, <1>6, WriteCountInv, WriteScanInv, RemoveItemInv, CancelOpnameInv
  <2>2. /\ desk[c].doc \in Opnames
        /\ \A m \in Opnames \ {desk[c].doc} : opname'[m] = opname[m]
        /\ opname[desk[c].doc].status # "COMPLETED"
        /\ opname'[desk[c].doc].status # "COMPLETED"
    BY <1>0, <1>6, UnpostedWrite
  <2>3. \A v \in Variants : PostedTotal(v)' = PostedTotal(v)
    BY <1>4, <2>1, <2>2
  <2> QED
    BY <1>1, <2>1, <2>3
<1>7. ASSUME NEW c \in Clerks, ReadScan(c)
      PROVE  /\ OfficeInv'
             /\ \A v \in Variants :
                  /\ stock'[v].available - PostedTotal(v)' = stock[v].available - PostedTotal(v)
                  /\ stock'[v].incoming = stock[v].incoming
  <2>1. /\ DeskInv' /\ CountInv' /\ stock' = stock /\ opname' = opname
        /\ \A d \in Clerks : desk'[d] = desk[d] \/ desk'[d].op \in CountOps
    BY <1>0, <1>7, ReadScanInv
  <2>2. \A v \in Variants : PostedTotal(v)' = PostedTotal(v)
    BY <2>1 DEF PostedTotal
  <2> QED
    BY <1>1, <2>1, <2>2
<1>8. ASSUME NEW c \in Clerks, CompleteOpname(c)
      PROVE  /\ OfficeInv'
             /\ \A v \in Variants :
                  /\ stock'[v].available - PostedTotal(v)' = stock[v].available - PostedTotal(v)
                  /\ stock'[v].incoming = stock[v].incoming
  <2>1. /\ DeskInv' /\ CountInv'
        /\ \A d \in Clerks : desk'[d] = IF d = c THEN NoRequest ELSE desk[d]
    BY <1>0, <1>8, CompleteOpnameInv
  <2>2. /\ stock' \in [Variants -> Row] /\ desk[c].doc \in Opnames
        /\ \A m \in Opnames \ {desk[c].doc} : opname'[m] = opname[m]
        /\ \A v \in Variants :
             /\ stock'[v].available = stock[v].available
                  - PostedBy(opname[desk[c].doc], v) + PostedBy(opname'[desk[c].doc], v)
             /\ stock'[v].incoming = stock[v].incoming
    BY <1>0, <1>8, <2>1, CompleteOpnameMoves
  <2>3. NoRequest.op \notin PurchaseOps /\ NoRequest.op \notin SaleOps
    BY DEF NoRequest, PurchaseOps, DraftOps, StockOps, SaleOps
  <2>4. PurchaseInv' /\ SaleInv'
    BY <1>0, <2>1, <2>3, PurchasesLeft, SalesLeft
  <2>5. ASSUME NEW v \in Variants
        PROVE  stock'[v].available - PostedTotal(v)' = stock[v].available - PostedTotal(v)
    <3>1. /\ PostedTotal(v) \in Int
          /\ PostedTotal(v)' = PostedTotal(v) - PostedBy(opname[desk[c].doc], v)
                                              + PostedBy(opname'[desk[c].doc], v)
      BY <1>0, <2>1, <2>2, PostedTotals
    <3>2. /\ PostedBy(opname[desk[c].doc], v) \in Int
          /\ PostedBy(opname'[desk[c].doc], v) \in Int
      BY <1>0, <2>1, <2>2, PostedType DEF CountInv
    <3>3. stock[v].available \in Int
      BY <1>0 DEF Row
    <3> QED
      BY <2>2, <3>1, <3>2, <3>3
  <2> QED
    BY <1>0, <2>1, <2>2, <2>4, <2>5 DEF OfficeInv
<1> QED
  BY <1>2, <1>3, <1>5, <1>6, <1>7, <1>8 DEF OpnameNext, OpensCount

\* A request that dies writes nothing.
LEMMA DieStep ==
  ASSUME OfficeInv, NEW c \in Clerks, Die(c)
  PROVE  OfficeInv'
<1>0. /\ stock \in [Variants -> Row] /\ DeskInv /\ PurchaseInv /\ SaleInv /\ CountInv
      /\ FewMeet /\ FewMeet'
  BY DEF OfficeInv, FewMeet, Die
<1>1. /\ Answered(c) /\ stock' = stock /\ purchase' = purchase /\ sale' = sale
      /\ opname' = opname /\ missing' = missing
  BY DEF Die
<1>2. DeskInv' /\ \A d \in Clerks : desk'[d] = IF d = c THEN NoRequest ELSE desk[d]
  BY <1>0, <1>1, AnsweredDesk
<1>3. /\ NoRequest.op \notin PurchaseOps /\ NoRequest.op \notin SaleOps
      /\ NoRequest.op \notin CountOps
  BY DEF NoRequest, PurchaseOps, DraftOps, StockOps, SaleOps, CountOps
<1>4. PurchaseInv' /\ SaleInv' /\ CountInv'
  BY <1>0, <1>1, <1>2, <1>3, PurchasesLeft, SalesLeft, CountsLeft
<1> QED
  BY <1>0, <1>1, <1>2, <1>4 DEF OfficeInv

LEMMA StutterStep ==
  ASSUME OfficeInv, UNCHANGED vars
  PROVE  OfficeInv'
<1>0. /\ stock \in [Variants -> Row] /\ DeskInv /\ PurchaseInv /\ SaleInv /\ CountInv
      /\ FewMeet /\ FewMeet'
  BY DEF OfficeInv, FewMeet, vars
<1>1. /\ stock' = stock /\ desk' = desk /\ purchase' = purchase /\ sale' = sale
      /\ opname' = opname /\ missing' = missing
  BY DEF vars
<1>2. DeskInv'
  BY <1>0, <1>1 DEF DeskInv, Busy
<1>3. PurchaseInv' /\ SaleInv' /\ CountInv'
  BY <1>0, <1>1, PurchasesLeft, SalesLeft, CountsLeft
<1> QED
  BY <1>0, <1>1, <1>2, <1>3 DEF OfficeInv

-----------------------------------------------------------------------------
(* The invariants.                                                         *)

\* Totals over any documents, those of now or those of the next state, are
\* numbers.
LEMMA TotalsOfDocuments ==
  ASSUME NEW v \in Variants,
         NEW orders, \A o \in Purchases : orders[o] \in PurchaseRow /\ PurchaseShape(orders[o]),
         NEW sales, \A t \in SaleIds : sales[t] \in SaleRow,
         NEW counts, \A n \in Opnames : counts[n] \in OpnameRow
  PROVE  /\ SumFunction([o \in Purchases |-> Expected(orders[o], v)]) \in Int
         /\ SumFunction([o \in Purchases |-> Units(orders[o].received, v)]) \in Int
         /\ SumFunction([t \in SaleIds |-> Units(WithCustomer(sales[t]), v)]) \in Int
         /\ SumFunction([n \in Opnames |-> PostedBy(counts[n], v)]) \in Int
<1> DEFINE e == [o \in Purchases |-> Expected(orders[o], v)]
           r == [o \in Purchases |-> Units(orders[o].received, v)]
           s == [t \in SaleIds |-> Units(WithCustomer(sales[t]), v)]
           p == [n \in Opnames |-> PostedBy(counts[n], v)]
<1>1. \A o \in Purchases : Expected(orders[o], v) \in Int /\ Units(orders[o].received, v) \in Int
  BY PurchaseUnits
<1>2. \A t \in SaleIds : Units(WithCustomer(sales[t]), v) \in Int
  BY CustomerUnits
<1>3. \A n \in Opnames : PostedBy(counts[n], v) \in Int
  BY PostedType
<1>4. /\ Integral(e, Purchases) /\ Integral(r, Purchases)
      /\ Integral(s, SaleIds) /\ Integral(p, Opnames)
  BY <1>1, <1>2, <1>3 DEF Integral
<1>5. DOMAIN e = Purchases /\ DOMAIN r = Purchases /\ DOMAIN s = SaleIds /\ DOMAIN p = Opnames
  OBVIOUS
<1> HIDE DEF e, r, s, p
<1>6. /\ SumFunctionOnSet(e, Purchases) \in Int /\ SumFunctionOnSet(r, Purchases) \in Int
      /\ SumFunctionOnSet(s, SaleIds) \in Int /\ SumFunctionOnSet(p, Opnames) \in Int
  BY <1>4, SumType, PurchasesAssumption, SalesAssumption, OpnamesAssumption
<1>7. /\ SumFunction(e) \in Int /\ SumFunction(r) \in Int
      /\ SumFunction(s) \in Int /\ SumFunction(p) \in Int
  BY <1>5, <1>6 DEF SumFunction
<1> QED
  BY <1>7 DEF e, r, s, p

LEMMA TotalsAreIntegers ==
  ASSUME OfficeInv, NEW v \in Variants
  PROVE  ReceivedTotal(v) \in Int /\ SoldTotal(v) \in Int /\ PostedTotal(v) \in Int
<1>1. /\ \A o \in Purchases : purchase[o] \in PurchaseRow /\ PurchaseShape(purchase[o])
      /\ \A t \in SaleIds : sale[t] \in SaleRow
      /\ \A n \in Opnames : opname[n] \in OpnameRow
  BY DEF OfficeInv, PurchaseInv, SaleInv, CountInv
<1> QED
  BY <1>1, TotalsOfDocuments DEF ReceivedTotal, SoldTotal, PostedTotal

LEMMA TotalsStayIntegers ==
  ASSUME OfficeInv', NEW v \in Variants
  PROVE  ReceivedTotal(v)' \in Int /\ SoldTotal(v)' \in Int /\ PostedTotal(v)' \in Int
<1>1. /\ \A o \in Purchases : purchase'[o] \in PurchaseRow /\ PurchaseShape(purchase'[o])
      /\ \A t \in SaleIds : sale'[t] \in SaleRow
      /\ \A n \in Opnames : opname'[n] \in OpnameRow
  BY DEF OfficeInv, PurchaseInv, PurchaseShape, SaleInv, CountInv
<1> QED
  BY <1>1, TotalsOfDocuments DEF ReceivedTotal, SoldTotal, PostedTotal

LEMMA InitOfficeInv == ASSUME EditsWorkAlone PROVE Init => OfficeInv
<1> SUFFICES ASSUME Init PROVE OfficeInv
  OBVIOUS
<1>1. /\ stock = [v \in Variants |-> [EmptyRow EXCEPT !.available = InitialStock]]
      /\ desk = [c \in Clerks |-> NoRequest]
      /\ purchase = [o \in Purchases |-> NoPurchase]
      /\ sale = [s \in SaleIds |-> NoSale]
      /\ opname = [n \in Opnames |-> NoOpname]
      /\ missing = [v \in Variants |-> 0]
  BY DEF Init, PurchaseInit, SaleInit, OpnameInit
<1>2. [EmptyRow EXCEPT !.available = InitialStock] \in Row
  BY InitialStockAssumption DEF EmptyRow, Row
<1>3. stock \in [Variants -> Row]
  BY <1>1, <1>2
<1>4. \A c \in Clerks : desk[c] = NoRequest
  BY <1>1
<1>5. DeskInv
  BY <1>1, <1>4 DEF DeskInv, Busy, NoRequest, Ops
<1>6. \A c \in Clerks : /\ desk[c].op \notin PurchaseOps /\ desk[c].op \notin SaleOps
                        /\ desk[c].op \notin CountOps /\ desk[c].op # "refund"
  BY <1>4 DEF NoRequest, PurchaseOps, DraftOps, StockOps, SaleOps, CountOps
<1>7. NoPurchase \in PurchaseRow /\ PurchaseShape(NoPurchase)
  BY EmptyCartIsCart
  DEF NoPurchase, PurchaseRow, PurchaseStatuses, PurchaseShape, EmptyCart
<1>8. PurchaseInv
  BY <1>1, <1>6, <1>7 DEF PurchaseInv, PurchaseRequest
<1>9. NoSale \in SaleRow /\ SaleShape(NoSale)
  BY EmptyCartIsCart DEF NoSale, SaleRow, SaleStatuses, SaleShape, EmptyCart
<1>10. SaleInv
  BY <1>1, <1>6, <1>9 DEF SaleInv, SaleRequest
<1>11. NoOpname \in OpnameRow /\ Counted(NoOpname.item) = {}
  BY DEF NoOpname, OpnameRow, Counted
<1>12. CountInv
  BY <1>1, <1>6, <1>11 DEF CountInv, VarianceInv, CountRequest
<1>13. FewMeet
  BY DEF Init, EditsWorkAlone, FewMeet
<1> QED
  BY <1>3, <1>5, <1>8, <1>10, <1>12, <1>13 DEF OfficeInv

Books ==
  \A v \in Variants :
    stock[v].available = InitialStock + ReceivedTotal(v) - SoldTotal(v) + PostedTotal(v)

Incoming == \A v \in Variants : stock[v].incoming <= ExpectedTotal(v)

\* Before there is any document, every total is zero.
LEMMA InitTotals ==
  ASSUME Init, NEW v \in Variants
  PROVE  /\ ExpectedTotal(v) = 0 /\ ReceivedTotal(v) = 0
         /\ SoldTotal(v) = 0 /\ PostedTotal(v) = 0
         /\ stock[v].available = InitialStock /\ stock[v].incoming = 0
<1> DEFINE e == [o \in Purchases |-> Expected(purchase[o], v)]
           r == [o \in Purchases |-> Units(purchase[o].received, v)]
           s == [t \in SaleIds |-> Units(WithCustomer(sale[t]), v)]
           p == [n \in Opnames |-> PostedBy(opname[n], v)]
<1>1. /\ stock = [u \in Variants |-> [EmptyRow EXCEPT !.available = InitialStock]]
      /\ purchase = [o \in Purchases |-> NoPurchase]
      /\ sale = [t \in SaleIds |-> NoSale]
      /\ opname = [n \in Opnames |-> NoOpname]
  BY DEF Init, PurchaseInit, SaleInit, OpnameInit
<1>2. stock[v].available = InitialStock /\ stock[v].incoming = 0
  BY <1>1 DEF EmptyRow
<1>3. \A o \in Purchases : Expected(purchase[o], v) = 0 /\ Units(purchase[o].received, v) = 0
  BY <1>1, UnitsEmpty DEF NoPurchase, Expected, Placed
<1>4. \A t \in SaleIds : Units(WithCustomer(sale[t]), v) = 0
  <2>1. \A i \in Items : WithCustomer(NoSale)[i] = 0
    BY DEF WithCustomer, NoSale, EmptyCart
  <2>2. Units(WithCustomer(NoSale), v) = 0
    BY <2>1, UnitsZero
  <2> QED
    BY <1>1, <2>2
<1>5. \A n \in Opnames : PostedBy(opname[n], v) = 0
  BY <1>1 DEF NoOpname, PostedBy
<1>6. /\ \A o \in Purchases : e[o] = 0 /\ r[o] = 0
      /\ \A t \in SaleIds : s[t] = 0
      /\ \A n \in Opnames : p[n] = 0
  BY <1>3, <1>4, <1>5
<1>7. DOMAIN e = Purchases /\ DOMAIN r = Purchases /\ DOMAIN s = SaleIds /\ DOMAIN p = Opnames
  OBVIOUS
<1>8. /\ ExpectedTotal(v) = SumFunction(e) /\ ReceivedTotal(v) = SumFunction(r)
      /\ SoldTotal(v) = SumFunction(s) /\ PostedTotal(v) = SumFunction(p)
  BY DEF ExpectedTotal, ReceivedTotal, SoldTotal, PostedTotal
<1> HIDE DEF e, r, s, p
<1>9. /\ SumFunctionOnSet(e, Purchases) = 0 /\ SumFunctionOnSet(r, Purchases) = 0
      /\ SumFunctionOnSet(s, SaleIds) = 0 /\ SumFunctionOnSet(p, Opnames) = 0
  BY <1>6, SumZero, PurchasesAssumption, SalesAssumption, OpnamesAssumption
<1> QED
  BY <1>2, <1>7, <1>8, <1>9 DEF SumFunction

\* Every step keeps the invariant, the books, and the incoming bucket within
\* what is expected.
LEMMA OfficeStep ==
  ASSUME OfficeInv, [Next]_vars
  PROVE  /\ OfficeInv'
         /\ Books => Books'
         /\ Incoming => Incoming'
<1>0. stock \in [Variants -> Row] /\ \A v \in Variants : stock[v].available \in Int
  BY DEF OfficeInv, Row
<1>1. ASSUME OfficeInv',
             \A v \in Variants :
               stock'[v].available - ReceivedTotal(v)' + SoldTotal(v)' - PostedTotal(v)'
                 = stock[v].available - ReceivedTotal(v) + SoldTotal(v) - PostedTotal(v)
      PROVE  Books => Books'
  <2>1. SUFFICES ASSUME Books, NEW v \in Variants
                 PROVE  stock'[v].available
                          = InitialStock + ReceivedTotal(v)' - SoldTotal(v)' + PostedTotal(v)'
    BY DEF Books
  <2>2. /\ ReceivedTotal(v) \in Int /\ SoldTotal(v) \in Int /\ PostedTotal(v) \in Int
    BY TotalsAreIntegers
  <2>3. /\ ReceivedTotal(v)' \in Int /\ SoldTotal(v)' \in Int /\ PostedTotal(v)' \in Int
    BY <1>1, TotalsStayIntegers
  <2>4. stock'[v].available \in Int /\ InitialStock \in Int
    BY <1>1, InitialStockAssumption DEF OfficeInv, Row
  <2>5. stock[v].available = InitialStock + ReceivedTotal(v) - SoldTotal(v) + PostedTotal(v)
    BY <2>1 DEF Books
  <2> QED
    BY <1>0, <1>1, <2>2, <2>3, <2>4, <2>5
<1>2. CASE PurchaseNext /\ UNCHANGED <<open, sale, opname, missing>>
  <2>1. \A v \in Variants : SoldTotal(v)' = SoldTotal(v) /\ PostedTotal(v)' = PostedTotal(v)
    BY <1>2 DEF SoldTotal, PostedTotal
  <2>2. /\ OfficeInv'
        /\ \A v \in Variants :
             /\ stock'[v].available - ReceivedTotal(v)' = stock[v].available - ReceivedTotal(v)
             /\ stock[v].incoming <= ExpectedTotal(v)
                  => stock'[v].incoming <= ExpectedTotal(v)'
    BY <1>2, PurchaseStep
  <2>3. Incoming => Incoming'
    BY <2>2 DEF Incoming
  <2>4. \A v \in Variants :
          stock'[v].available - ReceivedTotal(v)' + SoldTotal(v)' - PostedTotal(v)'
            = stock[v].available - ReceivedTotal(v) + SoldTotal(v) - PostedTotal(v)
    BY <2>1, <2>2
  <2> QED
    BY <1>1, <2>2, <2>3, <2>4
<1>3. CASE SaleNext /\ UNCHANGED <<open, purchase, opname, missing>>
  <2>1. \A v \in Variants : /\ ReceivedTotal(v)' = ReceivedTotal(v)
                            /\ ExpectedTotal(v)' = ExpectedTotal(v)
                            /\ PostedTotal(v)' = PostedTotal(v)
    BY <1>3 DEF ReceivedTotal, ExpectedTotal, PostedTotal
  <2>2. /\ OfficeInv'
        /\ \A v \in Variants :
             /\ stock'[v].available + SoldTotal(v)' = stock[v].available + SoldTotal(v)
             /\ stock'[v].incoming = stock[v].incoming
    BY <1>3, SaleStep
  <2>3. Incoming => Incoming'
    BY <2>1, <2>2 DEF Incoming
  <2>4. ASSUME NEW v \in Variants
        PROVE  stock'[v].available - ReceivedTotal(v)' + SoldTotal(v)' - PostedTotal(v)'
                 = stock[v].available - ReceivedTotal(v) + SoldTotal(v) - PostedTotal(v)
    <3>1. ReceivedTotal(v) \in Int /\ SoldTotal(v) \in Int /\ PostedTotal(v) \in Int
      BY TotalsAreIntegers
    <3>2. SoldTotal(v)' \in Int
      BY <2>2, TotalsStayIntegers
    <3>3. stock'[v].available \in Int
      BY <2>2 DEF OfficeInv, Row
    <3> QED
      BY <1>0, <2>1, <2>2, <3>1, <3>2, <3>3
  <2> QED
    BY <1>1, <2>2, <2>3, <2>4
<1>4. CASE OpnameNext /\ UNCHANGED <<open, purchase, sale>>
  <2>1. \A v \in Variants : /\ ReceivedTotal(v)' = ReceivedTotal(v)
                            /\ ExpectedTotal(v)' = ExpectedTotal(v)
                            /\ SoldTotal(v)' = SoldTotal(v)
    BY <1>4 DEF ReceivedTotal, ExpectedTotal, SoldTotal
  <2>2. /\ OfficeInv'
        /\ \A v \in Variants :
             /\ stock'[v].available - PostedTotal(v)' = stock[v].available - PostedTotal(v)
             /\ stock'[v].incoming = stock[v].incoming
    BY <1>4, OpnameStep
  <2>3. Incoming => Incoming'
    BY <2>1, <2>2 DEF Incoming
  <2>4. ASSUME NEW v \in Variants
        PROVE  stock'[v].available - ReceivedTotal(v)' + SoldTotal(v)' - PostedTotal(v)'
                 = stock[v].available - ReceivedTotal(v) + SoldTotal(v) - PostedTotal(v)
    <3>1. ReceivedTotal(v) \in Int /\ SoldTotal(v) \in Int /\ PostedTotal(v) \in Int
      BY TotalsAreIntegers
    <3>2. PostedTotal(v)' \in Int
      BY <2>2, TotalsStayIntegers
    <3>3. stock'[v].available \in Int
      BY <2>2 DEF OfficeInv, Row
    <3> QED
      BY <1>0, <2>1, <2>2, <3>1, <3>2, <3>3
  <2> QED
    BY <1>1, <2>2, <2>3, <2>4
<1>5. ASSUME OfficeInv', UNCHANGED <<stock, purchase, sale, opname>>
      PROVE  (Books => Books') /\ (Incoming => Incoming')
  BY <1>5 DEF Books, Incoming, ReceivedTotal, ExpectedTotal, SoldTotal, PostedTotal
<1>6. CASE \E c \in Clerks : Die(c)
  BY <1>5, <1>6, DieStep DEF Die
<1>7. CASE UNCHANGED vars
  BY <1>5, <1>7, StutterStep DEF vars
<1> QED
  BY <1>2, <1>3, <1>4, <1>6, <1>7 DEF Next

-----------------------------------------------------------------------------
(* The theorems.                                                           *)

LEMMA OfficeInvHolds == ASSUME EditsWorkAlone PROVE Spec => []OfficeInv
<1>1. OfficeInv /\ [Next]_vars => OfficeInv'
  BY OfficeStep
<1> QED
  BY InitOfficeInv, <1>1, PTL DEF Spec

\* Documents, stock and requests keep their types: in particular the reserved,
\* damaged and incoming buckets never go below zero, and a count line's
\* variance is always what was counted less its baseline.
THEOREM BackOfficeTypeCorrect == ASSUME EditsWorkAlone PROVE Spec => []TypeOK
<1>1. OfficeInv => TypeOK
  BY DEF OfficeInv, PurchaseInv, SaleInv, CountInv, VarianceInv, TypeOK
<1> QED
  BY OfficeInvHolds, <1>1, PTL

\* However the receipts and cancellations of an order meet, each computing the
\* new status from the order it loaded (receivePurchaseOrder), an order that
\* ends as RECEIVED has received every line in full.
THEOREM ReceivedIsAlwaysComplete == ASSUME EditsWorkAlone PROVE Spec => []ReceivedIsComplete
<1>1. OfficeInv => ReceivedIsComplete
  <2> SUFFICES ASSUME OfficeInv, NEW o \in Purchases, purchase[o].status = "RECEIVED",
                      NEW i \in Items
               PROVE  purchase[o].received[i] >= purchase[o].ordered[i]
    BY DEF ReceivedIsComplete
  <2>1. PurchaseShape(purchase[o])
    BY DEF OfficeInv, PurchaseInv
  <2> QED
    BY <2>1 DEF PurchaseShape
<1> QED
  BY OfficeInvHolds, <1>1, PTL

\* However voids and refunds of one sale overlap, a unit comes back at most
\* once: voidSale and createSaleRefund check again under the sale's lock.
THEOREM SalesSettleOnce == ASSUME EditsWorkAlone PROVE Spec => []SaleSettledOnce
<1>1. OfficeInv => SaleSettledOnce
  <2> SUFFICES ASSUME OfficeInv, NEW s \in SaleIds
               PROVE  /\ sale[s].status = "VOID" => ~HasRefund(sale[s])
                      /\ \A i \in Items : sale[s].refunded[i] <= sale[s].sold[i]
    BY DEF SaleSettledOnce
  <2>1. SaleShape(sale[s])
    BY DEF OfficeInv, SaleInv
  <2> QED
    BY <2>1 DEF SaleShape, HasRefund
<1> QED
  BY OfficeInvHolds, <1>1, PTL

\* Available stock is what there was, plus what purchase orders show as
\* received, minus what sales show as with their customers, plus what posted
\* counts corrected: no request moves a unit its document does not show.
THEOREM BooksAlwaysBalance == ASSUME EditsWorkAlone PROVE Spec => []BooksBalance
<1> DEFINE Inv == OfficeInv /\ Books
<1>1. Init => Inv
  <2> SUFFICES ASSUME Init PROVE Books
    BY InitOfficeInv
  <2>1. \A v \in Variants :
          /\ stock[v].available = InitialStock /\ ReceivedTotal(v) = 0
          /\ SoldTotal(v) = 0 /\ PostedTotal(v) = 0
    BY InitTotals
  <2> QED
    BY <2>1, InitialStockAssumption DEF Books
<1>2. Inv /\ [Next]_vars => Inv'
  BY OfficeStep
<1>3. Inv => BooksBalance
  BY DEF Books, BooksBalance, ReceivedTotal, SoldTotal, PostedTotal
<1> HIDE DEF Inv
<1> QED
  BY <1>1, <1>2, <1>3, PTL DEF Spec

\* The incoming bucket never shows units that no placed order expects, even
\* when receipts and cancellations of one order meet and drafts are cancelled:
\* receivePurchaseOrder and cancelPurchaseOrder take off what was outstanding
\* on the order as loaded, which is never less than what still is.
THEOREM IncomingStaysExpected == ASSUME EditsWorkAlone PROVE Spec => []IncomingIsExpected
<1> DEFINE Inv == OfficeInv /\ Incoming
<1>1. Init => Inv
  BY InitOfficeInv, InitTotals DEF Incoming
<1>2. Inv /\ [Next]_vars => Inv'
  BY OfficeStep
<1>3. Inv => IncomingIsExpected
  BY DEF Incoming, IncomingIsExpected, ExpectedTotal
<1> HIDE DEF Inv
<1> QED
  BY <1>1, <1>2, <1>3, PTL DEF Spec

\* A session goes from DRAFT to COMPLETED in completeOpname and nowhere else.
LEMMA OnlyCompletePosts ==
  ASSUME OfficeInv, [Next]_vars, NEW n \in Opnames,
         opname[n].status = "DRAFT", opname'[n].status = "COMPLETED"
  PROVE  \E c \in Clerks : CompleteOpname(c) /\ desk[c].doc = n
<1>0. CountInv /\ opname \in [Opnames -> OpnameRow]
  BY DEF OfficeInv, CountInv
<1>1. ASSUME opname' = opname PROVE FALSE
  BY <1>1
<1>2. ASSUME NEW m \in Opnames, CreateOpname(m) PROVE FALSE
  BY <1>0, <1>2 DEF CreateOpname, OpnameRow
<1>3. ASSUME NEW m \in Opnames, NEW c \in Clerks, OpensCount(c, m) PROVE FALSE
  BY <1>1, <1>3, Zenon
  DEF OpensCount, OpenCount, OpenScan, OpenRemove, OpenComplete, OpenCancelCount, OpenSession
<1>4. ASSUME NEW c \in Clerks, WriteCount(c) \/ WriteScan(c) \/ RemoveItem(c) \/ CancelOpname(c)
      PROVE  FALSE
  BY <1>0, <1>4, UnpostedWrite
<1>5. ASSUME NEW c \in Clerks, CompleteOpname(c) PROVE desk[c].doc = n
  <2>1. opname' = [opname EXCEPT ![desk[c].doc].status = "COMPLETED"]
    BY <1>5 DEF CompleteOpname
  <2> QED
    BY <1>0, <2>1
<1>6. CASE OpnameNext
  BY <1>1, <1>2, <1>3, <1>4, <1>5, <1>6 DEF OpnameNext, LoseUnit, ReadScan, OpensCount
<1> QED
  BY <1>1, <1>6 DEF Next, Die, vars

\* Posting an accurate count makes the books agree with the shelf, whatever the
\* other documents moved between counting and posting, provided nothing else
\* went missing in between.
THEOREM CountsCorrectBooks == ASSUME EditsWorkAlone PROVE Spec => CountCorrectsBooks
<1>1. ASSUME OfficeInv, [Next]_vars, NEW n \in Opnames, NEW v \in Variants,
             opname[n].status = "DRAFT", opname'[n].status = "COMPLETED",
             opname[n].item[v] # NoItem, Accurate(opname[n].item[v]),
             missing[v] = opname[n].item[v].since
      PROVE  missing'[v] = 0
  <2>1. PICK c \in Clerks : CompleteOpname(c) /\ desk[c].doc = n
    BY <1>1, OnlyCompletePosts
  <2> DEFINE item == opname[n].item[v]
  <2>2. CountInv /\ VarianceInv
    BY <1>1 DEF OfficeInv, CountInv
  <2>3. /\ item \in OpnameItem \cup {NoItem}
        /\ CorrectionOf(desk[c].items, v) = IF item = NoItem THEN 0 ELSE item.variance
        /\ missing' = [u \in Variants |-> missing[u] + CorrectionOf(desk[c].items, u)]
    BY <2>1, <2>2, CompleteOpnameFits
  <2>4. item.variance = item.counted - item.system
    BY <1>1, <2>2 DEF VarianceInv, Counted
  <2>5. missing'[v] = item.since + item.variance
    BY <1>1, <2>3
  <2>6. /\ item.counted \in Int /\ item.system \in Int /\ item.since \in Int
        /\ item.counted = item.system - item.since
    BY <1>1, <2>3 DEF Accurate, OpnameItem
  <2> QED
    BY <2>4, <2>5, <2>6
<1>2. OfficeInv /\ [Next]_vars =>
        [\A n \in Opnames, v \in Variants :
           LET item == opname[n].item[v] IN
           /\ opname[n].status = "DRAFT" /\ opname'[n].status = "COMPLETED"
           /\ item # NoItem /\ Accurate(item) /\ missing[v] = item.since
           => missing'[v] = 0]_<<stock, desk, opname, missing>>
  BY <1>1
<1> QED
  BY OfficeInvHolds, <1>2, PTL DEF Spec, CountCorrectsBooks
=============================================================================
