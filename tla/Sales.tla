-------------------------------- MODULE Sales --------------------------------
(***************************************************************************)
(* Counter sales (SalesServerService): ringing up a sale, voiding it as a  *)
(* whole, refunding some of its units.  Void and refund hold the sale's    *)
(* advisory lock for their transaction and read the sale again under it.   *)
(***************************************************************************)
EXTENDS BackOffice

CONSTANTS
  SaleIds,   \* counter sales
  Baskets,   \* the carts sold
  Refunds    \* the carts users ask to refund

ASSUME SalesAssumption ==
  /\ IsFiniteSet(SaleIds)
  /\ Baskets \cup Refunds \subseteq Cart \ {EmptyCart}

VARIABLE sale  \* the Sale row, its items and the sum of its refunds' items

SaleStatuses == {"none", "COMPLETED", "PARTIALLY_REFUNDED", "VOID"}
SaleRow == [status : SaleStatuses, sold : Cart, refunded : Cart]
NoSale == [status |-> "none", sold |-> EmptyCart, refunded |-> EmptyCart]

SaleInit == sale = [s \in SaleIds |-> NoSale]

\* createSale: one transaction; available may go below zero.
CreateSale(s) ==
  /\ s \in open.documents /\ sale[s].status = "none"
  /\ \E cart \in Baskets :
       /\ sale' = [sale EXCEPT ![s] =
                     [status |-> "COMPLETED", sold |-> cart, refunded |-> EmptyCart]]
       /\ stock' = MovedCart(stock, "SALE", cart)
  /\ desk' = desk

HasRefund(row) == row.refunded # EmptyCart

Voidable(row) == row.status \notin {"none", "VOID"} /\ ~HasRefund(row)

Refundable(row, cart) ==
  /\ row.status \notin {"none", "VOID"}
  /\ \A i \in Items : cart[i] + row.refunded[i] <= row.sold[i]

OpenVoid(c, s) ==
  /\ Voidable(sale[s])
  /\ TakeUp(c, [op |-> "void", doc |-> s])
  /\ UNCHANGED <<stock, sale>>

OpenRefund(c, s) ==
  /\ \E cart \in Refunds :
       /\ Refundable(sale[s], cart)
       /\ TakeUp(c, [op |-> "refund", doc |-> s, cart |-> cart])
  /\ UNCHANGED <<stock, sale>>

\* Faulty VoidStands: the second check, under the lock, is left out.
VoidStandsUnchecked(s) == TRUE

\* The check under the lock, on the sale as it is now.
VoidStands(s) == Voidable(sale[s])

\* Faulty RefundStands: the second check, under the lock, is left out.
RefundStandsUnchecked(s, cart) == TRUE

RefundStands(s, cart) == Refundable(sale[s], cart)

\* voidSale, its transaction: restocks every line.
VoidSale(c) ==
  /\ desk[c].op = "void"
  /\ LET s == desk[c].doc IN
     IF VoidStands(s)
     THEN /\ sale' = [sale EXCEPT ![s].status = "VOID"]
          /\ stock' = MovedCart(stock, "SALE_REVERSAL", sale[s].sold)
     ELSE UNCHANGED <<sale, stock>>
  /\ Answered(c)

\* createSaleRefund, its transaction: restocks the chosen units.
RefundSale(c) ==
  /\ desk[c].op = "refund"
  /\ LET s == desk[c].doc
         cart == desk[c].cart IN
     IF RefundStands(s, cart)
     THEN /\ sale' = [sale EXCEPT ![s] =
               [status |-> "PARTIALLY_REFUNDED", sold |-> sale[s].sold,
                refunded |-> [i \in Items |-> sale[s].refunded[i] + cart[i]]]]
          /\ stock' = MovedCart(stock, "SALE_REVERSAL", cart)
     ELSE UNCHANGED <<sale, stock>>
  /\ Answered(c)

SaleNext ==
  \/ \E s \in SaleIds :
       \/ CreateSale(s)
       \/ \E c \in Clerks : OpenVoid(c, s) \/ OpenRefund(c, s)
  \/ \E c \in Clerks : VoidSale(c) \/ RefundSale(c)

-----------------------------------------------------------------------------
\* However voids and refunds of one sale overlap, a unit comes back at most
\* once: a voided sale has no refund, and no line is refunded beyond what was
\* sold.
SaleSettledOnce ==
  \A s \in SaleIds :
    /\ sale[s].status = "VOID" => ~HasRefund(sale[s])
    /\ \A i \in Items : sale[s].refunded[i] <= sale[s].sold[i]

\* The units of a sale, per line, that are with the customer.
WithCustomer(row) ==
  IF row.status = "VOID" THEN EmptyCart
  ELSE [i \in Items |-> row.sold[i] - row.refunded[i]]
=============================================================================
