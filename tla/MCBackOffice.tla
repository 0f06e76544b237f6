---------------------------- MODULE MCBackOffice ----------------------------
(***************************************************************************)
(* The back office: purchasing, counter sales and stock counts at work on  *)
(* the same stock, with their TLC instances.                               *)
(***************************************************************************)
EXTENDS Purchasing, Sales, Opname, TLC

CONSTANTS v1, i1, i2, p1, p2, s1, n1, InitialStock

ASSUME InitialStockAssumption == InitialStock \in Nat

vars == <<stock, desk, open, purchase, sale, opname, missing>>

Init ==
  /\ stock = [v \in Variants |-> [EmptyRow EXCEPT !.available = InitialStock]]
  /\ open \in Worlds
  /\ desk = [c \in Clerks |-> NoRequest]
  /\ PurchaseInit /\ SaleInit /\ OpnameInit

\* The request dies before its transaction commits: nothing is written.
Die(c) ==
  /\ desk[c] # NoRequest
  /\ Answered(c)
  /\ UNCHANGED <<stock, open, purchase, sale, opname, missing>>

Next ==
  \/ PurchaseNext /\ UNCHANGED <<open, sale, opname, missing>>
  \/ SaleNext /\ UNCHANGED <<open, purchase, opname, missing>>
  \/ OpnameNext /\ UNCHANGED <<open, purchase, sale>>
  \/ \E c \in Clerks : Die(c)

Spec == Init /\ [][Next]_vars

TypeOK ==
  /\ stock \in [Variants -> Row]
  /\ purchase \in [Purchases -> PurchaseRow]
  /\ sale \in [SaleIds -> SaleRow]
  /\ opname \in [Opnames -> OpnameRow]
  /\ \A n \in Opnames : \A v \in Counted(opname[n].item) :
       LET item == opname[n].item[v] IN item.variance = item.counted - item.system
  /\ missing \in [Variants -> Int]

\* The books balance: available is what there was, plus what was received,
\* minus what customers have, plus what posted counts corrected.  No request
\* that overlaps, dies or is refused moves a unit its document does not show.
BooksBalance ==
  \A v \in Variants :
    stock[v].available = InitialStock
      + SumFunction([o \in Purchases |-> Units(purchase[o].received, v)])
      - SumFunction([s \in SaleIds |-> Units(WithCustomer(sale[s]), v)])
      + SumFunction([n \in Opnames |-> PostedBy(opname[n], v)])

-----------------------------------------------------------------------------
\* Two lines of one variant.
OneVariant == i1 :> v1 @@ i2 :> v1
CartOf(a, b) == i1 :> a @@ i2 :> b

OrderCarts == {CartOf(2, 0), CartOf(1, 1)}
SaleCarts == {CartOf(2, 0)}
RefundCarts == {CartOf(1, 0), CartOf(2, 0)}
\* Voids and refunds of a sale meet, and in a world of its own the receipts and
\* cancellations of an order, where drafts are cancelled too.
MeetingRequests ==
  {World({p1, p2}, {}, FALSE), World({p1, s1, n1}, {"void", "refund"}, FALSE),
   World({p1, p2}, {"receive", "cancel"}, TRUE)}
\* Drafts are cancelled, or requests meet that the code does not keep apart.
DraftsCancelled == {World({p1, p2}, {}, TRUE)}
ReceiptsMeet == {World({p1}, {"receive"}, FALSE)}
ScansMeet == {World({n1}, {"scan", "tally"}, FALSE)}
ClerkSymmetry == Permutations(Clerks)
=============================================================================
