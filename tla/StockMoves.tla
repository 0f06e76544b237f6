----------------------------- MODULE StockMoves -----------------------------
(***************************************************************************)
(* The arithmetic of one stock movement: what every mutation method of     *)
(* InventoryServerService computes from the Inventory row it read, the     *)
(* row it writes and the StockLedger row it appends.  Pure operators, no   *)
(* state; Inventory, StockBook and Orders are built from them.             *)
(*                                                                         *)
(* A movement is a record [kind, variant, qty].  Its qty is the signed     *)
(* input.delta of a manual adjustment, the signed variance of a stock      *)
(* opname, the signed change of the incoming bucket, and the (positive)    *)
(* quantity of the order, sale, return or purchase line otherwise.         *)
(***************************************************************************)
EXTENDS Integers, Sequences

ManualKinds == {"ADJUST", "DAMAGE", "DISPOSE"}
OrderKinds == {"RESERVE", "SHIP", "RELEASE"}
ReturnKinds == {"RETURN_RESTOCK", "RETURN_DAMAGED"}
SaleKinds == {"SALE", "SALE_REVERSAL"}
PurchaseKinds == {"INCOMING", "RECEIVE"}
Kinds == ManualKinds \cup OrderKinds \cup ReturnKinds \cup SaleKinds
           \cup PurchaseKinds \cup {"RECONCILE"}

\* The four buckets of one variant.  Only availableStock may be negative.
Row == [available : Int, reserved : Nat, damaged : Nat, incoming : Nat]

\* The column defaults of a missing row (`existing?.availableStock ?? 0`).
EmptyRow == [available |-> 0, reserved |-> 0, damaged |-> 0, incoming |-> 0]

Entry == [kind : Kinds, delta : Int, balanceAfter : Int]

AtLeastZero(n) == IF n < 0 THEN 0 ELSE n

\* Faulty ClampedMinus: the underflow is logged but not clamped.
ClampedMinusUnclamped(bucket, q) == bucket - q

\* decrementReserved, and the same clamp on the incoming bucket.
ClampedMinus(bucket, q) == AtLeastZero(bucket - q)

Lesser(a, b) == IF a <= b THEN a ELSE b

\* Units a write-off can dispose: never more than the damaged bucket holds.
ClampWriteOffQuantity(damaged, requested) ==
  Lesser(AtLeastZero(requested), AtLeastZero(damaged))

\* Signed change of available, the only bucket the ledger tracks.
AvailableDelta(m) ==
  CASE m.kind \in {"ADJUST", "DAMAGE", "RECONCILE"} -> m.qty
    [] m.kind \in {"RESERVE", "SALE"} -> -m.qty
    [] m.kind \in {"RELEASE", "RETURN_RESTOCK", "SALE_REVERSAL", "RECEIVE"} -> m.qty
    [] OTHER -> 0

\* seen is the row read under the lock (EmptyRow when there was none).
BalanceAfter(m, seen) == seen.available + AvailableDelta(m)

\* The early exits that throw and roll the transaction back:
\* computeBalanceAfter for a manual adjustment, and the empty write-off.
Accepted(m, seen) ==
  /\ m.kind \in {"ADJUST", "DAMAGE"} => m.qty # 0 /\ BalanceAfter(m, seen) >= 0
  /\ m.kind = "DISPOSE" => ClampWriteOffQuantity(seen.damaged, m.qty) > 0

\* The movements whose update writes availableStock (an absolute value).
WritesAvailable(kind) ==
  kind \notin {"SHIP", "RETURN_DAMAGED", "DISPOSE", "INCOMING"}

\* Units a movement puts INTO the damaged bucket (damagedBucketDelta).
DamagedIn(m) ==
  CASE m.kind = "DAMAGE" /\ m.qty < 0 -> -m.qty
    [] m.kind = "RETURN_DAMAGED" -> m.qty
    [] OTHER -> 0

\* Faulty ReservedAfter: the reservation is taken off instead of added.
ReservedAfterSwapped(m, seen, current) ==
  CASE m.kind = "RESERVE" -> current.reserved - m.qty
    [] m.kind \in {"SHIP", "RELEASE"} -> ClampedMinus(seen.reserved, m.qty)
    [] OTHER -> current.reserved

ReservedAfter(m, seen, current) ==
  CASE m.kind = "RESERVE" -> current.reserved + m.qty
    [] m.kind \in {"SHIP", "RELEASE"} -> ClampedMinus(seen.reserved, m.qty)
    [] OTHER -> current.reserved

(***************************************************************************)
(* The row after the upsert.  seen is what was read under the lock and     *)
(* current is the row the statement finds when it runs: absolute columns   *)
(* are computed from seen, { increment } and { decrement } apply to        *)
(* current.  The create branch is the same with current = EmptyRow.        *)
(***************************************************************************)
Written(m, seen, current) ==
  [available |-> IF WritesAvailable(m.kind) THEN BalanceAfter(m, seen)
                                            ELSE current.available,
   reserved  |-> ReservedAfter(m, seen, current),
   damaged   |-> IF m.kind = "DISPOSE"
                 THEN current.damaged - ClampWriteOffQuantity(seen.damaged, m.qty)
                 ELSE current.damaged + DamagedIn(m),
   incoming  |-> CASE m.kind = "INCOMING" -> AtLeastZero(seen.incoming + m.qty)
                   [] m.kind = "RECEIVE" -> ClampedMinus(seen.incoming, m.qty)
                   [] OTHER -> current.incoming]

\* The ledger rows a movement appends: one, or none for the incoming bucket.
LedgerRows(m, seen) ==
  IF m.kind = "INCOMING"
  THEN << >>
  ELSE << [kind |-> m.kind, delta |-> AvailableDelta(m),
           balanceAfter |-> BalanceAfter(m, seen)] >>

\* The movements the callers ask for, given a bound Q on quantities.  A stock
\* opname skips a line without variance; a manual delta of zero is refused.
SignedKinds == {"ADJUST", "DAMAGE", "RECONCILE", "INCOMING"}
MovesOver(variants, Q) ==
  {m \in [kind : Kinds, variant : variants, qty : -Q..Q] :
     \/ m.qty > 0
     \/ m.qty < 0 /\ m.kind \in SignedKinds
     \/ m.qty = 0 /\ m.kind \in {"ADJUST", "DAMAGE"}}

-----------------------------------------------------------------------------
\* The balance a ledger ends on, when it starts from balance b.
LastBalance(b, s) == IF s = << >> THEN b ELSE s[Len(s)].balanceAfter

\* Every row's balanceAfter is the balance before it plus its own delta.
ChainFrom(b, s) ==
  \A i \in DOMAIN s :
    s[i].balanceAfter = s[i].delta + (IF i = 1 THEN b ELSE s[i - 1].balanceAfter)
=============================================================================
