---------------------------- MODULE MCInventory -----------------------------
(***************************************************************************)
(* TLC instances of Inventory.                                             *)
(***************************************************************************)
EXTENDS Inventory

CONSTANTS v1, v2

Move(kind, v, q) == [kind |-> kind, variant |-> v, qty |-> q]

\* Order, sale, purchase, return and stock-count transactions over two
\* variants whose lines come in either order, with the single movements that
\* race them: every kind of movement, and some that are refused.
SomeTransactions ==
  { <<Move("RESERVE", v1, 1), Move("RESERVE", v2, 1)>>,
    <<Move("SALE", v2, 1), Move("SALE", v1, 1)>>,
    <<Move("SHIP", v1, 1), Move("RELEASE", v2, 1)>>,
    <<Move("RECEIVE", v2, 2), Move("RECEIVE", v1, 1)>>,
    <<Move("RECONCILE", v1, -1), Move("RECONCILE", v2, 1)>>,
    <<Move("RETURN_RESTOCK", v1, 1), Move("RETURN_DAMAGED", v2, 1)>>,
    <<Move("INCOMING", v1, 1), Move("SALE_REVERSAL", v1, 1)>>,
    <<Move("SALE", v1, 1), Move("SALE", v1, 1)>>,
    <<Move("INCOMING", v1, -1)>>,
    <<Move("ADJUST", v1, 2)>>,
    <<Move("ADJUST", v1, 0)>>,
    <<Move("ADJUST", v2, -1)>>,
    <<Move("DAMAGE", v1, -1)>>,
    <<Move("DAMAGE", v2, 1)>>,
    <<Move("DISPOSE", v1, 2)>> }
=============================================================================
