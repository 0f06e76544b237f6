------------------------------ MODULE MCOrders ------------------------------
(***************************************************************************)
(* TLC instances of Orders: two orders that share listing a.               *)
(***************************************************************************)
EXTENDS Orders, TLC

CONSTANTS o1, o2, a, b, v1, v2

\* o1 has a line of each listing, o2 two units of a.
Lines12 == (o1 :> (a :> 1 @@ b :> 1)) @@ (o2 :> (a :> 2 @@ b :> 0))

Mapped(x, y) == a :> x @@ b :> y

\* Staff resolve two unmapped orders.
Resolving ==
  [orders |-> {o1, o2}, mapping |-> Mapped(Unmapped, Unmapped), remaps |-> {},
   cancels |-> {"line"}, ops |-> {"resolve"}, crashes |-> 0]

\* The catalogue remaps while the staff cancel.
Remapping ==
  [orders |-> {o1}, mapping |-> Mapped(v1, Unmapped), remaps |-> {a, b},
   cancels |-> {"line"}, ops |-> {"cancel"}, crashes |-> 0]

\* Everything is mapped; the marketplace cancels, the staff mark shipped.
Shipping ==
  [orders |-> {o1}, mapping |-> Mapped(v1, v1), remaps |-> {},
   cancels |-> {"order", "line"}, ops |-> {"ship"},
   crashes |-> 0]

\* Pulls and mark-shipped requests that may die.
Dying == [Shipping EXCEPT !.cancels = {"order"}, !.crashes = 1]

LinesAtWork == {Resolving, Remapping, Dying}

\* Two pulls at once.
Overlapping == {[Shipping EXCEPT !.mapping = Mapped(v1, v2), !.ops = {}]}

\* A line is mapped late and its order is cancelled before the next pull.
LateCancelled == {[Remapping EXCEPT !.remaps = {b}, !.cancels = {"order", "line"}, !.ops = {}]}
LateMapped == {[Remapping EXCEPT !.remaps = {b}, !.ops = {}]}
LateMappedDying == {[s EXCEPT !.crashes = 1] : s \in LateMapped}

\* Staff cancel and ship, a pull in between.
CancelAndShip == {[Shipping EXCEPT !.ops = {"ship", "cancel"}]}

\* Staff ship and resolve, a pull in between.
ShipAndResolve ==
  {[Resolving EXCEPT !.orders = {o1}, !.mapping = Mapped(v1, Unmapped), !.cancels = {},
                     !.ops = {"resolve", "ship"}]}
=============================================================================
