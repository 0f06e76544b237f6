----------------------------- MODULE MCReturns ------------------------------
(***************************************************************************)
(* TLC instances of Returns: one order with two lines of one variant.      *)
(***************************************************************************)
EXTENDS Returns, MCOrders

\* Marked shipped or shipped by the channel; whole orders are cancelled.
Returning == {[Shipping EXCEPT !.cancels = {"order"}, !.ops = {"ship", "return"},
                              !.crashes = 2],
              [Shipping EXCEPT !.cancels = {"line"}, !.ops = {"ship"}, !.crashes = 2]}

\* A line is cancelled inside an order that ships and comes back.
LineCancelled == {[Shipping EXCEPT !.ops = {"return"}, !.cancels = {"line"}]}
=============================================================================
