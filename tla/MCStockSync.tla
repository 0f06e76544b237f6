---------------------------- MODULE MCStockSync ----------------------------
(***************************************************************************)
(* Instances of StockSync for TLC.                                         *)
(***************************************************************************)
EXTENDS StockSync, TLC

CONSTANT c1

Among(listed, sources, outcomes) ==
    [listed |-> listed, sources |-> sources, faults |-> outcomes]

\* Every source and every outcome of a push, on every channel.
Anything ==
    {Among(Channels, {"local", "order", "manual"}, {"retry", "fatal", "invalid"})}

\* A burst of orders over all channels, orders between local changes with
\* retried pushes, and manual repairs after either, with pushes that are
\* retried, fail for good or pause the mapping.
BurstAndRepair ==
    {Among(Channels, {"order"}, {}),
     Among({c1}, {"local", "order"}, {"retry"}),
     Among({c1}, {"local", "manual"}, {}),
     Among({c1}, {"order", "manual"}, {"retry", "fatal", "invalid"})}

OrdersOnly == {Among(Channels, {"order"}, {})}
LocalOnly == {Among({c1}, {"local"}, {})}
LocalAndManual == {Among({c1}, {"local", "manual"}, {})}

ChannelSymmetry == Permutations(Channels)
=============================================================================
