----------------------------- MODULE StockBook ------------------------------
(***************************************************************************)
(* What the stock engine promises its callers: each transaction takes      *)
(* effect all at once, on the stock committed at that moment, and a        *)
(* refused one leaves no trace.  There are no locks, no reads that can go  *)
(* stale and no drafts here; Inventory implements this specification.      *)
(***************************************************************************)
EXTENDS StockMoves

CONSTANTS Variants, Transactions, NoRow

VARIABLES inventory, ledger

bookVars == <<inventory, ledger>>

Book == [inventory |-> inventory, ledger |-> ledger]

RowIn(book, v) ==
  IF book.inventory[v] = NoRow THEN EmptyRow ELSE book.inventory[v]

\* One movement made on a book.
Moved(book, m) ==
  LET row == RowIn(book, m.variant) IN
  [inventory |-> [book.inventory EXCEPT ![m.variant] = Written(m, row, row)],
   ledger |-> [book.ledger EXCEPT ![m.variant] = @ \o LedgerRows(m, row)]]

\* The book after each movement of t; [0] is the book before the first.
Progress(t) ==
  LET after[i \in 0..Len(t)] ==
        IF i = 0 THEN Book ELSE Moved(after[i - 1], t[i])
  IN after

Transact(t) ==
  LET books == Progress(t) IN
  /\ \A i \in DOMAIN t : Accepted(t[i], RowIn(books[i - 1], t[i].variant))
  /\ inventory' = books[Len(t)].inventory
  /\ ledger' = books[Len(t)].ledger

\* A new variant gets its row.
NewRow(v) ==
  /\ inventory[v] = NoRow
  /\ inventory' = [inventory EXCEPT ![v] = EmptyRow]
  /\ ledger' = ledger

BookInit ==
  /\ inventory = [v \in Variants |-> NoRow]
  /\ ledger = [v \in Variants |-> << >>]

BookNext ==
  \/ \E t \in Transactions : Transact(t)
  \/ \E v \in Variants : NewRow(v)

BookSpec == BookInit /\ [][BookNext]_bookVars
=============================================================================
