----------------------------- MODULE Inventory ------------------------------
(***************************************************************************)
(* The stock engine: concurrent Postgres transactions that move stock      *)
(* through InventoryServerService.  Each session runs one                  *)
(* prisma.$transaction at a time: a sequence of movements, each of them    *)
(* lockAndReadInventory (take the variant's advisory lock, read the row)   *)
(* followed by the upsert and the ledger insert.  The locks are held until *)
(* the transaction commits or rolls back; nothing is visible to the other  *)
(* sessions before the commit (Read Committed).                            *)
(***************************************************************************)
EXTENDS StockMoves, FiniteSets

CONSTANTS
  Variants,      \* product variants
  Sessions,      \* database sessions (web requests, jobs)
  Transactions,  \* the transactions the callers run: sequences of movements
  NoSession,     \* "nobody holds the lock"
  NoRow,         \* "this variant has no Inventory row"
  MaxBegins      \* bound on the transactions begun in one behaviour

ASSUME NoSessionAssumption == NoSession \notin Sessions
ASSUME NoRowAssumption == NoRow \notin Row
\* Quantities come validated: only the signed kinds can be negative.
Moves == {m \in [kind : Kinds, variant : Variants, qty : Int] :
            m.kind \notin SignedKinds => m.qty \in Nat}
ASSUME TransactionsAssumption == Transactions \subseteq Seq(Moves) \ {<< >>}
ASSUME MaxBeginsAssumption == MaxBegins \in Nat

VARIABLES
  inventory,  \* the committed Inventory row of each variant, or NoRow
  ledger,     \* the committed StockLedger rows of each variant, oldest first
  lock,       \* holder of each variant's advisory lock
  pc,         \* where each session is in its transaction
  txn,        \* the movements each session has still to make
  seen,       \* the row each session read for the movement it is making
  draft,      \* the uncommitted Inventory rows of each session
  rows,       \* the uncommitted ledger rows of each session
  begins      \* transactions begun so far (bound only)

vars == <<inventory, ledger, lock, pc, txn, seen, draft, rows, begins>>

OrEmpty(row) == IF row = NoRow THEN EmptyRow ELSE row

\* The row session p sees: its own uncommitted write, else the committed one.
Visible(p, v) == IF draft[p][v] = NoRow THEN inventory[v] ELSE draft[p][v]

NoDraft == [v \in Variants |-> NoRow]
NoRows == [v \in Variants |-> << >>]

TypeOK ==
  /\ inventory \in [Variants -> Row \cup {NoRow}]
  /\ ledger \in [Variants -> Seq(Entry)]
  /\ lock \in [Variants -> Sessions \cup {NoSession}]
  /\ pc \in [Sessions -> {"idle", "lock", "write", "commit"}]
  /\ txn \in [Sessions -> Seq(Moves)]
  /\ seen \in [Sessions -> Row]
  /\ draft \in [Sessions -> [Variants -> Row \cup {NoRow}]]
  /\ rows \in [Sessions -> [Variants -> Seq(Entry)]]
  /\ begins \in 0..MaxBegins

Init ==
  /\ inventory = [v \in Variants |-> NoRow]
  /\ ledger = [v \in Variants |-> << >>]
  /\ lock = [v \in Variants |-> NoSession]
  /\ pc = [p \in Sessions |-> "idle"]
  /\ txn = [p \in Sessions |-> << >>]
  /\ seen = [p \in Sessions |-> EmptyRow]
  /\ draft = [p \in Sessions |-> NoDraft]
  /\ rows = [p \in Sessions |-> NoRows]
  /\ begins = 0

-----------------------------------------------------------------------------
\* A caller opens a transaction over some movements.
Begin(p) ==
  /\ pc[p] = "idle"
  /\ begins < MaxBegins
  /\ begins' = begins + 1
  /\ \E t \in Transactions : txn' = [txn EXCEPT ![p] = t]
  /\ pc' = [pc EXCEPT ![p] = "lock"]
  /\ UNCHANGED <<inventory, ledger, lock, seen, draft, rows>>

\* Faulty LockFree: the read takes no lock.
LockFreeAlways(p, v) == TRUE

\* The advisory lock is granted at once to the session that already has it.
LockFree(p, v) == lock[v] \in {NoSession, p}

\* lockAndReadInventory.
LockAndRead(p) ==
  /\ pc[p] = "lock"
  /\ LET v == Head(txn[p]).variant IN
       /\ LockFree(p, v)
       /\ lock' = [lock EXCEPT ![v] = p]
       /\ seen' = [seen EXCEPT ![p] = OrEmpty(Visible(p, v))]
  /\ pc' = [pc EXCEPT ![p] = "write"]
  /\ UNCHANGED <<inventory, ledger, txn, draft, rows, begins>>

\* Faulty Write: the lock lasts one statement and is gone before the commit.
WriteThenUnlock(p) ==
  /\ pc[p] = "write"
  /\ LET m == Head(txn[p])
         v == m.variant IN
       /\ Accepted(m, seen[p])
       /\ draft' = [draft EXCEPT ![p][v] =
                      Written(m, seen[p], OrEmpty(Visible(p, v)))]
       /\ rows' = [rows EXCEPT ![p][v] = @ \o LedgerRows(m, seen[p])]
       /\ txn' = [txn EXCEPT ![p] = Tail(@)]
       /\ pc' = [pc EXCEPT ![p] = IF Tail(txn[p]) = << >> THEN "commit" ELSE "lock"]
       /\ lock' = [lock EXCEPT ![v] = NoSession]
  /\ UNCHANGED <<inventory, ledger, seen, begins>>

\* The upsert of the row and the insert of the ledger row.
Write(p) ==
  /\ pc[p] = "write"
  /\ LET m == Head(txn[p])
         v == m.variant IN
       /\ Accepted(m, seen[p])
       /\ draft' = [draft EXCEPT ![p][v] =
                      Written(m, seen[p], OrEmpty(Visible(p, v)))]
       /\ rows' = [rows EXCEPT ![p][v] = @ \o LedgerRows(m, seen[p])]
       /\ txn' = [txn EXCEPT ![p] = Tail(@)]
       /\ pc' = [pc EXCEPT ![p] = IF Tail(txn[p]) = << >> THEN "commit" ELSE "lock"]
  /\ UNCHANGED <<inventory, ledger, lock, seen, begins>>

\* Faulty EndTransaction: a session-level lock outlives its transaction.
EndTransactionKeepsLocks(p) ==
  /\ lock' = lock
  /\ pc' = [pc EXCEPT ![p] = "idle"]
  /\ txn' = [txn EXCEPT ![p] = << >>]
  /\ seen' = [seen EXCEPT ![p] = EmptyRow]
  /\ draft' = [draft EXCEPT ![p] = NoDraft]
  /\ rows' = [rows EXCEPT ![p] = NoRows]
  /\ begins' = begins

\* What ends a transaction: its locks, its drafts and its plan are gone.
EndTransaction(p) ==
  /\ lock' = [v \in Variants |-> IF lock[v] = p THEN NoSession ELSE lock[v]]
  /\ pc' = [pc EXCEPT ![p] = "idle"]
  /\ txn' = [txn EXCEPT ![p] = << >>]
  /\ seen' = [seen EXCEPT ![p] = EmptyRow]
  /\ draft' = [draft EXCEPT ![p] = NoDraft]
  /\ rows' = [rows EXCEPT ![p] = NoRows]
  /\ begins' = begins

Commit(p) ==
  /\ pc[p] = "commit"
  /\ inventory' = [v \in Variants |-> Visible(p, v)]
  /\ ledger' = [v \in Variants |-> ledger[v] \o rows[p][v]]
  /\ EndTransaction(p)

\* The method throws: the movement is refused and everything is undone.
Refuse(p) ==
  /\ pc[p] = "write"
  /\ ~Accepted(Head(txn[p]), seen[p])
  /\ EndTransaction(p)
  /\ UNCHANGED <<inventory, ledger>>

\* p waits for a lock that q holds.
WaitsFor(p, q) ==
  /\ p # q
  /\ pc[p] = "lock"
  /\ lock[Head(txn[p]).variant] = q

\* Postgres ends a circular wait by aborting one of the waiters.  Movements
\* are locked one by one in line order, so two transactions over the same
\* variants in opposite orders do meet here.
DeadlockAbort(p) ==
  /\ \E cycle \in SUBSET Sessions :
       /\ p \in cycle
       /\ \A q \in cycle : \E r \in cycle : WaitsFor(q, r)
       /\ \A q \in cycle : \E r \in cycle : WaitsFor(r, q)
  /\ EndTransaction(p)
  /\ UNCHANGED <<inventory, ledger>>

\* The process dies, the connection drops or Prisma's transaction times out.
Crash(p) ==
  /\ pc[p] # "idle"
  /\ EndTransaction(p)
  /\ UNCHANGED <<inventory, ledger>>

\* Creates the row of a new variant, without the lock.  An uncommitted insert
\* of the same row makes it wait, and its update branch changes nothing.
EnsureInventory(v) ==
  /\ inventory[v] = NoRow
  /\ \A p \in Sessions : draft[p][v] = NoRow
  /\ inventory' = [inventory EXCEPT ![v] = EmptyRow]
  /\ UNCHANGED <<ledger, lock, pc, txn, seen, draft, rows, begins>>

Step(p) == LockAndRead(p) \/ Write(p) \/ Commit(p) \/ Refuse(p) \/ DeadlockAbort(p)

Next ==
  \/ \E p \in Sessions :
       \/ Begin(p) \/ LockAndRead(p) \/ Write(p) \/ Commit(p)
       \/ Refuse(p) \/ DeadlockAbort(p) \/ Crash(p)
  \/ \E v \in Variants : EnsureInventory(v)

Spec == Init /\ [][Next]_vars

\* A session that can go on does: a running transaction is executed, and
\* Postgres does break every circular wait.  Callers need not begin one.
FairSpec == Spec /\ \A p \in Sessions : WF_vars(Step(p))

-----------------------------------------------------------------------------
\* Each variant's availableStock, the cache, equals the balance its ledger
\* ends on, and that balance is the sum of every delta ever recorded: no
\* movement is lost and none counted twice, however transactions interleave.
CacheMatchesLedger ==
  \A v \in Variants :
    /\ ChainFrom(0, ledger[v])
    /\ OrEmpty(inventory[v]).available = LastBalance(0, ledger[v])

\* A transaction that is about to commit has computed every balance from the
\* balance that is committed at that moment: no stale read survives.
DraftsAreCurrent ==
  \A p \in Sessions, v \in Variants :
    draft[p][v] # NoRow =>
      /\ ChainFrom(LastBalance(0, ledger[v]), rows[p][v])
      /\ draft[p][v].available = LastBalance(LastBalance(0, ledger[v]), rows[p][v])

HasPlan(p) == pc[p] \in {"lock", "write"} => txn[p] # << >>

ReadIsCurrent(p) ==
  pc[p] = "write" =>
    LET v == Head(txn[p]).variant IN
    lock[v] = p /\ seen[p] = OrEmpty(Visible(p, v))

DraftIsLocked(p, v) ==
  IF draft[p][v] = NoRow THEN rows[p][v] = << >> ELSE lock[v] = p

\* An uncommitted row belongs to the session that holds the variant's lock,
\* and what a session read under the lock it would still read when it comes
\* to write.
LocksGuardDrafts ==
  \A p \in Sessions :
    /\ HasPlan(p)
    /\ ReadIsCurrent(p)
    /\ \A v \in Variants : DraftIsLocked(p, v)

\* Every transaction that began ends, by committing, by being refused or as
\* the victim of a deadlock, even when line orders cross.
TransactionsEnd == \A p \in Sessions : pc[p] # "idle" ~> pc[p] = "idle"

Book == INSTANCE StockBook
          WITH Variants <- Variants, Transactions <- Transactions, NoRow <- NoRow,
               inventory <- inventory, ledger <- ledger

\* The stock engine implements the abstract book: whatever locks, drafts,
\* aborts and interleavings there were, the committed rows change exactly as
\* if the transactions had run one at a time (the lost update the comment on
\* lockAndReadInventory describes would be a step the book does not have).
Serializable == Book!BookSpec
=============================================================================
