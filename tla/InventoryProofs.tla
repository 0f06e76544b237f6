--------------------------- MODULE InventoryProofs --------------------------
(***************************************************************************)
(* Proofs about Inventory, for any variants, any number of concurrent      *)
(* sessions and any transactions: the availableStock cache never diverges  *)
(* from the append-only ledger.                                            *)
(*                                                                         *)
(* CacheMatchesLedger is not inductive: a commit preserves it because the  *)
(* drafts it publishes were computed from the stock committed at that      *)
(* moment (DraftsAreCurrent), which in turn holds because whoever has a    *)
(* draft, or has read a row and is about to write, still holds the         *)
(* variant's lock (LocksGuardDrafts).                                      *)
(*                                                                         *)
(* The second part shows that the engine implements StockBook.  The        *)
(* invariant OnBook says of each transaction under way that its drafts are *)
(* what its movements, made so far, make of the book that is committed now *)
(* (not of the one committed when it made them): a commit by another       *)
(* session changes only rows that this one has not drafted (Rebased).      *)
(***************************************************************************)
EXTENDS Inventory, StockMovesProofs, SequenceTheorems

InvI == TypeOK /\ CacheMatchesLedger /\ DraftsAreCurrent /\ LocksGuardDrafts

LEMMA MovesAreValid ==
  ASSUME NEW m \in Moves
  PROVE  ValidMove(m) /\ m.variant \in Variants
BY DEF Moves, ValidMove

LEMMA EmptyRowIsRow == EmptyRow \in Row
BY DEF EmptyRow, Row

\* A row that is not there is read as zeroes.
LEMMA OrEmptyIsRow ==
  ASSUME NEW row \in Row \cup {NoRow}
  PROVE  /\ OrEmpty(row) \in Row
         /\ OrEmpty(row).available \in Int
BY EmptyRowIsRow DEF OrEmpty, Row

LEMMA VisibleType ==
  ASSUME TypeOK, NEW p \in Sessions, NEW v \in Variants
  PROVE  Visible(p, v) \in Row \cup {NoRow}
BY DEF TypeOK, Visible

LEMMA InitInv == Init => InvI
<1> SUFFICES ASSUME Init PROVE InvI
  OBVIOUS
<1>1. TypeOK
  BY EmptyRowIsRow, MaxBeginsAssumption DEF Init, TypeOK, NoDraft, NoRows
<1>2. CacheMatchesLedger
  BY DEF Init, CacheMatchesLedger, ChainFrom, LastBalance, OrEmpty, EmptyRow
<1>3. DraftsAreCurrent
  BY DEF Init, DraftsAreCurrent, NoDraft
<1>4. LocksGuardDrafts
  BY DEF Init, LocksGuardDrafts, HasPlan, ReadIsCurrent, DraftIsLocked, NoDraft, NoRows
<1> QED
  BY <1>1, <1>2, <1>3, <1>4 DEF InvI

\* A transaction that opens touches nothing the invariant relates.
LEMMA BeginInv ==
  ASSUME InvI, NEW p \in Sessions, Begin(p)
  PROVE  InvI'
<1>1. TypeOK'
  BY TransactionsAssumption, MaxBeginsAssumption DEF InvI, TypeOK, Begin
<1>2. CacheMatchesLedger'
  BY DEF InvI, CacheMatchesLedger, Begin, OrEmpty
<1>3. DraftsAreCurrent'
  BY DEF InvI, DraftsAreCurrent, Begin
<1>4. LocksGuardDrafts'
  BY TransactionsAssumption
  DEF InvI, TypeOK, LocksGuardDrafts, HasPlan, ReadIsCurrent, DraftIsLocked, Begin,
      Visible, OrEmpty
<1> QED
  BY <1>1, <1>2, <1>3, <1>4 DEF InvI

\* Taking a lock that was free disturbs nobody's draft or read.
LEMMA LockAndReadInv ==
  ASSUME InvI, NEW p \in Sessions, LockAndRead(p)
  PROVE  InvI'
<1> DEFINE v == Head(txn[p]).variant
<1>1. Head(txn[p]) \in Moves /\ v \in Variants
  BY MovesAreValid DEF InvI, TypeOK, LocksGuardDrafts, HasPlan, LockAndRead
<1>2. OrEmpty(Visible(p, v)) \in Row
  BY <1>1, VisibleType, OrEmptyIsRow DEF InvI
<1>3. TypeOK'
  BY <1>1, <1>2 DEF InvI, TypeOK, LockAndRead
<1>4. CacheMatchesLedger'
  BY DEF InvI, CacheMatchesLedger, LockAndRead, OrEmpty
<1>5. DraftsAreCurrent'
  BY DEF InvI, DraftsAreCurrent, LockAndRead
<1>6. ASSUME NEW q \in Sessions, q # p
      PROVE  HasPlan(q)' /\ ReadIsCurrent(q)'
  <2>1. /\ pc'[q] = pc[q] /\ txn'[q] = txn[q] /\ seen'[q] = seen[q]
        /\ draft' = draft /\ inventory' = inventory
    BY <1>6 DEF InvI, TypeOK, LockAndRead
  <2>2. HasPlan(q) /\ ReadIsCurrent(q)
    BY DEF InvI, LocksGuardDrafts
  <2>3. ASSUME pc[q] = "write"
        PROVE  lock'[Head(txn[q]).variant] = q
    <3>1. Head(txn[q]) \in Moves
      BY <2>2, <2>3 DEF InvI, TypeOK, HasPlan
    <3>2. Head(txn[q]).variant \in Variants /\ lock[Head(txn[q]).variant] = q
      BY <2>2, <2>3, <3>1, MovesAreValid DEF ReadIsCurrent
    <3> QED
      BY <1>1, <1>6, <3>2, NoSessionAssumption DEF InvI, TypeOK, LockAndRead, LockFree
  <2> QED
    BY <2>1, <2>2, <2>3 DEF HasPlan, ReadIsCurrent, Visible, OrEmpty
<1>7. HasPlan(p)' /\ ReadIsCurrent(p)'
  <2>1. HasPlan(p)
    BY DEF InvI, LocksGuardDrafts
  <2> QED
    BY <1>1, <2>1 DEF InvI, TypeOK, LockAndRead, HasPlan, ReadIsCurrent, Visible, OrEmpty
<1>8. ASSUME NEW q \in Sessions, NEW w \in Variants
      PROVE  DraftIsLocked(q, w)'
  <2>1. DraftIsLocked(q, w)
    BY DEF InvI, LocksGuardDrafts
  <2> QED
    BY <1>1, <2>1, NoSessionAssumption
    DEF InvI, TypeOK, LockAndRead, LockFree, DraftIsLocked
<1>9. LocksGuardDrafts'
  BY <1>6, <1>7, <1>8 DEF LocksGuardDrafts
<1> QED
  BY <1>3, <1>4, <1>5, <1>9 DEF InvI

\* A session that is about to write has read the balance its own ledger rows
\* end on, counted from the balance that is committed now.
LEMMA ReadContinuesLedger ==
  ASSUME InvI, NEW p \in Sessions, pc[p] = "write",
         NEW m, m = Head(txn[p])
  PROVE  LET v == m.variant
             b == LastBalance(0, ledger[v]) IN
         /\ m \in Moves
         /\ ValidMove(m)
         /\ v \in Variants
         /\ lock[v] = p
         /\ seen[p] = OrEmpty(Visible(p, v))
         /\ seen[p] \in Row
         /\ b \in Int
         /\ rows[p][v] \in Seq(Entry)
         /\ ChainFrom(b, rows[p][v])
         /\ seen[p].available = LastBalance(b, rows[p][v])
<1> DEFINE v == m.variant
           b == LastBalance(0, ledger[v])
<1>1. HasPlan(p) /\ ReadIsCurrent(p)
  BY DEF InvI, LocksGuardDrafts
<1>2. m \in Moves
  BY <1>1 DEF InvI, TypeOK, HasPlan
<1>3. ValidMove(m) /\ v \in Variants
  BY <1>2, MovesAreValid
<1>4. lock[v] = p /\ seen[p] = OrEmpty(Visible(p, v))
  BY <1>1 DEF ReadIsCurrent
<1>5. seen[p] \in Row /\ rows[p][v] \in Seq(Entry) /\ ledger[v] \in Seq(Entry)
  BY <1>3 DEF InvI, TypeOK
<1>6. b \in Int
  BY <1>5, LastBalanceType
<1>7. CASE draft[p][v] = NoRow
  <2>1. rows[p][v] = << >>
    BY <1>3, <1>7 DEF InvI, LocksGuardDrafts, DraftIsLocked
  <2>2. seen[p].available = b
    BY <1>3, <1>4, <1>7 DEF InvI, CacheMatchesLedger, Visible
  <2>3. ChainFrom(b, rows[p][v]) /\ LastBalance(b, rows[p][v]) = b
    BY <2>1 DEF ChainFrom, LastBalance
  <2> HIDE DEF v, b
  <2> QED
    BY <1>2, <1>3, <1>4, <1>5, <1>6, <2>2, <2>3 DEF v, b
<1>8. CASE draft[p][v] # NoRow
  <2>1. /\ ChainFrom(b, rows[p][v])
        /\ draft[p][v].available = LastBalance(b, rows[p][v])
    BY <1>3, <1>8 DEF InvI, DraftsAreCurrent
  <2>2. seen[p] = draft[p][v]
    BY <1>4, <1>8, NoRowAssumption, <1>3 DEF InvI, TypeOK, Visible, OrEmpty
  <2> HIDE DEF v, b
  <2> QED
    BY <1>2, <1>3, <1>4, <1>5, <1>6, <2>1, <2>2 DEF v, b
<1> QED
  BY <1>7, <1>8

\* A write extends the writer's draft by one movement and nobody else's.
LEMMA WriteInv ==
  ASSUME InvI, NEW p \in Sessions, Write(p)
  PROVE  InvI'
<1> DEFINE m == Head(txn[p])
           v == m.variant
           b == LastBalance(0, ledger[v])
           new == Written(m, seen[p], seen[p])
           added == LedgerRows(m, seen[p])
<1>1. pc[p] = "write"
  BY DEF Write
<1>2. /\ m \in Moves /\ ValidMove(m) /\ v \in Variants /\ lock[v] = p
      /\ seen[p] = OrEmpty(Visible(p, v)) /\ seen[p] \in Row /\ b \in Int
      /\ rows[p][v] \in Seq(Entry) /\ ChainFrom(b, rows[p][v])
      /\ seen[p].available = LastBalance(b, rows[p][v])
  BY <1>1, ReadContinuesLedger
<1>3. new \in Row /\ new.available = BalanceAfter(m, seen[p])
  BY <1>2, WrittenIsRow, WrittenAvailable
<1>4. /\ added \in Seq(Entry) /\ ChainFrom(seen[p].available, added)
      /\ LastBalance(seen[p].available, added) = new.available
  BY <1>2, <1>3, LedgerRowsContinue
<1>5. /\ rows[p][v] \o added \in Seq(Entry)
      /\ ChainFrom(b, rows[p][v] \o added)
      /\ LastBalance(b, rows[p][v] \o added) = new.available
  BY SMTT(30), <1>2, <1>4, ChainConcat
<1>6. /\ draft' = [draft EXCEPT ![p][v] = new]
      /\ rows' = [rows EXCEPT ![p][v] = rows[p][v] \o added]
      /\ txn' = [txn EXCEPT ![p] = Tail(txn[p])]
      /\ pc' = [pc EXCEPT ![p] = IF Tail(txn[p]) = << >> THEN "commit" ELSE "lock"]
      /\ UNCHANGED <<inventory, ledger, lock, seen, begins>>
  BY <1>2 DEF Write, InvI, TypeOK
<1>7. HasPlan(p)
  BY DEF InvI, LocksGuardDrafts
<1> HIDE DEF new, added, b, m
<1>8. TypeOK'
  BY <1>1, <1>2, <1>3, <1>5, <1>6, <1>7 DEF InvI, TypeOK, HasPlan
<1>9. CacheMatchesLedger'
  BY <1>6 DEF InvI, CacheMatchesLedger, OrEmpty
<1>10. ASSUME NEW q \in Sessions, NEW w \in Variants, draft'[q][w] # NoRow
       PROVE  /\ ChainFrom(LastBalance(0, ledger'[w]), rows'[q][w])
              /\ draft'[q][w].available =
                   LastBalance(LastBalance(0, ledger'[w]), rows'[q][w])
  <2>1. CASE q = p /\ w = v
    <3>1. /\ draft'[q][w] = new /\ rows'[q][w] = rows[p][v] \o added
          /\ LastBalance(0, ledger'[w]) = b
      BY <1>2, <1>6, <2>1 DEF InvI, TypeOK, b
    <3> QED
      BY <1>5, <3>1
  <2>2. CASE ~(q = p /\ w = v)
    <3>1. draft'[q][w] = draft[q][w] /\ rows'[q][w] = rows[q][w] /\ ledger' = ledger
      BY <1>2, <1>6, <2>2 DEF InvI, TypeOK
    <3> QED
      BY <1>10, <3>1 DEF InvI, DraftsAreCurrent
  <2> QED
    BY <2>1, <2>2
<1>11. DraftsAreCurrent'
  BY <1>10 DEF DraftsAreCurrent
<1>12. ASSUME NEW q \in Sessions, NEW w \in Variants
       PROVE  DraftIsLocked(q, w)'
  <2>1. DraftIsLocked(q, w)
    BY DEF InvI, LocksGuardDrafts
  <2>2. new # NoRow
    BY <1>3, NoRowAssumption
  <2> QED
    BY <1>2, <1>6, <2>1, <2>2 DEF InvI, TypeOK, DraftIsLocked
<1>13. ASSUME NEW q \in Sessions
       PROVE  HasPlan(q)' /\ ReadIsCurrent(q)'
  <2>1. HasPlan(q) /\ ReadIsCurrent(q)
    BY DEF InvI, LocksGuardDrafts
  <2>2. CASE q = p
    BY <1>6, <2>2 DEF InvI, TypeOK, HasPlan, ReadIsCurrent
  <2>3. CASE q # p
    <3>1. /\ pc'[q] = pc[q] /\ txn'[q] = txn[q] /\ draft'[q] = draft[q]
          /\ UNCHANGED <<inventory, lock, seen>>
      BY <1>6, <2>3 DEF InvI, TypeOK
    <3> QED
      BY <2>1, <3>1 DEF HasPlan, ReadIsCurrent, Visible, OrEmpty
  <2> QED
    BY <2>2, <2>3
<1>14. LocksGuardDrafts'
  BY <1>12, <1>13 DEF LocksGuardDrafts
<1> QED
  BY <1>8, <1>9, <1>11, <1>14 DEF InvI

\* What ending a transaction leaves true whatever became of the rows: the
\* types, and that the others still hold their locks, drafts and reads.
LEMMA EndTransactionFrame ==
  ASSUME InvI, NEW p \in Sessions, EndTransaction(p),
         inventory' \in [Variants -> Row \cup {NoRow}],
         ledger' \in [Variants -> Seq(Entry)],
         \A v \in Variants :
           lock[v] # p => inventory'[v] = inventory[v] /\ ledger'[v] = ledger[v]
  PROVE  TypeOK' /\ DraftsAreCurrent' /\ LocksGuardDrafts'
<1>1. TypeOK'
  BY EmptyRowIsRow DEF InvI, TypeOK, EndTransaction, NoDraft, NoRows
<1>2. ASSUME NEW q \in Sessions, NEW w \in Variants
      PROVE  /\ q = p => draft'[q][w] = NoRow /\ rows'[q][w] = << >>
             /\ q # p => draft'[q][w] = draft[q][w] /\ rows'[q][w] = rows[q][w]
             /\ DraftIsLocked(q, w)
             /\ lock[w] # p => lock'[w] = lock[w]
  BY DEF InvI, TypeOK, LocksGuardDrafts, EndTransaction, NoDraft, NoRows
<1>3. ASSUME NEW q \in Sessions, NEW w \in Variants, draft'[q][w] # NoRow
      PROVE  /\ ChainFrom(LastBalance(0, ledger'[w]), rows'[q][w])
             /\ draft'[q][w].available =
                  LastBalance(LastBalance(0, ledger'[w]), rows'[q][w])
  <2>1. q # p /\ draft[q][w] # NoRow /\ lock[w] = q
    BY <1>2, <1>3 DEF DraftIsLocked
  <2>2. ledger'[w] = ledger[w]
    BY <2>1
  <2> QED
    BY <1>2, <2>1, <2>2 DEF InvI, DraftsAreCurrent
<1>4. DraftsAreCurrent'
  BY <1>3 DEF DraftsAreCurrent
<1>5. ASSUME NEW q \in Sessions, NEW w \in Variants
      PROVE  DraftIsLocked(q, w)'
  BY <1>2 DEF DraftIsLocked
<1>6. ASSUME NEW q \in Sessions
      PROVE  HasPlan(q)' /\ ReadIsCurrent(q)'
  <2>1. CASE q = p
    BY <2>1 DEF InvI, TypeOK, EndTransaction, HasPlan, ReadIsCurrent
  <2>2. CASE q # p
    <3>1. /\ pc'[q] = pc[q] /\ txn'[q] = txn[q] /\ seen'[q] = seen[q]
          /\ draft'[q] = draft[q]
      BY <2>2 DEF InvI, TypeOK, EndTransaction
    <3>2. HasPlan(q) /\ ReadIsCurrent(q)
      BY DEF InvI, LocksGuardDrafts
    <3>3. CASE pc[q] # "write"
      BY <3>1, <3>2, <3>3 DEF HasPlan, ReadIsCurrent
    <3>4. CASE pc[q] = "write"
      <4> DEFINE w == Head(txn[q]).variant
      <4>1. w \in Variants /\ lock[w] = q /\ seen[q] = OrEmpty(Visible(q, w))
        BY <3>4, ReadContinuesLedger
      <4>2. lock'[w] = q /\ inventory'[w] = inventory[w]
        BY <1>2, <2>2, <4>1
      <4> QED
        BY <3>1, <3>2, <4>1, <4>2 DEF HasPlan, ReadIsCurrent, Visible, OrEmpty
    <3> QED
      BY <3>3, <3>4
  <2> QED
    BY <2>1, <2>2
<1>7. LocksGuardDrafts'
  BY <1>5, <1>6 DEF LocksGuardDrafts
<1> QED
  BY <1>1, <1>4, <1>7

\* A rollback publishes nothing.
LEMMA RollbackInv ==
  ASSUME InvI, NEW p \in Sessions, EndTransaction(p), UNCHANGED <<inventory, ledger>>
  PROVE  InvI'
<1>1. TypeOK' /\ DraftsAreCurrent' /\ LocksGuardDrafts'
  BY EndTransactionFrame DEF InvI, TypeOK
<1>2. CacheMatchesLedger'
  BY DEF InvI, CacheMatchesLedger, OrEmpty
<1> QED
  BY <1>1, <1>2 DEF InvI

\* A commit publishes drafts that continue the committed ledger.
LEMMA CommitInv ==
  ASSUME InvI, NEW p \in Sessions, Commit(p)
  PROVE  InvI'
<1>1. /\ inventory' = [v \in Variants |-> Visible(p, v)]
      /\ ledger' = [v \in Variants |-> ledger[v] \o rows[p][v]]
      /\ EndTransaction(p)
  BY DEF Commit
<1>2. \A v \in Variants : ledger[v] \in Seq(Entry) /\ rows[p][v] \in Seq(Entry)
  BY DEF InvI, TypeOK
<1>3. inventory' \in [Variants -> Row \cup {NoRow}]
  BY <1>1, VisibleType DEF InvI
<1>4. ledger' \in [Variants -> Seq(Entry)]
  BY <1>1, <1>2
<1>5. ASSUME NEW v \in Variants, draft[p][v] = NoRow
      PROVE  inventory'[v] = inventory[v] /\ ledger'[v] = ledger[v]
  <2>1. rows[p][v] = << >>
    BY <1>5 DEF InvI, LocksGuardDrafts, DraftIsLocked
  <2>2. ledger[v] \o << >> = ledger[v]
    BY <1>2
  <2> QED
    BY <1>1, <1>5, <2>1, <2>2 DEF Visible
<1>6. \A v \in Variants :
        lock[v] # p => inventory'[v] = inventory[v] /\ ledger'[v] = ledger[v]
  BY <1>5 DEF InvI, LocksGuardDrafts, DraftIsLocked
<1>7. TypeOK' /\ DraftsAreCurrent' /\ LocksGuardDrafts'
  BY <1>1, <1>3, <1>4, <1>6, EndTransactionFrame
<1>8. ASSUME NEW v \in Variants
      PROVE  /\ ChainFrom(0, ledger'[v])
             /\ OrEmpty(inventory'[v]).available = LastBalance(0, ledger'[v])
  <2>1. /\ ChainFrom(0, ledger[v])
        /\ OrEmpty(inventory[v]).available = LastBalance(0, ledger[v])
    BY DEF InvI, CacheMatchesLedger
  <2>2. CASE draft[p][v] = NoRow
    BY <1>5, <2>1, <2>2
  <2>3. CASE draft[p][v] # NoRow
    <3>1. /\ ChainFrom(LastBalance(0, ledger[v]), rows[p][v])
          /\ draft[p][v].available = LastBalance(LastBalance(0, ledger[v]), rows[p][v])
      BY <2>3 DEF InvI, DraftsAreCurrent
    <3>2. /\ ChainFrom(0, ledger[v] \o rows[p][v])
          /\ LastBalance(0, ledger[v] \o rows[p][v]) = draft[p][v].available
      <4> DEFINE s == ledger[v]
                 r == rows[p][v]
      <4>1. s \in Seq(Entry) /\ r \in Seq(Entry) /\ 0 \in Int
        BY <1>2
      <4>2. ChainFrom(0, s) /\ ChainFrom(LastBalance(0, s), r)
        BY <2>1, <3>1
      <4> HIDE DEF s, r
      <4>3. /\ ChainFrom(0, s \o r)
            /\ LastBalance(0, s \o r) = LastBalance(LastBalance(0, s), r)
        BY <4>1, <4>2, ChainConcat
      <4> QED
        BY <3>1, <4>3 DEF s, r
    <3>3. OrEmpty(inventory'[v]) = draft[p][v] /\ ledger'[v] = ledger[v] \o rows[p][v]
      BY <1>1, <2>3 DEF Visible, OrEmpty
    <3> QED
      BY <3>2, <3>3
  <2> QED
    BY <2>2, <2>3
<1>9. CacheMatchesLedger'
  <2>1. \A v \in Variants :
          /\ ChainFrom(0, ledger'[v])
          /\ OrEmpty(inventory'[v]).available = LastBalance(0, ledger'[v])
    BY <1>8
  <2> QED
    BY <2>1 DEF CacheMatchesLedger, OrEmpty
<1> QED
  BY <1>7, <1>9 DEF InvI

\* Creating a row of zeroes changes no balance and no read.
LEMMA EnsureInventoryInv ==
  ASSUME InvI, NEW v \in Variants, EnsureInventory(v)
  PROVE  InvI'
<1>1. TypeOK'
  BY EmptyRowIsRow DEF InvI, TypeOK, EnsureInventory
<1>2. ASSUME NEW w \in Variants
      PROVE  OrEmpty(inventory'[w]) = OrEmpty(inventory[w])
  BY DEF InvI, TypeOK, EnsureInventory, OrEmpty
<1>3. CacheMatchesLedger'
  <2>1. \A w \in Variants :
          /\ ChainFrom(0, ledger'[w])
          /\ OrEmpty(inventory'[w]).available = LastBalance(0, ledger'[w])
    BY <1>2 DEF InvI, CacheMatchesLedger, EnsureInventory
  <2> QED
    BY <2>1 DEF CacheMatchesLedger, OrEmpty
<1>4. DraftsAreCurrent'
  BY DEF InvI, DraftsAreCurrent, EnsureInventory
<1>5. ASSUME NEW q \in Sessions
      PROVE  /\ HasPlan(q)' /\ ReadIsCurrent(q)'
             /\ \A w \in Variants : DraftIsLocked(q, w)'
  <2>1. HasPlan(q) /\ ReadIsCurrent(q) /\ \A w \in Variants : DraftIsLocked(q, w)
    BY DEF InvI, LocksGuardDrafts
  <2>2. CASE pc[q] # "write"
    BY <2>1, <2>2 DEF HasPlan, ReadIsCurrent, DraftIsLocked, EnsureInventory
  <2>3. CASE pc[q] = "write"
    <3> DEFINE u == Head(txn[q]).variant
    <3>1. u \in Variants /\ lock[u] = q /\ seen[q] = OrEmpty(Visible(q, u))
      BY <2>3, ReadContinuesLedger
    <3>2. OrEmpty(inventory'[u]) = OrEmpty(inventory[u])
      BY <1>2, <3>1
    <3> QED
      BY <2>1, <3>1, <3>2
      DEF HasPlan, ReadIsCurrent, DraftIsLocked, EnsureInventory, Visible, OrEmpty
  <2> QED
    BY <2>2, <2>3
<1>6. LocksGuardDrafts'
  BY <1>5 DEF LocksGuardDrafts
<1> QED
  BY <1>1, <1>3, <1>4, <1>6 DEF InvI

LEMMA NextInv == InvI /\ [Next]_vars => InvI'
<1> SUFFICES ASSUME InvI, [Next]_vars PROVE InvI'
  OBVIOUS
<1>1. ASSUME NEW p \in Sessions, Begin(p) PROVE InvI'
  BY <1>1, BeginInv
<1>2. ASSUME NEW p \in Sessions, LockAndRead(p) PROVE InvI'
  BY <1>2, LockAndReadInv
<1>3. ASSUME NEW p \in Sessions, Write(p) PROVE InvI'
  BY <1>3, WriteInv
<1>4. ASSUME NEW p \in Sessions, Commit(p) PROVE InvI'
  BY <1>4, CommitInv
<1>5. ASSUME NEW p \in Sessions, Refuse(p) \/ DeadlockAbort(p) \/ Crash(p)
      PROVE  InvI'
  BY <1>5, RollbackInv DEF Refuse, DeadlockAbort, Crash
<1>6. ASSUME NEW v \in Variants, EnsureInventory(v) PROVE InvI'
  BY <1>6, EnsureInventoryInv
<1>7. CASE UNCHANGED vars
  BY <1>7 DEF vars, InvI, TypeOK, CacheMatchesLedger, DraftsAreCurrent,
              LocksGuardDrafts, HasPlan, ReadIsCurrent, DraftIsLocked, Visible, OrEmpty
<1> QED
  BY <1>1, <1>2, <1>3, <1>4, <1>5, <1>6, <1>7 DEF Next

THEOREM InvariantHolds == Spec => []InvI
<1> QED
  BY InitInv, NextInv, PTL DEF Spec

\* The buckets, locks and transactions are always well formed; in particular
\* reserved, damaged and incoming never go below zero (the clamps of
\* decrementReserved, disposeDamaged and adjustIncomingTx suffice).
THEOREM TypeCorrect == Spec => []TypeOK
<1>1. InvI => TypeOK
  BY DEF InvI
<1> QED
  BY <1>1, InvariantHolds, PTL

\* The availableStock cache of every variant is the last balance of its
\* ledger, and the ledger's balances add up: lockAndReadInventory rules out
\* the lost update its comment describes, for any number of sessions.
THEOREM CacheNeverDiverges == Spec => []CacheMatchesLedger
<1>1. InvI => CacheMatchesLedger
  BY DEF InvI
<1> QED
  BY <1>1, InvariantHolds, PTL

\* No transaction ever holds a draft computed from a stale read.
THEOREM NoStaleDraft == Spec => [](DraftsAreCurrent /\ LocksGuardDrafts)
<1>1. InvI => DraftsAreCurrent /\ LocksGuardDrafts
  BY DEF InvI
<1> QED
  BY <1>1, InvariantHolds, PTL

-----------------------------------------------------------------------------
(* The engine implements the book.                                         *)

\* The committed rows of all variants, or what they are on the way to.
Books == [inventory : [Variants -> Row \cup {NoRow}], ledger : [Variants -> Seq(Entry)]]

\* The book's arithmetic is the engine's.
LEMMA SameArithmetic ==
  ASSUME NEW m, NEW row
  PROVE  /\ Book!Written(m, row, row) = Written(m, row, row)
         /\ Book!LedgerRows(m, row) = LedgerRows(m, row)
         /\ Book!Accepted(m, row) = Accepted(m, row)
         /\ Book!EmptyRow = EmptyRow
<1>1. /\ Book!AvailableDelta(m) = AvailableDelta(m)
      /\ Book!BalanceAfter(m, row) = BalanceAfter(m, row)
  BY DEF Book!AvailableDelta, AvailableDelta, Book!BalanceAfter, BalanceAfter
<1>2. \A a, b : /\ Book!ClampedMinus(a, b) = ClampedMinus(a, b)
              /\ Book!AtLeastZero(a) = AtLeastZero(a)
              /\ Book!Lesser(a, b) = Lesser(a, b)
              /\ Book!ClampWriteOffQuantity(a, b) = ClampWriteOffQuantity(a, b)
  BY DEF Book!ClampedMinus, ClampedMinus, Book!AtLeastZero, AtLeastZero, Book!Lesser, Lesser,
         Book!ClampWriteOffQuantity, ClampWriteOffQuantity
<1>3. /\ Book!WritesAvailable(m.kind) = WritesAvailable(m.kind)
      /\ Book!DamagedIn(m) = DamagedIn(m)
      /\ Book!ReservedAfter(m, row, row) = ReservedAfter(m, row, row)
  BY <1>2 DEF Book!WritesAvailable, WritesAvailable, Book!DamagedIn, DamagedIn,
              Book!ReservedAfter, ReservedAfter
<1>4. Book!Written(m, row, row) = Written(m, row, row)
  BY <1>1, <1>2, <1>3 DEF Book!Written, Written
<1>5. Book!LedgerRows(m, row) = LedgerRows(m, row)
  BY <1>1 DEF Book!LedgerRows, LedgerRows
<1>6. Book!Accepted(m, row) = Accepted(m, row)
  BY <1>1, <1>2 DEF Book!Accepted, Accepted
<1>7. Book!EmptyRow = EmptyRow
  BY DEF Book!EmptyRow, EmptyRow
<1> QED BY <1>4, <1>5, <1>6, <1>7

\* The book after movement m, made on the row it has.
After(b, m, row) ==
  [inventory |-> [b.inventory EXCEPT ![m.variant] = Written(m, row, row)],
   ledger |-> [b.ledger EXCEPT ![m.variant] = b.ledger[m.variant] \o LedgerRows(m, row)]]

LEMMA MovedBook ==
  ASSUME NEW b, NEW m
  PROVE  Book!Moved(b, m) = After(b, m, Book!RowIn(b, m.variant))
<1> DEFINE row == Book!RowIn(b, m.variant)
<1> HIDE DEF row
<1>1. Book!Written(m, row, row) = Written(m, row, row)
  BY SameArithmetic
<1>2. Book!LedgerRows(m, row) = LedgerRows(m, row)
  BY SameArithmetic
<1> QED BY <1>1, <1>2 DEF Book!Moved, After, row

\* g goes through the first n movements of t, one after the other, from book b.
Goes(g, b, t, n) ==
  /\ g \in [0..n -> Books]
  /\ g[0] = b
  /\ \A j \in 1..n : /\ g[j] = Book!Moved(g[j - 1], t[j])
                     /\ Accepted(t[j], Book!RowIn(g[j - 1], t[j].variant))

LEMMA ProgressIsUnique ==
  ASSUME NEW t \in Seq(Moves), NEW g, Goes(g, Book!Book, t, Len(t))
  PROVE  Book!Progress(t) = g
<1> DEFINE n == Len(t)
           Steps(f) == [i \in 0..n |-> IF i = 0 THEN Book!Book ELSE Book!Moved(f[i - 1], t[i])]
           after == CHOOSE f : f = Steps(f)
<1>0. n \in Nat
  OBVIOUS
<1>1. g = Steps(g)
  BY <1>0 DEF Goes
<1>2. after = Steps(after)
  <2> HIDE DEF Steps
  <2> QED BY <1>1
<1>3. Book!Progress(t) = after
  BY DEF Book!Progress
<1>4. \A i \in 0..n : after[i] = IF i = 0 THEN Book!Book ELSE Book!Moved(after[i - 1], t[i])
  <2> HIDE DEF after
  <2> QED BY <1>2
<1>5. \A i \in 0..n : g[i] = IF i = 0 THEN Book!Book ELSE Book!Moved(g[i - 1], t[i])
  BY <1>0 DEF Goes
<1> DEFINE T == {i \in Nat : i <= n => after[i] = g[i]}
<1>6. 0 \in T
  BY <1>0, <1>4, <1>5
<1>7. ASSUME NEW i \in Nat, i \in T PROVE i + 1 \in T
  <2> SUFFICES ASSUME i + 1 <= n PROVE after[i + 1] = g[i + 1]
    OBVIOUS
  <2>1. after[i] = g[i] /\ i + 1 \in 0..n /\ i + 1 # 0 /\ (i + 1) - 1 = i
    BY <1>0, <1>7
  <2> HIDE DEF after
  <2>2. after[i + 1] = Book!Moved(after[i], t[i + 1])
    BY <1>4, <2>1
  <2>3. g[i + 1] = Book!Moved(g[i], t[i + 1])
    BY <1>5, <2>1
  <2> QED BY <2>1, <2>2, <2>3
<1>8. \A i \in Nat : i \in T
  <2> HIDE DEF T
  <2> QED BY <1>6, <1>7, NatSetInduction
<1>9. \A i \in 0..n : after[i] = g[i]
  BY <1>0, <1>8
<1>10. after = [i \in 0..n |-> after[i]]
  <2>1. after = [i \in 0..n |-> IF i = 0 THEN Book!Book ELSE Book!Moved(after[i - 1], t[i])]
    BY <1>2
  <2> HIDE DEF after
  <2> QED BY <2>1, <1>4
<1>11. g = [i \in 0..n |-> g[i]]
  BY DEF Goes
<1> HIDE DEF after
<1> QED BY <1>3, <1>9, <1>10, <1>11

\* What session p would read and append to: the committed book with its own
\* uncommitted rows.
View(p) == [inventory |-> [v \in Variants |-> Visible(p, v)],
            ledger |-> [v \in Variants |-> ledger[v] \o rows[p][v]]]

\* Session p has made the first n movements of t, on rows it has drafted since.
MadeOf(p, t, n) ==
  /\ n \in 0..Len(t)
  /\ Len(txn[p]) = Len(t) - n
  /\ \A j \in 1..(Len(t) - n) : txn[p][j] = t[n + j]
  /\ \A j \in 1..n : draft[p][t[j].variant] # NoRow
  /\ \E g : Goes(g, Book!Book, t, n) /\ g[n] = View(p)

\* A session between transactions has nothing pending; one inside has done a
\* part of a caller's transaction, as if on the book that is committed now.
SessionOnBook(p) ==
  /\ pc[p] = "idle" => draft[p] = NoDraft /\ rows[p] = NoRows
  /\ pc[p] = "commit" => txn[p] = << >>
  /\ pc[p] # "idle" => \E t \in Transactions, n \in Nat : MadeOf(p, t, n)

OnBook == \A p \in Sessions : SessionOnBook(p)

LEMMA ViewType ==
  ASSUME InvI, NEW p \in Sessions
  PROVE  View(p) \in Books /\ Book!Book \in Books
<1>1. \A v \in Variants : Visible(p, v) \in Row \cup {NoRow}
  BY VisibleType DEF InvI
<1>2. \A v \in Variants : ledger[v] \in Seq(Entry) /\ rows[p][v] \in Seq(Entry)
  BY DEF InvI, TypeOK
<1>3. \A v \in Variants : ledger[v] \o rows[p][v] \in Seq(Entry)
  BY <1>2
<1>4. View(p) \in Books
  BY <1>1, <1>3 DEF View, Books
<1>5. Book!Book \in Books
  BY DEF InvI, TypeOK, Books, Book!Book
<1> QED BY <1>4, <1>5

\* What a session has done stays done when the rows it has not drafted change.
LEMMA Rebased ==
  ASSUME InvI, InvI', NEW p \in Sessions, NEW t \in Transactions, NEW n \in Nat,
         MadeOf(p, t, n), txn'[p] = txn[p], draft'[p] = draft[p], rows'[p] = rows[p],
         \A v \in Variants : draft[p][v] # NoRow =>
           inventory'[v] = inventory[v] /\ ledger'[v] = ledger[v]
  PROVE  MadeOf(p, t, n)'
<1>1. PICK g : Goes(g, Book!Book, t, n) /\ g[n] = View(p)
  BY DEF MadeOf
<1>2. t \in Seq(Moves) /\ Len(t) \in Nat /\ n \in 0..Len(t)
  BY TransactionsAssumption DEF MadeOf
<1>3. \A j \in 1..n : t[j] \in Moves /\ t[j].variant \in Variants /\ ValidMove(t[j])
                      /\ draft[p][t[j].variant] # NoRow
  BY <1>2, MovesAreValid DEF MadeOf
<1> DEFINE Mine(v) == draft[p][v] # NoRow
           inv(j) == [v \in Variants |-> IF Mine(v) THEN g[j].inventory[v] ELSE inventory'[v]]
           led(j) == [v \in Variants |-> IF Mine(v) THEN g[j].ledger[v] ELSE ledger'[v]]
           h == [j \in 0..n |-> [inventory |-> inv(j), ledger |-> led(j)]]
<1>4. \A j \in 0..n : g[j] \in Books
  BY <1>1 DEF Goes
<1>5. /\ inventory' \in [Variants -> Row \cup {NoRow}] /\ ledger' \in [Variants -> Seq(Entry)]
      /\ inventory \in [Variants -> Row \cup {NoRow}] /\ ledger \in [Variants -> Seq(Entry)]
  BY DEF InvI, TypeOK
<1>6. \A j \in 0..n : h[j].inventory = inv(j) /\ h[j].ledger = led(j) /\ h[j] \in Books
  BY <1>4, <1>5 DEF Books
<1>7. h \in [0..n -> Books]
  BY <1>6
<1>8. h[0] = Book!Book'
  <2>1. g[0] = [inventory |-> inventory, ledger |-> ledger]
    BY <1>1 DEF Goes, Book!Book
  <2>2. inv(0) = inventory' /\ led(0) = ledger'
    BY <2>1, <1>5
  <2>3. 0 \in 0..n
    OBVIOUS
  <2> QED BY <2>2, <2>3 DEF Book!Book
<1>9. ASSUME NEW j \in 1..n
      PROVE  /\ h[j] = Book!Moved(h[j - 1], t[j])
             /\ Accepted(t[j], Book!RowIn(h[j - 1], t[j].variant))
  <2> DEFINE m == t[j]
             v == m.variant
             row == Book!RowIn(g[j - 1], v)
  <2>1. j - 1 \in 0..n /\ j \in 0..n /\ v \in Variants /\ Mine(v)
    BY <1>3
  <2>2. g[j] = Book!Moved(g[j - 1], m) /\ Accepted(m, row)
    BY <1>1 DEF Goes
  <2>3. Book!RowIn(h[j - 1], v) = row
    BY <1>6, <2>1 DEF Book!RowIn
  <2>4. /\ g[j].inventory = [g[j - 1].inventory EXCEPT ![v] = Written(m, row, row)]
        /\ g[j].ledger = [g[j - 1].ledger EXCEPT ![v] = g[j - 1].ledger[v] \o LedgerRows(m, row)]
    <3>1. g[j] = After(g[j - 1], m, row)
      BY <2>2, MovedBook
    <3> QED BY <3>1 DEF After
  <2>5. Book!Moved(h[j - 1], m) = After(h[j - 1], m, row)
    BY <2>3, MovedBook
  <2>6. /\ g[j - 1].inventory \in [Variants -> Row \cup {NoRow}]
        /\ g[j - 1].ledger \in [Variants -> Seq(Entry)]
    BY <1>4, <2>1 DEF Books
  <2> DEFINE w == Written(m, row, row)
             l == LedgerRows(m, row)
  <2> HIDE DEF w, l, row
  <2>7. inv(j) = [inv(j - 1) EXCEPT ![v] = w]
    BY Zenon, <2>1, <2>4, <2>6 DEF w
  <2>8. led(j) = [led(j - 1) EXCEPT ![v] = led(j - 1)[v] \o l]
    BY Zenon, <2>1, <2>4, <2>6 DEF l
  <2>9. h[j] = [inventory |-> inv(j), ledger |-> led(j)]
    BY <2>1
  <2>10. h[j - 1].inventory = inv(j - 1) /\ h[j - 1].ledger = led(j - 1)
    BY <2>1, <1>6
  <2> HIDE DEF h, inv, led
  <2>11. h[j] = Book!Moved(h[j - 1], m)
    BY <2>5, <2>7, <2>8, <2>9, <2>10 DEF w, l, After
  <2> QED BY <2>2, <2>3, <2>11
<1>10. h[n] = View(p)'
  <2>1. n \in 0..n /\ g[n] = View(p)
    BY <1>1
  <2>2. ASSUME NEW v \in Variants
        PROVE  inv(n)[v] = Visible(p, v)' /\ led(n)[v] = ledger'[v] \o rows'[p][v]
    <3>1. CASE Mine(v)
      <4>1. /\ View(p).inventory[v] = Visible(p, v)
            /\ View(p).ledger[v] = ledger[v] \o rows[p][v]
        BY DEF View
      <4>2. g[n].inventory[v] = Visible(p, v) /\ g[n].ledger[v] = ledger[v] \o rows[p][v]
        BY <2>1, <4>1
      <4>3. ledger'[v] = ledger[v] /\ Visible(p, v)' = draft[p][v] /\ Visible(p, v) = draft[p][v]
        BY <3>1 DEF Visible
      <4> QED BY <3>1, <4>2, <4>3
    <3>2. CASE ~Mine(v)
      <4>1. rows[p][v] = << >>
        BY <3>2 DEF InvI, LocksGuardDrafts, DraftIsLocked
      <4>2. ledger'[v] \o << >> = ledger'[v]
        BY <1>5
      <4> QED BY <3>2, <4>1, <4>2 DEF Visible
    <3> QED BY <3>1, <3>2
  <2>3. /\ inv(n) = [v \in Variants |-> Visible(p, v)']
        /\ led(n) = [v \in Variants |-> ledger'[v] \o rows'[p][v]]
    BY <2>2
  <2>4. h[n] = [inventory |-> inv(n), ledger |-> led(n)]
    BY <2>1
  <2> HIDE DEF h, inv, led
  <2> QED BY <2>3, <2>4 DEF View
<1>11. \E f : Goes(f, Book!Book', t, n) /\ f[n] = View(p)'
  <2> HIDE DEF h
  <2>1. Goes(h, Book!Book', t, n)
    BY <1>7, <1>8, <1>9 DEF Goes
  <2> QED BY <2>1, <1>10
<1> QED BY <1>11 DEF MadeOf

\* A session that took no part in a step keeps its progress.
LEMMA BystanderOnBook ==
  ASSUME InvI, InvI', NEW p \in Sessions, SessionOnBook(p),
         txn'[p] = txn[p], draft'[p] = draft[p], rows'[p] = rows[p], pc'[p] = pc[p],
         \A v \in Variants : draft[p][v] # NoRow =>
           inventory'[v] = inventory[v] /\ ledger'[v] = ledger[v]
  PROVE  SessionOnBook(p)'
<1>1. ASSUME pc[p] # "idle" PROVE \E t \in Transactions, n \in Nat : MadeOf(p, t, n)'
  <2>1. PICK t \in Transactions, n \in Nat : MadeOf(p, t, n)
    BY <1>1 DEF SessionOnBook
  <2>2. MadeOf(p, t, n)'
    BY <2>1, Rebased
  <2> QED BY <2>2
<1> QED BY <1>1 DEF SessionOnBook

\* A transaction that opens has made nothing yet.
LEMMA BeginOnBook ==
  ASSUME InvI, InvI', OnBook, NEW p \in Sessions, Begin(p)
  PROVE  SessionOnBook(p)'
<1>1. PICK t \in Transactions : txn' = [txn EXCEPT ![p] = t]
  BY DEF Begin
<1>2. t \in Seq(Moves) /\ txn'[p] = t /\ pc'[p] = "lock"
  BY <1>1, TransactionsAssumption DEF Begin, InvI, TypeOK
<1>3. /\ draft'[p] = NoDraft /\ rows'[p] = NoRows
      /\ inventory' = inventory /\ ledger' = ledger
  BY DEF Begin, OnBook, SessionOnBook
<1> DEFINE g == [j \in 0..0 |-> Book!Book]
<1>4. Goes(g, Book!Book, t, 0)
  BY ViewType DEF Goes
<1>5. g[0] = Book!Book
  OBVIOUS
<1>6. Book!Book' = Book!Book
  BY <1>3 DEF Book!Book
<1>7. View(p)' = Book!Book'
  <2>1. inventory' \in [Variants -> Row \cup {NoRow}] /\ ledger' \in [Variants -> Seq(Entry)]
    BY DEF InvI, TypeOK
  <2>2. \A v \in Variants : Visible(p, v)' = inventory'[v] /\ rows'[p][v] = << >>
    BY <1>3 DEF Visible, NoDraft, NoRows
  <2>3. \A v \in Variants : ledger'[v] \o << >> = ledger'[v]
    BY <2>1
  <2>4. [v \in Variants |-> Visible(p, v)'] = inventory'
    BY <2>1, <2>2
  <2>5. [v \in Variants |-> ledger'[v] \o rows'[p][v]] = ledger'
    BY <2>1, <2>2, <2>3
  <2> QED BY <2>4, <2>5 DEF View, Book!Book
<1>8. \E f : Goes(f, Book!Book', t, 0) /\ f[0] = View(p)'
  <2> HIDE DEF g
  <2> QED BY <1>4, <1>5, <1>6, <1>7
<1>9. MadeOf(p, t, 0)'
  BY <1>2, <1>8 DEF MadeOf
<1> QED BY <1>2, <1>9 DEF SessionOnBook

\* Reading under the lock changes nothing a session has made.
LEMMA LockAndReadOnBook ==
  ASSUME InvI, InvI', OnBook, NEW p \in Sessions, LockAndRead(p)
  PROVE  SessionOnBook(p)'
<1>1. pc[p] = "lock" /\ pc'[p] = "write"
  BY DEF LockAndRead, InvI, TypeOK
<1>2. PICK t \in Transactions, n \in Nat : MadeOf(p, t, n)
  BY <1>1 DEF OnBook, SessionOnBook
<1>3. MadeOf(p, t, n)'
  <2>1. UNCHANGED <<inventory, ledger, txn, draft, rows>>
    BY DEF LockAndRead
  <2> QED BY <1>2, <2>1, Rebased
<1> QED BY <1>1, <1>3 DEF SessionOnBook

\* A write makes the next movement of the session's transaction.
LEMMA WriteOnBook ==
  ASSUME InvI, InvI', OnBook, NEW p \in Sessions, Write(p)
  PROVE  SessionOnBook(p)'
<1> DEFINE m == Head(txn[p])
           v == m.variant
           new == Written(m, seen[p], seen[p])
           added == LedgerRows(m, seen[p])
<1>1. pc[p] = "write"
  BY DEF Write
<1>2. /\ m \in Moves /\ ValidMove(m) /\ v \in Variants
      /\ seen[p] = OrEmpty(Visible(p, v)) /\ seen[p] \in Row
  BY SMTT(30), <1>1, ReadContinuesLedger
<1>3. /\ draft' = [draft EXCEPT ![p][v] = new]
      /\ rows' = [rows EXCEPT ![p][v] = rows[p][v] \o added]
      /\ txn' = [txn EXCEPT ![p] = Tail(txn[p])]
      /\ pc' = [pc EXCEPT ![p] = IF Tail(txn[p]) = << >> THEN "commit" ELSE "lock"]
      /\ inventory' = inventory /\ ledger' = ledger
      /\ Accepted(m, seen[p])
  BY <1>2 DEF Write, InvI, TypeOK
<1>4. new \in Row /\ new # NoRow /\ added \in Seq(Entry)
  BY <1>2, WrittenIsRow, LedgerRowsContinue, NoRowAssumption
<1>5. /\ txn[p] \in Seq(Moves) /\ txn[p] # << >>
      /\ draft \in [Sessions -> [Variants -> Row \cup {NoRow}]]
      /\ rows \in [Sessions -> [Variants -> Seq(Entry)]]
      /\ ledger \in [Variants -> Seq(Entry)]
  BY <1>1 DEF InvI, TypeOK, LocksGuardDrafts, HasPlan
<1>6. PICK t \in Transactions, n \in Nat : MadeOf(p, t, n)
  BY <1>1 DEF OnBook, SessionOnBook
<1>7. PICK g : Goes(g, Book!Book, t, n) /\ g[n] = View(p)
  BY <1>6 DEF MadeOf
<1>8. /\ t \in Seq(Moves) /\ Len(t) \in Nat /\ n \in 0..Len(t) /\ Len(txn[p]) = Len(t) - n
      /\ \A j \in 1..(Len(t) - n) : txn[p][j] = t[n + j]
      /\ \A j \in 1..n : draft[p][t[j].variant] # NoRow
  BY <1>6, TransactionsAssumption DEF MadeOf
<1>9. /\ n + 1 \in 0..Len(t) /\ t[n + 1] = m
      /\ \A j \in 1..n : t[j] \in Moves /\ t[j].variant \in Variants
  <2>1. Len(txn[p]) >= 1 /\ m = txn[p][1]
    BY <1>5
  <2>2. n + 1 \in 0..Len(t) /\ 1 \in 1..(Len(t) - n)
    BY <1>8, <2>1
  <2>3. \A j \in 1..n : t[j] \in Moves
    BY <1>8
  <2> QED BY <1>8, <2>1, <2>2, <2>3, MovesAreValid
<1>10. /\ txn'[p] = Tail(txn[p])
       /\ Len(txn'[p]) = Len(t) - (n + 1)
       /\ \A j \in 1..(Len(t) - (n + 1)) : txn'[p][j] = t[(n + 1) + j]
  <2>1. txn'[p] = Tail(txn[p])
    BY <1>3 DEF InvI, TypeOK
  <2>2. Len(Tail(txn[p])) = Len(txn[p]) - 1
    BY <1>5
  <2>3. ASSUME NEW j \in 1..(Len(t) - (n + 1)) PROVE Tail(txn[p])[j] = t[(n + 1) + j]
    <3>1. Tail(txn[p])[j] = txn[p][j + 1]
      BY <1>5, <1>8
    <3>2. j + 1 \in 1..(Len(t) - n) /\ n + (j + 1) = (n + 1) + j
      BY <1>8
    <3> QED BY <1>8, <3>1, <3>2
  <2> QED BY <1>8, <2>1, <2>2, <2>3
<1> HIDE DEF new, added, m
<1>11. /\ draft'[p] = [draft[p] EXCEPT ![v] = new]
       /\ rows'[p] = [rows[p] EXCEPT ![v] = rows[p][v] \o added]
  BY <1>3, <1>5
<1>12. \A j \in 1..(n + 1) : draft'[p][t[j].variant] # NoRow
  <2> SUFFICES ASSUME NEW j \in 1..(n + 1) PROVE draft'[p][t[j].variant] # NoRow
    OBVIOUS
  <2>1. CASE j = n + 1
    BY <1>2, <1>4, <1>5, <1>9, <1>11, <2>1
  <2>2. CASE j \in 1..n
    BY <1>2, <1>4, <1>5, <1>8, <1>9, <1>11, <2>2
  <2> QED BY <2>1, <2>2
<1>13. View(p)' = After(View(p), m, seen[p])
  <2>1. /\ View(p).inventory = [w \in Variants |-> Visible(p, w)]
        /\ View(p).ledger = [w \in Variants |-> ledger[w] \o rows[p][w]]
    BY DEF View
  <2>2. ASSUME NEW w \in Variants
        PROVE  /\ Visible(p, w)' = IF w = v THEN new ELSE Visible(p, w)
               /\ ledger'[w] \o rows'[p][w]
                    = IF w = v THEN (ledger[v] \o rows[p][v]) \o added ELSE ledger[w] \o rows[p][w]
    <3>1. CASE w = v
      <4>1. draft'[p][w] = new /\ rows'[p][w] = rows[p][v] \o added
        BY <1>2, <1>5, <1>11, <3>1
      <4>2. ledger[v] \o (rows[p][v] \o added) = (ledger[v] \o rows[p][v]) \o added
        <5>1. ledger[v] \in Seq(Entry) /\ rows[p][v] \in Seq(Entry) /\ added \in Seq(Entry)
          BY <1>2, <1>4, <1>5
        <5>2. \A a, b, c \in Seq(Entry) : a \o (b \o c) = (a \o b) \o c
          BY ConcatAssociative
        <5> QED BY <5>1, <5>2, Zenon
      <4> QED BY Zenon, <1>3, <1>4, <3>1, <4>1, <4>2 DEF Visible
    <3>2. CASE w # v
      <4>1. draft'[p][w] = draft[p][w] /\ rows'[p][w] = rows[p][w]
        BY <1>2, <1>5, <1>11, <3>2
      <4>2. Visible(p, w)' = Visible(p, w)
        BY <1>3, <4>1 DEF Visible
      <4>3. ledger'[w] \o rows'[p][w] = ledger[w] \o rows[p][w]
        BY <1>3, <4>1
      <4> QED BY <3>2, <4>2, <4>3
    <3> QED BY <3>1, <3>2
  <2> DEFINE I == [w \in Variants |-> Visible(p, w)]
             L == [w \in Variants |-> ledger[w] \o rows[p][w]]
  <2>3. [w \in Variants |-> Visible(p, w)'] = [I EXCEPT ![v] = new]
    BY <1>2, <2>2
  <2>4. [w \in Variants |-> ledger'[w] \o rows'[p][w]] = [L EXCEPT ![v] = L[v] \o added]
    BY <1>2, <2>2
  <2> HIDE DEF I, L
  <2>5. After(View(p), m, seen[p]) = [inventory |-> [I EXCEPT ![v] = new],
                                      ledger |-> [L EXCEPT ![v] = L[v] \o added]]
    BY <2>1 DEF After, new, added, I, L
  <2> QED BY <2>3, <2>4, <2>5 DEF View
<1>14. Book!RowIn(View(p), v) = seen[p]
  <2>1. View(p).inventory[v] = Visible(p, v)
    BY <1>2 DEF View
  <2>2. Book!EmptyRow = EmptyRow
    BY SameArithmetic
  <2> QED BY <1>2, <2>1, <2>2 DEF Book!RowIn, OrEmpty, m
<1> DEFINE next == View(p)'
           h == [j \in 0..(n + 1) |-> IF j = n + 1 THEN next ELSE g[j]]
<1>15. next \in Books
  <2>1. \A w \in Variants : Visible(p, w)' \in Row \cup {NoRow}
    BY DEF InvI, TypeOK, Visible
  <2>2. \A w \in Variants : ledger'[w] \o rows'[p][w] \in Seq(Entry)
    BY DEF InvI, TypeOK
  <2> QED BY <2>1, <2>2 DEF View, Books
<1> HIDE DEF next
<1>16. Goes(h, Book!Book, t, n + 1)
  <2>1. h \in [0..(n + 1) -> Books]
    BY <1>7, <1>15 DEF Goes
  <2>2. h[0] = Book!Book
    BY <1>7 DEF Goes
  <2>3. ASSUME NEW j \in 1..(n + 1)
        PROVE  /\ h[j] = Book!Moved(h[j - 1], t[j])
               /\ Accepted(t[j], Book!RowIn(h[j - 1], t[j].variant))
    <3>1. CASE j = n + 1
      <4>1. h[j] = next /\ h[j - 1] = View(p) /\ t[j] = m
        BY <1>7, <1>9, <3>1
      <4>2. Book!Moved(View(p), m) = After(View(p), m, seen[p])
        BY <1>14, MovedBook
      <4> QED BY <1>3, <1>13, <1>14, <4>1, <4>2 DEF next
    <3>2. CASE j \in 1..n
      <4>1. h[j] = g[j] /\ h[j - 1] = g[j - 1]
        BY <3>2
      <4> HIDE DEF h
      <4> QED BY <1>7, <3>2, <4>1 DEF Goes
    <3> QED BY <3>1, <3>2
  <2> HIDE DEF h
  <2> QED BY <2>1, <2>2, <2>3 DEF Goes
<1>17. h[n + 1] = next
  OBVIOUS
<1>18. \E f : Goes(f, Book!Book', t, n + 1) /\ f[n + 1] = View(p)'
  <2> HIDE DEF h
  <2>1. Book!Book' = Book!Book
    BY <1>3 DEF Book!Book
  <2> QED BY <1>16, <1>17, <2>1 DEF next
<1>19. MadeOf(p, t, n + 1)'
  BY <1>9, <1>10, <1>12, <1>18 DEF MadeOf
<1>20. pc'[p] # "idle" /\ (pc'[p] = "commit" => txn'[p] = << >>)
  BY <1>3, <1>10 DEF InvI, TypeOK
<1> QED BY <1>19, <1>20 DEF SessionOnBook

\* What ends a transaction takes away all it had pending.
LEMMA EndedOnBook ==
  ASSUME TypeOK, NEW p \in Sessions, EndTransaction(p)
  PROVE  SessionOnBook(p)'
BY DEF TypeOK, EndTransaction, SessionOnBook

\* The others do not notice that a transaction has ended: who has drafted a row
\* holds its lock, so the rows that changed are not among its own.
LEMMA OthersEndedOnBook ==
  ASSUME InvI, InvI', OnBook, NEW p \in Sessions, EndTransaction(p), NEW q \in Sessions, q # p,
         \A v \in Variants :
           lock[v] # p => inventory'[v] = inventory[v] /\ ledger'[v] = ledger[v]
  PROVE  SessionOnBook(q)'
<1>1. /\ txn'[q] = txn[q] /\ draft'[q] = draft[q] /\ rows'[q] = rows[q] /\ pc'[q] = pc[q]
  BY DEF InvI, TypeOK, EndTransaction
<1>2. \A v \in Variants : draft[q][v] # NoRow => lock[v] = q
  BY DEF InvI, LocksGuardDrafts, DraftIsLocked
<1> QED BY <1>1, <1>2, BystanderOnBook DEF OnBook

\* What a commit publishes, row by row.
LEMMA CommitPublishes ==
  ASSUME InvI, NEW p \in Sessions, Commit(p)
  PROVE  /\ inventory' = View(p).inventory
         /\ ledger' = View(p).ledger
         /\ \A v \in Variants :
              lock[v] # p => inventory'[v] = inventory[v] /\ ledger'[v] = ledger[v]
<1>1. inventory' = View(p).inventory /\ ledger' = View(p).ledger
  BY DEF Commit, View
<1>2. ASSUME NEW v \in Variants, lock[v] # p
      PROVE  inventory'[v] = inventory[v] /\ ledger'[v] = ledger[v]
  <2>1. draft[p][v] = NoRow /\ rows[p][v] = << >>
    BY <1>2 DEF InvI, LocksGuardDrafts, DraftIsLocked
  <2>2. ledger[v] \o << >> = ledger[v]
    BY DEF InvI, TypeOK
  <2> QED BY <2>1, <2>2 DEF Commit, Visible
<1> QED BY <1>1, <1>2

\* A commit is the whole transaction, made on the book committed before.
LEMMA CommitTransacts ==
  ASSUME InvI, OnBook, NEW p \in Sessions, Commit(p)
  PROVE  \E t \in Transactions : Book!Transact(t)
<1>1. pc[p] = "commit" /\ txn[p] = << >>
  BY DEF Commit, OnBook, SessionOnBook
<1>2. PICK t \in Transactions, n \in Nat : MadeOf(p, t, n)
  BY <1>1 DEF OnBook, SessionOnBook
<1>3. t \in Seq(Moves) /\ n = Len(t)
  BY <1>1, <1>2, TransactionsAssumption DEF MadeOf
<1>4. PICK g : Goes(g, Book!Book, t, n) /\ g[n] = View(p)
  BY <1>2 DEF MadeOf
<1>5. Book!Progress(t) = g
  BY <1>3, <1>4, ProgressIsUnique
<1>6. inventory' = g[Len(t)].inventory /\ ledger' = g[Len(t)].ledger
  BY <1>3, <1>4, CommitPublishes
<1>7. ASSUME NEW i \in DOMAIN t
      PROVE  Book!Accepted(t[i], Book!RowIn(g[i - 1], t[i].variant))
  <2>1. i \in 1..n
    BY <1>3
  <2>2. Accepted(t[i], Book!RowIn(g[i - 1], t[i].variant))
    BY <1>4, <2>1 DEF Goes
  <2> QED BY <2>2, SameArithmetic
<1>8. Book!Transact(t)
  BY <1>5, <1>6, <1>7 DEF Book!Transact
<1> QED BY <1>8

LEMMA InitOnBook == Init => OnBook
BY DEF Init, OnBook, SessionOnBook

LEMMA NextOnBook ==
  ASSUME InvI, InvI', OnBook, [Next]_vars
  PROVE  OnBook'
<1> SUFFICES ASSUME NEW q \in Sessions PROVE SessionOnBook(q)'
  BY DEF OnBook
<1>1. SessionOnBook(q)
  BY DEF OnBook
<1>2. ASSUME NEW p \in Sessions, q # p, Begin(p) \/ LockAndRead(p) \/ Write(p)
      PROVE  SessionOnBook(q)'
  <2>1. /\ txn'[q] = txn[q] /\ draft'[q] = draft[q] /\ rows'[q] = rows[q] /\ pc'[q] = pc[q]
        /\ inventory' = inventory /\ ledger' = ledger
    <3>1. CASE Begin(p)
      BY <1>2, <3>1 DEF InvI, TypeOK, Begin
    <3>2. CASE LockAndRead(p)
      BY <1>2, <3>2 DEF InvI, TypeOK, LockAndRead
    <3>3. CASE Write(p)
      BY <1>2, <3>3 DEF InvI, TypeOK, Write
    <3> QED BY <1>2, <3>1, <3>2, <3>3
  <2> QED BY <1>1, <2>1, BystanderOnBook
<1>3. ASSUME NEW p \in Sessions, EndTransaction(p),
             \A v \in Variants :
               lock[v] # p => inventory'[v] = inventory[v] /\ ledger'[v] = ledger[v]
      PROVE  SessionOnBook(q)'
  BY <1>3, EndedOnBook, OthersEndedOnBook DEF InvI
<1>4. ASSUME NEW p \in Sessions, Begin(p) \/ LockAndRead(p) \/ Write(p) PROVE SessionOnBook(q)'
  BY <1>2, <1>4, BeginOnBook, LockAndReadOnBook, WriteOnBook
<1>5. ASSUME NEW p \in Sessions, Commit(p) PROVE SessionOnBook(q)'
  BY <1>3, <1>5, CommitPublishes DEF Commit
<1>6. ASSUME NEW p \in Sessions, Refuse(p) \/ DeadlockAbort(p) \/ Crash(p)
      PROVE  SessionOnBook(q)'
  BY <1>3, <1>6 DEF Refuse, DeadlockAbort, Crash
<1>7. ASSUME NEW v \in Variants, EnsureInventory(v) PROVE SessionOnBook(q)'
  <2>1. UNCHANGED <<txn, draft, rows, pc, ledger>>
    BY <1>7 DEF EnsureInventory
  <2>2. \A w \in Variants : draft[q][w] # NoRow => inventory'[w] = inventory[w]
    BY <1>7 DEF EnsureInventory, InvI, TypeOK
  <2> QED BY <1>1, <2>1, <2>2, BystanderOnBook
<1>8. CASE UNCHANGED vars
  BY <1>1, <1>8, BystanderOnBook DEF vars
<1> QED BY <1>4, <1>5, <1>6, <1>7, <1>8 DEF Next

\* Every step of the engine is a step of the book, or none.
LEMMA NextIsBookNext ==
  ASSUME InvI, OnBook, [Next]_vars
  PROVE  [Book!BookNext]_(Book!bookVars)
<1>1. ASSUME NEW p \in Sessions, Commit(p) PROVE Book!BookNext
  BY SMTT(30), <1>1, CommitTransacts DEF Book!BookNext
<1>2. ASSUME NEW p \in Sessions, Begin(p) \/ LockAndRead(p) \/ Write(p)
                                 \/ Refuse(p) \/ DeadlockAbort(p) \/ Crash(p)
      PROVE  UNCHANGED Book!bookVars
  BY Zenon, <1>2 DEF Begin, LockAndRead, Write, Refuse, DeadlockAbort, Crash, Book!bookVars
<1>3. ASSUME NEW v \in Variants, EnsureInventory(v) PROVE Book!BookNext
  BY <1>3, SameArithmetic DEF EnsureInventory, Book!BookNext, Book!NewRow
<1>4. CASE UNCHANGED vars
  BY <1>4 DEF vars, Book!bookVars
<1> QED BY <1>1, <1>2, <1>3, <1>4 DEF Next

LEMMA InitIsBookInit == Init => Book!BookInit
BY DEF Init, Book!BookInit

\* The engine implements the book: for any sessions and transactions, whatever
\* locks, drafts, aborts and interleavings there were, committed stock and
\* ledger change as if the transactions had run one at a time, each to its end
\* or not at all (lockAndReadInventory's advisory lock gives what the caller
\* of a *Tx method inside prisma.$transaction relies on).
THEOREM EngineIsSerializable == Spec => Serializable
<1>1. Spec => []OnBook
  <2>1. OnBook /\ InvI /\ InvI' /\ [Next]_vars => OnBook'
    BY NextOnBook
  <2> QED BY InitOnBook, InvariantHolds, <2>1, PTL DEF Spec
<1>2. InvI /\ OnBook /\ [Next]_vars => [Book!BookNext]_(Book!bookVars)
  BY NextIsBookNext
<1> QED BY InitIsBookInit, InvariantHolds, <1>1, <1>2, PTL DEF Spec, Serializable, Book!BookSpec
=============================================================================
