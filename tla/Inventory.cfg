SPECIFICATION FairSpec
CONSTANTS
  v1 = v1
  v2 = v2
  Variants = {v1, v2}
  Sessions = {s1, s2}
  NoSession = NoSession
  NoRow = NoRow
  MaxBegins = 3
  Transactions <- SomeTransactions
INVARIANTS TypeOK CacheMatchesLedger DraftsAreCurrent
PROPERTY Serializable TransactionsEnd
CHECK_DEADLOCK FALSE
