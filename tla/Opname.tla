------------------------------- MODULE Opname -------------------------------
(***************************************************************************)
(* Stock counts (StockOpnameService).  A line takes the books' quantity as *)
(* its baseline when it is added; posting moves the books by the variance  *)
(* found then, whatever the other documents have moved since.  The shelf   *)
(* holds stock[v].available - missing[v] units.                            *)
(***************************************************************************)
EXTENDS BackOffice

CONSTANTS
  Opnames,   \* counting sessions
  MaxCount,  \* bound on the quantity counted per line
  MaxLoss,   \* bound on the units that go missing (or turn up) per variant
  NoItem     \* "this variant has no line"

\* The line of one variant: since is history, what was missing when the line
\* took its baseline.
OpnameItem == [system : Int, counted : Nat, variance : Int, scans : Nat, since : Int]

ASSUME OpnamesAssumption ==
  /\ IsFiniteSet(Opnames)
  /\ MaxCount \in Nat /\ MaxLoss \in Nat
  /\ NoItem \notin OpnameItem

VARIABLES
  opname,   \* the StockOpname row and its items
  missing   \* units of each variant the books have and the shelf has not

OpnameRow == [status : {"none", "DRAFT", "COMPLETED", "CANCELLED"},
              item : [Variants -> OpnameItem \cup {NoItem}]]
NoOpname == [status |-> "none", item |-> [v \in Variants |-> NoItem]]

\* Faulty Line: a surplus is recorded as a shortage.
LineSwapped(system, counted, scans, since) ==
  [system |-> system, counted |-> counted, variance |-> system - counted,
   scans |-> scans, since |-> since]

Line(system, counted, scans, since) ==
  [system |-> system, counted |-> counted, variance |-> counted - system,
   scans |-> scans, since |-> since]

OpnameInit ==
  /\ opname = [n \in Opnames |-> NoOpname]
  /\ missing = [v \in Variants |-> 0]

\* A unit is stolen, broken or mislaid, or one turns up.
LoseUnit(v) ==
  /\ \E m \in {missing[v] - 1, missing[v] + 1} :
       m \in -MaxLoss..MaxLoss /\ missing' = [missing EXCEPT ![v] = m]
  /\ UNCHANGED <<stock, desk, opname>>

CreateOpname(n) ==
  /\ n \in open.documents /\ opname[n].status = "none"
  /\ opname' = [opname EXCEPT ![n].status = "DRAFT"]
  /\ UNCHANGED <<stock, desk, missing>>

\* Every operation loads the session first and wants it in DRAFT.
OpenSession(c, n, request) ==
  /\ opname[n].status = "DRAFT"
  /\ TakeUp(c, request)
  /\ UNCHANGED <<stock, opname, missing>>

-----------------------------------------------------------------------------
\* upsertItem: what it reads ...
OpenCount(c, n) ==
  \E v \in Variants, counted \in 0..MaxCount :
    OpenSession(c, n, [op |-> "count", doc |-> n, variant |-> v, counted |-> counted,
                       existing |-> opname[n].item[v], system |-> stock[v].available,
                       since |-> missing[v]])

\* The baseline is taken once, when the line is added.
Baseline(existing, system) == IF existing = NoItem THEN system ELSE existing.system

\* ... and what it writes.
WriteCount(c) ==
  /\ desk[c].op = "count"
  /\ LET r == desk[c]
         since == IF r.existing = NoItem THEN r.since ELSE r.existing.since IN
       opname' = [opname EXCEPT ![r.doc].item[r.variant] =
                    Line(Baseline(r.existing, r.system), r.counted, r.counted, since)]
  /\ Answered(c)
  /\ UNCHANGED <<stock, missing>>

CountedBy(n, v) == IF opname[n].item[v] = NoItem THEN 0 ELSE opname[n].item[v].counted

\* scanCountItem: the variant and its stock are resolved first ...
OpenScan(c, n) ==
  \E v \in {u \in Variants : CountedBy(n, u) < MaxCount} :
    OpenSession(c, n, [op |-> "scan", doc |-> n, variant |-> v, existing |-> NoItem,
                       system |-> stock[v].available, since |-> missing[v]])

\* ... its transaction reads the line ...
ReadScan(c) ==
  /\ desk[c].op = "scan"
  /\ LET r == desk[c] IN
     desk' = [desk EXCEPT ![c] =
       [op |-> "tally", doc |-> r.doc, variant |-> r.variant, system |-> r.system,
        since |-> r.since, existing |-> opname[r.doc].item[r.variant]]]
  /\ UNCHANGED <<stock, opname, missing>>

\* ... and writes one more than it read; a line that was created meanwhile
\* makes the insert fail, one that was removed makes the update fail.
WriteScan(c) ==
  /\ desk[c].op = "tally"
  /\ LET r == desk[c]
         now == opname[r.doc].item[r.variant]
         added == IF r.existing = NoItem THEN Line(r.system, 1, 1, r.since)
                  ELSE Line(r.existing.system, r.existing.counted + 1,
                            now.scans + 1, r.existing.since) IN
       opname' = IF (r.existing = NoItem) = (now = NoItem)
                 THEN [opname EXCEPT ![r.doc].item[r.variant] = added]
                 ELSE opname
  /\ Answered(c)
  /\ UNCHANGED <<stock, missing>>

OpenRemove(c, n) ==
  \E v \in Variants :
    /\ opname[n].item[v] # NoItem
    /\ OpenSession(c, n, [op |-> "remove", doc |-> n, variant |-> v])

RemoveItem(c) ==
  /\ desk[c].op = "remove"
  /\ opname' = [opname EXCEPT ![desk[c].doc].item[desk[c].variant] = NoItem]
  /\ Answered(c)
  /\ UNCHANGED <<stock, missing>>

-----------------------------------------------------------------------------
Counted(items) == {v \in Variants : items[v] # NoItem}

OpenComplete(c, n) ==
  /\ Counted(opname[n].item) # {}
  /\ OpenSession(c, n, [op |-> "complete", doc |-> n, items |-> opname[n].item])

\* Faulty Correction: the count replaces what the books have now.
CorrectionAbsolute(item, available) == item.counted - available

\* What posting a line adds to available.
Correction(item, available) == item.variance

\* completeOpname, its transaction: one RECONCILE per line with a variance.
CompleteOpname(c) ==
  /\ desk[c].op = "complete"
  /\ LET items == desk[c].items
         by(v) == IF items[v] = NoItem THEN 0 ELSE Correction(items[v], stock[v].available) IN
       /\ stock' = [v \in Variants |->
            Written([kind |-> "RECONCILE", variant |-> v, qty |-> by(v)], stock[v], stock[v])]
       /\ missing' = [v \in Variants |-> missing[v] + by(v)]
  /\ opname' = [opname EXCEPT ![desk[c].doc].status = "COMPLETED"]
  /\ Answered(c)

OpenCancelCount(c, n) == OpenSession(c, n, [op |-> "cancelCount", doc |-> n])

CancelOpname(c) ==
  /\ desk[c].op = "cancelCount"
  /\ opname' = [opname EXCEPT ![desk[c].doc].status = "CANCELLED"]
  /\ Answered(c)
  /\ UNCHANGED <<stock, missing>>

OpnameNext ==
  \/ \E v \in Variants : LoseUnit(v)
  \/ \E n \in Opnames :
       \/ CreateOpname(n)
       \/ \E c \in Clerks :
            \/ OpenCount(c, n) \/ OpenScan(c, n) \/ OpenRemove(c, n)
            \/ OpenComplete(c, n) \/ OpenCancelCount(c, n)
  \/ \E c \in Clerks :
       \/ WriteCount(c) \/ ReadScan(c) \/ WriteScan(c) \/ RemoveItem(c)
       \/ CompleteOpname(c) \/ CancelOpname(c)

-----------------------------------------------------------------------------
\* What the books have of a line that was counted right, as the shelf stood
\* when the line took its baseline.
Accurate(item) == item.counted = item.system - item.since

\* Posting an accurate count makes the books agree with the shelf, whatever
\* was sold, received or refunded between counting and posting, provided
\* nothing else went missing in between.
CountCorrectsBooks ==
  [][\A n \in Opnames, v \in Variants :
       LET item == opname[n].item[v] IN
       /\ opname[n].status = "DRAFT" /\ opname'[n].status = "COMPLETED"
       /\ item # NoItem /\ Accurate(item) /\ missing[v] = item.since
       => missing'[v] = 0]_<<stock, desk, opname, missing>>

\* Every scanned unit is tallied.
EveryScanTallied ==
  \A n \in Opnames, v \in Variants :
    opname[n].item[v] # NoItem => opname[n].item[v].counted = opname[n].item[v].scans

\* The units a count has added to the books.
PostedBy(row, v) ==
  IF row.status = "COMPLETED" /\ row.item[v] # NoItem THEN row.item[v].variance ELSE 0
=============================================================================
