------------------------------- MODULE Returns -------------------------------
(***************************************************************************)
(* Returns of shipped orders (ReturnsServerService), composed with the     *)
(* order lifecycle: a pull or the staff open a return from the order as it *)
(* is then, and the staff later receive it, line by line, into available   *)
(* or damaged stock, or reject it.                                         *)
(***************************************************************************)
EXTENDS Orders

CONSTANTS
  Handlers,       \* staff handling returns
  HandleTogether  \* TRUE: two of them may work on one return

ASSUME HandleTogetherAssumption == HandleTogether \in BOOLEAN

VARIABLE handling  \* the request each handler has under way

returnVars == <<vars, handling>>

NotHandling == [op |-> "none", order |-> NoOrder, read |-> NoReturn]

ReturnsInit == Init /\ handling = [h \in Handlers |-> NotHandling]

\* createReturn, asked for by the staff.
CreateReturn(o) ==
  /\ "return" \in world.ops
  /\ returns' = WithReturn(o)
  /\ UNCHANGED <<channel, changed, mapping, order, stock, rows, pull, task, crashes, world, handling>>

\* Faulty Pending: a return that was received can be received again.
PendingAgain(row) == row.status \in {"PENDING", "RECEIVED"}

Pending(row) == row.status = "PENDING"

\* processReturn and rejectReturn load the return and check it is PENDING.
OpenHandling(h, o, op) ==
  /\ handling[h] = NotHandling
  /\ ~HandleTogether => \A g \in Handlers : handling[g].order # o
  /\ Pending(returns[o])
  /\ handling' = [handling EXCEPT ![h] = [op |-> op, order |-> o, read |-> returns[o]]]
  /\ UNCHANGED vars

Handled(h) == handling' = [handling EXCEPT ![h] = NotHandling]

\* processReturn, its transaction: each item is restocked or damaged.
ProcessReturn(h) ==
  /\ handling[h].op = "process"
  /\ LET o == handling[h].order
         variant == handling[h].read.variant
         lines == Resolved(o, variant) IN
       /\ \E good \in SUBSET lines :
            stock' = MovedLines(MovedLines(stock, "RETURN_RESTOCK", o, good, variant),
                                "RETURN_DAMAGED", o, lines \ good, variant)
       /\ returns' = [returns EXCEPT ![o].status = "RECEIVED"]
  /\ Handled(h)
  /\ UNCHANGED <<channel, changed, mapping, order, rows, pull, task, crashes, world>>

RejectReturn(h) ==
  /\ handling[h].op = "reject"
  /\ returns' = [returns EXCEPT ![handling[h].order].status = "REJECTED"]
  /\ Handled(h)
  /\ UNCHANGED <<channel, changed, mapping, order, stock, rows, pull, task, crashes, world>>

CrashHandling(h) ==
  /\ handling[h] # NotHandling
  /\ Handled(h)
  /\ UNCHANGED vars

ReturnsNext ==
  \/ Next /\ handling' = handling
  \/ \E o \in OrderIds :
       \/ CreateReturn(o)
       \/ \E h \in Handlers, op \in {"process", "reject"} : OpenHandling(h, o, op)
  \/ \E h \in Handlers : ProcessReturn(h) \/ RejectReturn(h) \/ CrashHandling(h)

ReturnsSpec == ReturnsInit /\ [][ReturnsNext]_returnVars

\* The scheduler keeps pulling; the staff need not handle any return.
FairReturnsSpec ==
  /\ ReturnsSpec
  /\ \A p \in Pullers : WF_vars(PullOn(p))
  /\ \A s \in Staff : WF_vars(TaskStep(s))

-----------------------------------------------------------------------------
\* What comes back had gone out: no line is received from a return that did
\* not ship, because it was cancelled inside its order, or because it got its
\* variant when the order had shipped already.
ReturnsMatchShipments ==
  \A o \in OrderIds, l \in Listings :
    returns[o].status = "RECEIVED" /\ returns[o].variant[l] # Unmapped =>
      rows[o][l].SHIP > 0
=============================================================================
