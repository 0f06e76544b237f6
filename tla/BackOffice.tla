----------------------------- MODULE BackOffice -----------------------------
(***************************************************************************)
(* What the documents of the back office share: the stock they move and    *)
(* the requests of the users working on them.  A request loads a document, *)
(* checks it, and only then opens the transaction that changes it, with    *)
(* what it loaded; between the two the other users go on, and the request  *)
(* may die.  Inventory shows that a transaction over stock takes effect    *)
(* all at once, so a transaction is one step here.                         *)
(***************************************************************************)
EXTENDS StockMoves, FiniteSets, FiniteSetsExt

CONSTANTS
  Variants,   \* product variants
  Items,      \* the lines a document can have, bundles already exploded
  VariantOf,  \* the variant of each line; lines may share one
  Clerks,     \* users working at the same time
  Worlds      \* bound: what may happen in one behaviour, see World

ASSUME ItemsAssumption == IsFiniteSet(Items) /\ VariantOf \in [Items -> Variants]

VARIABLES
  stock,  \* the Inventory row of each variant
  desk,   \* the request each user has under way, and what it has loaded
  open    \* what may happen in this behaviour (bound only)

\* The documents a behaviour may create, the operations that may meet another
\* one on the same document, and whether the cancel endpoint is called on
\* drafts too.
World(documents, meet, cancelDrafts) ==
  [documents |-> documents, meet |-> meet, cancelDrafts |-> cancelDrafts]

NoRequest == [op |-> "none"]

\* The quantities of a document's lines; zero for a line it does not have.
Cart == [Items -> Nat]
EmptyCart == [i \in Items |-> 0]

Units(cart, v) == SumFunctionOnSet(cart, {i \in Items : VariantOf[i] = v})

\* The stock after every line of a cart has made one movement.
MovedCart(st, kind, cart) ==
  [v \in Variants |->
     Written([kind |-> kind, variant |-> v, qty |-> Units(cart, v)], st[v], st[v])]

Outstanding(ordered, received) ==
  [i \in Items |-> AtLeastZero(ordered[i] - received[i])]

WorksOn(c, doc) == desk[c] # NoRequest /\ desk[c].doc = doc

\* c takes up a request on a document, alone unless the operations overlap.
TakeUp(c, request) ==
  /\ desk[c] = NoRequest
  /\ \A d \in Clerks :
       WorksOn(d, request.doc) => {request.op, desk[d].op} \subseteq open.meet
  /\ desk' = [desk EXCEPT ![c] = request]

\* Who works on what when c's request is answered.
Answered(c) == desk' = [desk EXCEPT ![c] = NoRequest]
=============================================================================
