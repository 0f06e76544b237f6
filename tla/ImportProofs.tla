---------------------------- MODULE ImportProofs ----------------------------
(***************************************************************************)
(* What is proved of the import of a store's listings, for any products,   *)
(* users, jobs and scenes: the types, and that the watermark passes no     *)
(* change that no import saw (NothingUnlooked) in a steady catalogue.      *)
(*                                                                         *)
(* The argument follows one product whose change is older than the import  *)
(* that runs and is not stored.  It is listed in the window of the import, *)
(* and as the window only grows while the import runs its rank there only  *)
(* rises: it stays ahead of the offset until it is on the page, and then   *)
(* it is stored or counted as an error.  A page that ends the loop has     *)
(* nothing ahead of it, so an import without errors has missed nothing.    *)
(***************************************************************************)
EXTENDS Import, FiniteSetTheorems, TLAPS

-----------------------------------------------------------------------------
(* Pages.  The rank of a product is its place in a listing, from 1.        *)

RankIn(p, S) == Cardinality({q \in S : q <= p})

PageOf(S, offset) == {p \in S : RankIn(p, S) \in (offset + 1)..(offset + PageLimit)}

LEMMA ListingIsFinite ==
  ASSUME NEW S \in SUBSET Products
  PROVE  IsFiniteSet(S) /\ Cardinality(S) \in Nat
BY ImportAssumption, FS_Subset, FS_CardinalityType

LEMMA RankType ==
  ASSUME NEW S \in SUBSET Products, NEW p \in Products
  PROVE  /\ RankIn(p, S) \in Nat /\ RankIn(p, S) <= Cardinality(S)
         /\ p \in S => RankIn(p, S) >= 1
<1>1. IsFiniteSet(S) /\ Cardinality(S) \in Nat
  BY ListingIsFinite
<1> DEFINE upTo == {q \in S : q <= p}
<1>2. IsFiniteSet(upTo) /\ Cardinality(upTo) \in Nat /\ Cardinality(upTo) <= Cardinality(S)
  BY <1>1, FS_Subset, FS_CardinalityType
<1>3. p \in S => Cardinality(upTo) >= 1
  <2> SUFFICES ASSUME p \in S PROVE Cardinality(upTo) # 0
    BY <1>2
  <2>1. p \in upTo
    BY ImportAssumption
  <2> QED  BY <1>2, <2>1, FS_EmptySet
<1> QED  BY <1>1, <1>2, <1>3 DEF RankIn

\* Products after another have a higher rank.
LEMMA RankRises ==
  ASSUME NEW S \in SUBSET Products, NEW p \in S, NEW q \in S, p < q
  PROVE  RankIn(p, S) < RankIn(q, S)
<1> DEFINE low == {r \in S : r <= p}
           high == {r \in S : r <= q}
<1>0. IsFiniteSet(S) /\ p \in Nat /\ q \in Nat /\ ~(q <= p) /\ q <= q
  BY ListingIsFinite, ImportAssumption
<1>1. IsFiniteSet(high) /\ Cardinality(low) \in Nat /\ Cardinality(high) \in Nat
  BY <1>0, FS_Subset, FS_CardinalityType
<1>2. low \subseteq high /\ q \in high /\ q \notin low
  <2>1. ASSUME NEW r \in low PROVE r \in high
    <3>1. r \in Nat /\ r <= p
      BY ImportAssumption
    <3> QED  BY <1>0, <3>1
  <2> QED  BY <1>0, <2>1
<1>3. Cardinality(low) <= Cardinality(high) /\ Cardinality(low) # Cardinality(high)
  BY <1>1, <1>2, FS_Subset
<1> QED  BY <1>1, <1>3 DEF RankIn

\* A listing that grows moves nobody forward.
LEMMA RankGrows ==
  ASSUME NEW S \in SUBSET Products, NEW T \in SUBSET Products, S \subseteq T,
         NEW p \in Products
  PROVE  RankIn(p, S) <= RankIn(p, T)
<1>1. IsFiniteSet({q \in T : q <= p})
  BY ListingIsFinite, FS_Subset
<1>2. {q \in S : q <= p} \subseteq {q \in T : q <= p}
  OBVIOUS
<1> QED  BY <1>1, <1>2, FS_Subset DEF RankIn

LEMMA RanksDiffer ==
  ASSUME NEW S \in SUBSET Products, NEW p \in S, NEW q \in S, RankIn(p, S) = RankIn(q, S)
  PROVE  p = q
<1>1. p \in Nat /\ q \in Nat /\ RankIn(p, S) \in Nat
  BY ImportAssumption, RankType
<1>2. ~(p < q) /\ ~(q < p)
  BY <1>1, RankRises
<1> QED  BY <1>1, <1>2

\* A page is never longer than its limit, and full if something is beyond it.
LEMMA PageLength ==
  ASSUME NEW S \in SUBSET Products, NEW offset \in Nat
  PROVE  /\ IsFiniteSet(PageOf(S, offset))
         /\ Cardinality(PageOf(S, offset)) <= PageLimit
         /\ Cardinality(S) >= offset + PageLimit =>
              Cardinality(PageOf(S, offset)) = PageLimit
<1> DEFINE n == Cardinality(S)
           page == PageOf(S, offset)
           window == (offset + 1)..(offset + PageLimit)
           place == [p \in S |-> RankIn(p, S)]
           within == [p \in page |-> RankIn(p, S)]
<1>0. PageLimit \in Nat /\ PageLimit >= 1 /\ n \in Nat /\ IsFiniteSet(S)
  BY ImportAssumption, ListingIsFinite
<1>1. IsFiniteSet(window) /\ Cardinality(window) = PageLimit
  <2>1. /\ offset + 1 \in Int /\ offset + PageLimit \in Int
        /\ ~(offset + 1 > offset + PageLimit)
        /\ (offset + PageLimit) - (offset + 1) + 1 = PageLimit
    BY <1>0
  <2> QED  BY <2>1, FS_Interval
<1>2. within \in Injection(page, window)
  <2>1. within \in [page -> window]
    BY DEF PageOf
  <2>2. \A p, q \in page : within[p] = within[q] => p = q
    BY RanksDiffer DEF PageOf
  <2> QED  BY <2>1, <2>2 DEF Injection, IsInjective
<1>3. IsFiniteSet(page) /\ Cardinality(page) <= PageLimit
  <2> HIDE DEF within, page, window
  <2> QED  BY <1>1, <1>2, FS_Injection
<1>4. IsFiniteSet(1..n) /\ Cardinality(1..n) = n
  BY <1>0, FS_Interval
<1>5. place \in Injection(S, 1..n)
  <2>1. place \in [S -> 1..n]
    BY <1>0, RankType
  <2>2. \A p, q \in S : place[p] = place[q] => p = q
    BY RanksDiffer
  <2> QED  BY <2>1, <2>2 DEF Injection, IsInjective
<1>6. place \in Surjection(S, 1..n)
  <2> DEFINE target == 1..n
  <2>1. place \in Injection(S, target) /\ IsFiniteSet(target) /\ Cardinality(S) = Cardinality(target)
    BY <1>4, <1>5
  <2>2. place \in Surjection(S, target)
    <3> HIDE DEF place, target
    <3> QED  BY <2>1, FS_Injection
  <2> QED  BY <2>2
<1>7. ASSUME n >= offset + PageLimit PROVE Cardinality(page) = PageLimit
  <2>1. window \subseteq 1..n
    BY <1>0, <1>7
  <2>2. \A k \in window : \E p \in page : within[p] = k
    <3> SUFFICES ASSUME NEW k \in window PROVE \E p \in page : within[p] = k
      OBVIOUS
    <3>1. PICK p \in S : place[p] = k
      BY <1>6, <2>1 DEF Surjection
    <3>2. p \in page
      BY <3>1 DEF PageOf
    <3> QED  BY <3>1, <3>2
  <2>3. within \in Surjection(page, window)
    BY <1>2, <2>2 DEF Surjection, Injection
  <2> HIDE DEF within, page, window
  <2> QED  BY <1>1, <1>2, <2>3, FS_Injection
<1> QED  BY <1>3, <1>7

-----------------------------------------------------------------------------
(* The invariant of rows, queue and worker, in every scene.                *)

InProgress == {"paging", "storing", "counting", "matching", "mapping", "closing"}

Typed ==
  /\ shop \in [Products -> [listed : BOOLEAN, changed : Times]]
  /\ stored \in [Products -> Times]
  /\ mapping \in [Products -> {"nobody", "import", "user"}]
  /\ watermark \in 0..clock
  /\ row \in [Jobs -> Row] /\ queue \in [Jobs -> Queued] /\ run \in [Jobs -> Run]
  /\ request \in [Users -> Request]
  /\ clock \in Times /\ scene \in Scenes /\ mishaps \in 0..scene.mishaps

PagesShort == \A j \in Jobs : Cardinality(OnPage(run[j].page)) <= PageLimit

OneActive ==
  \A i, j \in Jobs : row[i].status \in Active /\ row[j].status \in Active => i = j

\* What the worker has in hand is active in the queue, and its row says so.
RunInv ==
  \A j \in Jobs :
    /\ run[j].at = "idle" <=> queue[j].state # "active"
    /\ run[j].at \in InProgress => row[j].status = "PROCESSING"
    /\ run[j].at = "leaving" => row[j].status \in {"COMPLETED", "PARTIAL", "FAILED"}

\* One request has created a row and not enqueued it yet.
RequestInv ==
  /\ \A u \in Users : request[u].at = "created" =>
       /\ request[u].job \in Jobs
       /\ row[request[u].job].status = "PENDING" /\ queue[request[u].job].state = "none"
  /\ \A u, v \in Users : request[u].at = "created" /\ request[v].at = "created" => u = v

\* A row that no worker has had is as new.
FreshInv ==
  \A j \in Jobs :
    IF row[j].status \in {"none", "PENDING"}
    THEN row[j].offset = 0 /\ row[j].processed = 0 /\ row[j].errors = 0 /\ row[j].started = 0
    ELSE row[j].started # 0

ClockInv ==
  /\ clock # 0
  /\ \A p \in Products : shop[p].changed # 0 /\ shop[p].changed <= clock
  /\ \A j \in Jobs : row[j].started <= clock

Worker == OneActive /\ RunInv /\ RequestInv /\ FreshInv /\ ClockInv

ImportInv == Typed /\ PagesShort /\ Worker

\* Steps that leave the imports alone.
Aside ==
  \/ \E p \in Products : ChangeProduct(p) \/ RemoveProduct(p) \/ MapByHand(p)
  \/ Tick

LEMMA PagesType ==
  /\ 0 \in Times /\ EmptyPage \in [Products -> Times] /\ NoRun \in Run
  /\ NoRow \in Row /\ NotQueued \in Queued /\ NoRequest \in Request
<1>1. 0 \in Times /\ EmptyPage \in [Products -> Times]
  BY ImportAssumption DEF Times, EmptyPage
<1>2. NoRun \in Run
  BY <1>1 DEF NoRun, Run
<1>3. NoRow \in Row
  BY <1>1 DEF NoRow, Row
<1>4. NotQueued \in Queued /\ NoRequest \in Request
  BY ImportAssumption DEF NotQueued, Queued, NoRequest, Request
<1> QED  BY <1>1, <1>2, <1>3, <1>4

LEMMA EmptyIsShort == Cardinality(OnPage(EmptyPage)) <= PageLimit
<1>1. OnPage(EmptyPage) = {}
  BY DEF OnPage, EmptyPage
<1>2. Cardinality({}) = 0
  BY FS_EmptySet
<1>3. 0 <= PageLimit
  BY ImportAssumption
<1> QED  BY <1>1, <1>2, <1>3

LEMMA InitInv == Init => ImportInv
<1> SUFFICES ASSUME Init PROVE ImportInv
  OBVIOUS
<1> USE ImportAssumption, PagesType DEF Init
<1>1. clock \in Times
  BY DEF Times
<1>2. Typed
  BY <1>1 DEF Typed, Times, Scene
<1>3. PagesShort
  BY EmptyIsShort DEF PagesShort, NoRun
<1>4. Worker
  BY DEF Worker, OneActive, RunInv, RequestInv, FreshInv, ClockInv, NoRow, NoRun, NoRequest,
         NotQueued, InProgress, Active
<1> QED  BY <1>2, <1>3, <1>4 DEF ImportInv

LEMMA NextJobIsUnused ==
  ASSUME Unused # {}
  PROVE  NextJob \in Unused
<1>1. Unused \subseteq Nat
  BY DEF Unused, Jobs
<1>2. PICK k \in Unused : \A i \in Unused : ~(<<i, k>> \in OpToRel(<, Nat))
  BY <1>1, WFMin, NatLessThanWellFounded
<1>3. ASSUME NEW i \in Unused PROVE k <= i
  <2>1. i \in Nat /\ k \in Nat
    BY <1>1
  <2>2. i < k => <<i, k>> \in OpToRel(<, Nat)
    BY <2>1 DEF OpToRel
  <2>3. ~(i < k)
    BY <1>2, <2>2, Zenon
  <2> QED  BY <2>1, <2>3
<1>4. \E least \in Unused : \A i \in Unused : least <= i
  BY <1>3
<1> QED  BY <1>4, Zenon DEF NextJob

\* A mishap is one more, within the limit of the scene.
LEMMA MishapType ==
  ASSUME Typed, NEW part, Mishap(part)
  PROVE  mishaps' \in 0..scene.mishaps
<1>1. scene.mishaps \in Nat /\ mishaps \in Nat
  BY ImportAssumption DEF Typed, Scene
<1> QED  BY <1>1 DEF Mishap

LEMMA RethrowType ==
  ASSUME Typed, NEW j \in Jobs, Rethrow(j)
  PROVE  queue' \in [Jobs -> Queued]
<1>1. queue[j] \in Queued
  BY DEF Typed
<1>2. CASE queue[j].tries + 1 < MaxAttempts
  <2>1. queue[j].tries + 1 \in 0..MaxAttempts
    BY <1>1, <1>2, ImportAssumption DEF Queued
  <2>2. [queue[j] EXCEPT !.state = "waiting", !.tries = queue[j].tries + 1] \in Queued
    BY <1>1, <2>1 DEF Queued
  <2>3. queue' = [queue EXCEPT ![j] = [queue[j] EXCEPT !.state = "waiting", !.tries = queue[j].tries + 1]]
    BY <1>2, Zenon DEF Rethrow
  <2> QED  BY <2>2, <2>3 DEF Typed
<1>3. CASE ~(queue[j].tries + 1 < MaxAttempts)
  BY <1>3, PagesType DEF Typed, Rethrow
<1> QED  BY <1>2, <1>3

LEMMA RetryType ==
  ASSUME Typed, NEW j \in Jobs, Retry(j)
  PROVE  row' \in [Jobs -> Row] /\ queue' \in [Jobs -> Queued] /\ run' \in [Jobs -> Run]
BY PagesType, RethrowType DEF Typed, Retry

LEMMA GiveUpType ==
  ASSUME Typed, NEW j \in Jobs, GiveUp(j)
  PROVE  row' \in [Jobs -> Row] /\ queue' \in [Jobs -> Queued] /\ run' \in [Jobs -> Run]
<1>1. row' \in [Jobs -> Row]
  <2>1. \A status \in {"PARTIAL", "FAILED"} : [row[j] EXCEPT !.status = status] \in Row
    BY DEF Typed, Row
  <2>2. \E status \in {"PARTIAL", "FAILED"} : row' = [row EXCEPT ![j].status = status]
    BY Zenon DEF GiveUp
  <2> QED  BY <2>1, <2>2 DEF Typed
<1>2. run' \in [Jobs -> Run]
  <2>1. run[j] \in Run
    BY DEF Typed
  <2>2. [run[j] EXCEPT !.at = "leaving"] \in Run
    BY <2>1 DEF Run
  <2> QED  BY <2>2 DEF Typed, GiveUp
<1> QED  BY <1>1, <1>2 DEF Typed, GiveUp

LEMMA ShopTyped ==
  ASSUME Typed, Aside
  PROVE  Typed'
<1> USE DEF Typed
<1>1. ASSUME NEW p \in Products, ChangeProduct(p) PROVE Typed'
  BY <1>1 DEF ChangeProduct, Imported
<1>2. ASSUME NEW p \in Products, RemoveProduct(p) PROVE Typed'
  BY <1>2 DEF RemoveProduct, Imported
<1>3. ASSUME NEW p \in Products, MapByHand(p) PROVE Typed'
  BY <1>3 DEF MapByHand, Catalogue
<1>4. CASE Tick
  <2>1. clock' \in Times /\ clock < clock' /\ clock \in Nat /\ clock' \in Nat
    BY <1>4, ImportAssumption DEF Tick, Times
  <2> QED  BY <1>4, <2>1 DEF Tick, Imported
<1> QED  BY <1>1, <1>2, <1>3, <1>4 DEF Aside

LEMMA RequestTyped ==
  ASSUME Typed, RequestInv, NEW u \in Users,
         \/ \E full \in BOOLEAN : RequestImport(u, full)
         \/ Ask(u) \/ EnqueueFails(u) \/ WebDies(u)
  PROVE  Typed'
<1> USE PagesType DEF Typed, Catalogue, Imported
<1>0. 1..MaxJobs \subseteq 0..MaxJobs /\ 0 \in 0..MaxJobs
  BY ImportAssumption
<1>1. ASSUME NEW full \in BOOLEAN, RequestImport(u, full) PROVE Typed'
  BY <1>0, <1>1 DEF RequestImport, Request
<1>2. CASE CreateJob(u)
  <2>1. NextJob \in Jobs
    BY <1>2, NextJobIsUnused DEF CreateJob, Unused
  <2>2. [NoRow EXCEPT !.status = "PENDING", !.full = request[u].full] \in Row
    BY DEF Row, Request, Active
  <2>3. row' \in [Jobs -> Row]
    BY <1>2, <2>2 DEF CreateJob
  <2>4. request' \in [Users -> Request]
    BY <1>0, <1>2, <2>1 DEF CreateJob, Request, Jobs
  <2> QED  BY <1>2, <2>3, <2>4 DEF CreateJob
<1>3. CASE CreateRefused(u)
  BY <1>3 DEF CreateRefused
<1>4. CASE Enqueue(u)
  <2>1. [NotQueued EXCEPT !.state = "waiting"] \in Queued
    BY DEF Queued
  <2> QED  BY <1>4, <2>1 DEF Enqueue
<1>5. CASE EnqueueFails(u)
  <2>1. queue' \in [Jobs -> Queued]
    BY <1>5 DEF EnqueueFails, Queued
  <2> QED  BY <1>5, <2>1, MishapType DEF EnqueueFails
<1>6. CASE WebDies(u)
  BY <1>6, MishapType DEF WebDies
<1> QED  BY <1>1, <1>2, <1>3, <1>4, <1>5, <1>6 DEF Ask

LEMMA FilteredListing ==
  ASSUME NEW after
  PROVE  Filtered(after) \in SUBSET Products
BY DEF Filtered

LEMMA FetchTyped ==
  ASSUME Typed, NEW j \in Jobs, FetchPage(j)
  PROVE  Typed'
<1> DEFINE seen == At(run[j].after, run[j].offset)
           page == [p \in Products |-> IF p \in seen THEN shop[p].changed ELSE 0]
           total == Cardinality(Filtered(run[j].after))
<1>1. run' = [run EXCEPT ![j].at = "storing", ![j].total = total, ![j].page = page]
  BY DEF FetchPage
<1>2. page \in [Products -> Times]
  BY PagesType DEF Typed
<1>3. total \in Nat
  BY FilteredListing, ListingIsFinite
<1>4. run' \in [Jobs -> Run]
  <2> HIDE DEF page, total
  <2>1. run[j] \in Run
    BY DEF Typed
  <2>2. [run[j] EXCEPT !.at = "storing", !.total = total, !.page = page] \in Run
    BY <1>2, <1>3, <2>1 DEF Run
  <2>3. run' = [run EXCEPT ![j] = [run[j] EXCEPT !.at = "storing", !.total = total, !.page = page]]
    BY <1>1
  <2> QED  BY <2>2, <2>3 DEF Typed
<1> QED  BY <1>4 DEF Typed, FetchPage, Catalogue, Imported

LEMMA StoreTyped ==
  ASSUME Typed, NEW j \in Jobs, StorePage(j)
  PROVE  Typed'
<1> DEFINE seen == OnPage(run[j].page)
           good == seen \ Refused
<1>0. run[j] \in Run /\ run[j].page \in [Products -> Times]
  BY DEF Typed, Run
<1>1. seen \in SUBSET Products /\ good \in SUBSET Products /\ seen \ good \in SUBSET Products
  BY DEF OnPage
<1>2. Cardinality(seen) \in Nat /\ Cardinality(good) \in Nat /\ Cardinality(seen \ good) \in Nat
  BY <1>1, ListingIsFinite
<1>3. run' \in [Jobs -> Run]
  <2> DEFINE imported == run[j].imported + Cardinality(good)
             errors == run[j].errors + Cardinality(seen \ good)
             processed == run[j].processed + Cardinality(seen)
  <2>1. run' = [run EXCEPT ![j] = [run[j] EXCEPT !.at = "counting", !.page = EmptyPage,
                  !.imported = imported, !.errors = errors, !.processed = processed]]
    BY DEF StorePage
  <2>2. imported \in Nat /\ errors \in Nat /\ processed \in Nat
    BY <1>0, <1>2 DEF Run
  <2> HIDE DEF imported, errors, processed
  <2>3. [run[j] EXCEPT !.at = "counting", !.page = EmptyPage, !.imported = imported,
                       !.errors = errors, !.processed = processed] \in Run
    BY <1>0, <2>2, PagesType DEF Run
  <2> QED  BY <2>1, <2>3 DEF Typed
<1>4. stored' \in [Products -> Times]
  <2>1. stored' = [p \in Products |-> IF p \in good THEN run[j].page[p] ELSE stored[p]]
    BY DEF StorePage
  <2> HIDE DEF good
  <2> QED  BY <1>0, <2>1 DEF Typed
<1> QED  BY <1>3, <1>4 DEF Typed, StorePage, Catalogue

LEMMA CheckpointTyped ==
  ASSUME Typed, NEW j \in Jobs, Checkpoint(j)
  PROVE  Typed'
<1> DEFINE offset == run[j].offset + PageLimit
<1>0. run[j] \in Run /\ row[j] \in Row /\ offset \in Nat
  BY ImportAssumption DEF Typed, Run
<1>1. row' \in [Jobs -> Row]
  <2>1. row' = [row EXCEPT ![j] = [row[j] EXCEPT !.offset = offset, !.processed = run[j].processed,
                                     !.imported = run[j].imported, !.errors = run[j].errors]]
    BY DEF Checkpoint
  <2> HIDE DEF offset
  <2>2. [row[j] EXCEPT !.offset = offset, !.processed = run[j].processed,
                       !.imported = run[j].imported, !.errors = run[j].errors] \in Row
    BY <1>0 DEF Run, Row
  <2> QED  BY <2>1, <2>2 DEF Typed
<1>2. run' \in [Jobs -> Run]
  <2>1. PICK at \in {"matching", "paging"} :
          run' = [run EXCEPT ![j] = [run[j] EXCEPT !.at = at, !.offset = offset]]
    BY DEF Checkpoint
  <2> HIDE DEF offset
  <2>2. [run[j] EXCEPT !.at = at, !.offset = offset] \in Run
    BY <1>0 DEF Run
  <2> QED  BY <2>1, <2>2 DEF Typed
<1> QED  BY <1>1, <1>2 DEF Typed, Checkpoint, Catalogue, Imported

LEMMA StartedTyped ==
  ASSUME Typed, NEW j \in Jobs, Started(j)
  PROVE  row' \in [Jobs -> Row]
<1> DEFINE started == IF row[j].started = 0 THEN clock ELSE row[j].started
<1>1. row[j] \in Row
  BY DEF Typed
<1>2. row' = [row EXCEPT ![j] = [row[j] EXCEPT !.status = "PROCESSING", !.stale = FALSE,
                                               !.started = started]]
  BY DEF Started
<1>3. started \in Times
  BY <1>1 DEF Typed, Row
<1> HIDE DEF started
<1>4. [row[j] EXCEPT !.status = "PROCESSING", !.stale = FALSE, !.started = started] \in Row
  BY <1>1, <1>3 DEF Row, Active
<1> QED  BY <1>2, <1>4 DEF Typed

\* A row that is started, in what it has.
LEMMA StartedRow ==
  ASSUME Typed, NEW j \in Jobs, Started(j)
  PROVE  /\ Vacant(j) /\ row[j].status \notin {"none", "COMPLETED"}
         /\ row'[j].status = "PROCESSING"
         /\ row'[j].started = IF row[j].started = 0 THEN clock ELSE row[j].started
         /\ row'[j].full = row[j].full /\ row'[j].offset = row[j].offset
         /\ row'[j].processed = row[j].processed /\ row'[j].errors = row[j].errors
         /\ \A i \in Jobs : i # j => row'[i] = row[i]
<1> DEFINE started == IF row[j].started = 0 THEN clock ELSE row[j].started
           new == [row[j] EXCEPT !.status = "PROCESSING", !.stale = FALSE, !.started = started]
<1>1. row[j] \in Row
  BY DEF Typed
<1>2. row' = [row EXCEPT ![j] = new]
  BY DEF Started
<1>3. row'[j] = new /\ \A i \in Jobs : i # j => row'[i] = row[i]
  <2> HIDE DEF new
  <2> QED  BY <1>2 DEF Typed
<1>4. /\ new.status = "PROCESSING" /\ new.started = started
      /\ new.full = row[j].full /\ new.offset = row[j].offset
      /\ new.processed = row[j].processed /\ new.errors = row[j].errors
  <2> HIDE DEF started
  <2> QED  BY <1>1 DEF Row
<1> HIDE DEF new
<1>5. Vacant(j) /\ row[j].status \notin {"none", "COMPLETED"}
  BY DEF Started
<1> QED  BY <1>3, <1>4, <1>5

LEMMA BeginTyped ==
  ASSUME Typed, NEW j \in Jobs, Begin(j)
  PROVE  Typed'
<1> DEFINE new == [NoRun EXCEPT !.at = "paging", !.offset = row[j].offset, !.errors = row[j].errors,
                     !.processed = row[j].processed, !.imported = row[j].imported,
                     !.after = UpdatedAfter(j)]
<1>0. row[j] \in Row /\ queue[j] \in Queued
  BY DEF Typed
<1>1. UpdatedAfter(j) \in Times
  BY ImportAssumption DEF UpdatedAfter, Typed, Times
<1>2. new \in Run
  BY <1>0, <1>1, PagesType DEF NoRun, Run, Row
<1>3. run' \in [Jobs -> Run]
  <2>1. run' = [run EXCEPT ![j] = new]
    BY DEF Begin
  <2> QED  BY <1>2, <2>1 DEF Typed
<1>4. row' \in [Jobs -> Row]
  BY StartedTyped DEF Begin
<1>5. queue' \in [Jobs -> Queued]
  BY <1>0 DEF Begin, Typed, Queued
<1> QED  BY <1>3, <1>4, <1>5 DEF Typed, Begin, Catalogue, Imported

LEMMA BeginFailsTyped ==
  ASSUME Typed, NEW j \in Jobs, BeginFails(j)
  PROVE  Typed'
<1>1. row' \in [Jobs -> Row]
  <2>1. CASE Started(j)
    BY <2>1, StartedTyped
  <2>2. CASE UNCHANGED row
    BY <2>2 DEF Typed
  <2> QED  BY <2>1, <2>2 DEF BeginFails
<1>2. queue' \in [Jobs -> Queued] /\ mishaps' \in 0..scene.mishaps
  BY RethrowType, MishapType DEF BeginFails
<1> QED  BY <1>1, <1>2 DEF Typed, BeginFails, Catalogue, Imported

\* What the worker has in hand changes in one respect at most.
LEMMA RunEdited ==
  ASSUME Typed, NEW j \in Jobs,
         NEW at \in {"idle", "paging", "storing", "counting", "matching", "mapping",
                     "closing", "leaving"},
         NEW left \in SUBSET Products
  PROVE  /\ [run[j] EXCEPT !.at = at] \in Run
         /\ [run[j] EXCEPT !.at = at, !.left = left] \in Run
         /\ [run[j] EXCEPT !.left = left] \in Run
<1>1. run[j] \in Run
  BY DEF Typed
<1> QED  BY <1>1 DEF Run

LEMMA MappingTyped ==
  ASSUME Typed, ClockInv, NEW j \in Jobs,
         \/ ReadUnmapped(j) \/ UpdateConnection(j)
         \/ (\E p \in Products : MapOne(j, p) \/ NotMapped(j, p))
  PROVE  Typed'
<1> USE DEF Catalogue, Imported
<1>1. CASE ReadUnmapped(j)
  <2> DEFINE left == {p \in Matching : stored[p] # 0 /\ mapping[p] = "nobody"}
  <2>1. left \in SUBSET Products
    BY ImportAssumption
  <2>2. run' = [run EXCEPT ![j] = [run[j] EXCEPT !.at = "mapping", !.left = left]]
    BY Zenon, <1>1 DEF ReadUnmapped
  <2> HIDE DEF left
  <2>3. [run[j] EXCEPT !.at = "mapping", !.left = left] \in Run
    BY Zenon, <2>1, RunEdited
  <2>4. run' \in [Jobs -> Run]
    BY <2>2, <2>3 DEF Typed
  <2> QED  BY <1>1, <2>4 DEF ReadUnmapped, Typed
<1>2. ASSUME NEW p \in Products, MapOne(j, p) PROVE Typed'
  <2>0. run[j] \in Run
    BY DEF Typed
  <2>1. run[j].left \ {p} \in SUBSET Products
    BY <2>0 DEF Run
  <2>2. run' = [run EXCEPT ![j] = [run[j] EXCEPT !.left = run[j].left \ {p}]]
    BY <1>2 DEF MapOne
  <2>3. mapping' \in [Products -> {"nobody", "import", "user"}]
    BY <1>2 DEF MapOne, Mapped, Typed
  <2>4. [run[j] EXCEPT !.left = run[j].left \ {p}] \in Run
    BY <2>0, <2>1 DEF Run
  <2>5. run' \in [Jobs -> Run]
    BY <2>2, <2>4 DEF Typed
  <2> QED  BY <1>2, <2>3, <2>5 DEF MapOne, Typed
<1>3. CASE UpdateConnection(j)
  <2>1. row[j].started \in 0..clock
    <3>1. row[j].started \in Nat /\ row[j].started <= clock /\ clock \in Nat
      BY SMTT(30) DEF Typed, Row, Times, ClockInv
    <3> QED  BY <3>1
  <2>2. run' \in [Jobs -> Run]
    BY Zenon, <1>3, RunEdited DEF UpdateConnection, Typed
  <2> QED  BY <1>3, <2>1, <2>2 DEF UpdateConnection, SyncedThrough, Typed
<1>4. ASSUME NEW p \in Products, NotMapped(j, p) PROVE Typed'
  <2> DEFINE left == run[j].left \ {p}
             missed == run[j].missed \cup {p}
  <2>0. run[j] \in Run
    BY DEF Typed
  <2>1. left \in SUBSET Products /\ missed \in SUBSET Products
    BY <2>0 DEF Run
  <2>2. run' = [run EXCEPT ![j] = [run[j] EXCEPT !.left = left, !.missed = missed]]
    BY <1>4 DEF NotMapped
  <2> HIDE DEF left, missed
  <2>3. [run[j] EXCEPT !.left = left, !.missed = missed] \in Run
    BY <2>0, <2>1 DEF Run
  <2>4. run' \in [Jobs -> Run]
    BY <2>2, <2>3 DEF Typed
  <2> QED  BY <1>4, <2>4, MishapType DEF NotMapped, Typed
<1> QED  BY <1>1, <1>2, <1>3, <1>4

LEMMA EndTyped ==
  ASSUME Typed, NEW j \in Jobs,
         \/ NothingToDo(j) \/ BeginRefused(j) \/ Complete(j) \/ Leave(j) \/ NothingStored(j)
         \/ PageFails(j) \/ PageRefused(j) \/ CatchFails(j) \/ LateFails(j)
         \/ WorkerDies(j) \/ GoStale(j)
  PROVE  Typed'
<1> USE DEF Catalogue, Imported
<1>1. CASE NothingToDo(j)
  BY <1>1, PagesType DEF NothingToDo, Typed
<1>2. CASE BeginRefused(j)
  BY <1>2, RethrowType DEF BeginRefused, Typed
<1>3. CASE Complete(j)
  <2>1. row' \in [Jobs -> Row]
    <3>1. row[j] \in Row
      BY DEF Typed
    <3>2. [row[j] EXCEPT !.status = "COMPLETED", !.offset = 0] \in Row
      BY <3>1 DEF Row
    <3>3. row' = [row EXCEPT ![j] = [row[j] EXCEPT !.status = "COMPLETED", !.offset = 0]]
      BY <1>3 DEF Complete
    <3> QED  BY <3>2, <3>3 DEF Typed
  <2>2. run' \in [Jobs -> Run]
    BY Zenon, <1>3, RunEdited DEF Complete, Typed
  <2> QED  BY <1>3, <2>1, <2>2 DEF Complete, Typed
<1>4. CASE Leave(j)
  BY <1>4, PagesType DEF Leave, Typed
<1>5. CASE NothingStored(j)
  BY <1>5, RetryType, GiveUpType DEF NothingStored, Typed
<1>6. CASE PageFails(j)
  BY <1>6, RetryType, GiveUpType, MishapType DEF PageFails, Typed
<1>7. CASE PageRefused(j)
  BY <1>7, GiveUpType, MishapType DEF PageRefused, Typed
<1>8. CASE LateFails(j) \/ CatchFails(j)
  BY <1>8, RetryType, MishapType DEF LateFails, CatchFails, Typed
<1>9. CASE WorkerDies(j)
  <2>0. queue[j] \in Queued
    BY DEF Typed
  <2>1. ASSUME queue[j].stalls < MaxStalls
        PROVE  [queue[j] EXCEPT !.state = "waiting", !.stalls = queue[j].stalls + 1] \in Queued
    <3>1. queue[j].stalls + 1 \in 0..MaxStalls
      BY <2>0, <2>1, ImportAssumption DEF Queued
    <3> QED  BY <2>0, <3>1 DEF Queued
  <2>2. queue' \in [Jobs -> Queued]
    <3>1. CASE queue[j].stalls < MaxStalls
      <4>1. queue' = [queue EXCEPT ![j] = [queue[j] EXCEPT !.state = "waiting",
                                                           !.stalls = queue[j].stalls + 1]]
        BY <1>9, <3>1, Zenon DEF WorkerDies
      <4> QED  BY <2>1, <3>1, <4>1 DEF Typed
    <3>2. CASE ~(queue[j].stalls < MaxStalls)
      <4>1. [NotQueued EXCEPT !.state = "lost"] \in Queued
        BY PagesType DEF Queued
      <4> QED  BY <1>9, <3>2, <4>1 DEF WorkerDies, Typed
    <3> QED  BY <3>1, <3>2
  <2>3. run' \in [Jobs -> Run]
    BY <1>9, PagesType DEF WorkerDies, Typed
  <2> QED  BY <1>9, <2>2, <2>3, MishapType DEF WorkerDies, Typed
<1>10. CASE GoStale(j)
  <2>1. [row[j] EXCEPT !.stale = TRUE] \in Row
    <3>1. row[j] \in Row
      BY DEF Typed
    <3> QED  BY <3>1 DEF Row
  <2>2. row' \in [Jobs -> Row]
    BY <1>10, <2>1 DEF GoStale, Typed
  <2> QED  BY <1>10, <2>2 DEF GoStale, Typed
<1> QED  BY <1>1, <1>2, <1>3, <1>4, <1>5, <1>6, <1>7, <1>8, <1>9, <1>10

LEMMA TypedStep ==
  ASSUME Typed, Worker, Next \/ UNCHANGED vars
  PROVE  Typed'
<1>1. CASE Aside
  BY <1>1, ShopTyped
<1>2. ASSUME NEW u \in Users,
             \/ \E full \in BOOLEAN : RequestImport(u, full)
             \/ Ask(u) \/ EnqueueFails(u) \/ WebDies(u)
      PROVE  Typed'
  BY <1>2, RequestTyped DEF Worker
<1>3. ASSUME NEW j \in Jobs,
             \/ Work(j) \/ BeginFails(j) \/ PageFails(j) \/ PageRefused(j) \/ CatchFails(j)
             \/ (\E p \in Products : NotMapped(j, p))
             \/ LateFails(j) \/ WorkerDies(j) \/ GoStale(j)
      PROVE  Typed'
  BY <1>3, BeginTyped, BeginFailsTyped, FetchTyped, StoreTyped, CheckpointTyped, MappingTyped, EndTyped
     DEF Work, Worker
<1>4. CASE UNCHANGED vars
  BY <1>4 DEF vars, Typed
<1> QED  BY <1>1, <1>2, <1>3, <1>4 DEF Next, Aside

-----------------------------------------------------------------------------
(* Pages are short.                                                        *)

\* A fetched page holds what is listed at its offset, as it stands.
LEMMA FetchedPage ==
  ASSUME Typed, ClockInv, NEW j \in Jobs, FetchPage(j)
  PROVE  LET S == Filtered(run[j].after) IN
         /\ OnPage(run'[j].page) = PageOf(S, run[j].offset)
         /\ \A p \in PageOf(S, run[j].offset) : run'[j].page[p] = shop[p].changed
         /\ run'[j].total = Cardinality(S)
<1> DEFINE seen == At(run[j].after, run[j].offset)
           S == Filtered(run[j].after)
           page == [p \in Products |-> IF p \in seen THEN shop[p].changed ELSE 0]
<1>1. run'[j].page = page /\ run'[j].total = Cardinality(S)
  <2>1. run' = [run EXCEPT ![j].at = "storing", ![j].total = Cardinality(S), ![j].page = page]
    BY DEF FetchPage
  <2>2. run[j] \in Run
    BY DEF Typed
  <2> HIDE DEF page, S
  <2> QED  BY <2>1, <2>2 DEF Typed, Run
<1>2. seen = PageOf(S, run[j].offset)
  BY DEF At, PageOf, RankIn
<1>3. \A p \in seen : p \in Products /\ shop[p].changed # 0
  BY DEF At, Filtered, ClockInv
<1>4. OnPage(page) = seen /\ \A p \in seen : page[p] = shop[p].changed
  <2> HIDE DEF seen
  <2> QED  BY <1>3 DEF OnPage
<1> QED  BY <1>1, <1>2, <1>4

\* No other step fills a page.
LEMMA PagesKept ==
  ASSUME Typed, Next \/ UNCHANGED vars, NEW i \in Jobs,
         run'[i].page # run[i].page, run'[i].page # EmptyPage
  PROVE  FetchPage(i)
<1> USE DEF Typed
<1>0. run[i] \in Run /\ NoRun.page = EmptyPage
  BY DEF NoRun
<1>1. CASE Aside \/ UNCHANGED vars
  BY <1>1 DEF Aside, ChangeProduct, RemoveProduct, MapByHand, Tick, vars
<1>2. ASSUME NEW u \in Users,
             \/ \E full \in BOOLEAN : RequestImport(u, full)
             \/ Ask(u) \/ EnqueueFails(u) \/ WebDies(u)
      PROVE  FALSE
  BY <1>2 DEF RequestImport, Ask, CreateJob, CreateRefused, Enqueue, EnqueueFails, WebDies
<1>3. ASSUME NEW j \in Jobs, Retry(j) \/ GiveUp(j)
      PROVE  FALSE
  BY <1>0, <1>3 DEF Retry, GiveUp, Run
<1>4. ASSUME NEW j \in Jobs,
             \/ NothingToDo(j) \/ BeginRefused(j) \/ BeginFails(j) \/ Begin(j) \/ Leave(j)
             \/ GoStale(j) \/ WorkerDies(j)
      PROVE  FALSE
  <2>1. CASE NothingToDo(j) \/ BeginRefused(j) \/ BeginFails(j) \/ GoStale(j)
    BY <2>1 DEF NothingToDo, BeginRefused, BeginFails, GoStale
  <2>2. CASE Leave(j) \/ WorkerDies(j)
    <3>1. run' = [run EXCEPT ![j] = NoRun]
      BY <2>2 DEF Leave, WorkerDies
    <3> QED  BY <1>0, <3>1
  <2>3. CASE Begin(j)
    <3>1. PICK new : run' = [run EXCEPT ![j] = new] /\ new.page = EmptyPage
      BY <2>3 DEF Begin, NoRun
    <3> QED  BY <3>1
  <2> QED  BY <1>4, <2>1, <2>2, <2>3
<1>5. ASSUME NEW j \in Jobs, FetchPage(j)
      PROVE  FetchPage(i)
  <2>1. i # j => run'[i] = run[i]
    BY <1>5 DEF FetchPage
  <2> QED  BY <1>5, <2>1
<1>6. ASSUME NEW j \in Jobs,
             \/ StorePage(j) \/ Checkpoint(j) \/ ReadUnmapped(j) \/ UpdateConnection(j)
             \/ Complete(j) \/ \E p \in Products : MapOne(j, p) \/ NotMapped(j, p)
      PROVE  FALSE
  <2>1. CASE StorePage(j)
    BY <1>0, <2>1 DEF StorePage, Run
  <2>2. CASE Checkpoint(j)
    BY <1>0, <2>2 DEF Checkpoint, Run
  <2>3. CASE ReadUnmapped(j)
    BY <1>0, <2>3 DEF ReadUnmapped, Run
  <2>5. CASE UpdateConnection(j) \/ Complete(j)
    BY <1>0, <2>5 DEF UpdateConnection, Complete, Run
  <2>4. ASSUME NEW p \in Products, MapOne(j, p) PROVE FALSE
    BY <1>0, <2>4 DEF MapOne, Run
  <2>6. ASSUME NEW p \in Products, NotMapped(j, p) PROVE FALSE
    <3> DEFINE left == run[j].left \ {p}
               missed == run[j].missed \cup {p}
    <3>1. run' = [run EXCEPT ![j] = [run[j] EXCEPT !.left = left, !.missed = missed]]
      BY <2>6 DEF NotMapped
    <3> HIDE DEF left, missed
    <3>2. run'[i].page = run[i].page
      BY <1>0, <3>1 DEF Run
    <3> QED  BY <3>2
  <2> QED  BY <1>6, <2>1, <2>2, <2>3, <2>4, <2>5, <2>6
<1>7. ASSUME NEW j \in Jobs,
             NothingStored(j) \/ PageFails(j) \/ PageRefused(j) \/ CatchFails(j) \/ LateFails(j)
      PROVE  FALSE
  BY <1>3, <1>7 DEF NothingStored, PageFails, PageRefused, CatchFails, LateFails
<1> QED  BY <1>1, <1>2, <1>4, <1>5, <1>6, <1>7 DEF Next, Aside, Work

LEMMA PagesStep ==
  ASSUME Typed, ClockInv, PagesShort, Next \/ UNCHANGED vars
  PROVE  PagesShort'
<1> SUFFICES ASSUME NEW i \in Jobs PROVE Cardinality(OnPage(run'[i].page)) <= PageLimit
  BY DEF PagesShort, OnPage
<1>1. CASE run'[i].page = run[i].page
  BY <1>1 DEF PagesShort
<1>2. CASE run'[i].page = EmptyPage
  BY <1>2, EmptyIsShort
<1>3. CASE FetchPage(i)
  <2>1. run[i].offset \in Nat
    BY DEF Typed, Run
  <2> QED  BY <1>3, <2>1, FetchedPage, FilteredListing, PageLength
<1> QED  BY <1>1, <1>2, <1>3, PagesKept

-----------------------------------------------------------------------------
(* Rows, queue and worker agree.                                           *)

Only(j) ==
  /\ \A i \in Jobs : i # j => row'[i] = row[i] /\ queue'[i] = queue[i] /\ run'[i] = run[i]
  /\ UNCHANGED <<request, clock, shop>>

RowIsFresh(r) ==
  IF r.status \in {"none", "PENDING"}
  THEN r.offset = 0 /\ r.processed = 0 /\ r.errors = 0 /\ r.started = 0
  ELSE r.started # 0

AtHand(at, state, status) ==
  /\ at = "idle" <=> state # "active"
  /\ at \in InProgress => status = "PROCESSING"
  /\ at = "leaving" => status \in {"COMPLETED", "PARTIAL", "FAILED"}

\* A step on one job that leaves its row, queue entry and run in agreement.
LEMMA WorkerLocal ==
  ASSUME Typed, Worker, NEW j \in Jobs, Only(j),
         row'[j].status \in Active => row[j].status \in Active \/ Vacant(j),
         AtHand(run'[j].at, queue'[j].state, row'[j].status),
         RowIsFresh(row'[j]), row'[j].started <= clock,
         queue[j].state # "none"
           \/ (queue'[j].state = queue[j].state /\ row'[j].status = row[j].status)
  PROVE  Worker'
<1> USE DEF Only
<1>1. OneActive'
  BY DEF Worker, OneActive, Vacant
<1>2. RunInv'
  BY DEF Worker, RunInv, AtHand
<1>3. RequestInv'
  BY DEF Worker, RequestInv
<1>4. FreshInv'
  BY DEF Worker, FreshInv, RowIsFresh
<1>5. ClockInv'
  BY DEF Worker, ClockInv
<1> QED  BY <1>1, <1>2, <1>3, <1>4, <1>5 DEF Worker

\* What the invariant says of one job.
LEMMA JobFacts ==
  ASSUME Typed, Worker, NEW j \in Jobs
  PROVE  /\ row[j] \in Row /\ queue[j] \in Queued /\ run[j] \in Run
         /\ AtHand(run[j].at, queue[j].state, row[j].status)
         /\ RowIsFresh(row[j]) /\ row[j].started <= clock
         /\ clock \in Nat /\ clock # 0 /\ row[j].started \in Nat
<1>1. row[j] \in Row /\ queue[j] \in Queued /\ run[j] \in Run
  BY DEF Typed
<1>2. AtHand(run[j].at, queue[j].state, row[j].status)
  BY DEF AtHand, Worker, RunInv
<1>3. RowIsFresh(row[j]) /\ row[j].started <= clock /\ clock # 0
  BY DEF RowIsFresh, Worker, FreshInv, ClockInv
<1>4. clock \in Nat /\ row[j].started \in Nat
  BY <1>1 DEF Row, Typed, Times
<1> QED  BY <1>1, <1>2, <1>3, <1>4

LEMMA RethrownState ==
  ASSUME Typed, NEW j \in Jobs, Rethrow(j)
  PROVE  queue'[j].state \in {"waiting", "none"}
<1>1. queue[j] \in Queued
  BY DEF Typed
<1>2. CASE queue[j].tries + 1 < MaxAttempts
  BY <1>1, <1>2 DEF Rethrow, Queued, Typed
<1>3. CASE ~(queue[j].tries + 1 < MaxAttempts)
  BY <1>3 DEF Rethrow, NotQueued, Typed
<1> QED  BY <1>2, <1>3

LEMMA RetryWorker ==
  ASSUME Typed, Worker, NEW j \in Jobs, Retry(j), run[j].at # "idle",
         UNCHANGED <<request, clock, shop>>
  PROVE  Worker'
<1>0. Only(j) /\ row'[j] = row[j]
  BY DEF Retry, Rethrow, Only, Typed
<1>1. run'[j].at = "idle"
  BY DEF Retry, NoRun, Typed
<1>2. queue'[j].state # "active"
  BY RethrownState DEF Retry
<1>3. AtHand(run'[j].at, queue'[j].state, row'[j].status)
  BY <1>1, <1>2 DEF AtHand, InProgress
<1>4. queue[j].state # "none"
  BY JobFacts DEF AtHand
<1> QED  BY <1>0, <1>3, <1>4, JobFacts, WorkerLocal

LEMMA GiveUpWorker ==
  ASSUME Typed, Worker, NEW j \in Jobs, GiveUp(j), run[j].at \in InProgress,
         UNCHANGED <<request, clock, shop>>
  PROVE  Worker'
<1>0. Only(j) /\ queue'[j] = queue[j]
  BY DEF GiveUp, Only, Typed
<1>1. run'[j].at = "leaving" /\ run[j].at # "idle"
  BY JobFacts DEF GiveUp, Typed, Run, InProgress
<1>2. /\ row'[j].status \in {"PARTIAL", "FAILED"} /\ row'[j].started = row[j].started
  BY JobFacts DEF GiveUp, Typed, Row
<1>3. queue[j].state = "active" /\ row[j].status = "PROCESSING"
  BY <1>1, JobFacts DEF AtHand
<1>4. AtHand(run'[j].at, queue'[j].state, row'[j].status)
  BY <1>0, <1>1, <1>2, <1>3 DEF AtHand, InProgress
<1>5. RowIsFresh(row'[j])
  BY <1>2, <1>3, JobFacts DEF RowIsFresh
<1> QED  BY <1>0, <1>2, <1>3, <1>4, <1>5, JobFacts, WorkerLocal DEF Active

\* The worker takes a job and gets on with it.
LEMMA BeginWorker ==
  ASSUME Typed, Worker, NEW j \in Jobs, Begin(j) \/ BeginFails(j)
  PROVE  Worker'
<1>0. /\ \A i \in Jobs : i # j => run'[i] = run[i] /\ queue'[i] = queue[i]
      /\ UNCHANGED <<request, clock, shop>> /\ queue[j].state = "waiting"
  BY DEF Begin, BeginFails, Rethrow, Typed, Catalogue
<1>1. run[j].at = "idle"
  BY <1>0, JobFacts DEF AtHand
<1>2. CASE Started(j)
  <2>1. /\ Vacant(j) /\ row'[j].status = "PROCESSING"
        /\ row'[j].started # 0 /\ row'[j].started <= clock
        /\ \A i \in Jobs : i # j => row'[i] = row[i]
    BY <1>2, StartedRow, JobFacts
  <2>2. Only(j) /\ RowIsFresh(row'[j])
    BY <1>0, <2>1 DEF Only, RowIsFresh
  <2>3. AtHand(run'[j].at, queue'[j].state, row'[j].status)
    <3>1. CASE Begin(j)
      <4>1. run'[j].at = "paging" /\ queue'[j].state = "active"
        BY <3>1, JobFacts DEF Begin, NoRun, Typed, Queued
      <4> QED  BY <2>1, <4>1 DEF AtHand, InProgress
    <3>2. CASE BeginFails(j)
      <4>1. run'[j].at = "idle" /\ queue'[j].state # "active"
        BY <1>1, <3>2, RethrownState DEF BeginFails
      <4> QED  BY <4>1 DEF AtHand, InProgress
    <3> QED  BY <3>1, <3>2
  <2> QED  BY <1>0, <2>1, <2>2, <2>3, WorkerLocal
<1>3. CASE UNCHANGED row /\ BeginFails(j)
  <2>1. run'[j].at = "idle" /\ queue'[j].state # "active" /\ Only(j)
    BY <1>0, <1>1, <1>3, RethrownState DEF BeginFails, Only
  <2>2. AtHand(run'[j].at, queue'[j].state, row'[j].status)
    BY <2>1 DEF AtHand, InProgress
  <2> QED  BY <1>0, <1>3, <2>1, <2>2, JobFacts, WorkerLocal
<1> QED  BY <1>2, <1>3 DEF Begin, BeginFails

LEMMA PagingWorker ==
  ASSUME Typed, Worker, NEW j \in Jobs,
         \/ FetchPage(j) \/ StorePage(j) \/ Checkpoint(j) \/ ReadUnmapped(j)
         \/ UpdateConnection(j) \/ \E p \in Products : MapOne(j, p) \/ NotMapped(j, p)
  PROVE  Worker'
<1> USE JobFacts
<1>0. Only(j) /\ queue' = queue
  <2>1. CASE FetchPage(j) \/ StorePage(j)
    BY <2>1 DEF FetchPage, StorePage, Only, Catalogue, Typed
  <2>2. CASE Checkpoint(j)
    BY <2>2 DEF Checkpoint, Only, Catalogue, Typed
  <2>3. CASE ReadUnmapped(j) \/ UpdateConnection(j)
    BY <2>3 DEF ReadUnmapped, UpdateConnection, Only, Catalogue, Typed
  <2>4. ASSUME NEW p \in Products, MapOne(j, p) \/ NotMapped(j, p) PROVE Only(j) /\ queue' = queue
    BY <2>4 DEF MapOne, NotMapped, Only, Catalogue, Typed
  <2> QED  BY <2>1, <2>2, <2>3, <2>4
<1>1. run[j].at \in InProgress /\ run[j].at # "idle"
  BY DEF FetchPage, StorePage, Checkpoint, ReadUnmapped, UpdateConnection, MapOne, NotMapped,
         InProgress
<1>2. run'[j].at \in InProgress /\ run'[j].at # "idle"
  <2>1. CASE FetchPage(j)
    BY <2>1 DEF FetchPage, Typed, Run, InProgress
  <2>2. CASE StorePage(j)
    BY <2>2 DEF StorePage, Typed, Run, InProgress
  <2>3. CASE Checkpoint(j)
    BY <2>3 DEF Checkpoint, Typed, Run, InProgress
  <2>4. CASE ReadUnmapped(j)
    BY <2>4 DEF ReadUnmapped, Typed, Run, InProgress
  <2>5. CASE UpdateConnection(j)
    BY <2>5 DEF UpdateConnection, Typed, Run, InProgress
  <2>6. ASSUME NEW p \in Products, MapOne(j, p) \/ NotMapped(j, p)
        PROVE  run'[j].at \in InProgress /\ run'[j].at # "idle"
    BY <2>6 DEF MapOne, NotMapped, Typed, Run, InProgress
  <2> QED  BY <2>1, <2>2, <2>3, <2>4, <2>5, <2>6
<1>3. queue[j].state = "active" /\ row[j].status = "PROCESSING" /\ row[j].started # 0
  BY <1>1 DEF AtHand, RowIsFresh
<1>4. row'[j].status = "PROCESSING" /\ row'[j].started = row[j].started
  <2>1. CASE Checkpoint(j)
    BY <1>3, <2>1 DEF Checkpoint, Typed, Row
  <2>2. CASE ~Checkpoint(j)
    BY <1>3, <2>2 DEF FetchPage, StorePage, ReadUnmapped, UpdateConnection, MapOne,
           NotMapped
  <2> QED  BY <2>1, <2>2
<1>5. AtHand(run'[j].at, queue'[j].state, row'[j].status)
  BY <1>0, <1>2, <1>3, <1>4 DEF AtHand, InProgress
<1>6. RowIsFresh(row'[j]) /\ row'[j].started <= clock
  BY <1>3, <1>4 DEF RowIsFresh
<1> QED  BY <1>0, <1>3, <1>4, <1>5, <1>6, WorkerLocal DEF Active

LEMMA EndWorker ==
  ASSUME Typed, Worker, NEW j \in Jobs,
         \/ NothingToDo(j) \/ BeginRefused(j) \/ Complete(j) \/ Leave(j)
         \/ WorkerDies(j) \/ GoStale(j)
  PROVE  Worker'
<1> USE JobFacts
<1>0. Only(j)
  <2>1. CASE NothingToDo(j) \/ BeginRefused(j)
    BY <2>1 DEF NothingToDo, BeginRefused, Rethrow, Only, Catalogue, Typed
  <2>2. CASE Complete(j) \/ Leave(j)
    BY <2>2 DEF Complete, Leave, Only, Catalogue, Typed
  <2>3. CASE WorkerDies(j) \/ GoStale(j)
    BY <2>3 DEF WorkerDies, GoStale, Only, Catalogue, Typed
  <2> QED  BY <2>1, <2>2, <2>3
<1>1. CASE NothingToDo(j) \/ BeginRefused(j)
  <2>1. run'[j] = run[j] /\ row'[j] = row[j] /\ queue[j].state = "waiting"
    BY <1>1 DEF NothingToDo, BeginRefused
  <2>2. queue'[j].state \in {"waiting", "none"}
    <3>1. CASE NothingToDo(j)
      BY <3>1 DEF NothingToDo, NotQueued, Typed
    <3>2. CASE BeginRefused(j)
      BY <3>2, RethrownState DEF BeginRefused
    <3> QED  BY <1>1, <3>1, <3>2
  <2>3. AtHand(run'[j].at, queue'[j].state, row'[j].status)
    BY <2>1, <2>2 DEF AtHand
  <2> QED  BY <1>0, <2>1, <2>3, WorkerLocal
<1>2. CASE Complete(j)
  <2>1. run[j].at = "closing" /\ run'[j].at = "leaving" /\ queue'[j] = queue[j]
    BY <1>2 DEF Complete, Typed, Run
  <2>2. row'[j].status = "COMPLETED" /\ row'[j].started = row[j].started
    BY <1>2 DEF Complete, Typed, Row
  <2>3. queue[j].state = "active" /\ row[j].started # 0
    BY <2>1 DEF AtHand, InProgress, RowIsFresh
  <2>4. AtHand(run'[j].at, queue'[j].state, row'[j].status) /\ RowIsFresh(row'[j])
    BY <2>1, <2>2, <2>3 DEF AtHand, InProgress, RowIsFresh
  <2> QED  BY <1>0, <2>2, <2>3, <2>4, WorkerLocal DEF Active
<1>3. CASE Leave(j) \/ WorkerDies(j)
  <2>1. run[j].at # "idle" /\ run'[j].at = "idle" /\ row'[j] = row[j]
    BY <1>3 DEF Leave, WorkerDies, NoRun, Typed
  <2>2. queue'[j].state \in {"waiting", "none", "lost"}
    <3>1. CASE Leave(j)
      BY <3>1 DEF Leave, NotQueued, Typed
    <3>2. CASE WorkerDies(j) /\ queue[j].stalls < MaxStalls
      BY <3>2 DEF WorkerDies, Queued, Typed
    <3>3. CASE WorkerDies(j) /\ ~(queue[j].stalls < MaxStalls)
      BY <3>3 DEF WorkerDies, NotQueued, Typed
    <3> QED  BY <1>3, <3>1, <3>2, <3>3
  <2>3. AtHand(run'[j].at, queue'[j].state, row'[j].status) /\ queue[j].state # "none"
    BY <2>1, <2>2 DEF AtHand, InProgress
  <2> QED  BY <1>0, <2>1, <2>3, WorkerLocal
<1>4. CASE GoStale(j)
  <2>1. /\ run'[j] = run[j] /\ queue'[j] = queue[j]
        /\ row'[j].status = row[j].status /\ row'[j].started = row[j].started
        /\ row'[j].offset = row[j].offset /\ row'[j].processed = row[j].processed
        /\ row'[j].errors = row[j].errors
    BY <1>4 DEF GoStale, Typed, Row
  <2>2. RowIsFresh(row'[j])
    BY <2>1 DEF RowIsFresh
  <2> QED  BY <1>0, <2>1, <2>2, WorkerLocal
<1> QED  BY <1>1, <1>2, <1>3, <1>4

LEMMA RequestWorker ==
  ASSUME Typed, Worker, NEW u \in Users,
         \/ \E full \in BOOLEAN : RequestImport(u, full)
         \/ Ask(u) \/ EnqueueFails(u) \/ WebDies(u)
  PROVE  Worker'
<1> USE DEF Catalogue, Imported
<1>0. \A v \in Users : request[v] \in Request
  BY DEF Typed
<1>1. ASSUME UNCHANGED <<row, queue, run, clock, shop>>,
             \A v \in Users : request'[v].at = "created" => request'[v] = request[v]
      PROVE  Worker'
  BY <1>1 DEF Worker, OneActive, RunInv, RequestInv, FreshInv, ClockInv
<1>2. ASSUME NEW full \in BOOLEAN, RequestImport(u, full) PROVE Worker'
  BY <1>1, <1>2 DEF RequestImport, Typed
<1>3. CASE CreateRefused(u) \/ WebDies(u)
  BY <1>1, <1>3 DEF CreateRefused, WebDies, NoRequest, Typed
<1>4. CASE CreateJob(u)
  <2> DEFINE k == NextJob
             new == [NoRow EXCEPT !.status = "PENDING", !.full = request[u].full]
  <2>1. k \in Jobs /\ row[k].status = "none" /\ queue[k].state = "none" /\ Vacant(k)
    BY <1>4, NextJobIsUnused DEF CreateJob, Unused
  <2>2. new.status = "PENDING" /\ RowIsFresh(new) /\ new.started = 0
    BY DEF NoRow, RowIsFresh
  <2>3. /\ row' = [row EXCEPT ![k] = new]
        /\ request' = [request EXCEPT ![u] = [request[u] EXCEPT !.at = "created", !.job = k]]
        /\ UNCHANGED <<queue, run, clock, shop>>
    BY <1>4 DEF CreateJob
  <2> HIDE DEF k, new
  <2>4. /\ row'[k] = new /\ \A i \in Jobs : i # k => row'[i] = row[i]
        /\ request'[u].at = "created" /\ request'[u].job = k
        /\ \A v \in Users : v # u => request'[v] = request[v]
    BY <1>0, <2>1, <2>3 DEF Typed, Request
  <2>5. \A v \in Users : request[v].at # "created"
    BY <2>1 DEF Vacant, Worker, RequestInv, Active
  <2>6. OneActive'
    BY <2>1, <2>4 DEF Worker, OneActive, Vacant
  <2>7. RunInv'
    <3>1. run[k].at = "idle"
      BY <2>1, JobFacts DEF AtHand
    <3> QED  BY <2>2, <2>3, <2>4, <3>1 DEF Worker, RunInv, InProgress
  <2>8. RequestInv'
    BY <2>1, <2>2, <2>3, <2>4, <2>5 DEF RequestInv
  <2>9. FreshInv'
    BY <2>2, <2>4 DEF Worker, FreshInv, RowIsFresh
  <2>10. ClockInv'
    <3>1. new.started <= clock
      BY <2>2 DEF Typed, Times
    <3> QED  BY <2>3, <2>4, <3>1 DEF Worker, ClockInv
  <2> QED  BY <2>6, <2>7, <2>8, <2>9, <2>10 DEF Worker
<1>5. CASE Enqueue(u) \/ EnqueueFails(u)
  <2> DEFINE k == request[u].job
  <2>1. request[u].at = "created" /\ k \in Jobs /\ row[k].status = "PENDING" /\ queue[k].state = "none"
    BY <1>5 DEF Enqueue, EnqueueFails, Worker, RequestInv
  <2>2. /\ request' = [request EXCEPT ![u] = NoRequest]
        /\ UNCHANGED <<run, clock, shop>>
    BY <1>5 DEF Enqueue, EnqueueFails
  <2>3. \A i \in Jobs : i # k => row'[i] = row[i] /\ queue'[i] = queue[i]
    BY <1>5 DEF Enqueue, EnqueueFails, Typed
  <2>4. queue'[k].state \in {"waiting", "none"}
    <3>1. CASE Enqueue(u)
      BY <2>1, <3>1 DEF Enqueue, NotQueued, Typed
    <3>2. CASE EnqueueFails(u)
      <4>1. queue[k] \in Queued
        BY <2>1 DEF Typed
      <4> QED  BY <2>1, <3>2, <4>1 DEF EnqueueFails, Queued, Typed
    <3> QED  BY <1>5, <3>1, <3>2
  <2>5. row'[k] = row[k] \/ row'[k] = NoRow
    BY <1>5, <2>1 DEF Enqueue, EnqueueFails, Typed
  <2>6. NoRow.status = "none" /\ RowIsFresh(NoRow) /\ NoRow.started = 0
    BY DEF NoRow, RowIsFresh
  <2> HIDE DEF k
  <2>7. \A v \in Users : request'[v].at # "created"
    BY <1>0, <2>1, <2>2 DEF Worker, RequestInv, NoRequest, Typed
  <2>8. OneActive'
    BY <2>3, <2>5, <2>6 DEF Worker, OneActive, Active
  <2>9. RunInv'
    <3>1. run[k].at = "idle"
      BY <2>1, JobFacts DEF AtHand
    <3> QED  BY <2>2, <2>3, <2>4, <2>5, <3>1 DEF Worker, RunInv, InProgress
  <2>10. RequestInv'
    BY <2>7 DEF RequestInv
  <2>11. FreshInv'
    BY <2>3, <2>5, <2>6 DEF Worker, FreshInv, RowIsFresh
  <2>12. ClockInv'
    <3>1. 0 <= clock
      BY DEF Typed, Times
    <3> QED  BY <2>2, <2>3, <2>5, <2>6, <3>1 DEF Worker, ClockInv
  <2> QED  BY <2>8, <2>9, <2>10, <2>11, <2>12 DEF Worker
<1> QED  BY <1>2, <1>3, <1>4, <1>5 DEF Ask

LEMMA ShopWorker ==
  ASSUME Typed, Worker, Aside
  PROVE  Worker'
<1>1. UNCHANGED <<row, queue, run, request>>
  BY DEF Aside, ChangeProduct, RemoveProduct, MapByHand, Tick, Imported, Catalogue
<1>2. clock \in Nat /\ clock' \in Nat /\ clock <= clock' /\ clock # 0
  BY DEF Aside, ChangeProduct, RemoveProduct, MapByHand, Tick, Imported, Catalogue,
         Typed, Times, Worker, ClockInv
<1>3. \A p \in Products : shop'[p].changed = shop[p].changed \/ shop'[p].changed = clock
  <2>1. \A p \in Products : shop[p] \in [listed : BOOLEAN, changed : Times]
    BY DEF Typed
  <2>2. ASSUME NEW q \in Products, ChangeProduct(q) \/ RemoveProduct(q)
        PROVE  \A p \in Products : shop'[p].changed = shop[p].changed \/ shop'[p].changed = clock
    BY <2>1, <2>2 DEF ChangeProduct, RemoveProduct, Typed
  <2>3. CASE Tick \/ \E q \in Products : MapByHand(q)
    BY <2>3 DEF Tick, MapByHand, Catalogue
  <2> QED  BY <2>2, <2>3 DEF Aside
<1>4. \A p \in Products : shop[p].changed \in Nat
  BY DEF Typed, Times
<1>5. \A j \in Jobs : row[j].started \in Nat
  BY DEF Typed, Row, Times
<1>6. ClockInv'
  BY <1>1, <1>2, <1>3, <1>4, <1>5 DEF Worker, ClockInv
<1> QED  BY <1>1, <1>6 DEF Worker, OneActive, RunInv, RequestInv, FreshInv

LEMMA WorkerStep ==
  ASSUME Typed, Worker, Next \/ UNCHANGED vars
  PROVE  Worker'
<1>1. CASE Aside
  BY <1>1, ShopWorker
<1>2. CASE UNCHANGED vars
  BY <1>2 DEF vars, Worker, OneActive, RunInv, RequestInv, FreshInv, ClockInv
<1>3. ASSUME NEW u \in Users,
             \/ \E full \in BOOLEAN : RequestImport(u, full)
             \/ Ask(u) \/ EnqueueFails(u) \/ WebDies(u)
      PROVE  Worker'
  BY <1>3, RequestWorker
<1>4. ASSUME NEW j \in Jobs,
             NothingStored(j) \/ PageFails(j) \/ PageRefused(j) \/ CatchFails(j) \/ LateFails(j)
      PROVE  Worker'
  <2>1. /\ UNCHANGED <<request, clock, shop>>
        /\ Retry(j) \/ GiveUp(j)
        /\ run[j].at \in InProgress /\ run[j].at # "idle"
    BY <1>4 DEF NothingStored, PageFails, PageRefused, CatchFails, LateFails, Catalogue,
           InProgress
  <2> QED  BY <2>1, RetryWorker, GiveUpWorker
<1>5. ASSUME NEW j \in Jobs,
             \/ Work(j) \/ BeginFails(j) \/ (\E p \in Products : NotMapped(j, p))
             \/ WorkerDies(j) \/ GoStale(j),
             ~NothingStored(j)
      PROVE  Worker'
  BY <1>5, BeginWorker, PagingWorker, EndWorker DEF Work
<1> QED  BY <1>1, <1>2, <1>3, <1>4, <1>5 DEF Next, Aside, Work

LEMMA ImportInvStep == ImportInv /\ [Next]_vars => ImportInv'
BY TypedStep, PagesStep, WorkerStep DEF ImportInv, Worker

\* At most one import of a store is active, whoever asks for one at the same
\* moment (marketplace-import-job.service.ts:94); its pages are never longer
\* than asked, and the queue gives its job no attempt too many.
THEOREM ImportTypeCorrect == Spec => []TypeOK
<1>1. Init => ImportInv
  BY InitInv
<1>2. ImportInv /\ [Next]_vars => ImportInv'
  BY ImportInvStep
<1>3. ImportInv => TypeOK
  <2> SUFFICES ASSUME ImportInv PROVE TypeOK
    OBVIOUS
  <2> DEFINE active == {j \in Jobs : row[j].status \in Active}
  <2>1. Cardinality(active) <= 1
    <3>1. CASE active = {}
      BY <3>1, FS_EmptySet
    <3>2. CASE active # {}
      <4>1. PICK j \in active : TRUE
        BY <3>2
      <4>2. active = {j}
        BY <4>1 DEF ImportInv, Worker, OneActive
      <4> QED  BY <4>2, FS_Singleton
    <3> QED  BY <3>1, <3>2
  <2> QED  BY <2>1 DEF ImportInv, Typed, PagesShort, TypeOK
<1> QED  BY <1>1, <1>2, <1>3, PTL DEF Spec

-----------------------------------------------------------------------------
(* The watermark.  Products disappear between two imports only, and no      *)
(* import goes on that was given up: one whose worker dies before the queue *)
(* hears of it does, at an offset of a catalogue that may have shrunk since.*)

NoneResumed ==
  \A j \in Jobs : queue[j].state = "waiting" => row[j].status \notin {"PARTIAL", "FAILED"}

Steady == ~Happens("shrink") /\ NoneResumed

\* The parts of the invariant, of a shop s, what is stored of it, a watermark
\* w, a row r and a run x of it; counts says that the provider counts.
Listing(s, after) == {p \in Products : s[p].listed /\ s[p].changed >= after}

After(r, w) == IF r.full \/ w <= Overlap THEN 0 ELSE w - Overlap

\* A product whose change the next imports would never look at if the
\* watermark moved to the start of this one.
Overdue(s, st, r, p) ==
  s[p].listed /\ st[p] # s[p].changed /\ s[p].changed + Overlap < r.started

\* A job that goes on from its row finds what is overdue, or has errors.
RowAhead(s, st, w, r) ==
  r.status = "PROCESSING" =>
    /\ w <= r.started
    /\ \A p \in Products : Overdue(s, st, r, p) =>
         r.errors > 0 \/ RankIn(p, Listing(s, After(r, w))) > r.offset

\* The worker goes by its row and the watermark, and a product on its page
\* has not changed since, or so recently that it is not overdue.
GoesByRow(s, w, r, x) ==
  /\ x.at \in InProgress \ {"closing"} => x.after = After(r, w)
  /\ x.at \in {"paging", "storing", "counting"} => x.offset = r.offset
  /\ x.at \in {"paging", "storing"} => x.processed = r.processed /\ x.errors = r.errors
  /\ x.at = "storing" => \A p \in Products :
       x.page[p] # 0 => x.page[p] = s[p].changed \/ r.started <= s[p].changed

\* Beyond the page that the worker has in hand.
Beyond(s, x, p, counts) ==
  /\ RankIn(p, Listing(s, x.after)) > x.offset + PageLimit
  /\ counts => x.total > x.offset + PageLimit

RunAhead(s, st, r, x, counts) ==
  \A p \in Products : Overdue(s, st, r, p) =>
    /\ x.at = "storing" =>
         \/ x.errors > 0
         \/ x.page[p] = s[p].changed
         \/ Beyond(s, x, p, counts) /\ Cardinality(OnPage(x.page)) = PageLimit
    /\ x.at = "counting" =>
         \/ x.errors > 0
         \/ Beyond(s, x, p, counts) /\ x.processed = r.processed + PageLimit
    /\ x.at \in {"matching", "mapping"} => x.errors > 0

Covers(s, st, w, r, x, counts) ==
  RowAhead(s, st, w, r) /\ GoesByRow(s, w, r, x) /\ RunAhead(s, st, r, x, counts)

CoverInv ==
  \A j \in Jobs : Covers(shop, stored, watermark, row[j], run[j], Happens("total"))

WatermarkInv == NothingUnlooked /\ CoverInv

LEMMA Renamed ==
  /\ \A after : Filtered(after) = Listing(shop, after)
  /\ \A j \in Jobs : UpdatedAfter(j) = After(row[j], watermark)
BY DEF Filtered, Listing, UpdatedAfter, After

LEMMA InitWatermark == Init => WatermarkInv
<1> SUFFICES ASSUME Init PROVE WatermarkInv
  OBVIOUS
<1>1. NothingUnlooked
  BY ImportAssumption DEF Init, NothingUnlooked
<1>2. \A j \in Jobs : row[j].status = "none" /\ run[j].at = "idle"
  BY DEF Init, NoRow, NoRun
<1>3. CoverInv
  BY <1>2 DEF CoverInv, Covers, RowAhead, GoesByRow, RunAhead, InProgress
<1> QED  BY <1>1, <1>3 DEF WatermarkInv

\* What the shop, what is stored and the watermark do not take part in.
LEMMA CoverKept ==
  ASSUME WatermarkInv, UNCHANGED <<shop, stored, watermark, scene>>,
         \A i \in Jobs : \/ row'[i] = row[i] /\ run'[i] = run[i]
                         \/ Covers(shop, stored, watermark, row'[i], run'[i], Happens("total"))
  PROVE  WatermarkInv'
<1>1. NothingUnlooked'
  BY DEF WatermarkInv, NothingUnlooked
<1>2. Happens("total")' = Happens("total")
  BY DEF Happens
<1>3. \A i \in Jobs : Covers(shop', stored', watermark', row'[i], run'[i], Happens("total")')
  BY <1>2 DEF WatermarkInv, CoverInv
<1>4. CoverInv'
  BY <1>3 DEF CoverInv
<1> QED  BY <1>1, <1>4 DEF WatermarkInv

\* A row at rest, and one that only its own worker could have moved.
LEMMA AtRest ==
  ASSUME NEW s, NEW st, NEW w, NEW r, NEW x, NEW counts,
         x.at \in {"idle", "closing", "leaving"},
         RowAhead(s, st, w, r)
  PROVE  Covers(s, st, w, r, x, counts)
BY DEF Covers, GoesByRow, RunAhead, InProgress

\* A row that changes in what the watermark does not depend on.
LEMMA RowKept ==
  ASSUME NEW s, NEW st, NEW w, NEW r, NEW r2, RowAhead(s, st, w, r),
         \/ r2.status # "PROCESSING"
         \/ /\ r2.status = r.status /\ r2.full = r.full /\ r2.started = r.started
            /\ r2.errors = r.errors /\ r2.offset = r.offset
  PROVE  RowAhead(s, st, w, r2)
BY DEF RowAhead, Overdue, After

\* Steps that only the rows, the queue and the worker at rest take part in.
LEMMA RestWatermark ==
  ASSUME ImportInv, WatermarkInv, NEW j \in Jobs, Only(j),
         UNCHANGED <<stored, watermark, scene>>,
         \/ run'[j].at \in {"idle", "closing", "leaving"}
         \/ run'[j] = run[j] /\ row[j].status # "PROCESSING",
         \/ row'[j].status # "PROCESSING"
         \/ /\ row'[j].status = row[j].status /\ row'[j].full = row[j].full
            /\ row'[j].started = row[j].started
            /\ row'[j].errors = row[j].errors /\ row'[j].offset = row[j].offset
  PROVE  WatermarkInv'
<1>1. RowAhead(shop, stored, watermark, row'[j])
  <2>1. RowAhead(shop, stored, watermark, row[j])
    BY DEF WatermarkInv, CoverInv, Covers
  <2> QED  BY <2>1, RowKept
<1>2. run'[j].at \in {"idle", "closing", "leaving"}
  <2>1. CASE run'[j] = run[j] /\ row[j].status # "PROCESSING"
    <3>1. AtHand(run[j].at, queue[j].state, row[j].status) /\ run[j] \in Run
      BY JobFacts DEF ImportInv
    <3> QED  BY <2>1, <3>1 DEF AtHand, InProgress, Run
  <2> QED  BY <2>1
<1>3. Covers(shop, stored, watermark, row'[j], run'[j], Happens("total"))
  BY <1>1, <1>2, AtRest
<1> QED  BY <1>3, CoverKept DEF Only

LEMMA QuietWatermark ==
  ASSUME ImportInv, WatermarkInv, NEW j \in Jobs,
         \/ NothingToDo(j) \/ BeginRefused(j) \/ Complete(j) \/ Leave(j) \/ NothingStored(j)
         \/ PageFails(j) \/ PageRefused(j) \/ CatchFails(j) \/ LateFails(j)
         \/ WorkerDies(j) \/ GoStale(j)
  PROVE  WatermarkInv'
<1> USE DEF Catalogue, Imported
<1>0. Typed /\ row[j] \in Row /\ run[j] \in Run /\ NoRun.at = "idle"
  BY JobFacts DEF ImportInv, NoRun
<1>1. UNCHANGED <<shop, stored, watermark, scene>>
  BY DEF NothingToDo, BeginRefused, Complete, Leave, NothingStored, PageFails, PageRefused,
         CatchFails, LateFails, WorkerDies, GoStale
<1>2. CASE NothingToDo(j) \/ BeginRefused(j)
  <2>1. row' = row /\ run' = run
    BY <1>2 DEF NothingToDo, BeginRefused
  <2> QED  BY <1>1, <2>1, CoverKept
<1>3. CASE GoStale(j)
  <2>1. Only(j)
    BY <1>0, <1>3 DEF GoStale, Only, Typed
  <2>2. /\ run' = run /\ queue' = queue
        /\ row'[j].status = row[j].status /\ row'[j].full = row[j].full
        /\ row'[j].started = row[j].started
        /\ row'[j].errors = row[j].errors /\ row'[j].offset = row[j].offset
    BY <1>0, <1>3 DEF GoStale, Typed, Row
  <2>3. AtHand(run[j].at, queue[j].state, row[j].status) /\ queue[j].state # "active"
    BY <1>3, JobFacts DEF ImportInv, GoStale
  <2>4. run'[j].at = "idle"
    BY <2>2, <2>3 DEF AtHand
  <2> QED  BY <1>1, <2>1, <2>2, <2>4, RestWatermark
<1>4. CASE Complete(j)
  <2>1. Only(j) /\ run'[j].at = "leaving"
    BY <1>0, <1>4 DEF Complete, Only, Typed, Run
  <2>2. row'[j].status # "PROCESSING"
    BY <1>0, <1>4 DEF Complete, Typed, Row
  <2> QED  BY <1>1, <2>1, <2>2, RestWatermark
<1>5. CASE Leave(j) \/ WorkerDies(j)
  <2>1. Only(j) /\ run'[j].at = "idle" /\ row' = row
    BY <1>0, <1>5 DEF Leave, WorkerDies, Only, Typed
  <2> QED  BY <1>1, <2>1, RestWatermark
<1>6. CASE /\ Retry(j) \/ GiveUp(j)
           /\ UNCHANGED <<request, clock, shop>>
  <2>1. CASE Retry(j)
    <3>1. Only(j) /\ run'[j].at = "idle" /\ row' = row
      BY <1>0, <1>6, <2>1 DEF Retry, Rethrow, Only, Typed
    <3> QED  BY <1>1, <3>1, RestWatermark
  <2>2. CASE GiveUp(j)
    <3>1. Only(j) /\ run'[j].at = "leaving"
      BY <1>0, <1>6, <2>2 DEF GiveUp, Only, Typed, Run
    <3>2. row'[j].status # "PROCESSING"
      BY <1>0, <2>2 DEF GiveUp, Typed, Row
    <3> QED  BY <1>1, <3>1, <3>2, RestWatermark
  <2> QED  BY <1>6, <2>1, <2>2
<1>7. CASE NothingStored(j) \/ PageFails(j) \/ PageRefused(j) \/ CatchFails(j) \/ LateFails(j)
  <2>1. /\ Retry(j) \/ GiveUp(j)
        /\ UNCHANGED <<request, clock, shop>>
    BY <1>7 DEF NothingStored, PageFails, PageRefused, CatchFails, LateFails
  <2> QED  BY <1>6, <2>1
<1> QED  BY <1>2, <1>3, <1>4, <1>5, <1>7

LEMMA RequestWatermark ==
  ASSUME ImportInv, WatermarkInv, NEW u \in Users,
         \/ \E full \in BOOLEAN : RequestImport(u, full)
         \/ Ask(u) \/ EnqueueFails(u) \/ WebDies(u)
  PROVE  WatermarkInv'
<1> USE DEF Catalogue, Imported
<1>0. Typed
  BY DEF ImportInv
<1>1. UNCHANGED <<shop, stored, watermark, scene, run>>
  BY DEF RequestImport, Ask, CreateJob, CreateRefused, Enqueue, EnqueueFails, WebDies
<1>2. CASE row' = row
  BY <1>1, <1>2, CoverKept
<1>3. CASE row' # row
  <2>1. PICK k \in Jobs, new \in Row :
          /\ row' = [row EXCEPT ![k] = new] /\ new.status # "PROCESSING"
          /\ queue[k].state = "none"
    <3>1. CASE CreateJob(u)
      <4>1. NextJob \in Jobs /\ queue[NextJob].state = "none"
        BY <3>1, NextJobIsUnused DEF CreateJob, Unused
      <4>2. /\ [NoRow EXCEPT !.status = "PENDING", !.full = request[u].full] \in Row
            /\ [NoRow EXCEPT !.status = "PENDING", !.full = request[u].full].status # "PROCESSING"
        BY <1>0, PagesType DEF NoRow, Row, Active, Typed, Request
      <4> QED  BY <3>1, <4>1, <4>2 DEF CreateJob
    <3>2. CASE EnqueueFails(u)
      <4>1. request[u].job \in Jobs /\ queue[request[u].job].state = "none"
        BY <3>2 DEF EnqueueFails, ImportInv, Worker, RequestInv
      <4>2. NoRow \in Row /\ NoRow.status # "PROCESSING"
        BY PagesType DEF NoRow
      <4>3. row' = [row EXCEPT ![request[u].job] = NoRow]
        BY <3>2 DEF EnqueueFails
      <4> QED  BY <4>1, <4>2, <4>3
    <3> QED  BY <1>3, <3>1, <3>2 DEF RequestImport, Ask, CreateRefused, Enqueue, WebDies
  <2>2. \A i \in Jobs : i # k => row'[i] = row[i]
    BY <2>1
  <2>3. row'[k].status # "PROCESSING"
    BY <1>0, <2>1 DEF Typed
  <2>4. run[k].at = "idle"
    <3>1. AtHand(run[k].at, queue[k].state, row[k].status)
      BY JobFacts DEF ImportInv
    <3> QED  BY <2>1, <3>1 DEF AtHand
  <2>5. RowAhead(shop, stored, watermark, row'[k])
    BY <2>3 DEF RowAhead
  <2>6. Covers(shop, stored, watermark, row'[k], run'[k], Happens("total"))
    BY <1>1, <2>4, <2>5, AtRest
  <2> QED  BY <1>1, <2>2, <2>6, CoverKept
<1> QED  BY <1>2, <1>3

LEMMA ListingType ==
  ASSUME NEW s, NEW after
  PROVE  Listing(s, after) \in SUBSET Products
BY DEF Listing

\* A change appears in every window, and takes nothing away.
LEMMA ChangeWatermark ==
  ASSUME ImportInv, WatermarkInv, NEW q \in Products, ChangeProduct(q)
  PROVE  WatermarkInv'
<1>0. /\ shop \in [Products -> [listed : BOOLEAN, changed : Times]]
      /\ clock \in Nat /\ watermark \in Nat /\ watermark <= clock /\ Overlap \in Nat
      /\ \A p \in Products : shop[p] \in [listed : BOOLEAN, changed : Times]
                             /\ shop[p].changed \in Nat /\ shop[p].changed <= clock
  BY ImportAssumption DEF ImportInv, Typed, Times, Worker, ClockInv
<1>1. /\ UNCHANGED <<stored, watermark, row, run, scene, clock>>
      /\ shop' = [shop EXCEPT ![q] = [listed |-> TRUE, changed |-> clock]]
  BY DEF ChangeProduct, Imported
<1>2. shop'[q].changed = clock /\ \A p \in Products : p # q => shop'[p] = shop[p]
  BY <1>0, <1>1
<1>3. NothingUnlooked'
  BY <1>0, <1>1, <1>2 DEF WatermarkInv, NothingUnlooked
<1>4. ASSUME NEW j \in Jobs, NEW p \in Products, Overdue(shop', stored, row[j], p)
      PROVE  p # q /\ shop'[p] = shop[p] /\ Overdue(shop, stored, row[j], p)
  <2>1. row[j].started <= clock /\ row[j].started \in Nat
    BY JobFacts DEF ImportInv
  <2> QED  BY <1>0, <1>2, <1>4, <2>1 DEF Overdue
<1>5. ASSUME NEW p \in Products, NEW after \in Nat
      PROVE  RankIn(p, Listing(shop, after)) <= RankIn(p, Listing(shop', after))
             \/ ~(after <= clock)
  <2>1. CASE after <= clock
    <3>1. Listing(shop, after) \subseteq Listing(shop', after)
      BY <1>0, <1>2, <1>1, <2>1 DEF Listing
    <3> QED  BY <3>1, ListingType, RankGrows
  <2> QED  BY <2>1
<1>6. ASSUME NEW j \in Jobs
      PROVE  Covers(shop', stored, watermark, row[j], run[j], Happens("total"))
  <2> DEFINE r == row[j]
             x == run[j]
             counts == Happens("total")
  <2>0. /\ r \in Row /\ x \in Run /\ r.offset \in Nat /\ x.offset \in Nat
        /\ r.started \in Nat /\ r.started <= clock
    BY JobFacts DEF ImportInv, Row, Run
  <2>1. Covers(shop, stored, watermark, r, x, counts)
    BY DEF WatermarkInv, CoverInv
  <2>2. After(r, watermark) \in Nat /\ After(r, watermark) <= clock
    BY <1>0 DEF After
  <2>3. RowAhead(shop', stored, watermark, r)
    <3> SUFFICES ASSUME r.status = "PROCESSING",
                        NEW p \in Products, Overdue(shop', stored, r, p), ~(r.errors > 0)
                 PROVE  RankIn(p, Listing(shop', After(r, watermark))) > r.offset
      BY <2>1 DEF RowAhead, Covers
    <3>1. RankIn(p, Listing(shop, After(r, watermark))) > r.offset
      BY <1>4, <2>1 DEF RowAhead, Covers
    <3>2. RankIn(p, Listing(shop, After(r, watermark))) <= RankIn(p, Listing(shop', After(r, watermark)))
      BY <1>5, <2>2
    <3>3. /\ RankIn(p, Listing(shop, After(r, watermark))) \in Nat
          /\ RankIn(p, Listing(shop', After(r, watermark))) \in Nat
      BY ListingType, RankType
    <3> QED  BY <2>0, <3>1, <3>2, <3>3
  <2>4. GoesByRow(shop', watermark, r, x)
    <3>1. ASSUME x.at = "storing", NEW p \in Products, x.page[p] # 0
          PROVE  x.page[p] = shop'[p].changed \/ r.started <= shop'[p].changed
      BY <1>2, <2>0, <2>1, <3>1 DEF Covers, GoesByRow
    <3> QED  BY <2>1, <3>1 DEF Covers, GoesByRow
  <2>5. RunAhead(shop', stored, r, x, counts)
    <3> SUFFICES ASSUME NEW p \in Products, Overdue(shop', stored, r, p)
                 PROVE  /\ x.at = "storing" =>
                             \/ x.errors > 0
                             \/ x.page[p] = shop'[p].changed
                             \/ Beyond(shop', x, p, counts) /\ Cardinality(OnPage(x.page)) = PageLimit
                        /\ x.at = "counting" =>
                             \/ x.errors > 0
                             \/ Beyond(shop', x, p, counts) /\ x.processed = r.processed + PageLimit
                        /\ x.at \in {"matching", "mapping"} => x.errors > 0
      BY DEF RunAhead
    <3>1. shop'[p] = shop[p] /\ Overdue(shop, stored, r, p)
      BY <1>4
    <3>2. ASSUME x.at \in {"storing", "counting"}, Beyond(shop, x, p, counts)
          PROVE  Beyond(shop', x, p, counts)
      <4>1. x.after = After(r, watermark)
        BY <2>1, <3>2 DEF Covers, GoesByRow, InProgress
      <4>2. x.after \in Nat /\ x.after <= clock
        BY <2>2, <4>1
      <4>3. RankIn(p, Listing(shop, x.after)) <= RankIn(p, Listing(shop', x.after))
        BY <1>5, <4>2
      <4>4. /\ RankIn(p, Listing(shop, x.after)) \in Nat
            /\ RankIn(p, Listing(shop', x.after)) \in Nat
            /\ PageLimit \in Nat
        BY ListingType, RankType, ImportAssumption
      <4> QED  BY <2>0, <3>2, <4>3, <4>4 DEF Beyond
    <3> QED  BY <2>1, <3>1, <3>2 DEF Covers, RunAhead
  <2> QED  BY <2>3, <2>4, <2>5 DEF Covers
<1>7. CoverInv'
  BY <1>1, <1>6 DEF CoverInv, Happens
<1> QED  BY <1>3, <1>7 DEF WatermarkInv

LEMMA ShopWatermark ==
  ASSUME ImportInv, WatermarkInv, Steady, Aside
  PROVE  WatermarkInv'
<1>1. ASSUME NEW p \in Products, ChangeProduct(p) PROVE WatermarkInv'
  BY <1>1, ChangeWatermark
<1>2. CASE Tick \/ \E p \in Products : MapByHand(p)
  <2>1. UNCHANGED <<shop, stored, watermark, row, run, scene>>
    BY <1>2 DEF Tick, MapByHand, Imported, Catalogue
  <2> QED  BY <2>1, CoverKept
<1>3. ASSUME NEW q \in Products, RemoveProduct(q) PROVE WatermarkInv'
  <2>1. \A j \in Jobs : row[j].status \notin Active
    BY <1>3 DEF RemoveProduct, Steady
  <2>2. UNCHANGED <<stored, watermark, row, run, scene>>
    BY <1>3 DEF RemoveProduct, Imported
  <2>3. \A p \in Products : shop'[p].listed => shop'[p] = shop[p]
    BY <1>3 DEF RemoveProduct, ImportInv, Typed
  <2>4. NothingUnlooked'
    BY <2>2, <2>3 DEF WatermarkInv, NothingUnlooked
  <2>5. ASSUME NEW j \in Jobs
        PROVE  Covers(shop', stored, watermark, row[j], run[j], Happens("total"))
    <3>1. AtHand(run[j].at, queue[j].state, row[j].status) /\ run[j] \in Run
      BY JobFacts DEF ImportInv
    <3>2. run[j].at \in {"idle", "closing", "leaving"} /\ row[j].status # "PROCESSING"
      BY <2>1, <3>1 DEF AtHand, InProgress, Run, Active
    <3>3. RowAhead(shop', stored, watermark, row[j])
      BY <3>2 DEF RowAhead
    <3> QED  BY <3>2, <3>3, AtRest
  <2>6. CoverInv'
    BY <2>2, <2>5 DEF CoverInv, Happens
  <2> QED  BY <2>4, <2>6 DEF WatermarkInv
<1> QED  BY <1>1, <1>2, <1>3 DEF Aside

\* Everything overdue is in the window of an import that begins.
\* A row that is started has everything ahead that is overdue.
LEMMA StartedAhead ==
  ASSUME ImportInv, WatermarkInv, Steady, NEW j \in Jobs, Started(j), queue[j].state = "waiting"
  PROVE  RowAhead(shop, stored, watermark, row'[j])
<1> DEFINE r == row[j]
           new == row'[j]
<1>0. /\ r \in Row /\ RowIsFresh(r) /\ clock # 0 /\ clock \in Nat /\ r.started \in Nat
      /\ watermark \in Nat /\ watermark <= clock /\ Overlap \in Nat
      /\ \A p \in Products : shop[p].changed \in Nat
  BY JobFacts, ImportAssumption DEF ImportInv, Typed, Times
<1>3. RowAhead(shop, stored, watermark, r)
  BY DEF WatermarkInv, CoverInv, Covers
<1>5. /\ new.status = "PROCESSING" /\ new.full = r.full
      /\ new.started = IF r.started = 0 THEN clock ELSE r.started
      /\ new.offset = r.offset /\ new.errors = r.errors
      /\ r.status \notin {"none", "COMPLETED"}
  BY StartedRow DEF ImportInv
<1>4. r.status \in {"PENDING", "PROCESSING"}
  BY <1>0, <1>5 DEF Steady, NoneResumed, Row, Active
<1> HIDE DEF new
<1>8. RowAhead(shop, stored, watermark, new)
  <2>1. CASE r.status = "PROCESSING"
    <3>1. new.started = r.started
      BY <1>0, <1>5, <2>1 DEF RowIsFresh
    <3> QED  BY <1>3, <1>5, <2>1, <3>1, RowKept
  <2>2. CASE r.status = "PENDING"
    <3>1. new.started = clock /\ new.offset = 0
      BY <1>0, <1>5, <2>2 DEF RowIsFresh
    <3>2. ASSUME NEW p \in Products, Overdue(shop, stored, new, p)
          PROVE  RankIn(p, Listing(shop, After(new, watermark))) > new.offset
      <4>1. watermark <= shop[p].changed + Overlap
        BY <3>2 DEF Overdue, WatermarkInv, NothingUnlooked
      <4>2. shop[p].changed >= After(new, watermark)
        BY <1>0, <4>1 DEF After
      <4>3. p \in Listing(shop, After(new, watermark))
        BY <3>2, <4>2 DEF Listing, Overdue
      <4>4. RankIn(p, Listing(shop, After(new, watermark))) \in Nat
            /\ RankIn(p, Listing(shop, After(new, watermark))) >= 1
        BY <4>3, ListingType, RankType
      <4> QED  BY <3>1, <4>4
    <3>3. watermark <= new.started
      BY <1>0, <3>1
    <3> QED  BY <3>2, <3>3 DEF RowAhead
  <2> QED  BY <1>4, <2>1, <2>2
<1> QED  BY <1>8 DEF new

LEMMA BeginWatermark ==
  ASSUME ImportInv, WatermarkInv, Steady, NEW j \in Jobs, Begin(j)
  PROVE  WatermarkInv'
<1> DEFINE r == row[j]
           new == row'[j]
           begun == [NoRun EXCEPT !.at = "paging", !.offset = r.offset, !.errors = r.errors,
                       !.processed = r.processed, !.imported = r.imported,
                       !.after = UpdatedAfter(j)]
<1>1. run' = [run EXCEPT ![j] = begun] /\ UNCHANGED <<shop, stored, watermark, scene>>
  BY DEF Begin, Catalogue, Imported
<1>2. /\ new.full = r.full /\ new.offset = r.offset
      /\ new.errors = r.errors /\ new.processed = r.processed
      /\ \A i \in Jobs : i # j => row'[i] = row[i]
  BY StartedRow DEF ImportInv, Begin
<1>3. /\ begun.at = "paging" /\ begun.after = After(r, watermark) /\ begun.offset = r.offset
      /\ begun.processed = r.processed /\ begun.errors = r.errors
  BY Renamed DEF NoRun
<1>4. RowAhead(shop, stored, watermark, new)
  BY StartedAhead DEF Begin
<1> HIDE DEF new, begun
<1>5. After(new, watermark) = After(r, watermark)
  BY <1>2 DEF After
<1>6. GoesByRow(shop, watermark, new, begun)
  BY <1>2, <1>3, <1>5 DEF GoesByRow
<1>7. RunAhead(shop, stored, new, begun, Happens("total"))
  BY <1>3 DEF RunAhead
<1>8. Covers(shop, stored, watermark, new, begun, Happens("total"))
  BY <1>4, <1>6, <1>7 DEF Covers
<1>9. run'[j] = begun /\ \A i \in Jobs : i # j => run'[i] = run[i]
  BY <1>1 DEF ImportInv, Typed
<1> QED  BY <1>1, <1>2, <1>8, <1>9, CoverKept DEF new

LEMMA BeginFailsWatermark ==
  ASSUME ImportInv, WatermarkInv, Steady, NEW j \in Jobs, BeginFails(j)
  PROVE  WatermarkInv'
<1>1. run' = run /\ UNCHANGED <<shop, stored, watermark, scene>> /\ queue[j].state = "waiting"
  BY DEF BeginFails, Catalogue, Imported
<1>2. CASE UNCHANGED row
  BY <1>1, <1>2, CoverKept
<1>3. CASE Started(j)
  <2>1. RowAhead(shop, stored, watermark, row'[j]) /\ \A i \in Jobs : i # j => row'[i] = row[i]
    BY <1>1, <1>3, StartedAhead, StartedRow DEF ImportInv
  <2>2. run'[j].at = "idle"
    BY <1>1, JobFacts DEF ImportInv, AtHand
  <2>3. Covers(shop, stored, watermark, row'[j], run'[j], Happens("total"))
    BY <2>1, <2>2, AtRest
  <2> QED  BY <1>1, <2>1, <2>3, CoverKept
<1> QED  BY <1>2, <1>3 DEF BeginFails

\* What is overdue and listed is on the page, or beyond a full one.
LEMMA FetchWatermark ==
  ASSUME ImportInv, WatermarkInv, NEW j \in Jobs, FetchPage(j)
  PROVE  WatermarkInv'
<1> DEFINE r == row[j]
           x == run'[j]
           S == Filtered(run[j].after)
<1>0. /\ r \in Row /\ run[j] \in Run /\ run[j].offset \in Nat /\ PageLimit \in Nat
      /\ watermark \in Nat /\ Overlap \in Nat /\ S \in SUBSET Products
      /\ \A p \in Products : shop[p].changed \in Nat
  BY JobFacts, ImportAssumption, FilteredListing DEF ImportInv, Typed, Times, Run
<1>1. UNCHANGED <<shop, stored, watermark, scene, row>>
  BY DEF FetchPage, Catalogue, Imported
<1>2. Typed /\ ClockInv
  BY DEF ImportInv, Worker
<1>3. /\ x.at = "storing" /\ x.offset = run[j].offset /\ x.after = run[j].after
      /\ x.processed = run[j].processed /\ x.errors = run[j].errors
      /\ run[j].at = "paging"
      /\ \A i \in Jobs : i # j => run'[i] = run[i]
  BY <1>0, <1>2 DEF FetchPage, Typed, Run
<1>4. /\ OnPage(x.page) = PageOf(S, run[j].offset)
      /\ \A p \in PageOf(S, run[j].offset) : x.page[p] = shop[p].changed
      /\ x.total = Cardinality(S)
  BY <1>2, FetchedPage
<1>5. Covers(shop, stored, watermark, r, run[j], Happens("total"))
  BY DEF WatermarkInv, CoverInv
<1>6. /\ x.after = After(r, watermark) /\ x.offset = r.offset
      /\ x.processed = r.processed /\ x.errors = r.errors
  BY <1>3, <1>5 DEF Covers, GoesByRow, InProgress
<1>7. S = Listing(shop, x.after)
  BY <1>3, Renamed
<1> HIDE DEF S, x
<1>8. GoesByRow(shop, watermark, r, x)
  <2>1. \A p \in Products : x.page[p] # 0 => x.page[p] = shop[p].changed
    BY <1>4 DEF OnPage
  <2> QED  BY <1>3, <1>6, <2>1 DEF GoesByRow
<1>9. ASSUME NEW p \in Products, Overdue(shop, stored, r, p), ~(x.errors > 0),
             x.page[p] # shop[p].changed
      PROVE  Beyond(shop, x, p, Happens("total")) /\ Cardinality(OnPage(x.page)) = PageLimit
  <2>1. r.status = "PROCESSING"
    BY <1>3, JobFacts DEF ImportInv, AtHand, InProgress
  <2>2. RankIn(p, S) > r.offset
    BY <1>5, <1>6, <1>7, <1>9, <2>1 DEF Covers, RowAhead
  <2>3. watermark <= shop[p].changed + Overlap
    BY <1>9 DEF Overdue, WatermarkInv, NothingUnlooked
  <2>4. shop[p].changed >= x.after
    BY <1>0, <1>6, <2>3 DEF After
  <2>5. p \in S
    BY <1>7, <1>9, <2>4 DEF Listing, Overdue
  <2>6. /\ RankIn(p, S) \in Nat /\ RankIn(p, S) <= Cardinality(S) /\ Cardinality(S) \in Nat
    BY <1>0, <2>5, RankType, ListingIsFinite
  <2>7. p \notin PageOf(S, run[j].offset)
    BY <1>4, <1>9
  <2>8. RankIn(p, S) \notin (run[j].offset + 1)..(run[j].offset + PageLimit)
    BY <2>5, <2>7 DEF PageOf
  <2>9. RankIn(p, S) > run[j].offset + PageLimit
    BY <1>0, <1>3, <1>6, <2>2, <2>6, <2>8
  <2>10. Cardinality(PageOf(S, run[j].offset)) = PageLimit
    <3>1. Cardinality(S) >= run[j].offset + PageLimit
      BY <1>0, <2>6, <2>9
    <3> QED  BY <1>0, <3>1, PageLength
  <2>11. x.total > x.offset + PageLimit
    BY <1>0, <1>3, <1>4, <2>6, <2>9
  <2>12. RankIn(p, Listing(shop, x.after)) > x.offset + PageLimit
    BY <1>3, <1>7, <2>9
  <2> QED  BY <1>4, <2>10, <2>11, <2>12 DEF Beyond
<1>10. RunAhead(shop, stored, r, x, Happens("total"))
  BY <1>3, <1>9 DEF RunAhead
<1>11. Covers(shop, stored, watermark, row'[j], run'[j], Happens("total"))
  BY <1>1, <1>5, <1>8, <1>10 DEF Covers, x
<1> QED  BY <1>1, <1>3, <1>11, CoverKept

\* What was on the page is stored, or refused and an error.
LEMMA StoreWatermark ==
  ASSUME ImportInv, WatermarkInv, NEW j \in Jobs, StorePage(j)
  PROVE  WatermarkInv'
<1> DEFINE r == row[j]
           x == run[j]
           y == run'[j]
           seen == OnPage(x.page)
           good == seen \ Refused
           counts == Happens("total")
<1>0. /\ Typed /\ r \in Row /\ x \in Run /\ Overlap \in Nat /\ watermark \in Nat
      /\ r.started \in Nat /\ x.errors \in Nat /\ x.processed \in Nat /\ x.at = "storing"
      /\ \A p \in Products : shop[p].changed \in Nat /\ shop[p].changed # 0
  BY JobFacts, ImportAssumption DEF ImportInv, Typed, Times, Run, Worker, ClockInv, StorePage
<1>1. /\ UNCHANGED <<shop, watermark, scene, row>>
      /\ stored' = [p \in Products |-> IF p \in good THEN x.page[p] ELSE stored[p]]
  BY DEF StorePage, Catalogue
<1>2. /\ IsFiniteSet(seen \ good) /\ Cardinality(seen) \in Nat /\ Cardinality(seen \ good) \in Nat
  <2>1. seen \in SUBSET Products /\ (seen \ good) \in SUBSET Products
    BY DEF OnPage
  <2> QED  BY <2>1, ListingIsFinite
<1>3. /\ y.at = "counting" /\ y.after = x.after /\ y.offset = x.offset /\ y.total = x.total
      /\ y.errors = x.errors + Cardinality(seen \ good)
      /\ y.processed = x.processed + Cardinality(seen)
      /\ \A i \in Jobs : i # j => run'[i] = run[i]
  <2> DEFINE imported == x.imported + Cardinality(good)
             errors == x.errors + Cardinality(seen \ good)
             processed == x.processed + Cardinality(seen)
  <2>1. run' = [run EXCEPT ![j] = [run[j] EXCEPT !.at = "counting", !.page = EmptyPage,
                  !.imported = imported, !.errors = errors, !.processed = processed]]
    BY DEF StorePage
  <2> HIDE DEF imported, errors, processed
  <2>2. /\ run'[j].at = "counting" /\ run'[j].after = run[j].after
        /\ run'[j].offset = run[j].offset /\ run'[j].total = run[j].total
        /\ run'[j].errors = errors /\ run'[j].processed = processed
        /\ \A i \in Jobs : i # j => run'[i] = run[i]
    BY <1>0, <2>1 DEF Typed, Run
  <2> QED  BY <2>2 DEF errors, processed
<1>4. Covers(shop, stored, watermark, r, x, counts)
  BY DEF WatermarkInv, CoverInv
<1>5. r.status = "PROCESSING"
  BY <1>0, JobFacts DEF ImportInv, AtHand, InProgress
<1>6. watermark <= r.started
  BY <1>4, <1>5 DEF Covers, RowAhead
<1>7. ASSUME NEW p \in Products
      PROVE  \/ stored'[p] = shop[p].changed
             \/ r.started <= shop[p].changed
             \/ stored'[p] = stored[p] /\ p \notin good
  <2>1. CASE p \in good
    <3>1. stored'[p] = x.page[p] /\ x.page[p] # 0
      BY <1>1, <2>1 DEF OnPage
    <3> QED  BY <1>0, <1>4, <3>1 DEF Covers, GoesByRow
  <2>2. CASE p \notin good
    BY <1>1, <2>2
  <2> QED  BY <2>1, <2>2
<1> HIDE DEF good, y
<1>8. NothingUnlooked'
  <2> SUFFICES ASSUME NEW p \in Products, shop[p].listed, stored'[p] # shop[p].changed
               PROVE  watermark <= shop[p].changed + Overlap
    BY <1>1 DEF NothingUnlooked
  <2>1. CASE r.started <= shop[p].changed
    BY <1>0, <1>6, <2>1
  <2>2. CASE stored'[p] = stored[p]
    BY <2>2 DEF WatermarkInv, NothingUnlooked
  <2> QED  BY <1>7, <2>1, <2>2
<1>9. ASSUME NEW i \in Jobs, NEW p \in Products, Overdue(shop, stored', row[i], p),
             row[i].status = "PROCESSING"
      PROVE  i = j /\ Overdue(shop, stored, r, p) /\ p \notin good
  <2>1. i = j
    BY <1>5, <1>9 DEF ImportInv, Worker, OneActive, Active
  <2> QED  BY <1>0, <1>7, <1>9, <2>1 DEF Overdue
<1>10. ASSUME NEW i \in Jobs PROVE RowAhead(shop, stored', watermark, row[i])
  <2>1. RowAhead(shop, stored, watermark, row[i])
    BY DEF WatermarkInv, CoverInv, Covers
  <2> QED  BY <1>9, <2>1 DEF RowAhead
<1>11. GoesByRow(shop, watermark, r, y)
  BY <1>0, <1>3, <1>4 DEF Covers, GoesByRow, InProgress
<1>12. RunAhead(shop, stored', r, y, counts)
  <2> SUFFICES ASSUME NEW p \in Products, Overdue(shop, stored', r, p), ~(y.errors > 0)
               PROVE  Beyond(shop, y, p, counts) /\ y.processed = r.processed + PageLimit
    BY <1>3 DEF RunAhead
  <2>1. Overdue(shop, stored, r, p) /\ p \notin good
    BY <1>5, <1>9
  <2>2. x.errors = 0 /\ Cardinality(seen \ good) = 0
    BY <1>0, <1>2, <1>3
  <2>3. p \notin seen
    <3>1. seen \ good = {}
      BY <1>2, <2>2, FS_EmptySet
    <3> QED  BY <2>1, <3>1
  <2>4. x.page[p] # shop[p].changed
    BY <1>0, <2>3 DEF OnPage
  <2>5. Beyond(shop, x, p, counts) /\ Cardinality(seen) = PageLimit
    BY <1>0, <1>4, <2>1, <2>2, <2>4 DEF Covers, RunAhead
  <2>6. Beyond(shop, y, p, counts)
    BY <1>3, <2>5 DEF Beyond
  <2>7. x.processed = r.processed
    BY <1>0, <1>4 DEF Covers, GoesByRow
  <2> QED  BY <1>3, <2>5, <2>6, <2>7
<1>13. ASSUME NEW i \in Jobs, i # j
       PROVE  Covers(shop, stored', watermark, row[i], run[i], counts)
  <2>1. row[i].status # "PROCESSING"
    BY <1>5, <1>13 DEF ImportInv, Worker, OneActive, Active
  <2>2. run[i].at \in {"idle", "closing", "leaving"}
    BY <2>1, JobFacts DEF ImportInv, AtHand, InProgress, Run
  <2> QED  BY <1>10, <2>2, AtRest
<1>14. \A i \in Jobs : Covers(shop, stored', watermark, row[i], run'[i], counts)
  BY <1>3, <1>10, <1>11, <1>12, <1>13 DEF Covers, y
<1>15. CoverInv'
  BY <1>1, <1>14 DEF CoverInv, Happens
<1> QED  BY <1>8, <1>15 DEF WatermarkInv

\* The last page has nothing beyond it.
LEMMA CheckpointWatermark ==
  ASSUME ImportInv, WatermarkInv, NEW j \in Jobs, Checkpoint(j)
  PROVE  WatermarkInv'
<1> DEFINE r == row[j]
           x == run[j]
           counts == Happens("total")
           offset == x.offset + PageLimit
           last == \/ x.processed - r.processed < PageLimit
                   \/ counts /\ offset >= x.total
           r2 == row'[j]
           y == run'[j]
<1>0. /\ Typed /\ r \in Row /\ x \in Run /\ x.at = "counting" /\ PageLimit \in Nat
      /\ x.offset \in Nat /\ x.processed \in Nat /\ r.processed \in Nat /\ x.total \in Nat
      /\ x.errors \in Nat
  BY JobFacts, ImportAssumption DEF ImportInv, Run, Row, Checkpoint
<1>1. UNCHANGED <<shop, stored, watermark, scene>>
  BY DEF Checkpoint, Catalogue, Imported
<1>2. /\ r2.offset = offset /\ r2.processed = x.processed /\ r2.errors = x.errors
      /\ r2.status = r.status /\ r2.full = r.full /\ r2.started = r.started
      /\ \A i \in Jobs : i # j => row'[i] = row[i]
  <2>1. row' = [row EXCEPT ![j] = [row[j] EXCEPT !.offset = offset, !.processed = run[j].processed,
                                     !.imported = run[j].imported, !.errors = run[j].errors]]
    BY DEF Checkpoint
  <2> HIDE DEF offset
  <2> QED  BY <1>0, <2>1 DEF Typed, Row
<1>3. /\ y.at = (IF last THEN "matching" ELSE "paging")
      /\ y.offset = offset /\ y.after = x.after /\ y.processed = x.processed /\ y.errors = x.errors
      /\ \A i \in Jobs : i # j => run'[i] = run[i]
  <2>1. run' = [run EXCEPT ![j] = [run[j] EXCEPT !.at = IF last THEN "matching" ELSE "paging",
                                                 !.offset = offset]]
    BY DEF Checkpoint
  <2> HIDE DEF offset, last
  <2> QED  BY <1>0, <2>1 DEF Typed, Run
<1>4. Covers(shop, stored, watermark, r, x, counts)
  BY DEF WatermarkInv, CoverInv
<1>5. r.status = "PROCESSING"
  BY <1>0, JobFacts DEF ImportInv, AtHand, InProgress
<1>6. x.after = After(r, watermark) /\ After(r2, watermark) = After(r, watermark)
  BY <1>0, <1>2, <1>4 DEF Covers, GoesByRow, After, InProgress
<1>7. ASSUME NEW p \in Products, Overdue(shop, stored, r2, p), ~(x.errors > 0)
      PROVE  ~last /\ RankIn(p, Listing(shop, x.after)) > offset
  <2>1. Overdue(shop, stored, r, p)
    BY <1>2, <1>7 DEF Overdue
  <2>2. Beyond(shop, x, p, counts) /\ x.processed = r.processed + PageLimit
    BY <1>0, <1>4, <1>7, <2>1 DEF Covers, RunAhead
  <2>3. /\ RankIn(p, Listing(shop, x.after)) > offset
        /\ counts => x.total > offset
    BY <2>2 DEF Beyond
  <2>4. ~last
    BY <1>0, <2>2, <2>3
  <2> QED  BY <2>3, <2>4
<1> HIDE DEF r2, y, last, offset
<1>8. RowAhead(shop, stored, watermark, r2)
  BY <1>2, <1>4, <1>5, <1>6, <1>7 DEF Covers, RowAhead
<1>9. GoesByRow(shop, watermark, r2, y)
  BY <1>2, <1>3, <1>6 DEF GoesByRow
<1>10. RunAhead(shop, stored, r2, y, counts)
  <2>1. y.at \in {"paging", "matching"}
    BY <1>3
  <2>2. y.at = "matching" => last
    BY <1>3
  <2> QED  BY <1>3, <1>7, <2>1, <2>2 DEF RunAhead
<1>11. Covers(shop, stored, watermark, row'[j], run'[j], counts)
  BY <1>8, <1>9, <1>10 DEF Covers, r2, y
<1> QED  BY <1>1, <1>2, <1>3, <1>11, CoverKept

LEMMA MappingWatermark ==
  ASSUME ImportInv, WatermarkInv, NEW j \in Jobs,
         ReadUnmapped(j) \/ \E p \in Products : MapOne(j, p) \/ NotMapped(j, p)
  PROVE  WatermarkInv'
<1> DEFINE x == run[j]
           y == run'[j]
<1>0. Typed /\ x \in Run
  BY JobFacts DEF ImportInv
<1>1. UNCHANGED <<shop, stored, watermark, scene, row>>
  BY DEF ReadUnmapped, MapOne, NotMapped, Catalogue, Imported
<1>2. /\ x.at \in {"matching", "mapping"} /\ y.at = "mapping"
      /\ y.after = x.after /\ y.errors = x.errors
      /\ \A i \in Jobs : i # j => run'[i] = run[i]
  <2>1. CASE ReadUnmapped(j)
    BY <1>0, <2>1 DEF ReadUnmapped, Typed, Run
  <2>2. ASSUME NEW p \in Products, MapOne(j, p) \/ NotMapped(j, p)
        PROVE  /\ x.at = "mapping" /\ y.at = "mapping"
               /\ y.after = x.after /\ y.errors = x.errors
               /\ \A i \in Jobs : i # j => run'[i] = run[i]
    BY <1>0, <2>2 DEF MapOne, NotMapped, Typed, Run
  <2> QED  BY <2>1, <2>2
<1>3. Covers(shop, stored, watermark, row[j], x, Happens("total"))
  BY DEF WatermarkInv, CoverInv
<1> HIDE DEF x, y
<1>4. Covers(shop, stored, watermark, row[j], y, Happens("total"))
  BY <1>2, <1>3 DEF Covers, GoesByRow, RunAhead, InProgress
<1> QED  BY <1>1, <1>2, <1>4, CoverKept DEF y

\* An import without errors leaves nothing overdue, and one with errors does
\* not touch the watermark.
LEMMA UpdateWatermark ==
  ASSUME ImportInv, WatermarkInv, NEW j \in Jobs, UpdateConnection(j)
  PROVE  WatermarkInv'
<1> DEFINE r == row[j]
           x == run[j]
           counts == Happens("total")
<1>0. /\ Typed /\ r \in Row /\ x \in Run /\ x.at = "mapping" /\ r.started \in Nat
      /\ Overlap \in Nat /\ x.errors \in Nat
      /\ \A p \in Products : shop[p].changed \in Nat
  BY JobFacts, ImportAssumption DEF ImportInv, Typed, Times, Run, UpdateConnection
<1>1. /\ UNCHANGED <<shop, stored, scene, row>>
      /\ watermark' = IF Whole(j) THEN r.started ELSE watermark
  BY DEF UpdateConnection, SyncedThrough, Catalogue
<1>2. run'[j].at = "closing" /\ \A i \in Jobs : i # j => run'[i] = run[i]
  BY <1>0 DEF UpdateConnection, Typed, Run
<1>3. Covers(shop, stored, watermark, r, x, counts)
  BY DEF WatermarkInv, CoverInv
<1>4. r.status = "PROCESSING"
  BY <1>0, JobFacts DEF ImportInv, AtHand, InProgress
<1>5. CASE ~Whole(j)
  <2>1. watermark' = watermark
    BY <1>1, <1>5
  <2>2. Covers(shop, stored, watermark, row'[j], run'[j], counts)
    BY <1>1, <1>2, <1>3, AtRest DEF Covers
  <2> QED  BY <1>1, <1>2, <2>1, <2>2, CoverKept
<1>6. CASE Whole(j)
  <2>0. watermark' = r.started
    BY <1>1, <1>6
  <2>1. \A p \in Products : ~Overdue(shop, stored, r, p)
    BY <1>0, <1>3, <1>6 DEF Covers, RunAhead, Whole
  <2>2. NothingUnlooked'
    BY <1>0, <1>1, <2>0, <2>1 DEF NothingUnlooked, Overdue
  <2>3. ASSUME NEW i \in Jobs
        PROVE  Covers(shop, stored, r.started, row[i], run'[i], counts)
    <3>1. CASE i = j
      <4>1. RowAhead(shop, stored, r.started, r)
        BY <1>0, <2>1 DEF RowAhead
      <4> QED  BY <1>2, <3>1, <4>1, AtRest
    <3>2. CASE i # j
      <4>1. row[i].status # "PROCESSING"
        BY <1>4, <3>2 DEF ImportInv, Worker, OneActive, Active
      <4>2. run[i].at \in {"idle", "closing", "leaving"}
        BY <4>1, JobFacts DEF ImportInv, AtHand, InProgress, Run
      <4>3. RowAhead(shop, stored, r.started, row[i])
        BY <4>1 DEF RowAhead
      <4> QED  BY <1>2, <3>2, <4>2, <4>3, AtRest
    <3> QED  BY <3>1, <3>2
  <2>4. CoverInv'
    BY <1>1, <2>0, <2>3 DEF CoverInv, Happens
  <2> QED  BY <2>2, <2>4 DEF WatermarkInv
<1> QED  BY <1>5, <1>6

LEMMA WatermarkStep ==
  ImportInv /\ WatermarkInv /\ Steady /\ [Next]_vars => WatermarkInv'
<1> SUFFICES ASSUME ImportInv, WatermarkInv, Steady, [Next]_vars PROVE WatermarkInv'
  OBVIOUS
<1>1. CASE Aside
  BY <1>1, ShopWatermark
<1>2. CASE UNCHANGED vars
  BY <1>2, CoverKept DEF vars
<1>3. ASSUME NEW u \in Users,
             \/ \E full \in BOOLEAN : RequestImport(u, full)
             \/ Ask(u) \/ EnqueueFails(u) \/ WebDies(u)
      PROVE  WatermarkInv'
  BY <1>3, RequestWatermark
<1>4. ASSUME NEW j \in Jobs,
             \/ Work(j) \/ BeginFails(j) \/ PageFails(j) \/ PageRefused(j) \/ CatchFails(j)
             \/ (\E p \in Products : NotMapped(j, p))
             \/ LateFails(j) \/ WorkerDies(j) \/ GoStale(j)
      PROVE  WatermarkInv'
  BY <1>4, QuietWatermark, BeginWatermark, BeginFailsWatermark, FetchWatermark, StoreWatermark, CheckpointWatermark,
     MappingWatermark, UpdateWatermark DEF Work
<1> QED  BY <1>1, <1>2, <1>3, <1>4 DEF Next, Aside

\* As long as products disappear between two imports only and no import goes
\* on that was given up, the watermark passes no change that no import saw
\* (import-engine.ts:612): whatever fails, is refused or repeated, however
\* products change between the pages.
THEOREM WatermarkPassesNothing == Spec /\ []Steady => []NothingUnlooked
<1>1. Init => ImportInv /\ WatermarkInv
  BY InitInv, InitWatermark
<1>2. ImportInv /\ WatermarkInv /\ Steady /\ [Next]_vars => (ImportInv /\ WatermarkInv)'
  BY ImportInvStep, WatermarkStep
<1>3. WatermarkInv => NothingUnlooked
  BY DEF WatermarkInv
<1> QED  BY <1>1, <1>2, <1>3, PTL DEF Spec

-----------------------------------------------------------------------------
(* Mappings.  Between its read of what is unmapped and its end an import is *)
(* the only one that stores and maps, unless users do: what is unmapped it  *)
(* still has left, or has missed.                                           *)

Unmapped == {p \in Matching : stored[p] # 0 /\ mapping[p] = "nobody"}

MappedInv ==
  ~Happens("hand") =>
    /\ \A p \in Products : mapping[p] # "user"
    /\ \A j \in Jobs : run[j].at = "mapping" =>
         Unmapped \subseteq run[j].left \cup run[j].missed
    /\ \A j \in Jobs : run[j].at = "closing" => Unmapped \subseteq run[j].missed

\* An import that stores its pages is alone.
LEMMA StoresAlone ==
  ASSUME ImportInv, NEW j \in Jobs, run[j].at = "storing",
         NEW i \in Jobs, run[i].at \in InProgress
  PROVE  i = j
<1>1. row[j].status = "PROCESSING" /\ row[i].status = "PROCESSING"
  BY JobFacts DEF ImportInv, AtHand, InProgress
<1> QED  BY <1>1 DEF ImportInv, Worker, OneActive, Active

\* A step that maps and stores nothing and takes no job to its mapping or end.
LEMMA MappedKept ==
  ASSUME MappedInv, UNCHANGED <<mapping, stored, scene>>,
         \A i \in Jobs : run'[i] = run[i] \/ run'[i].at \notin {"mapping", "closing"}
  PROVE  MappedInv'
<1>1. Unmapped' = Unmapped
  BY DEF Unmapped
<1> QED  BY <1>1 DEF MappedInv, Happens

LEMMA MappedStep == ImportInv /\ MappedInv /\ [Next]_vars => MappedInv'
<1> SUFFICES ASSUME ImportInv, MappedInv, [Next]_vars PROVE MappedInv'
  OBVIOUS
<1> USE DEF Catalogue, Imported
<1>0. Typed /\ \A i \in Jobs : run[i] \in Run
  BY DEF ImportInv, Typed
<1>1. ASSUME NEW p \in Products, MapByHand(p) PROVE MappedInv'
  BY <1>1 DEF MapByHand, MappedInv, Happens
<1>2. CASE Tick \/ UNCHANGED vars \/ \E p \in Products : ChangeProduct(p) \/ RemoveProduct(p)
  <2>1. UNCHANGED <<mapping, stored, scene, run>>
    BY <1>2 DEF Tick, ChangeProduct, RemoveProduct, vars
  <2> QED  BY <2>1, MappedKept
<1>3. ASSUME NEW u \in Users,
             \/ \E full \in BOOLEAN : RequestImport(u, full)
             \/ Ask(u) \/ EnqueueFails(u) \/ WebDies(u)
      PROVE  MappedInv'
  <2>1. UNCHANGED <<mapping, stored, scene, run>>
    BY <1>3 DEF RequestImport, Ask, CreateJob, CreateRefused, Enqueue, EnqueueFails, WebDies
  <2> QED  BY <2>1, MappedKept
<1>4. ASSUME NEW j \in Jobs,
             \/ NothingToDo(j) \/ BeginRefused(j) \/ BeginFails(j) \/ Begin(j) \/ FetchPage(j)
             \/ NothingStored(j) \/ Checkpoint(j) \/ Complete(j) \/ Leave(j) \/ PageFails(j)
             \/ PageRefused(j) \/ CatchFails(j) \/ LateFails(j) \/ WorkerDies(j) \/ GoStale(j)
      PROVE  MappedInv'
  <2>1. UNCHANGED <<mapping, stored, scene>>
    BY <1>4 DEF NothingToDo, BeginRefused, BeginFails, Begin, FetchPage, NothingStored, Checkpoint,
           Complete, Leave, PageFails, PageRefused, CatchFails, LateFails, WorkerDies, GoStale
  <2>2. ASSUME NEW at \in {"idle", "paging", "storing", "matching", "leaving"}, NEW new,
               run' = [run EXCEPT ![j] = new], new.at = at
        PROVE  MappedInv'
    <3>1. \A i \in Jobs : run'[i] = run[i] \/ run'[i].at \notin {"mapping", "closing"}
      BY <1>0, <2>2 DEF Typed
    <3> QED  BY <2>1, <3>1, MappedKept
  <2>3. CASE run' = run
    BY <2>1, <2>3, MappedKept
  <2>4. CASE Retry(j) \/ GiveUp(j)
    <3>1. CASE Retry(j)
      BY <2>2, <3>1 DEF Retry, NoRun
    <3>2. CASE GiveUp(j)
      <4>1. [run[j] EXCEPT !.at = "leaving"].at = "leaving"
        BY <1>0 DEF Run
      <4> QED  BY <2>2, <3>2, <4>1 DEF GiveUp
    <3> QED  BY <2>4, <3>1, <3>2
  <2>5. CASE NothingStored(j) \/ PageFails(j) \/ PageRefused(j) \/ CatchFails(j) \/ LateFails(j)
    BY <2>4, <2>5 DEF NothingStored, PageFails, PageRefused, CatchFails, LateFails
  <2>6. CASE NothingToDo(j) \/ BeginRefused(j) \/ BeginFails(j) \/ GoStale(j)
    BY <2>3, <2>6 DEF NothingToDo, BeginRefused, BeginFails, GoStale
  <2>7. CASE Leave(j) \/ WorkerDies(j)
    BY <2>2, <2>7 DEF Leave, WorkerDies, NoRun
  <2>8. CASE Begin(j)
    <3> DEFINE begun == [NoRun EXCEPT !.at = "paging", !.offset = row[j].offset,
                           !.errors = row[j].errors, !.processed = row[j].processed,
                           !.imported = row[j].imported, !.after = UpdatedAfter(j)]
    <3>1. run' = [run EXCEPT ![j] = begun]
      BY <2>8 DEF Begin
    <3>2. begun.at = "paging"
      BY DEF NoRun
    <3> HIDE DEF begun
    <3> QED  BY <2>2, <3>1, <3>2
  <2>9. CASE Complete(j)
    <3>1. [run[j] EXCEPT !.at = "leaving"].at = "leaving"
      BY <1>0 DEF Run
    <3> QED  BY <2>2, <2>9, <3>1 DEF Complete
  <2>10. CASE FetchPage(j) \/ Checkpoint(j)
    <3>1. \A i \in Jobs : i # j => run'[i] = run[i]
      BY <1>0, <2>10 DEF FetchPage, Checkpoint, Typed
    <3>2. run'[j].at \in {"storing", "matching", "paging"}
      <4>1. CASE FetchPage(j)
        BY <1>0, <4>1 DEF FetchPage, Typed, Run
      <4>2. CASE Checkpoint(j)
        BY <1>0, <4>2 DEF Checkpoint, Typed, Run
      <4> QED  BY <2>10, <4>1, <4>2
    <3> QED  BY <2>1, <3>1, <3>2, MappedKept
  <2> QED  BY <1>4, <2>5, <2>6, <2>7, <2>8, <2>9, <2>10
<1>5. ASSUME NEW j \in Jobs, StorePage(j) PROVE MappedInv'
  <2>1. UNCHANGED <<mapping, scene>> /\ run[j].at = "storing"
    BY <1>5 DEF StorePage
  <2>2. run'[j].at = "counting" /\ \A i \in Jobs : i # j => run'[i] = run[i]
    BY <1>0, <1>5 DEF StorePage, Typed, Run
  <2>3. \A i \in Jobs : run'[i].at \notin {"mapping", "closing"}
    BY <2>1, <2>2, StoresAlone DEF InProgress
  <2> QED  BY <2>1, <2>3 DEF MappedInv, Happens
<1>6. ASSUME NEW j \in Jobs, ReadUnmapped(j) PROVE MappedInv'
  <2>1. UNCHANGED <<mapping, stored, scene>>
    BY <1>6 DEF ReadUnmapped
  <2>2. /\ run'[j].at = "mapping" /\ run'[j].left = Unmapped
        /\ \A i \in Jobs : i # j => run'[i] = run[i]
    <3> DEFINE left == Unmapped
    <3>1. run' = [run EXCEPT ![j] = [run[j] EXCEPT !.at = "mapping", !.left = left]]
      BY <1>6 DEF ReadUnmapped, Unmapped
    <3> HIDE DEF left
    <3>2. run'[j].at = "mapping" /\ run'[j].left = left /\ \A i \in Jobs : i # j => run'[i] = run[i]
      BY <1>0, <3>1 DEF Typed, Run
    <3> QED  BY <3>2 DEF left
  <2>3. Unmapped' = Unmapped
    BY <2>1 DEF Unmapped
  <2> QED  BY <2>1, <2>2, <2>3 DEF MappedInv, Happens
<1>7. ASSUME NEW j \in Jobs, NEW p \in Products, MapOne(j, p) PROVE MappedInv'
  <2>1. UNCHANGED <<stored, scene>> /\ mapping' = [mapping EXCEPT ![p] = Mapped(mapping[p])]
    BY <1>7 DEF MapOne
  <2>2. /\ run'[j].at = "mapping" /\ run[j].at = "mapping" /\ run'[j].left = run[j].left \ {p}
        /\ run'[j].missed = run[j].missed
        /\ \A i \in Jobs : i # j => run'[i] = run[i]
    BY <1>0, <1>7 DEF MapOne, Typed, Run
  <2>3. mapping'[p] # "nobody" /\ (mapping[p] # "user" => mapping'[p] # "user")
        /\ \A q \in Products : q # p => mapping'[q] = mapping[q]
    BY <1>0, <2>1 DEF Mapped, Typed
  <2>4. Unmapped' \subseteq Unmapped \ {p}
    BY <2>1, <2>3, ImportAssumption DEF Unmapped
  <2> QED  BY <2>1, <2>2, <2>3, <2>4 DEF MappedInv, Happens
<1>8. ASSUME NEW j \in Jobs, UpdateConnection(j) PROVE MappedInv'
  <2>1. UNCHANGED <<mapping, stored, scene>> /\ run[j].at = "mapping" /\ run[j].left = {}
    BY <1>8 DEF UpdateConnection
  <2>2. /\ run'[j].at = "closing" /\ run'[j].missed = run[j].missed
        /\ \A i \in Jobs : i # j => run'[i] = run[i]
    BY <1>0, <1>8 DEF UpdateConnection, Typed, Run
  <2>3. Unmapped' = Unmapped
    BY <2>1 DEF Unmapped
  <2> QED  BY <2>1, <2>2, <2>3 DEF MappedInv, Happens
<1>9. ASSUME NEW j \in Jobs, NEW p \in Products, NotMapped(j, p) PROVE MappedInv'
  <2> DEFINE left == run[j].left \ {p}
             missed == run[j].missed \cup {p}
  <2>1. UNCHANGED <<mapping, stored, scene>> /\ run[j].at = "mapping"
    BY <1>9 DEF NotMapped
  <2>2. run' = [run EXCEPT ![j] = [run[j] EXCEPT !.left = left, !.missed = missed]]
    BY <1>9 DEF NotMapped
  <2>3. /\ run'[j].at = "mapping" /\ run'[j].left = left /\ run'[j].missed = missed
        /\ \A i \in Jobs : i # j => run'[i] = run[i]
    <3> HIDE DEF left, missed
    <3> QED  BY <1>0, <2>1, <2>2 DEF Typed, Run
  <2>4. Unmapped' = Unmapped
    BY <2>1 DEF Unmapped
  <2> QED  BY <2>1, <2>3, <2>4 DEF MappedInv, Happens
<1> QED  BY <1>1, <1>2, <1>3, <1>4, <1>5, <1>6, <1>7, <1>8, <1>9 DEF Next, Work

\* No step takes a listing from its user, and only an import that ends with
\* everything mapped but what it missed is completed.
LEMMA SettleStep ==
  ASSUME ImportInv, MappedInv, Next
  PROVE  /\ \A p \in Products : mapping[p] = "user" => mapping'[p] # "import"
         /\ \A j \in Jobs :
              row[j].status # "COMPLETED" /\ row'[j].status = "COMPLETED" /\ ~Happens("hand") =>
                \A p \in Matching \ run[j].missed : stored[p] # 0 => mapping[p] = "import"
<1> DEFINE Kept == \A p \in Products : mapping[p] = "user" => mapping'[p] # "import"
           Open == \A i \in Jobs : row'[i].status = "COMPLETED" => row[i].status = "COMPLETED"
<1>0. Typed /\ \A i \in Jobs : row[i] \in Row
  BY DEF ImportInv, Typed
<1>1. ASSUME NEW p \in Products, MapByHand(p) PROVE Kept /\ Open
  BY <1>0, <1>1 DEF MapByHand, Typed
<1>2. CASE Tick \/ \E p \in Products : ChangeProduct(p) \/ RemoveProduct(p)
  BY <1>2 DEF Tick, ChangeProduct, RemoveProduct, Imported
<1>3. ASSUME NEW u \in Users,
             \/ \E full \in BOOLEAN : RequestImport(u, full)
             \/ Ask(u) \/ EnqueueFails(u) \/ WebDies(u)
      PROVE  Kept /\ Open
  <2>1. mapping' = mapping
    BY <1>3 DEF RequestImport, Ask, CreateJob, CreateRefused, Enqueue, EnqueueFails, WebDies,
           Imported
  <2>2. CASE RequestImport(u, TRUE) \/ RequestImport(u, FALSE) \/ CreateRefused(u) \/ Enqueue(u)
             \/ WebDies(u)
    BY <2>1, <2>2 DEF RequestImport, CreateRefused, Enqueue, WebDies
  <2>3. ASSUME NEW k, NEW new, row' = [row EXCEPT ![k] = new], new.status # "COMPLETED"
        PROVE  Kept /\ Open
    BY <1>0, <2>1, <2>3 DEF Typed
  <2>4. CASE CreateJob(u)
    <3> DEFINE new == [NoRow EXCEPT !.status = "PENDING", !.full = request[u].full]
    <3>1. row' = [row EXCEPT ![NextJob] = new]
      BY <2>4 DEF CreateJob
    <3>2. new.status # "COMPLETED"
      BY DEF NoRow
    <3> HIDE DEF new
    <3> QED  BY <2>3, <3>1, <3>2
  <2>5. CASE EnqueueFails(u)
    <3>1. NoRow.status # "COMPLETED"
      BY DEF NoRow
    <3> QED  BY <2>3, <2>5, <3>1 DEF EnqueueFails
  <2> QED  BY <1>3, <2>2, <2>4, <2>5 DEF Ask
<1>4. ASSUME NEW j \in Jobs, NEW p \in Products, MapOne(j, p) \/ NotMapped(j, p)
      PROVE  Kept /\ Open
  BY <1>0, <1>4 DEF MapOne, NotMapped, Mapped, Typed, Imported
<1>5. ASSUME NEW j \in Jobs,
             \/ NothingToDo(j) \/ BeginRefused(j) \/ BeginFails(j) \/ Begin(j) \/ FetchPage(j)
             \/ StorePage(j) \/ NothingStored(j) \/ Checkpoint(j) \/ ReadUnmapped(j)
             \/ UpdateConnection(j) \/ Leave(j) \/ PageFails(j) \/ PageRefused(j)
             \/ CatchFails(j) \/ LateFails(j) \/ WorkerDies(j)
             \/ GoStale(j)
      PROVE  Kept /\ Open
  <2>1. mapping' = mapping
    BY <1>5 DEF NothingToDo, BeginRefused, BeginFails, Begin, FetchPage, StorePage, NothingStored,
           Checkpoint, ReadUnmapped, UpdateConnection, Leave, PageFails, PageRefused, CatchFails,
           LateFails, WorkerDies, GoStale, Imported
  <2>2. CASE UNCHANGED row
    BY <2>1, <2>2
  <2>3. ASSUME NEW new, row' = [row EXCEPT ![j] = new],
               new.status = "COMPLETED" => row[j].status = "COMPLETED"
        PROVE  Kept /\ Open
    BY <1>0, <2>1, <2>3 DEF Typed
  <2>4. CASE GiveUp(j)
    <3> DEFINE s == IF run[j].imported > 0 THEN "PARTIAL" ELSE "FAILED"
               new == [row[j] EXCEPT !.status = s]
    <3>1. row' = [row EXCEPT ![j] = new] /\ s # "COMPLETED"
      BY <2>4 DEF GiveUp
    <3>2. new.status = s
      BY <1>0 DEF Row
    <3> HIDE DEF new, s
    <3> QED  BY <2>3, <3>1, <3>2
  <2>5. CASE Started(j)
    BY <2>1, <2>5, StartedRow, <1>0
  <2>6. CASE Checkpoint(j)
    <3> DEFINE offset == run[j].offset + PageLimit
               new == [row[j] EXCEPT !.offset = offset, !.processed = run[j].processed,
                                     !.imported = run[j].imported, !.errors = run[j].errors]
    <3>1. row' = [row EXCEPT ![j] = new]
      BY <1>0, <2>6 DEF Checkpoint, Typed
    <3>2. new.status = row[j].status
      <4> HIDE DEF offset
      <4> QED  BY <1>0 DEF Row
    <3> HIDE DEF new
    <3> QED  BY <2>3, <3>1, <3>2
  <2>7. CASE GoStale(j)
    <3>1. [row[j] EXCEPT !.stale = TRUE].status = row[j].status
      BY <1>0 DEF Row
    <3> QED  BY <2>3, <2>7, <3>1 DEF GoStale
  <2> QED
    BY <1>5, <2>2, <2>4, <2>5, <2>6, <2>7 DEF NothingToDo, BeginRefused, BeginFails, Begin,
       FetchPage, StorePage, NothingStored, ReadUnmapped, UpdateConnection, Leave, PageFails,
       PageRefused, CatchFails, LateFails, WorkerDies, Retry
<1>6. ASSUME NEW j \in Jobs, Complete(j)
      PROVE  /\ Kept
             /\ ~Happens("hand") =>
                  \A p \in Matching \ run[j].missed : stored[p] # 0 => mapping[p] = "import"
             /\ \A i \in Jobs : i # j => row'[i] = row[i]
  <2>1. mapping' = mapping /\ run[j].at = "closing"
    BY <1>6 DEF Complete, Imported
  <2>2. ASSUME ~Happens("hand"), NEW p \in Matching \ run[j].missed, stored[p] # 0
        PROVE  mapping[p] = "import"
    <3>1. p \in Products /\ mapping[p] \in {"nobody", "user", "import"}
      BY <1>0, ImportAssumption DEF Typed
    <3> QED  BY <2>1, <2>2, <3>1 DEF MappedInv, Unmapped
  <2>3. \A i \in Jobs : i # j => row'[i] = row[i]
    BY <1>0, <1>6 DEF Complete, Typed
  <2> QED  BY <2>1, <2>2, <2>3
<1> HIDE DEF Kept, Open
<1>7. CASE Kept /\ Open
  BY <1>7 DEF Kept, Open
<1>8. CASE \E j \in Jobs : Complete(j)
  BY <1>6, <1>8 DEF Kept
<1> QED  BY <1>1, <1>2, <1>3, <1>4, <1>5, <1>7, <1>8 DEF Next, Work

\* An import never takes a listing from the user who mapped it
\* (import-engine.ts:228), and ends completed only with every stored listing
\* mapped that has a variant, but for those whose insert failed in its last
\* attempt, unless users unmap.
THEOREM MappingsAlwaysSettle == Spec => MappingsSettle
<1>1. Init => ImportInv /\ MappedInv
  <2>1. ASSUME Init PROVE MappedInv
    BY <2>1 DEF Init, MappedInv, NoRun
  <2> QED  BY <2>1, InitInv
<1>2. ImportInv /\ MappedInv /\ [Next]_vars => (ImportInv /\ MappedInv)'
  BY ImportInvStep, MappedStep
<1> DEFINE Settled ==
      /\ \A p \in Products : mapping[p] = "user" => mapping'[p] # "import"
      /\ \A j \in Jobs :
           row[j].status # "COMPLETED" /\ row'[j].status = "COMPLETED" /\ ~Happens("hand") =>
             \A p \in Matching \ run[j].missed : stored[p] # 0 => mapping[p] = "import"
<1>3. ImportInv /\ MappedInv /\ [Next]_vars => [Settled]_vars
  BY SettleStep
<1>4. Spec => [][Settled]_vars
  <2> HIDE DEF Settled
  <2> QED  BY <1>1, <1>2, <1>3, PTL DEF Spec
<1> QED  BY <1>4 DEF MappingsSettle
=============================================================================
