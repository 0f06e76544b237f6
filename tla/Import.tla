------------------------------- MODULE Import -------------------------------
(***************************************************************************)
(* Importing the listings of one store: users ask for an import, a job of  *)
(* the worker pages through the store's catalogue, stores what it sees,    *)
(* maps it by SKU and, if it has seen everything, moves the watermark up   *)
(* to which later imports need not look back.                              *)
(*                                                                         *)
(* A job may fail or die at any statement; the queue hands it out again    *)
(* and it goes on from the checkpoint in its row.  The catalogue changes   *)
(* meanwhile: a page is what stands at an offset at that moment.  A        *)
(* product has one SKU here; products are ordered as the provider lists    *)
(* them.                                                                   *)
(***************************************************************************)
EXTENDS Naturals, FiniteSets

CONSTANTS
  Products,     \* of the store, in listing order
  Changing,     \* products that appear later, and change
  Matching,     \* products whose SKU is the SKU of a variant
  Bad,          \* products the database refuses to store
  Users,
  PageLimit,    \* products per page
  Overlap,      \* an import looks that many ticks back behind the watermark
  MaxAttempts,  \* attempts the queue gives a job
  MaxStalls,    \* times the queue takes a job back from a dead worker
  Scenes,       \* bound: what happens in one behaviour
  MaxJobs,      \* bound on the imports
  MaxTime       \* bound on the clock

\* change: Changing do; remove: products disappear between two imports;
\* shrink: at any moment; total: the provider counts what it lists; bad: Bad
\* matters; full: users ask for everything again; hand: users map products;
\* fail: calls fail in the paging loop; outside: where nothing catches them;
\* crash: the worker dies; lost: the web process dies; mishaps bounds the last
\* four.
Scene == [users : SUBSET Users, mishaps : Nat,
          parts : SUBSET {"change", "remove", "shrink", "total", "bad", "full",
                          "hand", "fail", "outside", "crash", "lost"}]

ASSUME ImportAssumption ==
  /\ Products \subseteq Nat /\ IsFiniteSet(Products) /\ Changing \subseteq Products
  /\ Matching \subseteq Products /\ Bad \subseteq Products
  /\ PageLimit \in Nat \ {0} /\ MaxAttempts \in Nat \ {0}
  /\ Overlap \in Nat /\ MaxStalls \in Nat /\ MaxJobs \in Nat /\ MaxTime \in Nat \ {0}
  /\ Scenes \subseteq Scene

Jobs == 1..MaxJobs
Times == 0..MaxTime

VARIABLES
  shop,       \* the store's products and when each last changed
  stored,     \* the change of each product that is imported, 0 for none
  mapping,    \* who mapped each product: nobody, the import, or a user
  watermark,  \* listingsSyncedThrough, 0 for never
  row,        \* the MarketplaceImportJob rows
  queue,      \* their jobs in the queue
  run,        \* what the worker has in hand for each of them
  request,    \* what each user's request is at
  clock,
  mishaps,
  scene

vars == <<shop, stored, mapping, watermark, row, queue, run, request, clock, mishaps, scene>>

Active == {"PENDING", "PROCESSING"}
Row == [status : Active \cup {"none", "COMPLETED", "PARTIAL", "FAILED"},
        full : BOOLEAN, offset : Nat, processed : Nat, imported : Nat, errors : Nat,
        started : Times, stale : BOOLEAN]
NoRow == [status |-> "none", full |-> FALSE, offset |-> 0, processed |-> 0,
          imported |-> 0, errors |-> 0, started |-> 0, stale |-> FALSE]

\* A lost job is one whose worker died once too often.
Queued == [state : {"none", "waiting", "active", "lost"}, tries : 0..MaxAttempts, stalls : 0..MaxStalls]
NotQueued == [state |-> "none", tries |-> 0, stalls |-> 0]

\* page: the changes of the products on the page, 0 for the others; missed:
\* products that could not be mapped.
Run == [at : {"idle", "paging", "storing", "counting", "matching", "mapping",
              "closing", "leaving"},
        offset : Nat, processed : Nat, imported : Nat, errors : Nat,
        after : Times, page : [Products -> Times], total : Nat, left : SUBSET Products,
        missed : SUBSET Products]
EmptyPage == [p \in Products |-> 0]
NoRun == [at |-> "idle", offset |-> 0, processed |-> 0, imported |-> 0, errors |-> 0,
          after |-> 0, page |-> EmptyPage, total |-> 0, left |-> {}, missed |-> {}]

Request == [at : {"idle", "checked", "created"}, full : BOOLEAN, job : 0..MaxJobs]
NoRequest == [at |-> "idle", full |-> FALSE, job |-> 0]

OnPage(page) == {p \in Products : page[p] # 0}

TypeOK ==
  /\ shop \in [Products -> [listed : BOOLEAN, changed : Times]]
  /\ stored \in [Products -> Times]
  /\ mapping \in [Products -> {"nobody", "import", "user"}]
  /\ watermark \in 0..clock
  /\ row \in [Jobs -> Row] /\ queue \in [Jobs -> Queued] /\ run \in [Jobs -> Run]
  /\ \A j \in Jobs : Cardinality(OnPage(run[j].page)) <= PageLimit
  /\ Cardinality({j \in Jobs : row[j].status \in Active}) <= 1
  /\ request \in [Users -> Request]
  /\ clock \in Times /\ scene \in Scenes /\ mishaps \in 0..scene.mishaps

Init ==
  /\ shop = [p \in Products |-> [listed |-> p \notin Changing, changed |-> 1]]
  /\ stored = [p \in Products |-> 0]
  /\ mapping = [p \in Products |-> "nobody"]
  /\ watermark = 0
  /\ row = [j \in Jobs |-> NoRow]
  /\ queue = [j \in Jobs |-> NotQueued]
  /\ run = [j \in Jobs |-> NoRun]
  /\ request = [u \in Users |-> NoRequest]
  /\ clock = 1
  /\ mishaps = 0
  /\ scene \in Scenes

Happens(part) == part \in scene.parts
Mishap(part) ==
  Happens(part) /\ mishaps < scene.mishaps /\ mishaps' = mishaps + 1

Catalogue == <<shop, clock>>
Imported == <<stored, mapping, watermark>>

-----------------------------------------------------------------------------
(* The store.                                                              *)

ChangeProduct(p) ==
  /\ Happens("change") /\ p \in Changing
  /\ shop[p].changed < clock
  /\ shop' = [shop EXCEPT ![p] = [listed |-> TRUE, changed |-> clock]]
  /\ UNCHANGED <<Imported, row, queue, run, request, clock, mishaps, scene>>

RemoveProduct(p) ==
  /\ shop[p].listed
  /\ \/ Happens("shrink")
     \/ Happens("remove") /\ \A j \in Jobs : row[j].status \notin Active
  /\ shop' = [shop EXCEPT ![p].listed = FALSE]
  /\ UNCHANGED <<Imported, row, queue, run, request, clock, mishaps, scene>>

Tick ==
  /\ clock < MaxTime
  /\ clock' = clock + 1
  /\ UNCHANGED <<shop, Imported, row, queue, run, request, mishaps, scene>>

\* mapListing and unmapListing.
MapByHand(p) ==
  /\ Happens("hand") /\ stored[p] # 0
  /\ mapping' = [mapping EXCEPT ![p] = IF @ = "user" THEN "nobody" ELSE "user"]
  /\ UNCHANGED <<Catalogue, stored, watermark, row, queue, run, request, mishaps, scene>>

-----------------------------------------------------------------------------
(* Asking for an import.                                                   *)

Unused == {j \in Jobs : row[j].status = "none" /\ queue[j].state = "none"}
NextJob == CHOOSE j \in Unused : \A i \in Unused : j <= i

\* findActiveJob finds none: it takes a row that has not been touched for
\* long for dead.
NoLiveJob == \A j \in Jobs : row[j].status \in Active => row[j].stale

RequestImport(u, full) ==
  /\ u \in scene.users /\ request[u] = NoRequest
  /\ full => Happens("full")
  /\ NoLiveJob /\ Unused # {}
  /\ request' = [request EXCEPT ![u] = [at |-> "checked", full |-> full, job |-> 0]]
  /\ UNCHANGED <<Catalogue, Imported, row, queue, run, mishaps, scene>>

\* Faulty Vacant: no index, one row per idle queue.
VacantQueue(j) == \A i \in Jobs \ {j} : queue[i].state = "none"

\* The index that allows one active row per connection.
Vacant(j) == \A i \in Jobs \ {j} : row[i].status \notin Active

CreateJob(u) ==
  /\ request[u].at = "checked" /\ Unused # {}
  /\ Vacant(NextJob)
  /\ row' = [row EXCEPT ![NextJob] = [NoRow EXCEPT !.status = "PENDING",
                                                   !.full = request[u].full]]
  /\ request' = [request EXCEPT ![u].at = "created", ![u].job = NextJob]
  /\ UNCHANGED <<Catalogue, Imported, queue, run, mishaps, scene>>

\* Another request was faster: attached to its job, or refused.
CreateRefused(u) ==
  /\ request[u].at = "checked"
  /\ \E j \in Jobs : row[j].status \in Active
  /\ request' = [request EXCEPT ![u] = NoRequest]
  /\ UNCHANGED <<Catalogue, Imported, row, queue, run, mishaps, scene>>

Enqueue(u) ==
  /\ request[u].at = "created"
  /\ queue' = [queue EXCEPT ![request[u].job] = [NotQueued EXCEPT !.state = "waiting"]]
  /\ request' = [request EXCEPT ![u] = NoRequest]
  /\ UNCHANGED <<Catalogue, Imported, row, run, mishaps, scene>>

\* The queue did not answer: the row is dropped, the job may be there.
EnqueueFails(u) ==
  /\ request[u].at = "created" /\ Mishap("fail")
  /\ queue' \in {queue, [queue EXCEPT ![request[u].job].state = "waiting"]}
  /\ row' = [row EXCEPT ![request[u].job] = NoRow]
  /\ request' = [request EXCEPT ![u] = NoRequest]
  /\ UNCHANGED <<Catalogue, Imported, run, scene>>

WebDies(u) ==
  /\ request[u] # NoRequest /\ Mishap("lost")
  /\ request' = [request EXCEPT ![u] = NoRequest]
  /\ UNCHANGED <<Catalogue, Imported, row, queue, run, scene>>

\* Twenty minutes pass on a row nobody works on.
GoStale(j) ==
  /\ row[j].status \in Active /\ ~row[j].stale
  /\ queue[j].state \in {"none", "lost"} /\ \A u \in Users : request[u].job # j
  /\ row' = [row EXCEPT ![j].stale = TRUE]
  /\ UNCHANGED <<Catalogue, Imported, queue, run, request, mishaps, scene>>

-----------------------------------------------------------------------------
(* A job of the worker.  A job whose worker died can be handed out again    *)
(* after its row is finished.                                               *)

NothingToDo(j) ==
  /\ queue[j].state = "waiting" /\ row[j].status \in {"none", "COMPLETED"}
  /\ queue' = [queue EXCEPT ![j] = NotQueued]
  /\ UNCHANGED <<Catalogue, Imported, row, run, request, mishaps, scene>>

\* Faulty LastAttempt: it counts the attempts before this one only.
LastAttemptOffByOne(j) == queue[j].tries >= MaxAttempts

LastAttempt(j) == queue[j].tries + 1 >= MaxAttempts

\* The job throws: the queue tries again, or drops it.
Rethrow(j) ==
  queue' = [queue EXCEPT ![j] = IF queue[j].tries + 1 < MaxAttempts
                                THEN [queue[j] EXCEPT !.state = "waiting",
                                                      !.tries = queue[j].tries + 1]
                                ELSE NotQueued]

\* A finished row cannot become active beside another one.
BeginRefused(j) ==
  /\ queue[j].state = "waiting" /\ row[j].status \notin {"none", "COMPLETED"}
  /\ ~Vacant(j)
  /\ Rethrow(j)
  /\ UNCHANGED <<Catalogue, Imported, row, run, request, mishaps, scene>>

UpdatedAfter(j) ==
  IF row[j].full \/ watermark <= Overlap THEN 0 ELSE watermark - Overlap

Started(j) ==
  /\ row[j].status \notin {"none", "COMPLETED"} /\ Vacant(j)
  /\ row' = [row EXCEPT ![j].status = "PROCESSING", ![j].stale = FALSE,
                        ![j].started = IF @ = 0 THEN clock ELSE @]

\* Reading the row, starting it, or the token fails: the job throws.
BeginFails(j) ==
  /\ queue[j].state = "waiting" /\ Mishap("outside")
  /\ Started(j) \/ UNCHANGED row
  /\ Rethrow(j)
  /\ UNCHANGED <<Catalogue, Imported, run, request, scene>>

Begin(j) ==
  /\ queue[j].state = "waiting"
  /\ Started(j)
  /\ queue' = [queue EXCEPT ![j].state = "active"]
  /\ run' = [run EXCEPT ![j] =
       [NoRun EXCEPT !.at = "paging", !.offset = row[j].offset, !.errors = row[j].errors,
                     !.processed = row[j].processed, !.imported = row[j].imported,
                     !.after = UpdatedAfter(j)]]
  /\ UNCHANGED <<Catalogue, Imported, request, mishaps, scene>>

\* What the provider lists as changed since then, and what of it is on the
\* page at an offset.
Filtered(after) == {p \in Products : shop[p].listed /\ shop[p].changed >= after}
At(after, offset) ==
  {p \in Filtered(after) :
     Cardinality({q \in Filtered(after) : q <= p}) \in (offset + 1)..(offset + PageLimit)}

FetchPage(j) ==
  /\ run[j].at = "paging"
  /\ LET seen == At(run[j].after, run[j].offset) IN
       run' = [run EXCEPT ![j].at = "storing",
                          ![j].total = Cardinality(Filtered(run[j].after)),
                          ![j].page = [p \in Products |-> IF p \in seen THEN shop[p].changed
                                                                        ELSE 0]]
  /\ UNCHANGED <<Catalogue, Imported, row, queue, request, mishaps, scene>>

Refused == IF Happens("bad") THEN Bad ELSE {}

\* The page at once or, if that fails, row by row.
StorePage(j) ==
  LET seen == OnPage(run[j].page)
      good == seen \ Refused
  IN
  /\ run[j].at = "storing"
  /\ seen = {} \/ good # {}
  /\ stored' = [p \in Products |-> IF p \in good THEN run[j].page[p] ELSE stored[p]]
  /\ run' = [run EXCEPT ![j].at = "counting", ![j].page = EmptyPage,
                        ![j].imported = @ + Cardinality(good),
                        ![j].errors = @ + Cardinality(seen \ good),
                        ![j].processed = @ + Cardinality(seen)]
  /\ UNCHANGED <<Catalogue, mapping, watermark, row, queue, request, mishaps, scene>>

\* The loop ends with a short page or with the last that the provider counts.
\* That at least one listing was stored if one was refused holds by now.
Checkpoint(j) ==
  LET offset == run[j].offset + PageLimit
      short == run[j].processed - row[j].processed < PageLimit
      last == short \/ (Happens("total") /\ offset >= run[j].total)
  IN
  /\ run[j].at = "counting"
  /\ row' = [row EXCEPT ![j].offset = offset, ![j].processed = run[j].processed,
                        ![j].imported = run[j].imported, ![j].errors = run[j].errors]
  /\ run' = [run EXCEPT ![j].at = IF last THEN "matching" ELSE "paging",
                        ![j].offset = offset]
  /\ UNCHANGED <<Catalogue, Imported, queue, request, mishaps, scene>>

\* autoMapImported: what is not mapped is read first, then mapped one by one;
\* a listing has one mapping, whoever is first.
ReadUnmapped(j) ==
  /\ run[j].at = "matching"
  /\ run' = [run EXCEPT ![j].at = "mapping",
       ![j].left = {p \in Matching : stored[p] # 0 /\ mapping[p] = "nobody"}]
  /\ UNCHANGED <<Catalogue, Imported, row, queue, request, mishaps, scene>>

\* Faulty Mapped: an upsert.
MappedOver(old) == "import"

Mapped(old) == IF old = "nobody" THEN "import" ELSE old

MapOne(j, p) ==
  /\ run[j].at = "mapping" /\ p \in run[j].left
  /\ mapping' = [mapping EXCEPT ![p] = Mapped(@)]
  /\ run' = [run EXCEPT ![j].left = @ \ {p}]
  /\ UNCHANGED <<Catalogue, stored, watermark, row, queue, request, mishaps, scene>>

\* Whatever fails the insert is taken for a race that was lost.
NotMapped(j, p) ==
  /\ run[j].at = "mapping" /\ p \in run[j].left /\ Mishap("outside")
  /\ run' = [run EXCEPT ![j].left = @ \ {p}, ![j].missed = @ \cup {p}]
  /\ UNCHANGED <<Catalogue, Imported, row, queue, request, scene>>

\* reachedWholeWindow
Whole(j) ==
  /\ Happens("total") => run[j].processed >= run[j].total
  /\ run[j].errors = 0

\* Faulty SyncedThrough: the end of the import instead of its start.
SyncedThroughNow(j) == clock

SyncedThrough(j) == row[j].started

UpdateConnection(j) ==
  /\ run[j].at = "mapping" /\ run[j].left = {}
  /\ watermark' = IF Whole(j) THEN SyncedThrough(j) ELSE watermark
  /\ run' = [run EXCEPT ![j].at = "closing"]
  /\ UNCHANGED <<Catalogue, stored, mapping, row, queue, request, mishaps, scene>>

Complete(j) ==
  /\ run[j].at = "closing"
  /\ row' = [row EXCEPT ![j].status = "COMPLETED", ![j].offset = 0]
  /\ run' = [run EXCEPT ![j].at = "leaving"]
  /\ UNCHANGED <<Catalogue, Imported, queue, request, mishaps, scene>>

Leave(j) ==
  /\ run[j].at = "leaving"
  /\ queue' = [queue EXCEPT ![j] = NotQueued]
  /\ run' = [run EXCEPT ![j] = NoRun]
  /\ UNCHANGED <<Catalogue, Imported, row, request, mishaps, scene>>

-----------------------------------------------------------------------------
(* What goes wrong under the worker.                                        *)

Retry(j) ==
  /\ Rethrow(j)
  /\ run' = [run EXCEPT ![j] = NoRun]
  /\ UNCHANGED row

GiveUp(j) ==
  /\ row' = [row EXCEPT ![j].status = IF run[j].imported > 0 THEN "PARTIAL" ELSE "FAILED"]
  /\ run' = [run EXCEPT ![j].at = "leaving"]
  /\ UNCHANGED queue

\* A throttle, an outage, a time-out: the next attempt goes on from the row.
PageFails(j) ==
  /\ run[j].at \in {"paging", "storing", "counting"} /\ Mishap("fail")
  /\ IF LastAttempt(j) THEN GiveUp(j) ELSE Retry(j)
  /\ UNCHANGED <<Catalogue, Imported, request, scene>>

PageRefused(j) ==
  /\ run[j].at = "paging" /\ Mishap("fail")
  /\ GiveUp(j)
  /\ UNCHANGED <<Catalogue, Imported, request, scene>>

\* Not one listing of the page can be stored.
NothingStored(j) ==
  /\ run[j].at = "storing"
  /\ OnPage(run[j].page) # {} /\ OnPage(run[j].page) \subseteq Refused
  /\ IF LastAttempt(j) THEN GiveUp(j) ELSE Retry(j)
  /\ UNCHANGED <<Catalogue, Imported, request, mishaps, scene>>

\* Closing or noting a failed page fails itself, which nothing catches.
CatchFails(j) ==
  /\ run[j].at \in {"paging", "storing", "counting"} /\ Mishap("outside")
  /\ Retry(j)
  /\ UNCHANGED <<Catalogue, Imported, request, scene>>

\* Nor does anything after the loop, but for the inserts of mappings.
LateFails(j) ==
  /\ \/ run[j].at \in {"matching", "closing"}
     \/ run[j].at = "mapping" /\ run[j].left = {}
  /\ Mishap("outside")
  /\ Retry(j)
  /\ UNCHANGED <<Catalogue, Imported, request, scene>>

WorkerDies(j) ==
  /\ run[j].at # "idle" /\ Mishap("crash")
  /\ queue' = [queue EXCEPT ![j] = IF queue[j].stalls < MaxStalls
                                   THEN [queue[j] EXCEPT !.state = "waiting",
                                                         !.stalls = queue[j].stalls + 1]
                                   ELSE [NotQueued EXCEPT !.state = "lost"]]
  /\ run' = [run EXCEPT ![j] = NoRun]
  /\ UNCHANGED <<Catalogue, Imported, row, request, scene>>

-----------------------------------------------------------------------------

Work(j) ==
  \/ NothingToDo(j) \/ BeginRefused(j) \/ Begin(j)
  \/ FetchPage(j) \/ StorePage(j) \/ NothingStored(j) \/ Checkpoint(j)
  \/ ReadUnmapped(j) \/ (\E p \in Products : MapOne(j, p))
  \/ UpdateConnection(j) \/ Complete(j) \/ Leave(j)

Ask(u) == CreateJob(u) \/ CreateRefused(u) \/ Enqueue(u)

Next ==
  \/ \E p \in Products : ChangeProduct(p) \/ RemoveProduct(p) \/ MapByHand(p)
  \/ Tick
  \/ \E u \in Users : \/ \E full \in BOOLEAN : RequestImport(u, full)
                      \/ Ask(u) \/ EnqueueFails(u) \/ WebDies(u)
  \/ \E j \in Jobs : \/ Work(j) \/ BeginFails(j) \/ PageFails(j) \/ PageRefused(j)
                     \/ CatchFails(j) \/ (\E p \in Products : NotMapped(j, p))
                     \/ LateFails(j) \/ WorkerDies(j) \/ GoStale(j)

Spec == Init /\ [][Next]_vars

\* The worker takes what is queued and gets on with what it took; a request
\* under way is answered; time passes.
FairSpec ==
  /\ Spec
  /\ \A j \in Jobs : WF_vars(Work(j)) /\ WF_vars(GoStale(j))
  /\ \A u \in Users : WF_vars(Ask(u))

-----------------------------------------------------------------------------

\* The next incremental import looks at every product that is not stored as
\* it stands: the watermark (import-engine.ts:612) never passes a change that
\* no import saw, whatever fails, is repeated or changes between the pages.
NothingUnlooked ==
  \A p \in Products :
    shop[p].listed /\ stored[p] # shop[p].changed => watermark <= shop[p].changed + Overlap

\* An import does not take a listing from the user who mapped it, even one
\* who was faster by a moment (import-engine.ts:228), and completes with every
\* stored listing mapped that has a variant, those included that attempts and
\* imports before it missed: only an insert that failed in its last attempt
\* leaves one out. Where users unmap, the second half says nothing.
MappingsSettle ==
  [][/\ \A p \in Products : mapping[p] = "user" => mapping'[p] # "import"
     /\ \A j \in Jobs :
          row[j].status # "COMPLETED" /\ row'[j].status = "COMPLETED" /\ ~Happens("hand") =>
            \A p \in Matching \ run[j].missed : stored[p] # 0 => mapping[p] = "import"]_vars

\* An import that has been asked for ends, with all, a part or nothing of the
\* catalogue (import-engine.ts:575), whatever fails in its pages and in
\* however many attempts. It is left for dead only if its worker died once too
\* often, if the process that creates it died, or if something failed where
\* nothing catches it (before the loop, in its catch, after it).
EveryImportEnds ==
  \A j \in Jobs :
    row[j].status \in Active ~>
      \/ row[j].status \notin Active
      \/ /\ row[j].stale
         /\ queue[j].state = "lost" \/ Happens("outside") \/ Happens("lost")

\* Whoever asks for an import gets a new one or is attached to one that may
\* still run: a dead job "never wedges new imports"
\* (marketplace-import-job.service.ts:15).
NeverWedged ==
  \A u \in Users :
    request[u].at = "checked" ~> \E j \in Jobs : row[j].status \in Active /\ ~row[j].stale

=============================================================================
