----------------------------- MODULE Connection -----------------------------
(***************************************************************************)
(* The connection to one marketplace store: its OAuth tokens, which every  *)
(* pull, push and token job refreshes on its own when it has to, and the   *)
(* cursor up to which orders have been pulled.                             *)
(*                                                                         *)
(* The provider rotates the refresh token: generation n of the tokens can  *)
(* be traded once, for generation n + 1.  It lists an order change only    *)
(* some time after it happened, and may cut a listing short.  Everybody at *)
(* work reads the connection once, at the beginning, and works from that.  *)
(***************************************************************************)
EXTENDS Naturals, FiniteSets

CONSTANTS
  OrderIds,
  Pullers,      \* callers of pullAndApplyConnection: scheduler, webhook, staff
  Pushers,      \* sync jobs of the worker
  Refreshers,   \* the daily token job, the refresh button
  Scenes,       \* bound: who is at work and what happens in one behaviour
  Lag,          \* the provider lists a change that many ticks late at most
  Overlap,      \* a pull asks that many ticks back behind the cursor
  MaxTime,      \* bound on the clock
  MaxGen,       \* bound on the generations of the tokens
  MaxMishaps    \* bound on processes that die

Actors == Pullers \cup Pushers \cup Refreshers

\* Who is at work, which orders change while time passes, and what else happens.
\* tokens: they run out; owner: disconnects and authorizes; race: may do so while
\* tokens are being renewed; overlap: two pulls of the store may be under way;
\* crash: processes die.
Scene == [actors : SUBSET Actors, orders : SUBSET OrderIds,
          parts : SUBSET {"tokens", "owner", "race", "overlap", "crash"}]

ASSUME ConnectionAssumption ==
  /\ Lag \in Nat /\ Overlap \in Nat /\ Lag <= Overlap
  /\ MaxTime \in Nat \ {0} /\ MaxGen \in Nat \ {0} /\ MaxMishaps \in Nat
  /\ Scenes \subseteq Scene

VARIABLES
  conn,      \* the MarketplaceConnection row
  provider,  \* the generation that can be refreshed, the last that has lapsed
  change,    \* when each order last changed at the marketplace, and as listed
  mirror,    \* the change of each order that is stored
  op,        \* what each actor is at
  clock,
  mishaps,   \* processes that died so far (bound only)
  orphaned,  \* a new generation was lost before it was stored (history)
  scene      \* the scene of this behaviour; it never changes

vars == <<conn, provider, change, mirror, op, clock, mishaps, orphaned, scene>>

Gens == 0..MaxGen
Times == 0..MaxTime

\* Both tokens are of one generation; soon: the stored expiry is near.
Conn == [active : BOOLEAN, tokens : Gens, soon : BOOLEAN, cursor : Times, cooling : BOOLEAN]

Points == {"idle", "loaded", "renewing", "renewed", "calling", "storing"}

Op == [at : Points, tokens : Gens, access : Gens, soon : BOOLEAN, cursor : Times,
       full : BOOLEAN, again : BOOLEAN, began : Times,
       page : [OrderIds -> Times], whole : BOOLEAN]

EmptyPage == [o \in OrderIds |-> 0]
Idle == [at |-> "idle", tokens |-> 0, access |-> 0, soon |-> FALSE, cursor |-> 0,
         full |-> FALSE, again |-> FALSE, began |-> 0, page |-> EmptyPage, whole |-> FALSE]

TypeOK ==
  /\ conn \in Conn
  /\ provider \in [gen : Gens, lapsed : Gens]
  /\ change \in [OrderIds -> [made : Times, listed : Times]]
  /\ mirror \in [OrderIds -> Times]
  /\ op \in [Actors -> Op]
  /\ clock \in Times /\ mishaps \in 0..MaxMishaps /\ orphaned \in BOOLEAN
  /\ scene \in Scenes

Init ==
  /\ conn = [active |-> TRUE, tokens |-> 1, soon |-> FALSE, cursor |-> 0, cooling |-> FALSE]
  /\ provider = [gen |-> 1, lapsed |-> 0]
  /\ change = [o \in OrderIds |-> [made |-> 0, listed |-> 0]]
  /\ mirror = [o \in OrderIds |-> 0]
  /\ op = [a \in Actors |-> Idle]
  /\ clock = 1
  /\ mishaps = 0
  /\ orphaned = FALSE
  /\ scene \in Scenes

Happens(part) == part \in scene.parts
Marketplace == <<provider, change, clock>>
Go(a, point) == op' = [op EXCEPT ![a].at = point]
Stop(a) == op' = [op EXCEPT ![a] = Idle]

-----------------------------------------------------------------------------
(* The marketplace and time.                                               *)

ChangeOrder(o) ==
  /\ o \in scene.orders /\ change[o].made < clock
  /\ change' = [change EXCEPT ![o].made = clock]
  /\ UNCHANGED <<conn, provider, mirror, op, clock, mishaps, orphaned, scene>>

ListChange(o) ==
  /\ change[o].listed # change[o].made
  /\ change' = [change EXCEPT ![o].listed = change[o].made]
  /\ UNCHANGED <<conn, provider, mirror, op, clock, mishaps, orphaned, scene>>

Tick ==
  /\ scene.orders # {} /\ clock < MaxTime
  /\ \A o \in OrderIds : change[o].listed # change[o].made => clock < change[o].made + Lag
  /\ clock' = clock + 1
  /\ UNCHANGED <<conn, provider, change, mirror, op, mishaps, orphaned, scene>>

\* The access tokens run out, whatever expiry was recorded for them.
Lapse ==
  /\ Happens("tokens") /\ provider.gen < MaxGen /\ provider.lapsed < provider.gen
  /\ provider' = [provider EXCEPT !.lapsed = provider.gen]
  /\ UNCHANGED <<conn, change, mirror, op, clock, mishaps, orphaned, scene>>

ExpiryNears ==
  /\ Happens("tokens") /\ provider.gen < MaxGen /\ ~conn.soon
  /\ conn' = [conn EXCEPT !.soon = TRUE]
  /\ UNCHANGED <<Marketplace, mirror, op, mishaps, orphaned, scene>>

CoolDown ==
  /\ conn.cooling
  /\ conn' = [conn EXCEPT !.cooling = FALSE]
  /\ UNCHANGED <<Marketplace, mirror, op, mishaps, orphaned, scene>>

-----------------------------------------------------------------------------
(* Working with the tokens.                                                *)

Loaded == [Idle EXCEPT !.at = "loaded", !.tokens = conn.tokens, !.access = conn.tokens,
                       !.soon = conn.soon]

\* pullFromConnections, runScheduledPull: the active stores, unless they cool
\* down and nobody insists; a full pull ignores the cursor.
LoadForPull(a, force, full) ==
  /\ a \in Pullers /\ op[a].at = "idle" /\ conn.active
  /\ conn.cooling => force
  /\ Happens("overlap") \/ \A b \in Pullers : op[b].at = "idle"
  /\ op' = [op EXCEPT ![a] = [Loaded EXCEPT !.full = full, !.cursor = conn.cursor]]
  /\ UNCHANGED <<conn, Marketplace, mirror, mishaps, orphaned, scene>>

\* loadSyncJobContext, or the token job's selection.
LoadForToken(a) ==
  /\ a \notin Pullers /\ op[a].at = "idle" /\ conn.active
  /\ op' = [op EXCEPT ![a] = Loaded]
  /\ UNCHANGED <<conn, Marketplace, mirror, mishaps, orphaned, scene>>

\* pullStartedAt; an access token near its expiry is renewed first.  A token
\* job does nothing else.
BeginWork(a) ==
  /\ op[a].at = "loaded"
  /\ op' = [op EXCEPT ![a].began = IF a \in Pullers THEN clock ELSE 0, ![a].soon = FALSE,
                      ![a].at = IF op[a].soon \/ a \in Refreshers THEN "renewing"
                                ELSE "calling"]
  /\ UNCHANGED <<conn, Marketplace, mirror, mishaps, orphaned, scene>>

\* What follows an attempt to renew that failed: a first one is made light of,
\* the one after a rejection is not.
RenewalFailed(a) ==
  IF a \in Refreshers \/ op[a].again THEN Stop(a) ELSE Go(a, "calling")

\* refreshProviderToken: the refresh token is traded in.
Renew(a) ==
  /\ op[a].at = "renewing"
  /\ op[a].tokens = provider.gen /\ provider.gen < MaxGen
  /\ provider' = [provider EXCEPT !.gen = provider.gen + 1]
  /\ op' = [op EXCEPT ![a].at = "renewed", ![a].access = provider.gen + 1]
  /\ UNCHANGED <<conn, change, mirror, clock, mishaps, orphaned, scene>>

\* It has been traded in before, or the provider does not answer.
RenewFails(a) ==
  /\ op[a].at = "renewing"
  /\ RenewalFailed(a)
  /\ UNCHANGED <<conn, Marketplace, mirror, mishaps, orphaned, scene>>

\* Faulty Resealed: only the access token is stored, the refresh token stays.
ResealedAccess(a) == [conn EXCEPT !.soon = FALSE]

\* applyRefreshedConnectionTokens: by id, whatever the row has become.
Resealed(a) == [conn EXCEPT !.tokens = op[a].access, !.soon = FALSE, !.active = TRUE]

StoreTokens(a) ==
  /\ op[a].at = "renewed"
  /\ conn' = Resealed(a)
  /\ IF a \in Refreshers THEN Stop(a) ELSE Go(a, "calling")
  /\ UNCHANGED <<Marketplace, mirror, mishaps, orphaned, scene>>

\* The provider rejects a token it still took for valid when it was stored.
Rejected(a) ==
  /\ op[a].at = "calling" /\ op[a].access <= provider.lapsed
  /\ op' = IF op[a].again THEN [op EXCEPT ![a] = Idle]
           ELSE [op EXCEPT ![a].at = "renewing", ![a].again = TRUE]
  /\ UNCHANGED <<conn, Marketplace, mirror, mishaps, orphaned, scene>>

Accepted(a) == op[a].at = "calling" /\ op[a].access > provider.lapsed

\* The call fails for another reason, or it was a push and is done.
CallEnds(a) ==
  /\ op[a].at = "calling"
  /\ Stop(a)
  /\ UNCHANGED <<conn, Marketplace, mirror, mishaps, orphaned, scene>>

-----------------------------------------------------------------------------
(* Pulling.                                                                *)

\* The orders a complete listing holds.
Asked(a, o) == op[a].full \/ op[a].cursor <= change[o].listed + Overlap

FetchedPage(a, orders) ==
  [o \in OrderIds |-> IF o \in orders /\ Asked(a, o) THEN change[o].listed ELSE 0]

\* From here on the pull only needs its listing.
Fetched(a, orders, whole) ==
  [Idle EXCEPT !.at = "storing", !.began = op[a].began, !.whole = whole,
               !.page = FetchedPage(a, orders)]

FetchWhole(a) ==
  /\ a \in Pullers /\ Accepted(a)
  /\ op' = [op EXCEPT ![a] = Fetched(a, OrderIds, TRUE)]
  /\ UNCHANGED <<conn, Marketplace, mirror, mishaps, orphaned, scene>>

\* Throttled or capped: some of the orders.
FetchPart(a) ==
  \E orders \in SUBSET OrderIds :
    /\ a \in Pullers /\ Accepted(a)
    /\ op' = [op EXCEPT ![a] = Fetched(a, orders, FALSE)]
    /\ UNCHANGED <<conn, Marketplace, mirror, mishaps, orphaned, scene>>

\* pullOneConnection stores order by order what it has fetched.
StoreOrder(a, o) ==
  /\ op[a].at = "storing" /\ op[a].page[o] # 0
  /\ mirror' = [mirror EXCEPT ![o] = op[a].page[o]]
  /\ op' = [op EXCEPT ![a].page[o] = 0]
  /\ UNCHANGED <<conn, Marketplace, mishaps, orphaned, scene>>

\* Faulty Advanced: up to the end of the pull.
AdvancedToNow(a) == IF op[a].whole THEN clock ELSE conn.cursor

\* Faulty Advanced: the overlap is taken off here too, unclamped.
AdvancedTwiceBehind(a) == IF op[a].whole THEN op[a].began - 2 * Overlap ELSE conn.cursor

\* Up to the start of the pull, if it has seen everything.
Advanced(a) == IF op[a].whole THEN op[a].began ELSE conn.cursor

FinishPull(a) ==
  /\ op[a].at = "storing" /\ op[a].page = EmptyPage
  /\ conn' = [conn EXCEPT !.cursor = Advanced(a), !.cooling = TRUE]
  /\ Stop(a)
  /\ UNCHANGED <<Marketplace, mirror, mishaps, orphaned, scene>>

-----------------------------------------------------------------------------
(* The owner, and failing processes.                                       *)

NobodyRenews == \A a \in Actors : op[a].at # "renewed"

Disconnect ==
  /\ Happens("owner") /\ conn.active
  /\ conn' = [conn EXCEPT !.active = FALSE]
  /\ UNCHANGED <<Marketplace, mirror, op, mishaps, orphaned, scene>>

\* upsertOAuthConnection: a fresh consent, fresh tokens.
Authorize ==
  /\ Happens("owner") /\ provider.gen < MaxGen /\ (Happens("race") \/ NobodyRenews)
  /\ provider' = [provider EXCEPT !.gen = provider.gen + 1]
  /\ conn' = [conn EXCEPT !.tokens = provider.gen + 1, !.soon = FALSE, !.active = TRUE]
  /\ orphaned' = FALSE
  /\ UNCHANGED <<change, mirror, op, clock, mishaps, scene>>

\* A process dies; tokens it has not stored yet are gone.
Die(a) ==
  /\ Happens("crash") /\ mishaps < MaxMishaps /\ mishaps' = mishaps + 1
  /\ op[a].at # "idle"
  /\ orphaned' = (orphaned \/ op[a].at = "renewed")
  /\ Stop(a)
  /\ UNCHANGED <<conn, Marketplace, mirror, scene>>

\* The tokens are traded in and the write that stores them fails: the renewal
\* counts as failed, a first one falls back to the access token it had.
LoseTokens(a) ==
  /\ Happens("crash") /\ mishaps < MaxMishaps /\ mishaps' = mishaps + 1
  /\ op[a].at = "renewed"
  /\ orphaned' = TRUE
  /\ IF a \in Refreshers \/ op[a].again THEN Stop(a)
     ELSE op' = [op EXCEPT ![a].at = "calling", ![a].access = op[a].tokens]
  /\ UNCHANGED <<conn, Marketplace, mirror, scene>>

\* What a process does once it has begun.
Step(a) ==
  \/ BeginWork(a) \/ RenewFails(a) \/ StoreTokens(a) \/ CallEnds(a)
  \/ (\E o \in OrderIds : StoreOrder(a, o)) \/ FinishPull(a)

Work(a) == Step(a) \/ Renew(a) \/ Rejected(a) \/ FetchWhole(a) \/ FetchPart(a)

Next ==
  \/ \E o \in OrderIds : ChangeOrder(o) \/ ListChange(o)
  \/ Tick \/ Lapse \/ ExpiryNears \/ CoolDown
  \/ \E a \in scene.actors : \/ \E force, full \in BOOLEAN : LoadForPull(a, force, full)
                            \/ LoadForToken(a) \/ Work(a) \/ Die(a) \/ LoseTokens(a)
  \/ Disconnect \/ Authorize

Spec == Init /\ [][Next]_vars

\* The scheduler goes on pulling stores that do not cool down, and processes
\* go on; the provider lists what changed, and now and then answers a pull
\* completely, rejects a lapsed token as such, and takes a refresh token.
PullFairness ==
  /\ WF_vars(CoolDown) /\ WF_vars(\E o \in OrderIds : ListChange(o))
  /\ \A a \in Pullers :
       /\ SF_vars(a \in scene.actors /\ LoadForPull(a, FALSE, FALSE))
       /\ SF_vars(a \in scene.actors /\ (FetchWhole(a) \/ Rejected(a)))
       /\ SF_vars(a \in scene.actors /\ Renew(a))
  /\ \A a \in Actors : WF_vars(a \in scene.actors /\ Step(a))

FairSpec == Spec /\ PullFairness

-----------------------------------------------------------------------------
\* The stored tokens are the ones the provider will take: everybody refreshes
\* on its own, and nobody overwrites a newer generation with an older one.
\* Only who dies or whose write fails with new tokens in hand takes the
\* connection down.
TokensCurrent ==
  \/ orphaned
  \/ conn.tokens = provider.gen
  \/ \E a \in Actors : op[a].at = "renewed" /\ op[a].access = provider.gen

\* No change of an order falls behind the cursor: what is not stored yet the
\* next pull will ask for, whatever pulls were cut short or died and however
\* late the provider listed it.
NothingSkipped ==
  \A o \in OrderIds : mirror[o] # change[o].made => conn.cursor <= change[o].made + Overlap

\* Every change arrives, through renewals, rejected tokens and partial pulls,
\* as long as the store is connected and its tokens are not lost.
ChangesArrive ==
  \A o \in OrderIds : []<>(orphaned \/ ~conn.active \/ mirror[o] = change[o].made)

\* Who disconnects a store keeps it disconnected, until it is authorized anew.
DisconnectedStaysOff ==
  [][~conn.active /\ conn'.active => provider'.gen = provider.gen + 1]_vars
=============================================================================
