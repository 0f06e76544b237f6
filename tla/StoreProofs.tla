---------------------------- MODULE StoreProofs ----------------------------
(***************************************************************************)
(* What is proved of a store: of the connection to it (Connection) and of  *)
(* the way the stock takes to its listings (StockSync).                    *)
(*                                                                         *)
(* However many pulls, pushes and token jobs refresh its tokens on their   *)
(* own, the row never falls behind the provider (TokensCurrent), and       *)
(* however pulls are cut short, the cursor never overtakes a change that   *)
(* is not stored (NothingSkipped).                                         *)
(*                                                                         *)
(* However stock changes are coalesced, lost, retried and cut short by     *)
(* crashes, a listing that ends up wrong leaves a trace (StaleIsVisible),  *)
(* as long as no two workers push it at the same time.                     *)
(***************************************************************************)
EXTENDS Connection, StockSync, FiniteSetTheorems, TLAPS

-----------------------------------------------------------------------------
(* Tokens.  TokensCurrent is not inductive: that a renewed generation may  *)
(* be written over the row needs that it is the newest one, which holds    *)
(* because only the holder of the newest refresh token can renew, and the  *)
(* row is behind the provider as long as anybody has renewed.              *)

\* Nobody works with tokens newer than the row's, nor the row with newer ones
\* than the provider has given out.
NobodyAhead ==
  /\ conn.tokens <= provider.gen
  /\ \A a \in Actors : op[a].at # "idle" => op[a].tokens <= conn.tokens

\* Tokens that are traded in and not stored are the newest, and in one hand.
RenewedIsNewest ==
  \A a \in Actors : op[a].at = "renewed" =>
    /\ op[a].access = provider.gen /\ conn.tokens < provider.gen
    /\ \A b \in Actors : op[b].at = "renewed" => b = a

TokenInv == NobodyAhead /\ RenewedIsNewest /\ TokensCurrent

-----------------------------------------------------------------------------
(* The cursor.  While a complete pull stores its page, everything the      *)
(* cursor is about to pass is stored, or in the page, or so recent that    *)
(* the next pull reaches back to it.                                       *)

\* The mirror is behind the listing, the listing behind the marketplace, the
\* marketplace behind the clock; a change is listed within Lag.
InOrder ==
  \A o \in OrderIds :
    /\ mirror[o] <= change[o].listed /\ change[o].listed <= change[o].made
    /\ change[o].made <= clock
    /\ change[o].listed # change[o].made => clock <= change[o].made + Lag

OnePull == \A a, b \in Pullers : op[a].at # "idle" /\ op[b].at # "idle" => a = b

\* A pull works from the cursor that is stored; only a pull stores orders.
PullFollowsCursor ==
  /\ conn.cursor <= clock
  /\ \A a \in Actors :
       /\ op[a].began <= clock
       /\ op[a].at = "storing" => a \in Pullers
       /\ a \in Pullers /\ op[a].at \notin {"idle", "storing"} => op[a].cursor = conn.cursor

\* What is still in the page is between what is stored and what is listed.
PageIsNewer ==
  \A a \in Actors, o \in OrderIds : op[a].at = "storing" /\ op[a].page[o] # 0 =>
    mirror[o] <= op[a].page[o] /\ op[a].page[o] <= change[o].listed

\* The cursor may be set to the beginning of a pull that has seen everything.
WholePullCovers ==
  \A a \in Actors, o \in OrderIds : op[a].at = "storing" /\ op[a].whole =>
    \/ op[a].page[o] = change[o].made
    \/ mirror[o] = change[o].made
    \/ op[a].began <= change[o].made + Overlap

CursorInv ==
  InOrder /\ OnePull /\ PullFollowsCursor /\ PageIsNewer /\ WholePullCovers /\ NothingSkipped

TokenSafety == Happens("race") \/ TokenInv
CursorSafety == Happens("overlap") \/ CursorInv

-----------------------------------------------------------------------------
(* Types.                                                                  *)

LEMMA IdleType == Idle \in Op
BY ConnectionAssumption DEF Idle, Op, EmptyPage, Gens, Times, Points

LEMMA InitType == Init => TypeOK
<1> SUFFICES ASSUME Init PROVE TypeOK
  OBVIOUS
<1> USE ConnectionAssumption DEF Init
<1>1. op \in [Actors -> Op]
  BY IdleType
<1>2. conn \in Conn /\ provider \in [gen : Gens, lapsed : Gens]
  BY DEF Conn, Gens, Times
<1>3. change \in [OrderIds -> [made : Times, listed : Times]] /\ mirror \in [OrderIds -> Times]
  BY DEF Times
<1>4. clock \in Times /\ mishaps \in 0..MaxMishaps
  BY DEF Times
<1>5. orphaned \in BOOLEAN /\ scene \in Scenes
  OBVIOUS
<1> QED  BY <1>1, <1>2, <1>3, <1>4, <1>5 DEF TypeOK

\* An order listing holds each order as the provider lists it, or not at all.
LEMMA PageType ==
  ASSUME TypeOK, NEW a \in Actors, NEW orders \in SUBSET OrderIds
  PROVE  FetchedPage(a, orders) \in [OrderIds -> Times]
BY ConnectionAssumption DEF TypeOK, FetchedPage, Times

LEMMA FetchedType ==
  ASSUME TypeOK, NEW a \in Actors, NEW orders \in SUBSET OrderIds, NEW whole \in BOOLEAN
  PROVE  LET done == Fetched(a, orders, whole) IN
         /\ done \in Op /\ done.at = "storing" /\ done.began = op[a].began
         /\ done.whole = whole /\ done.page = FetchedPage(a, orders) /\ done.tokens = 0
<1> DEFINE began == op[a].began
           page == FetchedPage(a, orders)
           there == [Idle EXCEPT !.at = "storing"]
           since == [there EXCEPT !.began = began]
           listed == [since EXCEPT !.whole = whole]
<1>1. began \in Times /\ page \in [OrderIds -> Times]
  BY PageType DEF TypeOK, Op
<1>2. Fetched(a, orders, whole) = [listed EXCEPT !.page = page]
  BY DEF Fetched
<1> HIDE DEF began, page
<1>3. there \in Op /\ there.at = "storing" /\ there.tokens = 0
  BY IdleType DEF Idle, Op, Points
<1> HIDE DEF there
<1>4. since \in Op /\ since.at = "storing" /\ since.tokens = 0 /\ since.began = began
  BY <1>1, <1>3 DEF Op
<1> HIDE DEF since
<1>5. /\ listed \in Op /\ listed.at = "storing" /\ listed.tokens = 0
      /\ listed.began = began /\ listed.whole = whole
  BY <1>4 DEF Op
<1> HIDE DEF listed
<1>6. LET done == [listed EXCEPT !.page = page] IN
      /\ done \in Op /\ done.at = "storing" /\ done.began = began
      /\ done.whole = whole /\ done.page = page /\ done.tokens = 0
  BY <1>1, <1>5 DEF Op
<1> QED  BY <1>2, <1>6 DEF began, page

LEMMA StepType ==
  ASSUME TypeOK, NEW a \in Actors, Work(a)
  PROVE  TypeOK'
<1> USE ConnectionAssumption DEF TypeOK, Marketplace
<1>0. Idle \in Op /\ op[a] \in Op
  BY IdleType
<1>1. CASE BeginWork(a)
  BY <1>1 DEF BeginWork, Op, Points
<1>2. CASE RenewFails(a)
  <2>1. CASE Stop(a)
    BY <1>0, <1>2, <2>1 DEF RenewFails, Stop
  <2>2. CASE Go(a, "calling")
    BY <1>0, <1>2, <2>2 DEF RenewFails, Go, Op, Points
  <2> QED  BY <1>2, <2>1, <2>2 DEF RenewFails, RenewalFailed
<1>3. CASE StoreTokens(a)
  <2>1. op[a].access \in Gens
    BY <1>0 DEF Op
  <2>2. conn' \in Conn
    BY <1>3, <2>1 DEF StoreTokens, Resealed, Conn
  <2>3. CASE Stop(a)
    BY <1>0, <1>3, <2>2, <2>3 DEF StoreTokens, Stop
  <2>4. CASE Go(a, "calling")
    BY <1>0, <1>3, <2>2, <2>4 DEF StoreTokens, Go, Op, Points
  <2> QED  BY <1>3, <2>3, <2>4 DEF StoreTokens
<1>4. CASE CallEnds(a)
  BY <1>0, <1>4 DEF CallEnds, Stop
<1>5. ASSUME NEW o \in OrderIds, StoreOrder(a, o)  PROVE TypeOK'
  <2>1. op[a].page[o] \in Times
    BY <1>0 DEF Op
  <2>2. mirror' \in [OrderIds -> Times]
    BY <1>5, <2>1 DEF StoreOrder
  <2>3. [op[a] EXCEPT !.page = [@ EXCEPT ![o] = 0]] \in Op
    BY <1>0 DEF Op, Times
  <2>4. op' \in [Actors -> Op]
    BY <1>5, <2>3 DEF StoreOrder
  <2> QED  BY <1>5, <2>2, <2>4 DEF StoreOrder
<1>6. CASE FinishPull(a)
  BY <1>0, <1>6 DEF FinishPull, Advanced, Stop, Conn, Op
<1>7. CASE Renew(a)
  <2>1. provider.gen + 1 \in Gens
    BY <1>7 DEF Renew, Gens
  <2>2. provider' \in [gen : Gens, lapsed : Gens]
    BY <1>7, <2>1 DEF Renew
  <2>3. op' \in [Actors -> Op]
    BY <1>0, <1>7, <2>1 DEF Renew, Op, Points
  <2> QED  BY <1>7, <2>2, <2>3 DEF Renew
<1>8. CASE Rejected(a)
  BY <1>0, <1>8 DEF Rejected, Op, Points
<1>9. CASE FetchWhole(a) \/ FetchPart(a)
  <2>1. PICK orders \in SUBSET OrderIds, whole \in BOOLEAN :
          op' = [op EXCEPT ![a] = Fetched(a, orders, whole)]
    BY <1>9 DEF FetchWhole, FetchPart
  <2>2. op' \in [Actors -> Op]
    <3>1. Fetched(a, orders, whole) \in Op
      BY FetchedType
    <3> QED  BY <2>1, <3>1
  <2> QED  BY <1>9, <2>2 DEF FetchWhole, FetchPart
<1> QED  BY <1>1, <1>2, <1>3, <1>4, <1>5, <1>6, <1>7, <1>8, <1>9 DEF Work, Step

LEMMA NextType == TypeOK /\ [Next]_vars => TypeOK'
<1> SUFFICES ASSUME TypeOK, [Next]_vars  PROVE TypeOK'
  OBVIOUS
<1> USE ConnectionAssumption
<1>1. ASSUME NEW o \in OrderIds, ChangeOrder(o) \/ ListChange(o)  PROVE TypeOK'
  BY <1>1 DEF ChangeOrder, ListChange, TypeOK
<1>2. CASE Tick
  BY <1>2 DEF Tick, TypeOK, Times
<1>3. CASE Lapse
  BY <1>3 DEF Lapse, TypeOK
<1>4. CASE ExpiryNears \/ CoolDown \/ Disconnect
  BY <1>4 DEF ExpiryNears, CoolDown, Disconnect, Marketplace, TypeOK, Conn
<1>5. CASE Authorize
  <2>1. provider.gen + 1 \in Gens
    BY <1>5 DEF Authorize, TypeOK, Gens
  <2> QED  BY <1>5, <2>1 DEF Authorize, TypeOK, Conn
<1>6. ASSUME NEW a \in Actors,
             \/ \E force, full \in BOOLEAN : LoadForPull(a, force, full)
             \/ LoadForToken(a)
      PROVE  TypeOK'
  <2>1. /\ Loaded \in Op
        /\ \A full \in BOOLEAN : [Loaded EXCEPT !.full = full, !.cursor = conn.cursor] \in Op
    BY IdleType DEF Loaded, Op, Points, TypeOK, Conn
  <2> QED  BY <1>6, <2>1 DEF LoadForPull, LoadForToken, Marketplace, TypeOK
<1>7. ASSUME NEW a \in Actors, Work(a)  PROVE TypeOK'
  BY <1>7, StepType
<1>8. ASSUME NEW a \in Actors, Die(a)  PROVE TypeOK'
  BY <1>8, IdleType DEF Die, Stop, Marketplace, TypeOK
<1>9. CASE UNCHANGED vars
  BY <1>9 DEF vars, TypeOK
<1>10. scene.actors \subseteq Actors
  BY DEF TypeOK, Scene
<1>11. ASSUME NEW a \in Actors, LoseTokens(a)  PROVE TypeOK'
  <2>1. CASE Stop(a)
    BY <1>11, <2>1, IdleType DEF LoseTokens, Stop, Marketplace, TypeOK
  <2>2. CASE op' = [op EXCEPT ![a].at = "calling", ![a].access = op[a].tokens]
    <3>0. op[a] \in Op
      BY DEF TypeOK
    <3>1. [op[a] EXCEPT !.at = "calling", !.access = op[a].tokens] \in Op
      BY <3>0 DEF Op, Points
    <3>2. op' \in [Actors -> Op]
      BY <2>2, <3>1 DEF TypeOK
    <3> QED  BY <1>11, <3>2 DEF LoseTokens, Marketplace, TypeOK
  <2> QED  BY <1>11, <2>1, <2>2 DEF LoseTokens
<1> QED
  BY <1>1, <1>2, <1>3, <1>4, <1>5, <1>6, <1>7, <1>8, <1>9, <1>10, <1>11 DEF Next

\* However the actors interleave, every step leaves the connection, the tokens,
\* the orders and the pulls under way well formed.
THEOREM ConnectionTypeCorrect == Spec => []TypeOK
BY InitType, NextType, PTL DEF Spec

-----------------------------------------------------------------------------
(* The tokens.                                                             *)

LEMMA TokenInit == Init => TokenInv
BY DEF Init, TokenInv, NobodyAhead, RenewedIsNewest, TokensCurrent, Idle

\* Whoever does anything but renew or store what it has renewed leaves tokens
\* alone, and its own are the ones it has read.
LEMMA TokensAside ==
  ASSUME TypeOK, TokenInv, NEW a \in Actors,
         conn'.tokens = conn.tokens, provider'.gen = provider.gen, orphaned' = orphaned,
         op[a].at # "renewed", op'[a].at # "renewed", op' = [op EXCEPT ![a] = op'[a]],
         op'[a].at # "idle" => op'[a].tokens <= conn.tokens
  PROVE  TokenInv'
<1> USE DEF TypeOK, TokenInv
<1>1. NobodyAhead'
  BY DEF NobodyAhead
<1>2. RenewedIsNewest'
  BY DEF RenewedIsNewest
<1>3. TokensCurrent'
  BY DEF TokensCurrent
<1> QED  BY <1>1, <1>2, <1>3

LEMMA TokenStep ==
  ASSUME TypeOK, TokenInv, NEW a \in Actors, Work(a)
  PROVE  TokenInv'
<1> USE ConnectionAssumption DEF Marketplace
<1>0. op[a] \in Op /\ conn.tokens \in Nat /\ op[a].tokens \in Nat
  BY DEF TypeOK, Conn, Op, Gens
<1>1. CASE BeginWork(a) \/ (\E o \in OrderIds : StoreOrder(a, o)) \/ Rejected(a)
  <2>1. /\ conn'.tokens = conn.tokens /\ provider'.gen = provider.gen /\ orphaned' = orphaned
        /\ op[a].at \notin {"idle", "renewed"} /\ op'[a].at # "renewed"
        /\ op' = [op EXCEPT ![a] = op'[a]]
        /\ op'[a].at # "idle" => op'[a].tokens = op[a].tokens
    BY <1>0, <1>1 DEF BeginWork, StoreOrder, Rejected, Idle, Op, TypeOK
  <2>2. op[a].tokens <= conn.tokens
    BY <2>1 DEF TokenInv, NobodyAhead
  <2> QED  BY <2>1, <2>2, TokensAside
<1>5. CASE FetchWhole(a) \/ FetchPart(a)
  <2>1. PICK orders \in SUBSET OrderIds, whole \in BOOLEAN :
          op' = [op EXCEPT ![a] = Fetched(a, orders, whole)]
    BY <1>5 DEF FetchWhole, FetchPart
  <2>2. /\ conn' = conn /\ provider' = provider /\ orphaned' = orphaned
        /\ op[a].at = "calling"
    BY <1>5 DEF FetchWhole, FetchPart, Accepted
  <2>3. op'[a].at = "storing" /\ op'[a].tokens = 0
    BY <2>1, FetchedType DEF TypeOK
  <2>4. op' = [op EXCEPT ![a] = op'[a]]
    BY <2>1 DEF TypeOK
  <2> QED  BY <1>0, <2>2, <2>3, <2>4, TokensAside
<1>2. CASE RenewFails(a) \/ CallEnds(a) \/ FinishPull(a)
  <2>1. /\ conn'.tokens = conn.tokens /\ provider'.gen = provider.gen /\ orphaned' = orphaned
        /\ op[a].at \notin {"idle", "renewed"} /\ op'[a].at # "renewed"
        /\ op' = [op EXCEPT ![a] = op'[a]]
        /\ op'[a].at # "idle" => op'[a].tokens = op[a].tokens
    <3>1. CASE Stop(a)
      BY <1>0, <1>2, <3>1 DEF RenewFails, CallEnds, FinishPull, Stop, Idle, Op, TypeOK, Conn
    <3>2. CASE Go(a, "calling") /\ RenewFails(a)
      BY <1>0, <3>2 DEF RenewFails, Go, Op, TypeOK
    <3> QED  BY <1>2, <3>1, <3>2 DEF RenewFails, RenewalFailed, CallEnds, FinishPull
  <2>2. op[a].tokens <= conn.tokens
    BY <2>1 DEF TokenInv, NobodyAhead
  <2> QED  BY <2>1, <2>2, TokensAside
<1>3. CASE Renew(a)
  BY <1>0, <1>3 DEF Renew, TokenInv, NobodyAhead, RenewedIsNewest, TokensCurrent, TypeOK, Op,
                    Gens, Conn
<1>4. CASE StoreTokens(a)
  <2>1. /\ conn'.tokens = provider.gen /\ provider' = provider
        /\ conn.tokens < provider.gen /\ provider.gen \in Nat
        /\ \A b \in Actors \ {a} : op'[b] = op[b] /\ op[b].at # "renewed"
        /\ op[a].at = "renewed"
        /\ op'[a].at # "renewed"
        /\ op'[a].at # "idle" => op'[a].tokens = op[a].tokens
    <3>1. op'[a] = Idle \/ op'[a] = [op[a] EXCEPT !.at = "calling"]
      BY <1>4 DEF StoreTokens, Stop, Go, TypeOK
    <3>2. \A b \in Actors \ {a} : op'[b] = op[b]
      BY <1>4 DEF StoreTokens, Stop, Go, TypeOK
    <3> QED  BY <1>0, <1>4, <3>1, <3>2 DEF StoreTokens, Resealed, Idle, TokenInv,
                                           RenewedIsNewest, TypeOK, Op, Gens, Conn
  <2>2. \A b \in Actors : op[b].at # "idle" => op[b].tokens \in Nat /\ op[b].tokens <= conn.tokens
    BY DEF TokenInv, NobodyAhead, TypeOK, Op, Gens
  <2> QED  BY <1>0, <2>1, <2>2 DEF TokenInv, NobodyAhead, RenewedIsNewest, TokensCurrent
<1> QED  BY <1>1, <1>2, <1>3, <1>4, <1>5 DEF Work, Step

\* Who is at work, and what happens to the store, is settled at the start.
LEMMA SceneStays == [Next]_vars => scene' = scene
BY ZenonT(60) DEF Next, vars, ChangeOrder, ListChange, Tick, Lapse, ExpiryNears, CoolDown, LoadForPull,
       LoadForToken, Work, Step, BeginWork, RenewFails, StoreTokens, CallEnds, StoreOrder,
       FinishPull, Renew, Rejected, FetchWhole, FetchPart, Die, LoseTokens, Disconnect, Authorize

LEMMA TokenNext ==
  ASSUME TypeOK, TokenSafety, [Next]_vars
  PROVE  TokenSafety'
<1>1. scene' = scene
  BY SceneStays
<1>2. CASE Happens("race")
  BY <1>1, <1>2 DEF TokenSafety, Happens
<1> SUFFICES ASSUME ~Happens("race"), TokenInv  PROVE TokenInv'
  BY <1>2 DEF TokenSafety
<1>3. CASE UNCHANGED <<op, provider, orphaned>> /\ conn'.tokens = conn.tokens
  BY <1>3 DEF TokenInv, NobodyAhead, RenewedIsNewest, TokensCurrent
<1>4. ASSUME NEW o \in OrderIds, ChangeOrder(o) \/ ListChange(o)  PROVE TokenInv'
  BY <1>3, <1>4 DEF ChangeOrder, ListChange
<1>5. CASE Tick \/ ExpiryNears \/ CoolDown \/ Disconnect \/ UNCHANGED vars
  BY <1>3, <1>5 DEF Tick, ExpiryNears, CoolDown, Disconnect, Marketplace, vars, TypeOK, Conn
<1>6. CASE Lapse
  BY <1>6 DEF Lapse, TokenInv, NobodyAhead, RenewedIsNewest, TokensCurrent, TypeOK
<1>7. CASE Authorize
  <2>1. /\ conn'.tokens = provider.gen + 1 /\ provider'.gen = provider.gen + 1
        /\ NobodyRenews /\ op' = op
    BY <1>7 DEF Authorize, TypeOK, Conn
  <2>2. /\ provider.gen \in Nat /\ conn.tokens \in Nat
        /\ \A b \in Actors : op[b].tokens \in Nat
    BY ConnectionAssumption DEF TypeOK, Conn, Op, Gens
  <2> QED  BY <2>1, <2>2 DEF TokenInv, NobodyAhead, RenewedIsNewest, TokensCurrent, NobodyRenews
<1>8. ASSUME NEW a \in Actors,
             \/ \E force, full \in BOOLEAN : LoadForPull(a, force, full)
             \/ LoadForToken(a)
      PROVE  TokenInv'
  <2>1. PICK r : /\ op' = [op EXCEPT ![a] = r]
                 /\ \/ r = Loaded
                    \/ \E full \in BOOLEAN :
                         r = [Loaded EXCEPT !.full = full, !.cursor = conn.cursor]
    BY <1>8 DEF LoadForPull, LoadForToken
  <2>2. r.at = "loaded" /\ r.tokens = conn.tokens
    BY <2>1 DEF Loaded, Idle
  <2>3. op' = [op EXCEPT ![a] = op'[a]] /\ op'[a] = r
    BY <2>1 DEF TypeOK
  <2>4. op[a].at = "idle" /\ UNCHANGED <<conn, provider, orphaned>>
    BY <1>8 DEF LoadForPull, LoadForToken, Marketplace
  <2>5. conn.tokens \in Nat
    BY ConnectionAssumption DEF TypeOK, Conn, Gens
  <2> QED  BY <2>2, <2>3, <2>4, <2>5, TokensAside
<1>9. ASSUME NEW a \in Actors, Die(a)  PROVE TokenInv'
  <2>1. CASE op[a].at = "renewed"
    BY <1>9, <2>1 DEF Die, Stop, Idle, Marketplace, TokenInv, NobodyAhead, RenewedIsNewest,
                      TokensCurrent, TypeOK
  <2>2. CASE op[a].at # "renewed"
    <3>1. /\ UNCHANGED <<conn, provider, orphaned>> /\ op'[a] = Idle
          /\ op' = [op EXCEPT ![a] = op'[a]]
      BY <1>9, <2>2 DEF Die, Stop, Marketplace, TypeOK
    <3> QED  BY <2>2, <3>1, TokensAside DEF Idle
  <2> QED  BY <2>1, <2>2
<1>10. ASSUME NEW a \in Actors, Work(a)  PROVE TokenInv'
  BY <1>10, TokenStep
<1>11. scene.actors \subseteq Actors
  BY ConnectionAssumption DEF TypeOK, Scene
<1>12. ASSUME NEW a \in Actors, LoseTokens(a)  PROVE TokenInv'
  <2>1. /\ UNCHANGED <<conn, provider>> /\ orphaned' /\ op' = [op EXCEPT ![a] = op'[a]]
        /\ op'[a].at # "renewed" /\ (op'[a].at # "idle" => op'[a].tokens = op[a].tokens)
        /\ op[a].at # "idle"
    BY <1>12 DEF LoseTokens, Stop, Idle, Marketplace, TypeOK, Op
  <2> QED  BY <2>1 DEF TokenInv, NobodyAhead, RenewedIsNewest, TokensCurrent, TypeOK
<1> QED
  BY <1>4, <1>5, <1>6, <1>7, <1>8, <1>9, <1>10, <1>11, <1>12 DEF Next

\* Everybody refreshes on its own and stores what it was given: unless the
\* owner consents anew in the middle of a renewal, or who has renewed dies or fails to store, the
\* provider takes the stored tokens, or somebody is about to store the newest.
THEOREM TokensStayCurrent == Spec => [](Happens("race") \/ TokensCurrent)
<1>1. Init => TokenSafety
  BY TokenInit DEF TokenSafety
<1>2. TypeOK /\ TokenSafety /\ [Next]_vars => TokenSafety'
  BY TokenNext
<1>3. TokenSafety => Happens("race") \/ TokensCurrent
  BY DEF TokenSafety, TokenInv
<1> QED  BY <1>1, <1>2, <1>3, ConnectionTypeCorrect, PTL DEF Spec

-----------------------------------------------------------------------------
(* The cursor.                                                             *)

LEMMA CursorInit == Init => CursorInv
<1> SUFFICES ASSUME Init  PROVE CursorInv
  OBVIOUS
<1> USE DEF Init, Idle
<1>1. InOrder
  BY ConnectionAssumption DEF InOrder
<1>2. OnePull /\ PullFollowsCursor /\ PageIsNewer /\ WholePullCovers /\ NothingSkipped
  BY DEF OnePull, PullFollowsCursor, PageIsNewer, WholePullCovers, NothingSkipped, Actors
<1> QED  BY <1>1, <1>2 DEF CursorInv

LEMMA CursorTypes ==
  ASSUME TypeOK
  PROVE  /\ conn.cursor \in Nat /\ clock \in Nat /\ Lag \in Nat /\ Overlap \in Nat
         /\ Lag <= Overlap
         /\ \A o \in OrderIds :
              mirror[o] \in Nat /\ change[o].made \in Nat /\ change[o].listed \in Nat
         /\ \A a \in Actors : op[a].cursor \in Nat /\ op[a].began \in Nat
         /\ \A a \in Actors, o \in OrderIds : op[a].page[o] \in Nat
         /\ Pullers \subseteq Actors
BY ConnectionAssumption DEF TypeOK, Conn, Op, Times, Actors

\* Whoever is not storing orders disturbs nothing, as long as it is the only
\* pull or none.
LEMMA CursorAside ==
  ASSUME TypeOK, CursorInv, NEW a \in Actors,
         conn'.cursor = conn.cursor, UNCHANGED <<change, mirror, clock>>,
         op' = [op EXCEPT ![a] = op'[a]],
         op'[a].at # "storing", op'[a].began <= clock,
         a \in Pullers /\ op'[a].at # "idle" =>
           /\ op'[a].cursor = conn.cursor
           /\ \A b \in Pullers : op[b].at # "idle" => b = a
  PROVE  CursorInv'
<1> USE DEF CursorInv
<1>1. \A b \in Actors : b # a => op'[b] = op[b]
  BY DEF TypeOK
<1>2. InOrder' /\ NothingSkipped'
  BY DEF InOrder, NothingSkipped
<1>3. OnePull'
  BY <1>1, CursorTypes DEF OnePull
<1>4. PullFollowsCursor'
  BY <1>1 DEF PullFollowsCursor
<1>5. PageIsNewer'
  BY <1>1 DEF PageIsNewer
<1>6. WholePullCovers'
  BY <1>1 DEF WholePullCovers
<1> QED  BY <1>2, <1>3, <1>4, <1>5, <1>6

LEMMA FetchInv ==
  ASSUME TypeOK, CursorInv, NEW a \in Actors, FetchWhole(a) \/ FetchPart(a)
  PROVE  CursorInv'
<1>1. PICK orders \in SUBSET OrderIds, whole \in BOOLEAN :
        /\ op' = [op EXCEPT ![a] = Fetched(a, orders, whole)]
        /\ whole => orders = OrderIds
  BY DEF FetchWhole, FetchPart
<1>2. a \in Pullers /\ op[a].at = "calling" /\ UNCHANGED <<conn, change, mirror, clock>>
  BY DEF FetchWhole, FetchPart, Accepted, Marketplace
<1>3. /\ \A b \in Actors : b # a => op'[b] = op[b]
      /\ op'[a].at = "storing" /\ op'[a].whole = whole /\ op'[a].began = op[a].began
      /\ op'[a].page = FetchedPage(a, orders)
  BY <1>1, FetchedType DEF TypeOK
<1>4. \A o \in OrderIds : op'[a].page[o] # 0 => op'[a].page[o] = change[o].listed
  BY <1>3 DEF FetchedPage
<1>5. InOrder' /\ NothingSkipped'
  BY <1>2 DEF CursorInv, InOrder, NothingSkipped
<1>6. OnePull'
  BY <1>2, <1>3, CursorTypes DEF CursorInv, OnePull
<1>7. PullFollowsCursor'
  BY <1>2, <1>3 DEF CursorInv, PullFollowsCursor
<1>8. PageIsNewer'
  BY <1>2, <1>3, <1>4, CursorTypes DEF CursorInv, PageIsNewer, InOrder
<1>9. WholePullCovers'
  <2>1. ASSUME NEW o \in OrderIds, whole
        PROVE  \/ op'[a].page[o] = change[o].made
               \/ mirror[o] = change[o].made
               \/ op[a].began <= change[o].made + Overlap
    <3>1. CASE change[o].listed # change[o].made
      BY <3>1, CursorTypes DEF CursorInv, InOrder, PullFollowsCursor
    <3>2. CASE change[o].listed = change[o].made /\ Asked(a, o)
      BY <1>1, <1>3, <2>1, <3>2 DEF FetchedPage
    <3>3. CASE change[o].listed = change[o].made /\ ~Asked(a, o)
      BY <1>2, <3>3, CursorTypes DEF Asked, CursorInv, PullFollowsCursor, NothingSkipped
    <3> QED  BY <3>1, <3>2, <3>3
  <2> QED  BY <1>2, <1>3, <2>1 DEF CursorInv, WholePullCovers
<1> QED  BY <1>5, <1>6, <1>7, <1>8, <1>9 DEF CursorInv

LEMMA StoreOrderInv ==
  ASSUME TypeOK, CursorInv, NEW a \in Actors, NEW o \in OrderIds, StoreOrder(a, o)
  PROVE  CursorInv'
<1>1. /\ op[a].at = "storing" /\ op[a].page[o] # 0 /\ UNCHANGED <<conn, change, clock>>
      /\ \A q \in OrderIds : mirror'[q] = IF q = o THEN op[a].page[o] ELSE mirror[q]
  BY DEF StoreOrder, Marketplace, TypeOK
<1>2. /\ \A b \in Actors : b # a => op'[b] = op[b]
      /\ op'[a].at = "storing" /\ op'[a].whole = op[a].whole /\ op'[a].began = op[a].began
      /\ \A q \in OrderIds : op'[a].page[q] = IF q = o THEN 0 ELSE op[a].page[q]
  BY <1>1 DEF StoreOrder, TypeOK, Op
<1>3. \A b \in Actors : op[b].at = "storing" => b = a
  BY <1>1 DEF CursorInv, PullFollowsCursor, OnePull
<1>4. mirror[o] <= op[a].page[o] /\ op[a].page[o] <= change[o].listed
  BY <1>1 DEF CursorInv, PageIsNewer
<1>5. InOrder'
  BY <1>1, <1>4 DEF CursorInv, InOrder
<1>6. OnePull' /\ PullFollowsCursor'
  BY <1>1, <1>2, CursorTypes DEF CursorInv, OnePull, PullFollowsCursor
<1>7. PageIsNewer'
  BY <1>1, <1>2, <1>3 DEF CursorInv, PageIsNewer
<1>8. WholePullCovers'
  <2>1. ASSUME NEW q \in OrderIds, op[a].whole
        PROVE  \/ op'[a].page[q] = change[q].made
               \/ mirror'[q] = change[q].made
               \/ op[a].began <= change[q].made + Overlap
    <3>1. \/ op[a].page[q] = change[q].made
          \/ mirror[q] = change[q].made
          \/ op[a].began <= change[q].made + Overlap
      BY <1>1, <2>1 DEF CursorInv, WholePullCovers
    <3>2. mirror[q] = change[q].made /\ q = o => op[a].page[q] = change[q].made
      BY <1>4, CursorTypes DEF CursorInv, InOrder
    <3> QED  BY <1>1, <1>2, <3>1, <3>2
  <2> QED  BY <1>1, <1>2, <1>3, <2>1 DEF WholePullCovers
<1>9. NothingSkipped'
  <2>1. mirror[o] = change[o].made => op[a].page[o] = change[o].made
    BY <1>4, CursorTypes DEF CursorInv, InOrder
  <2> QED  BY <1>1, <2>1 DEF CursorInv, NothingSkipped
<1> QED  BY <1>5, <1>6, <1>7, <1>8, <1>9 DEF CursorInv

LEMMA FinishPullInv ==
  ASSUME TypeOK, CursorInv, NEW a \in Actors, FinishPull(a)
  PROVE  CursorInv'
<1>1. /\ op[a].at = "storing" /\ \A o \in OrderIds : op[a].page[o] = 0
      /\ UNCHANGED <<change, mirror, clock>>
      /\ conn'.cursor = IF op[a].whole THEN op[a].began ELSE conn.cursor
  BY DEF FinishPull, Advanced, Marketplace, EmptyPage, TypeOK, Conn
<1>2. op'[a] = Idle /\ \A b \in Actors : b # a => op'[b] = op[b]
  BY DEF FinishPull, Stop, TypeOK
<1>3. a \in Pullers /\ \A b \in Pullers : op[b].at # "idle" => b = a
  BY <1>1 DEF CursorInv, PullFollowsCursor, OnePull
<1>4. InOrder'
  BY <1>1 DEF CursorInv, InOrder
<1>5. OnePull' /\ PullFollowsCursor'
  BY <1>1, <1>2, <1>3, CursorTypes DEF CursorInv, OnePull, PullFollowsCursor, Idle
<1>6. PageIsNewer' /\ WholePullCovers'
  BY <1>1, <1>2 DEF CursorInv, PageIsNewer, WholePullCovers, Idle
<1>7. NothingSkipped'
  <2> SUFFICES ASSUME NEW o \in OrderIds, mirror[o] # change[o].made
               PROVE  conn'.cursor <= change[o].made + Overlap
    BY <1>1 DEF NothingSkipped
  <2>1. conn.cursor <= change[o].made + Overlap
    BY DEF CursorInv, NothingSkipped
  <2>2. op[a].whole => op[a].began <= change[o].made + Overlap
    BY <1>1, CursorTypes DEF CursorInv, WholePullCovers, InOrder
  <2> QED  BY <1>1, <2>1, <2>2
<1> QED  BY <1>4, <1>5, <1>6, <1>7 DEF CursorInv

LEMMA CursorStep ==
  ASSUME TypeOK, CursorInv, NEW a \in Actors, Work(a)
  PROVE  CursorInv'
<1>0. op[a] \in Op /\ conn \in Conn
  BY DEF TypeOK
<1>1. CASE BeginWork(a) \/ Renew(a) \/ Rejected(a)
  <2>1. /\ conn' = conn /\ UNCHANGED <<change, mirror, clock>>
        /\ op' = [op EXCEPT ![a] = op'[a]] /\ op[a].at \notin {"idle", "storing"}
        /\ op'[a].at # "storing" /\ op'[a].began \in {0, op[a].began, clock}
        /\ op'[a].at # "idle" => op'[a].cursor = op[a].cursor
    BY <1>0, <1>1 DEF BeginWork, Renew, Rejected, Marketplace, Idle, TypeOK, Op
  <2>2. op'[a].began <= clock
    BY <2>1, CursorTypes DEF CursorInv, PullFollowsCursor
  <2>3. a \in Pullers /\ op'[a].at # "idle" =>
          op'[a].cursor = conn.cursor /\ \A b \in Pullers : op[b].at # "idle" => b = a
    BY <2>1 DEF CursorInv, PullFollowsCursor, OnePull
  <2> QED  BY <2>1, <2>2, <2>3, CursorAside
<1>2. CASE RenewFails(a) \/ StoreTokens(a) \/ CallEnds(a)
  <2>1. /\ conn'.cursor = conn.cursor /\ UNCHANGED <<change, mirror, clock>>
        /\ op[a].at \notin {"idle", "storing"} /\ (Stop(a) \/ Go(a, "calling"))
    BY <1>0, <1>2 DEF RenewFails, RenewalFailed, StoreTokens, CallEnds, Resealed, Marketplace,
                      Conn
  <2>2. CASE Stop(a)
    <3>1. op' = [op EXCEPT ![a] = op'[a]] /\ op'[a] = Idle
      BY <2>2 DEF Stop, TypeOK
    <3> QED  BY <2>1, <3>1, CursorTypes, CursorAside DEF Idle
  <2>3. CASE Go(a, "calling")
    <3>1. /\ op' = [op EXCEPT ![a] = op'[a]] /\ op'[a].at = "calling"
          /\ op'[a].began = op[a].began /\ op'[a].cursor = op[a].cursor
      BY <1>0, <2>3 DEF Go, TypeOK, Op
    <3>2. op'[a].began <= clock
      BY <3>1 DEF CursorInv, PullFollowsCursor
    <3>3. a \in Pullers =>
            op'[a].cursor = conn.cursor /\ \A b \in Pullers : op[b].at # "idle" => b = a
      BY <2>1, <3>1 DEF CursorInv, PullFollowsCursor, OnePull
    <3> QED  BY <2>1, <3>1, <3>2, <3>3, CursorAside
  <2> QED  BY <2>1, <2>2, <2>3
<1> QED  BY <1>1, <1>2, FetchInv, StoreOrderInv, FinishPullInv DEF Work, Step

LEMMA CursorNext ==
  ASSUME TypeOK, CursorSafety, [Next]_vars
  PROVE  CursorSafety'
<1>1. scene' = scene
  BY SceneStays
<1>2. CASE Happens("overlap")
  BY <1>1, <1>2 DEF CursorSafety, Happens
<1> SUFFICES ASSUME ~Happens("overlap"), CursorInv  PROVE CursorInv'
  BY <1>2 DEF CursorSafety
<1>3. CASE UNCHANGED <<op, change, mirror, clock>> /\ conn'.cursor = conn.cursor
  BY <1>3 DEF CursorInv, InOrder, OnePull, PullFollowsCursor, PageIsNewer, WholePullCovers,
              NothingSkipped
<1>4. CASE Lapse \/ ExpiryNears \/ CoolDown \/ Disconnect \/ Authorize \/ UNCHANGED vars
  BY <1>3, <1>4 DEF Lapse, ExpiryNears, CoolDown, Disconnect, Authorize, Marketplace, vars,
                    TypeOK, Conn
<1>5. ASSUME NEW o \in OrderIds, ChangeOrder(o)  PROVE CursorInv'
  <2>1. /\ UNCHANGED <<conn, mirror, op, clock>>
        /\ \A q \in OrderIds : /\ change'[q].listed = change[q].listed
                               /\ change'[q].made = IF q = o THEN clock ELSE change[q].made
    BY <1>5 DEF ChangeOrder, TypeOK
  <2>2. InOrder'
    BY <2>1, CursorTypes DEF CursorInv, InOrder
  <2>3. OnePull' /\ PullFollowsCursor' /\ PageIsNewer'
    BY <2>1 DEF CursorInv, OnePull, PullFollowsCursor, PageIsNewer
  <2>4. WholePullCovers'
    BY <2>1, CursorTypes DEF CursorInv, WholePullCovers, PullFollowsCursor
  <2>5. NothingSkipped'
    BY <2>1, CursorTypes DEF CursorInv, NothingSkipped, PullFollowsCursor
  <2> QED  BY <2>2, <2>3, <2>4, <2>5 DEF CursorInv
<1>6. ASSUME NEW o \in OrderIds, ListChange(o)  PROVE CursorInv'
  <2>1. /\ UNCHANGED <<conn, mirror, op, clock>>
        /\ \A q \in OrderIds : /\ change'[q].made = change[q].made
                               /\ change'[q].listed = IF q = o THEN change[q].made
                                                      ELSE change[q].listed
    BY <1>6 DEF ListChange, TypeOK
  <2>2. InOrder'
    BY <2>1, CursorTypes DEF CursorInv, InOrder
  <2>3. OnePull' /\ PullFollowsCursor' /\ WholePullCovers' /\ NothingSkipped'
    BY <2>1 DEF CursorInv, OnePull, PullFollowsCursor, WholePullCovers, NothingSkipped
  <2>4. PageIsNewer'
    BY <2>1, CursorTypes DEF CursorInv, PageIsNewer, InOrder
  <2> QED  BY <2>2, <2>3, <2>4 DEF CursorInv
<1>7. CASE Tick
  <2>1. /\ UNCHANGED <<conn, mirror, op, change>> /\ clock' = clock + 1
        /\ \A o \in OrderIds :
             change[o].listed # change[o].made => clock < change[o].made + Lag
    BY <1>7 DEF Tick
  <2>2. InOrder' /\ PullFollowsCursor'
    BY <2>1, CursorTypes DEF CursorInv, InOrder, PullFollowsCursor
  <2>3. OnePull' /\ PageIsNewer' /\ WholePullCovers' /\ NothingSkipped'
    BY <2>1 DEF CursorInv, OnePull, PageIsNewer, WholePullCovers, NothingSkipped
  <2> QED  BY <2>2, <2>3 DEF CursorInv
<1>8. ASSUME NEW a \in Actors, NEW force \in BOOLEAN, NEW full \in BOOLEAN,
             LoadForPull(a, force, full)
      PROVE  CursorInv'
  <2>1. op' = [op EXCEPT ![a] = op'[a]]
    BY <1>8 DEF LoadForPull, TypeOK
  <2>2. op'[a].at = "loaded" /\ op'[a].began = 0 /\ op'[a].cursor = conn.cursor
    <3>1. op'[a] = [Loaded EXCEPT !.full = full, !.cursor = conn.cursor]
      BY <1>8 DEF LoadForPull, TypeOK
    <3> QED  BY <3>1 DEF Loaded, Idle
  <2>3. /\ \A b \in Pullers : op[b].at = "idle"
        /\ UNCHANGED <<conn, change, mirror, clock>>
    BY <1>8 DEF LoadForPull, Marketplace
  <2> QED  BY <2>1, <2>2, <2>3, CursorTypes, CursorAside
<1>9. ASSUME NEW a \in Actors, LoadForToken(a)  PROVE CursorInv'
  <2>1. /\ a \notin Pullers /\ op' = [op EXCEPT ![a] = op'[a]] /\ op'[a] = Loaded
        /\ UNCHANGED <<conn, change, mirror, clock>>
    BY <1>9 DEF LoadForToken, Marketplace, TypeOK
  <2>2. Loaded.at = "loaded" /\ Loaded.began = 0
    BY DEF Loaded, Idle
  <2> QED  BY <2>1, <2>2, CursorTypes, CursorAside
<1>10. ASSUME NEW a \in Actors, Die(a)  PROVE CursorInv'
  <2>1. /\ op' = [op EXCEPT ![a] = op'[a]] /\ op'[a] = Idle
        /\ UNCHANGED <<conn, change, mirror, clock>>
    BY <1>10 DEF Die, Stop, Marketplace, TypeOK
  <2> QED  BY <2>1, CursorTypes, CursorAside DEF Idle
<1>11. ASSUME NEW a \in Actors, Work(a)  PROVE CursorInv'
  BY <1>11, CursorStep
<1>12. scene.actors \subseteq Actors
  BY ConnectionAssumption DEF TypeOK, Scene
<1>13. ASSUME NEW a \in Actors, LoseTokens(a)  PROVE CursorInv'
  <2>1. /\ op' = [op EXCEPT ![a] = op'[a]] /\ UNCHANGED <<conn, change, mirror, clock>>
        /\ op[a].at = "renewed"
        /\ \/ op'[a] = Idle
           \/ /\ op'[a].at = "calling" /\ op'[a].began = op[a].began
              /\ op'[a].cursor = op[a].cursor
    BY <1>13 DEF LoseTokens, Stop, Marketplace, TypeOK, Op
  <2>2. CASE op'[a] = Idle
    BY <2>1, <2>2, CursorTypes, CursorAside DEF Idle
  <2>3. CASE op'[a] # Idle
    <3>1. op'[a].began <= clock
      BY <2>1, <2>3 DEF CursorInv, PullFollowsCursor
    <3>2. a \in Pullers =>
            op'[a].cursor = conn.cursor /\ \A b \in Pullers : op[b].at # "idle" => b = a
      BY <2>1, <2>3 DEF CursorInv, PullFollowsCursor, OnePull
    <3> QED  BY <2>1, <2>3, <3>1, <3>2, CursorAside
  <2> QED  BY <2>2, <2>3
<1> QED
  BY <1>4, <1>5, <1>6, <1>7, <1>8, <1>9, <1>10, <1>11, <1>12, <1>13 DEF Next

\* One pull at a time, the cursor never overtakes a change that is not stored:
\* pullOneConnection may advance it to the start of a complete pull, because the
\* provider lists within the overlap that the next pull asks for again.
THEOREM CursorSkipsNothing == Spec => [](Happens("overlap") \/ NothingSkipped)
<1>1. Init => CursorSafety
  BY CursorInit DEF CursorSafety
<1>2. TypeOK /\ CursorSafety /\ [Next]_vars => CursorSafety'
  BY CursorNext
<1>3. CursorSafety => Happens("overlap") \/ NothingSkipped
  BY DEF CursorSafety, CursorInv
<1> QED  BY <1>1, <1>2, <1>3, ConnectionTypeCorrect, PTL DEF Spec

-----------------------------------------------------------------------------
(* Stock sync.  The queue of propagations, the sync rows with their queue  *)
(* jobs and the jobs the workers have in hand, and what ties them          *)
(* together: no two jobs under way share an event, what is owed has no job *)
(* and no row yet, a row without its queue job is still held by the        *)
(* propagation that made it, and a row in the queue has attempts left.     *)

Propagation ==
  [state : {"none", "delayed", "active", "done"}, event : 0..MaxEvents,
   exclude : Channels \cup {NoChannel}, left : SUBSET Channels,
   adding : Channels \cup {NoChannel}]
SyncRow ==
  [status : {"none", "PENDING", "PROCESSING", "SUCCESS", "FAILED", "DISABLED"},
   queued : {"none", "waiting", "active"}, tries : 0..MaxAttempts]
InHand ==
  [phase : {"loaded", "pushed"}, channel : Channels, event : Events, quantity : Nat]
Debt == [event : Events, exclude : Channels \cup {NoChannel}]

SyncTyped ==
  /\ available \in Int
  /\ listing \in [Channels -> Nat]
  /\ unpulled \in [Channels -> {0, 1}]
  /\ owed \subseteq Debt
  /\ propagates \in [PropagateIds -> Propagation]
  /\ syncs \in [Channels -> [Events -> SyncRow]]
  /\ work \in [SyncWorkers -> {NoWork} \cup InHand]
  /\ enabled \in [Channels -> BOOLEAN]
  /\ lastStatus \in [Channels -> {"none", "SYNCED", "FAILED"}]
  /\ events \in 0..MaxEvents /\ changedAt \in 0..MaxEvents
  /\ uncovered \subseteq Channels
  /\ faults \in 0..MaxFaults /\ crashes \in 0..MaxCrashes /\ world \in Worlds

Begun(id) == propagates[id].state \in {"delayed", "active"}

\* An event for every order that is still to be pulled.
Sold == {c \in Channels : unpulled[c] > 0}
EventsLeft == events + Cardinality(Sold) <= MaxEvents

\* No two jobs under way have an event in common: a manual sync has its own,
\* the coalesced job that of a change.
JobEvents ==
  /\ \A id \in PropagateIds : propagates[id].event <= events
  /\ \A id \in PropagateIds : Begun(id) => propagates[id].event # 0
  /\ \A id \in Events : propagates[id].state # "none" =>
       /\ propagates[id].event = id
       /\ Begun(Coalesced) => propagates[Coalesced].event # id
  /\ propagates[Coalesced].state # "done"

\* What is still owed has no job and no row yet.
OwedIsNew ==
  \A o \in owed :
    /\ o.event <= events
    /\ propagates[o.event].state = "none"
    /\ Begun(Coalesced) => propagates[Coalesced].event # o.event
    /\ \A c \in Channels : syncs[c][o.event].status = "none"
    /\ \A q \in owed : q.event = o.event => q = o

RowsInPast == \A c \in Channels, e \in Events : e > events => syncs[c][e].status = "none"

\* A job between its row and its queue job has made that row, and the queue
\* does not know it.
JobsInOrder ==
  \A id \in PropagateIds :
    /\ propagates[id].state # "active" =>
         propagates[id].left = {} /\ propagates[id].adding = NoChannel
    /\ propagates[id].exclude \notin propagates[id].left
    /\ propagates[id].adding # NoChannel =>
         /\ syncs[propagates[id].adding][propagates[id].event].status = "PENDING"
         /\ syncs[propagates[id].adding][propagates[id].event].queued = "none"

RowFits(r) ==
  /\ r.status \in {"none", "PENDING"} => r.tries = 0 /\ r.queued # "active"
  /\ r.status = "none" => r.queued = "none"
  /\ r.queued = "waiting" => r.tries < MaxAttempts
  /\ r.queued = "active" => r.tries > 0 /\ r.status = "PROCESSING"

RowsFit == \A c \in Channels, e \in Events : RowFits(syncs[c][e])

\* A worker has an active job in hand that nobody else has.
WorkersFit ==
  \A w \in SyncWorkers : Busy(w) =>
    /\ syncs[work[w].channel][work[w].event].queued = "active"
    /\ \A v \in SyncWorkers :
         At(v, work[w].channel) /\ work[v].event = work[w].event => v = w

SyncInv ==
  /\ SyncTyped /\ EventsLeft /\ JobEvents /\ OwedIsNew /\ RowsInPast
  /\ JobsInOrder /\ RowsFit /\ WorkersFit

-----------------------------------------------------------------------------
(* What the fields hold and what a step writes.                            *)

LEMMA JobFields ==
  ASSUME SyncTyped, NEW id \in PropagateIds
  PROVE  /\ propagates[id] \in Propagation
         /\ propagates[id].state \in {"none", "delayed", "active", "done"}
         /\ propagates[id].event \in 0..MaxEvents
         /\ propagates[id].exclude \in Channels \cup {NoChannel}
         /\ propagates[id].left \in SUBSET Channels
         /\ propagates[id].adding \in Channels \cup {NoChannel}
BY DEF SyncTyped, Propagation

LEMMA RowFields ==
  ASSUME SyncTyped, NEW c \in Channels, NEW e \in Events
  PROVE  /\ syncs[c][e] \in SyncRow
         /\ syncs[c][e].status \in {"none", "PENDING", "PROCESSING", "SUCCESS", "FAILED", "DISABLED"}
         /\ syncs[c][e].queued \in {"none", "waiting", "active"}
         /\ syncs[c][e].tries \in 0..MaxAttempts
BY DEF SyncTyped, SyncRow

LEMMA WorkFields ==
  ASSUME SyncTyped, NEW w \in SyncWorkers
  PROVE  /\ work[w] \in {NoWork} \cup InHand
         /\ Busy(w) => /\ work[w] \in InHand /\ work[w].phase \in {"loaded", "pushed"}
                       /\ work[w].channel \in Channels /\ work[w].event \in Events
                       /\ work[w].quantity \in Nat
         /\ work[w].phase \in {"loaded", "pushed"} => Busy(w)
BY DEF SyncTyped, InHand, Busy, NoWork

\* The job whose event may have rows is a number of the row.
LEMMA BegunEvent ==
  ASSUME SyncTyped, JobEvents, NEW id \in PropagateIds, Begun(id)
  PROVE  propagates[id].event \in Events
BY JobFields, BoundsAssumption DEF JobEvents, Events

\* What a step that changes one job leaves of it.
JobBecomes(id, state, left, adding) ==
  /\ propagates' \in [PropagateIds -> Propagation]
  /\ propagates'[id].state = state /\ propagates'[id].event = propagates[id].event
  /\ propagates'[id].exclude = propagates[id].exclude
  /\ propagates'[id].left = left /\ propagates'[id].adding = adding
  /\ \A i \in PropagateIds : i # id => propagates'[i] = propagates[i]

RowBecomes(c, e, status, queued, tries) ==
  /\ syncs' \in [Channels -> [Events -> SyncRow]]
  /\ syncs'[c][e].status = status /\ syncs'[c][e].queued = queued
  /\ syncs'[c][e].tries = tries
  /\ \A d \in Channels, f \in Events : d # c \/ f # e => syncs'[d][f] = syncs[d][f]

LEMMA JobWritten ==
  ASSUME SyncTyped, NEW id \in PropagateIds, NEW new \in Propagation,
         propagates' = [propagates EXCEPT ![id] = new]
  PROVE  /\ propagates' \in [PropagateIds -> Propagation]
         /\ propagates'[id] = new
         /\ \A i \in PropagateIds : i # id => propagates'[i] = propagates[i]
BY DEF SyncTyped

LEMMA RowWritten ==
  ASSUME SyncTyped, NEW c \in Channels, NEW e \in Events, NEW new \in SyncRow,
         syncs' = [syncs EXCEPT ![c] = [syncs[c] EXCEPT ![e] = new]]
  PROVE  RowBecomes(c, e, new.status, new.queued, new.tries)
<1>1. syncs[c] \in [Events -> SyncRow]
  BY DEF SyncTyped
<1>2. [syncs[c] EXCEPT ![e] = new] \in [Events -> SyncRow]
  BY <1>1
<1>3. syncs'[c] = [syncs[c] EXCEPT ![e] = new] /\ \A d \in Channels : d # c => syncs'[d] = syncs[d]
  BY DEF SyncTyped
<1> QED  BY <1>1, <1>2, <1>3 DEF SyncTyped, RowBecomes

LEMMA WorkWritten ==
  ASSUME SyncTyped, NEW w \in SyncWorkers, NEW new \in {NoWork} \cup InHand,
         work' = [work EXCEPT ![w] = new]
  PROVE  /\ work' \in [SyncWorkers -> {NoWork} \cup InHand]
         /\ work'[w] = new
         /\ \A v \in SyncWorkers : v # w => work'[v] = work[v]
BY DEF SyncTyped

\* A job that has just been added.
LEMMA WaitingJob ==
  ASSUME NEW event \in 0..MaxEvents, NEW exclude \in Channels \cup {NoChannel}
  PROVE  /\ Waiting(event, exclude) \in Propagation
         /\ Waiting(event, exclude).state = "delayed"
         /\ Waiting(event, exclude).event = event
         /\ Waiting(event, exclude).exclude = exclude
         /\ Waiting(event, exclude).left = {}
         /\ Waiting(event, exclude).adding = NoChannel
BY DEF Waiting, NoPropagate, Propagation

LEMMA StartEffect ==
  ASSUME SyncTyped, JobsInOrder, NEW id \in PropagateIds, PropagateStart(id)
  PROVE  /\ propagates[id].state = "delayed"
         /\ JobBecomes(id, "active", SyncReady(propagates[id].exclude), NoChannel)
<1> DEFINE left == SyncReady(propagates[id].exclude)
           new == [propagates[id] EXCEPT !.state = "active", !.left = left]
<1>1. propagates[id].state = "delayed" /\ propagates' = [propagates EXCEPT ![id] = new]
  BY DEF PropagateStart
<1>2. left \in SUBSET Channels
  BY DEF SyncReady
<1> HIDE DEF left
<1>3. /\ new \in Propagation /\ new.state = "active" /\ new.left = left
      /\ new.event = propagates[id].event /\ new.exclude = propagates[id].exclude
      /\ new.adding = propagates[id].adding
  BY <1>2, JobFields DEF Propagation
<1>4. propagates[id].adding = NoChannel
  BY <1>1 DEF JobsInOrder
<1> HIDE DEF new
<1>5. JobBecomes(id, "active", left, NoChannel)
  BY <1>1, <1>3, <1>4, JobWritten DEF JobBecomes
<1> QED  BY <1>1, <1>5 DEF left

LEMMA CreateEffect ==
  ASSUME SyncTyped, JobEvents, RowsFit, NEW id \in PropagateIds, NEW c \in Channels,
         CreateSyncJob(id, c)
  PROVE  /\ propagates[id].state = "active" /\ propagates[id].adding = NoChannel
         /\ c \in propagates[id].left /\ propagates[id].event \in Events
         /\ \/ /\ syncs[c][propagates[id].event].status = "none"
               /\ JobBecomes(id, "active", propagates[id].left \ {c}, c)
               /\ RowBecomes(c, propagates[id].event, "PENDING", "none", 0)
            \/ /\ syncs[c][propagates[id].event].status # "none"
               /\ JobBecomes(id, "active", propagates[id].left \ {c}, NoChannel)
               /\ syncs' = syncs
<1> DEFINE job == propagates[id]
           e == job.event
           adding == IF syncs[c][e].status = "none" THEN c ELSE NoChannel
           new == [job EXCEPT !.left = job.left \ {c}, !.adding = adding]
           row == [syncs[c][e] EXCEPT !.status = "PENDING"]
<1>1. job.state = "active" /\ job.adding = NoChannel /\ c \in job.left
  BY DEF CreateSyncJob
<1>2. e \in Events
  BY <1>1, BegunEvent DEF Begun
<1>3. /\ propagates' = [propagates EXCEPT ![id] = new]
      /\ syncs' = IF syncs[c][e].status = "none"
                  THEN [syncs EXCEPT ![c] = [syncs[c] EXCEPT ![e] = row]] ELSE syncs
  BY DEF CreateSyncJob, SyncTyped
<1>4. adding \in Channels \cup {NoChannel}
  OBVIOUS
<1>5. /\ new \in Propagation /\ new.state = job.state /\ new.event = job.event
      /\ new.exclude = job.exclude /\ new.left = job.left \ {c} /\ new.adding = adding
  <2> HIDE DEF adding
  <2> QED  BY <1>4, JobFields DEF Propagation
<1>6. /\ row \in SyncRow /\ row.status = "PENDING" /\ row.queued = syncs[c][e].queued
      /\ row.tries = syncs[c][e].tries
  BY <1>2, RowFields DEF SyncRow
<1> HIDE DEF new, row
<1>7. JobBecomes(id, "active", job.left \ {c}, adding)
  BY <1>1, <1>3, <1>5, JobWritten DEF JobBecomes
<1>8. CASE syncs[c][e].status = "none"
  <2>1. RowBecomes(c, e, "PENDING", "none", 0)
    <3>1. syncs[c][e].queued = "none" /\ syncs[c][e].tries = 0
      BY <1>2, <1>8 DEF RowsFit, RowFits
    <3>2. RowBecomes(c, e, row.status, row.queued, row.tries)
      BY <1>2, <1>3, <1>6, <1>8, RowWritten
    <3> QED  BY <1>6, <3>1, <3>2
  <2>2. adding = c
    BY <1>8
  <2> QED  BY <1>1, <1>2, <1>7, <1>8, <2>1, <2>2
<1>9. CASE syncs[c][e].status # "none"
  <2>1. adding = NoChannel /\ syncs' = syncs
    BY <1>3, <1>9
  <2> QED  BY <1>1, <1>2, <1>7, <1>9, <2>1
<1> QED  BY <1>8, <1>9

LEMMA AddEffect ==
  ASSUME SyncTyped, JobEvents, JobsInOrder, NEW id \in PropagateIds, AddSyncJob(id)
  PROVE  /\ propagates[id].state = "active" /\ propagates[id].event \in Events
         /\ propagates[id].adding \in Channels
         /\ JobBecomes(id, "active", propagates[id].left, NoChannel)
         /\ syncs[propagates[id].adding][propagates[id].event].status = "PENDING"
         /\ RowBecomes(propagates[id].adding, propagates[id].event, "PENDING", "waiting",
                       syncs[propagates[id].adding][propagates[id].event].tries)
<1> DEFINE job == propagates[id]
           c == job.adding
           e == job.event
           new == [job EXCEPT !.adding = NoChannel]
           row == [syncs[c][e] EXCEPT !.queued = "waiting"]
<1>1. c # NoChannel
  BY DEF AddSyncJob
<1>2. c \in Channels /\ job.state = "active" /\ syncs[c][e].status = "PENDING"
  BY <1>1, JobFields DEF JobsInOrder
<1>3. e \in Events
  BY <1>2, BegunEvent DEF Begun
<1>4. /\ propagates' = [propagates EXCEPT ![id] = new]
      /\ syncs' = [syncs EXCEPT ![c] = [syncs[c] EXCEPT ![e] = row]]
  BY DEF AddSyncJob
<1>5. /\ new \in Propagation /\ new.state = job.state /\ new.event = job.event
      /\ new.exclude = job.exclude /\ new.left = job.left /\ new.adding = NoChannel
  BY JobFields DEF Propagation
<1>6. /\ row \in SyncRow /\ row.status = syncs[c][e].status /\ row.queued = "waiting"
      /\ row.tries = syncs[c][e].tries
  BY <1>2, <1>3, RowFields DEF SyncRow
<1> HIDE DEF new, row
<1>7. JobBecomes(id, "active", job.left, NoChannel)
  BY <1>2, <1>4, <1>5, JobWritten DEF JobBecomes
<1>8. RowBecomes(c, e, "PENDING", "waiting", syncs[c][e].tries)
  <2>1. RowBecomes(c, e, row.status, row.queued, row.tries)
    BY <1>2, <1>3, <1>4, <1>6, RowWritten
  <2> QED  BY <1>2, <1>6, <2>1
<1> QED  BY <1>2, <1>3, <1>7, <1>8

\* A job that is done is forgotten, or keeps its id.
LEMMA DoneEffect ==
  ASSUME SyncTyped, NEW id \in PropagateIds, PropagateDone(id)
  PROVE  /\ propagates[id].state = "active" /\ propagates[id].left = {}
         /\ propagates[id].adding = NoChannel
         /\ propagates' \in [PropagateIds -> Propagation]
         /\ propagates'[id].state \in {"none", "done"} /\ propagates'[id].left = {}
         /\ propagates'[id].adding = NoChannel
         /\ propagates'[id].exclude = NoChannel
         /\ propagates'[id].event \in {0, propagates[id].event}
         /\ id # Coalesced => propagates'[id].event = propagates[id].event
         /\ id = Coalesced => propagates'[id].state = "none"
         /\ \A i \in PropagateIds : i # id => propagates'[i] = propagates[i]
<1> DEFINE done == [NoPropagate EXCEPT !.state = "done", !.event = propagates[id].event]
           new == IF id = Coalesced THEN NoPropagate ELSE done
<1>1. /\ propagates[id].state = "active" /\ propagates[id].left = {}
      /\ propagates[id].adding = NoChannel /\ propagates' = [propagates EXCEPT ![id] = new]
  BY DEF PropagateDone
<1>2. 0 \in 0..MaxEvents
  BY BoundsAssumption
<1>3. /\ done \in Propagation /\ done.state = "done" /\ done.event = propagates[id].event
      /\ done.left = {} /\ done.adding = NoChannel /\ done.exclude = NoChannel
  BY JobFields DEF NoPropagate, Propagation
<1>4. /\ NoPropagate \in Propagation /\ NoPropagate.state = "none" /\ NoPropagate.event = 0
      /\ NoPropagate.left = {} /\ NoPropagate.adding = NoChannel
      /\ NoPropagate.exclude = NoChannel
  BY <1>2 DEF NoPropagate, Propagation
<1> HIDE DEF done
<1>5. new \in Propagation
  BY <1>3, <1>4
<1>6. propagates' \in [PropagateIds -> Propagation] /\ propagates'[id] = new
      /\ \A i \in PropagateIds : i # id => propagates'[i] = propagates[i]
  <2> HIDE DEF new
  <2> QED  BY <1>1, <1>5, JobWritten
<1> QED  BY <1>1, <1>3, <1>4, <1>6

LEMMA CrashEffect ==
  ASSUME SyncTyped, NEW id \in PropagateIds, PropagateCrash(id)
  PROVE  /\ propagates[id].state = "active"
         /\ JobBecomes(id, "delayed", {}, NoChannel)
<1> DEFINE new == Waiting(propagates[id].event, propagates[id].exclude)
<1>1. propagates[id].state = "active" /\ propagates' = [propagates EXCEPT ![id] = new]
  BY DEF PropagateCrash
<1>2. /\ new \in Propagation /\ new.state = "delayed" /\ new.event = propagates[id].event
      /\ new.exclude = propagates[id].exclude /\ new.left = {} /\ new.adding = NoChannel
  BY JobFields, WaitingJob
<1> HIDE DEF new
<1> QED  BY <1>1, <1>2, JobWritten DEF JobBecomes

\* What a worker has in hand after a step of its own; the others go on.
HandBecomes(w, phase, channel, event, quantity) ==
  /\ work' \in [SyncWorkers -> {NoWork} \cup InHand]
  /\ work'[w] # NoWork /\ work'[w].phase = phase /\ work'[w].channel = channel
  /\ work'[w].event = event /\ work'[w].quantity = quantity
  /\ \A v \in SyncWorkers : v # w => work'[v] = work[v]

HandEmptied(w) ==
  /\ work' \in [SyncWorkers -> {NoWork} \cup InHand]
  /\ work'[w] = NoWork
  /\ \A v \in SyncWorkers : v # w => work'[v] = work[v]

LEMMA ShownIsNat == ASSUME SyncTyped PROVE Shown(available) \in Nat
BY DEF SyncTyped, Shown

LEMMA LoadEffect ==
  ASSUME SyncTyped, RowsFit, NEW w \in SyncWorkers, NEW c \in Channels, NEW e \in Events,
         SyncLoad(w, c, e)
  PROVE  /\ ~Busy(w) /\ syncs[c][e].queued = "waiting" /\ enabled[c] = TRUE
         /\ RowBecomes(c, e, "PROCESSING", "active", syncs[c][e].tries + 1)
         /\ HandBecomes(w, "loaded", c, e, Shown(available))
<1> DEFINE row == [status |-> "PROCESSING", queued |-> "active", tries |-> syncs[c][e].tries + 1]
           hand == WorkOn(c, e)
<1>1. /\ work[w] = NoWork /\ syncs[c][e].queued = "waiting" /\ enabled[c]
      /\ syncs' = [syncs EXCEPT ![c] = [syncs[c] EXCEPT ![e] = row]]
      /\ work' = [work EXCEPT ![w] = hand]
  BY DEF SyncLoad
<1>2. syncs[c][e].tries \in Nat /\ syncs[c][e].tries < MaxAttempts
  BY <1>1, RowFields, AttemptsAssumption DEF RowsFit, RowFits
<1>3. row \in SyncRow
  BY <1>2, AttemptsAssumption DEF SyncRow
<1>4. row.status = "PROCESSING" /\ row.queued = "active" /\ row.tries = syncs[c][e].tries + 1
  OBVIOUS
<1>5. /\ hand \in InHand /\ hand.phase = "loaded" /\ hand.channel = c /\ hand.event = e
      /\ hand.quantity = Shown(available)
  BY ShownIsNat DEF WorkOn, InHand
<1>6. hand # NoWork
  BY <1>5 DEF NoWork
<1> HIDE DEF row, hand
<1>7. RowBecomes(c, e, row.status, row.queued, row.tries)
  BY <1>1, <1>3, RowWritten
<1>8. work' \in [SyncWorkers -> {NoWork} \cup InHand] /\ work'[w] = hand
      /\ \A v \in SyncWorkers : v # w => work'[v] = work[v]
  BY <1>1, <1>5, WorkWritten
<1>9. HandBecomes(w, "loaded", c, e, Shown(available))
  BY <1>5, <1>6, <1>8 DEF HandBecomes
<1>10. enabled[c] = TRUE
  BY <1>1 DEF SyncTyped
<1> QED  BY <1>1, <1>4, <1>7, <1>9, <1>10 DEF Busy

LEMMA DisableEffect ==
  ASSUME SyncTyped, NEW c \in Channels, NEW e \in Events, SyncDisable(c, e)
  PROVE  /\ syncs[c][e].queued = "waiting" /\ ~enabled[c]
         /\ RowBecomes(c, e, "DISABLED", "none", syncs[c][e].tries)
<1> DEFINE row == [syncs[c][e] EXCEPT !.status = "DISABLED", !.queued = "none"]
<1>1. /\ syncs[c][e].queued = "waiting" /\ ~enabled[c]
      /\ syncs' = [syncs EXCEPT ![c] = [syncs[c] EXCEPT ![e] = row]]
  BY DEF SyncDisable
<1>2. /\ row \in SyncRow /\ row.status = "DISABLED" /\ row.queued = "none"
      /\ row.tries = syncs[c][e].tries
  BY RowFields DEF SyncRow
<1> HIDE DEF row
<1>3. RowBecomes(c, e, row.status, row.queued, row.tries)
  BY <1>1, <1>2, RowWritten
<1> QED  BY <1>1, <1>2, <1>3

LEMMA PushEffect ==
  ASSUME SyncTyped, NEW w \in SyncWorkers, SyncPush(w)
  PROVE  /\ Busy(w)
         /\ listing' = [listing EXCEPT ![work[w].channel] = work[w].quantity]
         /\ HandBecomes(w, "pushed", work[w].channel, work[w].event, work[w].quantity)
<1> DEFINE hand == [work[w] EXCEPT !.phase = "pushed"]
<1>1. /\ work[w].phase = "loaded" /\ work' = [work EXCEPT ![w] = hand]
      /\ listing' = [listing EXCEPT ![work[w].channel] = work[w].quantity]
  BY DEF SyncPush
<1>2. Busy(w) /\ work[w] \in InHand
  BY <1>1, WorkFields
<1>3. /\ hand \in InHand /\ hand.phase = "pushed" /\ hand.channel = work[w].channel
      /\ hand.event = work[w].event /\ hand.quantity = work[w].quantity
  BY <1>2 DEF InHand
<1>4. hand # NoWork
  BY <1>3 DEF NoWork
<1> HIDE DEF hand
<1>5. work' \in [SyncWorkers -> {NoWork} \cup InHand] /\ work'[w] = hand
      /\ \A v \in SyncWorkers : v # w => work'[v] = work[v]
  BY <1>1, <1>3, WorkWritten
<1> QED  BY <1>1, <1>2, <1>3, <1>4, <1>5 DEF HandBecomes

LEMMA HandLaidDown ==
  ASSUME SyncTyped, NEW w \in SyncWorkers, work' = [work EXCEPT ![w] = NoWork]
  PROVE  HandEmptied(w)
BY DEF SyncTyped, HandEmptied

LEMMA SucceedEffect ==
  ASSUME SyncTyped, NEW w \in SyncWorkers, SyncSucceed(w)
  PROVE  /\ Busy(w) /\ work[w].phase = "pushed" /\ HandEmptied(w)
         /\ RowBecomes(work[w].channel, work[w].event, "SUCCESS", "none",
                       syncs[work[w].channel][work[w].event].tries)
         /\ lastStatus' = [lastStatus EXCEPT ![work[w].channel] = "SYNCED"]
<1> DEFINE c == work[w].channel
           e == work[w].event
           row == [syncs[c][e] EXCEPT !.status = "SUCCESS", !.queued = "none"]
<1>1. /\ work[w].phase = "pushed" /\ work' = [work EXCEPT ![w] = NoWork]
      /\ syncs' = [syncs EXCEPT ![c] = [syncs[c] EXCEPT ![e] = row]]
      /\ lastStatus' = [lastStatus EXCEPT ![work[w].channel] = "SYNCED"]
  BY DEF SyncSucceed
<1>2. Busy(w) /\ c \in Channels /\ e \in Events
  BY <1>1, WorkFields
<1>3. /\ row \in SyncRow /\ row.status = "SUCCESS" /\ row.queued = "none"
      /\ row.tries = syncs[c][e].tries
  <2>1. syncs[c][e] \in SyncRow
    BY <1>2, RowFields
  <2> QED  BY <2>1 DEF SyncRow
<1> HIDE DEF row
<1>4. RowBecomes(c, e, row.status, row.queued, row.tries)
  BY <1>1, <1>2, <1>3, RowWritten
<1>5. HandEmptied(w)
  BY <1>1, HandLaidDown
<1> QED  BY <1>1, <1>2, <1>3, <1>4, <1>5

LEMMA FailEffect ==
  ASSUME SyncTyped, NEW w \in SyncWorkers, NEW fault, SyncFail(w, fault)
  PROVE  LET c == work[w].channel
             e == work[w].event
         IN  /\ Busy(w) /\ HandEmptied(w)
             /\ \/ /\ RowBecomes(c, e, "FAILED", "waiting", syncs[c][e].tries)
                   /\ syncs[c][e].tries < MaxAttempts
                \/ /\ RowBecomes(c, e, "FAILED", "none", syncs[c][e].tries)
                   /\ lastStatus' = [lastStatus EXCEPT ![c] = "FAILED"]
             /\ \E status \in {"none", "SYNCED", "FAILED"} :
                  lastStatus' = [lastStatus EXCEPT ![c] = status]
             /\ \/ enabled' = enabled
                \/ /\ enabled' = [enabled EXCEPT ![c] = FALSE]
                   /\ lastStatus' = [lastStatus EXCEPT ![c] = "FAILED"]
<1> DEFINE c == work[w].channel
           e == work[w].event
           tries == syncs[c][e].tries
           queued == IF Requeued(fault, tries) THEN "waiting" ELSE "none"
           status == IF FinalFailure(fault, tries) THEN "FAILED" ELSE lastStatus[c]
           row == [syncs[c][e] EXCEPT !.status = "FAILED", !.queued = queued]
<1>1. /\ work[w].phase \in {"loaded", "pushed"} /\ work' = [work EXCEPT ![w] = NoWork]
      /\ syncs' = [syncs EXCEPT ![c] = [syncs[c] EXCEPT ![e] = row]]
      /\ lastStatus' = [lastStatus EXCEPT ![c] = status]
      /\ enabled' = [enabled EXCEPT ![c] = enabled[c] /\ fault # "invalid"]
  BY DEF SyncFail
<1>2. Busy(w) /\ c \in Channels /\ e \in Events
  BY <1>1, WorkFields
<1>3. tries \in Nat
  BY <1>2, RowFields, AttemptsAssumption
<1>4. \/ queued = "waiting" /\ tries < MaxAttempts
      \/ queued = "none" /\ status = "FAILED"
  BY <1>3, AttemptsAssumption DEF Requeued, FinalFailure
<1>5. fault = "invalid" => status = "FAILED"
  BY DEF FinalFailure
<1>6. status \in {"none", "SYNCED", "FAILED"} /\ queued \in {"none", "waiting", "active"}
  BY <1>2 DEF SyncTyped
<1> HIDE DEF queued, status
<1>7. /\ row \in SyncRow /\ row.status = "FAILED" /\ row.queued = queued /\ row.tries = tries
  <2>1. syncs[c][e] \in SyncRow
    BY <1>2, RowFields
  <2> QED  BY <1>6, <2>1 DEF SyncRow
<1> HIDE DEF row
<1>8. RowBecomes(c, e, row.status, row.queued, row.tries)
  BY <1>1, <1>2, <1>7, RowWritten
<1>9. HandEmptied(w)
  BY <1>1, HandLaidDown
<1>10. \/ enabled' = enabled
       \/ enabled' = [enabled EXCEPT ![c] = FALSE] /\ status = "FAILED"
  <2>1. CASE fault = "invalid"
    BY <1>1, <1>5, <2>1
  <2>2. CASE fault # "invalid"
    <3>1. enabled \in [Channels -> BOOLEAN]
      BY DEF SyncTyped
    <3> QED  BY <1>1, <1>2, <2>2, <3>1
  <2> QED  BY <2>1, <2>2
<1>11. RowBecomes(c, e, "FAILED", queued, tries)
  BY <1>7, <1>8
<1> QED  BY <1>1, <1>2, <1>4, <1>6, <1>9, <1>10, <1>11

LEMMA CrashedEffect ==
  ASSUME SyncTyped, RowsFit, WorkersFit, NEW w \in SyncWorkers, SyncCrash(w)
  PROVE  /\ Busy(w) /\ HandEmptied(w)
         /\ RowBecomes(work[w].channel, work[w].event, "PROCESSING", "waiting",
                       syncs[work[w].channel][work[w].event].tries - 1)
         /\ syncs[work[w].channel][work[w].event].tries \in 1..MaxAttempts
<1> DEFINE c == work[w].channel
           e == work[w].event
           tries == syncs[c][e].tries - 1
           row == [syncs[c][e] EXCEPT !.queued = "waiting", !.tries = tries]
<1>1. /\ work[w] # NoWork /\ work' = [work EXCEPT ![w] = NoWork]
      /\ syncs' = [syncs EXCEPT ![c] = [syncs[c] EXCEPT ![e] = row]]
  BY DEF SyncCrash
<1>2. Busy(w) /\ c \in Channels /\ e \in Events
  BY <1>1, WorkFields DEF Busy
<1>3. syncs[c][e].queued = "active" /\ syncs[c][e].tries > 0 /\ syncs[c][e].status = "PROCESSING"
  BY <1>2 DEF WorkersFit, RowsFit, RowFits
<1>4. syncs[c][e].tries \in 1..MaxAttempts /\ tries \in 0..MaxAttempts
  BY <1>2, <1>3, RowFields, AttemptsAssumption
<1> HIDE DEF tries
<1>5. row \in SyncRow /\ row.status = "PROCESSING" /\ row.queued = "waiting" /\ row.tries = tries
  <2>1. syncs[c][e] \in SyncRow
    BY <1>2, RowFields
  <2> QED  BY <1>3, <1>4, <2>1 DEF SyncRow
<1> HIDE DEF row
<1>6. RowBecomes(c, e, row.status, row.queued, row.tries)
  BY <1>1, <1>2, <1>5, RowWritten
<1>7. HandEmptied(w)
  BY <1>1, HandLaidDown
<1>8. RowBecomes(c, e, "PROCESSING", "waiting", tries)
  BY <1>5, <1>6
<1> QED  BY <1>2, <1>4, <1>7, <1>8 DEF tries

-----------------------------------------------------------------------------
(* The steps of the sync workers keep the invariant.                       *)

\* A row in the queue moves on; no job under way is about to add it.
LEMMA QueuedRowMoves ==
  ASSUME SyncInv, NEW c \in Channels, NEW e \in Events, syncs[c][e].queued # "none",
         NEW status, NEW queued, NEW tries, RowBecomes(c, e, status, queued, tries),
         status # "none", RowFits([status |-> status, queued |-> queued, tries |-> tries]),
         UNCHANGED <<propagates, owed, events, unpulled>>
  PROVE  /\ EventsLeft' /\ JobEvents' /\ OwedIsNew' /\ RowsInPast'
         /\ JobsInOrder' /\ RowsFit'
<1>1. syncs[c][e].status # "none"
  BY DEF SyncInv, RowsFit, RowFits
<1>2. \A d \in Channels, f \in Events :
        /\ syncs[d][f].status = "none" <=> syncs'[d][f].status = "none"
        /\ syncs[d][f].queued = "none" => syncs'[d][f] = syncs[d][f]
  BY <1>1 DEF RowBecomes
<1>3. EventsLeft' /\ JobEvents'
  BY DEF SyncInv, EventsLeft, Sold, JobEvents, Begun
<1>4. OwedIsNew'
  <2>1. \A o \in owed : o.event \in Events
    BY DEF SyncInv, SyncTyped, Debt
  <2> QED  BY <1>2, <2>1 DEF SyncInv, OwedIsNew, Begun
<1>5. RowsInPast'
  BY <1>2 DEF SyncInv, RowsInPast
<1>6. JobsInOrder'
  <2> SUFFICES ASSUME NEW id \in PropagateIds
               PROVE  /\ propagates[id].state # "active" =>
                           propagates[id].left = {} /\ propagates[id].adding = NoChannel
                      /\ propagates[id].exclude \notin propagates[id].left
                      /\ propagates[id].adding # NoChannel =>
                           /\ syncs'[propagates[id].adding][propagates[id].event].status = "PENDING"
                           /\ syncs'[propagates[id].adding][propagates[id].event].queued = "none"
    BY DEF JobsInOrder
  <2>1. propagates[id].adding # NoChannel =>
          propagates[id].adding \in Channels /\ propagates[id].event \in Events
    BY JobFields, BegunEvent DEF SyncInv, JobsInOrder, Begun
  <2> QED  BY <1>2, <2>1 DEF SyncInv, JobsInOrder
<1>7. RowsFit'
  BY DEF SyncInv, RowsFit, RowFits, RowBecomes
<1> QED  BY <1>3, <1>4, <1>5, <1>6, <1>7

\* A worker that lays its job down leaves the others theirs.
LEMMA OthersKeepTheirJobs ==
  ASSUME SyncInv, NEW w \in SyncWorkers, Busy(w), HandEmptied(w),
         NEW status, NEW queued, NEW tries,
         RowBecomes(work[w].channel, work[w].event, status, queued, tries)
  PROVE  WorkersFit'
<1>1. \A v \in SyncWorkers : Busy(v)' => v # w /\ Busy(v) /\ work'[v] = work[v]
  BY DEF HandEmptied, Busy
<1>2. \A v \in SyncWorkers : Busy(v) => work[v].channel \in Channels /\ work[v].event \in Events
  BY WorkFields DEF SyncInv
<1>3. \A v \in SyncWorkers : Busy(v) /\ v # w =>
        work[v].channel # work[w].channel \/ work[v].event # work[w].event
  BY DEF SyncInv, WorkersFit, At
<1>4. \A v \in SyncWorkers : Busy(v) /\ v # w =>
        syncs'[work[v].channel][work[v].event] = syncs[work[v].channel][work[v].event]
  BY <1>2, <1>3 DEF RowBecomes
<1> QED  BY <1>1, <1>4 DEF SyncInv, WorkersFit, At

LEMMA SyncLoadKeeps ==
  ASSUME SyncInv, NEW w \in SyncWorkers, NEW c \in Channels, NEW e \in Events,
         SyncLoad(w, c, e)
  PROVE  SyncInv'
<1> DEFINE tries == syncs[c][e].tries + 1
<1>1. /\ ~Busy(w) /\ syncs[c][e].queued = "waiting"
      /\ RowBecomes(c, e, "PROCESSING", "active", tries)
      /\ HandBecomes(w, "loaded", c, e, Shown(available))
  BY LoadEffect DEF SyncInv
<1>2. UNCHANGED <<available, listing, unpulled, owed, propagates, enabled, lastStatus,
                  events, changedAt, uncovered, faults, crashes, world>>
  BY DEF SyncLoad
<1>3. tries > 0
  BY RowFields, AttemptsAssumption DEF SyncInv
<1> HIDE DEF tries
<1>4. RowFits([status |-> "PROCESSING", queued |-> "active", tries |-> tries])
  BY <1>3 DEF RowFits
<1>5. /\ EventsLeft' /\ JobEvents' /\ OwedIsNew' /\ RowsInPast' /\ JobsInOrder' /\ RowsFit'
  BY <1>1, <1>2, <1>4, QueuedRowMoves
<1>6. SyncTyped'
  BY <1>1, <1>2 DEF SyncInv, SyncTyped, RowBecomes, HandBecomes
<1>7. WorkersFit'
  <2>1. \A v \in SyncWorkers : Busy(v) =>
          /\ v # w /\ work'[v] = work[v] /\ Busy(v)'
          /\ work[v].channel \in Channels /\ work[v].event \in Events
          /\ syncs[work[v].channel][work[v].event].queued = "active"
    BY <1>1, WorkFields DEF SyncInv, WorkersFit, HandBecomes, Busy
  <2>2. \A v \in SyncWorkers : Busy(v) => work[v].channel # c \/ work[v].event # e
    BY <1>1, <2>1
  <2>3. \A v \in SyncWorkers : Busy(v)' => v = w \/ Busy(v)
    BY <1>1 DEF HandBecomes, Busy
  <2>4. \A v \in SyncWorkers : Busy(v) =>
          syncs'[work[v].channel][work[v].event] = syncs[work[v].channel][work[v].event]
    BY <1>1, <2>1, <2>2 DEF RowBecomes
  <2>5. work'[w].channel = c /\ work'[w].event = e /\ syncs'[c][e].queued = "active"
    BY <1>1 DEF HandBecomes, RowBecomes
  <2> QED  BY <2>1, <2>2, <2>3, <2>4, <2>5 DEF SyncInv, WorkersFit, At
<1> QED  BY <1>5, <1>6, <1>7 DEF SyncInv

LEMMA SyncDisableKeeps ==
  ASSUME SyncInv, NEW c \in Channels, NEW e \in Events, SyncDisable(c, e)
  PROVE  SyncInv'
<1> DEFINE tries == syncs[c][e].tries
<1>1. /\ syncs[c][e].queued = "waiting" /\ RowBecomes(c, e, "DISABLED", "none", tries)
  BY DisableEffect DEF SyncInv
<1>2. UNCHANGED <<available, listing, unpulled, owed, propagates, work, enabled, lastStatus,
                  events, changedAt, uncovered, faults, crashes, world>>
  BY DEF SyncDisable
<1> HIDE DEF tries
<1>3. RowFits([status |-> "DISABLED", queued |-> "none", tries |-> tries])
  BY DEF RowFits
<1>4. /\ EventsLeft' /\ JobEvents' /\ OwedIsNew' /\ RowsInPast' /\ JobsInOrder' /\ RowsFit'
  BY <1>1, <1>2, <1>3, QueuedRowMoves
<1>5. SyncTyped'
  BY <1>1, <1>2 DEF SyncInv, SyncTyped, RowBecomes
<1>6. WorkersFit'
  <2>1. \A v \in SyncWorkers : Busy(v) =>
          syncs'[work[v].channel][work[v].event] = syncs[work[v].channel][work[v].event]
    BY <1>1, WorkFields DEF SyncInv, WorkersFit, RowBecomes
  <2> QED  BY <1>2, <2>1 DEF SyncInv, WorkersFit, At, Busy
<1> QED  BY <1>4, <1>5, <1>6 DEF SyncInv

LEMMA SyncPushKeeps ==
  ASSUME SyncInv, NEW w \in SyncWorkers, SyncPush(w)
  PROVE  SyncInv'
<1>1. /\ Busy(w) /\ listing' = [listing EXCEPT ![work[w].channel] = work[w].quantity]
      /\ HandBecomes(w, "pushed", work[w].channel, work[w].event, work[w].quantity)
  BY PushEffect DEF SyncInv
<1>2. UNCHANGED <<available, unpulled, owed, propagates, syncs, enabled, lastStatus,
                  events, changedAt, uncovered, faults, crashes, world>>
  BY DEF SyncPush
<1>3. work[w].quantity \in Nat
  BY <1>1, WorkFields DEF SyncInv
<1>4. SyncTyped'
  BY <1>1, <1>2, <1>3 DEF SyncInv, SyncTyped, HandBecomes
<1>5. WorkersFit'
  <2>1. \A v \in SyncWorkers : /\ Busy(v)' <=> Busy(v)
                               /\ work'[v].channel = work[v].channel
                               /\ work'[v].event = work[v].event
    BY <1>1 DEF HandBecomes, Busy
  <2> QED  BY <1>2, <2>1 DEF SyncInv, WorkersFit, At
<1>6. EventsLeft' /\ JobEvents' /\ OwedIsNew' /\ RowsInPast' /\ JobsInOrder' /\ RowsFit'
  BY <1>2 DEF SyncInv, EventsLeft, Sold, JobEvents, OwedIsNew, RowsInPast, JobsInOrder,
              RowsFit, Begun
<1> QED  BY <1>4, <1>5, <1>6 DEF SyncInv

LEMMA SyncSucceedKeeps ==
  ASSUME SyncInv, NEW w \in SyncWorkers, SyncSucceed(w)
  PROVE  SyncInv'
<1> DEFINE c == work[w].channel
           e == work[w].event
           tries == syncs[c][e].tries
<1>1. /\ Busy(w) /\ HandEmptied(w) /\ RowBecomes(c, e, "SUCCESS", "none", tries)
      /\ lastStatus' = [lastStatus EXCEPT ![c] = "SYNCED"]
  BY SucceedEffect DEF SyncInv
<1>2. UNCHANGED <<available, listing, unpulled, owed, propagates, enabled,
                  events, changedAt, uncovered, faults, crashes, world>>
  BY DEF SyncSucceed
<1>3. c \in Channels /\ e \in Events /\ syncs[c][e].queued = "active"
  BY <1>1, WorkFields DEF SyncInv, WorkersFit
<1>4. WorkersFit'
  BY <1>1, OthersKeepTheirJobs
<1> HIDE DEF c, e, tries
<1>5. RowFits([status |-> "SUCCESS", queued |-> "none", tries |-> tries])
  BY DEF RowFits
<1>6. /\ EventsLeft' /\ JobEvents' /\ OwedIsNew' /\ RowsInPast' /\ JobsInOrder' /\ RowsFit'
  BY <1>1, <1>2, <1>3, <1>5, QueuedRowMoves
<1>7. SyncTyped'
  BY <1>1, <1>2, <1>3 DEF SyncInv, SyncTyped, RowBecomes, HandEmptied
<1> QED  BY <1>4, <1>6, <1>7 DEF SyncInv

LEMMA SyncFailKeeps ==
  ASSUME SyncInv, NEW w \in SyncWorkers, NEW fault, SyncFail(w, fault)
  PROVE  SyncInv'
<1> DEFINE c == work[w].channel
           e == work[w].event
           tries == syncs[c][e].tries
<1>1. /\ Busy(w) /\ HandEmptied(w)
      /\ \/ RowBecomes(c, e, "FAILED", "waiting", tries) /\ tries < MaxAttempts
         \/ RowBecomes(c, e, "FAILED", "none", tries)
      /\ \E status \in {"none", "SYNCED", "FAILED"} :
           lastStatus' = [lastStatus EXCEPT ![c] = status]
      /\ enabled' = enabled \/ enabled' = [enabled EXCEPT ![c] = FALSE]
  BY FailEffect DEF SyncInv
<1>2. /\ UNCHANGED <<available, listing, unpulled, owed, propagates,
                     events, changedAt, uncovered, crashes, world>>
      /\ faults < MaxFaults /\ faults' = faults + 1
  BY DEF SyncFail
<1>3. c \in Channels /\ e \in Events /\ syncs[c][e].queued = "active"
  BY <1>1, WorkFields DEF SyncInv, WorkersFit
<1>4. WorkersFit'
  BY <1>1, OthersKeepTheirJobs
<1> HIDE DEF c, e, tries
<1>5. PICK queued \in {"none", "waiting"} :
        /\ RowBecomes(c, e, "FAILED", queued, tries)
        /\ queued = "waiting" => tries < MaxAttempts
  BY <1>1
<1>6. RowFits([status |-> "FAILED", queued |-> queued, tries |-> tries])
  BY <1>5 DEF RowFits
<1>7. /\ EventsLeft' /\ JobEvents' /\ OwedIsNew' /\ RowsInPast' /\ JobsInOrder' /\ RowsFit'
  BY <1>2, <1>3, <1>5, <1>6, QueuedRowMoves
<1>8. faults' \in 0..MaxFaults
  BY <1>2, BoundsAssumption DEF SyncInv, SyncTyped
<1>9. SyncTyped'
  BY <1>1, <1>2, <1>3, <1>5, <1>8 DEF SyncInv, SyncTyped, RowBecomes, HandEmptied
<1> QED  BY <1>4, <1>7, <1>9 DEF SyncInv

LEMMA SyncCrashKeeps ==
  ASSUME SyncInv, NEW w \in SyncWorkers, SyncCrash(w)
  PROVE  SyncInv'
<1> DEFINE c == work[w].channel
           e == work[w].event
           tries == syncs[c][e].tries - 1
<1>1. /\ Busy(w) /\ HandEmptied(w) /\ RowBecomes(c, e, "PROCESSING", "waiting", tries)
      /\ syncs[c][e].tries \in 1..MaxAttempts
  BY CrashedEffect DEF SyncInv
<1>2. /\ UNCHANGED <<available, listing, unpulled, owed, propagates, enabled, lastStatus,
                     events, changedAt, uncovered, faults, world>>
      /\ crashes < MaxCrashes /\ crashes' = crashes + 1
  BY DEF SyncCrash
<1>3. c \in Channels /\ e \in Events /\ syncs[c][e].queued = "active"
  BY <1>1, WorkFields DEF SyncInv, WorkersFit
<1>4. WorkersFit'
  BY <1>1, OthersKeepTheirJobs
<1>5. tries < MaxAttempts
  BY <1>1, AttemptsAssumption
<1> HIDE DEF c, e, tries
<1>6. RowFits([status |-> "PROCESSING", queued |-> "waiting", tries |-> tries])
  BY <1>5 DEF RowFits
<1>7. /\ EventsLeft' /\ JobEvents' /\ OwedIsNew' /\ RowsInPast' /\ JobsInOrder' /\ RowsFit'
  BY <1>1, <1>2, <1>3, <1>6, QueuedRowMoves
<1>8. crashes' \in 0..MaxCrashes
  BY <1>2, BoundsAssumption DEF SyncInv, SyncTyped
<1>9. SyncTyped'
  BY <1>1, <1>2, <1>3, <1>8 DEF SyncInv, SyncTyped, RowBecomes, HandEmptied
<1> QED  BY <1>4, <1>7, <1>9 DEF SyncInv

-----------------------------------------------------------------------------
(* The steps of the propagate worker keep the invariant.                   *)

\* Jobs under way have different events, and none of what is still owed.
LEMMA EventsApart ==
  ASSUME SyncInv, NEW id \in PropagateIds, Begun(id)
  PROVE  /\ propagates[id].event \in Events
         /\ \A i \in PropagateIds \ {id} : Begun(i) => propagates[i].event # propagates[id].event
         /\ \A o \in owed : o.event \in Events /\ o.event # propagates[id].event /\ o.event # id
<1>1. propagates[id].event \in Events
  BY BegunEvent DEF SyncInv
<1>2. \A i \in PropagateIds \ {id} : Begun(i) => propagates[i].event # propagates[id].event
  BY DEF SyncInv, JobEvents, Begun, PropagateIds
<1>3. \A o \in owed : o.event \in Events
  BY DEF SyncInv, SyncTyped, Debt
<1>4. \A o \in owed : o.event # propagates[id].event
  BY <1>3 DEF SyncInv, OwedIsNew, JobEvents, Begun, PropagateIds
<1>5. \A o \in owed : o.event # id
  BY <1>3 DEF SyncInv, OwedIsNew, Begun
<1> QED  BY <1>1, <1>2, <1>3, <1>4, <1>5

\* A job under way moves on and writes no rows but its own.
LEMMA JobMoves ==
  ASSUME SyncInv, NEW id \in PropagateIds, Begun(id), NEW state \in {"delayed", "active"},
         NEW left, NEW adding, JobBecomes(id, state, left, adding),
         propagates[id].exclude \notin left,
         state = "delayed" => left = {} /\ adding = NoChannel,
         adding # NoChannel => /\ syncs'[adding][propagates[id].event].status = "PENDING"
                               /\ syncs'[adding][propagates[id].event].queued = "none",
         \A d \in Channels, f \in Events :
           f # propagates[id].event => syncs'[d][f] = syncs[d][f],
         UNCHANGED <<events, unpulled, owed>>
  PROVE  EventsLeft' /\ JobEvents' /\ OwedIsNew' /\ RowsInPast' /\ JobsInOrder'
<1>1. /\ \A i \in PropagateIds : propagates'[i].event = propagates[i].event
      /\ \A i \in PropagateIds : Begun(i)' <=> Begun(i)
      /\ \A i \in PropagateIds : propagates'[i].state = "none" <=> propagates[i].state = "none"
      /\ \A i \in PropagateIds : propagates'[i].state = "done" <=> propagates[i].state = "done"
  BY DEF JobBecomes, Begun
<1>2. Coalesced \in PropagateIds /\ Events \subseteq PropagateIds
  BY DEF PropagateIds
<1>3. EventsLeft'
  BY DEF SyncInv, EventsLeft, Sold
<1>4. JobEvents'
  BY <1>1, <1>2 DEF SyncInv, JobEvents
<1>5. OwedIsNew'
  <2>1. \A o \in owed, c \in Channels : syncs'[c][o.event] = syncs[c][o.event]
    BY EventsApart
  <2>2. \A o \in owed : o.event \in PropagateIds
    BY EventsApart, <1>2
  <2> QED  BY <1>1, <1>2, <2>1, <2>2 DEF SyncInv, OwedIsNew
<1>6. RowsInPast'
  <2>1. propagates[id].event \in Events /\ propagates[id].event <= events
    BY EventsApart DEF SyncInv, JobEvents
  <2>2. \A f \in Events : f > events => f # propagates[id].event
    BY <2>1 DEF Events, SyncInv, SyncTyped
  <2> QED  BY <2>2 DEF SyncInv, RowsInPast
<1>7. JobsInOrder'
  <2> SUFFICES ASSUME NEW i \in PropagateIds
               PROVE  /\ propagates'[i].state # "active" =>
                           propagates'[i].left = {} /\ propagates'[i].adding = NoChannel
                      /\ propagates'[i].exclude \notin propagates'[i].left
                      /\ propagates'[i].adding # NoChannel =>
                           /\ syncs'[propagates'[i].adding][propagates'[i].event].status = "PENDING"
                           /\ syncs'[propagates'[i].adding][propagates'[i].event].queued = "none"
    BY DEF JobsInOrder
  <2>1. CASE i = id
    BY <2>1 DEF JobBecomes
  <2>2. CASE i # id
    <3>1. propagates'[i] = propagates[i]
      BY <2>2 DEF JobBecomes
    <3>2. propagates[i].adding # NoChannel => Begun(i)
      BY DEF SyncInv, JobsInOrder, Begun
    <3>3. propagates[i].adding # NoChannel =>
            /\ propagates[i].adding \in Channels /\ propagates[i].event \in Events
            /\ propagates[i].event # propagates[id].event
      BY <2>2, <3>2, EventsApart, JobFields DEF SyncInv
    <3> QED  BY <3>1, <3>3 DEF SyncInv, JobsInOrder
  <2> QED  BY <2>1, <2>2
<1> QED  BY <1>3, <1>4, <1>5, <1>6, <1>7

LEMMA StartKeeps ==
  ASSUME SyncInv, NEW id \in PropagateIds, PropagateStart(id)
  PROVE  SyncInv'
<1> DEFINE left == SyncReady(propagates[id].exclude)
<1>1. propagates[id].state = "delayed" /\ JobBecomes(id, "active", left, NoChannel)
  BY StartEffect DEF SyncInv
<1>2. UNCHANGED <<available, listing, unpulled, owed, syncs, work, enabled, lastStatus,
                  events, changedAt, uncovered, faults, crashes, world>>
  BY DEF PropagateStart
<1>3. propagates[id].exclude \notin left
  BY DEF SyncReady
<1>4. Begun(id)
  BY <1>1 DEF Begun
<1> HIDE DEF left
<1>5. EventsLeft' /\ JobEvents' /\ OwedIsNew' /\ RowsInPast' /\ JobsInOrder'
  BY <1>1, <1>2, <1>3, <1>4, JobMoves
<1>6. SyncTyped' /\ RowsFit' /\ WorkersFit'
  BY <1>1, <1>2 DEF SyncInv, SyncTyped, RowsFit, WorkersFit, At, Busy, JobBecomes
<1> QED  BY <1>5, <1>6 DEF SyncInv

LEMMA CreateKeeps ==
  ASSUME SyncInv, NEW id \in PropagateIds, NEW c \in Channels, CreateSyncJob(id, c)
  PROVE  SyncInv'
<1> DEFINE e == propagates[id].event
           left == propagates[id].left \ {c}
<1>1. /\ propagates[id].state = "active" /\ e \in Events
      /\ \/ /\ syncs[c][e].status = "none"
            /\ JobBecomes(id, "active", left, c)
            /\ RowBecomes(c, e, "PENDING", "none", 0)
         \/ JobBecomes(id, "active", left, NoChannel) /\ syncs' = syncs
  BY CreateEffect DEF SyncInv
<1>2. UNCHANGED <<available, listing, unpulled, owed, work, enabled, lastStatus,
                  events, changedAt, uncovered, faults, crashes, world>>
  BY DEF CreateSyncJob
<1>3. propagates[id].exclude \notin left
  BY DEF SyncInv, JobsInOrder
<1>4. Begun(id)
  BY <1>1 DEF Begun
<1>5. c # NoChannel
  BY ChannelsAssumption
<1> HIDE DEF left
<1>6. CASE /\ syncs[c][e].status = "none" /\ JobBecomes(id, "active", left, c)
           /\ RowBecomes(c, e, "PENDING", "none", 0)
  <2>1. /\ syncs'[c][e].status = "PENDING" /\ syncs'[c][e].queued = "none"
        /\ \A d \in Channels, f \in Events : f # e => syncs'[d][f] = syncs[d][f]
    BY <1>6 DEF RowBecomes
  <2>2. EventsLeft' /\ JobEvents' /\ OwedIsNew' /\ RowsInPast' /\ JobsInOrder'
    BY <1>2, <1>3, <1>4, <1>6, <2>1, JobMoves
  <2>3. SyncTyped'
    BY <1>2, <1>6 DEF SyncInv, SyncTyped, JobBecomes, RowBecomes
  <2>4. RowsFit'
    BY <1>6 DEF SyncInv, RowsFit, RowFits, RowBecomes
  <2>5. WorkersFit'
    <3>1. syncs[c][e].queued = "none"
      BY <1>1, <1>6 DEF SyncInv, RowsFit, RowFits
    <3>2. \A v \in SyncWorkers : Busy(v) =>
            syncs'[work[v].channel][work[v].event] = syncs[work[v].channel][work[v].event]
      BY <1>6, <3>1, WorkFields DEF SyncInv, WorkersFit, RowBecomes
    <3> QED  BY <1>2, <3>2 DEF SyncInv, WorkersFit, At, Busy
  <2> QED  BY <2>2, <2>3, <2>4, <2>5 DEF SyncInv
<1>7. CASE JobBecomes(id, "active", left, NoChannel) /\ syncs' = syncs
  <2>1. EventsLeft' /\ JobEvents' /\ OwedIsNew' /\ RowsInPast' /\ JobsInOrder'
    BY <1>2, <1>3, <1>4, <1>7, JobMoves
  <2>2. SyncTyped' /\ RowsFit' /\ WorkersFit'
    BY <1>2, <1>7 DEF SyncInv, SyncTyped, RowsFit, WorkersFit, At, Busy, JobBecomes
  <2> QED  BY <2>1, <2>2 DEF SyncInv
<1> QED  BY <1>1, <1>6, <1>7

LEMMA AddKeeps ==
  ASSUME SyncInv, NEW id \in PropagateIds, AddSyncJob(id)
  PROVE  SyncInv'
<1> DEFINE c == propagates[id].adding
           e == propagates[id].event
           left == propagates[id].left
           tries == syncs[c][e].tries
<1>1. /\ propagates[id].state = "active" /\ e \in Events /\ c \in Channels
      /\ JobBecomes(id, "active", left, NoChannel)
      /\ syncs[c][e].status = "PENDING" /\ RowBecomes(c, e, "PENDING", "waiting", tries)
  BY AddEffect DEF SyncInv
<1>2. UNCHANGED <<available, listing, unpulled, owed, work, enabled, lastStatus,
                  events, changedAt, uncovered, faults, crashes, world>>
  BY DEF AddSyncJob
<1>3. propagates[id].exclude \notin left /\ syncs[c][e].queued = "none"
  BY <1>1, ChannelsAssumption DEF SyncInv, JobsInOrder
<1>4. Begun(id)
  BY <1>1 DEF Begun
<1>5. tries = 0
  BY <1>1 DEF SyncInv, RowsFit, RowFits
<1> HIDE DEF left, tries, c
<1>6. \A d \in Channels, f \in Events : f # e => syncs'[d][f] = syncs[d][f]
  BY <1>1 DEF RowBecomes
<1>7. EventsLeft' /\ JobEvents' /\ OwedIsNew' /\ RowsInPast' /\ JobsInOrder'
  BY <1>1, <1>2, <1>3, <1>4, <1>6, JobMoves
<1>8. SyncTyped'
  BY <1>1, <1>2 DEF SyncInv, SyncTyped, JobBecomes, RowBecomes
<1>9. RowsFit'
  BY <1>1, <1>5, AttemptsAssumption DEF SyncInv, RowsFit, RowFits, RowBecomes
<1>10. WorkersFit'
  <2>1. \A v \in SyncWorkers : Busy(v) =>
          syncs'[work[v].channel][work[v].event] = syncs[work[v].channel][work[v].event]
    BY <1>1, <1>3, WorkFields DEF SyncInv, WorkersFit, RowBecomes
  <2> QED  BY <1>2, <2>1 DEF SyncInv, WorkersFit, At, Busy
<1> QED  BY <1>7, <1>8, <1>9, <1>10 DEF SyncInv

LEMMA DoneKeeps ==
  ASSUME SyncInv, NEW id \in PropagateIds, PropagateDone(id)
  PROVE  SyncInv'
<1>1. /\ propagates[id].state = "active"
      /\ propagates' \in [PropagateIds -> Propagation]
      /\ propagates'[id].state \in {"none", "done"} /\ propagates'[id].left = {}
      /\ propagates'[id].adding = NoChannel
      /\ propagates'[id].event \in {0, propagates[id].event}
      /\ id # Coalesced => propagates'[id].event = propagates[id].event
      /\ id = Coalesced => propagates'[id].state = "none"
      /\ \A i \in PropagateIds : i # id => propagates'[i] = propagates[i]
  BY DoneEffect DEF SyncInv
<1>2. UNCHANGED <<available, listing, unpulled, owed, syncs, work, enabled, lastStatus,
                  events, changedAt, uncovered, faults, crashes, world>>
  BY DEF PropagateDone
<1>3. Begun(id) /\ ~Begun(id)'
  BY <1>1 DEF Begun
<1>4. Coalesced \in PropagateIds /\ Events \subseteq PropagateIds /\ Coalesced \notin Events
  BY DEF PropagateIds, Coalesced, Events
<1>5. \A i \in PropagateIds : Begun(i)' => i # id /\ Begun(i)
  BY <1>1, <1>3 DEF Begun
<1>6. JobEvents'
  <2>1. \A i \in PropagateIds : propagates'[i].event <= events
    BY <1>1 DEF SyncInv, JobEvents, SyncTyped
  <2>2. \A i \in Events : propagates'[i].state # "none" =>
          propagates[i].state # "none" /\ propagates'[i].event = propagates[i].event
    BY <1>1, <1>4
  <2> QED  BY <1>1, <1>2, <1>4, <1>5, <2>1, <2>2 DEF SyncInv, JobEvents
<1>7. OwedIsNew'
  <2>1. \A o \in owed : o.event \in PropagateIds /\ o.event # id
    BY <1>3, <1>4, EventsApart
  <2> QED  BY <1>1, <1>2, <1>4, <1>5, <2>1 DEF SyncInv, OwedIsNew
<1>8. JobsInOrder'
  <2> SUFFICES ASSUME NEW i \in PropagateIds
               PROVE  /\ propagates'[i].state # "active" =>
                           propagates'[i].left = {} /\ propagates'[i].adding = NoChannel
                      /\ propagates'[i].exclude \notin propagates'[i].left
                      /\ propagates'[i].adding # NoChannel =>
                           /\ syncs[propagates'[i].adding][propagates'[i].event].status = "PENDING"
                           /\ syncs[propagates'[i].adding][propagates'[i].event].queued = "none"
    BY <1>2 DEF JobsInOrder
  <2>1. CASE i = id
    BY <1>1, <2>1
  <2>2. CASE i # id
    BY <1>1, <2>2 DEF SyncInv, JobsInOrder
  <2> QED  BY <2>1, <2>2
<1>9. SyncTyped' /\ EventsLeft' /\ RowsInPast' /\ RowsFit' /\ WorkersFit'
  BY <1>1, <1>2 DEF SyncInv, SyncTyped, EventsLeft, Sold, RowsInPast, RowsFit, WorkersFit, At, Busy
<1> QED  BY <1>6, <1>7, <1>8, <1>9 DEF SyncInv

LEMMA CrashKeeps ==
  ASSUME SyncInv, NEW id \in PropagateIds, PropagateCrash(id)
  PROVE  SyncInv'
<1>1. propagates[id].state = "active" /\ JobBecomes(id, "delayed", {}, NoChannel)
  BY CrashEffect DEF SyncInv
<1>2. /\ UNCHANGED <<available, listing, unpulled, owed, syncs, work, enabled, lastStatus,
                     events, changedAt, uncovered, faults, world>>
      /\ crashes < MaxCrashes /\ crashes' = crashes + 1
  BY DEF PropagateCrash
<1>3. Begun(id)
  BY <1>1 DEF Begun
<1>4. EventsLeft' /\ JobEvents' /\ OwedIsNew' /\ RowsInPast' /\ JobsInOrder'
  BY <1>1, <1>2, <1>3, JobMoves
<1>5. crashes' \in 0..MaxCrashes
  BY <1>2, BoundsAssumption DEF SyncInv, SyncTyped
<1>6. SyncTyped' /\ RowsFit' /\ WorkersFit'
  BY <1>1, <1>2, <1>5 DEF SyncInv, SyncTyped, RowsFit, WorkersFit, At, Busy, JobBecomes
<1> QED  BY <1>4, <1>6 DEF SyncInv

-----------------------------------------------------------------------------
(* The steps of the web process and of the marketplaces.                   *)

LEMMA SoldIsFinite ==
  IsFiniteSet(Sold) /\ Cardinality(Sold) \in Nat
BY ChannelsAssumption, FS_Subset, FS_CardinalityType DEF Sold

\* A change is owed an enqueue under an event of its own.
LEMMA ChangeKeeps ==
  ASSUME SyncInv, NEW stock \in Int, NEW exclude \in Channels \cup {NoChannel},
         Change(stock, exclude), events < MaxEvents,
         UNCHANGED <<propagates, syncs, work>>
  PROVE  /\ available' \in Int /\ owed' \subseteq Debt
         /\ events' \in 0..MaxEvents /\ changedAt' \in 0..MaxEvents
         /\ JobEvents' /\ OwedIsNew' /\ RowsInPast' /\ JobsInOrder' /\ RowsFit' /\ WorkersFit'
<1> DEFINE new == [event |-> events + 1, exclude |-> exclude]
<1>1. /\ events' = events + 1 /\ available' = stock /\ changedAt' = events + 1
      /\ owed' = owed \cup {new}
  BY DEF Change
<1>2. events \in Nat /\ events + 1 \in Events /\ events + 1 \in 0..MaxEvents
  BY BoundsAssumption DEF SyncInv, SyncTyped, Events
<1>3. new \in Debt /\ new.event = events + 1
  BY <1>2 DEF Debt
<1> HIDE DEF new
<1>4. available' \in Int /\ owed' \subseteq Debt /\ events' \in 0..MaxEvents /\ changedAt' \in 0..MaxEvents
  BY <1>1, <1>2, <1>3 DEF SyncInv, SyncTyped
<1>5. JobEvents'
  <2>1. \A id \in PropagateIds : propagates[id].event \in Int
    BY JobFields DEF SyncInv
  <2>2. \A id \in PropagateIds : propagates[id].event <= events + 1
    BY <1>2, <2>1 DEF SyncInv, JobEvents
  <2> QED  BY <1>1, <2>2 DEF SyncInv, JobEvents, Begun
<1>6. OwedIsNew'
  <2>1. \A o \in owed : o.event \in Events /\ o.event <= events /\ o.event # events + 1
                        /\ o.event <= events + 1
    BY <1>2 DEF SyncInv, SyncTyped, Debt, OwedIsNew, Events
  <2>2. propagates[events + 1].state = "none"
    BY <1>2 DEF SyncInv, JobEvents, PropagateIds
  <2>3. Begun(Coalesced) => propagates[Coalesced].event # events + 1
    BY <1>2 DEF SyncInv, JobEvents, PropagateIds
  <2>4. \A c \in Channels : syncs[c][events + 1].status = "none"
    BY <1>2 DEF SyncInv, RowsInPast
  <2> SUFFICES ASSUME NEW o \in owed'
               PROVE  /\ o.event <= events'
                      /\ propagates[o.event].state = "none"
                      /\ Begun(Coalesced) => propagates[Coalesced].event # o.event
                      /\ \A c \in Channels : syncs[c][o.event].status = "none"
                      /\ \A q \in owed' : q.event = o.event => q = o
    BY DEF OwedIsNew, Begun
  <2>5. CASE o \in owed
    BY <1>1, <1>3, <2>1, <2>5 DEF SyncInv, OwedIsNew
  <2>6. CASE o = new
    BY <1>1, <1>2, <1>3, <2>1, <2>2, <2>3, <2>4, <2>6
  <2> QED  BY <1>1, <2>5, <2>6
<1>7. RowsInPast'
  <2>1. \A e \in Events : e > events + 1 => e > events
    BY <1>2 DEF Events
  <2> QED  BY <1>1, <2>1 DEF SyncInv, RowsInPast
<1>8. JobsInOrder' /\ RowsFit' /\ WorkersFit'
  BY DEF SyncInv, JobsInOrder, RowsFit, WorkersFit, At, Busy
<1> QED  BY <1>4, <1>5, <1>6, <1>7, <1>8

LEMMA LocalChangeKeeps == ASSUME SyncInv, LocalChange PROVE SyncInv'
<1>1. PICK stock \in Stocks \ {available} : Change(stock, NoChannel)
  BY DEF LocalChange
<1>2. /\ Room
      /\ UNCHANGED <<listing, unpulled, propagates, syncs, work, enabled,
                     lastStatus, uncovered, faults, crashes, world>>
  BY DEF LocalChange
<1>3. Sold' = Sold /\ events' = events + 1 /\ events \in Nat /\ MaxEvents \in Nat
  BY <1>1, <1>2, BoundsAssumption DEF Sold, Change, SyncInv, SyncTyped
<1>4. events < MaxEvents /\ EventsLeft'
  BY <1>2, <1>3, SoldIsFinite DEF Room, Sold, EventsLeft
<1>5. /\ available' \in Int /\ owed' \subseteq Debt
      /\ events' \in 0..MaxEvents /\ changedAt' \in 0..MaxEvents
      /\ JobEvents' /\ OwedIsNew' /\ RowsInPast' /\ JobsInOrder' /\ RowsFit' /\ WorkersFit'
  BY <1>1, <1>2, <1>4, ChangeKeeps, StocksAssumption
<1>6. SyncTyped'
  BY <1>2, <1>5 DEF SyncInv, SyncTyped
<1> QED  BY <1>4, <1>5, <1>6 DEF SyncInv

LEMMA PullOrderKeeps ==
  ASSUME SyncInv, NEW c \in Channels, PullOrder(c)
  PROVE  SyncInv'
<1>1. /\ unpulled[c] > 0 /\ Change(available - unpulled[c], c)
      /\ unpulled' = [unpulled EXCEPT ![c] = 0]
      /\ UNCHANGED <<listing, propagates, syncs, work, enabled,
                     lastStatus, uncovered, faults, crashes, world>>
  BY DEF PullOrder
<1>2. events' = events + 1 /\ events \in Nat /\ MaxEvents \in Nat
  BY <1>1, BoundsAssumption DEF Change, SyncInv, SyncTyped
<1>3. Sold' = Sold \ {c} /\ c \in Sold
  BY <1>1 DEF Sold, SyncInv, SyncTyped
<1>4. Cardinality(Sold') = Cardinality(Sold) - 1
  BY <1>3, SoldIsFinite, FS_RemoveElement
<1>5. Cardinality(Sold') \in Nat
  BY <1>3, SoldIsFinite, FS_RemoveElement, FS_CardinalityType
<1>6. events < MaxEvents /\ EventsLeft'
  BY <1>2, <1>4, <1>5, SoldIsFinite DEF SyncInv, EventsLeft
<1>7. available - unpulled[c] \in Int /\ unpulled' \in [Channels -> {0, 1}]
  BY <1>1 DEF SyncInv, SyncTyped
<1>8. /\ available' \in Int /\ owed' \subseteq Debt
      /\ events' \in 0..MaxEvents /\ changedAt' \in 0..MaxEvents
      /\ JobEvents' /\ OwedIsNew' /\ RowsInPast' /\ JobsInOrder' /\ RowsFit' /\ WorkersFit'
  BY <1>1, <1>6, <1>7, ChangeKeeps
<1>9. SyncTyped'
  BY <1>1, <1>7, <1>8 DEF SyncInv, SyncTyped
<1> QED  BY <1>6, <1>8, <1>9 DEF SyncInv

LEMMA ChannelSaleKeeps ==
  ASSUME SyncInv, NEW c \in Channels, ChannelSale(c)
  PROVE  SyncInv'
<1>1. /\ Room /\ listing[c] > 0 /\ unpulled[c] = 0
      /\ unpulled' = [unpulled EXCEPT ![c] = 1]
      /\ listing' = [listing EXCEPT ![c] = listing[c] - 1]
      /\ UNCHANGED <<available, owed, propagates, syncs, work, enabled,
                     lastStatus, events, changedAt, uncovered, faults, crashes, world>>
  BY DEF ChannelSale
<1>2. Sold' = Sold \cup {c} /\ c \notin Sold
  BY <1>1 DEF Sold, SyncInv, SyncTyped
<1>3. Cardinality(Sold') = Cardinality(Sold) + 1
  BY <1>2, SoldIsFinite, FS_AddElement
<1>4. EventsLeft'
  <2>1. events \in Nat /\ MaxEvents \in Nat /\ events' = events
    BY <1>1, BoundsAssumption DEF SyncInv, SyncTyped
  <2> QED  BY <1>1, <1>3, <2>1, SoldIsFinite DEF Room, Sold, EventsLeft
<1>5. SyncTyped'
  BY <1>1 DEF SyncInv, SyncTyped
<1>6. /\ JobEvents' /\ OwedIsNew' /\ RowsInPast' /\ JobsInOrder' /\ RowsFit' /\ WorkersFit'
  BY <1>1 DEF SyncInv, JobEvents, OwedIsNew, RowsInPast, JobsInOrder, RowsFit, WorkersFit,
              At, Busy, Begun
<1> QED  BY <1>4, <1>5, <1>6 DEF SyncInv

\* The coalesced job: a fresh one takes the event, one that is there ignores it.
LEMMA EnqueueEffect ==
  ASSUME SyncInv, EnqueueCoalesced
  PROVE  \E o \in owed :
           /\ owed' = owed \ {o} /\ uncovered' = LeftUncovered(o.exclude)
           /\ o.event \in Events /\ o.exclude \in Channels \cup {NoChannel}
           /\ \/ Begun(Coalesced) /\ propagates' = propagates
              \/ /\ propagates[Coalesced].state = "none"
                 /\ propagates' \in [PropagateIds -> Propagation]
                 /\ propagates'[Coalesced] = Waiting(o.event, o.exclude)
                 /\ \A i \in PropagateIds : i # Coalesced => propagates'[i] = propagates[i]
<1>1. PICK o \in owed : /\ owed' = owed \ {o} /\ uncovered' = LeftUncovered(o.exclude)
                        /\ propagates' = AddCoalesced(o.event, o.exclude)
  BY DEF EnqueueCoalesced
<1>2. /\ o.event \in Events /\ o.event \in 0..MaxEvents
      /\ o.exclude \in Channels \cup {NoChannel}
  BY DEF SyncInv, SyncTyped, Debt, Events
<1>3. Coalesced \in PropagateIds
  BY DEF PropagateIds
<1>4. CASE propagates[Coalesced].state = "none"
  <2> DEFINE new == Waiting(o.event, o.exclude)
  <2>1. new \in Propagation
    BY <1>2, WaitingJob
  <2>2. propagates' = [propagates EXCEPT ![Coalesced] = new]
    BY <1>1, <1>4 DEF AddCoalesced
  <2> HIDE DEF new
  <2>3. /\ propagates' \in [PropagateIds -> Propagation]
        /\ propagates'[Coalesced] = new
        /\ \A i \in PropagateIds : i # Coalesced => propagates'[i] = propagates[i]
    BY <1>3, <2>1, <2>2, JobWritten DEF SyncInv
  <2> QED  BY <1>1, <1>2, <1>4, <2>3 DEF new
<1>5. CASE propagates[Coalesced].state # "none"
  <2>1. Begun(Coalesced)
    BY <1>3, <1>5, JobFields DEF SyncInv, JobEvents, Begun
  <2>2. propagates' = propagates
    BY <1>1, <1>5 DEF AddCoalesced
  <2> QED  BY <1>1, <1>2, <2>1, <2>2
<1> QED  BY <1>4, <1>5

LEMMA EnqueueCoalescedKeeps == ASSUME SyncInv, EnqueueCoalesced PROVE SyncInv'
<1>1. PICK o \in owed :
        /\ owed' = owed \ {o} /\ uncovered' = LeftUncovered(o.exclude)
        /\ o.event \in Events /\ o.exclude \in Channels \cup {NoChannel}
        /\ \/ Begun(Coalesced) /\ propagates' = propagates
           \/ /\ propagates[Coalesced].state = "none"
              /\ propagates' \in [PropagateIds -> Propagation]
              /\ propagates'[Coalesced] = Waiting(o.event, o.exclude)
              /\ \A i \in PropagateIds : i # Coalesced => propagates'[i] = propagates[i]
  BY EnqueueEffect
<1>2. UNCHANGED <<available, listing, unpulled, syncs, work, enabled,
                  lastStatus, events, changedAt, faults, crashes, world>>
  BY DEF EnqueueCoalesced
<1>3. uncovered' \subseteq Channels
  BY <1>1 DEF LeftUncovered, SyncInv, SyncTyped
<1>4. EventsLeft' /\ RowsInPast' /\ RowsFit' /\ WorkersFit'
  BY <1>2 DEF SyncInv, EventsLeft, Sold, RowsInPast, RowsFit, WorkersFit, At, Busy
<1>5. CASE Begun(Coalesced) /\ propagates' = propagates
  <2>1. SyncTyped'
    BY <1>1, <1>2, <1>3, <1>5 DEF SyncInv, SyncTyped
  <2>2. JobEvents' /\ OwedIsNew' /\ JobsInOrder'
    BY <1>1, <1>2, <1>5 DEF SyncInv, JobEvents, OwedIsNew, JobsInOrder, Begun
  <2> QED  BY <1>4, <2>1, <2>2 DEF SyncInv
<1>6. CASE /\ propagates[Coalesced].state = "none"
           /\ propagates' \in [PropagateIds -> Propagation]
           /\ propagates'[Coalesced] = Waiting(o.event, o.exclude)
           /\ \A i \in PropagateIds : i # Coalesced => propagates'[i] = propagates[i]
  <2>1. /\ propagates'[Coalesced].state = "delayed" /\ propagates'[Coalesced].event = o.event
        /\ propagates'[Coalesced].left = {} /\ propagates'[Coalesced].adding = NoChannel
    <3>1. o.event \in 0..MaxEvents
      BY <1>1 DEF Events
    <3> QED  BY <1>1, <1>6, <3>1, WaitingJob
  <2>2. Coalesced \in PropagateIds /\ Events \subseteq PropagateIds /\ Coalesced \notin Events
    BY DEF PropagateIds, Coalesced, Events
  <2>3. SyncTyped'
    BY <1>1, <1>2, <1>3, <1>6 DEF SyncInv, SyncTyped
  <2>4. /\ o.event <= events /\ o.event # 0 /\ propagates[o.event].state = "none"
        /\ \A q \in owed : q.event = o.event => q = o
    BY <1>1 DEF SyncInv, OwedIsNew, Events
  <2>5. \A i \in Events : propagates'[i] = propagates[i]
    BY <1>6, <2>2
  <2>6. JobEvents'
    <3>1. \A i \in PropagateIds : propagates'[i].event <= events'
      BY <1>2, <1>6, <2>1, <2>4 DEF SyncInv, JobEvents
    <3>2. \A i \in PropagateIds : Begun(i)' => propagates'[i].event # 0
      BY <1>6, <2>1, <2>4 DEF SyncInv, JobEvents, Begun
    <3>3. \A i \in Events : propagates'[i].state # "none" =>
            propagates'[i].event = i /\ propagates'[Coalesced].event # i
      BY <2>1, <2>4, <2>5 DEF SyncInv, JobEvents
    <3> QED  BY <2>1, <3>1, <3>2, <3>3 DEF JobEvents
  <2>7. OwedIsNew'
    <3>1. \A q \in owed' : q \in owed /\ q.event # o.event /\ q.event \in Events
      BY <1>1, <2>4 DEF SyncInv, SyncTyped, Debt
    <3> QED  BY <1>1, <1>2, <2>1, <2>5, <3>1 DEF SyncInv, OwedIsNew
  <2>8. JobsInOrder'
    <3> SUFFICES ASSUME NEW i \in PropagateIds
                 PROVE  /\ propagates'[i].state # "active" =>
                             propagates'[i].left = {} /\ propagates'[i].adding = NoChannel
                        /\ propagates'[i].exclude \notin propagates'[i].left
                        /\ propagates'[i].adding # NoChannel =>
                             /\ syncs[propagates'[i].adding][propagates'[i].event].status = "PENDING"
                             /\ syncs[propagates'[i].adding][propagates'[i].event].queued = "none"
      BY <1>2 DEF JobsInOrder
    <3>1. CASE i = Coalesced
      BY <2>1, <3>1
    <3>2. CASE i # Coalesced
      BY <1>6, <3>2 DEF SyncInv, JobsInOrder
    <3> QED  BY <3>1, <3>2
  <2> QED  BY <1>4, <2>3, <2>6, <2>7, <2>8 DEF SyncInv
<1> QED  BY <1>1, <1>5, <1>6

LEMMA LoseEnqueueKeeps == ASSUME SyncInv, LoseEnqueue PROVE SyncInv'
<1>1. /\ owed' \subseteq owed /\ uncovered' = Channels
      /\ crashes < MaxCrashes /\ crashes' = crashes + 1
      /\ UNCHANGED <<available, listing, unpulled, propagates, syncs, work,
                     enabled, lastStatus, events, changedAt, faults, world>>
  BY DEF LoseEnqueue
<1>2. crashes' \in 0..MaxCrashes
  BY <1>1, BoundsAssumption DEF SyncInv, SyncTyped
<1>3. SyncTyped'
  BY <1>1, <1>2 DEF SyncInv, SyncTyped
<1>4. OwedIsNew'
  BY <1>1 DEF SyncInv, OwedIsNew, Begun
<1>5. EventsLeft' /\ JobEvents' /\ RowsInPast' /\ JobsInOrder' /\ RowsFit' /\ WorkersFit'
  BY <1>1 DEF SyncInv, EventsLeft, Sold, JobEvents, RowsInPast, JobsInOrder, RowsFit,
              WorkersFit, At, Busy, Begun
<1> QED  BY <1>3, <1>4, <1>5 DEF SyncInv

\* The job of a manual sync, under the next event.
LEMMA SyncNowEffect ==
  ASSUME SyncInv, SyncNow
  PROVE  /\ events \in Nat /\ events + 1 \in Events /\ events' = events + 1
         /\ events' \in 0..MaxEvents /\ EventsLeft'
         /\ propagates[events + 1].state = "none"
         /\ propagates' \in [PropagateIds -> Propagation]
         /\ propagates'[events + 1].state = "delayed"
         /\ propagates'[events + 1].event = events + 1
         /\ propagates'[events + 1].exclude = NoChannel
         /\ propagates'[events + 1].left = {}
         /\ propagates'[events + 1].adding = NoChannel
         /\ \A i \in PropagateIds : i # events + 1 => propagates'[i] = propagates[i]
<1> DEFINE e == events + 1
           new == Waiting(e, NoChannel)
<1>1. /\ Room /\ events' = e /\ propagates' = [propagates EXCEPT ![e] = new]
      /\ unpulled' = unpulled
  BY DEF SyncNow
<1>2. events \in Nat /\ MaxEvents \in Nat
  BY BoundsAssumption DEF SyncInv, SyncTyped
<1>3. events < MaxEvents /\ EventsLeft'
  BY <1>1, <1>2, SoldIsFinite DEF Room, Sold, EventsLeft
<1>4. e \in Events /\ e \in PropagateIds /\ e \in 0..MaxEvents
  BY <1>2, <1>3 DEF Events, PropagateIds
<1>5. propagates[e].state = "none"
  BY <1>2, <1>4 DEF SyncInv, JobEvents
<1>6. /\ new \in Propagation /\ new.state = "delayed" /\ new.event = e
      /\ new.exclude = NoChannel /\ new.left = {} /\ new.adding = NoChannel
  BY <1>4, WaitingJob
<1> HIDE DEF new
<1>7. /\ propagates' \in [PropagateIds -> Propagation]
      /\ propagates'[e] = new
      /\ \A i \in PropagateIds : i # e => propagates'[i] = propagates[i]
  BY <1>1, <1>4, <1>6, JobWritten DEF SyncInv
<1> QED  BY <1>1, <1>2, <1>3, <1>4, <1>5, <1>6, <1>7

LEMMA SyncNowKeeps == ASSUME SyncInv, SyncNow PROVE SyncInv'
<1> DEFINE n == events + 1
<1>1. /\ events \in Nat /\ n \in Events /\ events' = n
      /\ events' \in 0..MaxEvents /\ EventsLeft'
      /\ propagates[n].state = "none"
      /\ propagates' \in [PropagateIds -> Propagation]
      /\ propagates'[n].state = "delayed" /\ propagates'[n].event = n
      /\ propagates'[n].left = {} /\ propagates'[n].adding = NoChannel
      /\ \A i \in PropagateIds : i # n => propagates'[i] = propagates[i]
  BY SyncNowEffect
<1>2. /\ uncovered' = {}
      /\ UNCHANGED <<available, listing, unpulled, owed, syncs, work, enabled,
                     lastStatus, changedAt, faults, crashes, world>>
  BY DEF SyncNow
<1>3. Coalesced \in PropagateIds /\ Events \subseteq PropagateIds /\ Coalesced \notin Events
  BY DEF PropagateIds, Coalesced, Events
<1>4. /\ \A i \in PropagateIds : propagates[i].event \in Int /\ propagates[i].event <= events
      /\ \A o \in owed : o.event \in Events /\ o.event <= events
      /\ n > events /\ n # 0
  BY <1>1, JobFields DEF SyncInv, SyncTyped, Debt, JobEvents, OwedIsNew
<1>5. /\ \A i \in PropagateIds : propagates[i].event <= n /\ propagates[i].event # n
      /\ \A o \in owed : o.event <= n /\ o.event # n
      /\ \A e \in Events : e > n => e > events
  BY <1>1, <1>4 DEF Events
<1> HIDE DEF n
<1>6. propagates'[Coalesced] = propagates[Coalesced]
  BY <1>1, <1>3
<1>7. SyncTyped'
  BY <1>1, <1>2 DEF SyncInv, SyncTyped
<1>8. JobEvents'
  <2>1. \A i \in PropagateIds : propagates'[i].event <= events'
    BY <1>1, <1>4, <1>5
  <2>2. \A i \in PropagateIds : Begun(i)' => propagates'[i].event # 0
    BY <1>1, <1>4 DEF SyncInv, JobEvents, Begun
  <2>3. \A i \in Events : propagates'[i].state # "none" =>
          /\ propagates'[i].event = i
          /\ Begun(Coalesced)' => propagates'[Coalesced].event # i
    BY <1>1, <1>3, <1>5, <1>6 DEF SyncInv, JobEvents, Begun
  <2> QED  BY <1>6, <2>1, <2>2, <2>3 DEF SyncInv, JobEvents
<1>9. OwedIsNew'
  BY <1>1, <1>2, <1>3, <1>4, <1>5, <1>6 DEF SyncInv, OwedIsNew, Begun
<1>10. RowsInPast'
  BY <1>1, <1>2, <1>5 DEF SyncInv, RowsInPast
<1>11. JobsInOrder'
  <2> SUFFICES ASSUME NEW i \in PropagateIds
               PROVE  /\ propagates'[i].state # "active" =>
                           propagates'[i].left = {} /\ propagates'[i].adding = NoChannel
                      /\ propagates'[i].exclude \notin propagates'[i].left
                      /\ propagates'[i].adding # NoChannel =>
                           /\ syncs[propagates'[i].adding][propagates'[i].event].status = "PENDING"
                           /\ syncs[propagates'[i].adding][propagates'[i].event].queued = "none"
    BY <1>2 DEF JobsInOrder
  <2>1. CASE i = n
    BY <1>1, <2>1
  <2>2. CASE i # n
    BY <1>1, <2>2 DEF SyncInv, JobsInOrder
  <2> QED  BY <2>1, <2>2
<1>12. RowsFit' /\ WorkersFit'
  BY <1>2 DEF SyncInv, RowsFit, WorkersFit, At, Busy
<1> QED  BY <1>1, <1>7, <1>8, <1>9, <1>10, <1>11, <1>12 DEF SyncInv

LEMMA SyncInvInit == SyncInit => SyncInv
<1> SUFFICES ASSUME SyncInit PROVE SyncInv
  OBVIOUS
<1>1. MaxEvents \in Nat /\ MaxFaults \in Nat /\ MaxCrashes \in Nat
  BY BoundsAssumption
<1>2. \A id \in PropagateIds : propagates[id] = NoPropagate
  BY DEF SyncInit
<1>3. \A c \in Channels, e \in Events : syncs[c][e] = NoSync
  BY DEF SyncInit
<1>4. \A w \in SyncWorkers : ~Busy(w)
  BY DEF SyncInit, Busy
<1>5. SyncTyped
  <2>1. available \in Int
    BY StocksAssumption DEF SyncInit
  <2>2. listing \in [Channels -> Nat]
    BY <2>1 DEF SyncInit, Shown
  <2>3. NoPropagate \in Propagation
    BY <1>1 DEF NoPropagate, Propagation
  <2>4. NoSync \in SyncRow
    BY AttemptsAssumption DEF NoSync, SyncRow
  <2>5. propagates \in [PropagateIds -> Propagation]
    BY <2>3 DEF SyncInit
  <2>6. syncs \in [Channels -> [Events -> SyncRow]]
    BY <2>4 DEF SyncInit
  <2>7. /\ unpulled \in [Channels -> {0, 1}] /\ owed \subseteq Debt
        /\ work \in [SyncWorkers -> {NoWork} \cup InHand]
        /\ enabled \in [Channels -> BOOLEAN]
        /\ lastStatus \in [Channels -> {"none", "SYNCED", "FAILED"}]
    BY DEF SyncInit
  <2>8. /\ events \in 0..MaxEvents /\ changedAt \in 0..MaxEvents /\ uncovered \subseteq Channels
        /\ faults \in 0..MaxFaults /\ crashes \in 0..MaxCrashes /\ world \in Worlds
    BY <1>1 DEF SyncInit
  <2> QED  BY <2>1, <2>2, <2>5, <2>6, <2>7, <2>8 DEF SyncTyped
<1>6. EventsLeft
  <2>1. Sold = {}
    BY DEF SyncInit, Sold
  <2> QED  BY <1>1, <2>1, FS_EmptySet DEF SyncInit, EventsLeft
<1>7. JobEvents
  BY <1>2 DEF SyncInit, JobEvents, Begun, NoPropagate, PropagateIds
<1>8. OwedIsNew
  BY DEF SyncInit, OwedIsNew
<1>9. RowsInPast
  BY <1>3 DEF RowsInPast, NoSync
<1>10. JobsInOrder
  BY <1>2 DEF JobsInOrder, NoPropagate
<1>11. RowsFit
  BY <1>3 DEF RowsFit, RowFits, NoSync
<1>12. WorkersFit
  BY <1>4 DEF WorkersFit
<1> QED  BY <1>5, <1>6, <1>7, <1>8, <1>9, <1>10, <1>11, <1>12 DEF SyncInv

LEMMA SyncInvStep == SyncInv /\ [SyncNext]_syncVars => SyncInv'
<1> SUFFICES ASSUME SyncInv, [SyncNext]_syncVars PROVE SyncInv'
  OBVIOUS
<1>1. CASE LocalChange
  BY <1>1, LocalChangeKeeps
<1>2. CASE EnqueueCoalesced
  BY <1>2, EnqueueCoalescedKeeps
<1>3. CASE LoseEnqueue
  BY <1>3, LoseEnqueueKeeps
<1>4. CASE SyncNow
  BY <1>4, SyncNowKeeps
<1>5. ASSUME NEW c \in Channels, ChannelSale(c) PROVE SyncInv'
  BY <1>5, ChannelSaleKeeps
<1>6. ASSUME NEW c \in Channels, PullOrder(c) PROVE SyncInv'
  BY <1>6, PullOrderKeeps
<1>7. ASSUME NEW id \in PropagateIds, PropagateStart(id) PROVE SyncInv'
  BY <1>7, StartKeeps
<1>8. ASSUME NEW id \in PropagateIds, NEW c \in Channels, CreateSyncJob(id, c) PROVE SyncInv'
  BY <1>8, CreateKeeps
<1>9. ASSUME NEW id \in PropagateIds, AddSyncJob(id) PROVE SyncInv'
  BY <1>9, AddKeeps
<1>10. ASSUME NEW id \in PropagateIds, PropagateDone(id) PROVE SyncInv'
  BY <1>10, DoneKeeps
<1>11. ASSUME NEW id \in PropagateIds, PropagateCrash(id) PROVE SyncInv'
  BY <1>11, CrashKeeps
<1>12. ASSUME NEW w \in SyncWorkers, NEW c \in Channels, NEW e \in Events, SyncLoad(w, c, e)
       PROVE  SyncInv'
  BY <1>12, SyncLoadKeeps
<1>13. ASSUME NEW c \in Channels, NEW e \in Events, SyncDisable(c, e) PROVE SyncInv'
  BY <1>13, SyncDisableKeeps
<1>14. ASSUME NEW w \in SyncWorkers, SyncPush(w) PROVE SyncInv'
  BY <1>14, SyncPushKeeps
<1>15. ASSUME NEW w \in SyncWorkers, SyncSucceed(w) PROVE SyncInv'
  BY <1>15, SyncSucceedKeeps
<1>16. ASSUME NEW w \in SyncWorkers, NEW fault, SyncFail(w, fault) PROVE SyncInv'
  BY <1>16, SyncFailKeeps
<1>17. ASSUME NEW w \in SyncWorkers, SyncCrash(w) PROVE SyncInv'
  BY <1>17, SyncCrashKeeps
<1>18. CASE UNCHANGED syncVars
  BY <1>18 DEF syncVars, SyncInv, SyncTyped, EventsLeft, Sold, JobEvents, OwedIsNew,
               RowsInPast, JobsInOrder, RowsFit, WorkersFit, At, Busy, Begun
<1> QED
  BY <1>1, <1>2, <1>3, <1>4, <1>5, <1>6, <1>7, <1>8, <1>9, <1>10, <1>11, <1>12, <1>13,
     <1>14, <1>15, <1>16, <1>17, <1>18 DEF SyncNext, Propagating, Syncing

\* Queue, rows and workers of the stock sync hang together in every behaviour.
THEOREM SyncKeepsItsBooks == SyncSpec => []SyncInv
BY SyncInvInit, SyncInvStep, PTL DEF SyncSpec

(* Whatever is sold, changed, pulled, coalesced, retried, crashed or lost, *)
(* for any number of channels, workers and propagation slots, the queues,  *)
(* rows and listings keep their types: in particular no sync job is tried  *)
(* more than MaxAttempts times, and the changes and pulls that the bound   *)
(* on events admits never exceed it.                                       *)
THEOREM SyncTypeCorrect == SyncSpec => []SyncTypeOK
<1>1. SyncInv => SyncTypeOK
  BY DEF SyncInv, SyncTyped, SyncTypeOK, Debt, Propagation, SyncRow, InHand
<1> QED  BY SyncKeepsItsBooks, <1>1, PTL

-----------------------------------------------------------------------------
(* A listing that stays wrong leaves a trace.                              *)

\* The propagation id is going to make a row for channel c.
Covering(id, c) ==
  /\ Begun(id) /\ syncs[c][propagates[id].event].status = "none"
  /\ propagates[id].state = "delayed" => propagates[id].exclude # c
  /\ propagates[id].state = "active" => c \in propagates[id].left

Scheduled(c) ==
  \E e \in Events : syncs[c][e].status = "PENDING" \/ syncs[c][e].queued = "waiting"

\* A push of the stock to c is still to come, or has been given up visibly.
Attended(c) ==
  \/ c \in uncovered \/ owed # {} \/ unpulled[c] > 0
  \/ Scheduled(c)
  \/ \E id \in PropagateIds : Covering(id, c)

\* A worker is pushing the stock of now to c.
Current(c) ==
  \E w \in SyncWorkers :
    /\ At(w, c) /\ work[w].quantity = Shown(available)
    /\ work[w].phase = "pushed" => Agrees(c)

Left(c) == \A w \in SyncWorkers : ~At(w, c)

\* Nobody is pushing to c, which shows the stock or is marked.
Settled(c) == Left(c) /\ (Agrees(c) \/ lastStatus[c] = "FAILED")

TracedAt(c) ==
  /\ Attended(c) \/ Current(c) \/ Settled(c)
  /\ ~enabled[c] => lastStatus[c] = "FAILED" /\ Left(c)

TraceInv == \A c \in world.listed : TracedAt(c)

LEMMA ListedIsChannel == ASSUME SyncInv PROVE world.listed \subseteq Channels
BY WorldsAssumption DEF SyncInv, SyncTyped

\* A step that only moves propagations and rows, not workers or listings.
LEMMA OutcomeStays ==
  ASSUME NEW d \in Channels, TracedAt(d),
         UNCHANGED <<available, listing, work, enabled, lastStatus>>,
         Attended(d) => Attended(d)' \/ Settled(d)
  PROVE  TracedAt(d)'
<1>1. (Current(d)' <=> Current(d)) /\ (Settled(d)' <=> Settled(d)) /\ (Left(d)' <=> Left(d))
  BY DEF Current, Settled, Left, At, Busy, Agrees, Shown
<1> QED  BY <1>1 DEF TracedAt

\* What one propagation does, the others and the rest of the queue unchanged.
LEMMA AttendedElsewhere ==
  ASSUME SyncInv, NEW d \in Channels, NEW id \in PropagateIds,
         Attended(d), ~Covering(id, d),
         \A i \in PropagateIds : i # id => propagates'[i] = propagates[i],
         UNCHANGED <<uncovered, owed, unpulled>>,
         \A e \in Events : /\ syncs[d][e].status = "PENDING" \/ syncs[d][e].queued = "waiting"
                                => syncs'[d][e].status = "PENDING" \/ syncs'[d][e].queued = "waiting"
                           /\ syncs[d][e].status = "none" =>
                                \/ syncs'[d][e].status = "none"
                                \/ syncs'[d][e].status = "PENDING"
  PROVE  Attended(d)'
<1>1. CASE d \in uncovered \/ owed # {} \/ unpulled[d] > 0
  BY <1>1 DEF Attended
<1>2. CASE Scheduled(d)
  BY <1>2 DEF Attended, Scheduled
<1>3. ASSUME NEW i \in PropagateIds, Covering(i, d) PROVE Attended(d)'
  <2>1. i # id /\ propagates'[i] = propagates[i]
    BY <1>3
  <2>2. propagates[i].event \in Events
    BY <1>3, BegunEvent DEF SyncInv, Covering
  <2>3. \/ syncs'[d][propagates[i].event].status = "none"
        \/ syncs'[d][propagates[i].event].status = "PENDING"
    BY <1>3, <2>2 DEF Covering
  <2>4. CASE syncs'[d][propagates[i].event].status = "none"
    <3>1. Covering(i, d)'
      BY <1>3, <2>1, <2>4 DEF Covering, Begun
    <3> QED  BY <3>1 DEF Attended
  <2>5. CASE syncs'[d][propagates[i].event].status = "PENDING"
    BY <2>2, <2>5 DEF Attended, Scheduled
  <2> QED  BY <2>3, <2>4, <2>5
<1> QED  BY <1>1, <1>2, <1>3 DEF Attended

\* A step at another channel.
LEMMA TracedElsewhere ==
  ASSUME SyncInv, NEW d \in Channels, TracedAt(d),
         UNCHANGED <<available, owed, uncovered, propagates>>,
         enabled'[d] = enabled[d], lastStatus'[d] = lastStatus[d],
         listing'[d] = listing[d], unpulled'[d] = unpulled[d],
         \A e \in Events : syncs'[d][e] = syncs[d][e],
         \A v \in SyncWorkers : At(v, d)' <=> At(v, d),
         \A v \in SyncWorkers : At(v, d) => work'[v] = work[v]
  PROVE  TracedAt(d)'
<1>1. Attended(d) => Attended(d)'
  <2>1. Scheduled(d) => Scheduled(d)'
    BY DEF Scheduled
  <2>2. ASSUME NEW i \in PropagateIds, Covering(i, d) PROVE Covering(i, d)'
    <3>1. propagates[i].event \in Events
      BY <2>2, BegunEvent DEF SyncInv, Covering
    <3> QED  BY <2>2, <3>1 DEF Covering, Begun
  <2> QED  BY <2>1, <2>2 DEF Attended
<1>2. Current(d) => Current(d)'
  BY DEF Current, Agrees, Shown
<1>3. (Left(d) => Left(d)') /\ (Settled(d) => Settled(d)')
  BY DEF Settled, Left, Agrees, Shown
<1> QED  BY <1>1, <1>2, <1>3 DEF TracedAt

-----------------------------------------------------------------------------
(* Every step leaves every listed channel attended, current or settled.    *)

LEMMA ChangeTraced ==
  ASSUME NEW d \in Channels, TracedAt(d), NEW stock, NEW exclude, Change(stock, exclude),
         UNCHANGED <<work, enabled, lastStatus>>
  PROVE  TracedAt(d)'
<1>1. owed' # {}
  BY DEF Change
<1> QED  BY <1>1 DEF TracedAt, Attended, Left, At, Busy

LEMMA ChannelSaleTraced ==
  ASSUME SyncInv, NEW d \in Channels, TracedAt(d), NEW c \in Channels, ChannelSale(c)
  PROVE  TracedAt(d)'
<1>1. /\ unpulled' = [unpulled EXCEPT ![c] = 1]
      /\ listing' = [listing EXCEPT ![c] = listing[c] - 1]
      /\ UNCHANGED <<available, owed, propagates, syncs, work, enabled, lastStatus, uncovered>>
  BY DEF ChannelSale
<1>2. CASE d = c
  <2>1. unpulled'[d] > 0
    BY <1>1, <1>2 DEF SyncInv, SyncTyped
  <2> QED  BY <1>1, <2>1 DEF TracedAt, Attended, Left, At, Busy
<1>3. CASE d # c
  <2>1. unpulled'[d] = unpulled[d] /\ listing'[d] = listing[d]
    BY <1>1, <1>3 DEF SyncInv, SyncTyped
  <2>2. \A v \in SyncWorkers : At(v, d)' <=> At(v, d)
    BY <1>1 DEF At, Busy
  <2> QED  BY <1>1, <2>1, <2>2, TracedElsewhere
<1> QED  BY <1>2, <1>3

\* What an enqueue leaves uncovered is named; the rest the job will push to.
LEMMA EnqueueTraced ==
  ASSUME SyncInv, NEW d \in Channels, TracedAt(d), EnqueueCoalesced
  PROVE  TracedAt(d)'
<1>1. PICK o \in owed :
        /\ owed' = owed \ {o} /\ uncovered' = LeftUncovered(o.exclude)
        /\ o.event \in Events /\ o.exclude \in Channels \cup {NoChannel}
        /\ \/ Begun(Coalesced) /\ propagates' = propagates
           \/ /\ propagates[Coalesced].state = "none"
              /\ propagates' \in [PropagateIds -> Propagation]
              /\ propagates'[Coalesced] = Waiting(o.event, o.exclude)
              /\ \A i \in PropagateIds : i # Coalesced => propagates'[i] = propagates[i]
  BY EnqueueEffect
<1>2. UNCHANGED <<available, listing, unpulled, syncs, work, enabled, lastStatus>>
  BY DEF EnqueueCoalesced
<1>3. Coalesced \in PropagateIds
  BY DEF PropagateIds
<1>4. ASSUME d \notin uncovered' PROVE Covering(Coalesced, d)'
  <2>1. CASE Begun(Coalesced) /\ propagates' = propagates
    <3>1. propagates[Coalesced].state = "delayed"
      BY <1>1, <1>4, <2>1 DEF LeftUncovered, Begun
    <3>2. /\ d # propagates[Coalesced].exclude
          /\ syncs[d][propagates[Coalesced].event].status = "none"
      BY <1>1, <1>4, <3>1 DEF LeftUncovered
    <3> QED  BY <1>2, <2>1, <3>1, <3>2 DEF Covering, Begun
  <2>2. CASE /\ propagates[Coalesced].state = "none"
             /\ propagates'[Coalesced] = Waiting(o.event, o.exclude)
    <3>1. d # o.exclude
      BY <1>1, <1>4, <2>2 DEF LeftUncovered
    <3>2. o.event \in 0..MaxEvents
      BY <1>1 DEF Events
    <3>3. /\ propagates'[Coalesced].state = "delayed"
          /\ propagates'[Coalesced].event = o.event
          /\ propagates'[Coalesced].exclude = o.exclude
      BY <1>1, <2>2, <3>2, WaitingJob
    <3>4. syncs[d][o.event].status = "none"
      BY DEF SyncInv, OwedIsNew
    <3> QED  BY <1>2, <3>1, <3>3, <3>4 DEF Covering, Begun
  <2> QED  BY <1>1, <2>1, <2>2
<1>5. Attended(d)'
  BY <1>3, <1>4 DEF Attended
<1> QED  BY <1>2, <1>5, OutcomeStays

LEMMA LoseEnqueueTraced ==
  ASSUME NEW d \in Channels, TracedAt(d), LoseEnqueue
  PROVE  TracedAt(d)'
<1>1. /\ uncovered' = Channels
      /\ UNCHANGED <<available, listing, work, enabled, lastStatus>>
  BY DEF LoseEnqueue
<1>2. Attended(d)'
  BY <1>1 DEF Attended
<1> QED  BY <1>1, <1>2, OutcomeStays

LEMMA SyncNowTraced ==
  ASSUME SyncInv, NEW d \in Channels, TracedAt(d), SyncNow
  PROVE  TracedAt(d)'
<1>1. PICK n \in Events :
        /\ n > events
        /\ propagates'[n].state = "delayed" /\ propagates'[n].event = n
        /\ propagates'[n].exclude = NoChannel
  BY SyncNowEffect
<1>2. UNCHANGED <<available, listing, syncs, work, enabled, lastStatus>>
  BY DEF SyncNow
<1>3. syncs[d][n].status = "none"
  BY <1>1 DEF SyncInv, RowsInPast
<1>4. d # NoChannel /\ n \in PropagateIds
  BY ChannelsAssumption DEF PropagateIds
<1>5. Covering(n, d)'
  BY <1>1, <1>2, <1>3, <1>4 DEF Covering, Begun
<1>6. Attended(d)'
  BY <1>4, <1>5 DEF Attended
<1> QED  BY <1>2, <1>6, OutcomeStays

LEMMA StartTraced ==
  ASSUME SyncInv, NEW d \in Channels, TracedAt(d), NEW id \in PropagateIds, PropagateStart(id)
  PROVE  TracedAt(d)'
<1>1. /\ propagates[id].state = "delayed"
      /\ JobBecomes(id, "active", SyncReady(propagates[id].exclude), NoChannel)
  BY StartEffect DEF SyncInv
<1>2. UNCHANGED <<available, listing, unpulled, owed, syncs, work, enabled, lastStatus, uncovered>>
  BY DEF PropagateStart
<1>3. ASSUME Attended(d) PROVE Attended(d)' \/ Settled(d)
  <2>1. CASE ~Covering(id, d)
    BY <1>1, <1>2, <1>3, <2>1, AttendedElsewhere DEF JobBecomes
  <2>2. CASE Covering(id, d) /\ enabled[d]
    <3>1. d \in SyncReady(propagates[id].exclude)
      BY <1>1, <2>2 DEF Covering, SyncReady
    <3>2. Covering(id, d)'
      BY <1>1, <1>2, <2>2, <3>1 DEF Covering, Begun, JobBecomes
    <3> QED  BY <3>2 DEF Attended
  <2>3. CASE ~enabled[d]
    BY <2>3 DEF TracedAt, Settled
  <2> QED  BY <2>1, <2>2, <2>3
<1> QED  BY <1>2, <1>3, OutcomeStays

LEMMA CreateTraced ==
  ASSUME SyncInv, NEW d \in Channels, TracedAt(d), NEW id \in PropagateIds,
         NEW c \in Channels, CreateSyncJob(id, c)
  PROVE  TracedAt(d)'
<1> DEFINE e == propagates[id].event
           left == propagates[id].left \ {c}
<1>1. /\ propagates[id].state = "active" /\ e \in Events
      /\ \/ /\ syncs[c][e].status = "none"
            /\ JobBecomes(id, "active", left, c)
            /\ RowBecomes(c, e, "PENDING", "none", 0)
         \/ /\ syncs[c][e].status # "none"
            /\ JobBecomes(id, "active", left, NoChannel) /\ syncs' = syncs
  BY CreateEffect DEF SyncInv
<1>2. UNCHANGED <<available, listing, unpulled, owed, work, enabled, lastStatus, uncovered>>
  BY DEF CreateSyncJob
<1>3. /\ \A i \in PropagateIds : i # id => propagates'[i] = propagates[i]
      /\ propagates'[id].state = "active" /\ propagates'[id].event = e
      /\ propagates'[id].left = left
  BY <1>1 DEF JobBecomes
<1>4. \A f \in Events :
        \/ syncs'[d][f] = syncs[d][f]
        \/ d = c /\ f = e /\ syncs[d][f].status = "none" /\ syncs'[d][f].status = "PENDING"
  BY <1>1 DEF RowBecomes
<1>5. \A f \in Events : syncs[d][f].status = "none" => syncs[d][f].queued = "none"
  BY DEF SyncInv, RowsFit, RowFits
<1>6. ASSUME Attended(d) PROVE Attended(d)'
  <2>1. CASE ~Covering(id, d)
    BY <1>2, <1>3, <1>4, <1>5, <1>6, <2>1, AttendedElsewhere
  <2>2. CASE Covering(id, d) /\ d = c
    <3>1. syncs'[d][e].status = "PENDING"
      BY <1>1, <2>2 DEF Covering, RowBecomes
    <3> QED  BY <1>1, <3>1 DEF Attended, Scheduled
  <2>3. CASE Covering(id, d) /\ d # c
    <3>1. syncs'[d][e].status = "none" /\ d \in left
      BY <1>1, <1>4, <2>3 DEF Covering
    <3>2. Covering(id, d)'
      BY <1>3, <3>1 DEF Covering, Begun
    <3> QED  BY <3>2 DEF Attended
  <2> QED  BY <2>1, <2>2, <2>3
<1> QED  BY <1>2, <1>6, OutcomeStays

LEMMA AddTraced ==
  ASSUME SyncInv, NEW d \in Channels, TracedAt(d), NEW id \in PropagateIds, AddSyncJob(id)
  PROVE  TracedAt(d)'
<1> DEFINE c == propagates[id].adding
           e == propagates[id].event
           left == propagates[id].left
           tries == syncs[c][e].tries
<1>1. /\ propagates[id].state = "active" /\ e \in Events /\ c \in Channels
      /\ JobBecomes(id, "active", left, NoChannel)
      /\ syncs[c][e].status = "PENDING" /\ RowBecomes(c, e, "PENDING", "waiting", tries)
  BY AddEffect DEF SyncInv
<1>2. UNCHANGED <<available, listing, unpulled, owed, work, enabled, lastStatus, uncovered>>
  BY DEF AddSyncJob
<1> HIDE DEF c, tries
<1>3. /\ \A i \in PropagateIds : i # id => propagates'[i] = propagates[i]
      /\ propagates'[id].state = "active" /\ propagates'[id].event = e
      /\ propagates'[id].left = left
  BY <1>1 DEF JobBecomes
<1>4. \A f \in Events :
        \/ syncs'[d][f] = syncs[d][f]
        \/ d = c /\ f = e /\ syncs'[d][f].status = "PENDING"
  BY <1>1 DEF RowBecomes
<1>5. ASSUME Attended(d) PROVE Attended(d)'
  <2>1. CASE ~Covering(id, d)
    BY <1>2, <1>3, <1>4, <1>5, <2>1, AttendedElsewhere
  <2>2. CASE Covering(id, d)
    <3>1. syncs[d][e].status = "none"
      BY <2>2 DEF Covering
    <3>2. syncs'[d][e].status = "none"
      BY <1>1, <1>4, <3>1
    <3>3. Covering(id, d)'
      BY <1>1, <1>3, <2>2, <3>2 DEF Covering, Begun
    <3> QED  BY <3>3 DEF Attended
  <2> QED  BY <2>1, <2>2
<1> QED  BY <1>2, <1>5, OutcomeStays

LEMMA DoneTraced ==
  ASSUME SyncInv, NEW d \in Channels, TracedAt(d), NEW id \in PropagateIds, PropagateDone(id)
  PROVE  TracedAt(d)'
<1>1. /\ propagates[id].state = "active" /\ propagates[id].left = {}
      /\ \A i \in PropagateIds : i # id => propagates'[i] = propagates[i]
  BY DoneEffect DEF SyncInv
<1>2. UNCHANGED <<available, listing, unpulled, owed, syncs, work, enabled, lastStatus, uncovered>>
  BY DEF PropagateDone
<1>3. ~Covering(id, d)
  BY <1>1 DEF Covering
<1>4. Attended(d) => Attended(d)'
  BY <1>1, <1>2, <1>3, AttendedElsewhere
<1> QED  BY <1>2, <1>4, OutcomeStays

LEMMA CrashTraced ==
  ASSUME SyncInv, NEW d \in Channels, TracedAt(d), NEW id \in PropagateIds, PropagateCrash(id)
  PROVE  TracedAt(d)'
<1>1. propagates[id].state = "active" /\ JobBecomes(id, "delayed", {}, NoChannel)
  BY CrashEffect DEF SyncInv
<1>2. UNCHANGED <<available, listing, unpulled, owed, syncs, work, enabled, lastStatus, uncovered>>
  BY DEF PropagateCrash
<1>3. ASSUME Attended(d) PROVE Attended(d)'
  <2>1. CASE ~Covering(id, d)
    BY <1>1, <1>2, <1>3, <2>1, AttendedElsewhere DEF JobBecomes
  <2>2. CASE Covering(id, d)
    <3>1. d # propagates[id].exclude
      BY <1>1, <2>2 DEF Covering, SyncInv, JobsInOrder
    <3>2. Covering(id, d)'
      BY <1>1, <1>2, <2>2, <3>1 DEF Covering, Begun, JobBecomes
    <3> QED  BY <3>2 DEF Attended
  <2> QED  BY <2>1, <2>2
<1> QED  BY <1>2, <1>3, OutcomeStays

\* What a step of a worker at channel c leaves alone.
LEMMA WorkerElsewhere ==
  ASSUME SyncInv, NEW d \in Channels, TracedAt(d), NEW w \in SyncWorkers,
         NEW c \in Channels, d # c,
         UNCHANGED <<available, owed, uncovered, propagates, unpulled>>,
         enabled'[d] = enabled[d], lastStatus'[d] = lastStatus[d], listing'[d] = listing[d],
         \A f \in Events : syncs'[d][f] = syncs[d][f],
         ~At(w, d), ~At(w, d)',
         \A v \in SyncWorkers : v # w => work'[v] = work[v]
  PROVE  TracedAt(d)'
<1>1. \A v \in SyncWorkers : (At(v, d)' <=> At(v, d)) /\ (At(v, d) => work'[v] = work[v])
  BY DEF At, Busy
<1> QED  BY <1>1, TracedElsewhere

\* While w pushes to c nobody else does, and c is not paused.
LEMMA OnlyWorker ==
  ASSUME SyncInv, OnePushAtATime, NEW w \in SyncWorkers, Busy(w), TracedAt(work[w].channel)
  PROVE  /\ work[w].channel \in Channels /\ work[w].event \in Events
         /\ At(w, work[w].channel)
         /\ \A v \in SyncWorkers : At(v, work[w].channel) => v = w
         /\ enabled[work[w].channel] /\ ~Settled(work[w].channel)
<1>1. work[w].channel \in Channels /\ work[w].event \in Events /\ At(w, work[w].channel)
  BY WorkFields DEF SyncInv, At
<1>2. ~Left(work[w].channel)
  BY <1>1 DEF Left
<1> QED  BY <1>1, <1>2 DEF OnePushAtATime, TracedAt, Settled

\* A job in hand is none of what attends to its channel.
LEMMA AttendedBesides ==
  ASSUME SyncInv, NEW w \in SyncWorkers, Busy(w), NEW c \in Channels, c = work[w].channel,
         Attended(c), NEW status, NEW queued, NEW tries, status # "none",
         RowBecomes(work[w].channel, work[w].event, status, queued, tries),
         UNCHANGED <<owed, uncovered, propagates, unpulled>>
  PROVE  Attended(c)'
<1>1. /\ work[w].event \in Events /\ syncs[c][work[w].event].queued = "active"
      /\ syncs[c][work[w].event].status = "PROCESSING"
  BY WorkFields DEF SyncInv, WorkersFit, RowsFit, RowFits
<1>2. \A f \in Events : syncs[c][f].status \in {"none", "PENDING"} \/ syncs[c][f].queued = "waiting"
                          => syncs'[c][f] = syncs[c][f]
  BY <1>1 DEF RowBecomes
<1>3. Scheduled(c) => Scheduled(c)'
  BY <1>2 DEF Scheduled
<1>4. ASSUME NEW i \in PropagateIds, Covering(i, c) PROVE Covering(i, c)'
  <2>1. propagates[i].event \in Events
    BY <1>4, BegunEvent DEF SyncInv, Covering
  <2> QED  BY <1>2, <1>4, <2>1 DEF Covering, Begun
<1> QED  BY <1>3, <1>4 DEF Attended

LEMMA SyncLoadTraced ==
  ASSUME SyncInv, NEW d \in Channels, TracedAt(d), NEW w \in SyncWorkers,
         NEW c \in Channels, NEW e \in Events, SyncLoad(w, c, e)
  PROVE  TracedAt(d)'
<1> DEFINE tries == syncs[c][e].tries + 1
<1>1. /\ ~Busy(w) /\ enabled[c] = TRUE
      /\ RowBecomes(c, e, "PROCESSING", "active", tries)
      /\ HandBecomes(w, "loaded", c, e, Shown(available))
  BY LoadEffect DEF SyncInv
<1>2. UNCHANGED <<available, listing, unpulled, owed, propagates, enabled, lastStatus, uncovered>>
  BY DEF SyncLoad
<1> HIDE DEF tries
<1>3. CASE d = c
  <2>1. Current(d)'
    BY <1>1, <1>2, <1>3 DEF Current, At, Busy, HandBecomes, Shown
  <2> QED  BY <1>1, <1>2, <1>3, <2>1 DEF TracedAt
<1>4. CASE d # c
  <2>1. ~At(w, d) /\ ~At(w, d)'
    BY <1>1, <1>4 DEF At, Busy, HandBecomes
  <2>2. \A f \in Events : syncs'[d][f] = syncs[d][f]
    BY <1>1, <1>4 DEF RowBecomes
  <2>3. \A v \in SyncWorkers : v # w => work'[v] = work[v]
    BY <1>1 DEF HandBecomes
  <2> QED  BY <1>2, <1>4, <2>1, <2>2, <2>3, WorkerElsewhere
<1> QED  BY <1>3, <1>4

LEMMA SyncDisableTraced ==
  ASSUME SyncInv, NEW d \in Channels, TracedAt(d), NEW c \in Channels, NEW e \in Events,
         SyncDisable(c, e)
  PROVE  TracedAt(d)'
<1> DEFINE tries == syncs[c][e].tries
<1>1. ~enabled[c] /\ RowBecomes(c, e, "DISABLED", "none", tries)
  BY DisableEffect DEF SyncInv
<1>2. UNCHANGED <<available, listing, unpulled, owed, propagates, work, enabled, lastStatus, uncovered>>
  BY DEF SyncDisable
<1> HIDE DEF tries
<1>3. CASE d = c
  <2>1. lastStatus[d] = "FAILED" /\ Left(d)
    BY <1>1, <1>3 DEF TracedAt
  <2>2. lastStatus'[d] = "FAILED" /\ Left(d)'
    BY <1>2, <2>1 DEF Left, At, Busy
  <2> QED  BY <2>2 DEF TracedAt, Settled
<1>4. CASE d # c
  <2>1. \A f \in Events : syncs'[d][f] = syncs[d][f]
    BY <1>1, <1>4 DEF RowBecomes
  <2>2. \A v \in SyncWorkers : (At(v, d)' <=> At(v, d)) /\ work'[v] = work[v]
    BY <1>2 DEF At, Busy
  <2> QED  BY <1>2, <2>1, <2>2, TracedElsewhere
<1> QED  BY <1>3, <1>4

LEMMA SyncPushTraced ==
  ASSUME SyncInv, OnePushAtATime, NEW d \in Channels, TracedAt(d), NEW w \in SyncWorkers,
         SyncPush(w)
  PROVE  TracedAt(d)'
<1>1. /\ Busy(w) /\ listing' = [listing EXCEPT ![work[w].channel] = work[w].quantity]
      /\ HandBecomes(w, "pushed", work[w].channel, work[w].event, work[w].quantity)
  BY PushEffect DEF SyncInv
<1>2. UNCHANGED <<available, unpulled, owed, propagates, syncs, enabled, lastStatus, uncovered>>
  BY DEF SyncPush
<1>3. work[w].channel \in Channels
  BY <1>1, WorkFields DEF SyncInv
<1>4. CASE d = work[w].channel
  <2>1. enabled[d] /\ ~Settled(d) /\ \A v \in SyncWorkers : At(v, d) => v = w
    BY <1>1, <1>4, OnlyWorker
  <2>2. Attended(d) => Attended(d)'
    <3>1. Scheduled(d)' <=> Scheduled(d)
      BY <1>2 DEF Scheduled
    <3>2. \A id \in PropagateIds : Covering(id, d)' <=> Covering(id, d)
      BY <1>2 DEF Covering, Begun
    <3> QED  BY <1>2, <3>1, <3>2 DEF Attended
  <2>3. Current(d) => Current(d)'
    <3> SUFFICES ASSUME Current(d) PROVE Current(d)'
      OBVIOUS
    <3>1. work[w].quantity = Shown(available)
      BY <2>1 DEF Current
    <3>2. listing'[d] = Shown(available)
      BY <1>1, <1>3, <1>4, <3>1 DEF SyncInv, SyncTyped
    <3>3. Agrees(d)' /\ Shown(available)' = Shown(available)
      BY <1>2, <3>2 DEF Agrees, Shown
    <3>4. At(w, d)' /\ work'[w].quantity = Shown(available)
      BY <1>1, <1>4, <3>1 DEF HandBecomes, At, Busy
    <3> QED  BY <3>3, <3>4 DEF Current
  <2>4. enabled'[d]
    BY <1>2, <2>1
  <2> QED  BY <2>1, <2>2, <2>3, <2>4 DEF TracedAt
<1>5. CASE d # work[w].channel
  <2>1. ~At(w, d) /\ ~At(w, d)'
    BY <1>1, <1>5 DEF At, Busy, HandBecomes
  <2>2. listing'[d] = listing[d]
    BY <1>1, <1>3, <1>5 DEF SyncInv, SyncTyped
  <2>3. \A v \in SyncWorkers : v # w => work'[v] = work[v]
    BY <1>1 DEF HandBecomes
  <2> QED  BY <1>2, <1>3, <1>5, <2>1, <2>2, <2>3, WorkerElsewhere
<1> QED  BY <1>4, <1>5

\* The end of the push of a worker, for the other channels.
LEMMA LaidDownElsewhere ==
  ASSUME SyncInv, NEW d \in Channels, TracedAt(d), NEW w \in SyncWorkers, Busy(w),
         d # work[w].channel, HandEmptied(w), NEW status, NEW queued, NEW tries,
         RowBecomes(work[w].channel, work[w].event, status, queued, tries),
         UNCHANGED <<available, owed, uncovered, propagates, unpulled>>,
         enabled'[d] = enabled[d], lastStatus'[d] = lastStatus[d], listing'[d] = listing[d]
  PROVE  TracedAt(d)'
<1>1. ~At(w, d) /\ ~At(w, d)'
  BY DEF At, Busy, HandEmptied
<1>2. \A f \in Events : syncs'[d][f] = syncs[d][f]
  BY DEF RowBecomes
<1>3. \A v \in SyncWorkers : v # w => work'[v] = work[v]
  BY DEF HandEmptied
<1>4. work[w].channel \in Channels
  BY WorkFields DEF SyncInv
<1> QED  BY <1>1, <1>2, <1>3, <1>4, WorkerElsewhere

\* The last worker at a channel leaves it.
LEMMA LaidDownHere ==
  ASSUME NEW w \in SyncWorkers, NEW d, HandEmptied(w),
         \A v \in SyncWorkers : At(v, d) => v = w
  PROVE  Left(d)'
BY DEF HandEmptied, Left, At, Busy

LEMMA SyncSucceedTraced ==
  ASSUME SyncInv, OnePushAtATime, NEW d \in Channels, TracedAt(d), NEW w \in SyncWorkers,
         SyncSucceed(w)
  PROVE  TracedAt(d)'
<1> DEFINE tries == syncs[work[w].channel][work[w].event].tries
<1>1. /\ Busy(w) /\ work[w].phase = "pushed" /\ HandEmptied(w)
      /\ RowBecomes(work[w].channel, work[w].event, "SUCCESS", "none", tries)
      /\ lastStatus' = [lastStatus EXCEPT ![work[w].channel] = "SYNCED"]
  BY SucceedEffect DEF SyncInv
<1>2. UNCHANGED <<available, listing, unpulled, owed, propagates, enabled, uncovered>>
  BY DEF SyncSucceed
<1>3. work[w].channel \in Channels
  BY <1>1, WorkFields DEF SyncInv
<1> HIDE DEF tries
<1>4. CASE d = work[w].channel
  <2>1. enabled[d] /\ ~Settled(d) /\ \A v \in SyncWorkers : At(v, d) => v = w
    BY <1>1, <1>4, OnlyWorker
  <2>2. Attended(d) => Attended(d)'
    BY <1>1, <1>2, <1>4, AttendedBesides
  <2>3. Current(d) => Settled(d)'
    <3> SUFFICES ASSUME Current(d) PROVE Settled(d)'
      OBVIOUS
    <3>1. Agrees(d)
      BY <1>1, <2>1 DEF Current
    <3>2. Agrees(d)'
      BY <1>2, <3>1 DEF Agrees, Shown
    <3>3. Left(d)'
      BY <1>1, <2>1, LaidDownHere
    <3> QED  BY <3>2, <3>3 DEF Settled
  <2>4. enabled'[d]
    BY <1>2, <2>1
  <2> QED  BY <2>1, <2>2, <2>3, <2>4 DEF TracedAt
<1>5. CASE d # work[w].channel
  <2>1. lastStatus'[d] = lastStatus[d]
    BY <1>1, <1>3, <1>5 DEF SyncInv, SyncTyped
  <2> QED  BY <1>1, <1>2, <1>5, <2>1, LaidDownElsewhere
<1> QED  BY <1>4, <1>5

LEMMA SyncFailTraced ==
  ASSUME SyncInv, OnePushAtATime, NEW d \in Channels, TracedAt(d), NEW w \in SyncWorkers,
         NEW fault, SyncFail(w, fault)
  PROVE  TracedAt(d)'
<1> DEFINE tries == syncs[work[w].channel][work[w].event].tries
<1>1. /\ Busy(w) /\ HandEmptied(w)
      /\ \/ RowBecomes(work[w].channel, work[w].event, "FAILED", "waiting", tries)
         \/ /\ RowBecomes(work[w].channel, work[w].event, "FAILED", "none", tries)
            /\ lastStatus' = [lastStatus EXCEPT ![work[w].channel] = "FAILED"]
      /\ \E status \in {"none", "SYNCED", "FAILED"} :
           lastStatus' = [lastStatus EXCEPT ![work[w].channel] = status]
      /\ \/ enabled' = enabled
         \/ /\ enabled' = [enabled EXCEPT ![work[w].channel] = FALSE]
            /\ lastStatus' = [lastStatus EXCEPT ![work[w].channel] = "FAILED"]
  BY FailEffect DEF SyncInv
<1>2. UNCHANGED <<available, listing, unpulled, owed, propagates, uncovered>>
  BY DEF SyncFail
<1>3. work[w].channel \in Channels /\ work[w].event \in Events
  BY <1>1, WorkFields DEF SyncInv
<1> HIDE DEF tries
<1>4. CASE d = work[w].channel
  <2>1. enabled[d] /\ \A v \in SyncWorkers : At(v, d) => v = w
    BY <1>1, <1>4, OnlyWorker
  <2>2. Left(d)'
    BY <1>1, <2>1, LaidDownHere
  <2>3. \/ enabled' = enabled
        \/ lastStatus'[d] = "FAILED"
    BY <1>1, <1>3, <1>4 DEF SyncInv, SyncTyped
  <2>4. CASE RowBecomes(work[w].channel, work[w].event, "FAILED", "waiting", tries)
    <3>1. syncs'[d][work[w].event].queued = "waiting"
      BY <1>4, <2>4 DEF RowBecomes
    <3>2. Attended(d)'
      BY <1>3, <3>1 DEF Attended, Scheduled
    <3> QED  BY <2>1, <2>2, <2>3, <3>2 DEF TracedAt
  <2>5. CASE lastStatus' = [lastStatus EXCEPT ![work[w].channel] = "FAILED"]
    <3>1. lastStatus'[d] = "FAILED"
      BY <1>3, <1>4, <2>5 DEF SyncInv, SyncTyped
    <3> QED  BY <2>2, <3>1 DEF TracedAt, Settled
  <2> QED  BY <1>1, <2>4, <2>5
<1>5. CASE d # work[w].channel
  <2>1. lastStatus'[d] = lastStatus[d] /\ enabled'[d] = enabled[d]
    BY <1>1, <1>3, <1>5 DEF SyncInv, SyncTyped
  <2> QED  BY <1>1, <1>2, <1>5, <2>1, LaidDownElsewhere
<1> QED  BY <1>4, <1>5

LEMMA SyncCrashTraced ==
  ASSUME SyncInv, OnePushAtATime, NEW d \in Channels, TracedAt(d), NEW w \in SyncWorkers,
         SyncCrash(w)
  PROVE  TracedAt(d)'
<1> DEFINE tries == syncs[work[w].channel][work[w].event].tries - 1
<1>1. /\ Busy(w) /\ HandEmptied(w)
      /\ RowBecomes(work[w].channel, work[w].event, "PROCESSING", "waiting", tries)
  BY CrashedEffect DEF SyncInv
<1>2. UNCHANGED <<available, listing, unpulled, owed, propagates, enabled, lastStatus, uncovered>>
  BY DEF SyncCrash
<1>3. work[w].event \in Events
  BY <1>1, WorkFields DEF SyncInv
<1> HIDE DEF tries
<1>4. CASE d = work[w].channel
  <2>1. enabled'[d]
    BY <1>1, <1>2, <1>4, OnlyWorker
  <2>2. syncs'[d][work[w].event].queued = "waiting"
    BY <1>1, <1>4 DEF RowBecomes
  <2>3. Attended(d)'
    BY <1>3, <2>2 DEF Attended, Scheduled
  <2> QED  BY <2>1, <2>3 DEF TracedAt
<1>5. CASE d # work[w].channel
  BY <1>1, <1>2, <1>5, LaidDownElsewhere
<1> QED  BY <1>4, <1>5

LEMMA TraceInvInit == SyncInit => TraceInv
<1> SUFFICES ASSUME SyncInit, NEW c \in world.listed PROVE TracedAt(c)
  BY DEF TraceInv
<1>1. c \in Channels
  BY SyncInvInit, ListedIsChannel
<1>2. enabled[c] /\ Agrees(c) /\ Left(c)
  BY <1>1 DEF SyncInit, Agrees, Shown, Left, At, Busy
<1> QED  BY <1>2 DEF TracedAt, Settled

LEMMA TraceInvStep ==
  SyncInv /\ TraceInv /\ OnePushAtATime /\ [SyncNext]_syncVars => TraceInv'
<1> SUFFICES ASSUME SyncInv, TraceInv, OnePushAtATime, [SyncNext]_syncVars PROVE TraceInv'
  OBVIOUS
<1>1. world' = world
  BY DEF SyncNext, syncVars, LocalChange, EnqueueCoalesced, LoseEnqueue, SyncNow, ChannelSale,
         PullOrder, Propagating, PropagateStart, CreateSyncJob, AddSyncJob, PropagateDone,
         PropagateCrash, Syncing, SyncLoad, SyncDisable, SyncPush, SyncSucceed, SyncFail, SyncCrash
<1> SUFFICES ASSUME NEW d \in world.listed PROVE TracedAt(d)'
  BY <1>1 DEF TraceInv
<1>2. d \in Channels /\ TracedAt(d)
  BY ListedIsChannel DEF TraceInv
<1>3. CASE LocalChange
  <2>1. PICK stock \in Stocks \ {available} : Change(stock, NoChannel)
    BY <1>3 DEF LocalChange
  <2>2. UNCHANGED <<work, enabled, lastStatus>>
    BY <1>3 DEF LocalChange
  <2> QED  BY <1>2, <2>1, <2>2, ChangeTraced
<1>4. CASE EnqueueCoalesced
  BY <1>2, <1>4, EnqueueTraced
<1>5. CASE LoseEnqueue
  BY <1>2, <1>5, LoseEnqueueTraced
<1>6. CASE SyncNow
  BY <1>2, <1>6, SyncNowTraced
<1>7. ASSUME NEW c \in Channels, ChannelSale(c) PROVE TracedAt(d)'
  BY <1>2, <1>7, ChannelSaleTraced
<1>8. ASSUME NEW c \in Channels, PullOrder(c) PROVE TracedAt(d)'
  <2>1. Change(available - unpulled[c], c) /\ UNCHANGED <<work, enabled, lastStatus>>
    BY <1>8 DEF PullOrder
  <2> QED  BY <1>2, <2>1, ChangeTraced
<1>9. ASSUME NEW id \in PropagateIds, PropagateStart(id) PROVE TracedAt(d)'
  BY <1>2, <1>9, StartTraced
<1>10. ASSUME NEW id \in PropagateIds, NEW c \in Channels, CreateSyncJob(id, c)
       PROVE  TracedAt(d)'
  BY <1>2, <1>10, CreateTraced
<1>11. ASSUME NEW id \in PropagateIds, AddSyncJob(id) PROVE TracedAt(d)'
  BY <1>2, <1>11, AddTraced
<1>12. ASSUME NEW id \in PropagateIds, PropagateDone(id) PROVE TracedAt(d)'
  BY <1>2, <1>12, DoneTraced
<1>13. ASSUME NEW id \in PropagateIds, PropagateCrash(id) PROVE TracedAt(d)'
  BY <1>2, <1>13, CrashTraced
<1>14. ASSUME NEW w \in SyncWorkers, NEW c \in Channels, NEW e \in Events, SyncLoad(w, c, e)
       PROVE  TracedAt(d)'
  BY <1>2, <1>14, SyncLoadTraced
<1>15. ASSUME NEW c \in Channels, NEW e \in Events, SyncDisable(c, e) PROVE TracedAt(d)'
  BY <1>2, <1>15, SyncDisableTraced
<1>16. ASSUME NEW w \in SyncWorkers, SyncPush(w) PROVE TracedAt(d)'
  BY <1>2, <1>16, SyncPushTraced
<1>17. ASSUME NEW w \in SyncWorkers, SyncSucceed(w) PROVE TracedAt(d)'
  BY <1>2, <1>17, SyncSucceedTraced
<1>18. ASSUME NEW w \in SyncWorkers, NEW fault, SyncFail(w, fault) PROVE TracedAt(d)'
  BY <1>2, <1>18, SyncFailTraced
<1>19. ASSUME NEW w \in SyncWorkers, SyncCrash(w) PROVE TracedAt(d)'
  BY <1>2, <1>19, SyncCrashTraced
<1>20. CASE UNCHANGED syncVars
  <2>1. UNCHANGED <<available, owed, uncovered, propagates, enabled, lastStatus, listing,
                    unpulled, syncs, work>>
    BY <1>20 DEF syncVars
  <2>2. \A v \in SyncWorkers : At(v, d)' <=> At(v, d)
    BY <2>1 DEF At, Busy
  <2> QED  BY <1>2, <2>1, <2>2, TracedElsewhere
<1> QED
  BY <1>3, <1>4, <1>5, <1>6, <1>7, <1>8, <1>9, <1>10, <1>11, <1>12, <1>13, <1>14, <1>15,
     <1>16, <1>17, <1>18, <1>19, <1>20 DEF SyncNext, Propagating, Syncing

\* When all is quiet nobody attends any more and no worker has a job in hand.
LEMMA TraceShowsAtRest == SyncInv /\ TraceInv => StaleIsVisible
<1> SUFFICES ASSUME SyncInv, TraceInv, Quiet, NEW c \in world.listed
             PROVE  \/ Agrees(c)
                    \/ lastStatus[c] = "FAILED"
                    \/ \E e \in Events : syncs[c][e].status = "PENDING"
                    \/ c \in uncovered
  BY DEF StaleIsVisible
<1>1. c \in Channels /\ TracedAt(c)
  BY ListedIsChannel DEF TraceInv
<1>2. \A w \in SyncWorkers : ~Busy(w)
  BY WorkFields DEF SyncInv, WorkersFit, Quiet
<1>3. \A id \in PropagateIds : ~Begun(id)
  BY DEF Quiet, Begun
<1>4. \A e \in Events : syncs[c][e].queued # "waiting"
  BY <1>1 DEF Quiet
<1>5. owed = {} /\ ~(unpulled[c] > 0)
  BY <1>1 DEF Quiet
<1>6. ~Current(c)
  BY <1>2 DEF Current, At
<1>7. Attended(c) => c \in uncovered \/ \E e \in Events : syncs[c][e].status = "PENDING"
  BY <1>3, <1>4, <1>5 DEF Attended, Scheduled, Covering
<1> QED  BY <1>1, <1>6, <1>7 DEF TracedAt, Settled

(* While no two workers push one listing at the same time, a listing that  *)
(* is wrong when all the work is over is marked FAILED, has a row PENDING  *)
(* or was left out by the last propagation, for any number of channels,    *)
(* workers and attempts and whatever is coalesced, retried, crashed or     *)
(* lost on the way.  Two workers at one listing break it: the older read   *)
(* may be pushed, or recorded, last.                                       *)
THEOREM StaleLeavesATrace == SyncSpec /\ []OnePushAtATime => []StaleIsVisible
<1>1. SyncInit => SyncInv /\ TraceInv
  BY SyncInvInit, TraceInvInit
<1>2. SyncInv /\ TraceInv /\ OnePushAtATime /\ [SyncNext]_syncVars => (SyncInv /\ TraceInv)'
  BY SyncInvStep, TraceInvStep
<1>3. SyncInv /\ TraceInv => StaleIsVisible
  BY TraceShowsAtRest
<1> QED  BY <1>1, <1>2, <1>3, PTL DEF SyncSpec
=============================================================================
