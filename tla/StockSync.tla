------------------------------ MODULE StockSync ------------------------------
(***************************************************************************)
(* How one variant's stock reaches its marketplace listings: the change in *)
(* the web process, the best-effort enqueue after its commit, the          *)
(* propagate job (one stable, delayed job id for all automatic changes, a  *)
(* job id of its own for a manual sync), the fan-out into one sync row and *)
(* one sync job per mapping, and the workers that push the stock they read *)
(* to the provider, with retries.  A variant has one mapping per channel,  *)
(* so a channel names its connection, its mapping and its listing.         *)
(***************************************************************************)
EXTENDS Integers, FiniteSets

CONSTANTS
    Channels,           \* the connections that list the variant
    SyncWorkers,        \* concurrency of the stock-sync queue
    PropagateSlots,     \* concurrency of the propagate queue
    MaxAttempts,        \* attempts of a sync job
    Worlds,             \* what happens around the program in one behaviour
    Stocks,             \* what a local change may set the stock to
    MaxEvents,          \* bound: stock changes and manual syncs
    MaxFaults,          \* bound: failed pushes
    MaxCrashes,         \* bound: process crashes
    NoChannel

ASSUME ChannelsAssumption == IsFiniteSet(Channels) /\ NoChannel \notin Channels
ASSUME StocksAssumption == Stocks \subseteq Int
ASSUME BoundsAssumption == {MaxEvents, MaxFaults, MaxCrashes} \subseteq Nat
ASSUME AttemptsAssumption == MaxAttempts \in Nat \ {0}
ASSUME SlotsAssumption == PropagateSlots \in Nat \ {0}

\* listed: channels with a mapping; sources: what changes the stock or asks
\* for a push; faults: what a push meets.
ASSUME WorldsAssumption ==
    Worlds \subseteq [listed : SUBSET Channels,
                      sources : SUBSET {"local", "order", "manual"},
                      faults : SUBSET {"retry", "fatal", "invalid"}]

VARIABLES
    available,          \* Inventory.availableStock, committed
    listing,            \* the stock each marketplace shows
    unpulled,           \* orders a marketplace took and no pull has imported
    owed,               \* commits whose enqueue has not been made
    propagates,         \* the jobs of the propagate queue, by job id
    syncs,              \* MarketplaceSyncJob rows and their queue jobs
    work,               \* what each sync worker is doing
    enabled,            \* MarketplaceProductMapping.syncEnabled
    lastStatus,         \* MarketplaceProductMapping.lastSyncStatus
    events,             \* event ids handed out
    changedAt,          \* history: the event of the last stock change
    uncovered,          \* history: channels owed a push nobody scheduled
    faults, crashes,
    world               \* the world of this behaviour; it never changes

syncVars == <<available, listing, unpulled, owed, propagates, syncs, work, enabled,
          lastStatus, events, changedAt, uncovered, faults, crashes, world>>

Events == 1..MaxEvents
Coalesced == 0
PropagateIds == {Coalesced} \cup Events

NoPropagate == [state |-> "none", event |-> 0, exclude |-> NoChannel,
                left |-> {}, adding |-> NoChannel]
NoSync == [status |-> "none", queued |-> "none", tries |-> 0]
NoWork == [phase |-> "idle"]

ShownUnclamped(stock) == stock
Shown(stock) == IF stock > 0 THEN stock ELSE 0

SyncInit ==
    /\ world \in Worlds
    /\ available \in Stocks
    /\ listing = [c \in Channels |-> Shown(available)]
    /\ unpulled = [c \in Channels |-> 0]
    /\ owed = {}
    /\ propagates = [id \in PropagateIds |-> NoPropagate]
    /\ syncs = [c \in Channels |-> [e \in Events |-> NoSync]]
    /\ work = [w \in SyncWorkers |-> NoWork]
    /\ enabled = [c \in Channels |-> c \in world.listed]
    /\ lastStatus = [c \in Channels |-> "none"]
    /\ events = 0 /\ changedAt = 0 /\ uncovered = {}
    /\ faults = 0 /\ crashes = 0

-----------------------------------------------------------------------------
\* The web process: a change commits, and its enqueue follows the commit.

\* Every unimported order keeps an event id for its own pull.
Room == events + Cardinality({c \in Channels : unpulled[c] > 0}) < MaxEvents

Change(stock, exclude) ==
    /\ events' = events + 1
    /\ available' = stock
    /\ changedAt' = events'
    /\ owed' = owed \cup {[event |-> events', exclude |-> exclude]}

LocalChange ==
    /\ "local" \in world.sources /\ Room
    /\ \E stock \in Stocks \ {available} : Change(stock, NoChannel)
    /\ UNCHANGED <<listing, unpulled, propagates, syncs, work, enabled,
                   lastStatus, uncovered, faults, crashes, world>>

\* A marketplace sells one unit and lowers its own listing.
ChannelSale(c) ==
    /\ "order" \in world.sources /\ Room
    /\ c \in world.listed /\ listing[c] > 0 /\ unpulled[c] = 0
    /\ unpulled' = [unpulled EXCEPT ![c] = 1]
    /\ listing' = [listing EXCEPT ![c] = @ - 1]
    /\ UNCHANGED <<available, owed, propagates, syncs, work, enabled,
                   lastStatus, events, changedAt, uncovered, faults, crashes, world>>

PullOrder(c) ==
    /\ unpulled[c] > 0
    /\ Change(available - unpulled[c], c)
    /\ unpulled' = [unpulled EXCEPT ![c] = 0]
    /\ UNCHANGED <<listing, propagates, syncs, work, enabled,
                   lastStatus, uncovered, faults, crashes, world>>

Waiting(event, exclude) ==
    [NoPropagate EXCEPT !.state = "delayed", !.event = event, !.exclude = exclude]

\* BullMQ ignores a job id that exists in any state, and keeps its payload.
AddCoalesced(event, exclude) ==
    IF propagates[Coalesced].state = "none"
    THEN [propagates EXCEPT ![Coalesced] = Waiting(event, exclude)]
    ELSE propagates

\* A fresh job will push to every channel but the excluded one, a delayed job
\* to all but the one it excludes and those it has a row for already (it may
\* be a retry), and an active one may be past them all.
LeftUncovered(exclude) ==
    LET pending == propagates[Coalesced] IN
    CASE pending.state = "active" -> Channels
      [] pending.state = "delayed" ->
             uncovered \cup ({pending.exclude} \cap Channels)
               \cup {c \in Channels : syncs[c][pending.event].status # "none"}
      [] OTHER -> {exclude} \cap Channels

EnqueueCoalesced ==
    \E o \in owed :
        /\ owed' = owed \ {o}
        /\ propagates' = AddCoalesced(o.event, o.exclude)
        /\ uncovered' = LeftUncovered(o.exclude)
        /\ UNCHANGED <<available, listing, unpulled, syncs, work, enabled,
                       lastStatus, events, changedAt, faults, crashes, world>>

\* Redis is unavailable (the error is logged and dropped) or the process dies.
LoseEnqueue ==
    /\ crashes < MaxCrashes
    /\ \E o \in owed : owed' = owed \ {o}
    /\ uncovered' = Channels
    /\ crashes' = crashes + 1
    /\ UNCHANGED <<available, listing, unpulled, propagates, syncs, work,
                   enabled, lastStatus, events, changedAt, faults, world>>

SyncNow ==
    /\ "manual" \in world.sources /\ Room
    /\ \E c \in Channels : enabled[c]
    /\ events' = events + 1
    /\ propagates' = [propagates EXCEPT ![events'] = Waiting(events', NoChannel)]
    /\ uncovered' = {}
    /\ UNCHANGED <<available, listing, unpulled, owed, syncs, work, enabled,
                   lastStatus, changedAt, faults, crashes, world>>

-----------------------------------------------------------------------------
\* The propagate worker: find the mappings, then a row and a job for each.

Active == {id \in PropagateIds : propagates[id].state = "active"}

SyncReady(exclude) == {c \in Channels : enabled[c] /\ c # exclude}

PropagateStart(id) ==
    LET job == propagates[id] IN
    /\ job.state = "delayed"
    /\ Cardinality(Active) < PropagateSlots
    /\ propagates' = [propagates EXCEPT
           ![id] = [job EXCEPT !.state = "active", !.left = SyncReady(job.exclude)]]
    /\ UNCHANGED <<available, listing, unpulled, owed, syncs, work, enabled,
                   lastStatus, events, changedAt, uncovered, faults, crashes, world>>

\* One mapping of the loop up to createSyncJob; an existing row is skipped.
CreateSyncJob(id, c) ==
    LET job == propagates[id]
        fresh == syncs[c][job.event].status = "none" IN
    /\ job.state = "active" /\ job.adding = NoChannel /\ c \in job.left
    /\ propagates' = [propagates EXCEPT
           ![id].left = @ \ {c}, ![id].adding = IF fresh THEN c ELSE NoChannel]
    /\ syncs' = IF fresh THEN [syncs EXCEPT ![c][job.event].status = "PENDING"]
                         ELSE syncs
    /\ UNCHANGED <<available, listing, unpulled, owed, work, enabled,
                   lastStatus, events, changedAt, uncovered, faults, crashes, world>>

AddSyncJob(id) ==
    LET job == propagates[id] IN
    /\ job.adding # NoChannel
    /\ syncs' = [syncs EXCEPT ![job.adding][job.event].queued = "waiting"]
    /\ propagates' = [propagates EXCEPT ![id].adding = NoChannel]
    /\ UNCHANGED <<available, listing, unpulled, owed, work, enabled,
                   lastStatus, events, changedAt, uncovered, faults, crashes, world>>

\* Mutant: the coalesced id is kept too, as the queue's default would.
PropagateDoneKeepsId(id) ==
    LET job == propagates[id] IN
    /\ job.state = "active" /\ job.left = {} /\ job.adding = NoChannel
    /\ propagates' = [propagates EXCEPT
           ![id] = [NoPropagate EXCEPT !.state = "done", !.event = job.event]]
    /\ UNCHANGED <<available, listing, unpulled, owed, syncs, work, enabled,
                   lastStatus, events, changedAt, uncovered, faults, crashes, world>>

\* The coalesced id is freed at once, a manual id stays taken.
PropagateDone(id) ==
    LET job == propagates[id] IN
    /\ job.state = "active" /\ job.left = {} /\ job.adding = NoChannel
    /\ propagates' = [propagates EXCEPT
           ![id] = IF id = Coalesced THEN NoPropagate
                   ELSE [NoPropagate EXCEPT !.state = "done", !.event = job.event]]
    /\ UNCHANGED <<available, listing, unpulled, owed, syncs, work, enabled,
                   lastStatus, events, changedAt, uncovered, faults, crashes, world>>

\* The worker dies or a call throws: the queue hands the job out again.
PropagateCrash(id) ==
    /\ crashes < MaxCrashes /\ propagates[id].state = "active"
    /\ propagates' = [propagates EXCEPT
           ![id] = Waiting(propagates[id].event, propagates[id].exclude)]
    /\ crashes' = crashes + 1
    /\ UNCHANGED <<available, listing, unpulled, owed, syncs, work, enabled,
                   lastStatus, events, changedAt, uncovered, faults, world>>

-----------------------------------------------------------------------------
\* The sync workers: read the stock, push it, record the outcome.

\* A row whose mapping was paused meanwhile is closed without a push.
SyncDisable(c, e) ==
    /\ syncs[c][e].queued = "waiting" /\ ~enabled[c]
    /\ syncs' = [syncs EXCEPT ![c][e] = [syncs[c][e] EXCEPT !.status = "DISABLED", !.queued = "none"]]
    /\ UNCHANGED <<available, listing, unpulled, owed, propagates, work, enabled,
                   lastStatus, events, changedAt, uncovered, faults, crashes, world>>

WorkOn(c, e) ==
    [phase |-> "loaded", channel |-> c, event |-> e, quantity |-> Shown(available)]

SyncLoad(w, c, e) ==
    /\ work[w] = NoWork
    /\ syncs[c][e].queued = "waiting" /\ enabled[c]
    /\ syncs' = [syncs EXCEPT ![c][e] =
           [status |-> "PROCESSING", queued |-> "active", tries |-> syncs[c][e].tries + 1]]
    /\ work' = [work EXCEPT ![w] = WorkOn(c, e)]
    /\ UNCHANGED <<available, listing, unpulled, owed, propagates, enabled,
                   lastStatus, events, changedAt, uncovered, faults, crashes, world>>

\* The provider sets the listing to the number it is sent.
SyncPush(w) ==
    /\ work[w].phase = "loaded"
    /\ listing' = [listing EXCEPT ![work[w].channel] = work[w].quantity]
    /\ work' = [work EXCEPT ![w].phase = "pushed"]
    /\ UNCHANGED <<available, unpulled, owed, propagates, syncs, enabled,
                   lastStatus, events, changedAt, uncovered, faults, crashes, world>>

SyncSucceed(w) ==
    LET c == work[w].channel  e == work[w].event IN
    /\ work[w].phase = "pushed"
    /\ syncs' = [syncs EXCEPT ![c][e] = [syncs[c][e] EXCEPT !.status = "SUCCESS", !.queued = "none"]]
    /\ lastStatus' = [lastStatus EXCEPT ![c] = "SYNCED"]
    /\ work' = [work EXCEPT ![w] = NoWork]
    /\ UNCHANGED <<available, listing, unpulled, owed, propagates, enabled,
                   events, changedAt, uncovered, faults, crashes, world>>

FinalFailureOnlyFatal(fault, tries) == fault # "retry"
FinalFailure(fault, tries) == fault # "retry" \/ tries >= MaxAttempts

RequeuedOnceLess(fault, tries) == fault = "retry" /\ tries < MaxAttempts - 1
Requeued(fault, tries) == fault = "retry" /\ tries < MaxAttempts

\* "retry" may also be the lost answer of a push the provider applied.
SyncFail(w, fault) ==
    LET c == work[w].channel  e == work[w].event
        tries == syncs[c][e].tries
        final == FinalFailure(fault, tries) IN
    /\ fault \in world.faults /\ faults < MaxFaults
    /\ work[w].phase = "loaded" \/ (work[w].phase = "pushed" /\ fault = "retry")
    /\ syncs' = [syncs EXCEPT ![c][e] = [syncs[c][e] EXCEPT
           !.status = "FAILED",
           !.queued = IF Requeued(fault, tries) THEN "waiting" ELSE "none"]]
    /\ lastStatus' = [lastStatus EXCEPT ![c] = IF final THEN "FAILED" ELSE @]
    /\ enabled' = [enabled EXCEPT ![c] = @ /\ fault # "invalid"]
    /\ work' = [work EXCEPT ![w] = NoWork]
    /\ faults' = faults + 1
    /\ UNCHANGED <<available, listing, unpulled, owed, propagates, events,
                   changedAt, uncovered, crashes, world>>

SyncCrash(w) ==
    LET c == work[w].channel  e == work[w].event IN
    /\ crashes < MaxCrashes /\ work[w] # NoWork
    /\ syncs' = [syncs EXCEPT ![c][e] = [syncs[c][e] EXCEPT
           !.queued = "waiting", !.tries = syncs[c][e].tries - 1]]
    /\ work' = [work EXCEPT ![w] = NoWork]
    /\ crashes' = crashes + 1
    /\ UNCHANGED <<available, listing, unpulled, owed, propagates, enabled,
                   lastStatus, events, changedAt, uncovered, faults, world>>

-----------------------------------------------------------------------------
Propagating(id) ==
    \/ PropagateStart(id) \/ AddSyncJob(id) \/ PropagateDone(id)
    \/ \E c \in Channels : CreateSyncJob(id, c)

Syncing(w) ==
    \/ \E c \in Channels, e \in Events : SyncLoad(w, c, e) \/ SyncDisable(c, e)
    \/ SyncPush(w)
    \/ SyncSucceed(w)

SyncNext ==
    \/ LocalChange
    \/ EnqueueCoalesced
    \/ LoseEnqueue
    \/ SyncNow
    \/ \E c \in Channels : ChannelSale(c) \/ PullOrder(c)
    \/ \E id \in PropagateIds : Propagating(id) \/ PropagateCrash(id)
    \/ \E w \in SyncWorkers : Syncing(w) \/ SyncCrash(w)
    \/ \E w \in SyncWorkers, fault \in {"retry", "fatal", "invalid"} : SyncFail(w, fault)

SyncSpec == SyncInit /\ [][SyncNext]_syncVars

\* The queues hand out jobs as long as there are any, the web process reaches
\* its enqueue, and the scheduler keeps pulling orders.
FairSyncSpec ==
    /\ SyncSpec
    /\ WF_syncVars(EnqueueCoalesced)
    /\ \A c \in Channels : WF_syncVars(PullOrder(c))
    /\ \A id \in PropagateIds : WF_syncVars(Propagating(id))
    /\ \A w \in SyncWorkers : WF_syncVars(Syncing(w))

-----------------------------------------------------------------------------
SyncTypeOK ==
    /\ available \in Int
    /\ listing \in [Channels -> Nat]
    /\ unpulled \in [Channels -> {0, 1}]
    /\ owed \subseteq [event : Events, exclude : Channels \cup {NoChannel}]
    /\ propagates \in [PropagateIds ->
           [state : {"none", "delayed", "active", "done"}, event : 0..MaxEvents,
            exclude : Channels \cup {NoChannel}, left : SUBSET Channels,
            adding : Channels \cup {NoChannel}]]
    /\ syncs \in [Channels -> [Events ->
           [status : {"none", "PENDING", "PROCESSING", "SUCCESS", "FAILED", "DISABLED"},
            queued : {"none", "waiting", "active"}, tries : 0..MaxAttempts]]]
    /\ work \in [SyncWorkers -> {NoWork} \cup
           [phase : {"loaded", "pushed"}, channel : Channels, event : Events,
            quantity : Nat]]
    /\ enabled \in [Channels -> BOOLEAN]
    /\ lastStatus \in [Channels -> {"none", "SYNCED", "FAILED"}]
    /\ events \in 0..MaxEvents /\ changedAt \in 0..MaxEvents
    /\ uncovered \subseteq Channels
    /\ faults \in 0..MaxFaults /\ crashes \in 0..MaxCrashes /\ world \in Worlds

Quiet ==
    /\ owed = {}
    /\ \A c \in Channels : unpulled[c] = 0
    /\ \A id \in PropagateIds : propagates[id].state \in {"none", "done"}
    /\ \A c \in Channels, e \in Events : syncs[c][e].queued = "none"

Agrees(c) == listing[c] = Shown(available)

(***************************************************************************)
(* Once nothing is queued, owed or unimported, every synced listing shows  *)
(* the stock: what the coalescing window and the fan-out are for.          *)
(***************************************************************************)
QuietListingsAgree == Quiet => \A c \in Channels : enabled[c] => Agrees(c)

(***************************************************************************)
(* A listing that stays wrong when all the work is over leaves a trace:    *)
(* its mapping shows FAILED, or a row of it is still PENDING, or the last  *)
(* propagation left its channel out.  Retries, lost answers, crashes and   *)
(* the pushes of several events may come in any order before that.         *)
(***************************************************************************)
StaleIsVisible ==
    Quiet => \A c \in world.listed :
        \/ Agrees(c)
        \/ lastStatus[c] = "FAILED"
        \/ \E e \in Events : syncs[c][e].status = "PENDING"
        \/ c \in uncovered

(***************************************************************************)
(* A sync row that is still PENDING has a job in the queue, or a           *)
(* propagation that is going to add one: the in-flight indicator of the    *)
(* connection page, which counts PENDING rows, goes out in the end.        *)
(***************************************************************************)
PendingIsQueued ==
    \A c \in Channels, e \in Events :
        syncs[c][e].status = "PENDING" =>
            \/ syncs[c][e].queued = "waiting"
            \/ \E id \in PropagateIds :
                   propagates[id].event = e /\ propagates[id].state \in {"delayed", "active"}

Busy(w) == work[w] # NoWork
At(w, c) == Busy(w) /\ work[w].channel = c

\* One worker at a time pushes to a listing: the queue, with a concurrency of
\* four, does not see to it.
OnePushAtATime ==
    \A v, w \in SyncWorkers : \A c \in Channels : At(v, c) /\ At(w, c) => v = w

(***************************************************************************)
(* "Sync now" is the repair: when one was asked for after the last change  *)
(* of the stock, every listing still synced ends up showing that stock or  *)
(* FAILED, whatever the coalesced jobs skipped before and whichever pushes *)
(* fail, as long as no two workers push one listing at once.               *)
(***************************************************************************)
RepairAsked ==
    /\ \E e \in Events : e > changedAt /\ propagates[e].state # "none"
    /\ \A c \in Channels : unpulled[c] = 0

Repaired(c) == Agrees(c) \/ ~enabled[c] \/ lastStatus[c] = "FAILED"

SyncNowRepairs ==
    []OnePushAtATime => (RepairAsked ~> ~RepairAsked \/ \A c \in Channels : Repaired(c))

(***************************************************************************)
(* A burst of changes converges: in the end each channel shows the stock,  *)
(* if the last enqueue of the burst found no job or one still delayed that *)
(* does not exclude the channel, its last push did not fail, and no two    *)
(* workers push one listing at once.                                       *)
(***************************************************************************)
BurstConverges ==
    []OnePushAtATime => <>[](\A c \in Channels : c \in uncovered \/ Repaired(c))
=============================================================================
