------------------------------- MODULE Pairing -------------------------------
(***************************************************************************)
(* Scanner pairing: the phones that drive the scan stations of one user.   *)
(*                                                                         *)
(* A desktop creates a pairing session and shows its QR code; a phone that *)
(* scans it connects and keeps the session alive with heartbeats.  The API *)
(* reads a session and writes it in separate statements, none of which     *)
(* checks again; two sweeps of the socket server expire what has run out   *)
(* of time and disconnect phones that went silent.  Desktops learn of it   *)
(* from the room of their session and by polling.                          *)
(***************************************************************************)
EXTENDS Naturals, FiniteSets

CONSTANTS
  Desktops,     \* browsers of the user
  Phones,
  Scenes,       \* bound: who and what takes part in one behaviour
  MaxSessions   \* bound on the pairing sessions created

\* The devices at work, and what happens besides creating and connecting.
Scene == [desktops : SUBSET Desktops, phones : SUBSET Phones, codes : 0..MaxSessions,
          parts : SUBSET {"watch", "time", "silent", "lost", "release", "reload"}]

ASSUME PairingAssumption ==
  MaxSessions \in Nat /\ Desktops \cap Phones = {} /\ Scenes \subseteq Scene

Sessions == 1..MaxSessions
None == 0

VARIABLES
  session,   \* the PairingSession rows
  desk,      \* what each desktop shows, its room and its poll
  phone,     \* each phone: its session and how far it is
  calls,     \* the API requests under way
  sweeping,  \* sessions the stale sweep has decided to disconnect
  scene      \* the scene of this behaviour; it never changes

vars == <<session, desk, phone, calls, sweeping, scene>>

Statuses == {"none", "PENDING", "CONNECTED", "DISCONNECTED", "EXPIRED"}
Open == {"PENDING", "CONNECTED"}

\* live: expiresAt is ahead; seen: the last heartbeat is recent; sole: the
\* request that connected it has gone on to expire all others (history).
Session == [status : Statuses, live : BOOLEAN, seen : BOOLEAN, sole : BOOLEAN]

\* shown, status: the active session in the query cache; answer: what the poll
\* under way was told.
Desk == [shown : Sessions \cup {None}, status : Statuses, room : Sessions \cup {None},
         poll : {"none", "due", "asked"}, answer : (Sessions \cup {None}) \X Statuses]

Phone == [session : Sessions \cup {None}, at : {"idle", "connecting", "joining", "ready"},
          up : BOOLEAN]

Call == [op : {"create", "connect"}, by : Desktops \cup Phones,
         session : Sessions \cup {None}, step : {"sent", "read", "marked"},
         status : Statuses, live : BOOLEAN]

NoAnswer == <<None, "none">>

TypeOK ==
  /\ session \in [Sessions -> Session]
  /\ desk \in [Desktops -> Desk]
  /\ phone \in [Phones -> Phone]
  /\ calls \subseteq Call
  /\ sweeping \subseteq Sessions
  /\ scene \in Scenes

Init ==
  /\ session = [s \in Sessions |->
                  [status |-> "none", live |-> FALSE, seen |-> FALSE, sole |-> FALSE]]
  /\ desk = [d \in Desktops |-> [shown |-> None, status |-> "none", room |-> None,
                                 poll |-> "due", answer |-> NoAnswer]]
  /\ phone = [p \in Phones |-> [session |-> None, at |-> "idle", up |-> TRUE]]
  /\ calls = {}
  /\ sweeping = {}
  /\ scene \in Scenes

Happens(part) == part \in scene.parts

-----------------------------------------------------------------------------
(* Statements on the table.                                                *)

\* Faulty StaleStatuses: connected sessions are left to the heartbeat sweep.
StaleStatusesPending == {"PENDING"}

StaleStatuses == Open

\* expireStaleSessions: what has run out of time.
Expired ==
  [s \in Sessions |-> IF session[s].status \in StaleStatuses /\ ~session[s].live
                      THEN [session[s] EXCEPT !.status = "EXPIRED"] ELSE session[s]]

\* Faulty Superseded: a phone that is connected keeps its session.
SupersededPending(s) == session[s].status = "PENDING"

Superseded(s) == session[s].status \in Open

\* expireSessionsForUser.
OthersExpired(keep) ==
  [s \in Sessions |-> IF s # keep /\ Superseded(s)
                      THEN [session[s] EXCEPT !.status = "EXPIRED"] ELSE session[s]]

\* findActiveByUserId: the newest session that is open.
ActiveSession(rows) ==
  LET active == {s \in Sessions : rows[s].status \in Open /\ rows[s].live} IN
  IF active = {} THEN None ELSE CHOOSE s \in active : \A t \in active : t <= s

Disconnected(s) == [session EXCEPT ![s].status = "DISCONNECTED"]

\* An event of session s reaches the desktops in its room and enters their cache.
Told(s, status) ==
  [d \in Desktops |-> IF desk[d].room = s
                      THEN [desk[d] EXCEPT !.shown = s, !.status = status] ELSE desk[d]]

-----------------------------------------------------------------------------
(* The API requests.                                                       *)

NoCallBy(who) == \A c \in calls : c.by # who

Request(op, who, s) ==
  [op |-> op, by |-> who, session |-> s, step |-> "sent", status |-> "none", live |-> FALSE]

\* Faulty Moved: a request that has marked its session is done.
MovedDone(c, step) == (calls \ {c}) \cup {[c EXCEPT !.step = "done"]}

Moved(c, step) == (calls \ {c}) \cup {[c EXCEPT !.step = step]}

\* The connect dialog asks for a session of its station's purpose.
AskPairing(d) ==
  /\ NoCallBy(d)
  /\ calls' = calls \cup {Request("create", d, None)}
  /\ UNCHANGED <<session, desk, phone, sweeping, scene>>

\* createSession: is a session active?
CreateRead(c) ==
  /\ c.op = "create" /\ c.step = "sent"
  /\ session' = Expired
  /\ calls' = (calls \ {c}) \cup
       {[c EXCEPT !.step = "read", !.session = ActiveSession(Expired)]}
  /\ UNCHANGED <<desk, phone, sweeping, scene>>

\* It is, or was: whatever is open by now is superseded.
CreateSupersede(c) ==
  /\ c.op = "create" /\ c.step = "read" /\ c.session # None
  /\ session' = OthersExpired(None)
  /\ calls' = (calls \ {c}) \cup {[c EXCEPT !.session = None]}
  /\ UNCHANGED <<desk, phone, sweeping, scene>>

\* The new session; the desktop shows its QR code.
CreateInsert(c) ==
  \E s \in Sessions :
    /\ c.op = "create" /\ c.step = "read" /\ c.session = None
    /\ s <= scene.codes
    /\ session[s].status = "none" /\ \A t \in 1..(s - 1) : session[t].status # "none"
    /\ session' = [session EXCEPT ![s].status = "PENDING", ![s].live = TRUE]
    /\ desk' = [desk EXCEPT ![c.by].shown = s, ![c.by].status = "PENDING"]
    /\ calls' = calls \ {c}
    /\ UNCHANGED <<phone, sweeping, scene>>

\* A phone opens the link of a QR code, old or new, or retries.
AskConnect(p) ==
  \E s \in Sessions :
    /\ NoCallBy(p) /\ phone[p].up
    /\ session[s].status # "none"
    /\ phone' = [phone EXCEPT ![p].session = s, ![p].at = "connecting"]
    /\ calls' = calls \cup {Request("connect", p, s)}
    /\ UNCHANGED <<session, desk, sweeping, scene>>

\* connectMobile reads the session.
ConnectRead(c) ==
  /\ c.op = "connect" /\ c.step = "sent"
  /\ session' = Expired
  /\ calls' = (calls \ {c}) \cup
       {[c EXCEPT !.step = "read", !.status = Expired[c.session].status,
                  !.live = Expired[c.session].live]}
  /\ UNCHANGED <<desk, phone, sweeping, scene>>

Connects(c) == c.live /\ c.status # "EXPIRED"

\* It marks the session connected, or extends one that is.
ConnectMark(c) ==
  LET s == c.session IN
  /\ c.op = "connect" /\ c.step = "read"
  /\ IF Connects(c)
     THEN /\ session' = [session EXCEPT
               ![s].status = IF c.status = "CONNECTED" THEN @ ELSE "CONNECTED",
               ![s].live = TRUE, ![s].seen = TRUE,
               ![s].sole = IF c.status = "CONNECTED" THEN @ ELSE FALSE]
          /\ phone' = [phone EXCEPT ![c.by].at = "joining"]
          /\ calls' = IF c.status = "PENDING" THEN Moved(c, "marked") ELSE calls \ {c}
     ELSE /\ session' = session
          /\ phone' = [phone EXCEPT ![c.by].at = "idle"]
          /\ calls' = calls \ {c}
  /\ UNCHANGED <<desk, sweeping, scene>>

\* A first connection expires every other open session of the user.
ConnectExpire(c) ==
  LET s == c.session IN
  /\ c.op = "connect" /\ c.step = "marked"
  /\ session' = [OthersExpired(s) EXCEPT ![s].sole = TRUE]
  /\ calls' = calls \ {c}
  /\ UNCHANGED <<desk, phone, sweeping, scene>>

\* A request is lost, or the server dies half way through it.
DropCall(c) ==
  /\ Happens("lost")
  /\ calls' = calls \ {c}
  /\ phone' = IF c.by \in Phones /\ phone[c.by].at = "connecting"
              THEN [phone EXCEPT ![c.by].at = "idle"] ELSE phone
  /\ UNCHANGED <<session, desk, sweeping, scene>>

ApiNext ==
  \E c \in calls :
    \/ CreateRead(c) \/ CreateSupersede(c) \/ CreateInsert(c)
    \/ ConnectRead(c) \/ ConnectMark(c) \/ ConnectExpire(c) \/ DropCall(c)

-----------------------------------------------------------------------------
(* The phones.                                                             *)

\* assertSocketJoin of a phone: its room hears that it is connected.
JoinMobile(p) ==
  LET s == phone[p].session IN
  /\ phone[p].at = "joining" /\ phone[p].up
  /\ IF Expired[s].status = "CONNECTED" /\ Expired[s].live
     THEN /\ desk' = Told(s, "CONNECTED")
          /\ phone' = [phone EXCEPT ![p].at = "ready"]
     ELSE desk' = desk /\ phone' = [phone EXCEPT ![p].at = "idle"]
  /\ session' = Expired
  /\ UNCHANGED <<calls, sweeping, scene>>

Driving(p) == phone[p].at = "ready" /\ phone[p].up

\* recordHeartbeat.
Heartbeat(p) ==
  LET s == phone[p].session IN
  /\ Driving(p)
  /\ session[s].status = "CONNECTED" /\ session[s].live
  /\ session' = [session EXCEPT ![s].seen = TRUE, ![s].live = TRUE]
  /\ UNCHANGED <<desk, phone, calls, sweeping, scene>>

\* submitBarcode: a scan counts as a sign of life, unless the phone has been
\* silent for too long; then it is disconnected.
SubmitBarcode(p) ==
  LET s == phone[p].session IN
  /\ Driving(p)
  /\ session[s].status = "CONNECTED" /\ session[s].live
  /\ session' = IF session[s].seen THEN session ELSE Disconnected(s)
  /\ UNCHANGED <<desk, phone, calls, sweeping, scene>>

\* The phone loses the network, or is put away.
GoSilent(p) ==
  /\ Happens("silent") /\ phone[p].up
  /\ phone' = [phone EXCEPT ![p].up = FALSE]
  /\ UNCHANGED <<session, desk, calls, sweeping, scene>>

\* It is back, and joins its room again without the API.
ComeBack(p) ==
  /\ ~phone[p].up
  /\ phone' = [phone EXCEPT ![p].up = TRUE,
                            ![p].at = IF @ = "ready" THEN "joining" ELSE @]
  /\ UNCHANGED <<session, desk, calls, sweeping, scene>>

PhoneNext ==
  \E p \in scene.phones :
    \/ AskConnect(p) \/ JoinMobile(p) \/ Heartbeat(p) \/ SubmitBarcode(p)
    \/ GoSilent(p) \/ ComeBack(p)

-----------------------------------------------------------------------------
(* The desktops.                                                           *)

\* A session that is shown is joined: assertSocketJoin of a desktop.
JoinDesktop(d) ==
  LET s == desk[d].shown IN
  /\ Happens("watch") /\ s # None /\ desk[d].room # s
  /\ Expired[s].status \in Open \cup {"DISCONNECTED"} /\ Expired[s].live
  /\ desk' = [desk EXCEPT ![d].room = s, ![d].status = Expired[s].status]
  /\ session' = Expired
  /\ UNCHANGED <<phone, calls, sweeping, scene>>

\* Faulty Polls: once a phone is connected the room will tell.
PollsPending(d) == desk[d].poll = "due" \/ desk[d].status = "PENDING"

Polls(d) == desk[d].poll = "due" \/ desk[d].status \in Open

\* getActiveSession, every three seconds while a session is open.
PollAsk(d) ==
  LET s == ActiveSession(Expired) IN
  /\ Happens("watch") /\ desk[d].poll # "asked" /\ Polls(d)
  /\ desk' = [desk EXCEPT ![d].poll = "asked",
                          ![d].answer = IF s = None THEN NoAnswer
                                        ELSE <<s, Expired[s].status>>]
  /\ session' = Expired
  /\ UNCHANGED <<phone, calls, sweeping, scene>>

\* The answer replaces what the cache holds, however old it is by now.
PollAnswer(d) ==
  /\ desk[d].poll = "asked"
  /\ desk' = [desk EXCEPT ![d].poll = "none", ![d].answer = NoAnswer,
                          ![d].shown = desk[d].answer[1], ![d].status = desk[d].answer[2]]
  /\ UNCHANGED <<session, phone, calls, sweeping, scene>>

\* disconnect: the operator leaves the station, or presses disconnect; the
\* session is asked for again, once for each time.
Release(d) ==
  /\ Happens("release")
  /\ desk[d].status \in Open /\ desk[d].poll = "none"
  /\ session' = Disconnected(desk[d].shown)
  /\ desk' = [desk EXCEPT ![d].poll = "due"]
  /\ UNCHANGED <<phone, calls, sweeping, scene>>

\* The page is reloaded.
Reload(d) ==
  /\ Happens("reload")
  /\ desk' = [desk EXCEPT ![d] = [shown |-> None, status |-> "none", room |-> None,
                                  poll |-> "due", answer |-> NoAnswer]]
  /\ UNCHANGED <<session, phone, calls, sweeping, scene>>

DesktopNext ==
  \E d \in scene.desktops :
    \/ AskPairing(d) \/ JoinDesktop(d) \/ PollAsk(d) \/ PollAnswer(d)
    \/ Release(d) \/ Reload(d)

-----------------------------------------------------------------------------
(* Time, and the two sweeps of the socket server.                          *)

\* Fifteen seconds without a heartbeat.
Silence(s) ==
  /\ Happens("time") /\ session[s].seen
  /\ \A p \in Phones : ~(Driving(p) /\ phone[p].session = s)
  /\ session' = [session EXCEPT ![s].seen = FALSE]
  /\ UNCHANGED <<desk, phone, calls, sweeping, scene>>

\* Ten minutes for a QR code, thirty since the last heartbeat.
RunOut(s) ==
  /\ Happens("time") /\ session[s].live /\ ~session[s].seen
  /\ session' = [session EXCEPT ![s].live = FALSE]
  /\ UNCHANGED <<desk, phone, calls, sweeping, scene>>

ExpireStale ==
  /\ Expired # session
  /\ session' = Expired
  /\ UNCHANGED <<desk, phone, calls, sweeping, scene>>

\* Somebody is in the room of s.
Watched(s) ==
  \/ \E d \in Desktops : desk[d].room = s
  \/ \E p \in Phones : Driving(p) /\ phone[p].session = s

\* markScannerStale reads the session ...
SweepRead(s) ==
  /\ Watched(s) /\ s \notin sweeping
  /\ session[s].status = "CONNECTED" /\ ~session[s].seen
  /\ sweeping' = sweeping \cup {s}
  /\ UNCHANGED <<session, desk, phone, calls, scene>>

\* ... and disconnects it.
SweepWrite(s) ==
  /\ s \in sweeping
  /\ session' = Disconnected(s)
  /\ sweeping' = sweeping \ {s}
  /\ UNCHANGED <<desk, phone, calls, scene>>

\* The room of a session that is over hears of it.
SweepTell(s) ==
  /\ Watched(s) /\ session[s].status \in {"DISCONNECTED", "EXPIRED"}
  /\ desk' = Told(s, session[s].status)
  /\ UNCHANGED <<session, phone, calls, sweeping, scene>>

SweepNext ==
  \/ ExpireStale
  \/ \E s \in Sessions : Silence(s) \/ RunOut(s) \/ SweepRead(s) \/ SweepWrite(s)
                         \/ SweepTell(s)

Next == ApiNext \/ PhoneNext \/ DesktopNext \/ SweepNext

Spec == Init /\ [][Next]_vars

\* Time passes, the sweeps run on timers, the desktops poll.
TimerFairness ==
  /\ WF_vars(ExpireStale)
  /\ \A s \in Sessions : /\ WF_vars(RunOut(s)) /\ WF_vars(SweepRead(s))
                         /\ WF_vars(SweepWrite(s)) /\ WF_vars(SweepTell(s))
  /\ \A d \in Desktops : /\ WF_vars(d \in scene.desktops /\ PollAsk(d))
                         /\ WF_vars(PollAnswer(d))

FairSpec == Spec /\ TimerFairness

-----------------------------------------------------------------------------
\* Two phones that both connected with a fresh code, to the end of their
\* requests, are never connected side by side, in whatever order the
\* statements of creating and connecting requests interleave and wherever they
\* are cut off.  A session resumed after a disconnect is the exception.
FreshPairingIsSole ==
  \A s, t \in Sessions :
    /\ session[s].status = "CONNECTED" /\ session[s].sole
    /\ session[t].status = "CONNECTED" /\ session[t].sole
    => s = t

\* A phone that has gone silent does not stay connected: its session is
\* disconnected by the sweep of its room, or expires when nobody is there.
SilentPhonesDrop ==
  \A s \in Sessions : []<>(session[s].status # "CONNECTED" \/ session[s].seen)

\* A desktop does not go on showing a phone as connected whose session is over,
\* whichever of poll and room has told it what last.
DesktopLearns ==
  \A d \in Desktops :
    []<>(desk[d].status = "CONNECTED" => session[desk[d].shown].status = "CONNECTED")

\* "One active PENDING/CONNECTED session per user; creating a new session
\* expires the previous."
OneActiveSession ==
  calls = {} =>
    Cardinality({s \in Sessions : session[s].status \in Open /\ session[s].live}) <= 1

\* "Expired sessions cannot reconnect - generate a new QR on desktop."
ExpiredStaysOver ==
  [][\A s \in Sessions : session[s].status = "EXPIRED" => session'[s].status = "EXPIRED"]_vars
=============================================================================
