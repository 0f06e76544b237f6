---------------------------- MODULE PairingProofs ----------------------------
(***************************************************************************)
(* Proofs about scanner pairing, for any desktops, phones and sessions and *)
(* for every scene: the types, and that two phones whose fresh codes were  *)
(* connected to the end are never connected side by side.                  *)
(***************************************************************************)
EXTENDS Pairing, WellFoundedInduction, TLAPS

\* The phone has opened the link of a session.
Linked(p) == phone[p].session \in Sessions

\* A request works for whoever sent it: a desktop creates, a phone connects,
\* and a phone connects to a session that exists.
CallInv ==
  \A c \in calls :
    /\ c.op = "create" => c.by \in Desktops
    /\ c.op = "connect" => c.by \in Phones /\ c.session \in Sessions /\ Linked(c.by)

\* A phone on its way into a room has a session.
PhoneInv ==
  \A p \in Phones : phone[p].at # "idle" => Linked(p)

PairingInv == TypeOK /\ CallInv /\ PhoneInv

-----------------------------------------------------------------------------
(* Operators on the table.                                                 *)

LEMMA ExpiredType ==
  ASSUME session \in [Sessions -> Session]
  PROVE  /\ Expired \in [Sessions -> Session]
         /\ \A s \in Sessions : /\ Expired[s].sole = session[s].sole
                                /\ Expired[s].status \in {session[s].status, "EXPIRED"}
BY DEF Expired, Session, Statuses

LEMMA OthersExpiredType ==
  ASSUME session \in [Sessions -> Session], NEW keep
  PROVE  /\ OthersExpired(keep) \in [Sessions -> Session]
         /\ \A s \in Sessions :
              /\ OthersExpired(keep)[s].sole = session[s].sole
              /\ OthersExpired(keep)[s].status \in {session[s].status, "EXPIRED"}
              /\ s # keep => OthersExpired(keep)[s].status # "CONNECTED"
              /\ s = keep => OthersExpired(keep)[s] = session[s]
BY DEF OthersExpired, Superseded, Open, Session, Statuses

LEMMA DisconnectedType ==
  ASSUME session \in [Sessions -> Session], NEW s
  PROVE  /\ Disconnected(s) \in [Sessions -> Session]
         /\ \A t \in Sessions : /\ Disconnected(s)[t].sole = session[t].sole
                                /\ Disconnected(s)[t].status \in
                                     {session[t].status, "DISCONNECTED"}
BY DEF Disconnected, Session, Statuses

LEMMA ActiveSessionType ==
  ASSUME NEW rows PROVE ActiveSession(rows) \in Sessions \cup {None}
<1> DEFINE active == {s \in Sessions : rows[s].status \in Open /\ rows[s].live}
<1>1. CASE active = {}
  BY <1>1 DEF ActiveSession
<1>2. CASE active # {}
  <2> DEFINE bounds == {n \in Nat : \A t \in active : t <= n}
  <2>1. active \subseteq Nat /\ active \subseteq Sessions /\ MaxSessions \in bounds
    BY PairingAssumption DEF Sessions
  <2>2. PICK n \in bounds : \A m \in bounds : n <= m
    <3>1. bounds \in SUBSET Nat /\ bounds # {}
      BY <2>1
    <3> HIDE DEF bounds
    <3>2. PICK n \in bounds : \A m \in bounds : ~(<<m, n>> \in OpToRel(<, Nat))
      BY <3>1, WFMin, NatLessThanWellFounded
    <3>3. ASSUME NEW m \in bounds PROVE n <= m
      <4>1. m \in Nat /\ n \in Nat
        BY <3>1
      <4>2. m < n => <<m, n>> \in OpToRel(<, Nat)
        BY <4>1 DEF OpToRel
      <4>3. ~(m < n)
        BY <3>2, <4>2, Zenon
      <4> QED
        BY <4>1, <4>3
    <3> QED
      BY <3>2, <3>3
  <2>3. n \in active
    <3> SUFFICES ASSUME n \notin active PROVE FALSE
      OBVIOUS
    <3>1. \A t \in active : t < n
      BY <2>1, <2>2
    <3>2. n # 0
      BY <1>2, <2>1, <3>1
    <3>3. n - 1 \in bounds
      BY <2>1, <2>2, <3>1, <3>2
    <3> QED
      BY <2>2, <3>3
  <2>4. \E s \in active : \A t \in active : t <= s
    BY <2>2, <2>3
  <2>5. ActiveSession(rows) = CHOOSE s \in active : \A t \in active : t <= s
    BY <1>2 DEF ActiveSession
  <2> HIDE DEF active
  <2> QED
    BY <2>1, <2>4, <2>5
<1> QED
  BY <1>1, <1>2

LEMMA ToldType ==
  ASSUME desk \in [Desktops -> Desk], NEW s \in Sessions, NEW status \in Statuses
  PROVE  Told(s, status) \in [Desktops -> Desk]
BY ZenonT(60) DEF Told, Desk

-----------------------------------------------------------------------------
(* The steps.  All but one connect no session with sole set.               *)

Fresh(s) == session[s].status = "CONNECTED" /\ session[s].sole

FreshOnlyBefore == \A s \in Sessions : Fresh(s)' => Fresh(s)

LEMMA FreshLeft ==
  ASSUME session \in [Sessions -> Session], NEW rows, session' = rows,
         \A s \in Sessions : /\ rows[s].sole = session[s].sole
                             /\ rows[s].status = "CONNECTED" => session[s].status = "CONNECTED"
  PROVE  FreshOnlyBefore
BY DEF FreshOnlyBefore, Fresh

\* The rows of a request that goes on.
LEMMA CallMoves ==
  ASSUME PairingInv, \A p \in Phones : Linked(p) => Linked(p)',
         NEW c \in calls, NEW d, calls' = (calls \ {c}) \cup {d},
         d \in Call, d.op = c.op, d.by = c.by,
         d.op = "connect" => d.session = c.session
  PROVE  calls' \subseteq Call /\ CallInv'
BY DEF PairingInv, TypeOK, CallInv

LEMMA CallEnds ==
  ASSUME PairingInv, \A p \in Phones : Linked(p) => Linked(p)', calls' \subseteq calls
  PROVE  calls' \subseteq Call /\ CallInv'
BY DEF PairingInv, TypeOK, CallInv

\* A request that is sent is alone: nobody has two under way.
LEMMA CallSent ==
  ASSUME PairingInv, \A p \in Phones : Linked(p) => Linked(p)', NEW op, NEW who, NEW s,
         calls' = calls \cup {Request(op, who, s)},
         \/ op = "create" /\ who \in Desktops /\ s = None
         \/ op = "connect" /\ who \in Phones /\ s \in Sessions /\ Linked(who)'
  PROVE  calls' \subseteq Call /\ CallInv'
<1>1. /\ Request(op, who, s) \in Call /\ Request(op, who, s).op = op
      /\ Request(op, who, s).by = who /\ Request(op, who, s).session = s
  BY DEF Request, Call, Statuses
<1>2. CallInv'
  BY <1>1 DEF PairingInv, CallInv
<1> QED
  BY <1>1, <1>2 DEF PairingInv, TypeOK

LEMMA CallType ==
  ASSUME PairingInv, NEW c \in calls
  PROVE  /\ c \in Call
         /\ c.op = "create" => c.by \in Desktops
         /\ c.op = "connect" => c.by \in Phones /\ c.session \in Sessions /\ Linked(c.by)
BY DEF PairingInv, TypeOK, CallInv

LEMMA PhonesLeft ==
  ASSUME phone' = phone
  PROVE  \A p \in Phones : Linked(p) => Linked(p)'
BY DEF Linked

LEMMA AskPairingInv ==
  ASSUME PairingInv, NEW d \in Desktops, AskPairing(d)
  PROVE  PairingInv' /\ FreshOnlyBefore
<1>1. calls' \subseteq Call /\ CallInv'
  BY CallSent, PhonesLeft DEF AskPairing
<1>2. FreshOnlyBefore
  BY FreshLeft DEF AskPairing, PairingInv, TypeOK
<1> QED
  BY <1>1, <1>2 DEF AskPairing, PairingInv, TypeOK, PhoneInv, Linked

LEMMA CreateInv ==
  ASSUME PairingInv, NEW c \in calls, CreateRead(c) \/ CreateSupersede(c)
  PROVE  PairingInv' /\ FreshOnlyBefore
<1>0. session \in [Sessions -> Session] /\ c \in Call
  BY CallType DEF PairingInv, TypeOK
<1>1. CASE CreateRead(c)
  <2> DEFINE d == [c EXCEPT !.step = "read", !.session = ActiveSession(Expired)]
  <2>1. ActiveSession(Expired) \in Sessions \cup {None}
    BY ActiveSessionType
  <2>2. d \in Call /\ d.op = c.op /\ d.by = c.by /\ d.op # "connect"
    BY <1>0, <1>1, <2>1 DEF Call, CreateRead
  <2>3. calls' = (calls \ {c}) \cup {d}
    BY <1>1 DEF CreateRead
  <2> HIDE DEF d
  <2>4. calls' \subseteq Call /\ CallInv'
    BY <1>1, <2>2, <2>3, CallMoves, PhonesLeft DEF CreateRead
  <2>5. session' = Expired
    BY <1>1 DEF CreateRead
  <2>6. session' \in [Sessions -> Session] /\ FreshOnlyBefore
    BY <1>0, <2>5, ExpiredType, FreshLeft
  <2> QED
    BY <1>1, <2>4, <2>6 DEF CreateRead, PairingInv, TypeOK, PhoneInv, Linked
<1>2. CASE CreateSupersede(c)
  <2> DEFINE d == [c EXCEPT !.session = None]
  <2>2. d \in Call /\ d.op = c.op /\ d.by = c.by /\ d.op # "connect"
    BY <1>0, <1>2 DEF Call, CreateSupersede
  <2>3. calls' = (calls \ {c}) \cup {d}
    BY <1>2 DEF CreateSupersede
  <2> HIDE DEF d
  <2>4. calls' \subseteq Call /\ CallInv'
    BY <1>2, <2>2, <2>3, CallMoves, PhonesLeft DEF CreateSupersede
  <2>5. session' = OthersExpired(None)
    BY <1>2 DEF CreateSupersede
  <2>6. session' \in [Sessions -> Session] /\ FreshOnlyBefore
    BY <1>0, <2>5, OthersExpiredType, FreshLeft
  <2> QED
    BY <1>2, <2>4, <2>6 DEF CreateSupersede, PairingInv, TypeOK, PhoneInv, Linked
<1> QED
  BY <1>1, <1>2

LEMMA CreateInsertInv ==
  ASSUME PairingInv, NEW c \in calls, CreateInsert(c)
  PROVE  PairingInv' /\ FreshOnlyBefore
<1>0. session \in [Sessions -> Session] /\ desk \in [Desktops -> Desk]
  BY DEF PairingInv, TypeOK
<1>1. PICK s \in Sessions :
        /\ session' = [session EXCEPT ![s].status = "PENDING", ![s].live = TRUE]
        /\ desk' = [desk EXCEPT ![c.by].shown = s, ![c.by].status = "PENDING"]
        /\ calls' = calls \ {c}
        /\ UNCHANGED <<phone, sweeping, scene>>
  BY DEF CreateInsert
<1>2. calls' \subseteq Call /\ CallInv'
  BY <1>1, CallEnds, PhonesLeft
<1>3. session' \in [Sessions -> Session]
  BY <1>0, <1>1 DEF Session, Statuses
<1>5. desk' \in [Desktops -> Desk]
  <2>1. ASSUME NEW d \in Desktops
        PROVE  [desk[d] EXCEPT !.shown = s, !.status = "PENDING"] \in Desk
    <3>1. desk[d] \in Desk /\ "PENDING" \in Statuses
      BY <1>0 DEF Statuses
    <3>2. \A e \in Desk : [e EXCEPT !.shown = s] \in Desk
      BY DEF Desk
    <3>3. \A e \in Desk : [e EXCEPT !.status = "PENDING"] \in Desk
      BY <3>1 DEF Desk
    <3> QED
      BY <3>1, <3>2, <3>3
  <2>2. desk' = [d \in Desktops |-> IF d = c.by
                   THEN [desk[d] EXCEPT !.shown = s, !.status = "PENDING"] ELSE desk[d]]
    BY <1>0, <1>1
  <2> QED
    BY <1>0, <2>1, <2>2
<1>4. FreshOnlyBefore
  BY <1>0, <1>1 DEF FreshOnlyBefore, Fresh, Session
<1> QED
  BY <1>1, <1>2, <1>3, <1>4, <1>5 DEF PairingInv, TypeOK, PhoneInv, Linked

LEMMA AskConnectInv ==
  ASSUME PairingInv, NEW p \in Phones, AskConnect(p)
  PROVE  PairingInv' /\ FreshOnlyBefore
<1>0. session \in [Sessions -> Session] /\ phone \in [Phones -> Phone]
  BY DEF PairingInv, TypeOK
<1>1. PICK s \in Sessions :
        /\ phone' = [phone EXCEPT ![p].session = s, ![p].at = "connecting"]
        /\ calls' = calls \cup {Request("connect", p, s)}
        /\ UNCHANGED <<session, desk, sweeping, scene>>
  BY DEF AskConnect
<1>5. Linked(p)' /\ \A q \in Phones : Linked(q) => Linked(q)'
  BY <1>0, <1>1 DEF Linked, Phone
<1>2. calls' \subseteq Call /\ CallInv'
  BY <1>1, <1>5, CallSent
<1>3. phone' \in [Phones -> Phone] /\ PhoneInv'
  BY <1>0, <1>1 DEF Phone, PairingInv, PhoneInv, Linked
<1>4. FreshOnlyBefore
  BY <1>0, <1>1, FreshLeft
<1> QED
  BY <1>1, <1>2, <1>3, <1>4 DEF PairingInv, TypeOK

LEMMA ConnectReadInv ==
  ASSUME PairingInv, NEW c \in calls, ConnectRead(c)
  PROVE  PairingInv' /\ FreshOnlyBefore
<1> DEFINE d == [c EXCEPT !.step = "read", !.status = Expired[c.session].status,
                          !.live = Expired[c.session].live]
<1>0. /\ session \in [Sessions -> Session] /\ c \in Call /\ c.session \in Sessions
      /\ c.op = "connect"
  BY CallType DEF PairingInv, TypeOK, ConnectRead
<1>1. Expired[c.session] \in Session
  BY <1>0, ExpiredType
<1>2. Expired[c.session].status \in Statuses /\ Expired[c.session].live \in BOOLEAN
  BY <1>1 DEF Session
<1>3. d \in Call /\ d.op = c.op /\ d.by = c.by /\ d.session = c.session
  BY <1>0, <1>2 DEF Call
<1>4. calls' = (calls \ {c}) \cup {d} /\ session' = Expired
  BY DEF ConnectRead
<1> HIDE DEF d
<1>5. calls' \subseteq Call /\ CallInv'
  BY <1>3, <1>4, CallMoves, PhonesLeft DEF ConnectRead
<1>6. session' \in [Sessions -> Session] /\ FreshOnlyBefore
  BY <1>0, <1>4, ExpiredType, FreshLeft
<1> QED
  BY <1>5, <1>6 DEF ConnectRead, PairingInv, TypeOK, PhoneInv, Linked

\* A session that becomes connected is not sole; one that was keeps its mark.
LEMMA ConnectMarkInv ==
  ASSUME PairingInv, NEW c \in calls, ConnectMark(c)
  PROVE  PairingInv' /\ FreshOnlyBefore
<1> DEFINE s == c.session
<1>0. /\ session \in [Sessions -> Session] /\ phone \in [Phones -> Phone]
      /\ c \in Call /\ s \in Sessions /\ c.by \in Phones /\ c.op = "connect"
      /\ Linked(c.by)
  BY CallType DEF PairingInv, TypeOK, ConnectMark
<1>1. CASE Connects(c)
  <2>1. session' = [session EXCEPT
               ![s].status = IF c.status = "CONNECTED" THEN session[s].status ELSE "CONNECTED",
               ![s].live = TRUE, ![s].seen = TRUE,
               ![s].sole = IF c.status = "CONNECTED" THEN session[s].sole ELSE FALSE]
    BY <1>1 DEF ConnectMark
  <2>2. /\ phone' = [phone EXCEPT ![c.by].at = "joining"]
        /\ calls' = IF c.status = "PENDING" THEN Moved(c, "marked") ELSE calls \ {c}
    BY <1>1 DEF ConnectMark
  <2>3. session'[s] = [status |-> IF c.status = "CONNECTED" THEN session[s].status
                                  ELSE "CONNECTED",
                       live |-> TRUE, seen |-> TRUE,
                       sole |-> IF c.status = "CONNECTED" THEN session[s].sole ELSE FALSE]
    <3>1. session[s] \in Session
      BY <1>0
    <3> QED
      BY <1>0, <2>1, <3>1 DEF Session
  <2>4. session' = [t \in Sessions |-> IF t = s THEN session'[s] ELSE session[t]]
    BY <1>0, <2>1
  <2>10. session[s] \in Session /\ "CONNECTED" \in Statuses
    BY <1>0 DEF Statuses
  <2>5. /\ session'[s] \in Session
        /\ session'[s].status = "CONNECTED" /\ session'[s].sole
             => session[s].status = "CONNECTED" /\ session[s].sole
    <3>1. CASE c.status = "CONNECTED"
      <4>1. session'[s] = [status |-> session[s].status, live |-> TRUE, seen |-> TRUE,
                           sole |-> session[s].sole]
        BY <2>3, <3>1
      <4> QED
        BY <2>10, <4>1 DEF Session
    <3>2. CASE c.status # "CONNECTED"
      <4>1. session'[s] = [status |-> "CONNECTED", live |-> TRUE, seen |-> TRUE,
                           sole |-> FALSE]
        BY <2>3, <3>2
      <4> QED
        BY <2>10, <4>1 DEF Session
    <3> QED
      BY <3>1, <3>2
  <2>6. session' \in [Sessions -> Session]
    BY <1>0, <2>4, <2>5
  <2>7. FreshOnlyBefore
    <3> SUFFICES ASSUME NEW t \in Sessions, Fresh(t)' PROVE Fresh(t)
      BY DEF FreshOnlyBefore
    <3> QED
      BY <2>4, <2>5 DEF Fresh
  <2>13. \A p \in Phones : Linked(p) => Linked(p)'
    BY <1>0, <2>2 DEF Linked, Phone
  <2>8. calls' \subseteq Call /\ CallInv'
    <3>1. CASE c.status = "PENDING"
      <4> DEFINE d == [c EXCEPT !.step = "marked"]
      <4>1. d \in Call /\ d.op = c.op /\ d.by = c.by /\ d.session = c.session
        BY <1>0 DEF Call
      <4>2. calls' = (calls \ {c}) \cup {d}
        BY <2>2, <3>1 DEF Moved
      <4> HIDE DEF d
      <4> QED
        BY <4>1, <2>13, <4>2, CallMoves
    <3>2. CASE c.status # "PENDING"
      BY <2>2, <2>13, <3>2, CallEnds
    <3> QED
      BY <3>1, <3>2
  <2>9. phone' \in [Phones -> Phone] /\ PhoneInv'
    <3>1. \A p \in Phones : /\ phone'[p] = IF p = c.by THEN [phone[p] EXCEPT !.at = "joining"]
                                            ELSE phone[p]
                            /\ phone[p] \in Phone
      BY <1>0, <2>2
    <3>2. phone' \in [Phones -> Phone]
      BY <1>0, <2>2 DEF Phone
    <3>3. PhoneInv'
      BY <1>0, <2>13, <3>1 DEF PairingInv, PhoneInv, Phone
    <3> QED
      BY <3>2, <3>3
  <2> QED
    BY <2>6, <2>7, <2>8, <2>9 DEF ConnectMark, PairingInv, TypeOK
<1>2. CASE ~Connects(c)
  <2>1. /\ session' = session /\ phone' = [phone EXCEPT ![c.by].at = "idle"]
        /\ calls' = calls \ {c}
    BY <1>2 DEF ConnectMark
  <2>5. \A p \in Phones : Linked(p) => Linked(p)'
    BY <1>0, <2>1 DEF Linked, Phone
  <2>2. calls' \subseteq Call /\ CallInv'
    BY <2>1, <2>5, CallEnds
  <2>3. phone' \in [Phones -> Phone] /\ PhoneInv'
    BY <1>0, <2>1, <2>5 DEF Phone, PairingInv, PhoneInv
  <2>4. FreshOnlyBefore
    BY <1>0, <2>1, FreshLeft
  <2> QED
    BY <2>1, <2>2, <2>3, <2>4 DEF ConnectMark, PairingInv, TypeOK
<1> QED
  BY <1>1, <1>2

\* The session that gets the mark is the only one left connected.
LEMMA ConnectExpireInv ==
  ASSUME PairingInv, NEW c \in calls, ConnectExpire(c)
  PROVE  /\ PairingInv'
         /\ \A s, t \in Sessions : Fresh(s)' /\ Fresh(t)' => s = t
<1> DEFINE s == c.session
           rows == OthersExpired(s)
<1>0. session \in [Sessions -> Session] /\ s \in Sessions
  BY CallType DEF PairingInv, TypeOK, ConnectExpire
<1>1. session' = [rows EXCEPT ![s].sole = TRUE] /\ calls' = calls \ {c}
  BY DEF ConnectExpire
<1>2. /\ rows \in [Sessions -> Session]
      /\ \A t \in Sessions : t # s => rows[t].status # "CONNECTED"
  BY <1>0, OthersExpiredType
<1> HIDE DEF rows
<1>3. session' \in [Sessions -> Session]
  BY <1>1, <1>2 DEF Session
<1>4. \A t \in Sessions : t # s => session'[t].status # "CONNECTED"
  BY <1>1, <1>2
<1>5. calls' \subseteq Call /\ CallInv'
  BY <1>1, CallEnds, PhonesLeft DEF ConnectExpire
<1>6. PairingInv'
  BY <1>3, <1>5 DEF ConnectExpire, PairingInv, TypeOK, PhoneInv, Linked
<1> QED
  BY <1>4, <1>6 DEF Fresh

LEMMA DropCallInv ==
  ASSUME PairingInv, NEW c \in calls, DropCall(c)
  PROVE  PairingInv' /\ FreshOnlyBefore
<1>0. session \in [Sessions -> Session] /\ phone \in [Phones -> Phone]
  BY DEF PairingInv, TypeOK
<1>4. \A p \in Phones : Linked(p) => Linked(p)'
  BY <1>0 DEF DropCall, Linked, Phone
<1>1. calls' \subseteq Call /\ CallInv'
  BY <1>4, CallEnds DEF DropCall
<1>2. phone' \in [Phones -> Phone] /\ PhoneInv'
  BY <1>0, <1>4 DEF DropCall, Phone, PairingInv, PhoneInv
<1>3. FreshOnlyBefore
  BY <1>0, FreshLeft DEF DropCall
<1> QED
  BY <1>1, <1>2, <1>3 DEF DropCall, PairingInv, TypeOK

LEMMA JoinMobileInv ==
  ASSUME PairingInv, NEW p \in Phones, JoinMobile(p)
  PROVE  PairingInv' /\ FreshOnlyBefore
<1> DEFINE s == phone[p].session
<1>0. /\ session \in [Sessions -> Session] /\ desk \in [Desktops -> Desk]
      /\ phone \in [Phones -> Phone] /\ s \in Sessions
  BY DEF PairingInv, TypeOK, JoinMobile, PhoneInv, Linked
<1>1. session' = Expired /\ UNCHANGED <<calls, sweeping, scene>>
  BY DEF JoinMobile
<1>2. \/ desk' = Told(s, "CONNECTED") /\ phone' = [phone EXCEPT ![p].at = "ready"]
      \/ desk' = desk /\ phone' = [phone EXCEPT ![p].at = "idle"]
  BY DEF JoinMobile
<1>3. "CONNECTED" \in Statuses
  BY DEF Statuses
<1>4. desk' \in [Desktops -> Desk]
  BY <1>0, <1>2, <1>3, ToldType
<1>5. phone' \in [Phones -> Phone] /\ \A q \in Phones : phone'[q].session = phone[q].session
  BY <1>0, <1>2 DEF Phone
<1>6. PhoneInv' /\ \A q \in Phones : Linked(q) => Linked(q)'
  BY <1>0, <1>2, <1>5 DEF PairingInv, PhoneInv, Linked
<1>7. calls' \subseteq Call /\ CallInv'
  BY <1>1, <1>6, CallEnds
<1>8. session' \in [Sessions -> Session] /\ FreshOnlyBefore
  BY <1>0, <1>1, ExpiredType, FreshLeft
<1> QED
  BY <1>1, <1>4, <1>5, <1>6, <1>7, <1>8 DEF PairingInv, TypeOK

\* A step that moves the session rows only.
LEMMA RowsMove ==
  ASSUME PairingInv, session' \in [Sessions -> Session], UNCHANGED <<phone, calls, scene>>,
         desk' \in [Desktops -> Desk], sweeping' \subseteq Sessions
  PROVE  PairingInv'
<1>1. calls' \subseteq Call /\ CallInv'
  BY CallEnds, PhonesLeft
<1> QED
  BY <1>1 DEF PairingInv, TypeOK, PhoneInv, Linked

LEMMA HeartbeatInv ==
  ASSUME PairingInv, NEW p \in Phones, Heartbeat(p) \/ SubmitBarcode(p)
  PROVE  PairingInv' /\ FreshOnlyBefore
<1> DEFINE s == phone[p].session
<1>0. session \in [Sessions -> Session] /\ desk \in [Desktops -> Desk] /\ sweeping \subseteq Sessions
  BY DEF PairingInv, TypeOK
<1>1. UNCHANGED <<desk, phone, calls, sweeping, scene>>
  BY DEF Heartbeat, SubmitBarcode
<1>2. \/ session' = [session EXCEPT ![s].seen = TRUE, ![s].live = TRUE]
      \/ session' = session
      \/ session' = Disconnected(s)
  BY DEF Heartbeat, SubmitBarcode
<1>3. session' \in [Sessions -> Session] /\ FreshOnlyBefore
  <2>1. CASE session' = [session EXCEPT ![s].seen = TRUE, ![s].live = TRUE]
    BY ZenonT(60), <1>0, <2>1 DEF Session, FreshOnlyBefore, Fresh
  <2>2. CASE session' = session
    BY <1>0, <2>2, FreshLeft
  <2>3. CASE session' = Disconnected(s)
    BY <1>0, <2>3, DisconnectedType, FreshLeft
  <2> QED
    BY <1>2, <2>1, <2>2, <2>3
<1> QED
  BY <1>0, <1>1, <1>3, RowsMove

LEMMA SignalInv ==
  ASSUME PairingInv, NEW p \in Phones, GoSilent(p) \/ ComeBack(p)
  PROVE  PairingInv' /\ FreshOnlyBefore
<1>0. session \in [Sessions -> Session] /\ phone \in [Phones -> Phone]
  BY DEF PairingInv, TypeOK
<1>1. UNCHANGED <<session, desk, calls, sweeping, scene>>
  BY DEF GoSilent, ComeBack
<1>2. phone' = [phone EXCEPT ![p].up = FALSE]
      \/ phone' = [phone EXCEPT ![p].up = TRUE,
                     ![p].at = IF phone[p].at = "ready" THEN "joining" ELSE phone[p].at]
  BY DEF GoSilent, ComeBack
<1>3. phone' \in [Phones -> Phone]
  <2>1. CASE phone' = [phone EXCEPT ![p].up = FALSE]
    BY <1>0, <2>1 DEF Phone
  <2>2. CASE phone' = [phone EXCEPT ![p].up = TRUE,
                     ![p].at = IF phone[p].at = "ready" THEN "joining" ELSE phone[p].at]
    <3>1. CASE phone[p].at = "ready"
      BY <1>0, <2>2, <3>1 DEF Phone
    <3>2. CASE phone[p].at # "ready"
      BY <1>0, <2>2, <3>2 DEF Phone
    <3> QED
      BY <3>1, <3>2
  <2> QED
    BY <1>2, <2>1, <2>2
<1>4. \A q \in Phones : /\ phone'[q].session = phone[q].session
                        /\ phone'[q].at # "idle" => phone[q].at # "idle"
  BY <1>0, <1>2 DEF Phone
<1>5. PhoneInv' /\ \A q \in Phones : Linked(q) => Linked(q)'
  BY <1>4 DEF PairingInv, PhoneInv, Linked
<1>6. calls' \subseteq Call /\ CallInv'
  BY <1>1, <1>5, CallEnds
<1>7. FreshOnlyBefore
  BY <1>0, <1>1, FreshLeft
<1> QED
  BY <1>1, <1>3, <1>5, <1>6, <1>7 DEF PairingInv, TypeOK

LEMMA DeskFields ==
  ASSUME NEW e \in Desk, NEW s \in Sessions \cup {None}, NEW status \in Statuses,
         NEW poll \in {"none", "due", "asked"}
  PROVE  /\ [e EXCEPT !.room = s] \in Desk /\ [e EXCEPT !.shown = s] \in Desk
         /\ [e EXCEPT !.status = status] \in Desk /\ [e EXCEPT !.poll = poll] \in Desk
         /\ [e EXCEPT !.answer = <<s, status>>] \in Desk
         /\ e.answer = <<e.answer[1], e.answer[2]>>
         /\ e.answer[1] \in Sessions \cup {None} /\ e.answer[2] \in Statuses
BY DEF Desk

LEMMA JoinDesktopInv ==
  ASSUME PairingInv, NEW d \in Desktops, JoinDesktop(d)
  PROVE  PairingInv' /\ FreshOnlyBefore
<1> DEFINE s == desk[d].shown
<1>0. /\ session \in [Sessions -> Session] /\ desk \in [Desktops -> Desk]
      /\ sweeping \subseteq Sessions
  BY DEF PairingInv, TypeOK
<1>1. session' = Expired /\ UNCHANGED <<phone, calls, sweeping, scene>>
  BY DEF JoinDesktop
<1>2. desk[d] \in Desk /\ s \in Sessions
  BY <1>0 DEF JoinDesktop, Desk
<1>3. Expired \in [Sessions -> Session] /\ Expired[s].status \in Statuses
  BY <1>0, <1>2, ExpiredType DEF Session
<1> DEFINE f == [desk[d] EXCEPT !.room = s]
           e == [f EXCEPT !.status = Expired[s].status]
<1>4. desk' = [desk EXCEPT ![d] = e]
  BY <1>0 DEF JoinDesktop
<1>5. f \in Desk
  BY <1>2, <1>3, DeskFields
<1> HIDE DEF f
<1>6. e \in Desk
  BY <1>3, <1>5, DeskFields
<1> HIDE DEF e
<1>7. desk' \in [Desktops -> Desk]
  BY <1>0, <1>4, <1>6
<1>8. session' \in [Sessions -> Session] /\ FreshOnlyBefore
  BY <1>0, <1>1, ExpiredType, FreshLeft
<1> QED
  BY <1>0, <1>1, <1>7, <1>8, RowsMove

LEMMA PollInv ==
  ASSUME PairingInv, NEW d \in Desktops, PollAsk(d) \/ PollAnswer(d)
  PROVE  PairingInv' /\ FreshOnlyBefore
<1>0. /\ session \in [Sessions -> Session] /\ desk \in [Desktops -> Desk]
      /\ sweeping \subseteq Sessions /\ desk[d] \in Desk
  BY DEF PairingInv, TypeOK
<1>1. "none" \in Statuses /\ None \in Sessions \cup {None}
  BY DEF Statuses
<1>2. CASE PollAsk(d)
  <2> DEFINE s == ActiveSession(Expired)
             a == IF s = None THEN NoAnswer ELSE <<s, Expired[s].status>>
             f == [desk[d] EXCEPT !.poll = "asked"]
             e == [f EXCEPT !.answer = a]
  <2>1. session' = Expired /\ UNCHANGED <<phone, calls, sweeping, scene>>
    BY <1>2 DEF PollAsk
  <2>2. desk' = [desk EXCEPT ![d] = e]
    BY <1>0, <1>2 DEF PollAsk
  <2>3. s \in Sessions \cup {None}
    BY ActiveSessionType
  <2>4. \E t \in Sessions \cup {None}, status \in Statuses : a = <<t, status>>
    <3>1. CASE s = None
      BY <1>1, <3>1 DEF NoAnswer
    <3>2. CASE s # None
      <4>1. Expired[s].status \in Statuses
        BY <1>0, <2>3, <3>2, ExpiredType DEF Session
      <4>2. a = <<s, Expired[s].status>>
        BY <3>2
      <4> HIDE DEF a, s
      <4> QED
        BY <2>3, <4>1, <4>2
    <3> QED
      BY <3>1, <3>2
  <2>5. f \in Desk
    BY <1>0, <1>1, DeskFields
  <2> HIDE DEF a, f
  <2>6. e \in Desk
    BY <2>4, <2>5, DeskFields
  <2> HIDE DEF e
  <2>7. desk' \in [Desktops -> Desk]
    BY <1>0, <2>2, <2>6
  <2>8. session' \in [Sessions -> Session] /\ FreshOnlyBefore
    BY <1>0, <2>1, ExpiredType, FreshLeft
  <2> QED
    BY <1>0, <2>1, <2>7, <2>8, RowsMove
<1>3. CASE PollAnswer(d)
  <2> DEFINE f == [desk[d] EXCEPT !.poll = "none"]
             g == [f EXCEPT !.answer = NoAnswer]
             h == [g EXCEPT !.shown = desk[d].answer[1]]
             e == [h EXCEPT !.status = desk[d].answer[2]]
  <2>1. UNCHANGED <<session, phone, calls, sweeping, scene>>
    BY <1>3 DEF PollAnswer
  <2>2. desk' = [desk EXCEPT ![d] = e]
    BY <1>0, <1>3 DEF PollAnswer
  <2>3. desk[d].answer[1] \in Sessions \cup {None} /\ desk[d].answer[2] \in Statuses
    BY <1>0, <1>1, DeskFields
  <2>4. f \in Desk
    BY <1>0, <1>1, DeskFields
  <2> HIDE DEF f
  <2>5. g \in Desk
    BY <1>1, <2>4, DeskFields DEF NoAnswer
  <2> HIDE DEF g
  <2>6. h \in Desk
    BY <1>1, <2>3, <2>5, DeskFields
  <2> HIDE DEF h
  <2>7. e \in Desk
    BY <1>1, <2>3, <2>6, DeskFields
  <2> HIDE DEF e
  <2>8. desk' \in [Desktops -> Desk]
    BY <1>0, <2>2, <2>7
  <2>9. FreshOnlyBefore
    BY <1>0, <2>1, FreshLeft
  <2> QED
    BY <1>0, <2>1, <2>8, <2>9, RowsMove
<1> QED
  BY <1>2, <1>3

LEMMA ReleaseInv ==
  ASSUME PairingInv, NEW d \in Desktops, Release(d) \/ Reload(d)
  PROVE  PairingInv' /\ FreshOnlyBefore
<1>0. /\ session \in [Sessions -> Session] /\ desk \in [Desktops -> Desk]
      /\ sweeping \subseteq Sessions
  BY DEF PairingInv, TypeOK
<1>1. UNCHANGED <<phone, calls, sweeping, scene>>
  BY DEF Release, Reload
<1>2. CASE Release(d)
  <2>1. session' = Disconnected(desk[d].shown) /\ desk' = [desk EXCEPT ![d].poll = "due"]
    BY <1>2 DEF Release
  <2>2. desk' \in [Desktops -> Desk]
    BY <1>0, <2>1 DEF Desk
  <2>3. session' \in [Sessions -> Session] /\ FreshOnlyBefore
    BY <1>0, <2>1, DisconnectedType, FreshLeft
  <2> QED
    BY <1>0, <1>1, <2>2, <2>3, RowsMove
<1>3. CASE Reload(d)
  <2>1. /\ session' = session
        /\ desk' = [desk EXCEPT ![d] = [shown |-> None, status |-> "none", room |-> None,
                                        poll |-> "due", answer |-> NoAnswer]]
    BY <1>3 DEF Reload
  <2>2. [shown |-> None, status |-> "none", room |-> None,
         poll |-> "due", answer |-> NoAnswer] \in Desk
    BY DEF Desk, NoAnswer, Statuses
  <2>3. desk' \in [Desktops -> Desk]
    BY <1>0, <2>1, <2>2
  <2>4. FreshOnlyBefore
    BY <1>0, <2>1, FreshLeft
  <2> QED
    BY <1>0, <1>1, <2>1, <2>3, <2>4, RowsMove
<1> QED
  BY <1>2, <1>3

LEMMA TimeInv ==
  ASSUME PairingInv, NEW s \in Sessions, Silence(s) \/ RunOut(s)
  PROVE  PairingInv' /\ FreshOnlyBefore
<1>0. /\ session \in [Sessions -> Session] /\ desk \in [Desktops -> Desk]
      /\ sweeping \subseteq Sessions
  BY DEF PairingInv, TypeOK
<1>1. UNCHANGED <<desk, phone, calls, sweeping, scene>>
  BY DEF Silence, RunOut
<1>2. \/ session' = [session EXCEPT ![s].seen = FALSE]
      \/ session' = [session EXCEPT ![s].live = FALSE]
  BY DEF Silence, RunOut
<1>3. session' \in [Sessions -> Session]
  BY <1>0, <1>2 DEF Session
<1>4. \A t \in Sessions : /\ session'[t].status = session[t].status
                         /\ session'[t].sole = session[t].sole
  BY <1>0, <1>2 DEF Session
<1>5. FreshOnlyBefore
  BY <1>4 DEF FreshOnlyBefore, Fresh
<1> QED
  BY <1>0, <1>1, <1>3, <1>5, RowsMove

LEMMA ExpireStaleInv ==
  ASSUME PairingInv, ExpireStale
  PROVE  PairingInv' /\ FreshOnlyBefore
<1>0. /\ session \in [Sessions -> Session] /\ desk \in [Desktops -> Desk]
      /\ sweeping \subseteq Sessions
  BY DEF PairingInv, TypeOK
<1>1. session' = Expired /\ UNCHANGED <<desk, phone, calls, sweeping, scene>>
  BY DEF ExpireStale
<1>2. session' \in [Sessions -> Session] /\ FreshOnlyBefore
  BY <1>0, <1>1, ExpiredType, FreshLeft
<1> QED
  BY <1>0, <1>1, <1>2, RowsMove

LEMMA SweepInv ==
  ASSUME PairingInv, NEW s \in Sessions, SweepRead(s) \/ SweepWrite(s) \/ SweepTell(s)
  PROVE  PairingInv' /\ FreshOnlyBefore
<1>0. /\ session \in [Sessions -> Session] /\ desk \in [Desktops -> Desk]
      /\ sweeping \subseteq Sessions
  BY DEF PairingInv, TypeOK
<1>1. UNCHANGED <<phone, calls, scene>>
  BY DEF SweepRead, SweepWrite, SweepTell
<1>2. sweeping' \subseteq Sessions
  BY <1>0 DEF SweepRead, SweepWrite, SweepTell
<1>3. desk' \in [Desktops -> Desk]
  <2>1. session[s].status \in Statuses
    BY <1>0 DEF Session
  <2> QED
    BY <1>0, <2>1, ToldType DEF SweepRead, SweepWrite, SweepTell
<1>4. session' = session \/ session' = Disconnected(s)
  BY DEF SweepRead, SweepWrite, SweepTell
<1>5. session' \in [Sessions -> Session] /\ FreshOnlyBefore
  <2>2. CASE session' = session
    BY <1>0, <2>2, FreshLeft
  <2>3. CASE session' = Disconnected(s)
    BY <1>0, <2>3, DisconnectedType, FreshLeft
  <2> QED
    BY <1>4, <2>2, <2>3
<1> QED
  BY <1>0, <1>1, <1>2, <1>3, <1>5, RowsMove

-----------------------------------------------------------------------------
(* The invariant and the theorems.                                         *)

SoleInv == PairingInv /\ FreshPairingIsSole

LEMMA FreshStays ==
  ASSUME FreshPairingIsSole, FreshOnlyBefore
  PROVE  FreshPairingIsSole'
<1> SUFFICES ASSUME NEW s \in Sessions, NEW t \in Sessions, Fresh(s)', Fresh(t)'
             PROVE  s = t
  BY DEF FreshPairingIsSole, Fresh
<1>1. Fresh(s) /\ Fresh(t)
  BY DEF FreshOnlyBefore
<1> QED
  BY <1>1 DEF FreshPairingIsSole, Fresh

LEMMA InitSoleInv == Init => SoleInv
<1> SUFFICES ASSUME Init PROVE SoleInv
  OBVIOUS
<1>1. /\ [status |-> "none", live |-> FALSE, seen |-> FALSE, sole |-> FALSE] \in Session
      /\ [shown |-> None, status |-> "none", room |-> None,
          poll |-> "due", answer |-> NoAnswer] \in Desk
      /\ [session |-> None, at |-> "idle", up |-> TRUE] \in Phone
  BY DEF Session, Desk, Phone, Statuses, NoAnswer
<1>2. TypeOK
  BY <1>1 DEF Init, TypeOK
<1>3. CallInv /\ PhoneInv /\ FreshPairingIsSole
  BY DEF Init, CallInv, PhoneInv, FreshPairingIsSole
<1> QED
  BY <1>2, <1>3 DEF SoleInv, PairingInv

LEMMA NextSoleInv == SoleInv /\ [Next]_vars => SoleInv'
<1> SUFFICES ASSUME SoleInv, [Next]_vars PROVE SoleInv'
  OBVIOUS
<1>0. PairingInv /\ FreshPairingIsSole
  BY DEF SoleInv
<1>1. scene.desktops \subseteq Desktops /\ scene.phones \subseteq Phones
  BY <1>0, PairingAssumption DEF PairingInv, TypeOK, Scene
<1>2. ASSUME PairingInv', FreshOnlyBefore PROVE SoleInv'
  BY <1>0, <1>2, FreshStays DEF SoleInv
<1>3. ASSUME NEW c \in calls, ConnectExpire(c) PROVE SoleInv'
  <2>1. PairingInv' /\ \A s, t \in Sessions : Fresh(s)' /\ Fresh(t)' => s = t
    BY <1>0, <1>3, ConnectExpireInv
  <2> QED
    BY <2>1 DEF SoleInv, FreshPairingIsSole, Fresh
<1>4. CASE ApiNext
  BY <1>0, <1>2, <1>3, <1>4, CreateInv, CreateInsertInv, ConnectReadInv, ConnectMarkInv,
     DropCallInv DEF ApiNext
<1>5. CASE PhoneNext
  <2>1. PICK p \in Phones :
          \/ AskConnect(p) \/ JoinMobile(p) \/ Heartbeat(p) \/ SubmitBarcode(p)
          \/ GoSilent(p) \/ ComeBack(p)
    BY <1>1, <1>5 DEF PhoneNext
  <2> QED
    BY <1>0, <1>2, <2>1, AskConnectInv, JoinMobileInv, HeartbeatInv, SignalInv
<1>6. CASE DesktopNext
  <2>1. PICK d \in Desktops :
          \/ AskPairing(d) \/ JoinDesktop(d) \/ PollAsk(d) \/ PollAnswer(d)
          \/ Release(d) \/ Reload(d)
    BY <1>1, <1>6 DEF DesktopNext
  <2> QED
    BY <1>0, <1>2, <2>1, AskPairingInv, JoinDesktopInv, PollInv, ReleaseInv
<1>7. CASE SweepNext
  BY <1>0, <1>2, <1>7, TimeInv, ExpireStaleInv, SweepInv DEF SweepNext
<1>8. CASE UNCHANGED vars
  <2>1. PairingInv'
    BY <1>0, <1>8 DEF vars, PairingInv, TypeOK, CallInv, PhoneInv, Linked
  <2>2. FreshOnlyBefore
    BY <1>8 DEF vars, FreshOnlyBefore, Fresh
  <2> QED
    BY <1>2, <2>1, <2>2
<1> QED
  BY <1>4, <1>5, <1>6, <1>7, <1>8 DEF Next

LEMMA SoleInvHolds == Spec => []SoleInv
BY InitSoleInv, NextSoleInv, PTL DEF Spec

\* The rows, the desktops' caches, the phones and the requests under way keep
\* their types: in particular a request that connects, wherever it is cut off,
\* works on a session that was created.
THEOREM PairingTypeCorrect == Spec => []TypeOK
<1>1. SoleInv => TypeOK
  BY DEF SoleInv, PairingInv
<1> QED
  BY SoleInvHolds, <1>1, PTL

\* Two phones that connected with fresh codes, to the end of connectMobile's
\* expireSessionsForUser, are never connected side by side, however many
\* phones, desktops and sessions there are and however their requests' separate
\* statements interleave or are cut off.
THEOREM FreshPairingsAreSole == Spec => []FreshPairingIsSole
<1>1. SoleInv => FreshPairingIsSole
  BY DEF SoleInv
<1> QED
  BY SoleInvHolds, <1>1, PTL
=============================================================================
