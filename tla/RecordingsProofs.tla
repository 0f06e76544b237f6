--------------------------- MODULE RecordingsProofs --------------------------
(***************************************************************************)
(* Proofs about packing videos, for any devices, recordings, quotas and    *)
(* scenes: the types, and that the evidence is never lost on the way.      *)
(*                                                                         *)
(* It takes two assumptions on the order of steps.  The check and the      *)
(* write of a mark or a cancel request are not separated by other steps    *)
(* (start, save and delete requests may be), and a device does not retry   *)
(* an upload that the sweep has already decided to delete.                 *)
(*                                                                         *)
(* The invariant follows a video from hand to hand: which request a page   *)
(* waits for, which uploads are on their way under keys of their own, what *)
(* a first upload can rely on, and that what was saved stays in the        *)
(* library until somebody gives it up.                                     *)
(***************************************************************************)
EXTENDS Recordings, FiniteSetTheorems, TLAPS

\* The assumption on the order of steps.
PromptWrites == Split \subseteq {"start", "save", "delete"} /\ ~RetryInSweep

\* Its video was given up, or dropped by the page that held it.
Waived(r) == footage[r] \in {"waived", "lost"}

\* The recording can take an upload, unless somebody has given its video up.
CanUpload(r) == Waived(r) \/ (row[r].status \in Resumable /\ ~row[r].deleted)

Alive(r) == Waived(r) \/ ~row[r].deleted

\* A recording that was not started has left no trace.
UnusedInv ==
  \A r \in Takes : row[r].status = "none" =>
    /\ footage[r] = "none" /\ ~row[r].deleted /\ r \notin work.sweeping
    /\ \A d \in Devices : screen[d].take # r /\ r \notin kept[d]
    /\ \A c \in calls : c.take # r

\* Which pages have a recording, and which of them retry an upload.
PagePoint(d) ==
  /\ screen[d].at \in {"idle", "loading", "starting", "conflict", "clearing", "cleared"}
       => screen[d].take = NoTake /\ ~screen[d].retry
  /\ screen[d].at \in {"recording", "marking", "putting", "saving", "saved", "broken"}
       => screen[d].take \in Takes
  /\ screen[d].at = "recording" => ~screen[d].retry

PageInv == \A d \in Devices : PagePoint(d)

PointOf(op) == CASE op = "start" -> "starting"
                 [] op = "mark" -> "marking"
                 [] op = "save" -> "saving"
                 [] OTHER -> "clearing"

\* A page waits for one request at most, the one it shows.
AwaitedInv ==
  \A c \in calls :
    /\ c.op # "start" => c.take \in Takes
    /\ c.awaited =>
         /\ screen[c.by].at = PointOf(c.op) /\ c.op # "delete"
         /\ c.op \in {"mark", "save"} => screen[c.by].take = c.take
         /\ \A b \in calls : b.awaited /\ b.by = c.by => b = c

\* Every upload on its way has an object of its own, which is not yet the
\* recording's.
SaveInv ==
  \A c \in calls : c.op = "save" =>
    /\ c.key \in 1..MaxKeys /\ <<c.take, c.key>> \in bucket
    /\ row[c.take].key # c.key /\ Alive(c.take)
    /\ \A b \in calls : b.op = "save" /\ b.take = c.take /\ b.key = c.key => b = c

\* A first upload has its recording to itself.
FirstUpload(d) == ~screen[d].retry /\ screen[d].at \in {"recording", "marking", "putting", "saving"}

FirstInv ==
  \A d \in Devices : FirstUpload(d) =>
    LET r == screen[d].take IN
    /\ CanUpload(r)
    /\ \A e \in Devices : r \notin kept[e] /\ (e # d => screen[e].take # r)
    /\ \A c \in calls : c.take = r /\ c.op = "save" =>
         /\ c.by = d /\ c.awaited
         /\ c.loaded \in Resumable \cup {"unread"} \/ Waived(r)

\* What a page has shown as putting, saving, saved or failed.
ShownInv ==
  \A d \in Devices :
    LET r == screen[d].take IN
    /\ screen[d].at \in {"putting", "saving"} => Alive(r)
    /\ screen[d].at = "saved" /\ footage[r] = "shot" => InLibrary(r)
    /\ screen[d].at = "failed" /\ ~screen[d].retry /\ r # NoTake => Waived(r)

\* Nobody is at work on a recording the sweep is about to delete.
SweepingInv ==
  \A r \in work.sweeping :
    /\ row[r].status \in {"FAILED", "DELETED"}
    /\ \A d \in Devices : screen[d].take # r
    /\ \A c \in calls : c.take = r => c.op \notin {"mark", "save"}

\* What is claimed or about to be deleted was given up.
DeletedInv ==
  /\ \A r \in Takes : row[r].status = "PENDING_DELETE" => Waived(r)
  /\ \A c \in calls : c.op = "delete" => Waived(c.take)

\* The cleanup takes up only objects of deleted recordings, and none of an upload
\* on its way.
PurgingInv ==
  \A r \in Takes : \A n \in 1..MaxKeys : <<r, n>> \in work.purging =>
    /\ row[r].deleted
    /\ \A c \in calls : c.op = "save" /\ c.take = r => c.key # n

EvidenceInv ==
  /\ TypeOK /\ UnusedInv /\ PageInv /\ AwaitedInv /\ SaveInv /\ FirstInv /\ ShownInv
  /\ SweepingInv /\ DeletedInv /\ PurgingInv /\ EvidenceKept

-----------------------------------------------------------------------------
(* The recording page.                                                     *)

\* What the invariant says of the types, page by page and request by request.
LEMMA Parts ==
  ASSUME EvidenceInv
  PROVE  /\ TypeOK /\ UnusedInv /\ PageInv /\ AwaitedInv /\ SaveInv /\ FirstInv
         /\ ShownInv /\ SweepingInv /\ DeletedInv /\ PurgingInv /\ EvidenceKept
         /\ screen \in [Devices -> Screen] /\ row \in [Takes -> Row]
         /\ kept \in [Devices -> SUBSET Takes] /\ work.sweeping \subseteq Takes
         /\ footage \in [Takes -> {"none", "shot", "waived", "lost"}]
         /\ \A d \in Devices : screen[d].take \in Takes \cup {NoTake}
         /\ \A c \in calls : c \in Call /\ c.by \in Devices
         /\ \A c \in calls : c.op # "start" => c.take \in Takes
BY DEF EvidenceInv, TypeOK, Screen, Call, AwaitedInv

\* A device holds the video: in the page's memory or in its local store.
Holds(d, q) ==
  \/ q \in kept[d]
  \/ /\ screen[d].take = q /\ ~screen[d].retry
     /\ screen[d].at \in {"marking", "putting", "saving", "broken", "failed"}

LEMMA HeldEvidence ==
  EvidenceKept <=> \A q \in Takes : footage[q] = "shot" =>
                     InLibrary(q) \/ \E d \in Devices : Holds(d, q)
BY DEF EvidenceKept, InMemory, Holds

Started(q) == row[q].status # "none"

\* A step of one page that touches neither the server nor what the page waits
\* for: it sends at most one request, which is not a save, leaves what it shows
\* only for a recording of its own, and lets go of no video that is not safe.
PageStep(d, sent) ==
  /\ row' = row /\ used' = used /\ bucket' = bucket /\ work' = work /\ scene' = scene
  /\ mishaps' \in 0..MaxMishaps /\ calls' = calls \cup sent
  /\ screen' \in [Devices -> Screen] /\ kept' \in [Devices -> SUBSET Takes]
  /\ footage' \in [Takes -> {"none", "shot", "waived", "lost"}]
  /\ \A e \in Devices : e # d => screen'[e] = screen[e] /\ kept'[e] = kept[e]
  /\ \A c \in sent :
       /\ c \in Call /\ c.by = d /\ c.op # "save" /\ sent = {c}
       /\ c.op # "start" => c.take \in Takes
       /\ c.take \in Takes => Started(c.take)
       /\ c.awaited => /\ screen[d].at \notin Waiting /\ c.op # "delete"
                       /\ screen'[d].at = PointOf(c.op)
                       /\ c.op = "mark" => screen'[d].take = c.take
       /\ c.op = "mark" => c.take \notin work.sweeping
       /\ c.op = "delete" => footage'[c.take] \in {"waived", "lost"}
  /\ screen'[d] # screen[d] =>
       /\ screen[d].at \notin Waiting
       /\ screen'[d].at \notin {"putting", "saving", "saved", "failed"}
  /\ PagePoint(d)'
  /\ FirstUpload(d)' => /\ FirstUpload(d) /\ screen'[d].take = screen[d].take
                        /\ kept'[d] \subseteq kept[d]
  /\ screen'[d].take \in {screen[d].take, NoTake} \cup (kept[d] \ work.sweeping)
  /\ kept'[d] \subseteq kept[d] \cup {screen[d].take}
  /\ \A q \in Takes :
       \/ footage'[q] = footage[q]
       \/ Started(q) /\ footage'[q] \in {"waived", "lost"}
       \/ /\ Started(q) /\ footage[q] = "none" /\ footage'[q] = "shot" /\ Holds(d, q)'
          /\ FirstUpload(d) /\ screen[d].take = q
  /\ \A q \in Takes : footage[q] = "shot" /\ Holds(d, q) =>
       Holds(d, q)' \/ footage'[q] \in {"waived", "lost"} \/ InLibrary(q)

LEMMA PageStepInv ==
  ASSUME EvidenceInv, NEW d \in Devices, NEW sent, PageStep(d, sent)
  PROVE  EvidenceInv'
<1>1. /\ row' = row /\ used' = used /\ bucket' = bucket /\ work' = work /\ scene' = scene
      /\ \A e \in Devices : e # d => screen'[e] = screen[e] /\ kept'[e] = kept[e]
      /\ screen' \in [Devices -> Screen] /\ calls' = calls \cup sent
      /\ \A e \in Devices : screen'[e].take \in Takes \cup {NoTake}
  BY DEF PageStep, Screen
<1>2. \A c \in sent :
       /\ c \in Call /\ c.by = d /\ c.op # "save" /\ sent = {c}
       /\ c.op # "start" => c.take \in Takes
       /\ c.take \in Takes => row[c.take].status # "none"
       /\ c.awaited => /\ screen[d].at \notin Waiting /\ c.op # "delete"
                       /\ screen'[d].at = PointOf(c.op)
                       /\ c.op = "mark" => screen'[d].take = c.take
       /\ c.op = "mark" => c.take \notin work.sweeping
       /\ c.op = "delete" => footage'[c.take] \in {"waived", "lost"}
  BY DEF PageStep, Started
<1>3. \A q \in Takes : /\ footage[q] \in {"waived", "lost"} => footage'[q] \in {"waived", "lost"}
                       /\ row[q].status = "none" => footage'[q] = footage[q]
                       /\ footage'[q] # "none" /\ footage[q] = "none" =>
                            footage'[q] \in {"waived", "lost"} \/ (FirstUpload(d) /\ screen[d].take = q)
  BY DEF PageStep, Started
<1>4. TypeOK'
  BY <1>1, <1>2, Parts DEF TypeOK, PageStep
<1>5. UnusedInv'
  <2> SUFFICES ASSUME NEW q \in Takes, row[q].status = "none"
               PROVE /\ footage'[q] = "none" /\ ~row[q].deleted /\ q \notin work.sweeping
                     /\ \A e \in Devices : screen'[e].take # q /\ q \notin kept'[e]
                     /\ \A c \in calls' : c.take # q
    BY <1>1 DEF UnusedInv
  <2>1. /\ footage[q] = "none" /\ ~row[q].deleted /\ q \notin work.sweeping
        /\ \A e \in Devices : screen[e].take # q /\ q \notin kept[e]
        /\ \A c \in calls : c.take # q
    BY Parts DEF UnusedInv
  <2>2. screen'[d].take # q /\ q \notin kept'[d]
    BY <2>1, RecordingsAssumption DEF PageStep
  <2>3. \A c \in calls' : c.take # q
    BY <1>1, <1>2, <2>1
  <2> QED
    BY <1>1, <1>3, <2>1, <2>2, <2>3
<1>6. PageInv'
  BY <1>1, Parts DEF PageInv, PagePoint, PageStep
<1>7. AwaitedInv'
  BY <1>1, <1>2, Parts DEF AwaitedInv, PageStep, Waiting, PointOf
<1>8. SaveInv'
  BY <1>1, <1>2, <1>3, Parts DEF SaveInv, Alive, Waived
<1>9. FirstInv'
  <2> SUFFICES ASSUME NEW e \in Devices, FirstUpload(e)'
               PROVE /\ CanUpload(screen[e].take)'
                     /\ \A g \in Devices : /\ screen'[e].take \notin kept'[g]
                                           /\ g # e => screen'[g].take # screen'[e].take
                     /\ \A c \in calls' : c.take = screen'[e].take /\ c.op = "save" =>
                          /\ c.by = e /\ c.awaited
                          /\ c.loaded \in Resumable \cup {"unread"} \/ Waived(screen[e].take)'
    BY DEF FirstInv
  <2>1. /\ FirstUpload(e) /\ screen'[e].take = screen[e].take /\ screen[e].take \in Takes
    BY <1>1, Parts DEF PageStep, FirstUpload, PageInv, PagePoint
  <2>2. /\ CanUpload(screen[e].take)
        /\ \A g \in Devices : /\ screen[e].take \notin kept[g]
                              /\ g # e => screen[g].take # screen[e].take
        /\ \A c \in calls : c.take = screen[e].take /\ c.op = "save" =>
             /\ c.by = e /\ c.awaited
             /\ c.loaded \in Resumable \cup {"unread"} \/ Waived(screen[e].take)
    BY <2>1, Parts DEF FirstInv
  <2>3. CanUpload(screen[e].take)'
    BY <1>1, <1>3, <2>1, <2>2 DEF CanUpload, Waived, Resumable
  <2>4. \A g \in Devices : /\ screen'[e].take \notin kept'[g]
                           /\ g # e => screen'[g].take # screen'[e].take
    <3>1. CASE e = d
      BY <1>1, <2>1, <2>2, <3>1 DEF PageStep
    <3>2. CASE e # d
      BY <1>1, <2>1, <2>2, <3>2, RecordingsAssumption DEF PageStep
    <3> QED
      BY <3>1, <3>2
  <2> QED
    BY <1>1, <1>2, <1>3, <2>1, <2>2, <2>3, <2>4 DEF Waived
<1>10. ShownInv'
  <2> SUFFICES ASSUME NEW e \in Devices,
                      screen'[e].at \in {"putting", "saving", "saved", "failed"}
               PROVE LET r == screen[e].take IN
                     (/\ screen[e].at \in {"putting", "saving"} => Alive(r)
                      /\ screen[e].at = "saved" /\ footage[r] = "shot" => InLibrary(r)
                      /\ screen[e].at = "failed" /\ ~screen[e].retry /\ r # NoTake
                           => Waived(r))'
    BY DEF ShownInv
  <2>1. screen'[e] = screen[e]
    BY <1>1 DEF PageStep
  <2>2. /\ screen[e].at \in {"putting", "saving"} => Alive(screen[e].take)
        /\ screen[e].at = "saved" /\ footage[screen[e].take] = "shot"
             => InLibrary(screen[e].take)
        /\ screen[e].at = "failed" /\ ~screen[e].retry /\ screen[e].take # NoTake
             => Waived(screen[e].take)
        /\ screen[e].take \in Takes \cup {NoTake}
        /\ screen[e].at # "failed" => screen[e].take \in Takes
    BY <2>1, Parts DEF ShownInv, PageInv, PagePoint
  <2>3. CASE screen[e].at = "saved"
    <3>1. ~(FirstUpload(d) /\ screen[d].take = screen[e].take)
      BY <2>3, Parts DEF FirstInv, FirstUpload
    <3> QED
      BY <1>1, <1>3, <2>1, <2>2, <2>3, <3>1 DEF InLibrary, PageStep
  <2> QED
    BY <1>1, <1>3, <2>1, <2>2, <2>3 DEF Alive, Waived
<1>11. SweepingInv'
  BY <1>1, <1>2, Parts, RecordingsAssumption DEF SweepingInv, PageStep
<1>12. DeletedInv'
  BY <1>1, <1>2, <1>3, Parts DEF DeletedInv, Waived
<1>13. EvidenceKept'
  <2> SUFFICES ASSUME NEW q \in Takes, footage'[q] = "shot"
               PROVE  InLibrary(q)' \/ \E e \in Devices : Holds(e, q)'
    BY DEF EvidenceKept, InMemory, Holds
  <2>1. CASE footage'[q] # footage[q]
    BY <2>1 DEF PageStep
  <2>2. CASE footage[q] = "shot"
    <3>1. InLibrary(q) => InLibrary(q)'
      BY <1>1 DEF InLibrary
    <3>2. CASE \E e \in Devices : Holds(e, q)
      <4>1. PICK e \in Devices : Holds(e, q)
        BY <3>2
      <4>2. CASE e = d
        BY <2>2, <3>1, <4>1, <4>2 DEF PageStep
      <4>3. CASE e # d
        BY <1>1, <4>1, <4>3 DEF Holds
      <4> QED
        BY <4>2, <4>3
    <3> QED
      BY <2>2, <3>1, <3>2, Parts, HeldEvidence
  <2> QED
    BY <2>1, <2>2
<1>14. PurgingInv'
  BY <1>1, <1>2, Parts DEF PurgingInv
<1> QED
  BY <1>4, <1>5, <1>6, <1>7, <1>8, <1>9, <1>10, <1>11, <1>12, <1>13, <1>14 DEF EvidenceInv

\* startRecording: the page waits for a session.
LEMMA PressStartInv ==
  ASSUME EvidenceInv, NEW d \in Devices, PressStart(d)
  PROVE  EvidenceInv'
<1> DEFINE new == Request(d, "start", NoTake, 0, TRUE)
<1>1. /\ new \in Call /\ new.op = "start" /\ new.by = d /\ new.take = NoTake /\ new.awaited
  BY RecordingsAssumption DEF Request, Call
<1>2. calls' = calls \cup {new} /\ screen[d].at = "idle"
  BY DEF PressStart, Send
<1> HIDE DEF new
<1>3. screen' = [screen EXCEPT ![d] = [IdleScreen EXCEPT !.at = "starting"]]
  BY DEF PressStart
<1>4. /\ row' = row /\ used' = used /\ bucket' = bucket /\ work' = work /\ scene' = scene
      /\ kept' = kept /\ footage' = footage /\ mishaps' = mishaps
  BY DEF PressStart, Server
<1>5. /\ screen'[d] = [at |-> "starting", take |-> NoTake, retry |-> FALSE, again |-> FALSE]
      /\ \A e \in Devices : e # d => screen'[e] = screen[e]
      /\ screen' \in [Devices -> Screen]
  BY <1>3, Parts DEF IdleScreen, Screen, Points
<1>6. PagePoint(d)' /\ ~FirstUpload(d)' /\ (\A q : Holds(d, q) => Holds(d, q)')
  BY <1>2, <1>4, <1>5, RecordingsAssumption DEF PagePoint, FirstUpload, Holds
<1>7. PageStep(d, {new})
  BY <1>1, <1>2, <1>4, <1>5, <1>6, Parts, RecordingsAssumption
  DEF PageStep, TypeOK, Waiting, PointOf
<1> QED
  BY <1>7, PageStepInv

\* The page cancels somebody's session, or finds that there is none any more.
LEMMA ClearConflictInv ==
  ASSUME EvidenceInv, NEW d \in Devices, ClearConflict(d)
  PROVE  EvidenceInv'
<1>1. /\ screen[d].at = "conflict" /\ screen[d].take = NoTake /\ ~screen[d].retry
  BY Parts DEF ClearConflict, PageInv, PagePoint
<1>2. /\ row' = row /\ used' = used /\ bucket' = bucket /\ work' = work /\ scene' = scene
      /\ kept' = kept /\ footage' = footage /\ mishaps' = mishaps
  BY DEF ClearConflict, Server
<1>3. ASSUME NEW point \in {"cleared", "clearing"}, Show(d, point)
      PROVE  /\ screen' \in [Devices -> Screen] /\ screen'[d] # screen[d]
             /\ screen'[d].at = point /\ screen'[d].take = NoTake
             /\ \A e \in Devices : e # d => screen'[e] = screen[e]
             /\ PagePoint(d)' /\ ~FirstUpload(d)' /\ (\A q : Holds(d, q) => Holds(d, q)')
  <2>1. screen[d] \in Screen /\ screen' = [screen EXCEPT ![d].at = point]
    BY <1>3, Parts DEF Show
  <2>2. /\ screen' \in [Devices -> Screen] /\ screen'[d].at = point
        /\ screen'[d].take = NoTake /\ ~screen'[d].retry
        /\ \A e \in Devices : e # d => screen'[e] = screen[e]
    BY <1>1, <2>1, Parts DEF Screen, Points
  <2> QED
    BY <1>1, <1>2, <2>2, RecordingsAssumption DEF PagePoint, FirstUpload, Holds
<1>4. CASE ActiveTakes = {}
  <2>1. Show(d, "cleared") /\ calls' = calls \cup {}
    BY <1>4 DEF ClearConflict
  <2>2. PageStep(d, {})
    BY <1>1, <1>2, <1>3, <2>1, Parts DEF PageStep, TypeOK, Waiting
  <2> QED
    BY <2>2, PageStepInv
<1>5. CASE ActiveTakes # {}
  <2>1. PICK r \in ActiveTakes : Send(Request(d, "cancel", r, 0, TRUE)) /\ Show(d, "clearing")
    BY <1>5 DEF ClearConflict
  <2> DEFINE new == Request(d, "cancel", r, 0, TRUE)
  <2>2. r \in Takes /\ Started(r)
    BY DEF ActiveTakes, Active, Started
  <2>3. /\ new \in Call /\ new.op = "cancel" /\ new.by = d /\ new.take = r /\ new.awaited
    BY <2>2, RecordingsAssumption DEF Request, Call
  <2>4. calls' = calls \cup {new}
    BY <2>1 DEF Send
  <2> HIDE DEF new
  <2>5. PageStep(d, {new})
    BY <1>1, <1>2, <1>3, <2>1, <2>2, <2>3, <2>4, Parts DEF PageStep, TypeOK, Waiting, PointOf
  <2> QED
    BY <2>5, PageStepInv
<1> QED
  BY <1>4, <1>5

LEMMA StartAgainInv ==
  ASSUME EvidenceInv, NEW d \in Devices, StartAgain(d)
  PROVE  EvidenceInv'
<1> DEFINE new == Request(d, "start", NoTake, 0, TRUE)
<1>1. /\ new \in Call /\ new.op = "start" /\ new.by = d /\ new.take = NoTake /\ new.awaited
  BY RecordingsAssumption DEF Request, Call
<1>2. /\ calls' = calls \cup {new}
      /\ screen[d].at = "cleared" /\ screen[d].take = NoTake /\ ~screen[d].retry
  BY Parts DEF StartAgain, Send, PageInv, PagePoint
<1> HIDE DEF new
<1>3. screen' = [screen EXCEPT ![d].at = "starting", ![d].again = TRUE]
  BY DEF StartAgain
<1>4. /\ row' = row /\ used' = used /\ bucket' = bucket /\ work' = work /\ scene' = scene
      /\ kept' = kept /\ footage' = footage /\ mishaps' = mishaps
  BY DEF StartAgain, Server
<1>5. /\ screen'[d].at = "starting" /\ screen'[d].take = NoTake /\ ~screen'[d].retry
      /\ \A e \in Devices : e # d => screen'[e] = screen[e]
      /\ screen' \in [Devices -> Screen]
  <2> DEFINE asking == [screen EXCEPT ![d].at = "starting"]
  <2>1. screen' = [asking EXCEPT ![d].again = TRUE]
    BY <1>3
  <2>2. /\ asking[d].at = "starting" /\ asking[d].take = NoTake /\ ~asking[d].retry
        /\ \A e \in Devices : e # d => asking[e] = screen[e]
        /\ asking \in [Devices -> Screen]
    BY <1>2, Parts DEF Screen, Points
  <2> HIDE DEF asking
  <2> QED
    BY <2>1, <2>2 DEF Screen
<1>6. PagePoint(d)' /\ ~FirstUpload(d)' /\ (\A q : Holds(d, q) => Holds(d, q)')
  BY <1>2, <1>4, <1>5, RecordingsAssumption DEF PagePoint, FirstUpload, Holds
<1>7. PageStep(d, {new})
  BY <1>1, <1>2, <1>4, <1>5, <1>6, Parts, RecordingsAssumption
  DEF PageStep, TypeOK, Waiting, PointOf
<1> QED
  BY <1>7, PageStepInv

\* stopRecording: the video is in the page's memory.
LEMMA StopRecordingInv ==
  ASSUME EvidenceInv, NEW d \in Devices, StopRecording(d)
  PROVE  EvidenceInv'
<1> DEFINE r == screen[d].take
           new == Request(d, "mark", r, 0, TRUE)
<1>1. /\ r \in Takes /\ screen[d].at = "recording" /\ ~screen[d].retry
      /\ Started(r) /\ r \notin work.sweeping
  BY Parts DEF StopRecording, PageInv, PagePoint, UnusedInv, Started, SweepingInv
<1>2. /\ new \in Call /\ new.op = "mark" /\ new.by = d /\ new.take = r /\ new.awaited
  BY <1>1, RecordingsAssumption DEF Request, Call
<1>3. calls' = calls \cup {new}
  BY DEF StopRecording, Send
<1> HIDE DEF new
<1>4. screen' = [screen EXCEPT ![d].at = "marking"]
  BY DEF StopRecording, Show
<1>5. /\ row' = row /\ used' = used /\ bucket' = bucket /\ work' = work /\ scene' = scene
      /\ kept' = kept /\ mishaps' = mishaps
  BY DEF StopRecording, Server
<1>6. /\ screen'[d].at = "marking" /\ screen'[d].take = r /\ ~screen'[d].retry
      /\ \A e \in Devices : e # d => screen'[e] = screen[e]
      /\ screen' \in [Devices -> Screen]
  BY <1>1, <1>4, Parts DEF Screen, Points
<1>7. /\ footage' \in [Takes -> {"none", "shot", "waived", "lost"}]
      /\ \A q \in Takes : \/ footage'[q] = footage[q]
                          \/ q = r /\ footage[q] = "none" /\ footage'[q] = "shot"
  BY <1>1, Parts DEF StopRecording, Shot
<1>8. /\ PagePoint(d)' /\ FirstUpload(d) /\ Holds(d, r)'
      /\ \A q \in Takes : Holds(d, q) => Holds(d, q)'
  BY <1>1, <1>5, <1>6, RecordingsAssumption DEF PagePoint, FirstUpload, Holds
<1>9. PageStep(d, {new})
  BY <1>1, <1>2, <1>3, <1>5, <1>6, <1>7, <1>8, Parts DEF PageStep, TypeOK, Waiting, PointOf
<1> QED
  BY <1>9, PageStepInv

\* handleWebcamDisconnect: the video so far goes into the local store.
LEMMA LoseCameraInv ==
  ASSUME EvidenceInv, NEW d \in Devices, LoseCamera(d)
  PROVE  EvidenceInv'
<1> DEFINE r == screen[d].take
           new == Request(d, "cancel", r, 0, FALSE)
<1>1. /\ r \in Takes /\ screen[d].at = "recording" /\ ~screen[d].retry /\ Started(r)
  BY Parts DEF LoseCamera, PageInv, PagePoint, UnusedInv, Started
<1>2. /\ new \in Call /\ new.op = "cancel" /\ new.by = d /\ new.take = r /\ ~new.awaited
  BY <1>1, RecordingsAssumption DEF Request, Call
<1>3. calls' = calls \cup {new}
  BY DEF LoseCamera, Send
<1> HIDE DEF new
<1>4. screen' = [screen EXCEPT ![d] = IdleScreen]
  BY DEF LoseCamera
<1>12. \/ kept' = [kept EXCEPT ![d] = kept[d] \cup {r}] /\ Shot(r) /\ mishaps' = mishaps
       \/ StoreFails(r)
  BY DEF LoseCamera
<1>5. /\ row' = row /\ used' = used /\ bucket' = bucket /\ work' = work /\ scene' = scene
  BY DEF LoseCamera, Server
<1>6. /\ screen'[d] = IdleScreen
      /\ \A e \in Devices : e # d => screen'[e] = screen[e]
      /\ screen' \in [Devices -> Screen]
  BY <1>1, <1>4, Parts DEF Screen, Points, IdleScreen
<1>7. /\ footage' \in [Takes -> {"none", "shot", "waived", "lost"}]
      /\ kept' \in [Devices -> SUBSET Takes] /\ mishaps' \in 0..MaxMishaps
      /\ \A e \in Devices : e # d => kept'[e] = kept[e]
      /\ \A q \in Takes : q # r => footage'[q] = footage[q]
      /\ kept[d] \subseteq kept'[d] /\ kept'[d] \subseteq kept[d] \cup {r}
      /\ \/ r \in kept'[d] /\ footage'[r] = footage[r]
         \/ r \in kept'[d] /\ footage[r] = "none" /\ footage'[r] = "shot"
         \/ footage'[r] = "lost"
  <2>1. CASE kept' = [kept EXCEPT ![d] = kept[d] \cup {r}] /\ Shot(r) /\ mishaps' = mishaps
    BY <1>1, <2>1, Parts DEF Shot, TypeOK
  <2>2. CASE StoreFails(r)
    BY <1>1, <2>2, Parts, RecordingsAssumption DEF StoreFails, Mishap, Lose, TypeOK
  <2> QED
    BY <1>12, <2>1, <2>2
<1>8. /\ screen'[d].at = "idle" /\ screen'[d].take = NoTake /\ ~screen'[d].retry
  BY <1>6 DEF IdleScreen
<1>10. /\ PagePoint(d)' /\ FirstUpload(d) /\ ~FirstUpload(d)'
  BY <1>1, <1>8 DEF PagePoint, FirstUpload
<1>11. \A q \in Takes : q \in kept'[d] => Holds(d, q)'
  BY DEF Holds
<1>13. \A q \in Takes : Holds(d, q) => q \in kept[d]
  BY <1>1 DEF Holds
<1>9. PageStep(d, {new})
  BY <1>1, <1>2, <1>3, <1>5, <1>6, <1>7, <1>8, <1>10, <1>11, <1>13, Parts
  DEF PageStep, Waiting
<1> QED
  BY <1>9, PageStepInv

LEMMA IdleType ==
  /\ IdleScreen \in Screen /\ IdleScreen.at = "idle" /\ IdleScreen.take = NoTake
  /\ ~IdleScreen.retry
BY DEF IdleScreen, Screen, Points

\* A cancel request for a recording that was started, and a delete request.
LEMMA Unanswered ==
  ASSUME NEW d \in Devices, NEW r \in Takes, NEW op \in {"cancel", "delete"}
  PROVE  LET new == Request(d, op, r, 0, FALSE) IN
         /\ new \in Call /\ new.op = op /\ new.by = d /\ new.take = r /\ ~new.awaited
BY RecordingsAssumption DEF Request, Call

\* handleRecoverableFailure: what the page held goes into the local store.
LEMMA PreserveVideoInv ==
  ASSUME EvidenceInv, NEW d \in Devices, PreserveVideo(d)
  PROVE  EvidenceInv'
<1> DEFINE r == screen[d].take
           new == Request(d, "cancel", r, 0, FALSE)
<1>1. r \in Takes /\ screen[d].at = "broken" /\ Started(r)
  BY Parts DEF PreserveVideo, PageInv, PagePoint, UnusedInv, Started
<1>2. /\ new \in Call /\ new.op = "cancel" /\ new.by = d /\ new.take = r /\ ~new.awaited
  BY <1>1, RecordingsAssumption DEF Request, Call
<1>3. PICK sent \in {{}, {new}} : calls' = calls \cup sent
  BY DEF PreserveVideo, Send
<1> HIDE DEF new
<1>4. /\ screen' = [screen EXCEPT ![d] = IdleScreen]
      /\ \/ kept' = [kept EXCEPT ![d] = Preserved(d)] /\ footage' = footage /\ mishaps' = mishaps
         \/ StoreFails(r)
  BY DEF PreserveVideo
<1>5. /\ row' = row /\ used' = used /\ bucket' = bucket /\ work' = work /\ scene' = scene
  BY DEF PreserveVideo, Server
<1>11. /\ kept' \in [Devices -> SUBSET Takes] /\ mishaps' \in 0..MaxMishaps
       /\ \A e \in Devices : e # d => kept'[e] = kept[e]
       /\ kept'[d] \subseteq kept[d] \cup {r} /\ kept[d] \subseteq kept'[d]
       /\ footage' \in [Takes -> {"none", "shot", "waived", "lost"}]
       /\ \A q \in Takes : q # r => footage'[q] = footage[q]
       /\ \/ footage'[r] = footage[r] /\ (~screen[d].retry => r \in kept'[d])
          \/ footage'[r] = "lost"
  <2>1. CASE kept' = [kept EXCEPT ![d] = Preserved(d)] /\ footage' = footage /\ mishaps' = mishaps
    BY <1>1, <2>1, Parts DEF Preserved, TypeOK
  <2>2. CASE StoreFails(r)
    BY <1>1, <2>2, Parts, RecordingsAssumption DEF StoreFails, Mishap, Lose, TypeOK
  <2> QED
    BY <1>4, <2>1, <2>2
<1>6. /\ screen'[d] = IdleScreen /\ screen' \in [Devices -> Screen]
      /\ \A e \in Devices : e # d => screen'[e] = screen[e]
  BY <1>1, <1>4, Parts, IdleType
<1>7. /\ screen'[d].at = "idle" /\ screen'[d].take = NoTake /\ ~screen'[d].retry
  BY <1>6, IdleType
<1>8. PagePoint(d)' /\ ~FirstUpload(d)'
  BY <1>7 DEF PagePoint, FirstUpload
<1>9. \A q \in Takes : Holds(d, q) => Holds(d, q)' \/ footage'[q] = "lost"
  BY <1>1, <1>11 DEF Holds
<1>10. PageStep(d, sent)
  BY <1>1, <1>2, <1>3, <1>5, <1>6, <1>7, <1>8, <1>9, <1>11, Parts DEF PageStep, Waiting
<1> QED
  BY <1>10, PageStepInv

\* handleFailure: only what was given up or already dropped is forgotten.
LEMMA FailRecordingInv ==
  ASSUME EvidenceInv, NEW d \in Devices, FailRecording(d)
  PROVE  EvidenceInv'
<1> DEFINE r == screen[d].take
           new == Request(d, "cancel", r, 0, FALSE)
<1>1. /\ screen[d].at = "failed" /\ r \in Takes \cup {NoTake}
      /\ r \in Takes => Started(r)
      /\ r \in Takes /\ ~screen[d].retry => footage[r] \in {"waived", "lost"}
  BY Parts, RecordingsAssumption DEF FailRecording, UnusedInv, Started, ShownInv, Waived
<1>2. PICK sent \in {{}, {new}} : calls' = calls \cup sent /\ (sent # {} => r \in Takes)
  BY <1>1 DEF FailRecording, Send
<1>3. r \in Takes => /\ new \in Call /\ new.op = "cancel" /\ new.by = d /\ new.take = r
                     /\ ~new.awaited
  BY RecordingsAssumption DEF Request, Call
<1> HIDE DEF new
<1>4. screen' = [screen EXCEPT ![d] = IdleScreen]
  BY DEF FailRecording
<1>5. /\ row' = row /\ used' = used /\ bucket' = bucket /\ work' = work /\ scene' = scene
      /\ mishaps' = mishaps /\ footage' = footage /\ kept' = kept
  BY DEF FailRecording, Server
<1>6. /\ screen'[d] = IdleScreen
      /\ \A e \in Devices : e # d => screen'[e] = screen[e]
      /\ screen' \in [Devices -> Screen]
  BY <1>4, Parts, IdleType
<1>7. /\ screen'[d].at = "idle" /\ screen'[d].take = NoTake /\ ~screen'[d].retry
  BY <1>6, IdleType
<1>8. PagePoint(d)' /\ ~FirstUpload(d)'
  BY <1>7 DEF PagePoint, FirstUpload
<1>9. \A q \in Takes : footage[q] = "shot" /\ Holds(d, q) => Holds(d, q)'
  BY <1>1, <1>5 DEF Holds
<1>10. PageStep(d, sent)
  BY <1>1, <1>2, <1>3, <1>5, <1>6, <1>7, <1>8, <1>9, Parts DEF PageStep, TypeOK, Waiting
<1> QED
  BY <1>10, PageStepInv

\* A saved upload is in the library: the local copy may go.
LEMMA DoneInv ==
  ASSUME EvidenceInv, NEW d \in Devices, Done(d)
  PROVE  EvidenceInv'
<1> DEFINE r == screen[d].take
<1>1. /\ screen[d].at = "saved" /\ r \in Takes
      /\ footage[r] = "shot" => InLibrary(r)
  BY Parts DEF Done, PageInv, PagePoint, ShownInv
<1>2. /\ screen' = [screen EXCEPT ![d] = IdleScreen]
      /\ kept' = [kept EXCEPT ![d] = kept[d] \ {r}]
  BY DEF Done
<1>3. /\ row' = row /\ used' = used /\ bucket' = bucket /\ work' = work /\ scene' = scene
      /\ mishaps' = mishaps /\ footage' = footage /\ calls' = calls \cup {}
  BY DEF Done, Server
<1>4. /\ screen'[d] = IdleScreen /\ kept'[d] = kept[d] \ {r}
      /\ \A e \in Devices : e # d => screen'[e] = screen[e] /\ kept'[e] = kept[e]
      /\ screen' \in [Devices -> Screen] /\ kept' \in [Devices -> SUBSET Takes]
  BY <1>2, Parts, IdleType
<1>5. /\ screen'[d].at = "idle" /\ screen'[d].take = NoTake /\ ~screen'[d].retry
  BY <1>4, IdleType
<1>6. PagePoint(d)' /\ ~FirstUpload(d)'
  BY <1>5 DEF PagePoint, FirstUpload
<1>7. \A q \in Takes : footage[q] = "shot" /\ Holds(d, q) => Holds(d, q)' \/ InLibrary(q)
  BY <1>1, <1>4 DEF Holds
<1>8. PageStep(d, {})
  BY <1>1, <1>3, <1>4, <1>5, <1>6, <1>7, Parts DEF PageStep, TypeOK, Waiting
<1> QED
  BY <1>8, PageStepInv

\* retryTemporaryRecordingUpload: not while the sweep is about to delete it.
LEMMA RetryUploadInv ==
  ASSUME EvidenceInv, PromptWrites, NEW d \in Devices, RetryUpload(d)
  PROVE  EvidenceInv'
<1>1. PICK r \in kept[d] :
        /\ screen[d].at = "idle" /\ r \notin work.sweeping
        /\ Send(Request(d, "mark", r, 0, TRUE))
        /\ screen' = [screen EXCEPT ![d] = [at |-> "marking", take |-> r,
                                            retry |-> TRUE, again |-> FALSE]]
        /\ UNCHANGED <<Server, kept, footage, mishaps, scene>>
  BY DEF RetryUpload, PromptWrites
<1> DEFINE new == Request(d, "mark", r, 0, TRUE)
<1>2. r \in Takes /\ Started(r) /\ screen[d].take = NoTake
  BY <1>1, Parts DEF UnusedInv, Started, PageInv, PagePoint
<1>3. /\ new \in Call /\ new.op = "mark" /\ new.by = d /\ new.take = r /\ new.awaited
  BY <1>2, RecordingsAssumption DEF Request, Call
<1>4. calls' = calls \cup {new}
  BY <1>1 DEF Send
<1> HIDE DEF new
<1>5. /\ row' = row /\ used' = used /\ bucket' = bucket /\ work' = work /\ scene' = scene
      /\ mishaps' = mishaps /\ footage' = footage /\ kept' = kept
  BY <1>1 DEF Server
<1>6. /\ screen'[d].at = "marking" /\ screen'[d].take = r /\ screen'[d].retry
      /\ \A e \in Devices : e # d => screen'[e] = screen[e]
      /\ screen' \in [Devices -> Screen]
  BY <1>1, <1>2, Parts DEF Screen, Points
<1>7. PagePoint(d)' /\ ~FirstUpload(d)'
  BY <1>2, <1>6 DEF PagePoint, FirstUpload
<1>8. \A q \in Takes : Holds(d, q) => Holds(d, q)'
  BY <1>1, <1>5 DEF Holds
<1>9. PageStep(d, {new})
  BY <1>1, <1>2, <1>3, <1>4, <1>5, <1>6, <1>7, <1>8, Parts DEF PageStep, TypeOK, Waiting, PointOf
<1> QED
  BY <1>9, PageStepInv

\* discardRecording: the operator gives the video up.
LEMMA DiscardInv ==
  ASSUME EvidenceInv, NEW d \in Devices, Discard(d)
  PROVE  EvidenceInv'
<1>1. PICK r \in kept[d] :
        /\ screen[d].at = "idle"
        /\ kept' = [kept EXCEPT ![d] = kept[d] \ {r}]
        /\ GiveUpOn(r)
        /\ Send(Request(d, "cancel", r, 0, FALSE))
        /\ UNCHANGED <<Server, screen, mishaps, scene>>
  BY DEF Discard
<1> DEFINE new == Request(d, "cancel", r, 0, FALSE)
<1>2. r \in Takes /\ Started(r)
  BY <1>1, Parts DEF UnusedInv, Started
<1>3. /\ new \in Call /\ new.op = "cancel" /\ new.by = d /\ new.take = r /\ ~new.awaited
  BY <1>2, Unanswered
<1>4. calls' = calls \cup {new}
  BY <1>1 DEF Send
<1> HIDE DEF new
<1>5. /\ row' = row /\ used' = used /\ bucket' = bucket /\ work' = work /\ scene' = scene
      /\ mishaps' = mishaps /\ screen' = screen
  BY <1>1 DEF Server
<1>6. /\ kept'[d] = kept[d] \ {r} /\ \A e \in Devices : e # d => kept'[e] = kept[e]
      /\ kept' \in [Devices -> SUBSET Takes]
  BY <1>1, Parts
<1>7. /\ footage' \in [Takes -> {"none", "shot", "waived", "lost"}] /\ footage'[r] \in {"waived", "lost"}
      /\ \A q \in Takes : q # r => footage'[q] = footage[q]
  BY <1>1, <1>2, Parts DEF GiveUpOn
<1>8. PagePoint(d)' /\ ~FirstUpload(d)'
  BY <1>1, <1>5, Parts DEF PageInv, PagePoint, FirstUpload
<1>9. \A q \in Takes : q # r /\ Holds(d, q) => Holds(d, q)'
  BY <1>5, <1>6 DEF Holds
<1>10. PageStep(d, {new})
  BY <1>1, <1>2, <1>3, <1>4, <1>5, <1>6, <1>7, <1>8, <1>9, Parts DEF PageStep, TypeOK
<1> QED
  BY <1>10, PageStepInv

\* A page that opens cancels what this device cannot go on with.
LEMMA BootstrapInv ==
  ASSUME EvidenceInv, NEW d \in Devices, Bootstrap(d)
  PROVE  EvidenceInv'
<1>1. screen[d].at = "loading" /\ screen[d].take = NoTake
  BY Parts DEF Bootstrap, PageInv, PagePoint
<1>2. screen' = [screen EXCEPT ![d] = IdleScreen]
  BY DEF Bootstrap
<1>3. /\ row' = row /\ used' = used /\ bucket' = bucket /\ work' = work /\ scene' = scene
      /\ mishaps' = mishaps /\ footage' = footage /\ kept' = kept
  BY DEF Bootstrap, Server
<1>4. /\ screen'[d] = IdleScreen
      /\ \A e \in Devices : e # d => screen'[e] = screen[e]
      /\ screen' \in [Devices -> Screen]
  BY <1>2, Parts, IdleType
<1>5. /\ screen'[d].at = "idle" /\ screen'[d].take = NoTake /\ ~screen'[d].retry
  BY <1>4, IdleType
<1>6. PagePoint(d)' /\ ~FirstUpload(d)'
  BY <1>5 DEF PagePoint, FirstUpload
<1>7. \A q \in Takes : Holds(d, q) => Holds(d, q)'
  BY <1>1, <1>3 DEF Holds
<1>8. CASE ActiveTakes \subseteq kept[d]
  <2>1. calls' = calls \cup {}
    BY <1>8 DEF Bootstrap
  <2>2. PageStep(d, {})
    BY <1>1, <1>3, <1>4, <1>5, <1>6, <1>7, <2>1, Parts DEF PageStep, TypeOK, Waiting
  <2> QED
    BY <2>2, PageStepInv
<1>9. CASE ~(ActiveTakes \subseteq kept[d])
  <2>1. PICK r \in ActiveTakes : Send(Request(d, "cancel", r, 0, FALSE))
    BY <1>9 DEF Bootstrap
  <2> DEFINE new == Request(d, "cancel", r, 0, FALSE)
  <2>2. r \in Takes /\ Started(r)
    BY DEF ActiveTakes, Active, Started
  <2>3. /\ new \in Call /\ new.op = "cancel" /\ new.by = d /\ new.take = r /\ ~new.awaited
    BY <2>2, Unanswered
  <2>4. calls' = calls \cup {new}
    BY <2>1 DEF Send
  <2> HIDE DEF new
  <2>5. PageStep(d, {new})
    BY <1>1, <1>3, <1>4, <1>5, <1>6, <1>7, <2>2, <2>3, <2>4, Parts DEF PageStep, TypeOK, Waiting
  <2> QED
    BY <2>5, PageStepInv
<1> QED
  BY <1>8, <1>9

\* Somebody deletes a recording, and with it gives up its video.
LEMMA AskDeleteInv ==
  ASSUME EvidenceInv, NEW d \in Devices, AskDelete(d)
  PROVE  EvidenceInv'
<1>1. PICK r \in Takes :
        /\ row[r].status \notin {"none", "DELETED"} /\ ~row[r].deleted
        /\ Send(Request(d, "delete", r, 0, FALSE))
        /\ GiveUpOn(r)
        /\ UNCHANGED <<Server, screen, kept, mishaps, scene>>
  BY DEF AskDelete
<1> DEFINE new == Request(d, "delete", r, 0, FALSE)
<1>2. Started(r)
  BY <1>1 DEF Started
<1>3. /\ new \in Call /\ new.op = "delete" /\ new.by = d /\ new.take = r /\ ~new.awaited
  BY Unanswered
<1>4. calls' = calls \cup {new}
  BY <1>1 DEF Send
<1> HIDE DEF new
<1>5. /\ row' = row /\ used' = used /\ bucket' = bucket /\ work' = work /\ scene' = scene
      /\ mishaps' = mishaps /\ screen' = screen /\ kept' = kept
  BY <1>1 DEF Server
<1>6. /\ footage' \in [Takes -> {"none", "shot", "waived", "lost"}] /\ footage'[r] \in {"waived", "lost"}
      /\ \A q \in Takes : q # r => footage'[q] = footage[q]
  BY <1>1, Parts DEF GiveUpOn
<1>7. /\ PagePoint(d)' /\ FirstUpload(d)' = FirstUpload(d)
      /\ \A q \in Takes : Holds(d, q) => Holds(d, q)'
  BY <1>5, Parts DEF PageInv, PagePoint, FirstUpload, Holds
<1>8. PageStep(d, {new})
  BY <1>2, <1>3, <1>4, <1>5, <1>6, <1>7, Parts DEF PageStep, TypeOK
<1> QED
  BY <1>8, PageStepInv

\* The page no longer waits for what it has sent, and shows a failure or is
\* closed; what it held it keeps, or it was given up.
Unawaited(d, c) == IF c.by = d THEN [c EXCEPT !.awaited = FALSE] ELSE c

LosePage(d) ==
  /\ row' = row /\ used' = used /\ bucket' = bucket /\ work' = work /\ scene' = scene
  /\ kept' = kept /\ mishaps' \in 0..MaxMishaps
  /\ calls' = {Unawaited(d, c) : c \in calls}
  /\ screen' \in [Devices -> Screen]
  /\ \A e \in Devices : e # d => screen'[e] = screen[e]
  /\ screen'[d].at \in {"failed", "broken", "loading"} /\ PagePoint(d)'
  /\ screen'[d].take \in {screen[d].take, NoTake}
  /\ screen'[d].at = "failed" => screen'[d].take = NoTake
  /\ footage' \in [Takes -> {"none", "shot", "waived", "lost"}]
  /\ \A q \in Takes : \/ footage'[q] = footage[q]
                      \/ Started(q) /\ footage'[q] \in {"waived", "lost"}
  /\ \A q \in Takes : footage[q] = "shot" /\ Holds(d, q) =>
       Holds(d, q)' \/ footage'[q] \in {"waived", "lost"}

LEMMA UnawaitedType ==
  ASSUME NEW d \in Devices, NEW c \in Call
  PROVE  LET u == Unawaited(d, c) IN
         /\ u \in Call /\ u.op = c.op /\ u.by = c.by /\ u.take = c.take /\ u.key = c.key
         /\ u.loaded = c.loaded /\ (u.by = d => ~u.awaited) /\ (u.by # d => u = c)
BY DEF Unawaited, Call

LEMMA LosePageInv ==
  ASSUME EvidenceInv, NEW d \in Devices, LosePage(d)
  PROVE  EvidenceInv'
<1>1. /\ row' = row /\ used' = used /\ bucket' = bucket /\ work' = work /\ scene' = scene
      /\ kept' = kept /\ screen' \in [Devices -> Screen]
      /\ \A e \in Devices : e # d => screen'[e] = screen[e]
      /\ screen'[d].at \in {"failed", "broken", "loading"}
      /\ screen'[d].take \in {screen[d].take, NoTake}
      /\ screen'[d].at = "failed" => screen'[d].take = NoTake
  BY DEF LosePage
<1>2. /\ footage' \in [Takes -> {"none", "shot", "waived", "lost"}]
      /\ \A q \in Takes : /\ footage[q] \in {"waived", "lost"} => footage'[q] \in {"waived", "lost"}
                          /\ row[q].status = "none" => footage'[q] = footage[q]
                          /\ footage'[q] # footage[q] => footage'[q] \in {"waived", "lost"}
  BY DEF LosePage, Started
<1>3. \A u \in calls' : \E c \in calls : u = Unawaited(d, c)
  BY DEF LosePage
<1>4. \A c \in calls :
        LET u == Unawaited(d, c) IN
        /\ u \in Call /\ u.op = c.op /\ u.by = c.by /\ u.take = c.take /\ u.key = c.key
        /\ u.loaded = c.loaded /\ (u.by = d => ~u.awaited) /\ (u.by # d => u = c)
  BY Parts, UnawaitedType
<1>5. TypeOK'
  BY <1>1, <1>2, <1>3, <1>4, Parts DEF TypeOK, LosePage
<1>6. UnusedInv'
  BY <1>1, <1>2, <1>3, <1>4, Parts, RecordingsAssumption DEF UnusedInv
<1>7. PageInv'
  BY <1>1, Parts DEF PageInv, PagePoint, LosePage
<1>8. AwaitedInv'
  <2> SUFFICES ASSUME NEW u \in calls'
               PROVE /\ u.op # "start" => u.take \in Takes
                     /\ u.awaited =>
                          /\ screen'[u.by].at = PointOf(u.op) /\ u.op # "delete"
                          /\ u.op \in {"mark", "save"} => screen'[u.by].take = u.take
                          /\ \A v \in calls' : v.awaited /\ v.by = u.by => v = u
    BY DEF AwaitedInv, PointOf
  <2>1. PICK c \in calls : u = Unawaited(d, c)
    BY <1>3
  <2>2. u.op # "start" => u.take \in Takes
    BY <2>1, <1>4, Parts
  <2>3. ASSUME u.awaited
        PROVE  u = c /\ u.by # d
    BY <2>1, <2>3, <1>4
  <2>4. ASSUME u.awaited, NEW v \in calls', v.awaited, v.by = u.by
        PROVE  v = u
    <3>1. PICK b \in calls : v = Unawaited(d, b)
      BY <1>3
    <3>2. v = b /\ u = c
      BY <2>3, <2>4, <3>1, <1>4
    <3> QED
      BY <2>4, <3>2, Parts DEF AwaitedInv
  <2> QED
    BY <1>1, <2>2, <2>3, <2>4, Parts DEF AwaitedInv
<1>9. SaveInv'
  <2> SUFFICES ASSUME NEW u \in calls', u.op = "save"
               PROVE /\ u.key \in 1..MaxKeys /\ <<u.take, u.key>> \in bucket
                     /\ row[u.take].key # u.key /\ Alive(u.take)'
                     /\ \A v \in calls' : v.op = "save" /\ v.take = u.take /\ v.key = u.key
                          => v = u
    BY <1>1 DEF SaveInv
  <2>1. PICK c \in calls : u = Unawaited(d, c)
    BY <1>3
  <2>2. /\ c.key \in 1..MaxKeys /\ <<c.take, c.key>> \in bucket
        /\ row[c.take].key # c.key /\ Alive(c.take) /\ c.take \in Takes
        /\ \A b \in calls : b.op = "save" /\ b.take = c.take /\ b.key = c.key => b = c
    BY <2>1, <1>4, Parts DEF SaveInv
  <2>3. ASSUME NEW v \in calls', v.op = "save", v.take = u.take, v.key = u.key
        PROVE  v = u
    <3>1. PICK b \in calls : v = Unawaited(d, b)
      BY <1>3
    <3>2. b = c
      BY <2>1, <2>2, <2>3, <3>1, <1>4
    <3> QED
      BY <2>1, <3>1, <3>2
  <2>4. Alive(c.take)'
    BY <1>1, <1>2, <2>2 DEF Alive, Waived
  <2> QED
    BY <1>4, <2>1, <2>2, <2>3, <2>4 DEF Alive, Waived
<1>10. FirstInv'
  <2> SUFFICES ASSUME NEW e \in Devices, FirstUpload(e)'
               PROVE /\ CanUpload(screen[e].take)'
                     /\ \A g \in Devices : /\ screen'[e].take \notin kept'[g]
                                           /\ g # e => screen'[g].take # screen'[e].take
                     /\ \A c \in calls' : c.take = screen'[e].take /\ c.op = "save" =>
                          /\ c.by = e /\ c.awaited
                          /\ c.loaded \in Resumable \cup {"unread"} \/ Waived(screen[e].take)'
    BY DEF FirstInv
  <2>1. /\ e # d /\ screen'[e] = screen[e] /\ FirstUpload(e) /\ screen[e].take \in Takes
    BY <1>1, Parts DEF FirstUpload, PageInv, PagePoint
  <2>2. /\ CanUpload(screen[e].take)
        /\ \A g \in Devices : /\ screen[e].take \notin kept[g]
                              /\ g # e => screen[g].take # screen[e].take
        /\ \A c \in calls : c.take = screen[e].take /\ c.op = "save" =>
             /\ c.by = e /\ c.awaited
             /\ c.loaded \in Resumable \cup {"unread"} \/ Waived(screen[e].take)
    BY <2>1, Parts DEF FirstInv
  <2>3. CanUpload(screen[e].take)'
    BY <1>1, <1>2, <2>1, <2>2 DEF CanUpload, Waived, Resumable
  <2>4. \A g \in Devices : /\ screen'[e].take \notin kept'[g]
                           /\ g # e => screen'[g].take # screen'[e].take
    BY <1>1, <2>1, <2>2, RecordingsAssumption
  <2>5. ASSUME NEW u \in calls', u.take = screen'[e].take, u.op = "save"
        PROVE  /\ u.by = e /\ u.awaited
               /\ u.loaded \in Resumable \cup {"unread"} \/ Waived(screen[e].take)'
    <3>1. PICK c \in calls : u = Unawaited(d, c)
      BY <1>3
    <3>2. c.by = e /\ c.awaited /\ u = c
      BY <2>1, <2>2, <2>5, <3>1, <1>4
    <3> QED
      BY <1>2, <2>1, <2>2, <2>5, <3>2 DEF Waived
  <2> QED
    BY <2>3, <2>4, <2>5
<1>11. ShownInv'
  <2> SUFFICES ASSUME NEW e \in Devices, e # d
               PROVE LET r == screen[e].take IN
                     (/\ screen[e].at \in {"putting", "saving"} => Alive(r)
                      /\ screen[e].at = "saved" /\ footage[r] = "shot" => InLibrary(r)
                      /\ screen[e].at = "failed" /\ ~screen[e].retry /\ r # NoTake
                           => Waived(r))'
    BY <1>1 DEF ShownInv
  <2>1. screen'[e] = screen[e]
    BY <1>1
  <2>2. /\ screen[e].at \in {"putting", "saving"} => Alive(screen[e].take)
        /\ screen[e].at = "saved" /\ footage[screen[e].take] = "shot"
             => InLibrary(screen[e].take)
        /\ screen[e].at = "failed" /\ ~screen[e].retry /\ screen[e].take # NoTake
             => Waived(screen[e].take)
        /\ screen[e].take \in Takes \cup {NoTake}
        /\ screen[e].at \in {"putting", "saving", "saved"} => screen[e].take \in Takes
    BY <2>1, Parts DEF ShownInv, PageInv, PagePoint
  <2> QED
    BY <1>1, <1>2, <2>1, <2>2 DEF Alive, Waived, InLibrary
<1>12. SweepingInv'
  <2> SUFFICES ASSUME NEW q \in work.sweeping
               PROVE /\ row[q].status \in {"FAILED", "DELETED"}
                     /\ \A e \in Devices : screen'[e].take # q
                     /\ \A u \in calls' : u.take = q => u.op \notin {"mark", "save"}
    BY <1>1 DEF SweepingInv
  <2>1. /\ row[q].status \in {"FAILED", "DELETED"} /\ q \in Takes
        /\ \A e \in Devices : screen[e].take # q
        /\ \A c \in calls : c.take = q => c.op \notin {"mark", "save"}
    BY Parts DEF SweepingInv
  <2> QED
    BY <1>1, <1>3, <1>4, <2>1, RecordingsAssumption
<1>13. DeletedInv'
  BY <1>1, <1>2, <1>3, <1>4, Parts DEF DeletedInv, Waived
<1>14. EvidenceKept'
  <2> SUFFICES ASSUME NEW q \in Takes, footage'[q] = "shot"
               PROVE  InLibrary(q)' \/ \E e \in Devices : Holds(e, q)'
    BY DEF EvidenceKept, InMemory, Holds
  <2>1. footage[q] = "shot"
    BY <1>2
  <2>2. InLibrary(q) => InLibrary(q)'
    BY <1>1 DEF InLibrary
  <2>3. CASE \E e \in Devices : Holds(e, q)
    <3>1. PICK e \in Devices : Holds(e, q)
      BY <2>3
    <3>2. CASE e = d
      BY <2>1, <3>1, <3>2 DEF LosePage
    <3>3. CASE e # d
      BY <1>1, <3>1, <3>3 DEF Holds
    <3> QED
      BY <3>2, <3>3
  <2> QED
    BY <2>1, <2>2, <2>3, Parts, HeldEvidence
<1>15. PurgingInv'
  BY <1>1, <1>3, <1>4, Parts DEF PurgingInv
<1> QED
  BY <1>5, <1>6, <1>7, <1>8, <1>9, <1>10, <1>11, <1>12, <1>13, <1>14, <1>15 DEF EvidenceInv

\* The network fails the page, or the operator cancels the upload.
LEMMA GiveUpInv ==
  ASSUME EvidenceInv, NEW d \in Devices, GiveUp(d)
  PROVE  EvidenceInv'
<1> DEFINE point == IF screen[d].at \in {"starting", "clearing"} THEN "failed" ELSE "broken"
<1>1. /\ screen[d].at \in {"starting", "clearing", "marking", "saving", "putting"}
      /\ screen[d].at \in {"starting", "clearing"} => screen[d].take = NoTake
      /\ screen[d].at \notin {"starting", "clearing"} => screen[d].take \in Takes
  BY Parts DEF GiveUp, Waiting, PageInv, PagePoint
<1>2. screen' = [screen EXCEPT ![d].at = point]
  BY DEF GiveUp, Show
<1>3. point \in {"failed", "broken"} /\ (point = "failed" <=> screen[d].at \in {"starting", "clearing"})
  OBVIOUS
<1>4. calls' = {Unawaited(d, c) : c \in calls}
  BY DEF GiveUp, Unawaited
<1>5. /\ row' = row /\ used' = used /\ bucket' = bucket /\ work' = work /\ scene' = scene
      /\ mishaps' = mishaps /\ footage' = footage /\ kept' = kept
  BY DEF GiveUp, Server
<1> HIDE DEF point
<1>6. /\ screen'[d].at = point /\ screen'[d].take = screen[d].take
      /\ screen'[d].retry = screen[d].retry
      /\ \A e \in Devices : e # d => screen'[e] = screen[e]
      /\ screen' \in [Devices -> Screen]
  BY <1>2, <1>3, Parts DEF Screen, Points
<1>7. PagePoint(d)' /\ \A q \in Takes : Holds(d, q) => Holds(d, q)'
  BY <1>1, <1>3, <1>5, <1>6, RecordingsAssumption DEF PagePoint, Holds
<1>8. LosePage(d)
  BY <1>1, <1>3, <1>4, <1>5, <1>6, <1>7, Parts DEF LosePage, TypeOK
<1> QED
  BY <1>8, LosePageInv

\* The tab is closed: a video only in its memory is given up.
LEMMA CloseTabInv ==
  ASSUME EvidenceInv, NEW d \in Devices, CloseTab(d)
  PROVE  EvidenceInv'
<1> DEFINE r == screen[d].take
<1>1. r \in Takes \cup {NoTake} /\ (r \in Takes => Started(r))
  BY Parts DEF UnusedInv, Started
<1>2. screen' = [screen EXCEPT ![d] = [IdleScreen EXCEPT !.at = "loading"]]
  BY DEF CloseTab
<1>3. calls' = {Unawaited(d, c) : c \in calls}
  BY DEF CloseTab, Unawaited
<1>4. /\ row' = row /\ used' = used /\ bucket' = bucket /\ work' = work /\ scene' = scene
      /\ mishaps' \in 0..MaxMishaps /\ kept' = kept
  BY Parts, RecordingsAssumption DEF CloseTab, Mishap, Server, TypeOK
<1>5. /\ screen'[d].at = "loading" /\ screen'[d].take = NoTake /\ ~screen'[d].retry
      /\ \A e \in Devices : e # d => screen'[e] = screen[e]
      /\ screen' \in [Devices -> Screen]
  BY <1>2, Parts DEF Screen, Points, IdleScreen
<1>6. /\ footage' \in [Takes -> {"none", "shot", "waived", "lost"}]
      /\ \A q \in Takes : \/ footage'[q] = footage[q]
                          \/ q = r /\ footage'[q] \in {"waived", "lost"}
      /\ r \in Takes /\ ~screen[d].retry /\ screen[d].at # "saved" => footage'[r] \in {"waived", "lost"}
  <2>1. CASE screen[d].retry \/ screen[d].at = "saved" \/ r = NoTake
    <3>1. footage' = footage
      BY <2>1 DEF CloseTab
    <3> QED
      BY <2>1, <3>1, Parts, RecordingsAssumption
  <2>2. CASE ~(screen[d].retry \/ screen[d].at = "saved" \/ r = NoTake)
    <3>1. footage' = [footage EXCEPT ![r] = "waived"] /\ r \in Takes
      BY <1>1, <2>2 DEF CloseTab, GiveUpOn
    <3> QED
      BY <3>1, Parts
  <2> QED
    BY <2>1, <2>2
<1>7. PagePoint(d)'
  BY <1>5 DEF PagePoint
<1>8. \A q \in Takes : footage[q] = "shot" /\ Holds(d, q) =>
        Holds(d, q)' \/ footage'[q] \in {"waived", "lost"}
  BY <1>4, <1>6 DEF Holds
<1>9. LosePage(d)
  BY <1>1, <1>3, <1>4, <1>5, <1>6, <1>7, <1>8 DEF LosePage
<1> QED
  BY <1>9, LosePageInv

\* uploadFile: the object is stored under a key nobody uses, and a request that
\* saves it is sent.
LEMMA PutObjectInv ==
  ASSUME EvidenceInv, NEW d \in Devices, PutObject(d)
  PROVE  EvidenceInv'
<1> DEFINE r == screen[d].take
<1>1. /\ r \in Takes /\ screen[d].at = "putting" /\ Started(r) /\ Alive(r)
      /\ r \notin work.sweeping
  BY Parts DEF PutObject, PageInv, PagePoint, UnusedInv, Started, ShownInv, SweepingInv
<1>2. /\ row' = row /\ used' = used /\ work' = work /\ kept' = kept /\ footage' = footage
      /\ mishaps' = mishaps /\ scene' = scene
  BY DEF PutObject
<1>3. ASSUME NEW point \in {"broken", "saving"}, Show(d, point)
      PROVE  /\ screen' \in [Devices -> Screen]
             /\ \A e \in Devices : e # d => screen'[e] = screen[e]
             /\ screen'[d].at = point /\ screen'[d].take = screen[d].take
             /\ screen'[d].retry = screen[d].retry /\ PagePoint(d)'
             /\ \A q \in Takes : Holds(d, q) => Holds(d, q)'
  <2>1. screen' = [screen EXCEPT ![d].at = point]
    BY <1>3 DEF Show
  <2>2. /\ screen' \in [Devices -> Screen]
        /\ \A e \in Devices : e # d => screen'[e] = screen[e]
        /\ screen'[d].at = point /\ screen'[d].take = screen[d].take
        /\ screen'[d].retry = screen[d].retry
    BY <2>1, Parts DEF Screen, Points
  <2> QED
    BY <1>1, <1>2, <2>2 DEF PagePoint, Holds
<1>4. CASE used + 1 > Quota
  <2>1. Show(d, "broken") /\ bucket' = bucket /\ calls' = calls \cup {}
    BY <1>4 DEF PutObject
  <2>2. PageStep(d, {})
    BY <1>1, <1>2, <1>3, <2>1, Parts DEF PageStep, TypeOK, Waiting, FirstUpload
  <2> QED
    BY <2>2, PageStepInv
<1>5. CASE ~(used + 1 > Quota)
  <2>1. PICK n \in 1..MaxKeys \ UsedKeys(r) :
          /\ bucket' = bucket \cup {<<r, n>>}
          /\ Send(Request(d, "save", r, n, TRUE))
          /\ Show(d, "saving")
    BY <1>5 DEF PutObject
  <2> DEFINE new == Request(d, "save", r, n, TRUE)
  <2>2. /\ new \in Call /\ new.op = "save" /\ new.by = d /\ new.take = r /\ new.key = n
        /\ new.awaited /\ new.loaded = "unread"
    BY <1>1, RecordingsAssumption DEF Request, Call
  <2>3. calls' = calls \cup {new}
    BY <2>1 DEF Send
  <2> HIDE DEF new
  <2>4. /\ n \in 1..MaxKeys /\ row[r].key # n /\ <<r, n>> \notin work.purging
        /\ \A c \in calls : ~(c.take = r /\ c.key = n)
    BY <2>1 DEF UsedKeys
  <2>5. /\ screen' \in [Devices -> Screen]
        /\ \A e \in Devices : e # d => screen'[e] = screen[e]
        /\ screen'[d].at = "saving" /\ screen'[d].take = screen[d].take
        /\ screen'[d].retry = screen[d].retry /\ PagePoint(d)'
        /\ \A q \in Takes : Holds(d, q) => Holds(d, q)'
    BY <1>3, <2>1
  <2>6. \A c \in calls : c.awaited => c.by # d
    BY <1>1, Parts DEF AwaitedInv, PointOf
  <2>7. bucket \subseteq bucket' /\ <<r, n>> \in bucket'
    BY <2>1
  <2>8. TypeOK'
    <3>1. bucket' \subseteq Takes \X (1..MaxKeys)
      BY <1>1, <2>1, Parts DEF TypeOK
    <3> QED
      BY <1>2, <2>2, <2>3, <2>5, <3>1, Parts DEF TypeOK
  <2>9. UnusedInv'
    BY <1>1, <1>2, <2>2, <2>3, <2>5, Parts DEF UnusedInv, Started
  <2>10. PageInv'
    BY <2>5, Parts DEF PageInv, PagePoint
  <2>11. AwaitedInv'
    BY <1>1, <2>2, <2>3, <2>5, <2>6, Parts DEF AwaitedInv, PointOf
  <2>12. SaveInv'
    <3>1. Alive(r)'
      BY <1>1, <1>2, <2>5 DEF Alive, Waived
    <3>2. \A c \in calls : c.op = "save" => Alive(c.take)'
      BY <1>2, Parts DEF SaveInv, Alive, Waived
    <3> QED
      BY <1>2, <2>2, <2>3, <2>4, <2>5, <2>7, <3>1, <3>2, Parts DEF SaveInv, Alive, Waived
  <2>13. FirstInv'
    <3> SUFFICES ASSUME NEW e \in Devices, FirstUpload(e)'
                 PROVE /\ CanUpload(screen[e].take)'
                       /\ \A g \in Devices : /\ screen'[e].take \notin kept'[g]
                                             /\ g # e => screen'[g].take # screen'[e].take
                       /\ \A c \in calls' : c.take = screen'[e].take /\ c.op = "save" =>
                            /\ c.by = e /\ c.awaited
                            /\ c.loaded \in Resumable \cup {"unread"}
                                 \/ Waived(screen[e].take)'
      BY DEF FirstInv
    <3>1. FirstUpload(e) /\ screen'[e].take = screen[e].take
      BY <1>1, <2>5 DEF FirstUpload
    <3>2. /\ CanUpload(screen[e].take)
          /\ \A g \in Devices : /\ screen[e].take \notin kept[g]
                                /\ g # e => screen[g].take # screen[e].take
          /\ \A c \in calls : c.take = screen[e].take /\ c.op = "save" =>
               /\ c.by = e /\ c.awaited
               /\ c.loaded \in Resumable \cup {"unread"} \/ Waived(screen[e].take)
      BY <3>1, Parts DEF FirstInv
    <3>3. CanUpload(screen[e].take)'
      BY <1>2, <3>1, <3>2 DEF CanUpload, Waived
    <3>4. \A g \in Devices : screen'[g].take = screen[g].take
      BY <2>5
    <3> QED
      BY <1>2, <2>2, <2>3, <3>1, <3>2, <3>3, <3>4 DEF Waived
  <2>14. ShownInv'
    <3> SUFFICES ASSUME NEW e \in Devices
                 PROVE LET q == screen[e].take IN
                       (/\ screen[e].at \in {"putting", "saving"} => Alive(q)
                        /\ screen[e].at = "saved" /\ footage[q] = "shot" => InLibrary(q)
                        /\ screen[e].at = "failed" /\ ~screen[e].retry /\ q # NoTake
                             => Waived(q))'
      BY DEF ShownInv
    <3>1. CASE e = d
      <4>1. Alive(screen[d].take)'
        BY <1>1, <1>2, <2>5 DEF Alive, Waived
      <4> QED
        BY <2>5, <3>1, <4>1
    <3>2. CASE e # d
      <4>1. screen'[e] = screen[e]
        BY <2>5, <3>2
      <4> QED
        BY <1>2, <2>7, <4>1, Parts DEF ShownInv, Alive, Waived, InLibrary
    <3> QED
      BY <3>1, <3>2
  <2>15. SweepingInv' /\ DeletedInv'
    <3>1. \A e \in Devices : screen'[e].take = screen[e].take
      BY <2>5
    <3> QED
      BY <1>1, <1>2, <2>2, <2>3, <3>1, Parts DEF SweepingInv, DeletedInv, Waived
  <2>16. EvidenceKept'
    <3> SUFFICES ASSUME NEW q \in Takes, footage'[q] = "shot"
                 PROVE  InLibrary(q)' \/ \E e \in Devices : Holds(e, q)'
      BY DEF EvidenceKept, InMemory, Holds
    <3>1. InLibrary(q) => InLibrary(q)'
      BY <1>2, <2>7 DEF InLibrary
    <3>2. \A e \in Devices : Holds(e, q) => Holds(e, q)'
      BY <1>2, <2>5 DEF Holds
    <3> QED
      BY <1>2, <3>1, <3>2, Parts, HeldEvidence
  <2>17. PurgingInv'
    BY <1>2, <2>2, <2>3, <2>4, Parts DEF PurgingInv
  <2> QED
    BY <2>8, <2>9, <2>10, <2>11, <2>12, <2>13, <2>14, <2>15, <2>16, <2>17 DEF EvidenceInv
<1> QED
  BY <1>4, <1>5

-----------------------------------------------------------------------------
(* The recording API.                                                      *)

\* A request is over.  It has not changed its recording but for its being under
\* way or failed, and the page that waits is told of a failure, a conflict, that
\* it may ask again, or that it may upload.
AnswerStep(c) ==
  /\ row' \in [Takes -> Row]
  /\ \A q \in Takes :
       /\ row'[q].key = row[q].key /\ row'[q].deleted = row[q].deleted
       /\ \/ row'[q].status = row[q].status
          \/ /\ row[q].status \in Resumable /\ ~row[q].deleted
             /\ row'[q].status \in Resumable
             /\ row'[q].status = "FAILED" \/ q \notin work.sweeping
  /\ used' = used /\ bucket' = bucket /\ work' = work /\ scene' = scene
  /\ kept' = kept /\ mishaps' \in 0..MaxMishaps
  /\ calls' = calls \ {c}
  /\ screen' \in [Devices -> Screen] /\ (~c.awaited => screen' = screen)
  /\ \A e \in Devices : e # c.by => screen'[e] = screen[e]
  /\ c.awaited =>
       /\ screen'[c.by].retry = screen[c.by].retry
       /\ screen'[c.by].at \in {"failed", "conflict", "cleared", "broken", "putting"}
       /\ screen'[c.by].take \in {screen[c.by].take, NoTake} /\ PagePoint(c.by)'
       /\ screen'[c.by].at = "failed" /\ ~screen'[c.by].retry /\ screen'[c.by].take # NoTake
            => footage'[screen'[c.by].take] \in {"waived", "lost"}
       /\ c.op \in {"mark", "save"} => /\ screen'[c.by].take = screen[c.by].take
                                       /\ screen'[c.by].at \in {"failed", "broken", "putting"}
       /\ screen'[c.by].at = "putting" => c.op = "mark" /\ ~row[screen[c.by].take].deleted
  /\ footage' \in [Takes -> {"none", "shot", "waived", "lost"}]
  /\ \A q \in Takes : \/ footage'[q] = footage[q]
                      \/ Started(q) /\ footage'[q] \in {"waived", "lost"}

LEMMA AnswerStepInv ==
  ASSUME EvidenceInv, NEW c \in calls, AnswerStep(c)
  PROVE  EvidenceInv'
<1>0. /\ row' \in [Takes -> Row]
      /\ \A q \in Takes :
           /\ row'[q].key = row[q].key /\ row'[q].deleted = row[q].deleted
           /\ \/ row'[q].status = row[q].status
              \/ /\ row[q].status \in Resumable /\ ~row[q].deleted
                 /\ row'[q].status \in Resumable
                 /\ row'[q].status = "FAILED" \/ q \notin work.sweeping
  BY DEF AnswerStep
<1>1. /\ used' = used /\ bucket' = bucket /\ work' = work /\ scene' = scene
      /\ kept' = kept /\ screen' \in [Devices -> Screen] /\ calls' = calls \ {c}
      /\ ~c.awaited => screen' = screen
      /\ \A e \in Devices : e # c.by => screen'[e] = screen[e]
      /\ \A e \in Devices : screen'[e].take \in {screen[e].take, NoTake}
  BY DEF AnswerStep
<1>2. /\ footage' \in [Takes -> {"none", "shot", "waived", "lost"}]
      /\ \A q \in Takes : /\ footage[q] \in {"waived", "lost"} => footage'[q] \in {"waived", "lost"}
                          /\ row[q].status = "none" => footage'[q] = footage[q]
                          /\ footage'[q] # footage[q] => footage'[q] \in {"waived", "lost"}
  BY DEF AnswerStep, Started
<1>3. c.by \in Devices /\ c \in Call
  BY Parts
<1>4. c.awaited => \A b \in calls' : b.awaited => b.by # c.by
  BY <1>1, Parts DEF AwaitedInv
<1>14. \A q \in Takes :
         /\ row'[q].key = row[q].key /\ row'[q].deleted = row[q].deleted
         /\ row'[q].status = "none" => row[q].status = "none"
         /\ row'[q].status = "PENDING_DELETE" => row[q].status = "PENDING_DELETE"
         /\ row[q].status = "COMPLETED" => row'[q].status = "COMPLETED"
         /\ row[q].status \in Resumable => row'[q].status \in Resumable
         /\ q \in work.sweeping /\ row[q].status \in {"FAILED", "DELETED"}
              => row'[q].status \in {"FAILED", "DELETED"}
  BY <1>0 DEF Resumable
<1>5. TypeOK'
  BY <1>0, <1>1, <1>2, Parts DEF TypeOK, AnswerStep
<1>6. UnusedInv'
  BY <1>1, <1>2, <1>14, Parts, RecordingsAssumption DEF UnusedInv
<1>7. PageInv'
  BY <1>1, <1>3, Parts DEF PageInv, PagePoint, AnswerStep
<1>8. AwaitedInv'
  BY <1>1, <1>3, <1>4, Parts DEF AwaitedInv, PointOf
<1>9. SaveInv'
  <2>2. \A b \in calls : b.op = "save" => b.take \in Takes /\ Alive(b.take)
    BY Parts DEF SaveInv
  <2>1. \A b \in calls : b.op = "save" => Alive(b.take)'
    BY <1>2, <1>14, <2>2 DEF Alive, Waived
  <2> QED
    BY <1>1, <1>14, <2>1, Parts DEF SaveInv, Alive, Waived
<1>10. FirstInv'
  <2> SUFFICES ASSUME NEW e \in Devices, FirstUpload(e)'
               PROVE /\ CanUpload(screen[e].take)'
                     /\ \A g \in Devices : /\ screen'[e].take \notin kept'[g]
                                           /\ g # e => screen'[g].take # screen'[e].take
                     /\ \A b \in calls' : b.take = screen'[e].take /\ b.op = "save" =>
                          /\ b.by = e /\ b.awaited
                          /\ b.loaded \in Resumable \cup {"unread"} \/ Waived(screen[e].take)'
    BY DEF FirstInv
  <2>1. /\ FirstUpload(e) /\ screen'[e].take = screen[e].take /\ screen[e].take \in Takes
    <3>1. CASE c.awaited /\ e = c.by
      <4>1. screen'[e].at = "putting" /\ ~screen[e].retry /\ c.op = "mark"
        BY <3>1 DEF FirstUpload, AnswerStep
      <4>2. screen[e].at = "marking" /\ screen'[e].take = screen[e].take
        BY <3>1, <4>1, Parts DEF AwaitedInv, PointOf, AnswerStep
      <4> QED
        BY <4>1, <4>2, Parts DEF FirstUpload, PageInv, PagePoint
    <3>2. CASE ~(c.awaited /\ e = c.by)
      BY <1>1, <3>2, Parts DEF FirstUpload, PageInv, PagePoint
    <3> QED
      BY <3>1, <3>2
  <2>2. /\ CanUpload(screen[e].take)
        /\ \A g \in Devices : /\ screen[e].take \notin kept[g]
                              /\ g # e => screen[g].take # screen[e].take
        /\ \A b \in calls : b.take = screen[e].take /\ b.op = "save" =>
             /\ b.by = e /\ b.awaited
             /\ b.loaded \in Resumable \cup {"unread"} \/ Waived(screen[e].take)
    BY <2>1, Parts DEF FirstInv
  <2>3. CanUpload(screen[e].take)'
    BY <1>2, <1>14, <2>1, <2>2 DEF CanUpload, Waived
  <2>4. \A g \in Devices : /\ screen'[e].take \notin kept'[g]
                           /\ g # e => screen'[g].take # screen'[e].take
    BY <1>1, <2>1, <2>2, RecordingsAssumption
  <2> QED
    BY <1>1, <1>2, <2>1, <2>2, <2>3, <2>4 DEF Waived
<1>11. ShownInv'
  <2> SUFFICES ASSUME NEW e \in Devices
               PROVE LET r == screen[e].take IN
                     (/\ screen[e].at \in {"putting", "saving"} => Alive(r)
                      /\ screen[e].at = "saved" /\ footage[r] = "shot" => InLibrary(r)
                      /\ screen[e].at = "failed" /\ ~screen[e].retry /\ r # NoTake
                           => Waived(r))'
    BY DEF ShownInv
  <2>1. CASE c.awaited /\ e = c.by
    <3>1. screen'[e].at = "putting" => Alive(screen[e].take)'
      BY <1>14, <2>1, Parts DEF AnswerStep, Alive, AwaitedInv
    <3> QED
      BY <2>1, <3>1 DEF AnswerStep, Waived
  <2>2. CASE ~(c.awaited /\ e = c.by)
    <3>1. screen'[e] = screen[e]
      BY <1>1, <2>2
    <3>2. /\ screen[e].at \in {"putting", "saving"} => Alive(screen[e].take)
          /\ screen[e].at = "saved" /\ footage[screen[e].take] = "shot"
               => InLibrary(screen[e].take)
          /\ screen[e].at = "failed" /\ ~screen[e].retry /\ screen[e].take # NoTake
               => Waived(screen[e].take)
          /\ screen[e].take \in Takes \cup {NoTake}
          /\ screen[e].at \in {"putting", "saving", "saved"} => screen[e].take \in Takes
      BY Parts DEF ShownInv, PageInv, PagePoint
    <3> QED
      BY <1>1, <1>2, <1>14, <3>1, <3>2 DEF Alive, Waived, InLibrary
  <2> QED
    BY <2>1, <2>2
<1>12. SweepingInv' /\ DeletedInv'
  BY <1>1, <1>2, <1>14, Parts, RecordingsAssumption DEF SweepingInv, DeletedInv, Waived
<1>13. EvidenceKept'
  <2> SUFFICES ASSUME NEW q \in Takes, footage'[q] = "shot"
               PROVE  InLibrary(q)' \/ \E e \in Devices : Holds(e, q)'
    BY DEF EvidenceKept, InMemory, Holds
  <2>1. footage[q] = "shot"
    BY <1>2
  <2>2. InLibrary(q) => InLibrary(q)'
    BY <1>1, <1>14 DEF InLibrary
  <2>3. ASSUME NEW e \in Devices, Holds(e, q) PROVE Holds(e, q)'
    <3>1. CASE c.awaited /\ e = c.by /\ q \notin kept[e]
      <4>1. /\ screen[e].take = q /\ ~screen[e].retry
            /\ screen[e].at \in {"marking", "putting", "saving", "broken", "failed"}
        BY <2>3, <3>1 DEF Holds
      <4>2. c.op \in {"mark", "save"}
        BY <3>1, <4>1, Parts DEF AwaitedInv, PointOf, Call
      <4> QED
        BY <3>1, <4>1, <4>2 DEF AnswerStep, Holds
    <3>2. CASE ~(c.awaited /\ e = c.by)
      BY <1>1, <2>3, <3>2 DEF Holds
    <3>3. CASE q \in kept[e]
      BY <1>1, <3>3 DEF Holds
    <3> QED
      BY <3>1, <3>2, <3>3
  <2> QED
    BY <2>1, <2>2, <2>3, Parts, HeldEvidence
<1>15. PurgingInv'
  BY <1>0, <1>1, Parts DEF PurgingInv
<1> QED
  BY <1>5, <1>6, <1>7, <1>8, <1>9, <1>10, <1>11, <1>12, <1>13, <1>15 DEF EvidenceInv

LEMMA Answered ==
  ASSUME EvidenceInv, NEW c \in calls, NEW point \in Points, NEW r \in Takes \cup {NoTake},
         Answer(c, point, r)
  PROVE  /\ calls' = calls \ {c} /\ screen' \in [Devices -> Screen]
         /\ ~c.awaited => screen' = screen
         /\ \A e \in Devices : e # c.by => screen'[e] = screen[e]
         /\ c.awaited => /\ screen'[c.by].at = point /\ screen'[c.by].take = r
                         /\ screen'[c.by].retry = screen[c.by].retry
<1>1. c.by \in Devices /\ screen \in [Devices -> Screen] /\ calls' = calls \ {c}
  BY Parts DEF Answer
<1>2. CASE c.awaited
  <2> DEFINE told == [screen EXCEPT ![c.by].at = point]
  <2>1. screen' = [told EXCEPT ![c.by].take = r]
    BY <1>2 DEF Answer
  <2>2. /\ told \in [Devices -> Screen] /\ told[c.by].at = point
        /\ told[c.by].retry = screen[c.by].retry
        /\ \A e \in Devices : e # c.by => told[e] = screen[e]
    BY <1>1 DEF Screen
  <2> HIDE DEF told
  <2> QED
    BY <1>1, <1>2, <2>1, <2>2 DEF Screen
<1>3. CASE ~c.awaited
  BY <1>1, <1>3 DEF Answer
<1> QED
  BY <1>2, <1>3

\* What a waiting page shows while a request of its own is under way.
LEMMA WaitingPage ==
  ASSUME EvidenceInv, NEW c \in calls, c.awaited
  PROVE  /\ c.by \in Devices /\ c.op \in {"start", "mark", "save", "cancel"}
         /\ c.op = "start" => screen[c.by].at = "starting"
         /\ c.op = "mark" => screen[c.by].at = "marking"
         /\ c.op = "save" => screen[c.by].at = "saving"
         /\ c.op = "cancel" => screen[c.by].at = "clearing"
         /\ c.op \in {"start", "cancel"} => screen[c.by].take = NoTake /\ ~screen[c.by].retry
         /\ c.op \in {"mark", "save"} => screen[c.by].take = c.take /\ c.take \in Takes
BY Parts DEF AwaitedInv, PointOf, Call, PageInv, PagePoint

\* A request that is lost.
LEMMA DropCallInv ==
  ASSUME EvidenceInv, NEW c \in calls, DropCall(c)
  PROVE  EvidenceInv'
<1> DEFINE point == IF c.op \in {"start", "cancel"} THEN "failed" ELSE "broken"
<1>1. /\ row' = row /\ used' = used /\ bucket' = bucket /\ work' = work /\ scene' = scene
      /\ kept' = kept /\ footage' = footage /\ mishaps' = mishaps /\ calls' = calls \ {c}
  BY DEF DropCall, Server
<1>2. /\ c.awaited => screen' = [screen EXCEPT ![c.by].at = point]
      /\ ~c.awaited => screen' = screen
  BY DEF DropCall
<1>3. /\ point \in {"failed", "broken"} /\ (point = "failed" <=> c.op \in {"start", "cancel"})
      /\ c.by \in Devices
  BY Parts
<1> HIDE DEF point
<1>4. /\ screen' \in [Devices -> Screen]
      /\ \A e \in Devices : e # c.by => screen'[e] = screen[e]
      /\ c.awaited => /\ screen'[c.by].at = point /\ screen'[c.by].take = screen[c.by].take
                      /\ screen'[c.by].retry = screen[c.by].retry
  BY <1>2, <1>3, Parts DEF Screen, Points
<1>5. c.awaited => PagePoint(c.by)'
  BY <1>3, <1>4, WaitingPage DEF PagePoint
<1>6. AnswerStep(c)
  BY <1>1, <1>2, <1>3, <1>4, <1>5, WaitingPage, Parts DEF AnswerStep, TypeOK
<1> QED
  BY <1>6, AnswerStepInv

\* An error of the server: the page drops the video of a first upload.
LEMMA ServerFailsInv ==
  ASSUME EvidenceInv, NEW c \in calls, ServerFails(c)
  PROVE  EvidenceInv'
<1>1. /\ row' = row /\ used' = used /\ bucket' = bucket /\ work' = work /\ scene' = scene
      /\ kept' = kept /\ mishaps' \in 0..MaxMishaps
  BY Parts, RecordingsAssumption DEF ServerFails, Mishap, Server, TypeOK
<1>2. /\ c.awaited /\ c.op \in {"mark", "save"} /\ c.by \in Devices /\ c.take \in Takes
      /\ screen[c.by].take = c.take /\ Started(c.take)
  BY Parts, WaitingPage DEF ServerFails, UnusedInv, Started
<1>3. Answer(c, "failed", c.take) /\ "failed" \in Points
  BY DEF ServerFails, Points
<1>4. /\ calls' = calls \ {c} /\ screen' \in [Devices -> Screen]
      /\ \A e \in Devices : e # c.by => screen'[e] = screen[e]
      /\ screen'[c.by].at = "failed" /\ screen'[c.by].take = c.take
      /\ screen'[c.by].retry = screen[c.by].retry
  BY <1>2, <1>3, Answered
<1>5. /\ footage' \in [Takes -> {"none", "shot", "waived", "lost"}]
      /\ \A q \in Takes : footage'[q] = footage[q] \/ (q = c.take /\ footage'[q] \in {"waived", "lost"})
      /\ ~screen[c.by].retry => footage'[c.take] \in {"waived", "lost"}
  BY <1>2, Parts DEF ServerFails, Lose
<1>6. PagePoint(c.by)'
  BY <1>2, <1>4 DEF PagePoint
<1>7. AnswerStep(c)
  BY <1>1, <1>2, <1>4, <1>5, <1>6, Parts DEF AnswerStep
<1> QED
  BY <1>7, AnswerStepInv

\* markUploading: a first upload is refused only when its video was given up.
LEMMA MarkUploadingInv ==
  ASSUME EvidenceInv, PromptWrites, NEW c \in calls, MarkUploading(c)
  PROVE  EvidenceInv'
<1> DEFINE r == c.take
<1>1. /\ c.op = "mark" /\ r \in Takes /\ Started(r) /\ r \notin work.sweeping /\ c.by \in Devices
      /\ Read(c) = Loaded(r)
  BY Parts DEF MarkUploading, UnusedInv, Started, SweepingInv, Read, PromptWrites
<1>2. /\ used' = used /\ bucket' = bucket /\ work' = work /\ scene' = scene
      /\ kept' = kept /\ mishaps' = mishaps /\ footage' = footage
  BY DEF MarkUploading
<1>3. c.awaited => screen[c.by].at = "marking" /\ screen[c.by].take = r
  BY <1>1, WaitingPage
<1>4. CASE MarkAccepted(c)
  <2>1. row[r].status \in Resumable /\ ~row[r].deleted
    BY <1>1, <1>4 DEF MarkAccepted, Loaded, Resumable
  <2>2. row' = [row EXCEPT ![r].status = "UPLOADING"]
    <3>1. CASE Read(c) = "UPLOADING"
      <4>1. row' = row /\ row[r].status = "UPLOADING" /\ row[r] \in Row
        BY <1>1, <1>4, <2>1, <3>1, Parts DEF MarkUploading, Loaded
      <4> QED
        BY <1>1, <4>1, Parts DEF Row
    <3>2. CASE Read(c) # "UPLOADING"
      BY <1>4, <3>2 DEF MarkUploading
    <3> QED
      BY <3>1, <3>2
  <2>3. /\ row' \in [Takes -> Row] /\ row'[r].status = "UPLOADING"
        /\ row'[r].key = row[r].key /\ row'[r].deleted = row[r].deleted
        /\ \A q \in Takes : q # r => row'[q] = row[q]
    BY <1>1, <2>2, Parts DEF Row, Statuses
  <2>4. Answer(c, "putting", r) /\ "putting" \in Points
    BY <1>4 DEF MarkUploading, Points
  <2>5. /\ calls' = calls \ {c} /\ screen' \in [Devices -> Screen]
        /\ ~c.awaited => screen' = screen
        /\ \A e \in Devices : e # c.by => screen'[e] = screen[e]
        /\ c.awaited => /\ screen'[c.by].at = "putting" /\ screen'[c.by].take = r
                        /\ screen'[c.by].retry = screen[c.by].retry
    BY <1>1, <2>4, Answered
  <2>6. c.awaited => PagePoint(c.by)'
    BY <1>1, <2>5 DEF PagePoint
  <2>7. AnswerStep(c)
    BY <1>1, <1>2, <1>3, <2>1, <2>3, <2>5, <2>6, Parts DEF AnswerStep, TypeOK, Resumable
  <2> QED
    BY <2>7, AnswerStepInv
<1>5. CASE ~MarkAccepted(c)
  <2>1. row' = row /\ Answer(c, "failed", r) /\ "failed" \in Points
    BY <1>5 DEF MarkUploading, Points
  <2>2. /\ calls' = calls \ {c} /\ screen' \in [Devices -> Screen]
        /\ ~c.awaited => screen' = screen
        /\ \A e \in Devices : e # c.by => screen'[e] = screen[e]
        /\ c.awaited => /\ screen'[c.by].at = "failed" /\ screen'[c.by].take = r
                        /\ screen'[c.by].retry = screen[c.by].retry
    BY <1>1, <2>1, Answered
  <2>3. c.awaited => PagePoint(c.by)'
    BY <1>1, <2>2 DEF PagePoint
  <2>4. c.awaited /\ ~screen[c.by].retry => footage[r] \in {"waived", "lost"}
    BY <1>1, <1>3, <1>5, Parts
    DEF FirstInv, FirstUpload, CanUpload, Waived, MarkAccepted, Loaded
  <2>5. AnswerStep(c)
    BY <1>1, <1>2, <1>3, <2>1, <2>2, <2>3, <2>4, Parts DEF AnswerStep, TypeOK
  <2> QED
    BY <2>5, AnswerStepInv
<1> QED
  BY <1>4, <1>5

\* markFailed: whoever cancels, the recording can still be uploaded.
LEMMA MarkFailedInv ==
  ASSUME EvidenceInv, PromptWrites, NEW c \in calls, MarkFailed(c)
  PROVE  EvidenceInv'
<1> DEFINE r == c.take
<1>1. /\ c.op = "cancel" /\ r \in Takes /\ Read(c) = Loaded(r) /\ c.by \in Devices
  BY Parts DEF MarkFailed, Read, PromptWrites
<1>2. /\ used' = used /\ bucket' = bucket /\ work' = work /\ scene' = scene
      /\ kept' = kept /\ mishaps' = mishaps /\ footage' = footage
  BY DEF MarkFailed
<1>3. c.awaited => screen[c.by].at = "clearing" /\ ~screen[c.by].retry
  BY <1>1, WaitingPage
<1>4. Answer(c, "cleared", NoTake) /\ "cleared" \in Points
  BY DEF MarkFailed, Points
<1>5. /\ calls' = calls \ {c} /\ screen' \in [Devices -> Screen]
      /\ ~c.awaited => screen' = screen
      /\ \A e \in Devices : e # c.by => screen'[e] = screen[e]
      /\ c.awaited => /\ screen'[c.by].at = "cleared" /\ screen'[c.by].take = NoTake
                      /\ screen'[c.by].retry = screen[c.by].retry
  BY <1>4, Answered
<1>6. c.awaited => PagePoint(c.by)'
  BY <1>3, <1>5 DEF PagePoint
<1>7. /\ row' \in [Takes -> Row]
      /\ \A q \in Takes :
           /\ row'[q].key = row[q].key /\ row'[q].deleted = row[q].deleted
           /\ \/ row'[q].status = row[q].status
              \/ /\ row[q].status \in Resumable /\ ~row[q].deleted
                 /\ row'[q].status = "FAILED"
  <2>1. CASE CancelAccepted(c)
    <3>1. row' = [row EXCEPT ![r].status = "FAILED"]
      BY <2>1 DEF MarkFailed
    <3>2. row[r].status \in Resumable /\ ~row[r].deleted
      BY <1>1, <2>1 DEF CancelAccepted, Loaded, Cancellable, Resumable
    <3> QED
      BY <1>1, <3>1, <3>2, Parts DEF Row, Statuses
  <2>2. CASE ~CancelAccepted(c)
    BY <2>2, Parts DEF MarkFailed
  <2> QED
    BY <2>1, <2>2
<1>8. AnswerStep(c)
  BY <1>1, <1>2, <1>3, <1>5, <1>6, <1>7, Parts DEF AnswerStep, TypeOK, Resumable
<1> QED
  BY <1>8, AnswerStepInv

\* startRecording of the API: a page that still waits has the recording to itself.
LEMMA StartInv ==
  ASSUME EvidenceInv, NEW c \in calls, Start(c)
  PROVE  EvidenceInv'
<1>1. /\ used' = used /\ bucket' = bucket /\ work' = work /\ scene' = scene
      /\ kept' = kept /\ mishaps' = mishaps /\ footage' = footage
      /\ c.op = "start" /\ c.by \in Devices
  BY Parts DEF Start
<1>2. c.awaited => /\ screen[c.by].at = "starting" /\ screen[c.by].take = NoTake
                   /\ ~screen[c.by].retry
  BY <1>1, WaitingPage
<1>3. CASE ~(NoneActive(c) /\ used < Quota)
  <2>1. PICK point \in {"failed", "conflict"} : row' = row /\ Answer(c, point, NoTake)
    BY <1>3 DEF Start
  <2>2. /\ calls' = calls \ {c} /\ screen' \in [Devices -> Screen]
        /\ ~c.awaited => screen' = screen
        /\ \A e \in Devices : e # c.by => screen'[e] = screen[e]
        /\ c.awaited => /\ screen'[c.by].at = point /\ screen'[c.by].take = NoTake
                        /\ screen'[c.by].retry = screen[c.by].retry
    <3>1. point \in Points
      BY DEF Points
    <3> QED
      BY <2>1, <3>1, Answered
  <2>3. c.awaited => PagePoint(c.by)'
    BY <1>2, <2>2 DEF PagePoint
  <2>4. AnswerStep(c)
    BY <1>1, <1>2, <2>1, <2>2, <2>3, Parts DEF AnswerStep, TypeOK
  <2> QED
    BY <2>4, AnswerStepInv
<1>4. CASE NoneActive(c) /\ used < Quota
  <2>1. PICK r \in Takes :
          /\ row[r].status = "none"
          /\ row' = [row EXCEPT ![r].status = "RECORDING"]
          /\ Answer(c, "recording", r)
    BY <1>4, Parts, RecordingsAssumption DEF Start, TypeOK, Scene
  <2>2. /\ calls' = calls \ {c} /\ screen' \in [Devices -> Screen]
        /\ ~c.awaited => screen' = screen
        /\ \A e \in Devices : e # c.by => screen'[e] = screen[e]
        /\ c.awaited => /\ screen'[c.by].at = "recording" /\ screen'[c.by].take = r
                        /\ screen'[c.by].retry = screen[c.by].retry
    <3>1. "recording" \in Points
      BY DEF Points
    <3> QED
      BY <2>1, <3>1, Answered
  <2>3. /\ row' \in [Takes -> Row] /\ row'[r].status = "RECORDING"
        /\ row'[r].deleted = row[r].deleted
        /\ \A q \in Takes : q # r => row'[q] = row[q]
    BY <2>1, Parts DEF Row, Statuses
  <2>4. /\ footage[r] = "none" /\ ~row[r].deleted /\ r \notin work.sweeping
        /\ \A e \in Devices : screen[e].take # r /\ r \notin kept[e]
        /\ \A b \in calls : b.take # r
    BY <2>1, Parts DEF UnusedInv
  <2>5. \A b \in calls : b.awaited /\ b.by = c.by /\ c.awaited => b = c
    BY Parts DEF AwaitedInv
  <2>6. TypeOK'
    BY <1>1, <2>2, <2>3, Parts DEF TypeOK
  <2>7. UnusedInv'
    <3> SUFFICES ASSUME NEW q \in Takes, row'[q].status = "none"
                 PROVE /\ footage[q] = "none" /\ ~row'[q].deleted /\ q \notin work.sweeping
                       /\ \A e \in Devices : screen'[e].take # q /\ q \notin kept[e]
                       /\ \A b \in calls' : b.take # q
      BY <1>1 DEF UnusedInv
    <3>1. q # r /\ row'[q] = row[q]
      BY <2>3
    <3> QED
      BY <2>2, <3>1, Parts DEF UnusedInv
  <2>8. PageInv'
    BY <1>2, <2>2, Parts DEF PageInv, PagePoint
  <2>9. AwaitedInv'
    BY <2>2, <2>5, Parts DEF AwaitedInv, PointOf
  <2>10. SaveInv'
    <3>1. \A b \in calls : b.op = "save" => b.take \in Takes /\ row'[b.take] = row[b.take]
      BY <2>3, <2>4, Parts
    <3> QED
      BY <1>1, <2>2, <3>1, Parts DEF SaveInv, Alive, Waived
  <2>11. FirstInv'
    <3> SUFFICES ASSUME NEW e \in Devices, FirstUpload(e)'
                 PROVE /\ CanUpload(screen[e].take)'
                       /\ \A g \in Devices : /\ screen'[e].take \notin kept[g]
                                             /\ g # e => screen'[g].take # screen'[e].take
                       /\ \A b \in calls' : b.take = screen'[e].take /\ b.op = "save" =>
                            /\ b.by = e /\ b.awaited
                            /\ b.loaded \in Resumable \cup {"unread"}
                                 \/ Waived(screen[e].take)'
      BY <1>1 DEF FirstInv
    <3>1. CASE c.awaited /\ e = c.by
      <4>1. CanUpload(screen[e].take)'
        BY <2>2, <2>3, <2>4, <3>1 DEF CanUpload, Resumable
      <4> QED
        BY <2>2, <2>4, <3>1, <4>1
    <3>2. CASE ~(c.awaited /\ e = c.by)
      <4>1. screen'[e] = screen[e] /\ FirstUpload(e) /\ screen[e].take \in Takes
        BY <2>2, <3>2, Parts DEF FirstUpload, PageInv, PagePoint
      <4>2. /\ CanUpload(screen[e].take)
            /\ \A g \in Devices : /\ screen[e].take \notin kept[g]
                                  /\ g # e => screen[g].take # screen[e].take
            /\ \A b \in calls : b.take = screen[e].take /\ b.op = "save" =>
                 /\ b.by = e /\ b.awaited
                 /\ b.loaded \in Resumable \cup {"unread"} \/ Waived(screen[e].take)
        BY <4>1, Parts DEF FirstInv
      <4>3. screen[e].take # r /\ row'[screen[e].take] = row[screen[e].take]
        BY <2>3, <2>4, <4>1
      <4>4. CanUpload(screen[e].take)'
        BY <1>1, <4>1, <4>2, <4>3 DEF CanUpload, Waived
      <4>5. \A g \in Devices : g # e => screen'[g].take # screen'[e].take
        BY <2>2, <4>1, <4>2, <4>3
      <4> QED
        BY <1>1, <2>2, <4>1, <4>2, <4>4, <4>5 DEF Waived
    <3> QED
      BY <3>1, <3>2
  <2>12. ShownInv'
    <3> SUFFICES ASSUME NEW e \in Devices
                 PROVE LET q == screen[e].take IN
                       (/\ screen[e].at \in {"putting", "saving"} => Alive(q)
                        /\ screen[e].at = "saved" /\ footage[q] = "shot" => InLibrary(q)
                        /\ screen[e].at = "failed" /\ ~screen[e].retry /\ q # NoTake
                             => Waived(q))'
      BY DEF ShownInv
    <3>1. CASE c.awaited /\ e = c.by
      BY <2>2, <3>1
    <3>2. CASE ~(c.awaited /\ e = c.by)
      <4>1. screen'[e] = screen[e]
        BY <2>2, <3>2
      <4>2. /\ screen[e].at \in {"putting", "saving"} => Alive(screen[e].take)
            /\ screen[e].at = "saved" /\ footage[screen[e].take] = "shot"
                 => InLibrary(screen[e].take)
            /\ screen[e].at = "failed" /\ ~screen[e].retry /\ screen[e].take # NoTake
                 => Waived(screen[e].take)
            /\ screen[e].at \in {"putting", "saving", "saved"} => screen[e].take \in Takes
        BY Parts DEF ShownInv, PageInv, PagePoint
      <4>3. screen[e].take \in Takes => row'[screen[e].take] = row[screen[e].take]
        BY <2>3, <2>4
      <4> QED
        BY <1>1, <4>1, <4>2, <4>3 DEF Alive, Waived, InLibrary
    <3> QED
      BY <3>1, <3>2
  <2>13. SweepingInv'
    <3> SUFFICES ASSUME NEW q \in work.sweeping
                 PROVE /\ row'[q].status \in {"FAILED", "DELETED"}
                       /\ \A e \in Devices : screen'[e].take # q
                       /\ \A b \in calls' : b.take = q => b.op \notin {"mark", "save"}
      BY <1>1 DEF SweepingInv
    <3>1. q \in Takes /\ q # r
      BY <2>4, Parts
    <3> QED
      BY <2>2, <2>3, <3>1, Parts DEF SweepingInv
  <2>14. DeletedInv'
    BY <1>1, <2>2, <2>3, Parts DEF DeletedInv, Waived
  <2>15. EvidenceKept'
    <3> SUFFICES ASSUME NEW q \in Takes, footage'[q] = "shot"
                 PROVE  InLibrary(q)' \/ \E e \in Devices : Holds(e, q)'
      BY DEF EvidenceKept, InMemory, Holds
    <3>1. footage[q] = "shot" /\ q # r /\ (InLibrary(q) => InLibrary(q)')
      BY <1>1, <2>3, <2>4 DEF InLibrary
    <3>2. \A e \in Devices : Holds(e, q) => Holds(e, q)'
      BY <1>1, <1>2, <2>2 DEF Holds
    <3> QED
      BY <3>1, <3>2, Parts, HeldEvidence
  <2>16. PurgingInv'
    BY <1>1, <2>2, <2>3, Parts DEF PurgingInv
  <2> QED
    BY <2>6, <2>7, <2>8, <2>9, <2>10, <2>11, <2>12, <2>13, <2>14, <2>15, <2>16 DEF EvidenceInv
<1> QED
  BY <1>3, <1>4

\* completeRecording: what is saved is in the library.
LEMMA CompleteRecordingInv ==
  ASSUME EvidenceInv, NEW c \in calls, CompleteRecording(c)
  PROVE  EvidenceInv'
<1> DEFINE r == c.take
<1>1. /\ bucket' = bucket /\ work' = work /\ scene' = scene
      /\ kept' = kept /\ mishaps' = mishaps /\ footage' = footage
      /\ c.op = "save" /\ c.by \in Devices /\ r \in Takes
  BY Parts DEF CompleteRecording
<1>2. c.awaited => screen[c.by].at = "saving" /\ screen[c.by].take = r
  BY <1>1, WaitingPage
<1>3. /\ r \notin work.sweeping /\ Started(r) /\ Alive(r) /\ c.key \in 1..MaxKeys
      /\ <<r, c.key>> \in bucket
      /\ \A b \in calls : b.op = "save" /\ b.take = r /\ b.key = c.key => b = c
      /\ \A e \in Devices : FirstUpload(e) /\ screen[e].take = r => c.by = e /\ c.awaited
  BY <1>1, Parts DEF SweepingInv, UnusedInv, Started, SaveInv, FirstInv
<1>4. CASE ~(Fits(c) /\ Read(c) \in Resumable)
  <2>1. PICK point \in {"failed", "broken"} :
          /\ row' = row /\ used' = used /\ Answer(c, point, r)
          /\ point = "failed" => Fits(c)
    BY <1>4 DEF CompleteRecording
  <2>2. /\ calls' = calls \ {c} /\ screen' \in [Devices -> Screen]
        /\ ~c.awaited => screen' = screen
        /\ \A e \in Devices : e # c.by => screen'[e] = screen[e]
        /\ c.awaited => /\ screen'[c.by].at = point /\ screen'[c.by].take = r
                        /\ screen'[c.by].retry = screen[c.by].retry
    <3>1. point \in Points
      BY DEF Points
    <3> QED
      BY <1>1, <2>1, <3>1, Answered
  <2>3. c.awaited => PagePoint(c.by)'
    BY <1>1, <2>2 DEF PagePoint
  <2>4. ASSUME c.awaited, ~screen[c.by].retry, Fits(c) PROVE footage[r] \in {"waived", "lost"}
    <3>1. /\ CanUpload(r)
          /\ c.loaded \in Resumable \cup {"unread"} \/ Waived(r)
      BY <1>1, <1>2, <2>4, Parts DEF FirstInv, FirstUpload
    <3>2. Read(c) \notin Resumable
      BY <1>4, <2>4
    <3>3. c.op \in Split => c.loaded # "unread"
      BY DEF CompleteRecording, Ready
    <3> QED
      BY <3>1, <3>2, <3>3 DEF Read, Loaded, CanUpload, Waived, Resumable
  <2>5. AnswerStep(c)
    BY <1>1, <1>2, <2>1, <2>2, <2>3, <2>4, Parts DEF AnswerStep, TypeOK
  <2> QED
    BY <2>5, AnswerStepInv
<1>5. CASE Fits(c) /\ Read(c) \in Resumable
  <2> DEFINE done == [row EXCEPT ![r].status = "COMPLETED"]
  <2>1. /\ row' = [done EXCEPT ![r].key = c.key]
        /\ used' = used + 1 /\ Answer(c, "saved", r)
    BY <1>5 DEF CompleteRecording
  <2>2. /\ done \in [Takes -> Row] /\ done[r].status = "COMPLETED"
        /\ done[r].deleted = row[r].deleted
        /\ \A q \in Takes : q # r => done[q] = row[q]
    BY <1>1, Parts DEF Row, Statuses
  <2> HIDE DEF done
  <2>3. /\ row' \in [Takes -> Row] /\ row'[r].status = "COMPLETED" /\ row'[r].key = c.key
        /\ row'[r].deleted = row[r].deleted
        /\ \A q \in Takes : q # r => row'[q] = row[q]
    BY <1>1, <1>3, <2>1, <2>2 DEF Row
  <2>4. /\ calls' = calls \ {c} /\ screen' \in [Devices -> Screen]
        /\ ~c.awaited => screen' = screen
        /\ \A e \in Devices : e # c.by => screen'[e] = screen[e]
        /\ c.awaited => /\ screen'[c.by].at = "saved" /\ screen'[c.by].take = r
                        /\ screen'[c.by].retry = screen[c.by].retry
    <3>1. "saved" \in Points
      BY DEF Points
    <3> QED
      BY <1>1, <2>1, <3>1, Answered
  <2>5. \A e \in Devices : screen'[e].take = screen[e].take
    BY <1>2, <2>4
  <2>6. \A b \in calls : b.awaited /\ b.by = c.by /\ c.awaited => b = c
    BY Parts DEF AwaitedInv
  <2>7. footage[r] \notin {"waived", "lost"} => InLibrary(r)'
    <3>1. ASSUME footage[r] \notin {"waived", "lost"}
          PROVE  row'[r].status = "COMPLETED" /\ ~row'[r].deleted /\ <<r, row'[r].key>> \in bucket'
      BY <1>1, <1>3, <2>3, <3>1 DEF Alive, Waived
    <3> QED
      BY <3>1 DEF InLibrary
  <2>8. TypeOK'
    BY <1>1, <2>1, <2>3, <2>4, Parts DEF TypeOK
  <2>9. UnusedInv'
    BY <1>1, <2>3, <2>4, <2>5, Parts DEF UnusedInv
  <2>10. PageInv'
    BY <1>1, <2>4, Parts DEF PageInv, PagePoint
  <2>11. AwaitedInv'
    BY <1>1, <2>4, <2>5, <2>6, Parts DEF AwaitedInv, PointOf
  <2>12. SaveInv'
    <3>1. ASSUME NEW b \in calls, b.op = "save"
          PROVE  /\ b.take \in Takes /\ row'[b.take].deleted = row[b.take].deleted
                 /\ b \in calls' => row'[b.take].key # b.key
      <4>1. b.take \in Takes /\ row[b.take].key # b.key
        BY <3>1, Parts DEF SaveInv
      <4>2. CASE b.take = r
        BY <1>3, <2>3, <2>4, <3>1, <4>1, <4>2
      <4>3. CASE b.take # r
        BY <2>3, <4>1, <4>3
      <4> QED
        BY <4>2, <4>3
    <3> QED
      BY <1>1, <2>4, <3>1, Parts DEF SaveInv, Alive, Waived
  <2>13. FirstInv'
    <3> SUFFICES ASSUME NEW e \in Devices, FirstUpload(e)'
                 PROVE /\ CanUpload(screen[e].take)'
                       /\ \A g \in Devices : /\ screen'[e].take \notin kept[g]
                                             /\ g # e => screen'[g].take # screen'[e].take
                       /\ \A b \in calls' : b.take = screen'[e].take /\ b.op = "save" =>
                            /\ b.by = e /\ b.awaited
                            /\ b.loaded \in Resumable \cup {"unread"}
                                 \/ Waived(screen[e].take)'
      BY <1>1 DEF FirstInv
    <3>1. ~(c.awaited /\ e = c.by)
      BY <2>4 DEF FirstUpload
    <3>2. screen'[e] = screen[e] /\ FirstUpload(e) /\ screen[e].take \in Takes
      BY <2>4, <3>1, Parts DEF FirstUpload, PageInv, PagePoint
    <3>3. /\ CanUpload(screen[e].take)
          /\ \A g \in Devices : /\ screen[e].take \notin kept[g]
                                /\ g # e => screen[g].take # screen[e].take
          /\ \A b \in calls : b.take = screen[e].take /\ b.op = "save" =>
               /\ b.by = e /\ b.awaited
               /\ b.loaded \in Resumable \cup {"unread"} \/ Waived(screen[e].take)
      BY <3>2, Parts DEF FirstInv
    <3>4. screen[e].take # r /\ row'[screen[e].take] = row[screen[e].take]
      BY <1>3, <2>3, <3>1, <3>2
    <3>5. CanUpload(screen[e].take)'
      BY <1>1, <3>2, <3>3, <3>4 DEF CanUpload, Waived
    <3> QED
      BY <1>1, <2>4, <2>5, <3>2, <3>3, <3>5 DEF Waived
  <2>14. ShownInv'
    <3> SUFFICES ASSUME NEW e \in Devices
                 PROVE LET q == screen[e].take IN
                       (/\ screen[e].at \in {"putting", "saving"} => Alive(q)
                        /\ screen[e].at = "saved" /\ footage[q] = "shot" => InLibrary(q)
                        /\ screen[e].at = "failed" /\ ~screen[e].retry /\ q # NoTake
                             => Waived(q))'
      BY DEF ShownInv
    <3>1. CASE c.awaited /\ e = c.by
      <4>1. footage'[screen'[e].take] = "shot" => InLibrary(screen[e].take)'
        BY <1>1, <2>4, <2>7, <3>1 DEF InLibrary
      <4> QED
        BY <2>4, <3>1, <4>1
    <3>2. CASE ~(c.awaited /\ e = c.by)
      <4>1. screen'[e] = screen[e]
        BY <2>4, <3>2
      <4>2. /\ screen[e].at \in {"putting", "saving"} => Alive(screen[e].take)
            /\ screen[e].at = "saved" /\ footage[screen[e].take] = "shot"
                 => InLibrary(screen[e].take)
            /\ screen[e].at = "failed" /\ ~screen[e].retry /\ screen[e].take # NoTake
                 => Waived(screen[e].take)
            /\ screen[e].at \in {"putting", "saving", "saved"} => screen[e].take \in Takes
        BY Parts DEF ShownInv, PageInv, PagePoint
      <4>3. screen[e].take \in Takes => row'[screen[e].take].deleted = row[screen[e].take].deleted
        BY <2>3
      <4>4. screen[e].at = "saved" /\ footage[screen[e].take] = "shot"
              => InLibrary(screen[e].take)'
        <5>1. CASE screen[e].take = r
          BY <1>1, <2>7, <4>1, <5>1 DEF InLibrary
        <5>2. CASE screen[e].take # r
          BY <1>1, <2>3, <4>1, <4>2, <5>2 DEF InLibrary
        <5> QED
          BY <5>1, <5>2
      <4> QED
        BY <1>1, <4>1, <4>2, <4>3, <4>4 DEF Alive, Waived
    <3> QED
      BY <3>1, <3>2
  <2>15. SweepingInv'
    <3> SUFFICES ASSUME NEW q \in work.sweeping
                 PROVE /\ row'[q].status \in {"FAILED", "DELETED"}
                       /\ \A e \in Devices : screen'[e].take # q
                       /\ \A b \in calls' : b.take = q => b.op \notin {"mark", "save"}
      BY <1>1 DEF SweepingInv
    <3>1. q \in Takes /\ q # r
      BY <1>3, Parts
    <3> QED
      BY <2>3, <2>4, <2>5, <3>1, Parts DEF SweepingInv
  <2>16. DeletedInv'
    BY <1>1, <2>3, <2>4, Parts DEF DeletedInv, Waived
  <2>17. EvidenceKept'
    <3> SUFFICES ASSUME NEW q \in Takes, footage'[q] = "shot"
                 PROVE  InLibrary(q)' \/ \E e \in Devices : Holds(e, q)'
      BY DEF EvidenceKept, InMemory, Holds
    <3>1. CASE q = r
      BY <1>1, <2>7, <3>1 DEF InLibrary
    <3>2. CASE q # r
      <4>1. footage[q] = "shot" /\ (InLibrary(q) => InLibrary(q)')
        BY <1>1, <2>3, <3>2 DEF InLibrary
      <4>2. \A e \in Devices : Holds(e, q) => Holds(e, q)'
        BY <1>1, <1>2, <2>4, <3>2 DEF Holds
      <4> QED
        BY <4>1, <4>2, Parts, HeldEvidence
    <3> QED
      BY <3>1, <3>2
  <2>18. PurgingInv'
    <3>1. \A q \in Takes : row'[q].deleted = row[q].deleted
      BY <2>3
    <3> QED
      BY <1>1, <2>4, <3>1, Parts DEF PurgingInv
  <2> QED
    BY <2>8, <2>9, <2>10, <2>11, <2>12, <2>13, <2>14, <2>15, <2>16, <2>17, <2>18 DEF EvidenceInv
<1> QED
  BY <1>4, <1>5

\* A step that changes one recording, or only its object: its video is given up,
\* or nobody is at work on it and it is not in the library.
RowStep(r) ==
  /\ row' \in [Takes -> Row] /\ row'[r].key = row[r].key
  /\ \A q \in Takes : q # r => row'[q] = row[q]
  /\ row[r].status # "none" /\ row'[r].status # "none"
  /\ screen' = screen /\ kept' = kept /\ scene' = scene /\ mishaps' \in 0..MaxMishaps
  /\ calls' \subseteq calls /\ used' \in Int
  /\ work' \in [finalising : SUBSET Takes, sweeping : SUBSET Takes,
                purging : SUBSET (Takes \X (1..MaxKeys)),
                counting : {"idle", "read", "summed"}, before : Int, sum : Int]
  /\ bucket' \subseteq bucket /\ bucket \ bucket' \subseteq {<<r, row[r].key>>}
  /\ footage' \in [Takes -> {"none", "shot", "waived", "lost"}]
  /\ footage'[r] \in {footage[r], "waived", "lost"}
  /\ \A q \in Takes : q # r => footage'[q] = footage[q]
  /\ \/ footage'[r] \in {"waived", "lost"}
     \/ /\ \A d \in Devices : screen[d].take # r
        /\ \A c \in calls : c.take = r => c.op \notin {"mark", "save"}
        /\ ~InLibrary(r)
     \/ row'[r] = row[r] /\ ~InLibrary(r)
  /\ row[r].deleted => row'[r].deleted
  /\ work'.purging = work.purging
  /\ work'.sweeping \subseteq work.sweeping \cup {r}
  /\ r \in work'.sweeping =>
       /\ row'[r].status \in {"FAILED", "DELETED"}
       /\ \A d \in Devices : screen[d].take # r
       /\ \A c \in calls : c.take = r => c.op \notin {"mark", "save"}
  /\ row'[r].status = "PENDING_DELETE" => footage'[r] \in {"waived", "lost"}

LEMMA RowStepInv ==
  ASSUME EvidenceInv, NEW r \in Takes, RowStep(r)
  PROVE  EvidenceInv'
<1>1. /\ row' \in [Takes -> Row] /\ row'[r].key = row[r].key
      /\ \A q \in Takes : q # r => row'[q] = row[q]
      /\ row[r].status # "none" /\ row'[r].status # "none"
      /\ screen' = screen /\ kept' = kept /\ scene' = scene
      /\ calls' \subseteq calls
      /\ bucket' \subseteq bucket /\ bucket \ bucket' \subseteq {<<r, row[r].key>>}
      /\ row'[r].status = "PENDING_DELETE" => footage'[r] \in {"waived", "lost"}
  BY DEF RowStep
<1>2. /\ footage' \in [Takes -> {"none", "shot", "waived", "lost"}]
      /\ \A q \in Takes : q # r => footage'[q] = footage[q]
      /\ \A q \in Takes : footage[q] \in {"waived", "lost"} => footage'[q] \in {"waived", "lost"}
      /\ footage'[r] \in {footage[r], "waived", "lost"}
  BY DEF RowStep
<1>3. \/ footage'[r] \in {"waived", "lost"}
      \/ /\ \A d \in Devices : screen[d].take # r
         /\ \A c \in calls : c.take = r => c.op \notin {"mark", "save"}
         /\ ~InLibrary(r)
      \/ row'[r] = row[r] /\ ~InLibrary(r)
  BY DEF RowStep
<1>4. /\ work'.sweeping \subseteq work.sweeping \cup {r}
      /\ r \in work'.sweeping =>
           /\ row'[r].status \in {"FAILED", "DELETED"}
           /\ \A d \in Devices : screen[d].take # r
           /\ \A c \in calls : c.take = r => c.op \notin {"mark", "save"}
  BY DEF RowStep
<1>5. \A q \in Takes : q # r /\ InLibrary(q) => InLibrary(q)'
  <2> SUFFICES ASSUME NEW q \in Takes, q # r, InLibrary(q)
               PROVE  InLibrary(q)'
    OBVIOUS
  <2>1. <<q, row[q].key>> \in bucket /\ row'[q] = row[q]
    BY <1>1 DEF InLibrary
  <2>2. <<q, row[q].key>> \in bucket'
    BY <1>1, <2>1
  <2> QED
    BY <2>1, <2>2 DEF InLibrary
<1>6. TypeOK'
  BY <1>1, <1>2, Parts DEF TypeOK, RowStep
<1>7. UnusedInv'
  <2> SUFFICES ASSUME NEW q \in Takes, row'[q].status = "none"
               PROVE /\ footage'[q] = "none" /\ ~row'[q].deleted /\ q \notin work'.sweeping
                     /\ \A d \in Devices : screen[d].take # q /\ q \notin kept[d]
                     /\ \A c \in calls' : c.take # q
    BY <1>1 DEF UnusedInv
  <2>1. q # r /\ row'[q] = row[q]
    BY <1>1
  <2> QED
    BY <1>1, <1>2, <1>4, <2>1, Parts DEF UnusedInv
<1>8. PageInv' /\ AwaitedInv'
  BY <1>1, Parts DEF PageInv, PagePoint, AwaitedInv, PointOf
<1>9. SaveInv'
  <2> SUFFICES ASSUME NEW c \in calls', c.op = "save"
               PROVE /\ c.key \in 1..MaxKeys /\ <<c.take, c.key>> \in bucket'
                     /\ row'[c.take].key # c.key /\ Alive(c.take)'
                     /\ \A b \in calls' : b.op = "save" /\ b.take = c.take /\ b.key = c.key
                          => b = c
    BY DEF SaveInv
  <2>1. /\ c.key \in 1..MaxKeys /\ <<c.take, c.key>> \in bucket
        /\ row[c.take].key # c.key /\ Alive(c.take) /\ c.take \in Takes
        /\ \A b \in calls : b.op = "save" /\ b.take = c.take /\ b.key = c.key => b = c
    BY <1>1, Parts DEF SaveInv
  <2>2. row'[c.take].key # c.key
    BY <1>1, <2>1
  <2>3. <<c.take, c.key>> \in bucket'
    <3>1. <<c.take, c.key>> # <<r, row[r].key>>
      BY <2>1
    <3> QED
      BY <1>1, <2>1, <3>1
  <2>4. Alive(c.take)'
    <3>1. CASE c.take = r
      BY <1>1, <1>2, <1>3, <2>1, <3>1 DEF Alive, Waived
    <3>2. CASE c.take # r
      BY <1>1, <1>2, <2>1, <3>2 DEF Alive, Waived
    <3> QED
      BY <3>1, <3>2
  <2> QED
    BY <1>1, <2>1, <2>2, <2>3, <2>4
<1>10. FirstInv'
  <2> SUFFICES ASSUME NEW e \in Devices, FirstUpload(e)
               PROVE /\ CanUpload(screen[e].take)'
                     /\ \A g \in Devices : /\ screen[e].take \notin kept[g]
                                           /\ g # e => screen[g].take # screen[e].take
                     /\ \A b \in calls' : b.take = screen[e].take /\ b.op = "save" =>
                          /\ b.by = e /\ b.awaited
                          /\ b.loaded \in Resumable \cup {"unread"} \/ Waived(screen[e].take)'
    BY <1>1 DEF FirstInv, FirstUpload
  <2>1. /\ CanUpload(screen[e].take) /\ screen[e].take \in Takes
        /\ \A g \in Devices : /\ screen[e].take \notin kept[g]
                              /\ g # e => screen[g].take # screen[e].take
        /\ \A b \in calls : b.take = screen[e].take /\ b.op = "save" =>
             /\ b.by = e /\ b.awaited
             /\ b.loaded \in Resumable \cup {"unread"} \/ Waived(screen[e].take)
    BY Parts DEF FirstInv, FirstUpload, PageInv, PagePoint
  <2>2. CanUpload(screen[e].take)'
    <3>1. CASE screen[e].take = r
      BY <1>1, <1>2, <1>3, <2>1, <3>1 DEF CanUpload, Waived
    <3>2. CASE screen[e].take # r
      BY <1>1, <1>2, <2>1, <3>2 DEF CanUpload, Waived
    <3> QED
      BY <3>1, <3>2
  <2> QED
    BY <1>1, <1>2, <2>1, <2>2 DEF Waived
<1>11. ShownInv'
  <2> SUFFICES ASSUME NEW e \in Devices
               PROVE LET q == screen[e].take IN
                     (/\ screen[e].at \in {"putting", "saving"} => Alive(q)
                      /\ screen[e].at = "saved" /\ footage[q] = "shot" => InLibrary(q)
                      /\ screen[e].at = "failed" /\ ~screen[e].retry /\ q # NoTake
                           => Waived(q))'
    BY DEF ShownInv
  <2>1. /\ screen[e].at \in {"putting", "saving"} => Alive(screen[e].take)
        /\ screen[e].at = "saved" /\ footage[screen[e].take] = "shot"
             => InLibrary(screen[e].take)
        /\ screen[e].at = "failed" /\ ~screen[e].retry /\ screen[e].take # NoTake
             => Waived(screen[e].take)
        /\ screen[e].take \in Takes \cup {NoTake}
        /\ screen[e].at \in {"putting", "saving", "saved"} => screen[e].take \in Takes
    BY Parts DEF ShownInv, PageInv, PagePoint
  <2>2. CASE screen[e].take = r
    <3>1. screen[e].at = "saved" /\ footage'[r] = "shot" => InLibrary(r)'
      BY <1>1, <1>2, <1>3, <2>1, <2>2
    <3> QED
      BY <1>1, <1>2, <1>3, <2>1, <2>2, <3>1 DEF Alive, Waived
  <2>3. CASE screen[e].take # r
    <3>1. screen[e].at = "saved" /\ footage'[screen[e].take] = "shot"
            => InLibrary(screen[e].take)'
      BY <1>1, <1>2, <1>5, <2>1, <2>3 DEF InLibrary
    <3> QED
      BY <1>1, <1>2, <2>1, <2>3, <3>1 DEF Alive, Waived
  <2> QED
    BY <2>2, <2>3
<1>12. SweepingInv'
  <2> SUFFICES ASSUME NEW q \in work'.sweeping
               PROVE /\ row'[q].status \in {"FAILED", "DELETED"}
                     /\ \A d \in Devices : screen[d].take # q
                     /\ \A c \in calls' : c.take = q => c.op \notin {"mark", "save"}
    BY <1>1 DEF SweepingInv
  <2>1. CASE q = r
    BY <1>1, <1>4, <2>1
  <2>2. CASE q # r
    BY <1>1, <1>4, <2>2, Parts DEF SweepingInv
  <2> QED
    BY <2>1, <2>2
<1>13. DeletedInv'
  BY <1>1, <1>2, Parts DEF DeletedInv, Waived
<1>14. EvidenceKept'
  <2> SUFFICES ASSUME NEW q \in Takes, footage'[q] = "shot"
               PROVE  InLibrary(q)' \/ \E e \in Devices : Holds(e, q)'
    BY DEF EvidenceKept, InMemory, Holds
  <2>1. footage[q] = "shot" /\ \A e \in Devices : Holds(e, q) => Holds(e, q)'
    BY <1>1, <1>2 DEF Holds
  <2>2. CASE q = r
    <3>1. ~InLibrary(q)
      BY <1>2, <1>3, <2>2
    <3> QED
      BY <2>1, <3>1, Parts, HeldEvidence
  <2>3. CASE q # r
    BY <1>5, <2>1, <2>3, Parts, HeldEvidence
  <2> QED
    BY <2>2, <2>3
<1>15. PurgingInv'
  BY <1>1, Parts DEF PurgingInv, RowStep
<1> QED
  BY <1>6, <1>7, <1>8, <1>9, <1>10, <1>11, <1>12, <1>13, <1>14, <1>15 DEF EvidenceInv

\* softDeleteRecording: only what was given up is deleted.
LEMMA SoftDeleteInv ==
  ASSUME EvidenceInv, NEW c \in calls, SoftDelete(c)
  PROVE  EvidenceInv'
<1> DEFINE r == c.take
<1>1. /\ c.op = "delete" /\ r \in Takes /\ footage[r] \in {"waived", "lost"} /\ Started(r) /\ ~c.awaited
  BY Parts DEF SoftDelete, DeletedInv, Waived, UnusedInv, Started, AwaitedInv
<1>2. /\ screen' = screen /\ calls' = calls \ {c}
      /\ work' = work /\ kept' = kept /\ footage' = footage
      /\ mishaps' = mishaps /\ scene' = scene
  BY <1>1 DEF SoftDelete, Answer
<1>3. r \in work.sweeping => /\ row[r].status \in {"FAILED", "DELETED"}
                             /\ \A d \in Devices : screen[d].take # r
                             /\ \A b \in calls : b.take = r => b.op \notin {"mark", "save"}
  BY Parts DEF SweepingInv
<1>4. CASE Read(c) = "DELETED"
  <2>1. row' = row /\ used' = used /\ bucket' = bucket
    BY <1>4 DEF SoftDelete
  <2>2. RowStep(r)
    BY <1>1, <1>2, <1>3, <2>1, Parts DEF RowStep, TypeOK, Started
  <2> QED
    BY <1>1, <2>2, RowStepInv
<1>5. CASE Read(c) # "DELETED"
  <2> DEFINE gone == [row EXCEPT ![r].status = "DELETED"]
  <2>1. /\ row' = [gone EXCEPT ![r].deleted = TRUE]
        /\ used' \in {used, used - 1}
        /\ bucket' \in {bucket, bucket \ {<<r, row[r].key>>}}
    BY <1>5 DEF SoftDelete, TryDelete
  <2>2. /\ gone \in [Takes -> Row] /\ gone[r].status = "DELETED" /\ gone[r].key = row[r].key
        /\ \A q \in Takes : q # r => gone[q] = row[q]
    BY <1>1, Parts DEF Row, Statuses
  <2> HIDE DEF gone
  <2>3. /\ row' \in [Takes -> Row] /\ row'[r].status = "DELETED" /\ row'[r].key = row[r].key
        /\ row'[r].deleted
        /\ \A q \in Takes : q # r => row'[q] = row[q]
    BY <1>1, <2>1, <2>2 DEF Row
  <2>4. used' \in Int /\ bucket' \subseteq bucket /\ bucket \ bucket' \subseteq {<<r, row[r].key>>}
    BY <2>1, Parts DEF TypeOK
  <2>5. RowStep(r)
    BY <1>1, <1>2, <1>3, <2>3, <2>4, Parts DEF RowStep, TypeOK, Started
  <2> QED
    BY <1>1, <2>5, RowStepInv
<1> QED
  BY <1>4, <1>5

\* What the server read of a first upload lets it save it.
LEMMA LoadInv ==
  ASSUME EvidenceInv, PromptWrites, NEW c \in calls, Load(c)
  PROVE  EvidenceInv'
<1> DEFINE read == IF c.op = "start" THEN IF ActiveTakes = {} THEN "none" ELSE "RECORDING"
                   ELSE Loaded(c.take)
           fits == used + 1 <= Quota
           part == [c EXCEPT !.fits = fits]
           new == [part EXCEPT !.loaded = read]
<1>1. /\ c.op \in {"start", "save", "delete"} /\ c.loaded = "unread" /\ c \in Call
      /\ (c.op # "start" => c.take \in Takes)
  BY Parts DEF Load, PromptWrites
<1>15. fits \in BOOLEAN
  OBVIOUS
<1>2. read \in Statuses
  <2>1. c.op # "start" => row[c.take].status \in Statuses
    BY <1>1, Parts DEF Row
  <2> QED
    BY <2>1 DEF Loaded, Statuses
<1>3. /\ c.op = "save" => read = Loaded(c.take)
      /\ calls' = (calls \ {c}) \cup {new}
      /\ \/ bucket' = bucket
         \/ c.op = "delete" /\ bucket' = bucket \ {<<c.take, row[c.take].key>>}
      /\ row' = row /\ used' = used /\ work' = work /\ screen' = screen /\ kept' = kept
      /\ footage' = footage /\ mishaps' = mishaps /\ scene' = scene
  BY DEF Load, TryDelete
<1> HIDE DEF read, fits
<1>4. /\ part \in Call /\ part.op = c.op /\ part.by = c.by /\ part.take = c.take
      /\ part.key = c.key /\ part.awaited = c.awaited
  BY <1>1, <1>15 DEF Call
<1> HIDE DEF part
<1>5. /\ new \in Call /\ new.op = c.op /\ new.by = c.by /\ new.take = c.take
      /\ new.key = c.key /\ new.awaited = c.awaited /\ new.loaded = read
  BY <1>2, <1>4 DEF Call
<1> HIDE DEF new
<1>6. /\ bucket' \subseteq bucket
      /\ \A q \in Takes : \A n : <<q, n>> \in bucket /\ <<q, n>> \notin bucket' =>
           footage[q] \in {"waived", "lost"} /\ n = row[q].key
  <2>1. CASE c.op = "delete"
    <3>1. footage[c.take] \in {"waived", "lost"}
      BY <2>1, Parts DEF DeletedInv, Waived
    <3> QED
      BY <1>3, <2>1, <3>1
  <2>2. CASE c.op # "delete"
    BY <1>3, <2>2
  <2> QED
    BY <2>1, <2>2
<1>7. TypeOK'
  BY <1>3, <1>5, <1>6, Parts DEF TypeOK
<1>8. UnusedInv' /\ PageInv'
  BY <1>3, <1>5, Parts DEF UnusedInv, PageInv, PagePoint
<1>9. AwaitedInv'
  BY <1>3, <1>5, Parts DEF AwaitedInv, PointOf
<1>10. SaveInv'
  <2>1. \A b \in calls : b.op = "save" =>
          /\ b.key \in 1..MaxKeys /\ <<b.take, b.key>> \in bucket' /\ b.take \in Takes
          /\ row[b.take].key # b.key /\ Alive(b.take)
    BY <1>6, Parts DEF SaveInv
  <2>2. \A q : Alive(q) => Alive(q)'
    BY <1>3 DEF Alive, Waived
  <2>3. \A b \in calls : b.op = "save" => \A a \in calls :
          a.op = "save" /\ a.take = b.take /\ a.key = b.key => a = b
    BY Parts DEF SaveInv
  <2>4. \A b \in calls' : b.op = "save" => \A a \in calls' :
          a.op = "save" /\ a.take = b.take /\ a.key = b.key => a = b
    BY <1>3, <1>5, <2>3
  <2> QED
    BY <1>3, <1>5, <2>1, <2>2, <2>4 DEF SaveInv, Alive, Waived
<1>11. FirstInv'
  <2> SUFFICES ASSUME NEW e \in Devices, FirstUpload(e)
               PROVE /\ CanUpload(screen[e].take)'
                     /\ \A g \in Devices : /\ screen[e].take \notin kept[g]
                                           /\ g # e => screen[g].take # screen[e].take
                     /\ \A b \in calls' : b.take = screen[e].take /\ b.op = "save" =>
                          /\ b.by = e /\ b.awaited
                          /\ b.loaded \in Resumable \cup {"unread"} \/ Waived(screen[e].take)'
    BY <1>3 DEF FirstInv, FirstUpload
  <2>1. /\ CanUpload(screen[e].take)
        /\ \A g \in Devices : /\ screen[e].take \notin kept[g]
                              /\ g # e => screen[g].take # screen[e].take
        /\ \A b \in calls : b.take = screen[e].take /\ b.op = "save" =>
             /\ b.by = e /\ b.awaited
             /\ b.loaded \in Resumable \cup {"unread"} \/ Waived(screen[e].take)
    BY Parts DEF FirstInv
  <2>2. c.op = "save" /\ c.take = screen[e].take => read \in Resumable \/ Waived(screen[e].take)
    BY <1>3, <2>1 DEF CanUpload, Loaded
  <2>3. CanUpload(screen[e].take)' /\ (Waived(screen[e].take) => Waived(screen[e].take)')
    BY <1>3, <2>1 DEF CanUpload, Waived
  <2> QED
    BY <1>3, <1>5, <2>1, <2>2, <2>3
<1>12. ShownInv'
  <2>1. \A q \in Takes : footage[q] = "shot" /\ InLibrary(q) => InLibrary(q)'
    BY <1>3, <1>6 DEF InLibrary
  <2>2. \A e \in Devices : screen[e].at = "saved" => screen[e].take \in Takes
    BY Parts DEF PageInv, PagePoint
  <2> SUFFICES ASSUME NEW e \in Devices
               PROVE LET q == screen[e].take IN
                     (/\ screen[e].at \in {"putting", "saving"} => Alive(q)
                      /\ screen[e].at = "saved" /\ footage[q] = "shot" => InLibrary(q)
                      /\ screen[e].at = "failed" /\ ~screen[e].retry /\ q # NoTake
                           => Waived(q))'
    BY DEF ShownInv
  <2>3. screen[e].at = "saved" /\ footage[screen[e].take] = "shot"
          => InLibrary(screen[e].take)'
    BY <1>3, <2>1, <2>2, Parts DEF ShownInv, InLibrary
  <2> QED
    BY <1>3, <2>3, Parts DEF ShownInv, Alive, Waived
<1>13. SweepingInv' /\ DeletedInv'
  BY <1>3, <1>5, Parts DEF SweepingInv, DeletedInv, Waived
<1>14. EvidenceKept'
  <2> SUFFICES ASSUME NEW q \in Takes, footage'[q] = "shot"
               PROVE  InLibrary(q)' \/ \E e \in Devices : Holds(e, q)'
    BY DEF EvidenceKept, InMemory, Holds
  <2>1. footage[q] = "shot" /\ \A e \in Devices : Holds(e, q) => Holds(e, q)'
    BY <1>3 DEF Holds
  <2>2. InLibrary(q) => InLibrary(q)'
    BY <1>3, <1>6, <2>1 DEF InLibrary
  <2> QED
    BY <2>1, <2>2, Parts, HeldEvidence
<1>16. PurgingInv'
  BY <1>3, <1>5, Parts DEF PurgingInv
<1> QED
  BY <1>7, <1>8, <1>9, <1>10, <1>11, <1>12, <1>13, <1>14, <1>16 DEF EvidenceInv

-----------------------------------------------------------------------------
(* The worker.                                                             *)

\* A step that touches no recording, but for objects taken up by the cleanup.
LEMMA ObjectStepInv ==
  ASSUME EvidenceInv, row' = row, screen' = screen, kept' = kept, bucket' \subseteq bucket,
         bucket \ bucket' \subseteq work.purging, PurgingInv',
         calls' = calls, footage' = footage, scene' = scene, used' \in Int,
         mishaps' \in 0..MaxMishaps,
         work' \in [finalising : SUBSET Takes, sweeping : SUBSET Takes,
                    purging : SUBSET (Takes \X (1..MaxKeys)),
                    counting : {"idle", "read", "summed"}, before : Int, sum : Int],
         work'.sweeping \subseteq work.sweeping
  PROVE  EvidenceInv'
<1>1. TypeOK'
  BY Parts DEF TypeOK
<1>2. UnusedInv' /\ PageInv' /\ AwaitedInv'
  BY Parts DEF UnusedInv, PageInv, PagePoint, AwaitedInv, PointOf
<1>3. \A r \in Takes : \A n \in 1..MaxKeys : <<r, n>> \in bucket =>
        \/ <<r, n>> \in bucket'
        \/ row[r].deleted /\ \A c \in calls : c.op = "save" /\ c.take = r => c.key # n
  BY Parts DEF PurgingInv
<1>4. \A c \in calls : c.op = "save" => <<c.take, c.key>> \in bucket'
  BY <1>3, Parts DEF SaveInv
<1>5. SaveInv'
  BY <1>4, Parts DEF SaveInv, Alive, Waived
<1>6. FirstInv'
  BY Parts DEF FirstInv, FirstUpload, CanUpload, Waived
<1>7. \A r \in Takes : InLibrary(r) => InLibrary(r)'
  <2> SUFFICES ASSUME NEW r \in Takes, InLibrary(r) PROVE InLibrary(r)'
    OBVIOUS
  <2>1. row[r].key \in 1..MaxKeys /\ <<r, row[r].key>> \in bucket /\ ~row[r].deleted
    BY Parts DEF InLibrary, TypeOK
  <2>2. <<r, row[r].key>> \in bucket'
    BY <1>3, <2>1
  <2> QED
    BY <2>2 DEF InLibrary
<1>8. ShownInv'
  <2>1. \A e \in Devices : screen[e].at = "saved" => screen[e].take \in Takes
    BY Parts DEF PageInv, PagePoint
  <2>2. \A e \in Devices : screen[e].at = "saved" /\ footage[screen[e].take] = "shot"
          => InLibrary(screen[e].take)'
    BY <1>7, <2>1, Parts DEF ShownInv
  <2> QED
    BY <2>2, Parts DEF ShownInv, Alive, Waived, InLibrary
<1>9. SweepingInv' /\ DeletedInv'
  BY Parts DEF SweepingInv, DeletedInv, Waived
<1>10. EvidenceKept'
  BY <1>7, Parts, HeldEvidence DEF EvidenceKept, InMemory
<1> QED
  BY <1>1, <1>2, <1>5, <1>6, <1>8, <1>9, <1>10 DEF EvidenceInv

\* A step that touches no recording and no object.
LEMMA QuietStepInv ==
  ASSUME EvidenceInv, row' = row, bucket' = bucket, screen' = screen, kept' = kept,
         calls' = calls, footage' = footage, scene' = scene, used' \in Int,
         mishaps' \in 0..MaxMishaps,
         work' \in [finalising : SUBSET Takes, sweeping : SUBSET Takes,
                    purging : SUBSET (Takes \X (1..MaxKeys)),
                    counting : {"idle", "read", "summed"}, before : Int, sum : Int],
         work'.sweeping \subseteq work.sweeping, work'.purging \subseteq work.purging
  PROVE  EvidenceInv'
<1>1. PurgingInv'
  BY Parts DEF PurgingInv
<1> QED
  BY <1>1, ObjectStepInv

LEMMA WorkType ==
  ASSUME EvidenceInv
  PROVE  /\ work \in [finalising : SUBSET Takes, sweeping : SUBSET Takes,
                      purging : SUBSET (Takes \X (1..MaxKeys)),
                      counting : {"idle", "read", "summed"}, before : Int, sum : Int]
         /\ used \in Int /\ mishaps \in 0..MaxMishaps
BY Parts DEF TypeOK

\* Storage is recounted from the rows, whatever else is under way.
LEMMA CountingInv ==
  ASSUME EvidenceInv, Recount
  PROVE  EvidenceInv'
<1>1. /\ row' = row /\ bucket' = bucket /\ screen' = screen /\ kept' = kept
      /\ calls' = calls /\ footage' = footage /\ scene' = scene /\ mishaps' = mishaps
  BY DEF Recount, ReadUsed, SumStored, WriteUsed, Untouched
<1>2. Stored \in Int
  <2>1. IsFiniteSet({r \in Takes : row[r].status = "COMPLETED" /\ ~row[r].deleted})
    BY FS_Subset, RecordingsAssumption
  <2> QED
    BY <2>1, FS_CardinalityType DEF Stored
<1>3. /\ work' \in [finalising : SUBSET Takes, sweeping : SUBSET Takes,
                    purging : SUBSET (Takes \X (1..MaxKeys)),
                    counting : {"idle", "read", "summed"}, before : Int, sum : Int]
      /\ work'.sweeping = work.sweeping /\ work'.purging = work.purging /\ used' \in Int
  <2>1. CASE ReadUsed
    BY <2>1, WorkType DEF ReadUsed
  <2>2. CASE SumStored
    BY <1>2, <2>2, WorkType DEF SumStored, Summed, Untouched
  <2>3. CASE WriteUsed
    <3> DEFINE idle == [work EXCEPT !.counting = "idle"]
               unread == [idle EXCEPT !.before = 0]
               Work == [finalising : SUBSET Takes, sweeping : SUBSET Takes,
                        purging : SUBSET (Takes \X (1..MaxKeys)),
                        counting : {"idle", "read", "summed"}, before : Int, sum : Int]
    <3>1. work' = [unread EXCEPT !.sum = 0] /\ used' \in {used, work.sum}
      BY <2>3 DEF WriteUsed
    <3>2. idle \in Work /\ idle.sweeping = work.sweeping /\ idle.purging = work.purging
      BY WorkType
    <3> HIDE DEF idle
    <3>3. unread \in Work /\ unread.sweeping = work.sweeping /\ unread.purging = work.purging
      BY <3>2
    <3> HIDE DEF unread
    <3>4. work' \in Work /\ work'.sweeping = work.sweeping /\ work'.purging = work.purging
      BY <3>1, <3>3
    <3> QED
      BY <3>1, <3>4, WorkType
  <2> QED
    BY <2>1, <2>2, <2>3 DEF Recount
<1> QED
  BY <1>1, <1>3, WorkType, QuietStepInv

LEMMA RestartWorkerInv ==
  ASSUME EvidenceInv, RestartWorker
  PROVE  EvidenceInv'
<1>1. /\ row' = row /\ bucket' = bucket /\ screen' = screen /\ kept' = kept /\ used' = used
      /\ calls' = calls /\ footage' = footage /\ scene' = scene /\ mishaps' \in 0..MaxMishaps
  BY WorkType, RecordingsAssumption DEF RestartWorker, Mishap
<1> DEFINE stopped == [work EXCEPT !.finalising = {}]
           cleared == [stopped EXCEPT !.sweeping = {}]
           unpurged == [cleared EXCEPT !.purging = {}]
           uncounted == [unpurged EXCEPT !.counting = "idle"]
           unread == [uncounted EXCEPT !.before = 0]
           Work == [finalising : SUBSET Takes, sweeping : SUBSET Takes,
                    purging : SUBSET (Takes \X (1..MaxKeys)),
                    counting : {"idle", "read", "summed"}, before : Int, sum : Int]
<1>2. work' = [unread EXCEPT !.sum = 0]
  BY DEF RestartWorker
<1>3. stopped \in Work
  BY WorkType
<1> HIDE DEF stopped
<1>4. cleared \in Work /\ cleared.sweeping = {}
  BY <1>3
<1> HIDE DEF cleared
<1>8. unpurged \in Work /\ unpurged.sweeping = {} /\ unpurged.purging = {}
  BY <1>4
<1> HIDE DEF unpurged
<1>5. uncounted \in Work /\ uncounted.sweeping = {} /\ uncounted.purging = {}
  BY <1>8
<1> HIDE DEF uncounted
<1>6. unread \in Work /\ unread.sweeping = {} /\ unread.purging = {}
  BY <1>5
<1> HIDE DEF unread
<1>7. work' \in Work /\ work'.sweeping = {} /\ work'.purging = {}
  BY <1>2, <1>6
<1> QED
  BY <1>1, <1>7, WorkType, QuietStepInv

\* The jobs on one recording.
LEMMA SweepInv ==
  ASSUME EvidenceInv, NEW r \in Takes, SweepStale(r) \/ PickAbandoned(r) \/ DeleteAbandoned(r)
  PROVE  EvidenceInv'
<1>1. /\ screen' = screen /\ kept' = kept /\ calls' = calls /\ scene' = scene
      /\ mishaps' = mishaps /\ used' = used /\ footage' = footage
  BY DEF SweepStale, PickAbandoned, DeleteAbandoned, Untouched
<1>2. r \in work.sweeping =>
        /\ row[r].status \in {"FAILED", "DELETED"}
        /\ \A d \in Devices : screen[d].take # r
        /\ \A c \in calls : c.take = r => c.op \notin {"mark", "save"}
  BY Parts DEF SweepingInv
<1>3. CASE SweepStale(r)
  <2>1. /\ row[r].status \in {"RECORDING", "UPLOADING"}
        /\ \A d \in Devices : screen[d].take # r
        /\ \A c \in calls : c.take # r
        /\ row' = [row EXCEPT ![r].status = "FAILED"] /\ work' = work /\ bucket' = bucket
    BY <1>3 DEF SweepStale, Active, Aged
  <2>2. /\ row' \in [Takes -> Row] /\ row'[r].status = "FAILED" /\ row'[r].key = row[r].key
        /\ row'[r].deleted = row[r].deleted
        /\ \A q \in Takes : q # r => row'[q] = row[q]
    BY <2>1, Parts DEF Row, Statuses
  <2>3. ~InLibrary(r)
    BY <2>1 DEF InLibrary
  <2>4. RowStep(r)
    BY <1>1, <2>1, <2>2, <2>3, WorkType, Parts DEF RowStep
  <2> QED
    BY <2>4, RowStepInv
<1>4. CASE PickAbandoned(r)
  <2>1. /\ row[r].status = "FAILED"
        /\ \A d \in Devices : screen[d].take # r
        /\ \A c \in calls : c.take # r
        /\ work' = [work EXCEPT !.sweeping = work.sweeping \cup {r}]
        /\ row' = row /\ bucket' = bucket
    BY <1>4 DEF PickAbandoned, Abandoned, Aged
  <2>2. /\ work' \in [finalising : SUBSET Takes, sweeping : SUBSET Takes,
                      purging : SUBSET (Takes \X (1..MaxKeys)),
                      counting : {"idle", "read", "summed"}, before : Int, sum : Int]
        /\ work'.sweeping = work.sweeping \cup {r} /\ work'.purging = work.purging
    BY <2>1, WorkType
  <2>3. ~InLibrary(r)
    BY <2>1 DEF InLibrary
  <2>4. RowStep(r)
    BY <1>1, <2>1, <2>2, <2>3, WorkType, Parts DEF RowStep
  <2> QED
    BY <2>4, RowStepInv
<1>5. CASE DeleteAbandoned(r)
  <2> DEFINE gone == [row EXCEPT ![r].status = "DELETED"]
  <2>1. /\ r \in work.sweeping
        /\ work' = [work EXCEPT !.sweeping = work.sweeping \ {r}]
        /\ bucket' = bucket \ {<<r, row[r].key>>}
        /\ row' = [gone EXCEPT ![r].deleted = TRUE]
    BY <1>5 DEF DeleteAbandoned
  <2>2. /\ gone \in [Takes -> Row] /\ gone[r].status = "DELETED" /\ gone[r].key = row[r].key
        /\ \A q \in Takes : q # r => gone[q] = row[q]
    BY Parts DEF Row, Statuses
  <2> HIDE DEF gone
  <2>3. /\ row' \in [Takes -> Row] /\ row'[r].status = "DELETED" /\ row'[r].key = row[r].key
        /\ row'[r].deleted
        /\ \A q \in Takes : q # r => row'[q] = row[q]
    BY <2>1, <2>2 DEF Row
  <2>4. /\ work' \in [finalising : SUBSET Takes, sweeping : SUBSET Takes,
                      purging : SUBSET (Takes \X (1..MaxKeys)),
                      counting : {"idle", "read", "summed"}, before : Int, sum : Int]
        /\ work'.sweeping = work.sweeping \ {r} /\ work'.purging = work.purging
    BY <2>1, WorkType
  <2>5. ~InLibrary(r)
    BY <1>2, <2>1 DEF InLibrary
  <2>6. bucket' \subseteq bucket /\ bucket \ bucket' \subseteq {<<r, row[r].key>>}
    BY <2>1
  <2>7. RowStep(r)
    BY <1>1, <1>2, <2>1, <2>3, <2>4, <2>5, <2>6, WorkType, Parts DEF RowStep
  <2> QED
    BY <2>7, RowStepInv
<1> QED
  BY <1>3, <1>4, <1>5

LEMMA ExpiryInv ==
  ASSUME EvidenceInv, NEW r \in Takes,
         ClaimExpired(r) \/ DeleteExpired(r) \/ FinaliseDeletion(r)
  PROVE  EvidenceInv'
<1>1. /\ screen' = screen /\ kept' = kept /\ calls' = calls /\ scene' = scene
      /\ mishaps' = mishaps
  BY DEF ClaimExpired, DeleteExpired, FinaliseDeletion, Untouched
<1>2. r \in work.sweeping =>
        /\ row[r].status \in {"FAILED", "DELETED"}
        /\ \A d \in Devices : screen[d].take # r
        /\ \A c \in calls : c.take = r => c.op \notin {"mark", "save"}
  BY Parts DEF SweepingInv
<1>3. row[r].status = "PENDING_DELETE" => footage[r] \in {"waived", "lost"}
  BY Parts DEF DeletedInv, Waived
<1>4. CASE ClaimExpired(r)
  <2>1. /\ row[r].status = "COMPLETED" /\ used' = used /\ bucket' = bucket /\ work' = work
        /\ row' = [row EXCEPT ![r].status = "PENDING_DELETE"]
        /\ footage' = [footage EXCEPT ![r] = "waived"]
    BY <1>4 DEF ClaimExpired, GiveUpOn
  <2>2. /\ row' \in [Takes -> Row] /\ row'[r].status = "PENDING_DELETE"
        /\ row'[r].key = row[r].key /\ \A q \in Takes : q # r => row'[q] = row[q]
        /\ row'[r].deleted = row[r].deleted
    BY <2>1, Parts DEF Row, Statuses
  <2>3. RowStep(r)
    BY <1>1, <1>2, <2>1, <2>2, WorkType, Parts DEF RowStep
  <2> QED
    BY <2>3, RowStepInv
<1>5. CASE DeleteExpired(r)
  <2>1. /\ row[r].status = "PENDING_DELETE" /\ row' = row /\ used' = used /\ footage' = footage
        /\ work' = [work EXCEPT !.finalising = work.finalising \cup {r}]
        /\ bucket' \in {bucket, bucket \ {<<r, row[r].key>>}}
    BY <1>5 DEF DeleteExpired, TryDelete
  <2>2. /\ work' \in [finalising : SUBSET Takes, sweeping : SUBSET Takes,
                      purging : SUBSET (Takes \X (1..MaxKeys)),
                      counting : {"idle", "read", "summed"}, before : Int, sum : Int]
        /\ work'.sweeping = work.sweeping /\ work'.purging = work.purging
    BY <2>1, WorkType
  <2>3. bucket' \subseteq bucket /\ bucket \ bucket' \subseteq {<<r, row[r].key>>}
    BY <2>1
  <2>4. RowStep(r)
    BY <1>1, <1>2, <1>3, <2>1, <2>2, <2>3, WorkType, Parts DEF RowStep
  <2> QED
    BY <2>4, RowStepInv
<1>6. CASE FinaliseDeletion(r)
  <2>1. /\ work' = [work EXCEPT !.finalising = work.finalising \ {r}]
        /\ bucket' = bucket /\ footage' = footage
    BY <1>6 DEF FinaliseDeletion
  <2>2. /\ work' \in [finalising : SUBSET Takes, sweeping : SUBSET Takes,
                      purging : SUBSET (Takes \X (1..MaxKeys)),
                      counting : {"idle", "read", "summed"}, before : Int, sum : Int]
        /\ work'.sweeping = work.sweeping /\ work'.purging = work.purging
    BY <2>1, WorkType
  <2>3. CASE StillClaimed(r)
    <3> DEFINE gone == [row EXCEPT ![r].status = "DELETED"]
    <3>1. row' = [gone EXCEPT ![r].deleted = TRUE] /\ used' = used - 1
      BY <1>6, <2>3 DEF FinaliseDeletion
    <3>2. /\ gone \in [Takes -> Row] /\ gone[r].status = "DELETED" /\ gone[r].key = row[r].key
          /\ \A q \in Takes : q # r => gone[q] = row[q]
      BY Parts DEF Row, Statuses
    <3> HIDE DEF gone
    <3>3. /\ row' \in [Takes -> Row] /\ row'[r].status = "DELETED" /\ row'[r].key = row[r].key
          /\ row'[r].deleted
          /\ \A q \in Takes : q # r => row'[q] = row[q]
      BY <3>1, <3>2 DEF Row
    <3>4. RowStep(r)
      BY <1>1, <1>2, <1>3, <2>1, <2>2, <2>3, <3>1, <3>3, WorkType, Parts
      DEF RowStep, StillClaimed
    <3> QED
      BY <3>4, RowStepInv
  <2>4. CASE ~StillClaimed(r)
    <3>1. row' = row /\ used' = used
      BY <1>6, <2>4 DEF FinaliseDeletion
    <3> QED
      BY <1>1, <2>1, <2>2, <3>1, WorkType, QuietStepInv
  <2> QED
    BY <2>3, <2>4
<1> QED
  BY <1>4, <1>5, <1>6

\* A step that only takes up or deletes objects the cleanup may delete.
LEMMA PurgeInv ==
  ASSUME EvidenceInv, Purge
  PROVE  EvidenceInv'
<1>1. CASE ReadPurgeable
  <2>1. PICK batch \in SUBSET Purgeable :
          work' = [work EXCEPT !.purging = {<<r, row[r].key>> : r \in batch}]
    BY <1>1 DEF ReadPurgeable
  <2> DEFINE objects == {<<r, row[r].key>> : r \in batch}
  <2>2. \A r \in batch : r \in Takes /\ row[r].deleted /\ row[r].key \in 1..MaxKeys
    BY Parts, RecordingsAssumption DEF Purgeable, Row
  <2>3. objects \in SUBSET (Takes \X (1..MaxKeys))
    BY <2>2
  <2>4. \A r \in Takes : \A n \in 1..MaxKeys : <<r, n>> \in objects =>
          row[r].deleted /\ n = row[r].key
    BY <2>2
  <2>5. work' = [work EXCEPT !.purging = objects]
    BY <2>1
  <2> HIDE DEF objects
  <2>6. /\ work' \in [finalising : SUBSET Takes, sweeping : SUBSET Takes,
                      purging : SUBSET (Takes \X (1..MaxKeys)),
                      counting : {"idle", "read", "summed"}, before : Int, sum : Int]
        /\ work'.sweeping = work.sweeping /\ work'.purging = objects
    BY <2>3, <2>5, WorkType
  <2>7. /\ row' = row /\ bucket' = bucket /\ screen' = screen /\ kept' = kept
        /\ calls' = calls /\ footage' = footage /\ scene' = scene /\ used' = used
        /\ mishaps' = mishaps
    BY <1>1 DEF ReadPurgeable, Untouched
  <2>8. PurgingInv'
    BY <2>4, <2>6, <2>7, Parts DEF PurgingInv, SaveInv
  <2> QED
    BY <2>6, <2>7, <2>8, WorkType, ObjectStepInv
<1>2. CASE \E object \in work.purging : PurgeObject(object)
  <2>1. PICK object \in work.purging : PurgeObject(object)
    BY <1>2
  <2>2. /\ work' = [work EXCEPT !.purging = work.purging \ {object}]
        /\ bucket' \in {bucket, bucket \ {object}} /\ mishaps' \in 0..MaxMishaps
        /\ row' = row /\ screen' = screen /\ kept' = kept /\ used' = used
        /\ calls' = calls /\ footage' = footage /\ scene' = scene
    BY <2>1, WorkType, RecordingsAssumption DEF PurgeObject, Mishap
  <2>3. PICK r \in Takes, n \in 1..MaxKeys : object = <<r, n>>
    BY WorkType
  <2>4. /\ work' \in [finalising : SUBSET Takes, sweeping : SUBSET Takes,
                      purging : SUBSET (Takes \X (1..MaxKeys)),
                      counting : {"idle", "read", "summed"}, before : Int, sum : Int]
        /\ work'.sweeping = work.sweeping /\ work'.purging \subseteq work.purging
    BY <2>2, WorkType
  <2>5. PurgingInv'
    BY <2>2, <2>4, Parts DEF PurgingInv
  <2>6. bucket' \subseteq bucket /\ bucket \ bucket' \subseteq work.purging
    BY <2>2
  <2> QED
    BY <2>2, <2>4, <2>5, <2>6, WorkType, ObjectStepInv
<1> QED
  BY <1>1, <1>2 DEF Purge

-----------------------------------------------------------------------------
LEMMA InitEvidenceInv == Init => EvidenceInv
<1> SUFFICES ASSUME Init PROVE EvidenceInv
  OBVIOUS
<1>1. /\ row = [r \in Takes |-> NewRow] /\ used = 0 /\ bucket = {} /\ calls = {}
      /\ screen = [d \in Devices |-> IdleScreen] /\ kept = [d \in Devices |-> {}]
      /\ work = [finalising |-> {}, sweeping |-> {}, purging |-> {},
                 counting |-> "idle", before |-> 0, sum |-> 0]
      /\ footage = [r \in Takes |-> "none"] /\ mishaps = 0 /\ scene \in Scenes
  BY DEF Init
<1>2. NewRow \in Row /\ NewRow.status = "none" /\ ~NewRow.deleted
  BY RecordingsAssumption DEF NewRow, Row, Statuses
<1>3. TypeOK
  BY <1>1, <1>2, IdleType, RecordingsAssumption DEF TypeOK
<1>4. \A d \in Devices : screen[d] = IdleScreen /\ kept[d] = {}
  BY <1>1
<1>5. \A r \in Takes : row[r] = NewRow /\ footage[r] = "none"
  BY <1>1
<1>6. UnusedInv
  BY <1>1, <1>2, <1>4, <1>5, IdleType, RecordingsAssumption DEF UnusedInv
<1>7. PageInv /\ AwaitedInv /\ SaveInv
  BY <1>1, <1>4, IdleType DEF PageInv, PagePoint, AwaitedInv, SaveInv
<1>8. FirstInv /\ ShownInv
  BY <1>4, IdleType DEF FirstInv, FirstUpload, ShownInv
<1>9. SweepingInv /\ DeletedInv /\ PurgingInv /\ EvidenceKept
  BY <1>1, <1>2, <1>5 DEF SweepingInv, DeletedInv, PurgingInv, EvidenceKept
<1> QED
  BY <1>3, <1>6, <1>7, <1>8, <1>9 DEF EvidenceInv

LEMMA NextEvidenceInv ==
  ASSUME PromptWrites
  PROVE  EvidenceInv /\ [Next]_vars => EvidenceInv'
<1> SUFFICES ASSUME EvidenceInv, [Next]_vars PROVE EvidenceInv'
  OBVIOUS
<1>1. CASE PageNext
  <2>1. scene.devices \subseteq Devices
    BY Parts, RecordingsAssumption DEF TypeOK, Scene
  <2>2. PICK d \in Devices :
          \/ PressStart(d) \/ ClearConflict(d) \/ StartAgain(d) \/ StopRecording(d)
          \/ LoseCamera(d) \/ PutObject(d) \/ GiveUp(d) \/ PreserveVideo(d)
          \/ FailRecording(d) \/ Done(d) \/ RetryUpload(d) \/ Discard(d)
          \/ CloseTab(d) \/ Bootstrap(d) \/ AskDelete(d)
    BY <1>1, <2>1 DEF PageNext
  <2>3. CASE \/ PressStart(d) \/ ClearConflict(d) \/ StartAgain(d) \/ StopRecording(d)
             \/ LoseCamera(d) \/ PutObject(d) \/ GiveUp(d)
    BY <2>3, PressStartInv, ClearConflictInv, StartAgainInv, StopRecordingInv,
       LoseCameraInv, PutObjectInv, GiveUpInv
  <2>4. CASE \/ PreserveVideo(d) \/ FailRecording(d) \/ Done(d) \/ RetryUpload(d)
             \/ Discard(d) \/ CloseTab(d) \/ Bootstrap(d) \/ AskDelete(d)
    BY <2>4, PreserveVideoInv, FailRecordingInv, DoneInv, RetryUploadInv, DiscardInv,
       CloseTabInv, BootstrapInv, AskDeleteInv
  <2> QED
    BY <2>2, <2>3, <2>4
<1>2. CASE ApiNext
  BY <1>2, LoadInv, StartInv, MarkUploadingInv, CompleteRecordingInv, MarkFailedInv,
     SoftDeleteInv, DropCallInv, ServerFailsInv DEF ApiNext
<1>3. CASE WorkerNext
  BY <1>3, SweepInv, ExpiryInv, PurgeInv, CountingInv, RestartWorkerInv DEF WorkerNext
<1>4. CASE UNCHANGED vars
  <2>1. /\ row' = row /\ bucket' = bucket /\ screen' = screen /\ kept' = kept
        /\ calls' = calls /\ footage' = footage /\ scene' = scene /\ used' = used
        /\ mishaps' = mishaps /\ work' = work
    BY <1>4 DEF vars
  <2> QED
    BY <2>1, WorkType, QuietStepInv
<1> QED
  BY <1>1, <1>2, <1>3, <1>4 DEF Next

LEMMA EvidenceInvHolds ==
  ASSUME PromptWrites
  PROVE  Spec => []EvidenceInv
BY InitEvidenceInv, NextEvidenceInv, PTL DEF Spec

\* The rows, the pages, the objects, the requests under way and the worker's
\* memory keep their types: in particular a page that uploads has a recording,
\* and the counter of used storage stays a number whatever writes race on it.
THEOREM RecordingsTypeCorrect ==
  ASSUME PromptWrites
  PROVE  Spec => []TypeOK
<1>1. EvidenceInv => TypeOK
  BY DEF EvidenceInv
<1> QED
  BY EvidenceInvHolds, <1>1, PTL

\* From the moment a recorder stops, its video is in a page's memory, in a
\* device's local store, or in the library, until somebody gives it up (deletes or
\* discards it, closes the tab that alone holds it, lets its retention end) or the
\* page itself drops it: when the server answers a first upload with an error of
\* its own, or the browser cannot store what should be kept.  For any number of
\* devices, recordings and requests under way, whichever of them are lost,
\* cancelled by another device, late, or refused for the quota.
THEOREM EvidenceIsKept ==
  ASSUME PromptWrites
  PROVE  Spec => []EvidenceKept
<1>1. EvidenceInv => EvidenceKept
  BY DEF EvidenceInv
<1> QED
  BY EvidenceInvHolds, <1>1, PTL
=============================================================================
