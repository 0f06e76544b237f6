----------------------------- MODULE Recordings -----------------------------
(***************************************************************************)
(* Packing videos: the recording page of each device (use-recording, the   *)
(* local recovery store, upload retries), the recording API, the objects   *)
(* in the bucket and the organization's used storage, and the jobs of the  *)
(* worker that sweep, delete and recount.                                  *)
(*                                                                         *)
(* A request to the API travels on its own: the page that sent it may give *)
(* up on the answer, or be closed, while the server still works on it.     *)
(* The server loads the recording, checks it, and writes it with an update *)
(* that does not check again; Split says for which requests other steps    *)
(* may come in between.  Every video has one unit of storage.              *)
(***************************************************************************)
EXTENDS Integers, FiniteSets

CONSTANTS
  Devices,     \* browsers of one organization, one recording tab each
  Takes,       \* recordings
  NoTake,      \* "no recording"
  Quota,       \* the organization's storage quota, in videos
  Split,       \* requests whose check and write other steps may separate
  RetryInSweep, \* a retry may start while the sweep works on its batch
  Scenes,      \* bound: who and what takes part in one behaviour
  PurgeBatch,  \* how many deleted recordings one cleanup run takes up
  MaxKeys,     \* bound on the uploads of one recording
  MaxCalls,    \* bound on the requests under way
  MaxMishaps   \* bound on closed tabs, restarts, failing servers and stores

\* The devices at work, the recordings they may make, and what else happens.
Scene == [devices : SUBSET Devices, takes : SUBSET Takes,
          parts : SUBSET {"drop", "camera", "close", "fail", "delete", "sweep", "expire",
                          "purge", "recount", "restart"}]

ASSUME RecordingsAssumption ==
  /\ NoTake \notin Takes /\ IsFiniteSet(Takes)
  /\ Scenes \subseteq Scene
  /\ PurgeBatch \in Nat \ {0}
  /\ Quota \in Nat /\ MaxKeys \in Nat /\ MaxCalls \in Nat /\ MaxMishaps \in Nat
  /\ Split \subseteq {"start", "mark", "save", "cancel", "delete"}
  /\ RetryInSweep \in BOOLEAN

VARIABLES
  row,       \* the Recording rows
  used,      \* Organization.storageUsedBytes
  bucket,    \* the objects stored: a recording and the number of its upload
  screen,    \* the recording page of each device
  kept,      \* the videos each device keeps in IndexedDB
  calls,     \* the API requests under way
  work,      \* what the worker's jobs hold in memory
  footage,   \* what became of the video of each recording (history)
  mishaps,   \* how many there were so far (bound only)
  scene      \* the scene of this behaviour; it never changes

vars == <<row, used, bucket, screen, kept, calls, work, footage, mishaps, scene>>

Active == {"RECORDING", "UPLOADING"}
Resumable == {"RECORDING", "UPLOADING", "FAILED"}
Cancellable == {"RECORDING", "UPLOADING", "FAILED"}
Statuses == {"none", "RECORDING", "UPLOADING", "COMPLETED", "FAILED",
             "PENDING_DELETE", "DELETED"}

\* key 0 is the pending/ key a recording has until its upload is saved.
Row == [status : Statuses, key : 0..MaxKeys, deleted : BOOLEAN]
NewRow == [status |-> "none", key |-> 0, deleted |-> FALSE]

Points == {"idle", "loading", "starting", "conflict", "clearing", "cleared",
           "recording", "marking", "putting", "saving", "saved", "broken", "failed"}
Waiting == {"starting", "clearing", "marking", "saving"}

Screen == [at : Points, take : Takes \cup {NoTake}, retry : BOOLEAN, again : BOOLEAN]
IdleScreen == [at |-> "idle", take |-> NoTake, retry |-> FALSE, again |-> FALSE]

\* A request; loaded is what the server read, "unread" before it did.
Call == [op : {"start", "mark", "save", "cancel", "delete"}, by : Devices,
         take : Takes \cup {NoTake}, key : 0..MaxKeys, awaited : BOOLEAN,
         loaded : Statuses \cup {"unread"}, fits : BOOLEAN]

TypeOK ==
  /\ row \in [Takes -> Row]
  /\ used \in Int
  /\ bucket \subseteq Takes \X (1..MaxKeys)
  /\ screen \in [Devices -> Screen]
  /\ kept \in [Devices -> SUBSET Takes]
  /\ calls \subseteq Call
  /\ work \in [finalising : SUBSET Takes, sweeping : SUBSET Takes,
               purging : SUBSET (Takes \X (1..MaxKeys)),
               counting : {"idle", "read", "summed"}, before : Int, sum : Int]
  /\ footage \in [Takes -> {"none", "shot", "waived", "lost"}]
  /\ mishaps \in 0..MaxMishaps
  /\ scene \in Scenes

Init ==
  /\ row = [r \in Takes |-> NewRow]
  /\ used = 0
  /\ bucket = {}
  /\ screen = [d \in Devices |-> IdleScreen]
  /\ kept = [d \in Devices |-> {}]
  /\ calls = {}
  /\ work = [finalising |-> {}, sweeping |-> {}, purging |-> {},
             counting |-> "idle", before |-> 0, sum |-> 0]
  /\ footage = [r \in Takes |-> "none"]
  /\ mishaps = 0
  /\ scene \in Scenes

Server == <<row, used, bucket, work>>

Happens(part) == part \in scene.parts

GiveUpOn(r) == footage' = [footage EXCEPT ![r] = "waived"]

\* The page drops a video that nobody gave up.
Lose(r) == footage' = [footage EXCEPT ![r] = "lost"]

Mishap(part) == Happens(part) /\ mishaps < MaxMishaps /\ mishaps' = mishaps + 1

Shot(r) == footage' = [footage EXCEPT ![r] = IF @ = "none" THEN "shot" ELSE @]

-----------------------------------------------------------------------------
(* The recording page.                                                     *)

Request(d, op, r, n, awaited) ==
  [op |-> op, by |-> d, take |-> r, key |-> n, awaited |-> awaited,
   loaded |-> "unread", fits |-> TRUE]

Send(call) ==
  /\ Cardinality(calls) < MaxCalls
  /\ calls' = calls \cup {call}

Show(d, point) == screen' = [screen EXCEPT ![d].at = point]

\* startRecording of use-recording: asks the server for a session.
PressStart(d) ==
  /\ screen[d].at = "idle"
  /\ \E r \in scene.takes : row[r].status \in Active \cup {"none"}
  /\ Send(Request(d, "start", NoTake, 0, TRUE))
  /\ screen' = [screen EXCEPT ![d] = [IdleScreen EXCEPT !.at = "starting"]]
  /\ UNCHANGED <<Server, kept, footage, mishaps, scene>>

ActiveTakes == {r \in Takes : row[r].status \in Active /\ ~row[r].deleted}

\* Another session is active and no other tab of this browser records: the
\* page cancels that session, whichever device it is on, and asks again.
ClearConflict(d) ==
  /\ screen[d].at = "conflict"
  /\ IF ActiveTakes = {}
     THEN Show(d, "cleared") /\ calls' = calls
     ELSE /\ \E r \in ActiveTakes : Send(Request(d, "cancel", r, 0, TRUE))
          /\ Show(d, "clearing")
  /\ UNCHANGED <<Server, kept, footage, mishaps, scene>>

StartAgain(d) ==
  /\ screen[d].at = "cleared"
  /\ Send(Request(d, "start", NoTake, 0, TRUE))
  /\ screen' = [screen EXCEPT ![d].at = "starting", ![d].again = TRUE]
  /\ UNCHANGED <<Server, kept, footage, mishaps, scene>>

\* stopRecording: the video is in memory, the upload begins.
StopRecording(d) ==
  LET r == screen[d].take IN
  /\ screen[d].at = "recording"
  /\ Send(Request(d, "mark", r, 0, TRUE))
  /\ Show(d, "marking")
  /\ Shot(r)
  /\ UNCHANGED <<Server, kept, mishaps, scene>>

\* persistRecoverableRecording returns false: the browser has no local store or
\* fails to write to it ("the recording could not be saved").
StoreFails(r) == Mishap("fail") /\ kept' = kept /\ Lose(r)

\* handleWebcamDisconnect: the video so far is kept for a later upload.
LoseCamera(d) ==
  LET r == screen[d].take IN
  /\ Happens("camera")
  /\ screen[d].at = "recording"
  /\ \/ kept' = [kept EXCEPT ![d] = @ \cup {r}] /\ Shot(r) /\ mishaps' = mishaps
     \/ StoreFails(r)
  /\ Send(Request(d, "cancel", r, 0, FALSE))
  /\ screen' = [screen EXCEPT ![d] = IdleScreen]
  /\ UNCHANGED <<Server, scene>>

UsedKeys(r) == {n \in 1..MaxKeys : <<r, n>> \in bucket \cup work.purging \/ n = row[r].key
                  \/ \E c \in calls : c.take = r /\ c.key = n}

\* uploadFile: a new key within the quota, the object put under it; then the
\* metadata is sent.
PutObject(d) ==
  LET r == screen[d].take IN
  /\ screen[d].at = "putting"
  /\ IF used + 1 > Quota
     THEN Show(d, "broken") /\ UNCHANGED <<bucket, calls>>
     ELSE \E n \in 1..MaxKeys \ UsedKeys(r) :
            /\ \A m \in 1..(n - 1) : m \in UsedKeys(r)
            /\ bucket' = bucket \cup {<<r, n>>}
            /\ Send(Request(d, "save", r, n, TRUE))
            /\ Show(d, "saving")
  /\ UNCHANGED <<row, used, work, kept, footage, mishaps, scene>>

\* The network fails the page, or the operator cancels the upload: whatever
\* the server still does with the request, its answer is lost.
GiveUp(d) ==
  /\ screen[d].at \in Waiting \cup {"putting"}
  /\ calls' = {IF c.by = d THEN [c EXCEPT !.awaited = FALSE] ELSE c : c \in calls}
  /\ Show(d, IF screen[d].at \in {"starting", "clearing"} THEN "failed" ELSE "broken")
  /\ UNCHANGED <<Server, kept, footage, mishaps, scene>>

\* Faulty Preserved: the video of a first upload is not kept.
PreservedNot(d) == kept[d]

\* Faulty Preserved: the page is reset before its video is kept.
PreservedAfterReset(d) == IF screen[d].retry THEN kept[d] ELSE kept[d] \cup {IdleScreen.take}

\* A recoverable failure of a first upload keeps the video on the device.
Preserved(d) == IF screen[d].retry THEN kept[d] ELSE kept[d] \cup {screen[d].take}

\* handleRecoverableFailure, or the catch of a retry.
PreserveVideo(d) ==
  /\ screen[d].at = "broken"
  /\ \/ kept' = [kept EXCEPT ![d] = Preserved(d)] /\ UNCHANGED <<footage, mishaps>>
     \/ ~screen[d].retry /\ StoreFails(screen[d].take)
  /\ IF screen[d].retry THEN calls' = calls
     ELSE Send(Request(d, "cancel", screen[d].take, 0, FALSE))
  /\ screen' = [screen EXCEPT ![d] = IdleScreen]
  /\ UNCHANGED <<Server, scene>>

\* handleFailure: the session is cancelled, a video in memory is dropped.
FailRecording(d) ==
  LET r == screen[d].take IN
  /\ screen[d].at = "failed"
  /\ IF screen[d].retry \/ r = NoTake THEN calls' = calls
     ELSE Send(Request(d, "cancel", r, 0, FALSE))
  /\ screen' = [screen EXCEPT ![d] = IdleScreen]
  /\ UNCHANGED <<Server, kept, footage, mishaps, scene>>

\* The upload is saved: a retried one needs no local copy any more.
Done(d) ==
  /\ screen[d].at = "saved"
  /\ kept' = [kept EXCEPT ![d] = @ \ {screen[d].take}]
  /\ screen' = [screen EXCEPT ![d] = IdleScreen]
  /\ UNCHANGED <<Server, calls, footage, mishaps, scene>>

\* retryTemporaryRecordingUpload.
RetryUpload(d) ==
  \E r \in kept[d] :
    /\ screen[d].at = "idle"
    /\ RetryInSweep \/ r \notin work.sweeping
    /\ Send(Request(d, "mark", r, 0, TRUE))
    /\ screen' = [screen EXCEPT ![d] = [at |-> "marking", take |-> r,
                                        retry |-> TRUE, again |-> FALSE]]
    /\ UNCHANGED <<Server, kept, footage, mishaps, scene>>

\* discardRecording: the operator throws the local copy away.
Discard(d) ==
  \E r \in kept[d] :
    /\ screen[d].at = "idle"
    /\ kept' = [kept EXCEPT ![d] = @ \ {r}]
    /\ GiveUpOn(r)
    /\ Send(Request(d, "cancel", r, 0, FALSE))
    /\ UNCHANGED <<Server, screen, mishaps, scene>>

\* The tab is closed; a video only in its memory is gone.
CloseTab(d) ==
  /\ Mishap("close")
  /\ screen[d].at # "idle"
  /\ calls' = {IF c.by = d THEN [c EXCEPT !.awaited = FALSE] ELSE c : c \in calls}
  /\ IF screen[d].retry \/ screen[d].at = "saved" \/ screen[d].take = NoTake
     THEN footage' = footage ELSE GiveUpOn(screen[d].take)
  /\ screen' = [screen EXCEPT ![d] = [IdleScreen EXCEPT !.at = "loading"]]
  /\ UNCHANGED <<Server, kept, scene>>

\* use-recovery-bootstrap: a page that opens cancels an active session this
\* device holds no video of.
Bootstrap(d) ==
  /\ screen[d].at = "loading"
  /\ IF ActiveTakes \subseteq kept[d] THEN calls' = calls
     ELSE \E r \in ActiveTakes \ kept[d] : Send(Request(d, "cancel", r, 0, FALSE))
  /\ screen' = [screen EXCEPT ![d] = IdleScreen]
  /\ UNCHANGED <<Server, kept, footage, mishaps, scene>>

\* Someone deletes a recording from the library.
AskDelete(d) ==
  \E r \in Takes :
    /\ Happens("delete")
    /\ row[r].status \notin {"none", "DELETED"} /\ ~row[r].deleted
    /\ Send(Request(d, "delete", r, 0, FALSE))
    /\ GiveUpOn(r)
    /\ UNCHANGED <<Server, screen, kept, mishaps, scene>>

PageNext ==
  \E d \in scene.devices :
    \/ PressStart(d) \/ ClearConflict(d) \/ StartAgain(d) \/ StopRecording(d)
    \/ LoseCamera(d) \/ PutObject(d) \/ GiveUp(d) \/ PreserveVideo(d)
    \/ FailRecording(d) \/ Done(d) \/ RetryUpload(d) \/ Discard(d)
    \/ CloseTab(d) \/ Bootstrap(d) \/ AskDelete(d)

-----------------------------------------------------------------------------
(* The recording API.                                                      *)

\* getOwnedRecording: a deleted recording is not found.
Loaded(r) == IF row[r].deleted THEN "DELETED" ELSE row[r].status

\* deleteObject of the recording's object, which storage may fail.
TryDelete(r) == bucket' \in {bucket, bucket \ {<<r, row[r].key>>}}

\* The server reads what it decides by, ahead of its write; a delete request
\* also deletes the object, as far as storage answers.
Load(c) ==
  /\ c.op \in Split /\ c.loaded = "unread"
  /\ calls' = (calls \ {c}) \cup
       {[c EXCEPT !.fits = used + 1 <= Quota,
                  !.loaded = IF c.op = "start"
                             THEN IF ActiveTakes = {} THEN "none" ELSE "RECORDING"
                             ELSE Loaded(c.take)]}
  /\ IF c.op = "delete" /\ Loaded(c.take) # "DELETED" THEN TryDelete(c.take)
     ELSE bucket' = bucket
  /\ UNCHANGED <<row, used, work, screen, kept, footage, mishaps, scene>>

Ready(c) == c.op \in Split => c.loaded # "unread"
Read(c) == IF c.op \in Split THEN c.loaded ELSE Loaded(c.take)
Fits(c) == IF c.op \in Split THEN c.fits ELSE used + 1 <= Quota

\* The answer reaches the page, if it still waits for it.
Answer(c, point, r) ==
  /\ calls' = calls \ {c}
  /\ screen' = IF c.awaited
               THEN [screen EXCEPT ![c.by].at = point, ![c.by].take = r]
               ELSE screen

NoneActive(c) == IF c.op \in Split THEN c.loaded = "none" ELSE ActiveTakes = {}

\* startRecording.
Start(c) ==
  /\ c.op = "start" /\ Ready(c)
  /\ IF NoneActive(c) /\ used < Quota
     THEN \E r \in scene.takes :
            /\ row[r].status = "none"
            /\ row' = [row EXCEPT ![r].status = "RECORDING"]
            /\ Answer(c, "recording", r)
     ELSE /\ row' = row
          /\ Answer(c, IF NoneActive(c) \/ screen[c.by].again
                       THEN "failed" ELSE "conflict", NoTake)
  /\ UNCHANGED <<used, bucket, work, kept, footage, mishaps, scene>>

MarkAccepted(c) == Read(c) \in Resumable

\* markUploading: a failed session is resumed by a retried upload.
MarkUploading(c) ==
  /\ c.op = "mark" /\ Ready(c)
  /\ IF MarkAccepted(c)
     THEN /\ row' = IF Read(c) = "UPLOADING" THEN row
                    ELSE [row EXCEPT ![c.take].status = "UPLOADING"]
          /\ Answer(c, "putting", c.take)
     ELSE row' = row /\ Answer(c, "failed", c.take)
  /\ UNCHANGED <<used, bucket, work, kept, footage, mishaps, scene>>

\* completeRecording: the row and the organization's bytes in one transaction.
CompleteRecording(c) ==
  /\ c.op = "save" /\ Ready(c)
  /\ IF Fits(c) /\ Read(c) \in Resumable
     THEN /\ row' = [row EXCEPT ![c.take].status = "COMPLETED", ![c.take].key = c.key]
          /\ used' = used + 1
          /\ Answer(c, "saved", c.take)
     ELSE /\ UNCHANGED <<row, used>>
          /\ Answer(c, IF Fits(c) THEN "failed" ELSE "broken", c.take)
  /\ UNCHANGED <<bucket, work, kept, footage, mishaps, scene>>

CancelAccepted(c) == Read(c) \in Cancellable

\* markFailed.
MarkFailed(c) ==
  /\ c.op = "cancel" /\ Ready(c)
  /\ row' = IF CancelAccepted(c) THEN [row EXCEPT ![c.take].status = "FAILED"] ELSE row
  /\ Answer(c, "cleared", NoTake)
  /\ UNCHANGED <<used, bucket, work, kept, footage, mishaps, scene>>

\* softDeleteRecording: the object first, then the row and the bytes.
SoftDelete(c) ==
  LET r == c.take IN
  /\ c.op = "delete" /\ Ready(c)
  /\ Answer(c, "idle", NoTake)
  /\ IF Read(c) = "DELETED" THEN UNCHANGED <<row, used, bucket>>
     ELSE /\ row' = [row EXCEPT ![r].status = "DELETED", ![r].deleted = TRUE]
          /\ used' = IF Read(c) = "COMPLETED" THEN used - 1 ELSE used
          /\ IF c.op \in Split THEN bucket' = bucket ELSE TryDelete(r)
  /\ UNCHANGED <<work, kept, footage, mishaps, scene>>

\* A request that never arrives, or dies with the server.
DropCall(c) ==
  /\ Happens("drop")
  /\ calls' = calls \ {c}
  /\ screen' = IF c.awaited
               THEN [screen EXCEPT ![c.by].at =
                       IF c.op \in {"start", "cancel"} THEN "failed" ELSE "broken"]
               ELSE screen
  /\ UNCHANGED <<Server, kept, footage, mishaps, scene>>

\* An answer that is an error of the server, not of the network: the page
\* takes it for final and drops the video of a first upload.
ServerFails(c) ==
  /\ Mishap("fail")
  /\ c.awaited /\ c.op \in {"mark", "save"}
  /\ Answer(c, "failed", c.take)
  /\ IF screen[c.by].retry THEN footage' = footage ELSE Lose(c.take)
  /\ UNCHANGED <<Server, kept, scene>>

ApiNext ==
  \E c \in calls :
    \/ Load(c) \/ Start(c) \/ MarkUploading(c) \/ CompleteRecording(c)
    \/ MarkFailed(c) \/ SoftDelete(c) \/ DropCall(c) \/ ServerFails(c)

-----------------------------------------------------------------------------
(* The worker.                                                             *)

\* A day or more without an update: nobody is at work on the recording.
Aged(r) ==
  /\ \A d \in Devices : screen[d].take # r
  /\ \A c \in calls : c.take # r

Untouched == UNCHANGED <<screen, kept, calls, mishaps, scene>>

\* cleanup-failed-uploads, first pass: a stale session has failed.
SweepStale(r) ==
  /\ Happens("sweep")
  /\ row[r].status \in Active /\ ~row[r].deleted /\ Aged(r)
  /\ row' = [row EXCEPT ![r].status = "FAILED"]
  /\ UNCHANGED <<used, bucket, work, footage>> /\ Untouched

Abandoned(r) == row[r].status = "FAILED" /\ ~row[r].deleted /\ Aged(r)

\* Second pass: the batch of abandoned uploads is read ...
PickAbandoned(r) ==
  /\ Happens("sweep")
  /\ Abandoned(r) /\ r \notin work.sweeping
  /\ work' = [work EXCEPT !.sweeping = @ \cup {r}]
  /\ UNCHANGED <<row, used, bucket, footage>> /\ Untouched

\* ... and each of them deleted, its object first, without reading it again.
DeleteAbandoned(r) ==
  /\ r \in work.sweeping
  /\ work' = [work EXCEPT !.sweeping = @ \ {r}]
  /\ bucket' = bucket \ {<<r, row[r].key>>}
  /\ row' = [row EXCEPT ![r].status = "DELETED", ![r].deleted = TRUE]
  /\ UNCHANGED <<used, footage>> /\ Untouched

\* cleanup-recordings: the retention has passed; the row is claimed.
ClaimExpired(r) ==
  /\ Happens("expire")
  /\ row[r].status = "COMPLETED" /\ ~row[r].deleted /\ Aged(r)
  /\ row' = [row EXCEPT ![r].status = "PENDING_DELETE"]
  /\ GiveUpOn(r)
  /\ UNCHANGED <<used, bucket, work>> /\ Untouched

\* finalizeRecordingDeletion up to its transaction: the object is deleted, as
\* far as storage answers.
DeleteExpired(r) ==
  /\ row[r].status = "PENDING_DELETE" /\ r \notin work.finalising
  /\ work' = [work EXCEPT !.finalising = @ \cup {r}]
  /\ TryDelete(r)
  /\ UNCHANGED <<row, used, footage>> /\ Untouched

StillClaimed(r) == row[r].status = "PENDING_DELETE"

\* Its transaction.
FinaliseDeletion(r) ==
  /\ r \in work.finalising
  /\ work' = [work EXCEPT !.finalising = @ \ {r}]
  /\ IF StillClaimed(r)
     THEN /\ row' = [row EXCEPT ![r].status = "DELETED", ![r].deleted = TRUE]
          /\ used' = used - 1
     ELSE UNCHANGED <<row, used>>
  /\ UNCHANGED <<bucket, footage>> /\ Untouched

\* Faulty Purgeable: only what the retention job itself is about to delete.
PurgeableClaimed == {r \in Takes : row[r].status = "PENDING_DELETE" /\ row[r].key # 0}

\* Deleted recordings that had an object; they stay so when it is gone.
Purgeable == {r \in Takes : row[r].status = "DELETED" /\ row[r].deleted /\ row[r].key # 0}

\* Third pass: a batch of them is read, in no order ...
ReadPurgeable ==
  /\ Happens("purge")
  /\ work.purging = {} /\ Purgeable # {}
  /\ \E batch \in SUBSET Purgeable :
       /\ \/ Cardinality(batch) = PurgeBatch
          \/ batch = Purgeable /\ Cardinality(batch) < PurgeBatch
       /\ work' = [work EXCEPT !.purging = {<<r, row[r].key>> : r \in batch}]
  /\ UNCHANGED <<row, used, bucket, footage>> /\ Untouched

\* ... and each object deleted; the job goes on when storage fails.
PurgeObject(object) ==
  /\ object \in work.purging
  /\ work' = [work EXCEPT !.purging = @ \ {object}]
  /\ \/ bucket' = bucket \ {object} /\ mishaps' = mishaps
     \/ bucket' = bucket /\ Mishap("fail")
  /\ UNCHANGED <<row, used, footage, screen, kept, calls, scene>>

Purge == ReadPurgeable \/ \E object \in work.purging : PurgeObject(object)

Stored == Cardinality({r \in Takes : row[r].status = "COMPLETED" /\ ~row[r].deleted})

\* Faulty Summed: what was stored when the counter was read, not since.
SummedBefore == work.before

Summed == Stored

\* recalculate-storage: reads the counter, sums the recordings, and writes the
\* sum when it differs from the counter it has read.
ReadUsed ==
  /\ Happens("recount")
  /\ work.counting = "idle"
  /\ work' = [work EXCEPT !.counting = "read", !.before = used]
  /\ UNCHANGED <<row, used, bucket, footage>> /\ Untouched

SumStored ==
  /\ work.counting = "read"
  /\ work' = [work EXCEPT !.counting = "summed", !.sum = Summed]
  /\ UNCHANGED <<row, used, bucket, footage>> /\ Untouched

WriteUsed ==
  /\ work.counting = "summed"
  /\ used' = IF work.sum = work.before THEN used ELSE work.sum
  /\ work' = [work EXCEPT !.counting = "idle", !.before = 0, !.sum = 0]
  /\ UNCHANGED <<row, bucket, footage>> /\ Untouched

\* The worker restarts; what its jobs had read is gone.
RestartWorker ==
  /\ Mishap("restart")
  /\ work' = [work EXCEPT !.finalising = {}, !.sweeping = {}, !.purging = {},
                          !.counting = "idle", !.before = 0, !.sum = 0]
  /\ UNCHANGED <<row, used, bucket, screen, kept, calls, footage, scene>>

Recount == ReadUsed \/ SumStored \/ WriteUsed

WorkerNext ==
  \/ \E r \in Takes :
       \/ SweepStale(r) \/ PickAbandoned(r) \/ DeleteAbandoned(r) \/ ClaimExpired(r)
       \/ DeleteExpired(r) \/ FinaliseDeletion(r)
  \/ Purge \/ Recount \/ RestartWorker

Next == PageNext \/ ApiNext \/ WorkerNext

Spec == Init /\ [][Next]_vars

\* The worker's schedule runs every job again and again.
JobFairness ==
  /\ WF_vars(Recount) /\ WF_vars(Purge)
  /\ \A r \in Takes : WF_vars(DeleteExpired(r) \/ FinaliseDeletion(r))

FairSpec == Spec /\ JobFairness

-----------------------------------------------------------------------------
InMemory(r) ==
  \E d \in Devices :
    /\ screen[d].take = r /\ ~screen[d].retry
    /\ screen[d].at \in {"marking", "putting", "saving", "broken", "failed"}

InLibrary(r) ==
  row[r].status = "COMPLETED" /\ ~row[r].deleted /\ <<r, row[r].key>> \in bucket

\* From the moment a recorder stops, its video is in a page's memory, kept on a
\* device, or in the library, until somebody gives it up (deletes or discards it,
\* closes the tab that alone holds it), its retention ends, or the page itself
\* drops it, which it does in two cases: the server answers a first upload with
\* an error of its own, or the browser cannot store what should be kept.  Lost
\* answers, requests still under way, full quotas, sessions cancelled by another
\* device, sweeps and retries never lose one.
EvidenceKept ==
  \A r \in Takes :
    footage[r] = "shot" => InMemory(r) \/ (\E d \in Devices : r \in kept[d]) \/ InLibrary(r)

\* The used storage comes back to what is stored, whatever requests, jobs and
\* recounts have done to it in the meantime.
QuotaConverges == Happens("recount") => <>[](used = Stored)

\* The objects of deleted recordings are deleted in the end, also when storage
\* did not answer, the worker restarted half way or a late request changed the
\* row, as long as the deleted recordings fit one batch: they stay deleted, a
\* batch is taken in no order, and beyond its size some may never be taken.
ObjectsFreed ==
  \/ []<>(Cardinality(Purgeable) > PurgeBatch)
  \/ Happens("purge") =>
       \A r \in Takes : []<>(row[r].status # "DELETED" \/ <<r, row[r].key>> \notin bucket)

\* A video kept for upload can still be uploaded: "Upload interrupted. You can
\* safely retry upload."
KeptCanBeUploaded ==
  \A d \in Devices : \A r \in kept[d] :
    screen[d].at = "idle" => row[r].status \in Resumable
=============================================================================
