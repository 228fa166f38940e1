---------------------------- MODULE UploadBuffer ----------------------------
(***************************************************************************)
(* How the file server admits uploads (UploadBuffer.java): a session        *)
(* thread gives an upload an id and puts it into the queue, the manager     *)
(* thread (BufferManagerThread.java) reserves its size in the buffer and    *)
(* tells the client to begin, a handler thread (fileUploadOperation)        *)
(* receives it and releases the size.                                       *)
(*                                                                          *)
(* Uploads are requested once each, by the student OwnerOf[u].  A student's *)
(* client may stop at any time and a new one may log in later; the new one  *)
(* knows nothing of the uploads the old one had requested.  What a handler  *)
(* receives is left to UploadDialogue: here it saves the file or fails.     *)
(***************************************************************************)
EXTENDS Integers, Sequences, FiniteSets

CONSTANTS
  Uploads, Owners,
  OwnerOf,              \* the student of an upload
  FileLength,           \* its size
  MAX_BUFFER_SIZE,
  NoUpload

ASSUME UploadAssumption ==
  /\ IsFiniteSet(Uploads)
  /\ OwnerOf \in [Uploads -> Owners]
  /\ FileLength \in [Uploads -> Nat]
  /\ MAX_BUFFER_SIZE \in Nat
  /\ NoUpload \notin Uploads

\* Each upload takes one id, so no more are needed than there are uploads.
Ids == 1 .. Cardinality(Uploads)

VARIABLES
  client,             \* of each student: "on", "gone" (unnoticed), "off"
  request,            \* of each upload, as its client sees it
  stream,             \* words on their way to a student's client
  wire,               \* commands on their way to a student's session
  session,            \* of each student: what its session thread does next
  current,            \* the upload the session is dealing with
  read,               \* nextFileId as the session has read it
  nextFileId,
  idOf,               \* the id an upload was given, 0 before
  queueOperation, runningOperation,   \* the upload under an id, or NoUpload
  currentBufferSize,
  mpc, mid, mupload,  \* the manager thread: next step, its fileId and fileBuffer
  mlost,              \* has the stream the manager got been closed since?
  hpc, hbuffer,       \* the handler of an upload: next step and its fileBuffer
  held                \* uploads whose size is reserved and not yet released

clientVars  == <<client, request, stream, wire>>
threadVars == <<session, current, read>>
idVars      == <<nextFileId, idOf>>
mapVars     == <<queueOperation, runningOperation>>
managerVars == <<mpc, mid, mupload, mlost>>
handlerVars == <<hpc, hbuffer>>
budgetVars  == <<currentBufferSize, held>>
uploadVars == <<client, request, stream, wire, session, current, read, nextFileId,
          idOf, queueOperation, runningOperation, currentBufferSize, mpc, mid,
          mupload, mlost, hpc, hbuffer, held>>

\* A student is in currentlyOnlineStudents until the logout of its session.
InDirectory(s) == client[s] # "off"

UploadCmd(u)   == [word |-> "upload", upload |-> u, id |-> 0]
AbortCmd(id)   == [word |-> "uploadabort", upload |-> NoUpload, id |-> id]
FileId(u, id)  == [word |-> "fileid", upload |-> u, id |-> id]
Begin(id)      == [word |-> "beginupload", upload |-> NoUpload, id |-> id]

\* Mutant: the manager writes without entering the stream's monitor.
StreamFreeAlways(s) == TRUE

\* A session thread holds the monitor of its stream while it deals with an
\* operation.
StreamFree(s) == session[s] \notin {"add", "reply"}

\* A word written to the client of s arrives if the client is there; the write
\* may succeed all the same when it is not.
Writes(s, word) ==
  stream' = IF client[s] = "on" THEN [stream EXCEPT ![s] = Append(@, word)]
            ELSE stream

Reserves(u) ==
  /\ currentBufferSize' = currentBufferSize + FileLength[u]
  /\ held' = held \cup {u}

\* releaseBuffer
Releases(u) ==
  /\ currentBufferSize' = currentBufferSize - FileLength[u]
  /\ held' = held \ {u}

-----------------------------------------------------------------------------
InitUploads ==
  /\ client = [s \in Owners |-> "on"]
  /\ request = [u \in Uploads |-> "new"]
  /\ stream = [s \in Owners |-> <<>>]
  /\ wire = [s \in Owners |-> {}]
  /\ session = [s \in Owners |-> "serve"]
  /\ current = [s \in Owners |-> NoUpload]
  /\ read = [s \in Owners |-> 0]
  /\ nextFileId = 1
  /\ idOf = [u \in Uploads |-> 0]
  /\ queueOperation = [id \in Ids |-> NoUpload]
  /\ runningOperation = [id \in Ids |-> NoUpload]
  /\ currentBufferSize = 0
  /\ mpc = "scan" /\ mid = 0 /\ mupload = NoUpload /\ mlost = FALSE
  /\ hpc = [u \in Uploads |-> "none"]
  /\ hbuffer = [u \in Uploads |-> NoUpload]
  /\ held = {}

-----------------------------------------------------------------------------
(* The client *)

\* The upload command: into PendingUploads, then onto the wire.
Ask(u) ==
  /\ client[OwnerOf[u]] = "on"
  /\ request[u] = "new"
  /\ request' = [request EXCEPT ![u] = "pending"]
  /\ wire' = [wire EXCEPT ![OwnerOf[u]] = @ \cup {UploadCmd(u)}]
  /\ UNCHANGED <<client, stream, threadVars, idVars, mapVars, budgetVars,
                 managerVars, handlerVars>>

\* The client is closed or loses its network, and with it go its pending
\* uploads, the connections of its uploaders and what was on its way to it.
Stop(s) ==
  /\ client[s] = "on"
  /\ client' = [client EXCEPT ![s] = "gone"]
  /\ request' = [u \in Uploads |->
       IF OwnerOf[u] = s /\ request[u] # "new" THEN "lost" ELSE request[u]]
  /\ stream' = [stream EXCEPT ![s] = <<>>]
  /\ UNCHANGED <<wire, threadVars, idVars, mapVars, budgetVars, managerVars, handlerVars>>

\* A new client of the student logs in.
Login(s) ==
  /\ client[s] = "off"
  /\ client' = [client EXCEPT ![s] = "on"]
  /\ session' = [session EXCEPT ![s] = "serve"]
  /\ UNCHANGED <<request, stream, wire, current, read, idVars, mapVars,
                 budgetVars, managerVars, handlerVars>>

\* ServerThread reads "fileid" and notes the id of a pending upload.
ReceiveFileId(s) ==
  /\ stream[s] # <<>> /\ Head(stream[s]).word = "fileid"
  /\ stream' = [stream EXCEPT ![s] = Tail(@)]
  /\ request' = [request EXCEPT ![Head(stream[s]).upload] = "known"]
  /\ UNCHANGED <<client, wire, threadVars, idVars, mapVars, budgetVars,
                 managerVars, handlerVars>>

\* ServerThread reads "beginupload": it opens a connection for the pending
\* upload with that id, which may fail, or else cancels the upload.
ReceiveBegin(s) ==
  /\ stream[s] # <<>> /\ Head(stream[s]).word = "beginupload"
  /\ stream' = [stream EXCEPT ![s] = Tail(@)]
  /\ LET id == Head(stream[s]).id
         found == {u \in Uploads : OwnerOf[u] = s /\ request[u] = "known" /\ idOf[u] = id}
     IN \/ /\ \E u \in found :
                \/ /\ request' = [request EXCEPT ![u] = "uploading"]
                   /\ hpc' = [hpc EXCEPT ![u] = "open"]
                \/ /\ request' = [request EXCEPT ![u] = "lost"]
                   /\ UNCHANGED hpc
           /\ UNCHANGED wire
        \/ /\ found = {}
           /\ wire' = [wire EXCEPT ![s] = @ \cup {AbortCmd(id)}]
           /\ UNCHANGED <<request, hpc>>
  /\ UNCHANGED <<client, threadVars, idVars, mapVars, budgetVars, managerVars, hbuffer>>

Receive(s) == ReceiveFileId(s) \/ ReceiveBegin(s)

-----------------------------------------------------------------------------
(* The session thread *)

\* "upload" has been read; addOperation reads the counter.
UploadReads(s) ==
  /\ session[s] = "serve"
  /\ \E u \in Uploads :
       /\ UploadCmd(u) \in wire[s]
       /\ wire' = [wire EXCEPT ![s] = @ \ {UploadCmd(u)}]
       /\ current' = [current EXCEPT ![s] = u]
  /\ session' = [session EXCEPT ![s] = "add"]
  /\ read' = [read EXCEPT ![s] = nextFileId]
  /\ UNCHANGED <<client, request, stream, idVars, mapVars, budgetVars,
                 managerVars, handlerVars>>

\* addOperation writes the counter back and puts the upload into the queue.
UploadAdds(s) ==
  /\ session[s] = "add"
  /\ session' = [session EXCEPT ![s] = "reply"]
  /\ nextFileId' = read[s] + 1
  /\ idOf' = [idOf EXCEPT ![current[s]] = read[s]]
  /\ queueOperation' = [queueOperation EXCEPT ![read[s]] = current[s]]
  /\ UNCHANGED <<clientVars, current, read, runningOperation, budgetVars,
                 managerVars, handlerVars>>

\* The answer "fileid"; a failed write ends the session.
UploadReplies(s) ==
  /\ session[s] = "reply"
  /\ \/ /\ Writes(s, FileId(current[s], idOf[current[s]]))
        /\ session' = [session EXCEPT ![s] = "serve"]
     \/ /\ client[s] = "gone"
        /\ session' = [session EXCEPT ![s] = "logout"]
        /\ UNCHANGED stream
  /\ current' = [current EXCEPT ![s] = NoUpload]
  /\ read' = [read EXCEPT ![s] = 0]
  /\ UNCHANGED <<client, request, wire, idVars, mapVars, budgetVars,
                 managerVars, handlerVars>>

\* "uploadabort": without a running operation under the id the thread dies of
\* a null pointer and the student stays in the directory.
UploadAbort(s) ==
  /\ session[s] = "serve"
  /\ \E id \in Ids :
       /\ AbortCmd(id) \in wire[s]
       /\ wire' = [wire EXCEPT ![s] = @ \ {AbortCmd(id)}]
       /\ IF runningOperation[id] = NoUpload
          THEN /\ session' = [session EXCEPT ![s] = "dead"]
               /\ UNCHANGED <<runningOperation, budgetVars>>
          ELSE /\ Releases(runningOperation[id])
               /\ runningOperation' = [runningOperation EXCEPT ![id] = NoUpload]
               /\ UNCHANGED session
  /\ UNCHANGED <<client, request, stream, current, read, idVars, queueOperation,
                 managerVars, handlerVars>>

\* The end of the stream is noticed and the student logged out; commands that
\* are still on the wire may be lost.
LogoutOwner(s) ==
  /\ client[s] = "gone"
  /\ session[s] \in {"serve", "logout"}
  /\ client' = [client EXCEPT ![s] = "off"]
  /\ session' = [session EXCEPT ![s] = "off"]
  /\ wire' = [wire EXCEPT ![s] = {}]
  /\ mlost' = (mlost \/ (mpc \in {"write", "tell"} /\ OwnerOf[mupload] = s))
  /\ UNCHANGED <<request, stream, current, read, idVars, mapVars, budgetVars,
                 mpc, mid, mupload, handlerVars>>

SessionThread(s) ==
  UploadReads(s) \/ UploadAdds(s) \/ UploadReplies(s) \/ UploadAbort(s) \/ LogoutOwner(s)

-----------------------------------------------------------------------------
(* The manager thread *)

Rests == mpc' = "scan" /\ mid' = 0 /\ mupload' = NoUpload /\ mlost' = FALSE

\* One entry of the queue: isBufferAvailable, else the test for a file that
\* will never fit, else the next entry.
Scan ==
  /\ mpc = "scan"
  /\ \E id \in Ids :
       LET u == queueOperation[id] IN
       /\ u # NoUpload
       /\ \/ /\ currentBufferSize + FileLength[u] <= MAX_BUFFER_SIZE
             /\ Reserves(u)
             /\ mpc' = "move"
          \/ /\ currentBufferSize + FileLength[u] > MAX_BUFFER_SIZE
             /\ FileLength[u] > MAX_BUFFER_SIZE
             /\ mpc' = "tell_check"
             /\ UNCHANGED budgetVars
       /\ mid' = id
       /\ mupload' = u
  /\ UNCHANGED <<clientVars, threadVars, idVars, mapVars, mlost, handlerVars>>

\* Mutant: the upload is not noted as running.
MoveForgets ==
  /\ mpc = "move"
  /\ mpc' = "check"
  /\ queueOperation' = [queueOperation EXCEPT ![mid] = NoUpload]
  /\ UNCHANGED <<clientVars, threadVars, idVars, runningOperation, budgetVars,
                 mid, mupload, mlost, handlerVars>>

\* moveFileBuffer
Move ==
  /\ mpc = "move"
  /\ mpc' = "check"
  /\ queueOperation' = IF queueOperation[mid] = mupload
                       THEN [queueOperation EXCEPT ![mid] = NoUpload] ELSE queueOperation
  /\ runningOperation' = [runningOperation EXCEPT ![mid] = mupload]
  /\ UNCHANGED <<clientVars, threadVars, idVars, budgetVars, mid, mupload,
                 mlost, handlerVars>>

\* sendBeginUpload asks the directory twice: is the student there, ...
SendCheck ==
  /\ mpc = "check"
  /\ mpc' = IF InDirectory(OwnerOf[mupload]) THEN "get" ELSE "abort"
  /\ UNCHANGED <<clientVars, threadVars, idVars, mapVars, budgetVars, mid,
                 mupload, mlost, handlerVars>>

\* ... and which session is it; a student gone in between is a null pointer
\* that nobody catches.
SendGet ==
  /\ mpc = "get"
  /\ mpc' = IF InDirectory(OwnerOf[mupload]) THEN "write" ELSE "dead"
  /\ UNCHANGED <<clientVars, threadVars, idVars, mapVars, budgetVars, mid,
                 mupload, mlost, handlerVars>>

SendWrite ==
  LET s == OwnerOf[mupload] IN
  /\ mpc = "write"
  /\ mlost \/ StreamFree(s)
  /\ \/ /\ IF mlost THEN UNCHANGED stream ELSE Writes(s, Begin(mid))
        /\ Rests
     \/ /\ mlost \/ client[s] = "gone"
        /\ mpc' = "abort"
        /\ UNCHANGED <<stream, mid, mupload, mlost>>
  /\ UNCHANGED <<client, request, wire, threadVars, idVars, mapVars, budgetVars,
                 handlerVars>>

\* sendBeginUpload has returned false: abortCurrentOperation, and no release.
Abort ==
  /\ mpc = "abort"
  /\ runningOperation' = [runningOperation EXCEPT ![mid] = NoUpload]
  /\ Rests
  /\ UNCHANGED <<clientVars, threadVars, idVars, queueOperation, budgetVars, handlerVars>>

\* sendMessage to the owner of a file that is too large, with the same two
\* questions, and discardQueueOperation.
TellCheck ==
  /\ mpc = "tell_check"
  /\ mpc' = IF InDirectory(OwnerOf[mupload]) THEN "tell_get" ELSE "discard"
  /\ UNCHANGED <<clientVars, threadVars, idVars, mapVars, budgetVars, mid,
                 mupload, mlost, handlerVars>>

TellGet ==
  /\ mpc = "tell_get"
  /\ mpc' = IF InDirectory(OwnerOf[mupload]) THEN "tell" ELSE "dead"
  /\ UNCHANGED <<clientVars, threadVars, idVars, mapVars, budgetVars, mid,
                 mupload, mlost, handlerVars>>

Tell ==
  /\ mpc = "tell"
  /\ mlost \/ StreamFree(OwnerOf[mupload])
  /\ mpc' = "discard"
  /\ UNCHANGED <<clientVars, threadVars, idVars, mapVars, budgetVars, mid,
                 mupload, mlost, handlerVars>>

Discard ==
  /\ mpc = "discard"
  /\ queueOperation' = [queueOperation EXCEPT ![mid] = NoUpload]
  /\ Rests
  /\ UNCHANGED <<clientVars, threadVars, idVars, runningOperation, budgetVars, handlerVars>>

Manager ==
  \/ Scan \/ Move \/ SendCheck \/ SendGet \/ SendWrite \/ Abort
  \/ TellCheck \/ TellGet \/ Tell \/ Discard

-----------------------------------------------------------------------------
(* The handler thread of an upload *)

\* The header with the id arrives and the running operation is looked up;
\* without one the thread dies of a null pointer, in its finally clause too.
HandlerStart(u) ==
  /\ hpc[u] = "open"
  /\ hbuffer' = [hbuffer EXCEPT ![u] = runningOperation[idOf[u]]]
  /\ hpc' = [hpc EXCEPT ![u] = IF hbuffer'[u] = NoUpload THEN "dead" ELSE "data"]
  /\ UNCHANGED <<clientVars, threadVars, idVars, mapVars, budgetVars, managerVars>>

\* The connection breaks before the header has come.
HandlerNoHeader(u) ==
  /\ hpc[u] = "open" /\ request[u] = "lost"
  /\ hpc' = [hpc EXCEPT ![u] = "dead"]
  /\ UNCHANGED <<clientVars, threadVars, idVars, mapVars, budgetVars,
                 managerVars, hbuffer>>

\* All chunks are there and the file is written.
HandlerSave(u) ==
  /\ hpc[u] = "data"
  /\ hpc' = [hpc EXCEPT ![u] = "saved"]
  /\ UNCHANGED <<clientVars, threadVars, idVars, mapVars, budgetVars,
                 managerVars, hbuffer>>

HandlerRemove(u) ==
  /\ hpc[u] = "saved"
  /\ hpc' = [hpc EXCEPT ![u] = "release"]
  /\ runningOperation' = [runningOperation EXCEPT ![idOf[u]] = NoUpload]
  /\ UNCHANGED <<clientVars, threadVars, idVars, queueOperation, budgetVars,
                 managerVars, hbuffer>>

\* Mutant: a failure releases the size, and the finally clause once more.
HandlerFailReleases(u) ==
  /\ hpc[u] = "data"
  /\ Releases(hbuffer[u])
  /\ hpc' = [hpc EXCEPT ![u] = "release"]
  /\ UNCHANGED <<clientVars, threadVars, idVars, mapVars, managerVars, hbuffer>>

\* Timeout message, integrity check or write failed, or connection broken.
HandlerFail(u) ==
  /\ hpc[u] = "data"
  /\ hpc' = [hpc EXCEPT ![u] = "release"]
  /\ UNCHANGED <<clientVars, threadVars, idVars, mapVars, budgetVars,
                 managerVars, hbuffer>>

\* Mutant: the size is never released.
HandlerReleaseForgotten(u) ==
  /\ hpc[u] = "release"
  /\ hpc' = [hpc EXCEPT ![u] = "over"]
  /\ UNCHANGED <<clientVars, threadVars, idVars, mapVars, budgetVars,
                 managerVars, hbuffer>>

\* The finally clause.
HandlerRelease(u) ==
  /\ hpc[u] = "release"
  /\ Releases(hbuffer[u])
  /\ hpc' = [hpc EXCEPT ![u] = "over"]
  /\ UNCHANGED <<clientVars, threadVars, idVars, mapVars, managerVars, hbuffer>>

Handler(u) ==
  \/ HandlerStart(u) \/ HandlerNoHeader(u) \/ HandlerSave(u) \/ HandlerRemove(u)
  \/ HandlerFail(u) \/ HandlerRelease(u)

-----------------------------------------------------------------------------
NextUploads ==
  \/ \E u \in Uploads : Ask(u) \/ Handler(u)
  \/ \E s \in Owners : Stop(s) \/ Login(s) \/ Receive(s) \/ SessionThread(s)
  \/ Manager

UploadSpec == InitUploads /\ [][NextUploads]_uploadVars

\* The threads of the server and of the clients go on when they can; a client
\* that stays in touch brings each upload to an end, one way or another.
FairUploadSpec ==
  /\ UploadSpec
  /\ \A s \in Owners : WF_uploadVars(SessionThread(s)) /\ WF_uploadVars(Receive(s))
  /\ \A u \in Uploads : WF_uploadVars(Handler(u))
  /\ WF_uploadVars(Manager)

-----------------------------------------------------------------------------
(* Properties *)

Word    == {Begin(id) : id \in Ids} \cup {FileId(u, id) : u \in Uploads, id \in Ids}
Command == {UploadCmd(u) : u \in Uploads} \cup {AbortCmd(id) : id \in Ids}

UploadsTypeOK ==
  /\ client \in [Owners -> {"on", "gone", "off"}]
  /\ request \in [Uploads -> {"new", "pending", "known", "uploading", "lost"}]
  /\ stream \in [Owners -> Seq(Word)]
  /\ wire \in [Owners -> SUBSET Command]
  /\ session \in [Owners -> {"serve", "add", "reply", "logout", "dead", "off"}]
  /\ current \in [Owners -> Uploads \cup {NoUpload}]
  /\ read \in [Owners -> 0 .. Cardinality(Uploads)]
  /\ nextFileId \in 1 .. Cardinality(Uploads) + 1
  /\ idOf \in [Uploads -> {0} \cup Ids]
  /\ queueOperation \in [Ids -> Uploads \cup {NoUpload}]
  /\ runningOperation \in [Ids -> Uploads \cup {NoUpload}]
  /\ currentBufferSize \in Int
  /\ mpc \in {"scan", "move", "check", "get", "write", "abort", "tell_check",
              "tell_get", "tell", "discard", "dead"}
  /\ mid \in {0} \cup Ids
  /\ mupload \in Uploads \cup {NoUpload}
  /\ mlost \in BOOLEAN
  /\ hpc \in [Uploads -> {"none", "open", "data", "saved", "release", "over", "dead"}]
  /\ hbuffer \in [Uploads -> Uploads \cup {NoUpload}]
  /\ held \subseteq Uploads

\* No two uploads have been given the same id so far.
DistinctIds ==
  \A u, v \in Uploads : idOf[u] = idOf[v] /\ idOf[u] # 0 => u = v

\* The bytes the uploads in held may put into the buffer.
Reserved == UNION {{u} \X (1 .. FileLength[u]) : u \in held}

\* currentBufferSize is the total size of the uploads that hold a reservation,
\* and no more than the limit (isBufferAvailable, releaseBuffer): no size is
\* reserved or released twice, on whatever path an upload ends.
Accounting ==
  DistinctIds =>
    /\ currentBufferSize = Cardinality(Reserved)
    /\ currentBufferSize <= MAX_BUFFER_SIZE

\* A handler collects the chunks of its own upload, whose size is reserved from
\* its first chunk until the handler's finally clause releases it.
ReceivedIsReserved ==
  DistinctIds =>
    \A u \in Uploads :
      hpc[u] \in {"data", "saved", "release"} => hbuffer[u] = u /\ u \in held

\* Fields, reservations and buffers agree, on every path an upload can take.
UploadsInv == UploadsTypeOK /\ Accounting /\ ReceivedIsReserved

Words(s) == {stream[s][i] : i \in DOMAIN stream[s]}

\* What a client was told to begin stays in runningOperation until its handler
\* has found it or its cancellation has been dealt with: neither thread meets
\* the null pointer of an unknown id.
GrantIsBacked ==
  DistinctIds =>
    \A u \in Uploads :
      (\/ Begin(idOf[u]) \in Words(OwnerOf[u])
       \/ AbortCmd(idOf[u]) \in wire[OwnerOf[u]]
       \/ hpc[u] = "open")
      => runningOperation[idOf[u]] = u /\ u \in held

\* A client never reads that an upload may begin before it has read the id of
\* that upload, although two threads write the two words: the session holds its
\* stream's monitor from before the upload is queued until the id is written.
FileIdFirst ==
  DistinctIds =>
    \A u \in Uploads : \A i \in DOMAIN stream[OwnerOf[u]] :
      /\ stream[OwnerOf[u]][i] = Begin(idOf[u])
      /\ request[u] = "pending"
      => \E j \in 1 .. i - 1 : stream[OwnerOf[u]][j].word = "fileid"
                             /\ stream[OwnerOf[u]][j].upload = u

\* Nobody stops, no connection fails, no id is given twice.
Undisturbed ==
  /\ DistinctIds
  /\ \A s \in Owners : client[s] = "on"
  /\ \A u \in Uploads : request[u] # "lost"

\* If nothing is disturbed, every upload that can ever fit is handled, however
\* long it has to wait in the queue for others to release their reservations.
QueueServed ==
  []Undisturbed =>
    \A u \in Uploads :
      request[u] = "pending" /\ FileLength[u] <= MAX_BUFFER_SIZE ~> hpc[u] = "over"

\* The assignment's "fileID, which is used as the file identifier for the rest
\* of the file transmission": no two uploads have the same.  The code breaks it.
FileIdsUnique == DistinctIds

\* "the server should delete the chunk files for the corresponding fileID": when
\* the handler of a failed upload is over, runningOperation no longer keeps its
\* buffer.  The code breaks it.
ChunksDeleted ==
  DistinctIds =>
    \A u \in Uploads : hpc[u] = "over" => runningOperation[idOf[u]] # u

\* An upload's size counts against the limit only while somebody may still
\* send it or release it: the upload is with the manager, its client is told to
\* begin or about to cancel it, or it has a handler.  The code breaks it.
InHand(u) ==
  \/ mupload = u
  \/ Begin(idOf[u]) \in Words(OwnerOf[u])
  \/ AbortCmd(idOf[u]) \in wire[OwnerOf[u]]
  \/ hpc[u] \in {"open", "data", "saved", "release"}

BudgetReturned == DistinctIds => \A u \in held : InHand(u)

\* "the sender will be put on queue": there is a thread to serve the queue as
\* long as the server runs.  The code breaks it.
ManagerAlive == mpc # "dead"

=============================================================================
