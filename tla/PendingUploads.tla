--------------------------- MODULE PendingUploads ---------------------------
(***************************************************************************)
(* What a client remembers of the uploads it has asked for                  *)
(* (PendingUploads.java).  The main thread adds a file to the queue and     *)
(* sends the command; the ServerThread finds the entry again by the file's  *)
(* name when the server answers with an id or refuses, and by the id when   *)
(* the upload may begin.                                                    *)
(*                                                                          *)
(* Requests 1, 2, ... are made in that order; the id the server gives to    *)
(* request k is k.  A request names an id of a file request or it does not; *)
(* only those of Refusable can be refused.                                  *)
(***************************************************************************)
EXTENDS Naturals, Sequences, SequencesExt

CONSTANTS
  N,            \* number of requests
  NameOf,       \* the name of the file of a request
  Refusable     \* requests that name a file request the server may not know

Requests == 1 .. N

PendingAssumption ==
  N \in Nat /\ DOMAIN NameOf = Requests /\ Refusable \subseteq Requests

VARIABLES
  main,         \* the main thread: "idle", or "send" after it has added
  asked,        \* number of requests made
  queue,        \* the pending uploads, each a request with its id or 0
  toServer, toClient,
  accepted, refused, begun,     \* requests, as the server has dealt with them
  uploads,      \* the request whose file is sent under an id, or 0
  aborted       \* ids cancelled with uploadabort

serverVars == <<accepted, refused, begun>>
vars == <<main, asked, queue, toServer, toClient, accepted, refused, begun,
          uploads, aborted>>

Entry(k, id) == [request |-> k, id |-> id]
Msg(w, k)    == [word |-> w, request |-> k]

Init ==
  /\ main = "idle" /\ asked = 0
  /\ queue = <<>>
  /\ toServer = <<>> /\ toClient = <<>>
  /\ accepted = {} /\ refused = {} /\ begun = {}
  /\ uploads = [k \in Requests |-> 0]
  /\ aborted = {}

-----------------------------------------------------------------------------
(* The main thread *)

Add ==
  /\ main = "idle" /\ asked < N
  /\ main' = "send"
  /\ asked' = asked + 1
  /\ queue' = Append(queue, Entry(asked', 0))
  /\ UNCHANGED <<toServer, toClient, serverVars, uploads, aborted>>

Send ==
  /\ main = "send"
  /\ main' = "idle"
  /\ toServer' = Append(toServer, asked)
  /\ UNCHANGED <<asked, queue, toClient, serverVars, uploads, aborted>>

-----------------------------------------------------------------------------
(* The server: a session thread answers in order, the manager thread begins *)

Answer ==
  /\ toServer # <<>>
  /\ toServer' = Tail(toServer)
  /\ LET k == Head(toServer) IN
       \/ /\ toClient' = Append(toClient, Msg("fileid", k))
          /\ accepted' = accepted \cup {k}
          /\ UNCHANGED refused
       \/ /\ k \in Refusable
          /\ toClient' = Append(toClient, Msg("fileiderror", k))
          /\ refused' = refused \cup {k}
          /\ UNCHANGED accepted
  /\ UNCHANGED <<main, asked, queue, begun, uploads, aborted>>

BeginUpload ==
  \E k \in accepted \ begun :
    /\ toClient' = Append(toClient, Msg("beginupload", k))
    /\ begun' = begun \cup {k}
    /\ UNCHANGED <<main, asked, queue, toServer, accepted, refused, uploads, aborted>>

-----------------------------------------------------------------------------
(* The ServerThread *)

Receives(w) ==
  /\ toClient # <<>> /\ Head(toClient).word = w
  /\ toClient' = Tail(toClient)

\* The words carry the file's name, not the request.
SameName(entry, k) == NameOf[entry.request] = NameOf[k]

\* Mutant: an entry that has an id already is not passed over.
assignFIllIdAgain(k) ==
  LET i == SelectInSeq(queue, LAMBDA e : SameName(e, k))
  IN queue' = IF i = 0 THEN queue ELSE [queue EXCEPT ![i].id = k]

\* The first entry of that name that has no id yet.
assignFIllId(k) ==
  LET i == SelectInSeq(queue, LAMBDA e : SameName(e, k) /\ e.id = 0)
  IN queue' = IF i = 0 THEN queue ELSE [queue EXCEPT ![i].id = k]

\* The first entry of that name, whether it has an id or not.
removeFile(k) ==
  LET i == SelectInSeq(queue, LAMBDA e : SameName(e, k))
  IN queue' = IF i = 0 THEN queue ELSE RemoveAt(queue, i)

ReceiveFileId ==
  /\ Receives("fileid")
  /\ assignFIllId(Head(toClient).request)
  /\ UNCHANGED <<main, asked, toServer, serverVars, uploads, aborted>>

\* Mutant: a refused upload stays in the queue.
ReceiveErrorKeeps ==
  /\ Receives("fileiderror")
  /\ UNCHANGED <<main, asked, queue, toServer, serverVars, uploads, aborted>>

ReceiveError ==
  /\ Receives("fileiderror")
  /\ removeFile(Head(toClient).request)
  /\ UNCHANGED <<main, asked, toServer, serverVars, uploads, aborted>>

\* getFile takes the entry with that id out of the queue and its file is sent;
\* without one the upload is cancelled.
ReceiveBegin ==
  /\ Receives("beginupload")
  /\ LET id == Head(toClient).request
         i  == SelectInSeq(queue, LAMBDA e : e.id = id)
     IN IF i = 0
        THEN aborted' = aborted \cup {id} /\ UNCHANGED <<queue, uploads>>
        ELSE /\ queue' = RemoveAt(queue, i)
             /\ uploads' = [uploads EXCEPT ![id] = queue[i].request]
             /\ UNCHANGED aborted
  /\ UNCHANGED <<main, asked, toServer, serverVars>>

Next ==
  \/ Add \/ Send \/ Answer \/ BeginUpload
  \/ ReceiveFileId \/ ReceiveError \/ ReceiveBegin

Spec == Init /\ [][Next]_vars

-----------------------------------------------------------------------------
(* Properties *)

TypeOK ==
  /\ main \in {"idle", "send"} /\ asked \in 0 .. N
  /\ queue \in Seq([request : Requests, id : 0 .. N])
  /\ toServer \in Seq(Requests)
  /\ toClient \in Seq([word : {"fileid", "fileiderror", "beginupload"}, request : Requests])
  /\ accepted \cup refused \cup begun \cup aborted \subseteq Requests
  /\ uploads \in [Requests -> 0 .. N]

\* No refused request has the name of another one.
Unmixed == \A k \in refused, j \in 1 .. asked : NameOf[j] = NameOf[k] => j = k

\* The file sent under an id is the one of the request the id was given to, for
\* files of the same name too: commands and answers keep their order.
GrantMatchesRequest ==
  Unmixed => aborted = {} /\ \A k \in Requests : uploads[k] \in {0, k}

\* When nothing is on its way the client remembers exactly the uploads that
\* were accepted and may still begin, each once and under its id.
QueueIsWaiting ==
  Unmixed /\ main = "idle" /\ toServer = <<>> /\ toClient = <<>> =>
    /\ ToSet(queue) = {Entry(k, k) : k \in accepted \ begun}
    /\ IsInjective(queue)

\* Fields and contents of the queue.
Inv == TypeOK /\ QueueIsWaiting

\* "fileID, which is used as the file identifier for the rest of the file
\* transmission": the file sent under an id is the one that was given the id.
\* The code breaks it when a request for a file of the same name is refused.
IdIdentifiesFile == \A k \in Requests : uploads[k] \in {0, k}

=============================================================================
