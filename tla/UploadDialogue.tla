--------------------------- MODULE UploadDialogue ---------------------------
(***************************************************************************)
(* The transfer of one file to the server: the client's uploader thread     *)
(* (FileUploaderThread.java) and the server's handler thread                *)
(* (ClientThread.fileUploadOperation) over a connection of their own.       *)
(*                                                                          *)
(* toServer is the byte stream to the server, cut into the words the        *)
(* uploader writes and pieces ("bytes") of file data; a chunk is the word   *)
(* "uploadchunk" with its length, then its bytes.  The stream keeps order   *)
(* and loses nothing until the connection breaks, but a read may return     *)
(* fewer bytes than asked for.                                              *)
(***************************************************************************)
EXTENDS Naturals, Sequences, SequencesExt, FiniteSetsExt

CONSTANTS
  FileLength,    \* the length the client announced when it asked to upload
  MaxLength,     \* bound on the length the file has when it is sent
  ChunkSize

DialogueAssumption ==
  FileLength \in Nat /\ MaxLength \in Nat /\ ChunkSize \in Nat \ {0}

VARIABLES
  cpc,           \* what the uploader does next
  length,        \* length of the file when it is sent
  totalSent,
  verdict,       \* what the uploader has reported
  toServer, toClient,
  broken,        \* the connection is broken
  spc,           \* what the handler does next
  want,          \* length of the chunk the handler reads
  counted,       \* sum of the lengths of the arrays it has collected
  arrived,       \* bytes of the file it has really read
  short,         \* has a read returned less than a whole chunk?
  saved          \* is the file in the student's directory?

clientVars == <<cpc, length, totalSent, verdict>>
serverVars == <<spc, want, counted, arrived, short, saved>>
vars == <<cpc, length, totalSent, verdict, toServer, toClient, broken,
          spc, want, counted, arrived, short, saved>>

Chunk(n) == [word |-> "uploadchunk", length |-> n]
Word(w)  == [word |-> w, length |-> 0]
Byte     == Word("byte")
Bytes(n) == [i \in 1 .. n |-> Byte]

Init ==
  /\ cpc = "open" /\ length \in 0 .. MaxLength /\ totalSent = 0
  /\ verdict = "none"
  /\ toServer = <<>> /\ toClient = <<>> /\ broken = FALSE
  /\ spc = "op" /\ want = 0 /\ counted = 0 /\ arrived = 0
  /\ short = FALSE /\ saved = FALSE

-----------------------------------------------------------------------------
(* The uploader *)

ClientGoto(from, to) == cpc = from /\ cpc' = to

\* The file is opened after the header was sent.  If it is no longer there, or
\* cannot be read later, the thread returns and leaves the connection open.
Open ==
  /\ ClientGoto("open", "chunk")
  /\ UNCHANGED <<length, totalSent, verdict, toServer, toClient, broken, serverVars>>

GiveUp ==
  /\ ClientGoto("open", "silent") \/ ClientGoto("chunk", "silent")
  /\ verdict' = "failed"
  /\ UNCHANGED <<length, totalSent, toServer, toClient, broken, serverVars>>

SendChunk ==
  /\ ClientGoto("chunk", "ack")
  /\ ~broken /\ totalSent < length
  /\ LET n == Min({ChunkSize, length - totalSent})
     IN /\ toServer' = toServer \o <<Chunk(n)>> \o Bytes(n)
        /\ totalSent' = totalSent + n
  /\ UNCHANGED <<length, verdict, toClient, broken, serverVars>>

SendComplete ==
  /\ ClientGoto("chunk", "result")
  /\ ~broken /\ totalSent = length
  /\ toServer' = Append(toServer, Word("completeupload"))
  /\ UNCHANGED <<length, totalSent, verdict, toClient, broken, serverVars>>

ReceiveAck ==
  /\ ClientGoto("ack", "chunk")
  /\ toClient # <<>> /\ Head(toClient) = "ack"
  /\ toClient' = Tail(toClient)
  /\ UNCHANGED <<length, totalSent, verdict, toServer, broken, serverVars>>

\* Mutant: after a timeout the uploader goes on to the end of the file.
TimeoutIgnored ==
  /\ ClientGoto("ack", "chunk")
  /\ verdict' = "timeout"
  /\ UNCHANGED <<length, totalSent, toServer, toClient, broken, serverVars>>

\* No acknowledgement within 30 seconds, even if it arrives just afterwards.
Timeout ==
  /\ ClientGoto("ack", "closed")
  /\ verdict' = "timeout"
  /\ toServer' = IF broken THEN toServer ELSE Append(toServer, Word("abort"))
  /\ UNCHANGED <<length, totalSent, toClient, broken, serverVars>>

ReceiveResult ==
  /\ ClientGoto("result", "closed")
  /\ toClient # <<>>
  /\ toClient' = Tail(toClient)
  /\ verdict' = IF Head(toClient) = "nack" THEN "integrity" ELSE "success"
  /\ UNCHANGED <<length, totalSent, toServer, broken, serverVars>>

\* A write or a read fails; waiting for the result there is no time limit, only
\* the end of the connection.
ClientError ==
  /\ cpc \in {"chunk", "ack", "result"}
  /\ toClient = <<>>
  /\ broken \/ spc = "over"
  /\ cpc' = "closed"
  /\ verdict' = "failed"
  /\ UNCHANGED <<length, totalSent, toServer, toClient, broken, serverVars>>

Client ==
  \/ Open \/ GiveUp \/ SendChunk \/ SendComplete \/ ReceiveAck \/ Timeout
  \/ ReceiveResult \/ ClientError

-----------------------------------------------------------------------------
(* The handler *)

ServerGoto(from, to) == spc = from /\ spc' = to

Next1 == Head(toServer)

Replies(word) == toClient' = IF broken THEN toClient ELSE Append(toClient, word)

ReadChunkLength ==
  /\ ServerGoto("op", "bytes")
  /\ toServer # <<>> /\ Next1.word = "uploadchunk"
  /\ want' = Next1.length
  /\ toServer' = Tail(toServer)
  /\ UNCHANGED <<clientVars, toClient, broken, counted, arrived, short, saved>>

\* How many bytes of file data are at the head of the stream.
Available ==
  Max({n \in 0 .. Len(toServer) : \A i \in 1 .. n : toServer[i] = Byte})

\* Mutant: the chunk is acknowledged before it is stored.
ReadBytesLost ==
  /\ ServerGoto("bytes", "op")
  /\ Available > 0
  /\ \E n \in 1 .. Min({want, Available}) :
       /\ toServer' = SubSeq(toServer, n + 1, Len(toServer))
       /\ short' = (short \/ n < want)
       /\ \/ arrived' = arrived + n /\ counted' = counted + want
          \/ UNCHANGED <<arrived, counted>>
  /\ Replies("ack")
  /\ UNCHANGED <<clientVars, broken, want, saved>>

\* One call of read fills the front of an array of the announced length; the
\* whole array is stored and acknowledged, however few bytes have come.
ReadBytes ==
  /\ ServerGoto("bytes", "op")
  /\ Available > 0
  /\ \E n \in 1 .. Min({want, Available}) :
       /\ toServer' = SubSeq(toServer, n + 1, Len(toServer))
       /\ arrived' = arrived + n
       /\ short' = (short \/ n < want)
  /\ counted' = counted + want
  /\ Replies("ack")
  /\ UNCHANGED <<clientVars, broken, want, saved>>

\* Bytes left over from a short read are taken for a word: its length and text
\* are file data.  It ends anywhere, within or after the words that follow, is
\* no word of the protocol and is skipped; or it is not decodable; or it is
\* longer than anything that comes.
ReadGarbage ==
  /\ spc = "op"
  /\ toServer # <<>> /\ Next1 = Byte
  /\ \/ /\ \E n \in 1 .. Len(toServer) :
             LET rest == SubSeq(toServer, n + 1, Len(toServer))
             IN \/ toServer' = rest
                \/ toServer' = <<Byte>> \o rest
        /\ UNCHANGED spc
     \/ spc' \in {"finally", "stuck"} /\ UNCHANGED toServer
  /\ UNCHANGED <<clientVars, toClient, broken, want, counted, arrived, short, saved>>

ReadComplete ==
  /\ ServerGoto("op", "check")
  /\ toServer # <<>> /\ Next1.word = "completeupload"
  /\ toServer' = Tail(toServer)
  /\ UNCHANGED <<clientVars, toClient, broken, want, counted, arrived, short, saved>>

ReadAbort ==
  /\ ServerGoto("op", "finally")
  /\ toServer # <<>> /\ Next1.word = "abort"
  /\ toServer' = Tail(toServer)
  /\ UNCHANGED <<clientVars, toClient, broken, want, counted, arrived, short, saved>>

\* Mutant: a file that came out shorter than announced is accepted.
checkIntegrityAtMost == counted <= FileLength

checkIntegrity == counted = FileLength

\* The verdict is sent before the file is written.
CheckIntegrity ==
  /\ spc = "check"
  /\ Replies(IF checkIntegrity THEN "ack" ELSE "nack")
  /\ spc' = IF checkIntegrity THEN "write" ELSE "finally"
  /\ UNCHANGED <<clientVars, toServer, broken, want, counted, arrived, short, saved>>

WriteFile ==
  /\ ServerGoto("write", "finally")
  /\ saved' \in BOOLEAN
  /\ UNCHANGED <<clientVars, toServer, toClient, broken, want, counted, arrived, short>>

\* Mutant: without a finally clause an error leaves the handler's work undone.
ServerErrorEnds ==
  /\ spc \in {"op", "bytes", "stuck", "check"}
  /\ broken \/ (cpc = "closed" /\ (toServer = <<>> \/ toClient # <<>> \/ spc = "stuck"))
  /\ spc' = "stuck"
  /\ UNCHANGED <<clientVars, toServer, toClient, broken, want, counted, arrived, short, saved>>

\* The end of the stream, a reset, or a write to a closed connection.
ServerError ==
  /\ spc \in {"op", "bytes", "stuck", "check"}
  /\ broken \/ (cpc = "closed" /\ (toServer = <<>> \/ toClient # <<>> \/ spc = "stuck"))
  /\ spc' = "finally"
  /\ UNCHANGED <<clientVars, toServer, toClient, broken, want, counted, arrived, short, saved>>

\* The finally clause gives the reserved size back and the socket is closed.
Finally ==
  /\ ServerGoto("finally", "over")
  /\ UNCHANGED <<clientVars, toServer, toClient, broken, want, counted, arrived, short, saved>>

Server ==
  \/ ReadChunkLength \/ ReadBytes \/ ReadGarbage \/ ReadComplete \/ ReadAbort
  \/ CheckIntegrity \/ WriteFile \/ ServerError \/ Finally

\* The client stops or the network fails; what is on its way is lost.
Break ==
  /\ ~broken
  /\ broken' = TRUE
  /\ toServer' = <<>> /\ toClient' = <<>>
  /\ UNCHANGED <<clientVars, serverVars>>

Next == Client \/ Server \/ Break

Spec == Init /\ [][Next]_vars

\* Both threads go on when they can; nobody must break the connection.
FairSpec == Spec /\ WF_vars(Client) /\ WF_vars(Server)

-----------------------------------------------------------------------------
(* Properties *)

Words == {"uploadchunk", "completeupload", "abort", "byte"}

TypeOK ==
  /\ cpc \in {"open", "chunk", "ack", "result", "closed", "silent"}
  /\ length \in 0 .. MaxLength /\ totalSent \in 0 .. length
  /\ verdict \in {"none", "success", "integrity", "timeout", "failed"}
  /\ toServer \in Seq([word : Words, length : 0 .. ChunkSize])
  /\ toClient \in Seq({"ack", "nack"})
  /\ spc \in {"op", "bytes", "check", "write", "stuck", "finally", "over"}
  /\ want \in 0 .. ChunkSize
  /\ {counted, arrived} \subseteq Nat /\ arrived <= counted
  /\ {broken, short, saved} \subseteq BOOLEAN

\* As long as no read is short, a chunk is sent only when all earlier ones have
\* been stored whole and acknowledged (the assignment's rule for the sender),
\* with no stale acknowledgement left that a later chunk could take for its own.
DataInOrder ==
  ~short /\ ~broken /\ cpc = "chunk"
    => arrived = totalSent /\ toServer = <<>> /\ toClient = <<>>

\* Fields and order of the chunks.
Inv == TypeOK /\ DataInOrder

\* As long as no read is short, an upload reported as successful has brought
\* exactly the announced length, even if the file changed after it was announced.
SuccessIsComplete ==
  ~short /\ verdict = "success" => arrived = FileLength /\ length = FileLength

\* A file the uploader has given up after a timeout, or was told is incomplete,
\* is never stored, in whatever order the last words cross on the wire.
RefusedIsNotSaved == verdict \in {"timeout", "integrity"} => ~saved

\* As long as no read is short and the uploader can read its file, both threads
\* come to their end and the handler gives its reservation back.
BothEnd ==
  [](~short /\ cpc # "silent") => <>(cpc = "closed" /\ spc = "over")

\* "check file integrity by summing total length of received byte": a stored
\* file has as many received bytes as announced.  The code breaks it.
StoredIsReceived == saved => arrived = FileLength

\* "report success or failure": when the server is done with an upload that was
\* reported as successful, the file is stored.  The code breaks it.
SuccessMeansSaved == verdict = "success" /\ spc = "over" => saved

\* "send success or failure": whoever has sent the completion gets an answer, or
\* learns that there will be none.  The code breaks it.
ResultArrives == cpc = "result" ~> cpc = "closed"

=============================================================================
