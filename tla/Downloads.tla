----------------------------- MODULE Downloads ------------------------------
(***************************************************************************)
(* Downloads of one client (FileDownloaderThread.java, ServerThread.java,   *)
(* PendingDownloads.java).  Each download has a thread on the server; all   *)
(* of them and the session thread write to the client's one connection,     *)
(* each message under the monitor of the output stream.  The client's       *)
(* ServerThread takes the messages apart and collects the chunks by id.     *)
(*                                                                          *)
(* stream is what is on its way to the client: words, and pieces of file    *)
(* data.  A read may return fewer pieces than asked for.  The reader then   *)
(* takes the rest for a word; from there on its reading is in disorder and  *)
(* the model follows it only as far as the downloads it stores.             *)
(***************************************************************************)
EXTENDS Naturals, Sequences, SequencesExt, FiniteSetsExt

CONSTANTS
  Files,        \* the files downloaded, one thread each; also their ids
  LengthOf,     \* pieces in a file
  ChunkSize,    \* MAX_CHUNK_SIZE
  Replies       \* bound on the answers the session writes meanwhile

DownloadAssumption ==
  /\ LengthOf \in [Files -> Nat]
  /\ ChunkSize \in Nat \ {0} /\ Replies \in Nat

VARIABLES
  tpc,          \* of each downloader thread: what it does next
  offset,       \* pieces of the file it has read
  replies,      \* answers written by the session thread
  stream,
  reader,       \* the ServerThread: "word", "data", "dead" or "stuck"
  chunk,        \* the chunk it is reading: download and length
  collected,    \* fileConcurrentMap: the pieces collected of the downloads begun
  stored,       \* the downloads written to disk, each with its contents
  short,        \* has a read returned less than a whole chunk?
  failed        \* has reading a file failed on the server?

threadVars == <<tpc, offset, failed>>
clientVars == <<reader, chunk, collected, stored, short>>
vars == <<tpc, offset, replies, stream, reader, chunk, collected, stored, short, failed>>

Zero == <<"zero", 0>>
Piece(f, i) == <<f, i>>
Pieces(f, from, to) == [i \in 1 .. to - from |-> Piece(f, from + i)]
Contents(f) == Pieces(f, 0, LengthOf[f])

Msg(w, f, n)  == [word |-> w, file |-> f, length |-> n, piece |-> Zero]
Data(s) == [i \in DOMAIN s |-> [word |-> "piece", file |-> s[i][1], length |-> 0, piece |-> s[i]]]

Init ==
  /\ tpc = [f \in Files |-> "open"]
  /\ offset = [f \in Files |-> 0]
  /\ replies = 0
  /\ stream = <<>>
  /\ reader = "word" /\ chunk = <<"none", 0>>
  /\ collected = <<>>
  /\ stored = {}
  /\ short = FALSE /\ failed = FALSE

-----------------------------------------------------------------------------
(* The server *)

Goto(f, from, to) == tpc[f] = from /\ tpc' = [tpc EXCEPT ![f] = to]

Writes(msgs) == stream' = stream \o msgs

\* The session thread answers some other command.
Reply ==
  /\ replies < Replies
  /\ replies' = replies + 1
  /\ Writes(<<Msg("print", "none", 0)>>)
  /\ UNCHANGED <<threadVars, clientVars>>

DownloadBegin(f) ==
  /\ Goto(f, "open", "read")
  /\ Writes(<<Msg("downloadbegin", f, 0)>>)
  /\ UNCHANGED <<offset, failed, replies, clientVars>>

\* The file has gone: the client is told, and the thread ends.
DownloadError(f) ==
  /\ Goto(f, "open", "over")
  /\ Writes(<<Msg("print", "none", 0)>>)
  /\ UNCHANGED <<offset, failed, replies, clientVars>>

ChunkLength(f) == Min({ChunkSize, LengthOf[f] - offset[f]})

\* Mutant: the monitor is left between the header of a chunk and its data.
DownloadChunkSplit(f) ==
  /\ Goto(f, "read", "read")
  /\ offset[f] < LengthOf[f]
  /\ \E between \in {<<>>, <<Msg("print", "none", 0)>>} :
       Writes(<<Msg("downloadchunk", f, ChunkLength(f))>> \o between
              \o Data(Pieces(f, offset[f], offset[f] + ChunkLength(f))))
  /\ offset' = [offset EXCEPT ![f] = @ + ChunkLength(f)]
  /\ UNCHANGED <<failed, replies, clientVars>>

\* One chunk, header and data under the monitor.
DownloadChunk(f) ==
  /\ Goto(f, "read", "read")
  /\ offset[f] < LengthOf[f]
  /\ Writes(<<Msg("downloadchunk", f, ChunkLength(f))>>
            \o Data(Pieces(f, offset[f], offset[f] + ChunkLength(f))))
  /\ offset' = [offset EXCEPT ![f] = @ + ChunkLength(f)]
  /\ UNCHANGED <<failed, replies, clientVars>>

\* Mutant: the thread ends without telling the client.
DownloadCompleteSilent(f) ==
  /\ Goto(f, "read", "over")
  /\ offset[f] = LengthOf[f]
  /\ UNCHANGED <<offset, stream, failed, replies, clientVars>>

DownloadComplete(f) ==
  /\ Goto(f, "read", "over")
  /\ offset[f] = LengthOf[f]
  /\ Writes(<<Msg("downloadcomplete", f, 0)>>)
  /\ UNCHANGED <<offset, failed, replies, clientVars>>

\* Reading the file fails: "downloadabort" with the id.  The loop goes on and
\* fails again; one turn of it is kept, the others repeat the same words.
DownloadAbort(f) ==
  /\ Goto(f, "read", "aborting")
  /\ failed' = TRUE
  /\ Writes(<<Msg("downloadabort", f, 0)>>)
  /\ UNCHANGED <<offset, replies, clientVars>>

Downloader(f) ==
  DownloadBegin(f) \/ DownloadError(f) \/ DownloadChunk(f) \/ DownloadComplete(f)

-----------------------------------------------------------------------------
(* The client *)

Reads(w) ==
  /\ reader = "word"
  /\ stream # <<>> /\ Head(stream).word = w
  /\ stream' = Tail(stream)

ReadPrint ==
  /\ Reads("print")
  /\ UNCHANGED <<threadVars, replies, clientVars>>

ReadBegin ==
  /\ Reads("downloadbegin")
  /\ LET f == Head(stream).file IN
       collected' = [g \in DOMAIN collected \cup {f} |-> IF g = f THEN <<>> ELSE collected[g]]
  /\ UNCHANGED <<threadVars, replies, reader, chunk, stored, short>>

ReadChunk ==
  /\ Reads("downloadchunk")
  /\ reader' = "data"
  /\ chunk' = <<Head(stream).file, Head(stream).length>>
  /\ UNCHANGED <<threadVars, replies, collected, stored, short>>

Available ==
  Max({n \in 0 .. Len(stream) : \A i \in 1 .. n : stream[i].word = "piece"})

\* Mutant: the chunk goes to the download that was begun first.
ReadDataMisplaced ==
  LET f == CHOOSE g \in Files : g \in DOMAIN collected
      n == chunk[2]
  IN
  /\ reader = "data" /\ Available >= n
  /\ chunk[1] \in DOMAIN collected
  /\ reader' = "word" /\ chunk' = <<"none", 0>>
  /\ collected' = [collected EXCEPT ![f] = @ \o [i \in 1 .. n |-> stream[i].piece]]
  /\ stream' = SubSeq(stream, n + 1, Len(stream))
  /\ UNCHANGED <<threadVars, replies, stored, short>>

\* One call of read fills the front of an array of the announced length, the
\* rest of which stays zero; a chunk of an unknown download is a null pointer.
ReadData ==
  LET f == chunk[1] IN
  /\ reader = "data"
  /\ Available > 0
  /\ \E n \in 1 .. Min({chunk[2], Available}) :
       /\ stream' = SubSeq(stream, n + 1, Len(stream))
       /\ short' = (short \/ n < chunk[2])
       /\ IF f \notin DOMAIN collected
          THEN reader' = "dead" /\ UNCHANGED collected
          ELSE /\ reader' = "word"
               /\ collected' = [collected EXCEPT ![f] =
                    @ \o [i \in 1 .. chunk[2] |-> IF i <= n THEN stream[i].piece ELSE Zero]]
  /\ chunk' = <<"none", 0>>
  /\ UNCHANGED <<threadVars, replies, stored>>

\* completeDownload writes the file and forgets the download.
ReadComplete ==
  /\ Reads("downloadcomplete")
  /\ LET f == Head(stream).file IN
       IF f \notin DOMAIN collected
       THEN reader' = "dead" /\ UNCHANGED <<collected, stored>>
       ELSE /\ stored' = stored \cup {<<f, collected[f]>>}
            /\ collected' = [g \in DOMAIN collected \ {f} |-> collected[g]]
            /\ UNCHANGED reader
  /\ UNCHANGED <<threadVars, replies, chunk, short>>

\* Anything else where a word should be: pieces of a chunk that came late, or
\* the id behind "downloadabort", a word the client has no branch for.  It is
\* skipped together with what its supposed length covers, or cannot be decoded
\* and ends the thread, or never comes to an end.
ReadGarbage ==
  /\ reader = "word"
  /\ stream # <<>> /\ Head(stream).word \in {"piece", "downloadabort"}
  /\ \/ /\ \E n \in 1 .. Len(stream) : stream' = SubSeq(stream, n + 1, Len(stream))
        /\ UNCHANGED reader
     \/ reader' \in {"dead", "stuck"} /\ UNCHANGED stream
  /\ UNCHANGED <<threadVars, replies, chunk, collected, stored, short>>

Reader ==
  ReadPrint \/ ReadBegin \/ ReadChunk \/ ReadData \/ ReadComplete \/ ReadGarbage

Next == Reply \/ (\E f \in Files : Downloader(f) \/ DownloadAbort(f)) \/ Reader

Spec == Init /\ [][Next]_vars

\* Every downloader and the client's reader go on; no file has to become
\* unreadable.
FairSpec == Spec /\ (\A f \in Files : WF_vars(Downloader(f))) /\ WF_vars(Reader)

-----------------------------------------------------------------------------
(* Properties *)

TypeOK ==
  /\ tpc \in [Files -> {"open", "read", "aborting", "over"}]
  /\ \A f \in Files : offset[f] \in 0 .. LengthOf[f]
  /\ replies \in 0 .. Replies
  /\ \A i \in DOMAIN stream :
       stream[i].word \in {"print", "downloadbegin", "downloadchunk",
                           "downloadcomplete", "downloadabort", "piece"}
  /\ reader \in {"word", "data", "dead", "stuck"}
  /\ chunk[1] \in Files \cup {"none"} /\ chunk[2] \in 0 .. ChunkSize
  /\ DOMAIN collected \subseteq Files
  /\ \A f \in DOMAIN collected : Len(collected[f]) <= LengthOf[f]
  /\ {short, failed} \subseteq BOOLEAN

\* As long as no read is short and no file becomes unreadable, what the client
\* has collected of a download is the beginning of the file, and what it stores
\* is the file, although the messages of several threads share the connection.
DownloadsWhole ==
  ~short /\ ~failed =>
    /\ \A f \in DOMAIN collected : IsPrefix(collected[f], Contents(f))
    /\ \A d \in stored : d[2] = Contents(d[1])

\* Under the same conditions the reader finds a word where it expects one, the
\* data where it expects data, and never a chunk of a download it does not know.
ReaderInStep ==
  ~short /\ ~failed =>
    /\ reader \notin {"dead", "stuck"}
    /\ stream # <<>> => (reader = "data") = (Head(stream).word = "piece")

\* Fields and framing of the stream.
Inv == TypeOK /\ ReaderInStep

\* Under the same conditions every download that has begun is stored.
DownloadsEnd ==
  [](~short /\ ~failed) =>
    \A f \in Files : tpc[f] = "read" ~> \E d \in stored : d[1] = f

\* A student can "download any of these files" (the assignment's list of what a
\* student can do): what is stored is the file.  The code breaks it.
StoredIsFile == \A d \in stored : d[2] = Contents(d[1])

=============================================================================
