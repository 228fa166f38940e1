-------------------------- MODULE FileServerProofs --------------------------
(***************************************************************************)
(* Proofs about six components of the file server: the directory of its     *)
(* students, for any connections, students and broadcast threads; the       *)
(* admission of uploads, for any uploads, owners, sizes and limit; the      *)
(* dialogue of one upload and the downloads of one client, for any files    *)
(* and any size of the chunks; the requests a client remembers, for any     *)
(* number of them and any names; and the writing of uploads into a          *)
(* student's directory, for any of them at once and whatever is in it. They *)
(* share no state here and have their specifications to themselves.         *)
(***************************************************************************)
EXTENDS StudentDirectory, UploadBuffer, FiniteSetTheorems, SequenceTheorems,
        WellFoundedInduction, TLAPS

-----------------------------------------------------------------------------
(* The student directory *)

\* What a broadcast has passed it has written to, except for the student it is
\* writing to: with the iteration's end condition this leaves nobody due.
Passed ==
  \A b \in Broadcasts :
    /\ bpc[b] \in {"idle", "start"} => due[b] = {}
    /\ bpc[b] = "next" => due[b] \cap seen[b] = {}
    /\ bpc[b] = "write" => /\ target[b] \in Conns
                           /\ due[b] \cap seen[b] \subseteq {StudentOf[target[b]]}

DirectoryInv == Inv /\ NoGhosts /\ Passed

\* Nobody is there at first.
LEMMA InvInit == Init => DirectoryInv
BY DirectoryAssumption
   DEF Init, DirectoryInv, Inv, TypeOK, RegisteredOnce, NoGhosts, Passed, Online, SessionLocs

-----------------------------------------------------------------------------
(* Steps that change neither the directory nor a broadcast *)

\* A session moves on, without entering the directory or leaving it.
LEMMA SessionMoves ==
  ASSUME DirectoryInv, NEW c \in Conns, NEW to \in SessionLocs,
         pc' = [pc EXCEPT ![c] = to],
         pc[c] \in Live => to \in Live,
         left' \subseteq Conns, outLock' \in [Conns -> BOOLEAN],
         UNCHANGED <<registered, online, broadcastVars>>
  PROVE  DirectoryInv'
<1>1. Inv'
  BY DEF DirectoryInv, Inv, TypeOK, RegisteredOnce, Online, IsRegistered, broadcastVars
<1>2. NoGhosts'
  BY DirectoryAssumption DEF DirectoryInv, Inv, TypeOK, NoGhosts, Online
<1>3. Passed'
  BY DEF DirectoryInv, Passed, broadcastVars
<1>4. QED
  BY <1>1, <1>2, <1>3 DEF DirectoryInv

\* A session leaves the directory with its last step.
LEMMA LeaveKeeps ==
  ASSUME DirectoryInv, NEW c \in Conns, Leave(c)
  PROVE  DirectoryInv'
BY DEF Leave, DirectoryInv, Inv, TypeOK, RegisteredOnce, NoGhosts, Passed, Online,
       IsRegistered, broadcastVars

\* Connect, Check, Welcome, Deny, Lock, Answer and Detect.
LEMMA QuietSteps ==
  ASSUME DirectoryInv, NEW c \in Conns,
         \/ Connect(c) \/ Check(c) \/ Welcome(c) \/ Deny(c)
         \/ Lock(c) \/ Answer(c) \/ Detect(c)
  PROVE  DirectoryInv'
<1> USE DEF Goto, SessionLocs, Live
<1>1. left \subseteq Conns /\ outLock \in [Conns -> BOOLEAN]
  BY DEF DirectoryInv, Inv, TypeOK
<1>2. CASE Connect(c)
  BY <1>1, <1>2, SessionMoves DEF Connect
<1>3. CASE Check(c)
  BY <1>1, <1>3, SessionMoves DEF Check
<1>4. CASE Welcome(c)
  BY <1>1, <1>4, SessionMoves DEF Welcome
<1>5. CASE Deny(c)
  BY <1>1, <1>5, SessionMoves DEF Deny
<1>6. CASE Lock(c)
  BY <1>1, <1>6, SessionMoves DEF Lock
<1>7. CASE Answer(c)
  BY <1>1, <1>7, SessionMoves DEF Answer
<1>8. CASE Detect(c)
  BY <1>1, <1>8, SessionMoves DEF Detect
<1>9. QED
  BY <1>2, <1>3, <1>4, <1>5, <1>6, <1>7, <1>8

-----------------------------------------------------------------------------
(* Login and logout *)

\* Whether the student was in the list or is appended, the list has it once.
LEMMA RegisterKeepsList ==
  ASSUME TypeOK, RegisteredOnce, NEW c \in Conns, Register(c)
  PROVE  RegisteredOnce' /\ registered' \in Seq(Students)
<1> DEFINE s == StudentOf[c]
<1>1. s \in Students
  BY DirectoryAssumption
<1>2. CASE IsRegistered(s)
  <2>1. registered' = registered /\ online' = [online EXCEPT ![s] = c]
    BY <1>2 DEF Register
  <2>2. QED
    BY <1>1, <1>2, <2>1 DEF TypeOK, RegisteredOnce, Online, IsRegistered
<1>3. CASE ~IsRegistered(s)
  <2>1. registered' = Append(registered, s) /\ online' = [online EXCEPT ![s] = c]
    BY <1>3 DEF Register
  <2>2. /\ registered' \in Seq(Students)
        /\ DOMAIN registered' = DOMAIN registered \cup {Len(registered) + 1}
        /\ Len(registered) + 1 \notin DOMAIN registered
        /\ registered'[Len(registered) + 1] = s
        /\ \A i \in DOMAIN registered : registered'[i] = registered[i]
    BY <1>1, <2>1 DEF TypeOK
  <2>3. \A i, j \in DOMAIN registered' : registered'[i] = registered'[j] => i = j
    BY <1>3, <2>2 DEF RegisteredOnce, IsRegistered
  <2>4. \A t \in Students : Online(t)' => IsRegistered(t)'
    BY <1>1, <2>1, <2>2 DEF TypeOK, RegisteredOnce, Online, IsRegistered
  <2>5. QED
    BY <2>2, <2>3, <2>4 DEF RegisteredOnce
<1>4. QED
  BY <1>2, <1>3

\* A login enters both maps at once.
LEMMA RegisterKeeps ==
  ASSUME DirectoryInv, NEW c \in Conns, Register(c)
  PROVE  DirectoryInv'
<1>1. Inv'
  <2>1. RegisteredOnce' /\ registered' \in Seq(Students)
    BY RegisterKeepsList DEF DirectoryInv, Inv
  <2>2. StudentOf[c] \in Students
    BY DirectoryAssumption
  <2>3. QED
    BY <2>1, <2>2
       DEF DirectoryInv, Inv, TypeOK, Register, Goto, SessionLocs, broadcastVars
<1>2. NoGhosts'
  BY DirectoryAssumption
     DEF DirectoryInv, Inv, TypeOK, NoGhosts, Register, Goto, Online, Live
<1>3. Passed'
  BY DEF DirectoryInv, Passed, Register, broadcastVars
<1>4. QED
  BY <1>1, <1>2, <1>3 DEF DirectoryInv

\* The session that logs out is the only one whose entry could become a ghost,
\* and the entry it removes is the only one that could name it.
LEMMA LogoutKeeps ==
  ASSUME DirectoryInv, NEW c \in Conns, Logout(c)
  PROVE  DirectoryInv'
<1>1. Inv'
  BY DirectoryAssumption
     DEF DirectoryInv, Inv, TypeOK, RegisteredOnce, Logout, Goto, Online, IsRegistered,
         SessionLocs
<1>2. NoGhosts'
  BY DirectoryAssumption
     DEF DirectoryInv, Inv, TypeOK, NoGhosts, Logout, Goto, Online, Live
<1>3. Passed'
  BY DEF DirectoryInv, Passed, Logout
<1>4. QED
  BY <1>1, <1>2, <1>3 DEF DirectoryInv

-----------------------------------------------------------------------------
(* Broadcasts *)

\* A broadcast begins with everybody due who is online.
LEMMA RequestFileKeeps ==
  ASSUME DirectoryInv, NEW c \in Conns, RequestFile(c)
  PROVE  DirectoryInv'
<1>1. Inv'
  BY DEF DirectoryInv, Inv, TypeOK, RegisteredOnce, RequestFile, Goto, Online,
         IsRegistered, SessionLocs
<1>2. NoGhosts'
  BY DirectoryAssumption
     DEF DirectoryInv, Inv, TypeOK, NoGhosts, RequestFile, Goto, Online, Live
<1>3. Passed'
  BY DEF DirectoryInv, Inv, TypeOK, Passed, RequestFile
<1>4. QED
  BY <1>1, <1>2, <1>3 DEF DirectoryInv

\* A broadcast passes the sessions one by one.
LEMMA BroadcastKeeps ==
  ASSUME DirectoryInv, NEW b \in Broadcasts, Broadcast(b)
  PROVE  DirectoryInv'
<1>1. UNCHANGED sessionVars
  BY DEF Broadcast, BroadcastStart, BroadcastNext, BroadcastWrite, BroadcastEnd, sessionVars
<1>2. NoGhosts' /\ RegisteredOnce'
  BY <1>1 DEF DirectoryInv, Inv, NoGhosts, RegisteredOnce, Online, IsRegistered, sessionVars
<1>3. TypeOK'
  <2> USE <1>1 DEF DirectoryInv, Inv, TypeOK, Running, sessionVars
  <2>1. CASE BroadcastStart(b) \/ BroadcastEnd(b)
    BY <2>1 DEF BroadcastStart, BroadcastEnd
  <2>2. CASE BroadcastNext(b)
    BY <2>2 DEF BroadcastNext, Online
  <2>3. CASE BroadcastWrite(b)
    BY <2>3 DEF BroadcastWrite
  <2>. QED
    BY <2>1, <2>2, <2>3 DEF Broadcast
<1>4. Passed'
  <2> USE DEF DirectoryInv, Inv, TypeOK, Passed
  <2>1. CASE BroadcastStart(b)
    BY <2>1 DEF BroadcastStart
  <2>2. CASE BroadcastNext(b)
    BY <2>2 DEF BroadcastNext, NoGhosts, Online
  <2>3. CASE BroadcastWrite(b)
    BY <2>3 DEF BroadcastWrite
  <2>4. CASE BroadcastEnd(b)
    BY <2>4 DEF BroadcastEnd
  <2>5. QED
    BY <2>1, <2>2, <2>3, <2>4 DEF Broadcast
<1>5. QED
  BY <1>2, <1>3, <1>4 DEF DirectoryInv, Inv

\* Every step keeps the invariant.
LEMMA InvNext == DirectoryInv /\ [Next]_vars => DirectoryInv'
<1>1. DirectoryInv /\ UNCHANGED vars => DirectoryInv'
  BY DEF DirectoryInv, Inv, TypeOK, RegisteredOnce, NoGhosts, Passed, Online, IsRegistered, vars
<1>2. QED
  BY <1>1, QuietSteps, LeaveKeeps, RegisterKeeps, LogoutKeeps, RequestFileKeeps, BroadcastKeeps
     DEF Next, Session

\* The inductive invariant is an invariant.
LEMMA DirectoryInvariant == Spec => []DirectoryInv
BY InvInit, InvNext, PTL DEF Spec

-----------------------------------------------------------------------------
\* No student is twice in the list of known students, and whoever is online is
\* in it, however many first logins of addNewStudent overlap.
THEOREM DirectoryConsistent == Spec => []Inv
<1>1. DirectoryInv => Inv
  BY DEF DirectoryInv
<1>2. QED
  BY <1>1, DirectoryInvariant, PTL

\* A student who is shown as online has a session that has yet to log out:
\* every path of loginOperation that ends a registered session removes it.
THEOREM DirectoryNoGhosts == Spec => []NoGhosts
<1>1. DirectoryInv => NoGhosts
  BY DEF DirectoryInv
<1>2. QED
  BY <1>1, DirectoryInvariant, PTL

\* A broadcast that is over has passed over nobody who was online all the time.
THEOREM BroadcastComplete == Spec => []BroadcastReachesAll
<1>1. DirectoryInv => BroadcastReachesAll
  BY DEF DirectoryInv, Passed, BroadcastReachesAll
<1>2. QED
  BY <1>1, DirectoryInvariant, PTL

-----------------------------------------------------------------------------
(* The inductive invariant of the upload buffer *)

Given == {u \in Uploads : idOf[u] # 0}

\* An upload is asked for once by its owner's client, and then given an id once.
Asked ==
  /\ \A s \in Owners : client[s] # "on" =>
       /\ stream[s] = <<>>
       /\ \A u \in Uploads : OwnerOf[u] = s => request[u] \in {"new", "lost"}
  /\ \A s \in Owners, u \in Uploads : UploadCmd(u) \in wire[s] =>
       OwnerOf[u] = s /\ idOf[u] = 0 /\ request[u] # "new"
  /\ \A s \in Owners, u \in Uploads, id \in Ids :
       FileId(u, id) \in Words(s) => OwnerOf[u] = s
  /\ \A s \in Owners : session[s] \in {"add", "reply"} =>
       /\ current[s] \in Uploads /\ OwnerOf[current[s]] = s
       /\ request[current[s]] # "new"
       /\ session[s] = "add" <=> idOf[current[s]] = 0
       /\ session[s] = "add" => UploadCmd(current[s]) \notin wire[s]
  /\ \A u \in Uploads : idOf[u] # 0 => request[u] # "new"

\* The ids last, although the counter may run backwards.
Counted ==
  /\ nextFileId <= Cardinality(Given) + 1
  /\ \A s \in Owners : read[s] <= Cardinality(Given) + 1
  /\ \A s \in Owners : session[s] = "add" => read[s] >= 1

\* The manager and the handlers work on something.
AtWork ==
  /\ mpc = "scan" => mupload = NoUpload
  /\ mpc # "scan" => mid \in Ids /\ mupload \in Uploads
  /\ \A u \in Uploads :
       /\ hpc[u] # "none" => idOf[u] # 0
       /\ hpc[u] \in {"data", "saved", "release"} => hbuffer[u] \in Uploads

\* What is under an id, in the maps or with the manager, is the upload that was given it.
Placed ==
  /\ \A id \in Ids : queueOperation[id] # NoUpload => idOf[queueOperation[id]] = id
  /\ \A id \in Ids : runningOperation[id] # NoUpload => idOf[runningOperation[id]] = id
  /\ mpc # "scan" => idOf[mupload] = mid
  /\ \A u \in held : idOf[u] # 0

\* A client is told of, and cancels, its own uploads.
Granted ==
  \A s \in Owners, id \in Ids :
    Begin(id) \in Words(s) \/ AbortCmd(id) \in wire[s]
      => \E u \in Uploads : OwnerOf[u] = s /\ idOf[u] = id

Queued(u)    == \E id \in Ids : queueOperation[id] = u
Told(u)      == Begin(idOf[u]) \in Words(OwnerOf[u])
Cancelled(u) == AbortCmd(idOf[u]) \in wire[OwnerOf[u]]
Handled(u)   == hpc[u] \in {"open", "data", "saved", "release"}

\* An upload is in one place: in the queue or with the manager, or its client is told to
\* begin, or has cancelled it, or it has a handler.
OnePlace ==
  /\ \A u \in Uploads :
       /\ Queued(u) \/ mupload = u => ~Told(u) /\ ~Cancelled(u) /\ ~Handled(u)
       /\ Told(u) => ~Cancelled(u) /\ ~Handled(u)
       /\ Cancelled(u) => ~Handled(u)
  /\ mpc \in {"move", "tell_check", "tell_get", "tell", "discard"} =>
       queueOperation[mid] = mupload
  /\ mpc \in {"check", "get", "write", "abort"} => ~Queued(mupload)
  /\ \A s \in Owners : \A i, j \in DOMAIN stream[s] :
       stream[s][i].word = "beginupload" /\ stream[s][j] = stream[s][i] => i = j

\* An upload's size is reserved when the manager takes it from the queue.
Backed ==
  /\ \A u \in Uploads : Queued(u) => (u \in held <=> mpc = "move" /\ mupload = u)
  /\ mpc \in {"check", "get", "write"} =>
       runningOperation[mid] = mupload /\ mupload \in held

\* The id of an upload that waits for it is being written or is on its way, and nothing
\* else is written to the stream meanwhile.
Ordered ==
  /\ \A u \in Uploads : idOf[u] # 0 /\ request[u] = "pending" =>
       \/ session[OwnerOf[u]] = "reply" /\ current[OwnerOf[u]] = u
       \/ \E i \in DOMAIN stream[OwnerOf[u]] :
            stream[OwnerOf[u]][i].word = "fileid" /\ stream[OwnerOf[u]][i].upload = u
  /\ \A s \in Owners : session[s] = "reply" => ~Told(current[s])

AccountsAgree ==
  /\ IsFiniteSet(Reserved)
  /\ currentBufferSize = Cardinality(Reserved) /\ currentBufferSize <= MAX_BUFFER_SIZE

UploadsIInv ==
  /\ UploadsTypeOK /\ Asked /\ Counted /\ AtWork
  /\ ReceivedIsReserved /\ GrantIsBacked /\ FileIdFirst
  /\ DistinctIds => Placed /\ Granted /\ OnePlace /\ Backed /\ Ordered /\ AccountsAgree

-----------------------------------------------------------------------------
(* Words and commands *)

\* A word says what it is, and of which upload or id.
LEMMA WordsDiffer ==
  /\ \A a, b : Begin(a) = Begin(b) => a = b
  /\ \A a, b : AbortCmd(a) = AbortCmd(b) => a = b
  /\ \A u, v : UploadCmd(u) = UploadCmd(v) => u = v
  /\ \A u, a : UploadCmd(u) # AbortCmd(a)
  /\ \A u, a, b : FileId(u, a) # Begin(b)
  /\ \A u, v, a, b : FileId(u, a) = FileId(v, b) => u = v /\ a = b
  /\ \A a : Begin(a).word = "beginupload" /\ Begin(a).id = a
  /\ \A u, a : FileId(u, a).word = "fileid" /\ FileId(u, a).upload = u
BY DEF Begin, AbortCmd, UploadCmd, FileId

\* Words and commands are what the streams and wires may hold.
LEMMA WordTypes ==
  /\ \A id \in Ids : Begin(id) \in Word /\ AbortCmd(id) \in Command
  /\ \A u \in Uploads : UploadCmd(u) \in Command
  /\ \A u \in Uploads, id \in Ids : FileId(u, id) \in Word
  /\ \A w \in Word : \/ \E id \in Ids : w = Begin(id)
                     \/ \E u \in Uploads, id \in Ids : w = FileId(u, id)
BY DEF Word, Command

\* The ids are the numbers from 1 on.
LEMMA IdsAreNumbers ==
  /\ Cardinality(Uploads) \in Nat
  /\ \A id \in Ids : id \in Nat /\ id # 0 /\ id <= Cardinality(Uploads)
BY UploadAssumption, FS_CardinalityType DEF Ids

\* A word is written at the end of a stream.
LEMMA Appended ==
  ASSUME UploadsTypeOK, NEW s \in Owners, NEW w \in Word,
         stream' = [stream EXCEPT ![s] = Append(@, w)]
  PROVE  /\ stream' \in [Owners -> Seq(Word)]
         /\ Words(s)' = Words(s) \cup {w}
         /\ \A t \in Owners \ {s} : stream'[t] = stream[t] /\ Words(t)' = Words(t)
         /\ DOMAIN stream'[s] = DOMAIN stream[s] \cup {Len(stream[s]) + 1}
         /\ stream'[s][Len(stream[s]) + 1] = w
         /\ \A i \in DOMAIN stream[s] : stream'[s][i] = stream[s][i]
<1>1. stream \in [Owners -> Seq(Word)]
  BY DEF UploadsTypeOK
<1>2. stream'[s] = Append(stream[s], w) /\ \A t \in Owners \ {s} : stream'[t] = stream[t]
  BY <1>1
<1>3. /\ DOMAIN stream'[s] = DOMAIN stream[s] \cup {Len(stream[s]) + 1}
      /\ stream'[s][Len(stream[s]) + 1] = w
      /\ \A i \in DOMAIN stream[s] : stream'[s][i] = stream[s][i]
  BY <1>1, <1>2
<1>4. Words(s)' = Words(s) \cup {w}
  BY <1>3 DEF Words
<1>. QED
  BY <1>1, <1>2, <1>3, <1>4 DEF Words

\* The first word of a stream is read.
LEMMA Dropped ==
  ASSUME UploadsTypeOK, NEW s \in Owners, stream[s] # <<>>,
         stream' = [stream EXCEPT ![s] = Tail(@)]
  PROVE  /\ stream' \in [Owners -> Seq(Word)]
         /\ Head(stream[s]) = stream[s][1] /\ 1 \in DOMAIN stream[s]
         /\ Head(stream[s]) \in Word
         /\ \A t \in Owners \ {s} : stream'[t] = stream[t] /\ Words(t)' = Words(t)
         /\ \A i \in DOMAIN stream'[s] :
              /\ i \in Nat \ {0} /\ i + 1 \in DOMAIN stream[s]
              /\ stream'[s][i] = stream[s][i + 1]
         /\ \A i \in DOMAIN stream[s] \ {1} :
              /\ i \in Nat /\ i - 1 \in DOMAIN stream'[s]
              /\ stream'[s][i - 1] = stream[s][i]
         /\ Words(s)' \subseteq Words(s)
<1>1. stream \in [Owners -> Seq(Word)]
  BY DEF UploadsTypeOK
<1>2. stream'[s] = Tail(stream[s]) /\ \A t \in Owners \ {s} : stream'[t] = stream[t]
  BY <1>1
<1>3. /\ Head(stream[s]) = stream[s][1] /\ 1 \in DOMAIN stream[s]
      /\ Head(stream[s]) \in Word /\ stream'[s] \in Seq(Word)
  BY <1>1, <1>2
<1>4. \A i \in DOMAIN stream'[s] :
        /\ i \in Nat \ {0} /\ i + 1 \in DOMAIN stream[s]
        /\ stream'[s][i] = stream[s][i + 1]
  BY <1>1, <1>2
<1>5. \A i \in DOMAIN stream[s] \ {1} :
        /\ i \in Nat /\ i - 1 \in DOMAIN stream'[s]
        /\ stream'[s][i - 1] = stream[s][i]
  BY <1>1, <1>2
<1>6. Words(s)' \subseteq Words(s)
  BY <1>4 DEF Words
<1>7. stream' \in [Owners -> Seq(Word)]
  BY <1>1, <1>3
<1>. QED
  BY <1>2, <1>3, <1>4, <1>5, <1>6, <1>7 DEF Words

\* A client reads a grant.
LEMMA GrantRead ==
  ASSUME UploadsTypeOK, NEW s \in Owners, ReceiveBegin(s)
  PROVE  /\ stream[s] # <<>> /\ stream' = [stream EXCEPT ![s] = Tail(@)]
         /\ Head(stream[s]).id \in Ids /\ Head(stream[s]) = Begin(Head(stream[s]).id)
         /\ stream[s][1] = Head(stream[s]) /\ Head(stream[s]) \in Words(s)
<1>1. /\ stream[s] # <<>> /\ stream' = [stream EXCEPT ![s] = Tail(@)]
      /\ Head(stream[s]).word = "beginupload"
  BY DEF ReceiveBegin
<1>2. /\ Head(stream[s]) \in Word /\ stream[s][1] = Head(stream[s]) /\ 1 \in DOMAIN stream[s]
  BY <1>1, Dropped
<1>3. PICK id \in Ids : Head(stream[s]) = Begin(id)
  BY <1>1, <1>2, WordTypes, WordsDiffer
<1>4. Head(stream[s]).id = id
  BY <1>3, WordsDiffer
<1>. QED
  BY <1>1, <1>2, <1>3, <1>4 DEF Words

-----------------------------------------------------------------------------
(* Types *)

\* The types, after a step of a client,
LEMMA ClientTypes ==
  ASSUME UploadsIInv, NEW s \in Owners,
         (\E u \in Uploads : Ask(u)) \/ Stop(s) \/ Login(s) \/ Receive(s)
  PROVE  UploadsTypeOK'
<1> USE DEF clientVars, threadVars, idVars, mapVars, managerVars, handlerVars, budgetVars
<1>. UploadsTypeOK
  BY DEF UploadsIInv
<1>1. ASSUME NEW u \in Uploads, Ask(u) PROVE UploadsTypeOK'
  <2>1. UploadCmd(u) \in Command /\ OwnerOf[u] \in Owners
    BY WordTypes, UploadAssumption
  <2>2. wire' = [wire EXCEPT ![OwnerOf[u]] = @ \cup {UploadCmd(u)}]
    BY <1>1 DEF Ask
  <2>3. wire' \in [Owners -> SUBSET Command]
    BY <2>1, <2>2 DEF UploadsTypeOK
  <2>. QED
    BY <1>1, <2>3 DEF UploadsTypeOK, Ask
<1>2. CASE Stop(s)
  BY <1>2 DEF UploadsTypeOK, Stop
<1>3. CASE Login(s)
  BY <1>3 DEF UploadsTypeOK, Login
<1>4. CASE ReceiveFileId(s)
  <2>1. stream' \in [Owners -> Seq(Word)] /\ Head(stream[s]) \in Word
    BY <1>4, Dropped DEF ReceiveFileId
  <2>2. Head(stream[s]).upload \in Uploads
    BY <1>4, <2>1, WordTypes, WordsDiffer DEF ReceiveFileId
  <2>. QED
    BY <1>4, <2>1, <2>2 DEF UploadsTypeOK, ReceiveFileId
<1>5. CASE ReceiveBegin(s)
  <2>1. stream' \in [Owners -> Seq(Word)] /\ Head(stream[s]) \in Word
    BY <1>5, Dropped DEF ReceiveBegin
  <2>2. Head(stream[s]).id \in Ids
    BY <1>5, <2>1, WordTypes, WordsDiffer DEF ReceiveBegin
  <2>3. wire' \in [Owners -> SUBSET Command]
    <3>1. UNCHANGED wire \/ wire' = [wire EXCEPT ![s] = @ \cup {AbortCmd(Head(stream[s]).id)}]
      BY <1>5 DEF ReceiveBegin
    <3>2. \A id \in Ids : [wire EXCEPT ![s] = @ \cup {AbortCmd(id)}] \in [Owners -> SUBSET Command]
      BY WordTypes DEF UploadsTypeOK
    <3>. QED
      BY <2>2, <3>1, <3>2, Zenon DEF UploadsTypeOK
  <2>4. /\ request' \in [Uploads -> {"new", "pending", "known", "uploading", "lost"}]
        /\ hpc' \in [Uploads -> {"none", "open", "data", "saved", "release", "over", "dead"}]
    BY <1>5 DEF UploadsTypeOK, ReceiveBegin
  <2>. QED
    BY <1>5, <2>1, <2>3, <2>4 DEF UploadsTypeOK, ReceiveBegin
<1>. QED
  BY <1>1, <1>2, <1>3, <1>4, <1>5 DEF Receive

\* There is an id left for whoever asks for one.
LEMMA IdsLeft ==
  ASSUME UploadsTypeOK, NEW u \in Uploads, idOf[u] = 0
  PROVE  /\ Cardinality(Given) \in Nat
         /\ Cardinality(Given) < Cardinality(Uploads)
         /\ Cardinality(Given \cup {u}) = Cardinality(Given) + 1
<1>1. IsFiniteSet(Given) /\ Cardinality(Given) \in Nat
  BY UploadAssumption, FS_Subset, FS_CardinalityType DEF Given
<1>2. u \notin Given /\ Given \cup {u} \subseteq Uploads
  BY DEF Given
<1>3. Cardinality(Given \cup {u}) = Cardinality(Given) + 1
  BY <1>1, <1>2, FS_AddElement
<1>4. Cardinality(Given \cup {u}) <= Cardinality(Uploads)
  BY <1>2, UploadAssumption, FS_Subset
<1>. QED
  BY <1>1, <1>3, <1>4, IdsAreNumbers

\* ... of a session,
LEMMA SessionTypes ==
  ASSUME UploadsIInv, NEW s \in Owners, SessionThread(s)
  PROVE  UploadsTypeOK'
<1> USE DEF clientVars, threadVars, idVars, mapVars, managerVars, handlerVars, budgetVars
<1>. UploadsTypeOK /\ Asked /\ Counted
  BY DEF UploadsIInv
<1>1. CASE UploadReads(s)
  <2>1. PICK u \in Uploads : UploadCmd(u) \in wire[s] /\ current' = [current EXCEPT ![s] = u]
                             /\ wire' = [wire EXCEPT ![s] = @ \ {UploadCmd(u)}]
    BY <1>1 DEF UploadReads
  <2>2. idOf[u] = 0
    BY <2>1 DEF Asked
  <2>3. nextFileId \in 0 .. Cardinality(Uploads)
    <3>1. Cardinality(Given) \in Nat /\ Cardinality(Given) < Cardinality(Uploads)
      BY <2>2, IdsLeft
    <3>2. nextFileId \in Nat /\ nextFileId <= Cardinality(Given) + 1
      BY IdsAreNumbers DEF UploadsTypeOK, Counted
    <3>. QED
      BY <3>1, <3>2, IdsAreNumbers
  <2>4. wire' \in [Owners -> SUBSET Command] /\ current' \in [Owners -> Uploads \cup {NoUpload}]
    BY <2>1 DEF UploadsTypeOK
  <2>. QED
    BY <1>1, <2>3, <2>4 DEF UploadsTypeOK, UploadReads
<1>2. CASE UploadAdds(s)
  <2>1. current[s] \in Uploads /\ idOf[current[s]] = 0 /\ read[s] >= 1
    BY <1>2 DEF Asked, Counted, UploadAdds
  <2>2. read[s] \in Ids /\ read[s] + 1 \in 1 .. Cardinality(Uploads) + 1
    BY <2>1, IdsAreNumbers DEF UploadsTypeOK, Ids
  <2>. QED
    BY <1>2, <2>1, <2>2 DEF UploadsTypeOK, UploadAdds
<1>3. CASE UploadReplies(s)
  <2>1. current[s] \in Uploads /\ idOf[current[s]] \in Ids
    BY <1>3 DEF UploadsTypeOK, Asked, UploadReplies
  <2>2. stream' \in [Owners -> Seq(Word)]
    BY <1>3, <2>1, Appended, WordTypes DEF UploadReplies, Writes, UploadsTypeOK
  <2>3. read' \in [Owners -> 0 .. Cardinality(Uploads)]
    BY <1>3, IdsAreNumbers DEF UploadsTypeOK, UploadReplies
  <2>. QED
    BY <1>3, <2>2, <2>3 DEF UploadsTypeOK, UploadReplies
<1>4. CASE UploadAbort(s)
  <2>1. PICK id \in Ids :
          /\ wire' = [wire EXCEPT ![s] = @ \ {AbortCmd(id)}]
          /\ IF runningOperation[id] = NoUpload
             THEN /\ session' = [session EXCEPT ![s] = "dead"]
                  /\ UNCHANGED <<runningOperation, budgetVars>>
             ELSE /\ Releases(runningOperation[id])
                  /\ runningOperation' = [runningOperation EXCEPT ![id] = NoUpload]
                  /\ UNCHANGED session
    BY <1>4 DEF UploadAbort
  <2>2. /\ wire' \in [Owners -> SUBSET Command]
        /\ runningOperation' \in [Ids -> Uploads \cup {NoUpload}]
        /\ session' \in [Owners -> {"serve", "add", "reply", "logout", "dead", "off"}]
    BY <2>1 DEF UploadsTypeOK
  <2>3. currentBufferSize' \in Int /\ held' \subseteq Uploads
    BY <2>1, UploadAssumption DEF UploadsTypeOK, Releases
  <2>. QED
    BY <1>4, <2>2, <2>3 DEF UploadsTypeOK, UploadAbort
<1>5. CASE LogoutOwner(s)
  BY <1>5 DEF UploadsTypeOK, LogoutOwner
<1>. QED
  BY <1>1, <1>2, <1>3, <1>4, <1>5 DEF SessionThread

\* ... of the manager,
LEMMA ManagerTypes ==
  ASSUME UploadsIInv, Manager
  PROVE  UploadsTypeOK'
<1> USE DEF clientVars, threadVars, idVars, mapVars, managerVars, handlerVars, budgetVars, Rests
<1>. UploadsTypeOK /\ AtWork
  BY DEF UploadsIInv
<1>1. CASE Scan
  <2>1. PICK id \in Ids :
          /\ queueOperation[id] \in Uploads
          /\ Reserves(queueOperation[id]) \/ UNCHANGED budgetVars
          /\ mpc' \in {"move", "tell_check"} /\ mid' = id /\ mupload' = queueOperation[id]
    BY <1>1 DEF UploadsTypeOK, Scan
  <2>2. currentBufferSize' \in Int /\ held' \subseteq Uploads
    BY <2>1, UploadAssumption DEF UploadsTypeOK, Reserves
  <2>3. UNCHANGED <<clientVars, threadVars, idVars, mapVars, mlost, handlerVars>>
    BY <1>1 DEF Scan
  <2>. QED
    BY <2>1, <2>2, <2>3 DEF UploadsTypeOK
<1>2. CASE Move
  BY <1>2 DEF UploadsTypeOK, AtWork, Move
<1>3. CASE SendCheck \/ SendGet \/ TellCheck \/ TellGet \/ Tell
  BY <1>3 DEF UploadsTypeOK, SendCheck, SendGet, TellCheck, TellGet, Tell
<1>4. CASE SendWrite
  <2>1. mid \in Ids /\ mupload \in Uploads
    BY <1>4 DEF AtWork, SendWrite
  <2>2. OwnerOf[mupload] \in Owners /\ Begin(mid) \in Word
    BY <2>1, UploadAssumption, WordTypes
  <2>3. stream' \in [Owners -> Seq(Word)]
    BY <1>4, <2>2, Appended DEF SendWrite, Writes, UploadsTypeOK
  <2>. QED
    BY <1>4, <2>3 DEF UploadsTypeOK, SendWrite
<1>5. CASE Abort
  BY <1>5 DEF UploadsTypeOK, Abort
<1>6. CASE Discard
  BY <1>6 DEF UploadsTypeOK, Discard
<1>. QED
  BY <1>1, <1>2, <1>3, <1>4, <1>5, <1>6 DEF Manager

\* ... and of a handler.
LEMMA HandlerTypes ==
  ASSUME UploadsIInv, NEW u \in Uploads, Handler(u)
  PROVE  UploadsTypeOK'
<1> USE DEF clientVars, threadVars, idVars, mapVars, managerVars, handlerVars, budgetVars
<1>. UploadsTypeOK /\ AtWork
  BY DEF UploadsIInv
<1>1. CASE HandlerStart(u)
  <2>1. idOf[u] \in Ids
    BY <1>1 DEF AtWork, UploadsTypeOK, HandlerStart
  <2>2. hbuffer' \in [Uploads -> Uploads \cup {NoUpload}]
    BY <1>1, <2>1 DEF UploadsTypeOK, HandlerStart
  <2>3. hpc' \in [Uploads -> {"none", "open", "data", "saved", "release", "over", "dead"}]
    BY <1>1 DEF UploadsTypeOK, HandlerStart
  <2>. QED
    BY <1>1, <2>2, <2>3 DEF UploadsTypeOK, HandlerStart
<1>2. CASE HandlerNoHeader(u) \/ HandlerSave(u) \/ HandlerFail(u)
  <2>1. /\ \/ hpc' = [hpc EXCEPT ![u] = "dead"]
           \/ hpc' = [hpc EXCEPT ![u] = "saved"]
           \/ hpc' = [hpc EXCEPT ![u] = "release"]
        /\ UNCHANGED <<clientVars, threadVars, idVars, mapVars, budgetVars, managerVars, hbuffer>>
    BY <1>2 DEF HandlerNoHeader, HandlerSave, HandlerFail
  <2>2. hpc' \in [Uploads -> {"none", "open", "data", "saved", "release", "over", "dead"}]
    BY <2>1 DEF UploadsTypeOK
  <2>. QED
    BY <2>1, <2>2 DEF UploadsTypeOK
<1>3. CASE HandlerRemove(u)
  BY <1>3 DEF UploadsTypeOK, HandlerRemove
<1>4. CASE HandlerRelease(u)
  <2>1. hbuffer[u] \in Uploads /\ FileLength[hbuffer[u]] \in Nat
    BY <1>4, UploadAssumption DEF AtWork, HandlerRelease
  <2>2. /\ currentBufferSize' \in Int /\ held' \subseteq Uploads
        /\ hpc' = [hpc EXCEPT ![u] = "over"]
    BY <1>4, <2>1 DEF UploadsTypeOK, HandlerRelease, Releases
  <2>3. UNCHANGED <<clientVars, threadVars, idVars, mapVars, managerVars, hbuffer>>
    BY <1>4 DEF HandlerRelease
  <2>4. hpc' \in [Uploads -> {"none", "open", "data", "saved", "release", "over", "dead"}]
    BY <2>2 DEF UploadsTypeOK
  <2>. QED
    BY <2>2, <2>3, <2>4 DEF UploadsTypeOK
<1>. QED
  BY <1>1, <1>2, <1>3, <1>4 DEF Handler

-----------------------------------------------------------------------------
(* Requests, ids and who works on what *)

\* A stream that words are only taken from has none of a wrong owner.
LEMMA AskedStep ==
  ASSUME UploadsIInv, NextUploads
  PROVE  Asked'
<1> USE DEF clientVars, threadVars, idVars, mapVars, managerVars, handlerVars, budgetVars
<1>. UploadsTypeOK /\ Asked /\ AtWork
  BY DEF UploadsIInv
<1>1. ASSUME NEW u \in Uploads, Ask(u) PROVE Asked'
  <2>1. /\ client[OwnerOf[u]] = "on" /\ OwnerOf[u] \in Owners
        /\ \A v \in Uploads : request'[v] = IF v = u THEN "pending" ELSE request[v]
        /\ \A s \in Owners :
             wire'[s] = IF s = OwnerOf[u] THEN wire[s] \cup {UploadCmd(u)} ELSE wire[s]
        /\ UNCHANGED <<client, stream, session, current, idOf>>
    BY <1>1, UploadAssumption DEF UploadsTypeOK, Ask
  <2>2. request[u] = "new" /\ idOf[u] = 0 /\ \A s \in Owners : UNCHANGED Words(s)
    BY <1>1, <2>1 DEF Asked, Ask, Words
  <2>3. \A s \in Owners, v \in Uploads : UploadCmd(v) \in wire'[s] =>
          UploadCmd(v) \in wire[s] \/ (v = u /\ s = OwnerOf[u])
    <3>1. \A s \in Owners, v \in Uploads : UploadCmd(v) \in wire'[s] =>
            UploadCmd(v) \in wire[s] \/ (UploadCmd(v) = UploadCmd(u) /\ s = OwnerOf[u])
      BY <2>1
    <3>. QED
      BY <3>1, WordsDiffer
  <2>. QED
    BY <2>1, <2>2, <2>3 DEF Asked
<1>2. ASSUME NEW s \in Owners, Stop(s) PROVE Asked'
  BY <1>2, UploadAssumption DEF Asked, UploadsTypeOK, Words, Stop
<1>3. ASSUME NEW s \in Owners, Login(s) PROVE Asked'
  BY <1>3, UploadAssumption DEF Asked, UploadsTypeOK, Words, Login
<1>4. ASSUME NEW s \in Owners, ReceiveFileId(s) PROVE Asked'
  <2>1. /\ stream[s] # <<>> /\ Head(stream[s]).word = "fileid"
        /\ stream' = [stream EXCEPT ![s] = Tail(@)]
        /\ request' = [request EXCEPT ![Head(stream[s]).upload] = "known"]
        /\ UNCHANGED <<client, wire, session, current, idOf>>
    BY <1>4 DEF ReceiveFileId
  <2>2. /\ \A t \in Owners : Words(t)' \subseteq Words(t)
        /\ \A t \in Owners \ {s} : stream'[t] = stream[t]
        /\ Head(stream[s]) \in Words(s) /\ Head(stream[s]) \in Word
    <3>1. stream[s] # <<>> /\ stream' = [stream EXCEPT ![s] = Tail(@)]
      BY <2>1
    <3>2. /\ Words(s)' \subseteq Words(s)
          /\ \A t \in Owners \ {s} : stream'[t] = stream[t] /\ Words(t)' = Words(t)
          /\ Head(stream[s]) = stream[s][1] /\ 1 \in DOMAIN stream[s]
          /\ Head(stream[s]) \in Word
      BY <3>1, Dropped
    <3>3. Head(stream[s]) \in Words(s)
      BY <3>2 DEF Words
    <3>. QED
      BY <3>2, <3>3
  <2>3. PICK u \in Uploads, id \in Ids : Head(stream[s]) = FileId(u, id)
    BY <2>1, <2>2, WordTypes, WordsDiffer
  <2>4. OwnerOf[u] = s
    BY <2>2, <2>3 DEF Asked
  <2>5. client[s] = "on"
    BY <2>1 DEF Asked
  <2>6. request' = [request EXCEPT ![u] = "known"]
    <3>1. Head(stream[s]).upload = u
      BY <2>3, WordsDiffer
    <3>. QED
      BY <2>1, <3>1
  <2>7. \A v \in Uploads : request'[v] = IF v = u THEN "known" ELSE request[v]
    BY <2>6 DEF UploadsTypeOK
  <2>. QED
    BY <2>1, <2>2, <2>4, <2>5, <2>7 DEF Asked
<1>5. ASSUME NEW s \in Owners, ReceiveBegin(s) PROVE Asked'
  <2>1. /\ stream[s] # <<>> /\ Head(stream[s]).word = "beginupload"
        /\ stream' = [stream EXCEPT ![s] = Tail(@)]
        /\ \/ /\ \E u \in Uploads : /\ OwnerOf[u] = s /\ request[u] = "known"
                                    /\ \/ request' = [request EXCEPT ![u] = "uploading"]
                                       \/ request' = [request EXCEPT ![u] = "lost"]
              /\ UNCHANGED wire
           \/ /\ wire' = [wire EXCEPT ![s] = @ \cup {AbortCmd(Head(stream[s]).id)}]
              /\ UNCHANGED request
        /\ UNCHANGED <<client, session, current, idOf>>
    BY <1>5 DEF ReceiveBegin
  <2>2. /\ \A t \in Owners : Words(t)' \subseteq Words(t)
        /\ \A t \in Owners \ {s} : stream'[t] = stream[t]
        /\ client[s] = "on"
    <3>1. stream[s] # <<>> /\ stream' = [stream EXCEPT ![s] = Tail(@)]
      BY <2>1
    <3>2. /\ Words(s)' \subseteq Words(s)
          /\ \A t \in Owners \ {s} : stream'[t] = stream[t] /\ Words(t)' = Words(t)
      BY <3>1, Dropped
    <3>3. client[s] = "on"
      BY <3>1 DEF Asked
    <3>. QED
      BY <3>2, <3>3
  <2>3. CASE UNCHANGED wire
    <3>1. \A u \in Uploads : request'[u] # request[u] =>
            OwnerOf[u] = s /\ request[u] = "known" /\ request'[u] # "new"
      BY <2>1 DEF UploadsTypeOK
    <3>. QED
      BY <2>1, <2>2, <2>3, <3>1 DEF Asked
  <2>4. CASE UNCHANGED request /\ wire' = [wire EXCEPT ![s] = @ \cup {AbortCmd(Head(stream[s]).id)}]
    <3>1. \A t \in Owners, u \in Uploads : UploadCmd(u) \in wire'[t] <=> UploadCmd(u) \in wire[t]
      BY <2>4, WordsDiffer DEF UploadsTypeOK
    <3>. QED
      BY <2>1, <2>2, <2>4, <3>1 DEF Asked, UploadsTypeOK
  <2>. QED
    BY <2>1, <2>3, <2>4
<1>6. ASSUME NEW s \in Owners, UploadReads(s) PROVE Asked'
  BY <1>6, UploadAssumption, WordsDiffer DEF Asked, UploadsTypeOK, Words, UploadReads
<1>7. ASSUME NEW s \in Owners, UploadAdds(s) PROVE Asked'
  <2>1. /\ session[s] = "add" /\ session' = [session EXCEPT ![s] = "reply"]
        /\ idOf' = [idOf EXCEPT ![current[s]] = read[s]]
        /\ UNCHANGED <<client, request, stream, wire, current>>
    BY <1>7 DEF UploadAdds
  <2>2. /\ current[s] \in Uploads /\ OwnerOf[current[s]] = s /\ request[current[s]] # "new"
        /\ UploadCmd(current[s]) \notin wire[s]
    BY <2>1 DEF Asked
  <2>3. read[s] # 0
    BY <2>1, IdsAreNumbers DEF UploadsIInv, Counted, UploadsTypeOK
  <2>4. \A t \in Owners : Words(t)' = Words(t)
    BY <2>1 DEF Words
  <2>5. \A t \in Owners, u \in Uploads : UploadCmd(u) \in wire[t] => u # current[s]
    BY <2>2 DEF Asked
  <2>6. \A t \in Owners : session[t] \in {"add", "reply"} /\ current[t] = current[s] => t = s
    BY <2>2 DEF Asked
  <2>. QED
    BY <2>1, <2>2, <2>3, <2>4, <2>5, <2>6 DEF Asked, UploadsTypeOK
<1>8. ASSUME NEW s \in Owners, UploadReplies(s) PROVE Asked'
  <2>1. /\ session[s] = "reply"
        /\ \/ /\ client[s] = "on"
              /\ stream' = [stream EXCEPT ![s] = Append(@, FileId(current[s], idOf[current[s]]))]
           \/ UNCHANGED stream
        /\ current' = [current EXCEPT ![s] = NoUpload]
        /\ session' \in {[session EXCEPT ![s] = "serve"], [session EXCEPT ![s] = "logout"]}
        /\ UNCHANGED <<client, request, wire, idOf>>
    BY <1>8 DEF UploadReplies, Writes
  <2>2. /\ current[s] \in Uploads /\ OwnerOf[current[s]] = s
        /\ FileId(current[s], idOf[current[s]]) \in Word
    BY <2>1, WordTypes DEF Asked, UploadsTypeOK
  <2>3. CASE UNCHANGED stream
    BY <2>1, <2>3 DEF Asked, UploadsTypeOK, Words
  <2>4. CASE /\ client[s] = "on"
             /\ stream' = [stream EXCEPT ![s] = Append(@, FileId(current[s], idOf[current[s]]))]
    <3>1. /\ Words(s)' = Words(s) \cup {FileId(current[s], idOf[current[s]])}
          /\ \A t \in Owners \ {s} : stream'[t] = stream[t] /\ Words(t)' = Words(t)
      BY <2>2, <2>4, Appended
    <3>2. \A t \in Owners, u \in Uploads, id \in Ids :
            FileId(u, id) \in Words(t)' => OwnerOf[u] = t
      BY <2>2, <3>1, WordsDiffer DEF Asked
    <3>. QED
      BY <2>1, <2>4, <3>1, <3>2 DEF Asked, UploadsTypeOK
  <2>. QED
    BY <2>1, <2>3, <2>4
<1>9. ASSUME NEW s \in Owners, UploadAbort(s) \/ LogoutOwner(s) PROVE Asked'
  <2>1. /\ UNCHANGED <<request, stream, current, idOf>>
        /\ \/ client' = client
           \/ client[s] = "gone" /\ client' = [client EXCEPT ![s] = "off"]
        /\ \A t \in Owners : wire'[t] \subseteq wire[t]
        /\ \/ session' = session
           \/ session' = [session EXCEPT ![s] = "dead"]
           \/ session' = [session EXCEPT ![s] = "off"]
    <3>1. CASE UploadAbort(s)
      <4>1. \E id \in Ids : wire' = [wire EXCEPT ![s] = @ \ {AbortCmd(id)}]
        BY <3>1 DEF UploadAbort
      <4>2. \A t \in Owners : wire'[t] \subseteq wire[t]
        BY <4>1 DEF UploadsTypeOK
      <4>3. session' = session \/ session' = [session EXCEPT ![s] = "dead"]
        BY <3>1 DEF UploadAbort
      <4>4. UNCHANGED <<client, request, stream, current, idOf>>
        BY <3>1 DEF UploadAbort
      <4>. QED
        BY <4>2, <4>3, <4>4
    <3>2. CASE LogoutOwner(s)
      <4>1. \A t \in Owners : wire'[t] \subseteq wire[t]
        BY <3>2 DEF LogoutOwner, UploadsTypeOK
      <4>. QED
        BY <3>2, <4>1 DEF LogoutOwner
    <3>. QED
      BY <1>9, <3>1, <3>2
  <2>2. /\ \A t \in Owners : client'[t] # "on" => client[t] # "on"
        /\ \A t \in Owners : session'[t] \in {"add", "reply"} => session'[t] = session[t]
    BY <2>1 DEF UploadsTypeOK
  <2>. QED
    BY <2>1, <2>2 DEF Asked, Words
<1>10. CASE SendWrite
  <2>1. /\ mid \in Ids /\ mupload \in Uploads
        /\ UNCHANGED <<client, request, wire, session, current, idOf>>
        /\ \/ UNCHANGED stream
           \/ /\ client[OwnerOf[mupload]] = "on"
              /\ stream' = [stream EXCEPT ![OwnerOf[mupload]] = Append(@, Begin(mid))]
    BY <1>10 DEF SendWrite, Writes, AtWork
  <2>2. CASE UNCHANGED stream
    BY <2>1, <2>2 DEF Asked, Words
  <2>3. ASSUME NEW s \in Owners, client[s] = "on",
               stream' = [stream EXCEPT ![s] = Append(@, Begin(mid))]
        PROVE  Asked'
    <3>1. /\ Words(s)' = Words(s) \cup {Begin(mid)}
          /\ \A t \in Owners \ {s} : stream'[t] = stream[t] /\ Words(t)' = Words(t)
      BY <2>1, <2>3, Appended, WordTypes
    <3>2. \A t \in Owners, u \in Uploads, id \in Ids :
            FileId(u, id) \in Words(t)' => OwnerOf[u] = t
      BY <3>1, WordsDiffer DEF Asked
    <3>. QED
      BY <2>1, <2>3, <3>1, <3>2 DEF Asked
  <2>. QED
    BY <2>1, <2>2, <2>3, UploadAssumption
<1>11. CASE UNCHANGED <<client, request, stream, wire, session, current, idOf>>
  BY <1>11 DEF Asked, Words
<1>12. Manager => SendWrite \/ UNCHANGED <<client, request, stream, wire, session, current, idOf>>
  BY DEF Manager, Scan, Move, SendCheck, SendGet, TellCheck, TellGet, Tell, Abort, Discard
<1>13. ASSUME NEW u \in Uploads, Handler(u)
       PROVE  UNCHANGED <<client, request, stream, wire, session, current, idOf>>
  BY <1>13 DEF Handler, HandlerStart, HandlerNoHeader, HandlerSave, HandlerRemove, HandlerFail,
     HandlerRelease
<1>. QED
  BY <1>1, <1>2, <1>3, <1>4, <1>5, <1>6, <1>7, <1>8, <1>9, <1>10, <1>11, <1>12, <1>13
     DEF NextUploads, SessionThread, Receive

\* The counter stays within the number of uploads.
LEMMA CountedStep ==
  ASSUME UploadsIInv, NextUploads
  PROVE  Counted'
<1> USE DEF clientVars, threadVars, idVars, mapVars, managerVars, handlerVars, budgetVars
<1>. UploadsTypeOK /\ Asked /\ Counted
  BY DEF UploadsIInv
<1>0. Cardinality(Given) \in Nat
  BY UploadAssumption, FS_Subset, FS_CardinalityType DEF Given
<1>1. ASSUME NEW s \in Owners, UploadAdds(s) PROVE Counted'
  <2>1. /\ session[s] = "add" /\ session' = [session EXCEPT ![s] = "reply"]
        /\ nextFileId' = read[s] + 1 /\ idOf' = [idOf EXCEPT ![current[s]] = read[s]]
        /\ UNCHANGED read
    BY <1>1 DEF UploadAdds
  <2>2. current[s] \in Uploads /\ idOf[current[s]] = 0 /\ read[s] \in Nat /\ read[s] # 0
    BY <2>1, IdsAreNumbers DEF Asked, Counted, UploadsTypeOK
  <2>3. Given' = Given \cup {current[s]}
    BY <2>1, <2>2 DEF Given, UploadsTypeOK
  <2>4. Cardinality(Given') = Cardinality(Given) + 1
    BY <2>2, <2>3, IdsLeft
  <2>5. \A t \in Owners : read[t] \in Nat
    BY IdsAreNumbers DEF UploadsTypeOK
  <2>. QED
    BY <1>0, <2>1, <2>2, <2>4, <2>5 DEF Counted, UploadsTypeOK
<1>2. ASSUME NEW s \in Owners, UploadReads(s) PROVE Counted'
  <2>1. /\ UNCHANGED <<nextFileId, idOf>>
        /\ session' = [session EXCEPT ![s] = "add"] /\ read' = [read EXCEPT ![s] = nextFileId]
    BY <1>2 DEF UploadReads
  <2>2. Given' = Given /\ nextFileId \in Nat /\ nextFileId >= 1
    BY <2>1, IdsAreNumbers DEF Given, UploadsTypeOK
  <2>. QED
    BY <2>1, <2>2 DEF Counted, UploadsTypeOK
<1>3. ASSUME NEW s \in Owners, UploadReplies(s) PROVE Counted'
  <2>1. /\ UNCHANGED <<nextFileId, idOf>> /\ read' = [read EXCEPT ![s] = 0]
        /\ session' \in {[session EXCEPT ![s] = "serve"], [session EXCEPT ![s] = "logout"]}
    BY <1>3 DEF UploadReplies
  <2>2. Given' = Given
    BY <2>1 DEF Given
  <2>. QED
    BY <1>0, <2>1, <2>2 DEF Counted, UploadsTypeOK
<1>4. ASSUME UNCHANGED <<nextFileId, idOf, read>>,
             \A s \in Owners : session'[s] = "add" => session[s] = "add"
      PROVE  Counted'
  BY <1>4 DEF Counted, Given
<1>5. ASSUME NEW s \in Owners, Login(s) \/ UploadAbort(s) \/ LogoutOwner(s) \/ Stop(s) \/ Receive(s)
      PROVE  /\ UNCHANGED <<nextFileId, idOf, read>>
             /\ \A t \in Owners : session'[t] = "add" => session[t] = "add"
  BY <1>5 DEF Login, UploadAbort, LogoutOwner, Stop, Receive, ReceiveFileId, ReceiveBegin,
     UploadsTypeOK
<1>6. Manager => UNCHANGED <<nextFileId, idOf, read, session>>
  BY DEF Manager, Scan, Move, SendCheck, SendGet, SendWrite, TellCheck, TellGet, Tell, Abort,
     Discard
<1>7. ASSUME NEW u \in Uploads, Handler(u) \/ Ask(u)
      PROVE  UNCHANGED <<nextFileId, idOf, read, session>>
  BY <1>7 DEF Ask, Handler, HandlerStart, HandlerNoHeader, HandlerSave, HandlerRemove, HandlerFail,
     HandlerRelease
<1>. QED
  BY <1>1, <1>2, <1>3, <1>4, <1>5, <1>6, <1>7 DEF NextUploads, SessionThread

\* Manager and handlers go on working on something.
LEMMA AtWorkStep ==
  ASSUME UploadsIInv, NextUploads
  PROVE  AtWork'
<1> USE DEF clientVars, threadVars, idVars, mapVars, managerVars, handlerVars, budgetVars
<1>. UploadsTypeOK /\ Asked /\ AtWork
  BY DEF UploadsIInv
<1>1. ASSUME NEW s \in Owners, ReceiveBegin(s) PROVE AtWork'
  <2>1. Head(stream[s]).id \in Ids
    BY <1>1, GrantRead
  <2>2. /\ UNCHANGED <<mpc, mid, mupload, idOf, hbuffer>>
        /\ \/ UNCHANGED hpc
           \/ \E u \in Uploads : /\ idOf[u] = Head(stream[s]).id
                                 /\ hpc' = [hpc EXCEPT ![u] = "open"]
    BY <1>1 DEF ReceiveBegin
  <2>. QED
    BY <2>1, <2>2, IdsAreNumbers DEF AtWork, UploadsTypeOK
<1>2. ASSUME NEW s \in Owners, UploadAdds(s) PROVE AtWork'
  <2>1. /\ idOf' = [idOf EXCEPT ![current[s]] = read[s]] /\ read[s] # 0 /\ current[s] \in Uploads
        /\ UNCHANGED <<mpc, mid, mupload, hpc, hbuffer>>
    BY <1>2, IdsAreNumbers DEF UploadAdds, UploadsIInv, Counted, UploadsTypeOK, Asked
  <2>. QED
    BY <2>1 DEF AtWork, UploadsTypeOK
<1>3. CASE Scan
  <2>1. \E id \in Ids : queueOperation[id] # NoUpload /\ mid' = id /\ mupload' = queueOperation[id]
    BY <1>3 DEF Scan
  <2>2. mid' \in Ids /\ mupload' \in Uploads /\ mpc' # "scan" /\ UNCHANGED <<idOf, hpc, hbuffer>>
    BY <1>3, <2>1 DEF UploadsTypeOK, Scan
  <2>. QED
    BY <2>2 DEF AtWork
<1>4. ASSUME Manager, ~Scan
      PROVE  /\ mpc # "scan" /\ UNCHANGED <<idOf, hpc, hbuffer>>
             /\ (mpc' # "scan" /\ UNCHANGED <<mid, mupload>>) \/ Rests
  BY <1>4 DEF Manager, Move, SendCheck, SendGet, SendWrite, TellCheck, TellGet, Tell, Abort, Discard
<1>5. ASSUME Manager, ~Scan PROVE AtWork'
  BY <1>4, <1>5 DEF AtWork, Rests
<1>6. ASSUME NEW u \in Uploads, Handler(u) PROVE AtWork'
  <2>1. CASE HandlerStart(u)
    <3>1. /\ hpc[u] = "open" /\ idOf[u] \in Ids
          /\ hbuffer' = [hbuffer EXCEPT ![u] = runningOperation[idOf[u]]]
          /\ hpc' = [hpc EXCEPT ![u] = IF hbuffer'[u] = NoUpload THEN "dead" ELSE "data"]
          /\ UNCHANGED <<mpc, mid, mupload, idOf>>
      BY <2>1 DEF HandlerStart, AtWork, UploadsTypeOK
    <3>. QED
      BY <3>1 DEF AtWork, UploadsTypeOK
  <2>2. CASE ~HandlerStart(u)
    <3>1. /\ UNCHANGED <<mpc, mid, mupload, idOf, hbuffer>>
          /\ hpc[u] # "none"
          /\ \E to \in {"dead", "saved", "release", "over"} :
               /\ hpc' = [hpc EXCEPT ![u] = to]
               /\ to \in {"saved", "release"} => hpc[u] \in {"data", "saved", "release"}
      BY <1>6, <2>2 DEF Handler, HandlerNoHeader, HandlerSave, HandlerRemove, HandlerFail,
         HandlerRelease
    <3>. QED
      BY <3>1 DEF AtWork, UploadsTypeOK
  <2>. QED
    BY <2>1, <2>2
<1>7. CASE UNCHANGED <<mpc, mid, mupload, hpc, hbuffer, idOf>>
  BY <1>7 DEF AtWork
<1>8. ASSUME NEW s \in Owners, Stop(s) \/ Login(s) \/ ReceiveFileId(s) \/ UploadReads(s)
               \/ UploadReplies(s) \/ UploadAbort(s) \/ LogoutOwner(s)
      PROVE  UNCHANGED <<mpc, mid, mupload, hpc, hbuffer, idOf>>
  BY <1>8 DEF Stop, Login, ReceiveFileId, UploadReads, UploadReplies, UploadAbort, LogoutOwner
<1>9. ASSUME NEW u \in Uploads, Ask(u) PROVE UNCHANGED <<mpc, mid, mupload, hpc, hbuffer, idOf>>
  BY <1>9 DEF Ask
<1>. QED
  BY <1>1, <1>2, <1>3, <1>5, <1>6, <1>7, <1>8, <1>9 DEF NextUploads, SessionThread, Receive

-----------------------------------------------------------------------------
(* How an upload gets from place to place *)

\* Only addOperation gives ids and fills the queue.
LEMMA IdsKept ==
  ASSUME NextUploads, ~ \E s \in Owners : UploadAdds(s)
  PROVE  UNCHANGED <<idOf, queueOperation>> \/ Move \/ Discard
<1> USE DEF clientVars, threadVars, idVars, mapVars, managerVars, handlerVars, budgetVars
<1>1. ASSUME NEW s \in Owners, Stop(s) \/ Login(s) \/ Receive(s) \/ SessionThread(s)
      PROVE  UNCHANGED <<idOf, queueOperation>>
  BY <1>1 DEF Stop, Login, Receive, ReceiveFileId, ReceiveBegin, SessionThread, UploadReads,
     UploadReplies, UploadAbort, LogoutOwner
<1>2. ASSUME NEW u \in Uploads, Ask(u) \/ Handler(u) PROVE UNCHANGED <<idOf, queueOperation>>
  BY <1>2 DEF Ask, Handler, HandlerStart, HandlerNoHeader, HandlerSave, HandlerRemove,
     HandlerFail, HandlerRelease
<1>3. CASE Manager
  BY <1>3 DEF Manager, Scan, SendCheck, SendGet, SendWrite, Abort, TellCheck, TellGet, Tell
<1>. QED
  BY <1>1, <1>2, <1>3 DEF NextUploads

\* An upload that gets an id had none, so a double id stays.
LEMMA Adds ==
  ASSUME UploadsIInv, NEW s \in Owners, UploadAdds(s)
  PROVE  /\ current[s] \in Uploads /\ OwnerOf[current[s]] = s /\ idOf[current[s]] = 0
         /\ read[s] \in Ids /\ read[s] # 0
         /\ \A u \in Uploads : idOf'[u] = IF u = current[s] THEN read[s] ELSE idOf[u]
         /\ \A id \in Ids :
              queueOperation'[id] = IF id = read[s] THEN current[s] ELSE queueOperation[id]
         /\ \A t \in Owners : session'[t] = IF t = s THEN "reply" ELSE session[t]
         /\ UNCHANGED <<clientVars, current, read, runningOperation, budgetVars,
                        managerVars, handlerVars>>
<1>. UploadsTypeOK /\ Asked /\ Counted
  BY DEF UploadsIInv
<1>1. /\ current[s] \in Uploads /\ OwnerOf[current[s]] = s /\ idOf[current[s]] = 0
      /\ read[s] >= 1
  BY DEF Asked, Counted, UploadAdds
<1>2. read[s] \in Ids /\ read[s] # 0
  BY <1>1, IdsAreNumbers DEF UploadsTypeOK, Ids
<1>. QED
  BY <1>1, <1>2 DEF UploadAdds, UploadsTypeOK

\* The ids were distinct before a step if they are after it.
LEMMA StillDistinct ==
  ASSUME UploadsIInv, NextUploads, DistinctIds'
  PROVE  /\ DistinctIds
         /\ Placed /\ Granted /\ OnePlace /\ Backed /\ Ordered /\ AccountsAgree
<1>1. DistinctIds
  <2>1. CASE \E s \in Owners : UploadAdds(s)
    BY <2>1, Adds DEF DistinctIds
  <2>2. CASE ~ \E s \in Owners : UploadAdds(s)
    <3>1. UNCHANGED idOf
      BY <2>2, IdsKept DEF Move, Discard, idVars
    <3>. QED
      BY <3>1 DEF DistinctIds
  <2>. QED
    BY <2>1, <2>2
<1>. QED
  BY <1>1 DEF UploadsIInv

\* Only the manager tells a client to begin.
LEMMA GrantMoves ==
  ASSUME UploadsIInv, NextUploads, NEW s \in Owners, NEW id, Begin(id) \in Words(s)'
  PROVE  \/ Begin(id) \in Words(s)
         \/ /\ mpc = "write" /\ mupload \in Uploads /\ OwnerOf[mupload] = s /\ mid = id
            /\ SendWrite /\ mupload' = NoUpload
            /\ StreamFree(s) /\ client[s] = "on"
            /\ stream' = [stream EXCEPT ![s] = Append(@, Begin(id))]
<1> USE DEF clientVars, threadVars, idVars, mapVars, managerVars, handlerVars, budgetVars
<1>. UploadsTypeOK /\ Asked /\ AtWork
  BY DEF UploadsIInv
<1>1. CASE SendWrite
  <2>1. /\ mpc = "write" /\ mupload \in Uploads /\ mid \in Ids
        /\ \/ UNCHANGED stream
           \/ /\ mupload' = NoUpload /\ StreamFree(OwnerOf[mupload])
              /\ client[OwnerOf[mupload]] = "on"
              /\ stream' = [stream EXCEPT ![OwnerOf[mupload]] = Append(@, Begin(mid))]
    BY <1>1 DEF SendWrite, Writes, AtWork, Rests
  <2>2. CASE UNCHANGED stream
    BY <2>2 DEF Words
  <2>3. ASSUME NEW t \in Owners, t = OwnerOf[mupload],
               stream' = [stream EXCEPT ![t] = Append(@, Begin(mid))]
        PROVE  Begin(id) \in Words(s) \/ (t = s /\ mid = id)
    <3>1. Begin(mid) \in Word
      BY <2>1, WordTypes
    <3>2. /\ Words(t)' = Words(t) \cup {Begin(mid)}
          /\ \A r \in Owners \ {t} : Words(r)' = Words(r)
      BY <2>3, <3>1, Appended
    <3>. QED
      BY <3>2, WordsDiffer
  <2>. QED
    BY <1>1, <2>1, <2>2, <2>3, UploadAssumption
<1>2. ASSUME NEW t \in Owners, UploadReplies(t) PROVE Begin(id) \in Words(s)
  <2>1. /\ current[t] \in Uploads /\ idOf[current[t]] \in Ids
        /\ \/ UNCHANGED stream
           \/ stream' = [stream EXCEPT ![t] = Append(@, FileId(current[t], idOf[current[t]]))]
    BY <1>2 DEF UploadReplies, Writes, Asked, UploadsTypeOK
  <2>2. CASE UNCHANGED stream
    BY <2>2 DEF Words
  <2>3. CASE stream' = [stream EXCEPT ![t] = Append(@, FileId(current[t], idOf[current[t]]))]
    <3>1. /\ Words(t)' = Words(t) \cup {FileId(current[t], idOf[current[t]])}
          /\ \A r \in Owners \ {t} : Words(r)' = Words(r)
      BY <2>1, <2>3, Appended, WordTypes
    <3>. QED
      BY <3>1, WordsDiffer
  <2>. QED
    BY <2>1, <2>2, <2>3
<1>3. ASSUME NEW t \in Owners, Stop(t) PROVE Begin(id) \in Words(s)
  BY <1>3 DEF Stop, Words, UploadsTypeOK
<1>4. ASSUME NEW t \in Owners, Receive(t) PROVE Begin(id) \in Words(s)
  <2>1. stream[t] # <<>> /\ stream' = [stream EXCEPT ![t] = Tail(@)]
    BY <1>4 DEF Receive, ReceiveFileId, ReceiveBegin
  <2>2. \A r \in Owners : Words(r)' \subseteq Words(r)
    BY <2>1, Dropped
  <2>. QED
    BY <2>2
<1>5. CASE UNCHANGED stream
  BY <1>5 DEF Words
<1>6. ASSUME NEW t \in Owners, Login(t) \/ SessionThread(t), ~UploadReplies(t)
      PROVE  UNCHANGED stream
  BY <1>6 DEF Login, SessionThread, UploadReads, UploadAdds, UploadAbort, LogoutOwner
<1>7. ASSUME NEW u \in Uploads, Ask(u) \/ Handler(u) PROVE UNCHANGED stream
  BY <1>7 DEF Ask, Handler, HandlerStart, HandlerNoHeader, HandlerSave, HandlerRemove,
     HandlerFail, HandlerRelease
<1>8. Manager => SendWrite \/ UNCHANGED stream
  BY DEF Manager, Scan, Move, SendCheck, SendGet, Abort, TellCheck, TellGet, Tell, Discard
<1>. QED
  BY <1>1, <1>2, <1>3, <1>4, <1>5, <1>6, <1>7, <1>8 DEF NextUploads

\* Only a client that has been told to begin cancels.
LEMMA CancelMoves ==
  ASSUME UploadsIInv, NextUploads, NEW s \in Owners, NEW id, AbortCmd(id) \in wire'[s]
  PROVE  \/ AbortCmd(id) \in wire[s]
         \/ /\ ReceiveBegin(s) /\ Head(stream[s]) = Begin(id)
            /\ UNCHANGED <<hpc, mupload, mpc>>
<1> USE DEF clientVars, threadVars, idVars, mapVars, managerVars, handlerVars, budgetVars
<1>. UploadsTypeOK
  BY DEF UploadsIInv
<1>1. ASSUME NEW t \in Owners, ReceiveBegin(t), AbortCmd(id) \notin wire[s]
      PROVE  t = s /\ Head(stream[s]) = Begin(id) /\ UNCHANGED <<hpc, mupload, mpc>>
  <2>1. /\ wire' = [wire EXCEPT ![t] = @ \cup {AbortCmd(Head(stream[t]).id)}]
        /\ UNCHANGED <<hpc, mupload, mpc>>
    BY <1>1 DEF ReceiveBegin
  <2>2. t = s /\ AbortCmd(id) = AbortCmd(Head(stream[s]).id)
    BY <1>1, <2>1 DEF UploadsTypeOK
  <2>3. id = Head(stream[s]).id
    BY <2>2, WordsDiffer
  <2>. QED
    BY <1>1, <2>1, <2>2, <2>3, GrantRead
<1>2. ASSUME NEW u \in Uploads, Ask(u) PROVE AbortCmd(id) \in wire[s]
  BY <1>2, WordsDiffer DEF Ask, UploadsTypeOK
<1>3. ASSUME NEW t \in Owners, UploadReads(t) \/ UploadAbort(t) \/ LogoutOwner(t)
      PROVE  AbortCmd(id) \in wire[s]
  <2>1. CASE UploadReads(t)
    BY <2>1 DEF UploadReads, UploadsTypeOK
  <2>2. CASE UploadAbort(t)
    <3>1. \E a : wire' = [wire EXCEPT ![t] = @ \ {AbortCmd(a)}]
      BY <2>2 DEF UploadAbort
    <3>. QED
      BY <3>1 DEF UploadsTypeOK
  <2>3. CASE LogoutOwner(t)
    BY <2>3 DEF LogoutOwner, UploadsTypeOK
  <2>. QED
    BY <1>3, <2>1, <2>2, <2>3
<1>4. ASSUME NEW t \in Owners,
             Stop(t) \/ Login(t) \/ ReceiveFileId(t) \/ UploadAdds(t) \/ UploadReplies(t)
      PROVE  UNCHANGED wire
  BY <1>4 DEF Stop, Login, ReceiveFileId, UploadAdds, UploadReplies
<1>5. ASSUME NEW u \in Uploads, Handler(u) PROVE UNCHANGED wire
  BY <1>5 DEF Handler, HandlerStart, HandlerNoHeader, HandlerSave, HandlerRemove, HandlerFail,
     HandlerRelease
<1>6. Manager => UNCHANGED wire
  BY DEF Manager, Scan, Move, SendCheck, SendGet, SendWrite, Abort, TellCheck, TellGet, Tell,
     Discard
<1>. QED
  BY <1>1, <1>2, <1>3, <1>4, <1>5, <1>6 DEF NextUploads, SessionThread, Receive

\* Only an upload whose client has been told to begin gets a handler.
LEMMA HandlerMoves ==
  ASSUME UploadsIInv, NextUploads, NEW u \in Uploads, Handled(u)'
  PROVE  \/ Handled(u)
         \/ /\ ReceiveBegin(OwnerOf[u]) /\ Head(stream[OwnerOf[u]]) = Begin(idOf[u])
            /\ UNCHANGED <<wire, mupload, mpc>>
<1> USE DEF clientVars, threadVars, idVars, mapVars, managerVars, handlerVars, budgetVars
<1>. UploadsTypeOK
  BY DEF UploadsIInv
<1>1. ASSUME NEW s \in Owners, ReceiveBegin(s), ~Handled(u)
      PROVE  s = OwnerOf[u] /\ Head(stream[s]) = Begin(idOf[u]) /\ UNCHANGED <<wire, mupload, mpc>>
  <2>1. /\ OwnerOf[u] = s /\ idOf[u] = Head(stream[s]).id
        /\ UNCHANGED <<wire, mupload, mpc>>
    BY <1>1 DEF ReceiveBegin, Handled, UploadsTypeOK
  <2>. QED
    BY <1>1, <2>1, GrantRead
<1>2. ASSUME NEW v \in Uploads, Handler(v) PROVE Handled(u)
  BY <1>2 DEF Handler, HandlerStart, HandlerNoHeader, HandlerSave, HandlerRemove, HandlerFail,
     HandlerRelease, Handled, UploadsTypeOK
<1>3. ASSUME UNCHANGED hpc PROVE Handled(u)
  BY <1>3 DEF Handled
<1>4. ASSUME NEW s \in Owners, Stop(s) \/ Login(s) \/ ReceiveFileId(s) \/ SessionThread(s)
      PROVE  UNCHANGED hpc
  BY <1>4 DEF Stop, Login, ReceiveFileId, SessionThread, UploadReads, UploadAdds, UploadReplies,
     UploadAbort, LogoutOwner
<1>5. ASSUME NEW v \in Uploads, Ask(v) PROVE UNCHANGED hpc
  BY <1>5 DEF Ask
<1>6. Manager => UNCHANGED hpc
  BY DEF Manager, Scan, Move, SendCheck, SendGet, SendWrite, Abort, TellCheck, TellGet, Tell,
     Discard
<1>. QED
  BY <1>1, <1>2, <1>3, <1>4, <1>5, <1>6 DEF NextUploads, Receive

\* The manager takes an upload from the queue.
LEMMA ManagerMoves ==
  ASSUME UploadsIInv, NextUploads, NEW u \in Uploads, mupload' = u
  PROVE  mupload = u \/ (Scan /\ Queued(u))
<1> USE DEF clientVars, threadVars, idVars, mapVars, managerVars, handlerVars, budgetVars
<1>1. CASE Scan
  BY <1>1 DEF Scan, Queued
<1>2. ASSUME Manager, ~Scan PROVE mupload = u
  BY <1>2, UploadAssumption DEF Manager, Move, SendCheck, SendGet, SendWrite, Abort, TellCheck,
     TellGet, Tell, Discard, Rests
<1>3. ASSUME NEW s \in Owners, Stop(s) \/ Login(s) \/ Receive(s) \/ SessionThread(s)
      PROVE  mupload = u
  BY <1>3 DEF Stop, Login, Receive, ReceiveFileId, ReceiveBegin, SessionThread, UploadReads,
     UploadAdds, UploadReplies, UploadAbort, LogoutOwner
<1>4. ASSUME NEW v \in Uploads, Ask(v) \/ Handler(v) PROVE mupload = u
  BY <1>4 DEF Ask, Handler, HandlerStart, HandlerNoHeader, HandlerSave, HandlerRemove,
     HandlerFail, HandlerRelease
<1>. QED
  BY <1>1, <1>2, <1>3, <1>4 DEF NextUploads

-----------------------------------------------------------------------------
(* What is known of an upload that gets an id, is cancelled or is released *)

\* Nothing knows of an upload, or of its id, before it is added.
LEMMA NewcomerIsFresh ==
  ASSUME UploadsIInv, NextUploads, DistinctIds', NEW s \in Owners, UploadAdds(s)
  PROVE  /\ \A u \in Uploads : idOf[u] # read[s]
         /\ \A t \in Owners : Begin(read[s]) \notin Words(t) /\ AbortCmd(read[s]) \notin wire[t]
         /\ queueOperation[read[s]] = NoUpload /\ runningOperation[read[s]] = NoUpload
         /\ mpc # "scan" => mid # read[s]
         /\ mupload # current[s] /\ current[s] \notin held /\ hpc[current[s]] = "none"
         /\ \A id \in Ids : queueOperation[id] # current[s] /\ runningOperation[id] # current[s]
<1>. UploadsTypeOK /\ AtWork /\ Placed /\ Granted
  BY StillDistinct DEF UploadsIInv
<1>1. /\ current[s] \in Uploads /\ idOf[current[s]] = 0 /\ read[s] \in Ids /\ read[s] # 0
      /\ \A u \in Uploads : idOf'[u] = IF u = current[s] THEN read[s] ELSE idOf[u]
  BY Adds
<1>2. \A u \in Uploads : idOf[u] # read[s]
  BY <1>1 DEF DistinctIds
<1>3. \A t \in Owners : Begin(read[s]) \notin Words(t) /\ AbortCmd(read[s]) \notin wire[t]
  BY <1>1, <1>2 DEF Granted
<1>4. queueOperation[read[s]] = NoUpload /\ runningOperation[read[s]] = NoUpload
  BY <1>1, <1>2 DEF Placed, UploadsTypeOK
<1>5. mpc # "scan" => mid # read[s]
  BY <1>2 DEF AtWork, Placed
<1>6. mupload # current[s]
  BY <1>1, IdsAreNumbers, UploadAssumption DEF AtWork, Placed
<1>7. current[s] \notin held /\ hpc[current[s]] = "none"
  BY <1>1 DEF AtWork, Placed
<1>8. \A id \in Ids : queueOperation[id] # current[s] /\ runningOperation[id] # current[s]
  BY <1>1, IdsAreNumbers, UploadAssumption DEF Placed
<1>. QED
  BY <1>2, <1>3, <1>4, <1>5, <1>6, <1>7, <1>8

\* The size of a cancelled upload is released once: it had its client's answer only.
LEMMA CancelledIsReleased ==
  ASSUME UploadsIInv, NextUploads, DistinctIds', NEW s \in Owners, UploadAbort(s)
  PROVE  \E u \in Uploads :
           /\ OwnerOf[u] = s /\ idOf[u] \in Ids /\ Cancelled(u) /\ u \in held
           /\ AbortCmd(idOf[u]) \notin wire'[s]
           /\ held' = held \ {u} /\ currentBufferSize' = currentBufferSize - FileLength[u]
           /\ runningOperation[idOf[u]] = u
           /\ \A id \in Ids :
                runningOperation'[id] = IF id = idOf[u] THEN NoUpload ELSE runningOperation[id]
<1> USE DEF clientVars, threadVars, idVars, mapVars, managerVars, handlerVars, budgetVars
<1>. UploadsTypeOK /\ AtWork /\ Placed /\ Granted /\ GrantIsBacked /\ DistinctIds
  BY StillDistinct DEF UploadsIInv
<1>1. PICK id \in Ids :
        /\ AbortCmd(id) \in wire[s]
        /\ wire' = [wire EXCEPT ![s] = @ \ {AbortCmd(id)}]
        /\ runningOperation[id] # NoUpload =>
             /\ Releases(runningOperation[id])
             /\ runningOperation' = [runningOperation EXCEPT ![id] = NoUpload]
  BY DEF UploadAbort
<1>2. PICK u \in Uploads : OwnerOf[u] = s /\ idOf[u] = id
  BY <1>1 DEF Granted
<1>3. Cancelled(u)
  BY <1>1, <1>2 DEF Cancelled
<1>4. runningOperation[id] = u /\ u \in held
  BY <1>1, <1>2 DEF GrantIsBacked
<1>5. AbortCmd(id) \notin wire'[s]
  BY <1>1 DEF UploadsTypeOK
<1>6. /\ Releases(u)
      /\ \A i \in Ids : runningOperation'[i] = IF i = id THEN NoUpload ELSE runningOperation[i]
  BY <1>1, <1>4, UploadAssumption DEF UploadsTypeOK
<1>. QED
  BY <1>2, <1>3, <1>4, <1>5, <1>6 DEF Releases

\* The size of a handled upload is released once: its handler releases its own.
LEMMA HandledIsReleased ==
  ASSUME UploadsIInv, NextUploads, DistinctIds', NEW u \in Uploads, HandlerRelease(u)
  PROVE  /\ Handled(u) /\ ~Handled(u)' /\ u \in held
         /\ held' = held \ {u} /\ currentBufferSize' = currentBufferSize - FileLength[u]
<1>. UploadsTypeOK /\ ReceivedIsReserved /\ DistinctIds
  BY StillDistinct DEF UploadsIInv
<1>1. hbuffer[u] = u /\ u \in held /\ Handled(u)
  BY DEF ReceivedIsReserved, HandlerRelease, Handled
<1>2. hpc' = [hpc EXCEPT ![u] = "over"]
  BY DEF HandlerRelease
<1>3. ~Handled(u)'
  BY <1>2 DEF Handled, UploadsTypeOK
<1>. QED
  BY <1>1, <1>3 DEF HandlerRelease, Releases

\* Sizes are released by a cancellation or by the handler, and reserved by the manager.
LEMMA BudgetMoves ==
  ASSUME UploadsIInv, NextUploads, DistinctIds'
  PROVE  \/ UNCHANGED budgetVars
         \/ \E s \in Owners : UploadAbort(s)
         \/ \E u \in Uploads : HandlerRelease(u)
         \/ \E id \in Ids :
              LET u == queueOperation[id] IN
              /\ Scan /\ mpc = "scan" /\ u \in Uploads /\ u \notin held
              /\ currentBufferSize + FileLength[u] <= MAX_BUFFER_SIZE
              /\ Reserves(u) /\ mpc' = "move" /\ mid' = id /\ mupload' = u
<1> USE DEF clientVars, threadVars, idVars, mapVars, managerVars, handlerVars
<1>. UploadsTypeOK /\ Backed
  BY StillDistinct DEF UploadsIInv
<1>1. CASE Scan
  <2>1. PICK id \in Ids :
          /\ queueOperation[id] # NoUpload
          /\ \/ /\ currentBufferSize + FileLength[queueOperation[id]] <= MAX_BUFFER_SIZE
                /\ Reserves(queueOperation[id])
                /\ mpc' = "move"
             \/ UNCHANGED budgetVars
          /\ mid' = id /\ mupload' = queueOperation[id]
    BY <1>1 DEF Scan
  <2>2. queueOperation[id] \in Uploads
    BY <2>1 DEF UploadsTypeOK
  <2>3. queueOperation[id] \notin held
    BY <1>1, <2>2 DEF Backed, Queued, Scan
  <2>. QED
    BY <1>1, <2>1, <2>2, <2>3 DEF Scan
<1>2. ASSUME Manager, ~Scan PROVE UNCHANGED budgetVars
  BY <1>2 DEF Manager, Move, SendCheck, SendGet, SendWrite, Abort, TellCheck, TellGet, Tell,
     Discard
<1>3. ASSUME NEW s \in Owners, Stop(s) \/ Login(s) \/ Receive(s) \/ SessionThread(s),
             ~UploadAbort(s)
      PROVE  UNCHANGED budgetVars
  BY <1>3 DEF Stop, Login, Receive, ReceiveFileId, ReceiveBegin, SessionThread, UploadReads,
     UploadAdds, UploadReplies, LogoutOwner, budgetVars
<1>4. ASSUME NEW u \in Uploads, Ask(u) \/ Handler(u), ~HandlerRelease(u)
      PROVE  UNCHANGED budgetVars
  BY <1>4 DEF Ask, Handler, HandlerStart, HandlerNoHeader, HandlerSave, HandlerRemove,
     HandlerFail
<1>. QED
  BY <1>1, <1>2, <1>3, <1>4 DEF NextUploads

-----------------------------------------------------------------------------
(* The bytes in the buffer *)

\* An upload has as many bytes as its size says.
LEMMA BytesOf ==
  ASSUME NEW u \in Uploads
  PROVE  /\ IsFiniteSet({u} \X (1 .. FileLength[u]))
         /\ Cardinality({u} \X (1 .. FileLength[u])) = FileLength[u]
<1>1. FileLength[u] \in Nat
  BY UploadAssumption
<1>2. IsFiniteSet(1 .. FileLength[u]) /\ Cardinality(1 .. FileLength[u]) = FileLength[u]
  <2>1. 1 \in Int /\ FileLength[u] \in Int
    BY <1>1
  <2>2. /\ IsFiniteSet(1 .. FileLength[u])
        /\ Cardinality(1 .. FileLength[u])
             = IF 1 > FileLength[u] THEN 0 ELSE FileLength[u] - 1 + 1
    BY <2>1, FS_Interval, Zenon
  <2>. QED
    BY <1>1, <2>2
<1>3. IsFiniteSet({u}) /\ Cardinality({u}) = 1
  BY FS_Singleton
<1>4. /\ IsFiniteSet({u} \X (1 .. FileLength[u]))
      /\ Cardinality({u} \X (1 .. FileLength[u]))
           = Cardinality({u}) * Cardinality(1 .. FileLength[u])
  BY <1>2, <1>3, FS_Product, Zenon
<1>. QED
  BY <1>1, <1>2, <1>3, <1>4

Bytes(H) == UNION {{u} \X (1 .. FileLength[u]) : u \in H}

\* With one upload more the bytes are its size more.
LEMMA OneMore ==
  ASSUME NEW H \in SUBSET Uploads, NEW u \in Uploads \ H, IsFiniteSet(Bytes(H))
  PROVE  /\ IsFiniteSet(Bytes(H \cup {u}))
         /\ Cardinality(Bytes(H \cup {u})) = Cardinality(Bytes(H)) + FileLength[u]
<1> DEFINE own == {u} \X (1 .. FileLength[u])
<1>1. Bytes(H \cup {u}) = Bytes(H) \cup own
  BY DEF Bytes
<1>2. Bytes(H) \cap own = {}
  BY DEF Bytes
<1>3. IsFiniteSet(own) /\ Cardinality(own) = FileLength[u]
  BY BytesOf
<1>4. Cardinality(Bytes(H)) \in Nat /\ FileLength[u] \in Nat
  BY UploadAssumption, FS_CardinalityType
<1> HIDE DEF own
<1>5. /\ IsFiniteSet(Bytes(H) \cup own)
      /\ Cardinality(Bytes(H) \cup own)
           = Cardinality(Bytes(H)) + Cardinality(own) - Cardinality(Bytes(H) \cap own)
  BY <1>3, FS_Union, Zenon
<1>6. Cardinality(Bytes(H) \cap own) = 0
  BY <1>2, FS_EmptySet, Zenon
<1>7. Cardinality(Bytes(H) \cup own) = Cardinality(Bytes(H)) + FileLength[u]
  BY <1>3, <1>4, <1>5, <1>6
<1>. QED
  BY <1>1, <1>5, <1>7, Zenon

\* With one less they are its size less.
LEMMA OneLess ==
  ASSUME NEW H \in SUBSET Uploads, NEW u \in H, IsFiniteSet(Bytes(H))
  PROVE  /\ IsFiniteSet(Bytes(H \ {u}))
         /\ Cardinality(Bytes(H \ {u})) = Cardinality(Bytes(H)) - FileLength[u]
<1>1. Bytes(H \ {u}) \subseteq Bytes(H)
  BY DEF Bytes
<1>2. IsFiniteSet(Bytes(H \ {u})) /\ Cardinality(Bytes(H \ {u})) \in Nat
  BY <1>1, FS_Subset, FS_CardinalityType
<1>3. Cardinality(Bytes((H \ {u}) \cup {u})) = Cardinality(Bytes(H \ {u})) + FileLength[u]
  BY <1>2, OneMore
<1>4. (H \ {u}) \cup {u} = H
  OBVIOUS
<1>. QED
  BY <1>2, <1>3, <1>4, UploadAssumption

\* Sizes and reservations agree, through every step.
LEMMA AccountingStep ==
  ASSUME UploadsIInv, NextUploads, DistinctIds'
  PROVE  AccountsAgree'
<1>. UploadsTypeOK /\ AccountsAgree
  BY StillDistinct DEF UploadsIInv
<1>0. Reserved = Bytes(held) /\ Reserved' = Bytes(held')
  BY DEF Reserved, Bytes
<1>1. CASE UNCHANGED budgetVars
  BY <1>1 DEF AccountsAgree, Reserved, budgetVars
<1>2. ASSUME NEW u \in Uploads, u \in held, held' = held \ {u},
             currentBufferSize' = currentBufferSize - FileLength[u]
      PROVE  AccountsAgree'
  <2>1. /\ IsFiniteSet(Bytes(held \ {u}))
        /\ Cardinality(Bytes(held \ {u})) = Cardinality(Bytes(held)) - FileLength[u]
    BY <1>0, <1>2, OneLess DEF UploadsTypeOK, AccountsAgree
  <2>. QED
    BY <1>0, <1>2, <2>1, UploadAssumption DEF UploadsTypeOK, AccountsAgree
<1>3. ASSUME NEW u \in Uploads, u \notin held, Reserves(u),
             currentBufferSize + FileLength[u] <= MAX_BUFFER_SIZE
      PROVE  AccountsAgree'
  <2>1. /\ IsFiniteSet(Bytes(held \cup {u}))
        /\ Cardinality(Bytes(held \cup {u})) = Cardinality(Bytes(held)) + FileLength[u]
    BY <1>0, <1>3, OneMore DEF UploadsTypeOK, AccountsAgree
  <2>. QED
    BY <1>0, <1>3, <2>1, UploadAssumption DEF UploadsTypeOK, AccountsAgree, Reserves
<1>4. ASSUME NEW s \in Owners, UploadAbort(s) PROVE AccountsAgree'
  BY <1>2, <1>4, CancelledIsReleased
<1>5. ASSUME NEW u \in Uploads, HandlerRelease(u) PROVE AccountsAgree'
  BY <1>2, <1>5, HandledIsReleased
<1>. QED
  BY <1>1, <1>3, <1>4, <1>5, BudgetMoves

\* No word and no command is of an upload without an id.
LEMMA WordsHaveIds ==
  ASSUME UploadsTypeOK, NEW u \in Uploads, Told(u) \/ Cancelled(u)
  PROVE  idOf[u] \in Ids
<1>1. ASSUME NEW s \in Owners, Begin(0) \in Words(s) PROVE FALSE
  <2>1. Begin(0) \in Word
    BY <1>1 DEF Words, UploadsTypeOK
  <2>. QED
    BY <2>1, WordTypes, WordsDiffer, IdsAreNumbers
<1>2. ASSUME NEW s \in Owners, AbortCmd(0) \in wire[s] PROVE FALSE
  <2>1. AbortCmd(0) \in Command
    BY <1>2 DEF UploadsTypeOK
  <2>. QED
    BY <2>1, WordsDiffer, IdsAreNumbers DEF Command
<1>. QED
  BY <1>1, <1>2, UploadAssumption DEF Told, Cancelled, UploadsTypeOK

\* Only the manager changes its fields.
LEMMA ManagerAlone ==
  ASSUME NextUploads
  PROVE  Manager \/ UNCHANGED <<mpc, mid, mupload>>
<1>1. ASSUME NEW s \in Owners, Stop(s) \/ Login(s) \/ Receive(s) \/ SessionThread(s)
      PROVE  UNCHANGED <<mpc, mid, mupload>>
  BY <1>1 DEF Stop, Login, Receive, ReceiveFileId, ReceiveBegin, SessionThread, UploadReads,
     UploadAdds, UploadReplies, UploadAbort, LogoutOwner, managerVars
<1>2. ASSUME NEW u \in Uploads, Ask(u) \/ Handler(u) PROVE UNCHANGED <<mpc, mid, mupload>>
  BY <1>2 DEF Ask, Handler, HandlerStart, HandlerNoHeader, HandlerSave, HandlerRemove,
     HandlerFail, HandlerRelease, managerVars
<1>. QED
  BY <1>1, <1>2 DEF NextUploads

\* Once it has its id an upload can only leave the queue.
LEMMA QueueMoves ==
  ASSUME UploadsIInv, NextUploads, ~ \E s \in Owners : UploadAdds(s)
  PROVE  /\ UNCHANGED idOf
         /\ \A id \in Ids : queueOperation'[id] \in {queueOperation[id], NoUpload}
         /\ UNCHANGED queueOperation \/ Move \/ Discard
<1>. UploadsTypeOK
  BY DEF UploadsIInv
<1>. QED
  BY IdsKept DEF Move, Discard, idVars, UploadsTypeOK

\* The word a client has read is gone.
LEMMA GrantGone ==
  ASSUME UploadsIInv, NextUploads, DistinctIds', NEW s \in Owners, ReceiveBegin(s)
  PROVE  Head(stream[s]) \notin Words(s)'
<1>. UploadsTypeOK /\ OnePlace
  BY StillDistinct DEF UploadsIInv
<1>1. /\ Head(stream[s]) = Begin(Head(stream[s]).id) /\ Head(stream[s]) = stream[s][1]
      /\ stream[s] # <<>> /\ stream' = [stream EXCEPT ![s] = Tail(@)]
  BY GrantRead
<1>2. /\ 1 \in DOMAIN stream[s]
      /\ \A i \in DOMAIN stream'[s] :
              /\ i \in Nat \ {0} /\ i + 1 \in DOMAIN stream[s]
              /\ stream'[s][i] = stream[s][i + 1]
  BY <1>1, Dropped
<1>3. stream[s][1].word = "beginupload"
  BY <1>1, WordsDiffer
<1>4. ASSUME NEW i \in DOMAIN stream'[s], stream'[s][i] = Head(stream[s]) PROVE FALSE
  <2>1. i + 1 \in DOMAIN stream[s] /\ stream[s][i + 1] = stream[s][1]
    BY <1>1, <1>2, <1>4
  <2>2. i + 1 = 1
    BY <1>2, <1>3, <2>1 DEF OnePlace
  <2>. QED
    BY <1>2, <2>2
<1>. QED
  BY <1>4 DEF Words

\* The places an upload can come from.
LEMMA PlaceMoves ==
  ASSUME UploadsIInv, NextUploads, DistinctIds', NEW u \in Uploads,
         ~ \E s \in Owners : UploadAdds(s)
  PROVE  /\ idOf'[u] = idOf[u]
         /\ Queued(u)' => Queued(u)
         /\ mupload' = u => mupload = u \/ Queued(u)
         /\ Told(u)' => \/ Told(u)
                        \/ mpc = "write" /\ mupload = u /\ mupload' = NoUpload
         /\ Cancelled(u)' => \/ Cancelled(u)
                             \/ Told(u) /\ ~Told(u)' /\ UNCHANGED <<hpc, mupload, mpc>>
         /\ Handled(u)' => \/ Handled(u)
                           \/ Told(u) /\ ~Told(u)' /\ UNCHANGED <<wire, mupload, mpc>>
<1>. UploadsTypeOK /\ AtWork /\ Placed /\ DistinctIds
  BY StillDistinct DEF UploadsIInv
<1>0. OwnerOf[u] \in Owners
  BY UploadAssumption
<1>1. idOf'[u] = idOf[u]
  BY QueueMoves
<1>2. Queued(u)' => Queued(u)
  BY QueueMoves, UploadAssumption DEF Queued
<1>3. mupload' = u => mupload = u \/ Queued(u)
  BY ManagerMoves
<1>4. ASSUME Told(u)', ~Told(u)
      PROVE  mpc = "write" /\ mupload = u /\ mupload' = NoUpload
  <2>1. Begin(idOf[u]) \in Words(OwnerOf[u])' /\ Begin(idOf[u]) \notin Words(OwnerOf[u])
    BY <1>1, <1>4 DEF Told
  <2>2. /\ mpc = "write" /\ mupload \in Uploads /\ mid = idOf[u] /\ mupload' = NoUpload
    BY <1>0, <2>1, GrantMoves
  <2>3. idOf[mupload] = idOf[u] /\ idOf[u] # 0
    BY <2>2, IdsAreNumbers DEF Placed, AtWork
  <2>. QED
    BY <2>2, <2>3 DEF DistinctIds
<1>5. ASSUME NEW s \in Owners, s = OwnerOf[u], ReceiveBegin(s), Head(stream[s]) = Begin(idOf[u])
      PROVE  Told(u) /\ ~Told(u)'
  <2>1. Head(stream[s]) \notin Words(s)'
    BY <1>5, GrantGone
  <2>2. Head(stream[s]) \in Words(s)
    BY <1>5, GrantRead
  <2>. QED
    BY <1>1, <1>5, <2>1, <2>2 DEF Told
<1>6. Cancelled(u)' => Cancelled(u) \/ (Told(u) /\ ~Told(u)' /\ UNCHANGED <<hpc, mupload, mpc>>)
  BY <1>0, <1>1, <1>5, CancelMoves DEF Cancelled
<1>7. Handled(u)' => Handled(u) \/ (Told(u) /\ ~Told(u)' /\ UNCHANGED <<wire, mupload, mpc>>)
  BY <1>0, <1>5, HandlerMoves
<1>. QED
  BY <1>1, <1>2, <1>3, <1>4, <1>6, <1>7

\* Grants and cancellations are of uploads that have an owner.
LEMMA GrantedStep ==
  ASSUME UploadsIInv, NextUploads, DistinctIds'
  PROVE  Granted'
<1>. UploadsTypeOK /\ AtWork /\ Placed /\ Granted
  BY StillDistinct DEF UploadsIInv
<1>1. ASSUME NEW s \in Owners, NEW id \in Ids, Begin(id) \in Words(s)' \/ AbortCmd(id) \in wire'[s]
      PROVE  \E u \in Uploads : OwnerOf[u] = s /\ idOf'[u] = id
  <2>1. PICK u \in Uploads : OwnerOf[u] = s /\ idOf[u] = id
    <3>1. CASE Begin(id) \in Words(s) \/ AbortCmd(id) \in wire[s]
      BY <3>1 DEF Granted
    <3>2. CASE ReceiveBegin(s) /\ Head(stream[s]) = Begin(id)
      <4>1. Begin(id) \in Words(s)
        BY <3>2, GrantRead
      <4>. QED
        BY <4>1 DEF Granted
    <3>3. CASE mpc = "write" /\ mupload \in Uploads /\ OwnerOf[mupload] = s /\ mid = id
      BY <3>3 DEF Placed
    <3>. QED
      BY <1>1, <3>1, <3>2, <3>3, GrantMoves, CancelMoves
  <2>2. idOf[u] # 0
    BY <2>1, IdsAreNumbers
  <2>3. idOf'[u] = idOf[u]
    BY <2>2, Adds, QueueMoves
  <2>. QED
    BY <2>1, <2>3
<1>. QED
  BY <1>1 DEF Granted

\* The manager notes an upload as running, the others only take one out.
LEMMA RunningMoves ==
  ASSUME UploadsIInv, NextUploads, NEW id \in Ids
  PROVE  \/ runningOperation'[id] = runningOperation[id]
         \/ runningOperation'[id] = NoUpload
         \/ Move /\ id = mid /\ runningOperation'[id] = mupload
<1> USE DEF clientVars, threadVars, idVars, mapVars, managerVars, handlerVars, budgetVars
<1>. UploadsTypeOK
  BY DEF UploadsIInv
<1>1. ASSUME NEW s \in Owners, UploadAbort(s)
      PROVE  runningOperation'[id] \in {runningOperation[id], NoUpload}
  <2>1. \/ UNCHANGED runningOperation
        \/ \E a \in Ids : runningOperation' = [runningOperation EXCEPT ![a] = NoUpload]
    BY <1>1 DEF UploadAbort
  <2>. QED
    BY <2>1 DEF UploadsTypeOK
<1>2. ASSUME NEW s \in Owners, Stop(s) \/ Login(s) \/ Receive(s) \/ SessionThread(s),
             ~UploadAbort(s)
      PROVE  UNCHANGED runningOperation
  BY <1>2 DEF Stop, Login, Receive, ReceiveFileId, ReceiveBegin, SessionThread, UploadReads,
     UploadAdds, UploadReplies, LogoutOwner
<1>3. ASSUME NEW u \in Uploads, HandlerRemove(u)
      PROVE  runningOperation'[id] \in {runningOperation[id], NoUpload}
  BY <1>3 DEF HandlerRemove, UploadsTypeOK
<1>4. ASSUME NEW u \in Uploads, Ask(u) \/ Handler(u), ~HandlerRemove(u)
      PROVE  UNCHANGED runningOperation
  BY <1>4 DEF Ask, Handler, HandlerStart, HandlerNoHeader, HandlerSave, HandlerFail,
     HandlerRelease
<1>5. ASSUME Move \/ Abort
      PROVE  \/ runningOperation'[id] \in {runningOperation[id], NoUpload}
             \/ Move /\ id = mid /\ runningOperation'[id] = mupload
  BY <1>5 DEF Move, Abort, UploadsTypeOK
<1>6. ASSUME Manager, ~Move, ~Abort PROVE UNCHANGED runningOperation
  BY <1>6 DEF Manager, Scan, SendCheck, SendGet, SendWrite, TellCheck, TellGet, Tell, Discard
<1>. QED
  BY <1>1, <1>2, <1>3, <1>4, <1>5, <1>6 DEF NextUploads

\* The manager keeps its upload until it rests, and takes the next from the queue.
LEMMA MuploadMoves ==
  ASSUME UploadsIInv, NextUploads, mpc' # "scan"
  PROVE  \/ mpc # "scan" /\ UNCHANGED <<mid, mupload>>
         \/ Scan /\ \E id \in Ids : /\ queueOperation[id] # NoUpload
                                    /\ mid' = id /\ mupload' = queueOperation[id]
<1>1. CASE Scan
  BY <1>1 DEF Scan
<1>2. ASSUME Manager, ~Scan PROVE mpc # "scan" /\ UNCHANGED <<mid, mupload>>
  BY <1>2 DEF Manager, Move, SendCheck, SendGet, SendWrite, Abort, TellCheck, TellGet, Tell,
     Discard, Rests
<1>. QED
  BY <1>1, <1>2, ManagerAlone

\* What is under an id is the upload that was given it.
LEMMA PlacedStep ==
  ASSUME UploadsIInv, NextUploads, DistinctIds'
  PROVE  Placed'
<1>. UploadsTypeOK /\ AtWork /\ Placed
  BY StillDistinct DEF UploadsIInv
<1>1. \A u \in Uploads : idOf[u] # 0 => idOf'[u] = idOf[u]
  BY Adds, QueueMoves
<1>2. ASSUME NEW id \in Ids, queueOperation'[id] # NoUpload
      PROVE  idOf'[queueOperation'[id]] = id
  <2>1. CASE \E s \in Owners : UploadAdds(s)
    <3>1. PICK s \in Owners : UploadAdds(s)
      BY <2>1
    <3>2. CASE id = read[s]
      BY <3>1, <3>2, Adds
    <3>3. CASE id # read[s]
      <4>1. queueOperation'[id] = queueOperation[id] /\ queueOperation[id] \in Uploads
        BY <1>2, <3>1, <3>3, Adds DEF UploadsTypeOK
      <4>. QED
        BY <1>1, <1>2, <4>1, IdsAreNumbers DEF Placed
    <3>. QED
      BY <3>2, <3>3
  <2>2. CASE ~ \E s \in Owners : UploadAdds(s)
    BY <1>2, <2>2, QueueMoves DEF Placed
  <2>. QED
    BY <2>1, <2>2
<1>3. ASSUME NEW id \in Ids, runningOperation'[id] # NoUpload
      PROVE  idOf'[runningOperation'[id]] = id
  <2>1. /\ runningOperation'[id] \in Uploads
        /\ idOf[runningOperation'[id]] = id
    BY <1>3, RunningMoves DEF Placed, UploadsTypeOK, Move, AtWork
  <2>. QED
    BY <1>1, <2>1, IdsAreNumbers
<1>4. ASSUME mpc' # "scan" PROVE idOf'[mupload'] = mid'
  <2>1. mupload' \in Uploads /\ idOf[mupload'] = mid' /\ mid' \in Ids
    BY <1>4, MuploadMoves DEF Placed, UploadsTypeOK, AtWork
  <2>. QED
    BY <1>1, <2>1, IdsAreNumbers
<1>5. ASSUME NEW u \in held' PROVE idOf'[u] # 0
  <2>1. u \in Uploads /\ idOf[u] # 0
    <3>1. CASE u \in held
      BY <3>1 DEF Placed, UploadsTypeOK
    <3>2. CASE u \notin held
      <4>1. \E id \in Ids : u = queueOperation[id] /\ u \in Uploads
        BY <1>5, <3>2, BudgetMoves, CancelledIsReleased, HandledIsReleased DEF budgetVars, Reserves
      <4>. QED
        BY <4>1, IdsAreNumbers, UploadAssumption DEF Placed
    <3>. QED
      BY <3>1, <3>2
  <2>. QED
    BY <1>1, <2>1
<1>. QED
  BY <1>2, <1>3, <1>4, <1>5 DEF Placed

Waits == {"move", "tell_check", "tell_get", "tell", "discard"}
Runs  == {"check", "get", "write", "abort"}

\* The manager goes from the queue to the running operations in moveFileBuffer.
LEMMA StepMoves ==
  ASSUME UploadsIInv, NextUploads
  PROVE  /\ mpc' \in Waits =>
              \/ mpc \in Waits /\ UNCHANGED <<mid, mupload>> /\ ~Move /\ ~Discard
              \/ Scan /\ queueOperation'[mid'] = mupload'
         /\ mpc' \in Runs =>
              (mpc \in Runs \/ Move) /\ UNCHANGED <<mid, mupload>>
<1> USE DEF Waits, Runs, mapVars
<1>1. CASE Scan
  BY <1>1 DEF Scan
<1>2. ASSUME Manager, ~Scan
      PROVE  /\ mpc' \in Waits => mpc \in Waits /\ UNCHANGED <<mid, mupload>> /\ ~Move /\ ~Discard
             /\ mpc' \in Runs =>
                  (mpc \in Runs \/ Move) /\ UNCHANGED <<mid, mupload>>
  BY <1>2 DEF Manager, Move, SendCheck, SendGet, SendWrite, Abort, TellCheck, TellGet, Tell,
     Discard, Rests
<1>3. UNCHANGED <<mpc, mid, mupload>> => ~Move /\ ~Discard
  BY DEF Move, Discard, Rests
<1>. QED
  BY <1>1, <1>2, <1>3, ManagerAlone

\* An upload leaves one place for the next.
LEMMA PlacesStep ==
  ASSUME UploadsIInv, NextUploads, DistinctIds', NEW u \in Uploads
  PROVE  /\ Queued(u)' \/ mupload' = u => ~Told(u)' /\ ~Cancelled(u)' /\ ~Handled(u)'
         /\ Told(u)' => ~Cancelled(u)' /\ ~Handled(u)'
         /\ Cancelled(u)' => ~Handled(u)'
<1>. UploadsTypeOK /\ OnePlace
  BY StillDistinct DEF UploadsIInv
<1>1. /\ Queued(u) \/ mupload = u => ~Told(u) /\ ~Cancelled(u) /\ ~Handled(u)
      /\ Told(u) => ~Cancelled(u) /\ ~Handled(u)
      /\ Cancelled(u) => ~Handled(u)
      /\ mpc = "write" /\ mupload = u => ~Queued(u)
  BY DEF OnePlace
<1>2. CASE ~ \E s \in Owners : UploadAdds(s)
  <2>1. UNCHANGED hpc => (Handled(u)' <=> Handled(u))
    BY DEF Handled
  <2>2. u # NoUpload
    BY UploadAssumption
  <2>. QED
    BY <1>1, <1>2, <2>1, <2>2, PlaceMoves
<1>3. ASSUME NEW s \in Owners, UploadAdds(s), u = current[s]
      PROVE  ~Told(u)' /\ ~Cancelled(u)' /\ ~Handled(u)'
  <2>1. idOf'[u] = read[s] /\ UNCHANGED <<stream, wire, hpc>>
    BY <1>3, Adds DEF clientVars, handlerVars
  <2>2. /\ Begin(read[s]) \notin Words(OwnerOf[u]) /\ AbortCmd(read[s]) \notin wire[OwnerOf[u]]
        /\ hpc[u] = "none"
    BY <1>3, NewcomerIsFresh, UploadAssumption
  <2>. QED
    BY <2>1, <2>2 DEF Told, Cancelled, Handled, Words
<1>4. ASSUME NEW s \in Owners, UploadAdds(s), u # current[s]
      PROVE  /\ Queued(u)' => Queued(u)
             /\ mupload' = mupload
             /\ Told(u)' <=> Told(u)
             /\ Cancelled(u)' <=> Cancelled(u)
             /\ Handled(u)' <=> Handled(u)
  <2>1. idOf'[u] = idOf[u] /\ UNCHANGED <<stream, wire, hpc, mupload>>
    BY <1>4, Adds DEF clientVars, handlerVars, managerVars
  <2>2. Queued(u)' => Queued(u)
    BY <1>4, Adds DEF Queued
  <2>. QED
    BY <2>1, <2>2 DEF Told, Cancelled, Handled, Words
<1>. QED
  BY <1>1, <1>2, <1>3, <1>4

\* What the manager has is in the queue until it is among the running operations.
LEMMA QueueStep ==
  ASSUME UploadsIInv, NextUploads, DistinctIds'
  PROVE  /\ mpc' \in Waits => queueOperation'[mid'] = mupload'
         /\ mpc' \in Runs => ~Queued(mupload)'
<1>. UploadsTypeOK /\ AtWork /\ Placed /\ OnePlace
  BY StillDistinct DEF UploadsIInv
<1>1. ASSUME mpc' \in Waits PROVE queueOperation'[mid'] = mupload'
  <2>1. CASE Scan /\ queueOperation'[mid'] = mupload'
    BY <2>1
  <2>2. CASE mpc \in Waits /\ UNCHANGED <<mid, mupload>> /\ ~Move /\ ~Discard
    <3>1. queueOperation[mid] = mupload /\ mid \in Ids /\ mpc # "scan"
      BY <2>2 DEF OnePlace, AtWork, Waits
    <3>2. queueOperation'[mid] = queueOperation[mid]
      BY <2>2, <3>1, Adds, NewcomerIsFresh, QueueMoves
    <3>. QED
      BY <2>2, <3>1, <3>2
  <2>. QED
    BY <1>1, <2>1, <2>2, StepMoves
<1>2. ASSUME mpc' \in Runs, NEW id \in Ids, queueOperation'[id] = mupload' PROVE FALSE
  <2>1. CASE Move /\ UNCHANGED <<mid, mupload>>
    <3>1. /\ mpc = "move" /\ mupload \in Uploads /\ mid \in Ids /\ queueOperation[mid] = mupload
          /\ idOf[mupload] = mid
      BY <2>1 DEF Move, AtWork, OnePlace, Placed
    <3>2. queueOperation' = [queueOperation EXCEPT ![mid] = NoUpload]
      BY <2>1, <3>1 DEF Move
    <3>3. queueOperation[id] = mupload /\ id # mid
      BY <1>2, <2>1, <3>1, <3>2, UploadAssumption DEF UploadsTypeOK
    <3>. QED
      BY <3>1, <3>3, UploadAssumption DEF Placed
  <2>2. CASE mpc \in Runs /\ UNCHANGED <<mid, mupload>>
    <3>1. mupload \in Uploads /\ ~Queued(mupload)
      BY <2>2 DEF AtWork, OnePlace, Runs
    <3>2. queueOperation[id] = mupload
      BY <1>2, <2>2, <3>1, Adds, NewcomerIsFresh, QueueMoves, UploadAssumption
    <3>. QED
      BY <3>1, <3>2 DEF Queued
  <2>. QED
    BY <1>2, <2>1, <2>2, StepMoves
<1>. QED
  BY <1>1, <1>2 DEF Queued

\* How a stream changes.
LEMMA StreamMoves ==
  ASSUME UploadsIInv, NextUploads
  PROVE  \/ UNCHANGED stream
         \/ \E s \in Owners : Stop(s) /\ stream' = [stream EXCEPT ![s] = <<>>]
         \/ \E s \in Owners : /\ ReceiveFileId(s) \/ ReceiveBegin(s)
                              /\ stream[s] # <<>> /\ stream' = [stream EXCEPT ![s] = Tail(@)]
         \/ \E s \in Owners :
              /\ UploadReplies(s) /\ session[s] = "reply" /\ current[s] \in Uploads
              /\ OwnerOf[current[s]] = s /\ idOf[current[s]] \in Ids
              /\ stream' = [stream EXCEPT ![s] = Append(@, FileId(current[s], idOf[current[s]]))]
         \/ /\ SendWrite /\ mpc = "write" /\ mupload \in Uploads /\ mid \in Ids
            /\ StreamFree(OwnerOf[mupload]) /\ client[OwnerOf[mupload]] = "on"
            /\ stream' = [stream EXCEPT ![OwnerOf[mupload]] = Append(@, Begin(mid))]
<1> USE DEF clientVars, threadVars, idVars, mapVars, managerVars, handlerVars, budgetVars
<1>. UploadsTypeOK /\ Asked /\ AtWork
  BY DEF UploadsIInv
<1>1. CASE SendWrite
  BY <1>1 DEF SendWrite, Writes, AtWork
<1>2. ASSUME NEW s \in Owners, UploadReplies(s), ~UNCHANGED stream
      PROVE  /\ session[s] = "reply" /\ current[s] \in Uploads
             /\ OwnerOf[current[s]] = s /\ idOf[current[s]] \in Ids
             /\ stream' = [stream EXCEPT ![s] = Append(@, FileId(current[s], idOf[current[s]]))]
  BY <1>2 DEF UploadReplies, Writes, Asked, UploadsTypeOK
<1>3. ASSUME NEW s \in Owners, Stop(s) PROVE stream' = [stream EXCEPT ![s] = <<>>]
  BY <1>3 DEF Stop
<1>4. ASSUME NEW s \in Owners, Receive(s)
      PROVE  /\ ReceiveFileId(s) \/ ReceiveBegin(s)
             /\ stream[s] # <<>> /\ stream' = [stream EXCEPT ![s] = Tail(@)]
  BY <1>4 DEF Receive, ReceiveFileId, ReceiveBegin
<1>5. ASSUME NEW s \in Owners, Login(s) \/ SessionThread(s), ~UploadReplies(s)
      PROVE  UNCHANGED stream
  BY <1>5 DEF Login, SessionThread, UploadReads, UploadAdds, UploadAbort, LogoutOwner
<1>6. ASSUME NEW u \in Uploads, Ask(u) \/ Handler(u) PROVE UNCHANGED stream
  BY <1>6 DEF Ask, Handler, HandlerStart, HandlerNoHeader, HandlerSave, HandlerRemove,
     HandlerFail, HandlerRelease
<1>7. Manager => SendWrite \/ UNCHANGED stream
  BY DEF Manager, Scan, Move, SendCheck, SendGet, Abort, TellCheck, TellGet, Tell, Discard
<1>. QED
  BY <1>1, <1>2, <1>3, <1>4, <1>5, <1>6, <1>7 DEF NextUploads

\* A grant stands once in a stream.
LEMMA OnceStep ==
  ASSUME UploadsIInv, NextUploads, DistinctIds', NEW s \in Owners,
         NEW i \in DOMAIN stream'[s], NEW j \in DOMAIN stream'[s],
         stream'[s][i].word = "beginupload", stream'[s][j] = stream'[s][i]
  PROVE  i = j
<1>. UploadsTypeOK /\ AtWork /\ Placed /\ OnePlace
  BY StillDistinct DEF UploadsIInv
<1>0. \A a, b \in DOMAIN stream[s] :
        stream[s][a].word = "beginupload" /\ stream[s][b] = stream[s][a] => a = b
  BY DEF OnePlace
<1>1. CASE UNCHANGED stream[s]
  BY <1>0, <1>1
<1>2. CASE stream'[s] = <<>>
  BY <1>2
<1>3. CASE stream[s] # <<>> /\ stream' = [stream EXCEPT ![s] = Tail(@)]
  <2>1. /\ i \in Nat /\ j \in Nat
        /\ i + 1 \in DOMAIN stream[s] /\ stream'[s][i] = stream[s][i + 1]
        /\ j + 1 \in DOMAIN stream[s] /\ stream'[s][j] = stream[s][j + 1]
    BY <1>3, Dropped
  <2>2. i + 1 = j + 1
    BY <1>0, <2>1
  <2>. QED
    BY <2>1, <2>2
<1>4. ASSUME NEW w \in Word, w \notin Words(s) \/ w.word # "beginupload",
             stream' = [stream EXCEPT ![s] = Append(@, w)]
      PROVE  i = j
  <2>1. /\ DOMAIN stream'[s] = DOMAIN stream[s] \cup {Len(stream[s]) + 1}
        /\ stream'[s][Len(stream[s]) + 1] = w
        /\ \A k \in DOMAIN stream[s] : stream'[s][k] = stream[s][k]
    BY <1>4, Appended
  <2>2. \A k \in DOMAIN stream[s] : stream[s][k] \in Words(s)
    BY DEF Words
  <2>3. CASE i \in DOMAIN stream[s] /\ j \in DOMAIN stream[s]
    BY <1>0, <2>1, <2>3
  <2>4. CASE i \notin DOMAIN stream[s] \/ j \notin DOMAIN stream[s]
    <3>1. stream'[s][i] = w /\ w.word = "beginupload" /\ w \notin Words(s)
      BY <1>4, <2>1, <2>4
    <3>2. i \notin DOMAIN stream[s] /\ j \notin DOMAIN stream[s]
      BY <2>1, <2>2, <3>1
    <3>. QED
      BY <2>1, <3>2
  <2>. QED
    BY <2>3, <2>4
<1>5. ASSUME NEW t \in Owners, t # s,
             \E x : stream' = [stream EXCEPT ![t] = x]
      PROVE  UNCHANGED stream[s]
  BY <1>5 DEF UploadsTypeOK
<1>6. ASSUME NEW t \in Owners, Stop(t), stream' = [stream EXCEPT ![t] = <<>>]
      PROVE  i = j
  <2>1. CASE t = s
    BY <1>2, <1>6, <2>1 DEF UploadsTypeOK
  <2>2. CASE t # s
    BY <1>1, <1>5, <1>6, <2>2
  <2>. QED
    BY <2>1, <2>2
<1>7. ASSUME NEW t \in Owners, stream[t] # <<>>, stream' = [stream EXCEPT ![t] = Tail(@)]
      PROVE  i = j
  BY <1>1, <1>3, <1>5, <1>7
<1>8. ASSUME NEW t \in Owners, current[t] \in Uploads, idOf[current[t]] \in Ids,
             stream' = [stream EXCEPT ![t] = Append(@, FileId(current[t], idOf[current[t]]))]
      PROVE  i = j
  <2>1. /\ FileId(current[t], idOf[current[t]]) \in Word
        /\ FileId(current[t], idOf[current[t]]).word # "beginupload"
    BY <1>8, WordTypes, WordsDiffer
  <2>. QED
    BY <1>1, <1>4, <1>5, <1>8, <2>1
<1>9. ASSUME mpc = "write", mupload \in Uploads, mid \in Ids, NEW t \in Owners,
             t = OwnerOf[mupload], stream' = [stream EXCEPT ![t] = Append(@, Begin(mid))]
      PROVE  i = j
  <2>1. Begin(mid) \in Word /\ Begin(mid) \notin Words(t)
    BY <1>9, WordTypes DEF OnePlace, Told, Placed
  <2>. QED
    BY <1>1, <1>4, <1>5, <1>9, <2>1
<1>. QED
  BY <1>1, <1>6, <1>7, <1>8, <1>9, StreamMoves, UploadAssumption

\* An upload stays in one place.
LEMMA OnePlaceStep ==
  ASSUME UploadsIInv, NextUploads, DistinctIds'
  PROVE  OnePlace'
BY PlacesStep, QueueStep, OnceStep DEF OnePlace, Waits, Runs

\* The session drops the running operation its client has cancelled.
Drops(u) ==
  /\ UploadAbort(OwnerOf[u]) /\ Cancelled(u)
  /\ AbortCmd(idOf[u]) \notin wire'[OwnerOf[u]]

\* What is running is dropped, removed by its handler, or never granted.
LEMMA RunningStays ==
  ASSUME UploadsIInv, NextUploads, DistinctIds', NEW u \in Uploads, idOf[u] # 0,
         runningOperation[idOf[u]] = u
  PROVE  /\ idOf'[u] = idOf[u]
         /\ \/ runningOperation'[idOf[u]] = u
            \/ Drops(u)
            \/ HandlerRemove(u)
            \/ Abort /\ mupload = u
<1> USE DEF clientVars, threadVars, idVars, mapVars, managerVars, handlerVars, budgetVars
<1>. UploadsTypeOK /\ AtWork /\ Placed /\ DistinctIds
  BY StillDistinct DEF UploadsIInv
<1>0. idOf[u] \in Ids /\ u # NoUpload
  BY UploadAssumption DEF UploadsTypeOK
<1>1. idOf'[u] = idOf[u]
  BY Adds, QueueMoves
<1>2. ASSUME NEW s \in Owners, UploadAbort(s) PROVE runningOperation'[idOf[u]] = u \/ Drops(u)
  <2>1. PICK v \in Uploads :
          /\ OwnerOf[v] = s /\ Cancelled(v) /\ AbortCmd(idOf[v]) \notin wire'[s]
          /\ \A id \in Ids :
               runningOperation'[id] = IF id = idOf[v] THEN NoUpload ELSE runningOperation[id]
    BY <1>2, CancelledIsReleased
  <2>2. CASE idOf[v] = idOf[u]
    <3>1. v = u
      BY <2>2 DEF DistinctIds
    <3>. QED
      BY <1>2, <2>1, <3>1 DEF Drops
  <2>3. CASE idOf[v] # idOf[u]
    BY <1>0, <2>1, <2>3
  <2>. QED
    BY <2>2, <2>3
<1>3. ASSUME NEW s \in Owners, Stop(s) \/ Login(s) \/ Receive(s) \/ SessionThread(s),
             ~UploadAbort(s)
      PROVE  UNCHANGED runningOperation
  BY <1>3 DEF Stop, Login, Receive, ReceiveFileId, ReceiveBegin, SessionThread, UploadReads,
     UploadAdds, UploadReplies, LogoutOwner
<1>4. ASSUME NEW v \in Uploads, HandlerRemove(v)
      PROVE  runningOperation'[idOf[u]] = u \/ HandlerRemove(u)
  <2>1. CASE idOf[v] = idOf[u]
    <3>1. v = u
      BY <2>1 DEF DistinctIds
    <3>. QED
      BY <1>4, <3>1
  <2>2. CASE idOf[v] # idOf[u]
    BY <1>0, <1>4, <2>2 DEF HandlerRemove, UploadsTypeOK
  <2>. QED
    BY <2>1, <2>2
<1>5. ASSUME NEW v \in Uploads, Ask(v) \/ Handler(v), ~HandlerRemove(v)
      PROVE  UNCHANGED runningOperation
  BY <1>5 DEF Ask, Handler, HandlerStart, HandlerNoHeader, HandlerSave, HandlerFail,
     HandlerRelease
<1>6. ASSUME Move \/ Abort
      PROVE  runningOperation'[idOf[u]] = u \/ (Abort /\ mupload = u)
  <2>1. mpc # "scan" /\ mid \in Ids /\ mupload \in Uploads /\ idOf[mupload] = mid
    BY <1>6 DEF Move, Abort, AtWork, Placed
  <2>2. CASE idOf[u] = mid
    <3>1. mupload = u
      BY <2>1, <2>2 DEF DistinctIds
    <3>. QED
      BY <1>6, <2>1, <2>2, <3>1 DEF Move, UploadsTypeOK
  <2>3. CASE idOf[u] # mid
    BY <1>0, <1>6, <2>1, <2>3 DEF Move, Abort, UploadsTypeOK
  <2>. QED
    BY <2>2, <2>3
<1>7. ASSUME Manager, ~Move, ~Abort PROVE UNCHANGED runningOperation
  BY <1>7 DEF Manager, Scan, SendCheck, SendGet, SendWrite, TellCheck, TellGet, Tell, Discard
<1>. QED
  BY <1>1, <1>2, <1>3, <1>4, <1>5, <1>6, <1>7 DEF NextUploads

\* A size that is reserved is released by the session or by the upload's handler.
LEMMA HeldStays ==
  ASSUME UploadsIInv, NextUploads, DistinctIds', NEW u \in held
  PROVE  u \in held' \/ Drops(u) \/ HandlerRelease(u)
<1>. UploadsTypeOK
  BY DEF UploadsIInv
<1>1. ASSUME NEW s \in Owners, UploadAbort(s) PROVE u \in held' \/ Drops(u)
  BY <1>1, CancelledIsReleased DEF Drops
<1>2. ASSUME NEW v \in Uploads, HandlerRelease(v) PROVE u \in held' \/ HandlerRelease(u)
  BY <1>2, HandledIsReleased
<1>. QED
  BY <1>1, <1>2, BudgetMoves DEF budgetVars, Reserves

\* A handler is opened for a client that was told to begin.
LEMMA OpenMoves ==
  ASSUME UploadsIInv, NextUploads, NEW u \in Uploads, hpc'[u] = "open"
  PROVE  hpc[u] = "open" \/ Told(u)
<1> USE DEF clientVars, threadVars, idVars, mapVars, managerVars, handlerVars, budgetVars
<1>. UploadsTypeOK
  BY DEF UploadsIInv
<1>1. ASSUME NEW s \in Owners, ReceiveBegin(s), hpc[u] # "open" PROVE Told(u)
  <2>1. OwnerOf[u] = s /\ idOf[u] = Head(stream[s]).id
    BY <1>1 DEF ReceiveBegin, UploadsTypeOK
  <2>. QED
    BY <1>1, <2>1, GrantRead DEF Told
<1>2. ASSUME NEW v \in Uploads, Handler(v) PROVE hpc[u] = "open"
  BY <1>2 DEF Handler, HandlerStart, HandlerNoHeader, HandlerSave, HandlerRemove, HandlerFail,
     HandlerRelease, UploadsTypeOK
<1>3. ASSUME NEW s \in Owners, Stop(s) \/ Login(s) \/ ReceiveFileId(s) \/ SessionThread(s)
      PROVE  UNCHANGED hpc
  BY <1>3 DEF Stop, Login, ReceiveFileId, SessionThread, UploadReads, UploadAdds, UploadReplies,
     UploadAbort, LogoutOwner
<1>4. ASSUME NEW v \in Uploads, Ask(v) PROVE UNCHANGED hpc
  BY <1>4 DEF Ask
<1>5. Manager => UNCHANGED hpc
  BY DEF Manager, Scan, Move, SendCheck, SendGet, SendWrite, Abort, TellCheck, TellGet, Tell,
     Discard
<1>. QED
  BY <1>1, <1>2, <1>3, <1>4, <1>5 DEF NextUploads, Receive

\* Somebody still knows of the grant.
Known(u) == Told(u) \/ Cancelled(u) \/ hpc[u] = "open"

\* What a client knows of is running, through every step.
LEMMA GrantIsBackedStep ==
  ASSUME UploadsIInv, NextUploads
  PROVE  GrantIsBacked'
<1>. SUFFICES ASSUME DistinctIds', NEW u \in Uploads, Known(u)'
              PROVE  runningOperation'[idOf'[u]] = u /\ u \in held'
  BY DEF GrantIsBacked, Known, Told, Cancelled
<1>. UploadsTypeOK /\ AtWork /\ Placed /\ OnePlace /\ Backed /\ GrantIsBacked /\ DistinctIds
  BY StillDistinct DEF UploadsIInv
<1>1. \A s \in Owners : UploadAdds(s) => u # current[s]
  <2>. SUFFICES ASSUME NEW s \in Owners, UploadAdds(s), u = current[s] PROVE FALSE
    OBVIOUS
  <2>1. idOf'[u] = read[s] /\ UNCHANGED <<stream, wire, hpc>>
    BY Adds DEF clientVars, handlerVars
  <2>2. /\ Begin(read[s]) \notin Words(OwnerOf[u]) /\ AbortCmd(read[s]) \notin wire[OwnerOf[u]]
        /\ hpc[u] = "none"
    BY NewcomerIsFresh, UploadAssumption
  <2>. QED
    BY <2>1, <2>2 DEF Known, Told, Cancelled, Words
<1>2. CASE Known(u)
  <2>1. runningOperation[idOf[u]] = u /\ u \in held
    BY <1>2 DEF GrantIsBacked, Known, Told, Cancelled
  <2>2. idOf[u] # 0
    BY <1>2, WordsHaveIds, IdsAreNumbers DEF Known, AtWork
  <2>3. mupload # u
    BY <1>2 DEF OnePlace, Known, Handled
  <2>4. ~HandlerRemove(u) /\ ~HandlerRelease(u)
    BY <1>2 DEF OnePlace, Known, Handled, HandlerRemove, HandlerRelease
  <2>5. ~Drops(u)
    <3>. SUFFICES ASSUME Drops(u) PROVE FALSE
      OBVIOUS
    <3>1. ~Told(u) /\ ~Handled(u)
      BY DEF Drops, OnePlace
    <3>2. UNCHANGED <<stream, hpc, idOf>>
      BY DEF Drops, UploadAbort, idVars, handlerVars
    <3>3. ~Told(u)' /\ ~Cancelled(u)' /\ hpc'[u] # "open"
      BY <3>1, <3>2 DEF Told, Words, Handled, Drops, Cancelled
    <3>. QED
      BY <3>3 DEF Known
  <2>. QED
    BY <2>1, <2>2, <2>3, <2>4, <2>5, RunningStays, HeldStays
<1>3. CASE ~Known(u)
  <2>1. ~ \E s \in Owners : UploadAdds(s)
    <3>. SUFFICES ASSUME NEW s \in Owners, UploadAdds(s) PROVE FALSE
      OBVIOUS
    <3>1. idOf'[u] = idOf[u] /\ UNCHANGED <<stream, wire, hpc>>
      BY <1>1, Adds DEF clientVars, handlerVars
    <3>. QED
      BY <1>3, <3>1 DEF Known, Told, Cancelled, Words
  <2>2. ~Told(u) /\ Told(u)'
    BY <1>3, <2>1, PlaceMoves, OpenMoves DEF Known
  <2>3. mpc = "write" /\ mupload = u /\ SendWrite
    <3>1. idOf'[u] = idOf[u] /\ mpc = "write" /\ mupload = u
      BY <2>1, <2>2, PlaceMoves
    <3>2. Begin(idOf[u]) \in Words(OwnerOf[u])' /\ Begin(idOf[u]) \notin Words(OwnerOf[u])
      BY <2>2, <3>1 DEF Told
    <3>. QED
      BY <3>1, <3>2, GrantMoves, UploadAssumption
  <2>4. runningOperation[idOf[u]] = u /\ u \in held
    BY <2>3 DEF Backed, Placed
  <2>5. UNCHANGED <<runningOperation, held, idOf>>
    BY <2>3 DEF SendWrite, mapVars, budgetVars, idVars
  <2>. QED
    BY <2>4, <2>5
<1>. QED
  BY <1>2, <1>3

Receives(u) == hpc[u] \in {"data", "saved", "release"}

\* A handler receives once it has found its running operation.
LEMMA DataMoves ==
  ASSUME UploadsIInv, NextUploads, NEW u \in Uploads, Receives(u)'
  PROVE  \/ Receives(u) /\ hbuffer'[u] = hbuffer[u]
         \/ /\ HandlerStart(u) /\ hpc[u] = "open" /\ hbuffer'[u] = runningOperation[idOf[u]]
            /\ UNCHANGED held
<1> USE DEF clientVars, threadVars, idVars, mapVars, managerVars, handlerVars, budgetVars
<1>. UploadsTypeOK
  BY DEF UploadsIInv
<1>1. ASSUME NEW s \in Owners, ReceiveBegin(s) PROVE Receives(u) /\ hbuffer'[u] = hbuffer[u]
  BY <1>1 DEF ReceiveBegin, Receives, UploadsTypeOK
<1>2. ASSUME NEW v \in Uploads, HandlerStart(v), ~(Receives(u) /\ hbuffer'[u] = hbuffer[u])
      PROVE  /\ v = u /\ hpc[u] = "open" /\ hbuffer'[u] = runningOperation[idOf[u]]
             /\ UNCHANGED held
  <2>1. v = u
    BY <1>2 DEF HandlerStart, Receives, UploadsTypeOK
  <2>. QED
    BY <1>2, <2>1 DEF HandlerStart, UploadsTypeOK
<1>3. ASSUME NEW v \in Uploads, Handler(v), ~HandlerStart(v)
      PROVE  Receives(u) /\ hbuffer'[u] = hbuffer[u]
  BY <1>3 DEF Handler, HandlerNoHeader, HandlerSave, HandlerRemove, HandlerFail, HandlerRelease,
     Receives, UploadsTypeOK
<1>4. ASSUME NEW s \in Owners, Stop(s) \/ Login(s) \/ ReceiveFileId(s) \/ SessionThread(s)
      PROVE  UNCHANGED <<hpc, hbuffer>>
  BY <1>4 DEF Stop, Login, ReceiveFileId, SessionThread, UploadReads, UploadAdds, UploadReplies,
     UploadAbort, LogoutOwner
<1>5. ASSUME NEW v \in Uploads, Ask(v) PROVE UNCHANGED <<hpc, hbuffer>>
  BY <1>5 DEF Ask
<1>6. Manager => UNCHANGED <<hpc, hbuffer>>
  BY DEF Manager, Scan, Move, SendCheck, SendGet, SendWrite, Abort, TellCheck, TellGet, Tell,
     Discard
<1>. QED
  BY <1>1, <1>2, <1>3, <1>4, <1>5, <1>6 DEF NextUploads, Receive, Receives

\* What is received is reserved, through every step.
LEMMA ReceivedIsReservedStep ==
  ASSUME UploadsIInv, NextUploads
  PROVE  ReceivedIsReserved'
<1>. SUFFICES ASSUME DistinctIds', NEW u \in Uploads, Receives(u)'
              PROVE  hbuffer'[u] = u /\ u \in held'
  BY DEF ReceivedIsReserved, Receives
<1>. UploadsTypeOK /\ OnePlace /\ GrantIsBacked /\ ReceivedIsReserved /\ DistinctIds
  BY StillDistinct DEF UploadsIInv
<1>1. CASE hpc[u] = "open" /\ hbuffer'[u] = runningOperation[idOf[u]] /\ UNCHANGED held
  BY <1>1 DEF GrantIsBacked
<1>2. CASE Receives(u) /\ hbuffer'[u] = hbuffer[u]
  <2>1. hbuffer[u] = u /\ u \in held /\ Handled(u)
    BY <1>2 DEF ReceivedIsReserved, Receives, Handled
  <2>2. ~Drops(u)
    BY <2>1 DEF Drops, OnePlace
  <2>3. ~HandlerRelease(u)
    BY HandledIsReleased DEF Handled, Receives
  <2>. QED
    BY <1>2, <2>1, <2>2, <2>3, HeldStays
<1>. QED
  BY <1>1, <1>2, DataMoves

\* A size is reserved on the way from the queue to the running operations.
LEMMA BackedStep ==
  ASSUME UploadsIInv, NextUploads, DistinctIds'
  PROVE  Backed'
<1>. UploadsTypeOK /\ AtWork /\ Placed /\ OnePlace /\ Backed /\ DistinctIds
  BY StillDistinct DEF UploadsIInv
<1>1. ASSUME NEW u \in Uploads, Queued(u)'
      PROVE  u \in held' <=> mpc' = "move" /\ mupload' = u
  <2>1. ASSUME NEW s \in Owners, UploadAdds(s)
        PROVE  u \in held' <=> mpc' = "move" /\ mupload' = u
    <3>1. UNCHANGED <<held, mpc, mupload>>
      BY <2>1, Adds DEF budgetVars, managerVars
    <3>2. CASE u = current[s]
      BY <2>1, <3>1, <3>2, NewcomerIsFresh
    <3>3. CASE u # current[s]
      <4>1. Queued(u)
        BY <1>1, <2>1, <3>3, Adds DEF Queued
      <4>. QED
        BY <3>1, <4>1 DEF Backed
    <3>. QED
      BY <3>2, <3>3
  <2>2. ASSUME ~ \E s \in Owners : UploadAdds(s)
        PROVE  u \in held' <=> mpc' = "move" /\ mupload' = u
    <3>1. Queued(u)
      BY <1>1, <2>2, PlaceMoves
    <3>2. u \in held <=> mpc = "move" /\ mupload = u
      BY <3>1 DEF Backed
    <3>3. CASE Scan
      <4>1. mpc = "scan" /\ u \notin held
        BY <3>2, <3>3 DEF Scan
      <4>2. CASE UNCHANGED held /\ mpc' = "tell_check"
        BY <4>1, <4>2
      <4>3. CASE mpc' = "move" /\ held' = held \cup {mupload'}
        BY <4>1, <4>3
      <4>. QED
        BY <3>3, <4>2, <4>3 DEF Scan, Reserves, budgetVars
    <3>4. CASE Move
      <4>1. mpc' = "check" /\ UNCHANGED <<held, mupload>>
        BY <3>4 DEF Move, budgetVars
      <4>2. mupload # u
        BY <1>1, <4>1, QueueStep DEF Runs, Queued
      <4>. QED
        BY <3>2, <4>1, <4>2
    <3>5. ASSUME Manager, ~Scan, ~Move PROVE mpc # "move" /\ mpc' # "move" /\ UNCHANGED held
      BY <3>5 DEF Manager, SendCheck, SendGet, SendWrite, Abort, TellCheck, TellGet, Tell,
         Discard, Rests, budgetVars
    <3>6. ASSUME ~Manager PROVE UNCHANGED <<mpc, mupload>> /\ (u \in held' <=> u \in held)
      <4>1. UNCHANGED <<mpc, mupload>>
        BY <3>6, ManagerAlone
      <4>2. ~Drops(u) /\ ~HandlerRelease(u)
        BY <3>1, HandledIsReleased DEF OnePlace, Drops
      <4>3. held' \subseteq held
        BY <3>6, BudgetMoves, CancelledIsReleased, HandledIsReleased DEF budgetVars, Manager
      <4>. QED
        BY <4>1, <4>2, <4>3, HeldStays
    <3>. QED
      BY <3>2, <3>3, <3>4, <3>5, <3>6
  <2>. QED
    BY <2>1, <2>2
<1>2. ASSUME mpc' \in {"check", "get", "write"}
      PROVE  runningOperation'[mid'] = mupload' /\ mupload' \in held'
  <2>1. CASE Move
    <3>1. /\ mid \in Ids /\ mupload \in Uploads /\ queueOperation[mid] = mupload
          /\ mpc = "move"
      BY <2>1 DEF Move, AtWork, OnePlace
    <3>2. mupload \in held
      BY <3>1 DEF Backed, Queued
    <3>. QED
      BY <2>1, <3>1, <3>2 DEF Move, UploadsTypeOK, budgetVars
  <2>2. CASE ~Move
    <3>1. mpc \in {"check", "get", "write"} /\ UNCHANGED <<mid, mupload>> /\ ~Abort
      <4>1. ASSUME Manager
            PROVE  mpc \in {"check", "get", "write"} /\ UNCHANGED <<mid, mupload>> /\ ~Abort
        BY <1>2, <2>2, <4>1 DEF Manager, Scan, SendCheck, SendGet, SendWrite, Abort, TellCheck,
           TellGet, Tell, Discard, Rests
      <4>. QED
        BY <1>2, <4>1, ManagerAlone DEF Manager
    <3>2. /\ mid \in Ids /\ mupload \in Uploads /\ idOf[mupload] = mid
          /\ runningOperation[mid] = mupload /\ mupload \in held /\ mid # 0
      BY <3>1, IdsAreNumbers DEF AtWork, Placed, Backed
    <3>3. ~Cancelled(mupload) /\ ~Handled(mupload)
      BY <3>2 DEF OnePlace
    <3>4. ~Drops(mupload) /\ ~HandlerRemove(mupload) /\ ~HandlerRelease(mupload)
      BY <3>3 DEF Drops, Handled, HandlerRemove, HandlerRelease
    <3>5. runningOperation'[idOf[mupload]] = mupload
      BY <3>1, <3>2, <3>4, RunningStays
    <3>6. mupload \in held'
      BY <3>2, <3>4, HeldStays
    <3>. QED
      BY <3>1, <3>2, <3>5, <3>6
  <2>. QED
    BY <2>1, <2>2
<1>. QED
  BY <1>1, <1>2 DEF Backed

\* The types, whoever moves.
LEMMA TypesStep ==
  ASSUME UploadsIInv, NextUploads
  PROVE  UploadsTypeOK'
BY ClientTypes, SessionTypes, ManagerTypes, HandlerTypes, UploadAssumption DEF NextUploads

\* A grant is of an upload with an id, after a step too.
LEMMA IdsAfter ==
  ASSUME UploadsTypeOK', NEW u \in Uploads, Told(u)'
  PROVE  idOf'[u] \in Ids
<1>1. Begin(idOf'[u]) \in Word
  BY UploadAssumption DEF Told, Words, UploadsTypeOK
<1>2. PICK id \in Ids : Begin(idOf'[u]) = Begin(id)
  BY <1>1, WordTypes, WordsDiffer
<1>. QED
  BY <1>2, WordsDiffer

Pends(u)     == request[u] = "pending"
IsIdOf(w, u) == w.word = "fileid" /\ w.upload = u
OnItsWay(u)  == \E i \in DOMAIN stream[OwnerOf[u]] : IsIdOf(stream[OwnerOf[u]][i], u)

\* A request waits for its id from the command until the id is read or the client stops.
LEMMA RequestMoves ==
  ASSUME UploadsIInv, NextUploads, NEW u \in Uploads, Pends(u)'
  PROVE  /\ Pends(u) \/ (idOf[u] = 0 /\ idOf'[u] = 0)
         /\ ~Stop(OwnerOf[u])
         /\ ReceiveFileId(OwnerOf[u]) => Head(stream[OwnerOf[u]]).upload # u
<1> USE DEF clientVars, threadVars, idVars, mapVars, managerVars, handlerVars, budgetVars
<1>. UploadsTypeOK /\ Asked
  BY DEF UploadsIInv
<1>1. ASSUME NEW v \in Uploads, Ask(v) PROVE Pends(u) \/ (idOf[u] = 0 /\ idOf'[u] = 0)
  <2>1. Pends(u) \/ (u = v /\ request[u] = "new")
    BY <1>1 DEF Ask, Pends, UploadsTypeOK
  <2>. QED
    BY <1>1, <2>1 DEF Ask, Asked
<1>2. ASSUME NEW s \in Owners, Stop(s) PROVE Pends(u) /\ s # OwnerOf[u]
  BY <1>2 DEF Stop, Pends
<1>3. ASSUME NEW s \in Owners, ReceiveFileId(s) PROVE Pends(u) /\ Head(stream[s]).upload # u
  BY <1>3 DEF ReceiveFileId, Pends, UploadsTypeOK
<1>4. ASSUME NEW s \in Owners, ReceiveBegin(s) PROVE Pends(u)
  BY <1>4 DEF ReceiveBegin, Pends, UploadsTypeOK
<1>5. ASSUME NEW s \in Owners, Login(s) \/ SessionThread(s) PROVE UNCHANGED request
  BY <1>5 DEF Login, SessionThread, UploadReads, UploadAdds, UploadReplies, UploadAbort,
     LogoutOwner
<1>6. ASSUME NEW v \in Uploads, Handler(v) PROVE UNCHANGED request
  BY <1>6 DEF Handler, HandlerStart, HandlerNoHeader, HandlerSave, HandlerRemove, HandlerFail,
     HandlerRelease
<1>7. Manager => UNCHANGED request
  BY DEF Manager, Scan, Move, SendCheck, SendGet, SendWrite, Abort, TellCheck, TellGet, Tell,
     Discard
<1>8. Pends(u) \/ (idOf[u] = 0 /\ idOf'[u] = 0)
  BY <1>1, <1>2, <1>3, <1>4, <1>5, <1>6, <1>7 DEF NextUploads, Receive, Pends
<1>. QED
  BY <1>2, <1>3, <1>8, UploadAssumption

\* A session that holds its stream's monitor for an answer gives it.
LEMMA ReplyMoves ==
  ASSUME UploadsIInv, NextUploads, NEW s \in Owners
  PROVE  /\ session'[s] = "reply" =>
              UploadAdds(s) \/ (session[s] = "reply" /\ UNCHANGED current[s])
         /\ session[s] = "reply" =>
              \/ session'[s] = "reply" /\ UNCHANGED current[s]
              \/ UploadReplies(s)
              \/ client[s] = "off"
<1> USE DEF clientVars, threadVars, idVars, mapVars, managerVars, handlerVars, budgetVars
<1>. UploadsTypeOK
  BY DEF UploadsIInv
<1>1. ASSUME UNCHANGED <<session[s], current[s]>>
      PROVE  /\ session'[s] = "reply" =>
                  UploadAdds(s) \/ (session[s] = "reply" /\ UNCHANGED current[s])
             /\ session[s] = "reply" => session'[s] = "reply" /\ UNCHANGED current[s]
  BY <1>1
<1>2. ASSUME NEW t \in Owners, t # s, SessionThread(t) \/ Login(t)
      PROVE  UNCHANGED <<session[s], current[s]>>
  <2>1. UploadReads(t) => UNCHANGED <<session[s], current[s]>>
    BY <1>2 DEF UploadReads, UploadsTypeOK
  <2>2. UploadAdds(t) \/ Login(t) \/ LogoutOwner(t) => UNCHANGED <<session[s], current[s]>>
    BY <1>2 DEF UploadAdds, Login, LogoutOwner, UploadsTypeOK
  <2>3. UploadReplies(t) => UNCHANGED <<session[s], current[s]>>
    BY <1>2 DEF UploadReplies, UploadsTypeOK
  <2>4. UploadAbort(t) => UNCHANGED <<session[s], current[s]>>
    BY <1>2 DEF UploadAbort, UploadsTypeOK
  <2>. QED
    BY <1>2, <2>1, <2>2, <2>3, <2>4 DEF SessionThread
<1>3. CASE SessionThread(s) \/ Login(s)
  <2>1. CASE UploadReads(s) \/ LogoutOwner(s) \/ UploadReplies(s)
    BY <2>1 DEF UploadReads, LogoutOwner, UploadReplies, UploadsTypeOK
  <2>2. CASE UploadAdds(s)
    BY <2>2 DEF UploadAdds
  <2>3. CASE UploadAbort(s)
    BY <2>3 DEF UploadAbort, UploadsTypeOK
  <2>4. CASE Login(s)
    BY <2>4 DEF Login, UploadsTypeOK
  <2>. QED
    BY <1>3, <2>1, <2>2, <2>3, <2>4 DEF SessionThread
<1>4. ASSUME NEW t \in Owners, Stop(t) \/ Receive(t) PROVE UNCHANGED <<session, current>>
  BY <1>4 DEF Stop, Receive, ReceiveFileId, ReceiveBegin
<1>5. ASSUME NEW v \in Uploads, Ask(v) \/ Handler(v) PROVE UNCHANGED <<session, current>>
  BY <1>5 DEF Ask, Handler, HandlerStart, HandlerNoHeader, HandlerSave, HandlerRemove,
     HandlerFail, HandlerRelease
<1>6. Manager => UNCHANGED <<session, current>>
  BY DEF Manager, Scan, Move, SendCheck, SendGet, SendWrite, Abort, TellCheck, TellGet, Tell,
     Discard
<1>. QED
  BY <1>1, <1>2, <1>3, <1>4, <1>5, <1>6 DEF NextUploads

\* The client does not read the id of an upload that still waits for it.
LEMMA IdNotRead ==
  ASSUME UploadsIInv, NextUploads, NEW u \in Uploads, Pends(u)', NEW s \in Owners,
         s = OwnerOf[u], stream[s] # <<>>, ReceiveFileId(s) \/ ReceiveBegin(s)
  PROVE  ~IsIdOf(stream[s][1], u)
<1>. UploadsTypeOK
  BY DEF UploadsIInv
<1>1. CASE ReceiveFileId(s)
  <2>1. Head(stream[s]).upload # u
    BY <1>1, RequestMoves
  <2>2. Head(stream[s]) = stream[s][1]
    BY DEF UploadsTypeOK
  <2>. QED
    BY <2>1, <2>2 DEF IsIdOf
<1>2. CASE ReceiveBegin(s)
  BY <1>2, GrantRead, WordsDiffer DEF IsIdOf
<1>. QED
  BY <1>1, <1>2

\* The words of a stream keep their order.
LEMMA FileIdFirstStep ==
  ASSUME UploadsIInv, NextUploads
  PROVE  FileIdFirst'
<1>. SUFFICES ASSUME DistinctIds', NEW u \in Uploads, NEW s \in Owners, s = OwnerOf[u],
                     NEW i \in DOMAIN stream'[s], stream'[s][i] = Begin(idOf'[u]), Pends(u)'
              PROVE  \E j \in 1 .. i - 1 : IsIdOf(stream'[s][j], u)
  BY UploadAssumption DEF FileIdFirst, Pends, IsIdOf
<1>. UploadsTypeOK /\ UploadsTypeOK' /\ AtWork /\ Placed /\ Ordered /\ FileIdFirst /\ DistinctIds
  BY StillDistinct, TypesStep DEF UploadsIInv
<1>1. idOf'[u] # 0
  <2>1. Told(u)'
    BY DEF Told, Words
  <2>. QED
    BY <2>1, IdsAfter, IdsAreNumbers
<1>2. Pends(u)
  BY <1>1, RequestMoves
<1>3. idOf'[u] = idOf[u]
  <2>1. ASSUME NEW t \in Owners, UploadAdds(t), u = current[t] PROVE FALSE
    <3>1. idOf'[u] = read[t] /\ UNCHANGED stream
      BY <2>1, Adds DEF clientVars
    <3>2. Begin(read[t]) \notin Words(s)
      BY <2>1, NewcomerIsFresh
    <3>. QED
      BY <3>1, <3>2 DEF Words
  <2>. QED
    BY <2>1, Adds, QueueMoves
<1>4. ASSUME NEW k \in DOMAIN stream[s], stream[s][k] = Begin(idOf[u])
      PROVE  \E j \in 1 .. k - 1 : IsIdOf(stream[s][j], u)
  BY <1>2, <1>4 DEF FileIdFirst, Pends, IsIdOf
<1>5. CASE UNCHANGED stream[s]
  BY <1>3, <1>4, <1>5
<1>6. ASSUME stream[s] # <<>>, stream' = [stream EXCEPT ![s] = Tail(@)],
             ReceiveFileId(s) \/ ReceiveBegin(s)
      PROVE  \E j \in 1 .. i - 1 : IsIdOf(stream'[s][j], u)
  <2>1. /\ i \in Nat \ {0} /\ i + 1 \in DOMAIN stream[s] /\ stream'[s][i] = stream[s][i + 1]
        /\ \A k \in DOMAIN stream[s] \ {1} : stream'[s][k - 1] = stream[s][k]
    <3>1. \A k \in DOMAIN stream'[s] :
            /\ k \in Nat \ {0} /\ k + 1 \in DOMAIN stream[s]
            /\ stream'[s][k] = stream[s][k + 1]
      BY <1>6, Dropped, Zenon
    <3>2. \A k \in DOMAIN stream[s] \ {1} :
            /\ k \in Nat /\ k - 1 \in DOMAIN stream'[s]
            /\ stream'[s][k - 1] = stream[s][k]
      BY <1>6, Dropped, Zenon
    <3>. QED
      BY <3>1, <3>2
  <2>2. PICK j \in 1 .. (i + 1) - 1 : IsIdOf(stream[s][j], u)
    BY <1>3, <1>4, <2>1
  <2>3. j # 1
    BY <1>6, <2>2, IdNotRead
  <2>4. j \in DOMAIN stream[s] \ {1} /\ j - 1 \in 1 .. i - 1
    BY <2>1, <2>2, <2>3 DEF UploadsTypeOK
  <2>. QED
    BY <2>1, <2>2, <2>4
<1>7. ASSUME NEW w \in Word, stream' = [stream EXCEPT ![s] = Append(@, w)],
             w = Begin(idOf[u]) => OnItsWay(u)
      PROVE  \E j \in 1 .. i - 1 : IsIdOf(stream'[s][j], u)
  <2>1. /\ DOMAIN stream'[s] = DOMAIN stream[s] \cup {Len(stream[s]) + 1}
        /\ stream'[s][Len(stream[s]) + 1] = w
        /\ \A k \in DOMAIN stream[s] : stream'[s][k] = stream[s][k]
    BY <1>7, Appended
  <2>2. DOMAIN stream[s] = 1 .. Len(stream[s]) /\ Len(stream[s]) \in Nat
    BY DEF UploadsTypeOK
  <2>3. CASE i \in DOMAIN stream[s]
    <3>1. PICK j \in 1 .. i - 1 : IsIdOf(stream[s][j], u)
      BY <1>3, <1>4, <2>1, <2>3
    <3>2. j \in DOMAIN stream[s]
      BY <2>2, <2>3, <3>1
    <3>. QED
      BY <2>1, <3>1, <3>2
  <2>4. CASE i = Len(stream[s]) + 1
    <3>1. w = Begin(idOf[u])
      BY <1>3, <2>1, <2>4
    <3>2. PICK j \in DOMAIN stream[s] : IsIdOf(stream[s][j], u)
      BY <1>7, <3>1 DEF OnItsWay
    <3>3. j \in 1 .. i - 1
      BY <2>2, <2>4, <3>2
    <3>. QED
      BY <2>1, <3>2, <3>3
  <2>. QED
    BY <2>1, <2>3, <2>4
<1>8. ASSUME NEW t \in Owners, t # s, \E x : stream' = [stream EXCEPT ![t] = x]
      PROVE  UNCHANGED stream[s]
  BY <1>8 DEF UploadsTypeOK
<1>9. ASSUME NEW t \in Owners, Stop(t), stream' = [stream EXCEPT ![t] = <<>>]
      PROVE  UNCHANGED stream[s]
  BY <1>8, <1>9, RequestMoves
<1>10. ASSUME NEW t \in Owners, ReceiveFileId(t) \/ ReceiveBegin(t), stream[t] # <<>>,
              stream' = [stream EXCEPT ![t] = Tail(@)]
       PROVE  \E j \in 1 .. i - 1 : IsIdOf(stream'[s][j], u)
  BY <1>5, <1>6, <1>8, <1>10
<1>11. ASSUME NEW t \in Owners, current[t] \in Uploads, idOf[current[t]] \in Ids,
              stream' = [stream EXCEPT ![t] = Append(@, FileId(current[t], idOf[current[t]]))]
       PROVE  \E j \in 1 .. i - 1 : IsIdOf(stream'[s][j], u)
  <2>1. /\ FileId(current[t], idOf[current[t]]) \in Word
        /\ FileId(current[t], idOf[current[t]]) # Begin(idOf[u])
    BY <1>11, WordTypes, WordsDiffer
  <2>. QED
    BY <1>5, <1>7, <1>8, <1>11, <2>1
<1>12. ASSUME mpc = "write", mupload \in Uploads, mid \in Ids, NEW t \in Owners,
              t = OwnerOf[mupload], StreamFree(t),
              stream' = [stream EXCEPT ![t] = Append(@, Begin(mid))]
       PROVE  \E j \in 1 .. i - 1 : IsIdOf(stream'[s][j], u)
  <2>1. CASE t = s
    <3>1. ASSUME Begin(mid) = Begin(idOf[u]) PROVE OnItsWay(u)
      <4>1. session[s] # "reply"
        BY <1>12, <2>1 DEF StreamFree
      <4>. QED
        BY <1>1, <1>2, <1>3, <4>1 DEF Ordered, Pends, OnItsWay, IsIdOf
    <3>. QED
      BY <1>7, <1>12, <2>1, <3>1, WordTypes
  <2>2. CASE t # s
    BY <1>5, <1>8, <1>12, <2>2
  <2>. QED
    BY <2>1, <2>2
<1>. QED
  BY <1>5, <1>9, <1>10, <1>11, <1>12, StreamMoves, UploadAssumption

\* An id that is waited for gets written, and nothing else to that stream meanwhile.
LEMMA OrderedStep ==
  ASSUME UploadsIInv, NextUploads, DistinctIds'
  PROVE  Ordered'
<1>. UploadsTypeOK /\ UploadsTypeOK' /\ Asked /\ AtWork /\ Placed /\ Ordered /\ DistinctIds
  BY StillDistinct, TypesStep DEF UploadsIInv
<1>1. ASSUME NEW u \in Uploads, idOf'[u] # 0, Pends(u)', NEW s \in Owners, s = OwnerOf[u]
      PROVE  (session'[s] = "reply" /\ current'[s] = u) \/ OnItsWay(u)'
  <2>1. Pends(u)
    BY <1>1, RequestMoves
  <2>2. ASSUME NEW t \in Owners, UploadAdds(t), u = current[t]
        PROVE  session'[s] = "reply" /\ current'[s] = u
    BY <1>1, <2>2, Adds DEF threadVars
  <2>3. ASSUME idOf[u] # 0, session[s] = "reply", current[s] = u
        PROVE  (session'[s] = "reply" /\ current'[s] = u) \/ OnItsWay(u)'
    <3>1. client[s] = "on"
      BY <1>1, <2>1 DEF Asked, Pends, UploadsTypeOK
    <3>2. CASE UploadReplies(s)
      <4>1. /\ idOf[u] \in Ids
            /\ stream' = [stream EXCEPT ![s] = Append(@, FileId(u, idOf[u]))]
        BY <2>3, <3>1, <3>2 DEF UploadReplies, Writes, UploadsTypeOK
      <4>2. /\ DOMAIN stream'[s] = DOMAIN stream[s] \cup {Len(stream[s]) + 1}
            /\ stream'[s][Len(stream[s]) + 1] = FileId(u, idOf[u])
        BY <4>1, Appended, WordTypes
      <4>. QED
        BY <1>1, <4>2, WordsDiffer DEF OnItsWay, IsIdOf
    <3>. QED
      BY <2>3, <3>1, <3>2, ReplyMoves
  <2>4. ASSUME NEW k \in DOMAIN stream[s], IsIdOf(stream[s][k], u) PROVE OnItsWay(u)'
    <3>1. CASE UNCHANGED stream[s]
      BY <1>1, <2>4, <3>1 DEF OnItsWay
    <3>2. ASSUME NEW w \in Word, stream' = [stream EXCEPT ![s] = Append(@, w)]
          PROVE  OnItsWay(u)'
      <4>1. k \in DOMAIN stream'[s] /\ stream'[s][k] = stream[s][k]
        BY <2>4, <3>2, Appended
      <4>. QED
        BY <1>1, <2>4, <4>1 DEF OnItsWay
    <3>3. ASSUME NEW t \in Owners, t # s, \E x : stream' = [stream EXCEPT ![t] = x]
          PROVE  UNCHANGED stream[s]
      BY <3>3 DEF UploadsTypeOK
    <3>4. ASSUME NEW t \in Owners, Stop(t), stream' = [stream EXCEPT ![t] = <<>>]
          PROVE  UNCHANGED stream[s]
      BY <1>1, <3>3, <3>4, RequestMoves
    <3>5. ASSUME NEW t \in Owners, ReceiveFileId(t) \/ ReceiveBegin(t), stream[t] # <<>>,
                 stream' = [stream EXCEPT ![t] = Tail(@)]
          PROVE  OnItsWay(u)'
      <4>1. CASE t = s
        <5>1. k # 1
          BY <1>1, <2>4, <3>5, <4>1, IdNotRead
        <5>2. k - 1 \in DOMAIN stream'[s] /\ stream'[s][k - 1] = stream[s][k]
          BY <2>4, <3>5, <4>1, <5>1, Dropped
        <5>. QED
          BY <1>1, <2>4, <5>2 DEF OnItsWay
      <4>2. CASE t # s
        BY <3>1, <3>3, <3>5, <4>2
      <4>. QED
        BY <4>1, <4>2
    <3>6. ASSUME NEW t \in Owners, NEW w \in Word, stream' = [stream EXCEPT ![t] = Append(@, w)]
          PROVE  OnItsWay(u)'
      BY <3>1, <3>2, <3>3, <3>6
    <3>. QED
      BY <3>1, <3>4, <3>5, <3>6, StreamMoves, UploadAssumption, WordTypes
  <2>5. CASE idOf[u] = 0
    BY <1>1, <2>2, <2>5, Adds, QueueMoves
  <2>6. CASE idOf[u] # 0
    BY <1>1, <2>1, <2>3, <2>4, <2>6 DEF Ordered, Pends, IsIdOf
  <2>. QED
    BY <2>5, <2>6
<1>2. ASSUME NEW s \in Owners, session'[s] = "reply" PROVE ~Told(current[s])'
  <2>1. CASE UploadAdds(s)
    <3>1. /\ OwnerOf[current[s]] = s /\ idOf'[current[s]] = read[s]
          /\ UNCHANGED <<stream, current>>
      BY <2>1, Adds DEF clientVars
    <3>2. Begin(read[s]) \notin Words(s)
      BY <2>1, NewcomerIsFresh
    <3>. QED
      BY <3>1, <3>2 DEF Told, Words
  <2>2. CASE session[s] = "reply" /\ UNCHANGED current[s]
    <3>1. /\ current[s] \in Uploads /\ OwnerOf[current[s]] = s /\ idOf[current[s]] # 0
          /\ ~Told(current[s])
      BY <2>2 DEF Asked, Ordered
    <3>2. idOf'[current[s]] = idOf[current[s]]
      BY <3>1, Adds, QueueMoves
    <3>3. Begin(idOf[current[s]]) \notin Words(s)'
      BY <2>2, <3>1, GrantMoves DEF Told, StreamFree
    <3>. QED
      BY <2>2, <3>1, <3>2, <3>3 DEF Told, Words
  <2>. QED
    BY <1>2, <2>1, <2>2, ReplyMoves
<1>. QED
  BY <1>1, <1>2, UploadAssumption DEF Ordered, Pends, OnItsWay, IsIdOf

\* The inductive invariant holds of the empty server.
LEMMA UploadsInitially == InitUploads => UploadsIInv
<1>. SUFFICES ASSUME InitUploads PROVE UploadsIInv
  OBVIOUS
<1>. USE UploadAssumption DEF InitUploads
<1>1. UploadsTypeOK
  <2>1. stream \in [Owners -> Seq(Word)] /\ wire \in [Owners -> SUBSET Command]
    OBVIOUS
  <2>2. /\ read \in [Owners -> 0 .. Cardinality(Uploads)]
        /\ nextFileId \in 1 .. Cardinality(Uploads) + 1
    BY IdsAreNumbers
  <2>3. /\ queueOperation \in [Ids -> Uploads \cup {NoUpload}]
        /\ runningOperation \in [Ids -> Uploads \cup {NoUpload}]
        /\ idOf \in [Uploads -> {0} \cup Ids]
    OBVIOUS
  <2>4. /\ client \in [Owners -> {"on", "gone", "off"}]
        /\ request \in [Uploads -> {"new", "pending", "known", "uploading", "lost"}]
        /\ session \in [Owners -> {"serve", "add", "reply", "logout", "dead", "off"}]
        /\ current \in [Owners -> Uploads \cup {NoUpload}]
        /\ hpc \in [Uploads -> {"none", "open", "data", "saved", "release", "over", "dead"}]
        /\ hbuffer \in [Uploads -> Uploads \cup {NoUpload}]
    OBVIOUS
  <2>5. /\ currentBufferSize \in Int /\ mpc = "scan" /\ mid \in {0} \cup Ids
        /\ mupload \in Uploads \cup {NoUpload} /\ held \subseteq Uploads
    OBVIOUS
  <2>6. mlost \in BOOLEAN
    BY Zenon
  <2>. HIDE DEF InitUploads
  <2>. QED
    BY <2>1, <2>2, <2>3, <2>4, <2>5, <2>6 DEF UploadsTypeOK
<1>2. Asked /\ AtWork
  BY WordsDiffer DEF Asked, AtWork, Words
<1>3. Counted
  <2>1. Given = {}
    BY DEF Given
  <2>2. Cardinality(Given) = 0
    BY <2>1, FS_EmptySet
  <2>. QED
    BY <2>2 DEF Counted
<1>4. \A u \in Uploads : ~Queued(u) /\ ~Told(u) /\ ~Cancelled(u) /\ ~Handled(u)
  BY DEF Queued, Told, Cancelled, Handled, Words
<1>5. ReceivedIsReserved /\ GrantIsBacked /\ FileIdFirst
  BY <1>4 DEF ReceivedIsReserved, GrantIsBacked, FileIdFirst, Told, Cancelled
<1>6. Placed /\ Granted /\ Backed /\ Ordered
  BY <1>4 DEF Placed, Granted, Backed, Ordered, Words
<1>7. OnePlace
  BY <1>4 DEF OnePlace
<1>8. AccountsAgree
  <2>1. Reserved = {}
    BY DEF Reserved
  <2>2. IsFiniteSet(Reserved) /\ Cardinality(Reserved) = 0
    BY <2>1, FS_EmptySet
  <2>. QED
    BY <2>2 DEF AccountsAgree
<1>. QED
  BY <1>1, <1>2, <1>3, <1>5, <1>6, <1>7, <1>8 DEF UploadsIInv

\* It speaks of the variables only.
LEMMA UploadsUnchanged ==
  ASSUME UploadsIInv, UNCHANGED uploadVars
  PROVE  UploadsIInv'
<1>. USE DEF uploadVars
<1>1. UploadsTypeOK' /\ Asked' /\ Counted' /\ AtWork'
  BY DEF UploadsIInv, UploadsTypeOK, Asked, Counted, AtWork, Words, Given
<1>2. ReceivedIsReserved' /\ GrantIsBacked' /\ FileIdFirst' /\ (DistinctIds' <=> DistinctIds)
  BY DEF UploadsIInv, ReceivedIsReserved, GrantIsBacked, FileIdFirst, DistinctIds, Words
<1>3. ASSUME DistinctIds PROVE Placed' /\ Granted' /\ Backed'
  BY <1>3 DEF UploadsIInv, Placed, Granted, Backed, Queued, Words
<1>4. ASSUME DistinctIds PROVE OnePlace'
  BY <1>4 DEF UploadsIInv, OnePlace, Queued, Told, Cancelled, Handled, Words
<1>5. ASSUME DistinctIds PROVE Ordered' /\ AccountsAgree'
  BY <1>5 DEF UploadsIInv, Ordered, AccountsAgree, Reserved, Told, Words
<1>. QED
  BY <1>1, <1>2, <1>3, <1>4, <1>5 DEF UploadsIInv

\* Every step keeps it.
LEMMA UploadsStep ==
  ASSUME UploadsIInv, NextUploads
  PROVE  UploadsIInv'
<1>1. UploadsTypeOK' /\ Asked' /\ Counted' /\ AtWork'
  BY TypesStep, AskedStep, CountedStep, AtWorkStep
<1>2. ReceivedIsReserved' /\ GrantIsBacked' /\ FileIdFirst'
  BY ReceivedIsReservedStep, GrantIsBackedStep, FileIdFirstStep
<1>3. ASSUME DistinctIds'
      PROVE  Placed' /\ Granted' /\ OnePlace' /\ Backed' /\ Ordered' /\ AccountsAgree'
  BY <1>3, PlacedStep, GrantedStep, OnePlaceStep, BackedStep, OrderedStep, AccountingStep
<1>. QED
  BY <1>1, <1>2, <1>3 DEF UploadsIInv

\* The inductive invariant is an invariant.
LEMMA UploadsInductive == UploadSpec => []UploadsIInv
<1>1. UploadsIInv /\ [NextUploads]_uploadVars => UploadsIInv'
  BY UploadsStep, UploadsUnchanged
<1>. QED
  BY <1>1, UploadsInitially, PTL DEF UploadSpec

\* currentBufferSize is the total size of the uploads that hold a reservation and never
\* more than the limit (isBufferAvailable, releaseBuffer), and a handler receives only
\* what is reserved, as long as no two uploads were given the same id.
THEOREM UploadsConsistent == UploadSpec => []UploadsInv
<1>1. UploadsIInv => UploadsInv
  BY DEF UploadsIInv, UploadsInv, Accounting, AccountsAgree
<1>. QED
  BY <1>1, UploadsInductive, PTL

\* What a client was told to begin stays in runningOperation, with its size reserved,
\* until its handler or its cancellation has found it.
THEOREM GrantsBacked == UploadSpec => []GrantIsBacked
<1>1. UploadsIInv => GrantIsBacked
  BY DEF UploadsIInv
<1>. QED
  BY <1>1, UploadsInductive, PTL

\* A client reads the id of an upload before it reads that the upload may begin, although
\* the session and the manager write the two words.
THEOREM FileIdComesFirst == UploadSpec => []FileIdFirst
<1>1. UploadsIInv => FileIdFirst
  BY DEF UploadsIInv
<1>. QED
  BY <1>1, UploadsInductive, PTL

-----------------------------------------------------------------------------
(* The dialogue of an upload *)

CONSTANTS Announced, MaxLength, ChunkSize

VARIABLES cpc, length, totalSent, verdict, toServer, toClient, broken, spc, want, counted,
          arrived, short, saved

Dialogue == INSTANCE UploadDialogue WITH FileLength <- Announced

\* The last words that cross on the wire.  Only who has sent everything sends the
\* completion, and after a refusal nothing is stored.
Completed ==
  \/ \E i \in DOMAIN toServer : toServer[i].word = "completeupload"
  \/ spc \in {"check", "write"} \/ saved

Nacked == verdict = "integrity" \/ \E i \in DOMAIN toClient : toClient[i] = "nack"

LastWords ==
  /\ Completed => cpc \in {"result", "closed"} /\ verdict # "timeout"
  /\ Nacked => spc \in {"finally", "over"} /\ ~saved
  /\ saved => spc \in {"finally", "over"}
  /\ cpc \notin {"closed", "silent"} => verdict = "none"
  /\ cpc = "silent" => verdict = "failed"

\* Before a chunk everything is where it should be.
BeforeChunk ==
  cpc \in {"open", "chunk", "silent"} =>
    spc = "op" /\ toServer = <<>> /\ toClient = <<>> /\ arrived = totalSent

\* A chunk is on its way, is being read, or is acknowledged.
ChunkOnItsWay(n) ==
  /\ arrived + n = totalSent
  /\ toClient = <<>>
  /\ \/ spc = "op" /\ toServer = <<Dialogue!Chunk(n)>> \o Dialogue!Bytes(n)
     \/ spc = "bytes" /\ want = n /\ toServer = Dialogue!Bytes(n)

AfterChunk ==
  cpc = "ack" =>
    \/ \E n \in 1 .. ChunkSize : ChunkOnItsWay(n)
    \/ spc = "op" /\ toServer = <<>> /\ toClient = <<"ack">> /\ arrived = totalSent

\* The same of the completion and the verdict.
AfterCompletion ==
  cpc = "result" =>
    /\ arrived = totalSent /\ totalSent = length
    /\ \/ spc = "op" /\ toServer = <<Dialogue!Word("completeupload")>> /\ toClient = <<>>
       \/ spc = "check" /\ toServer = <<>> /\ toClient = <<>>
       \/ /\ spc \in {"write", "finally", "over"} /\ toServer = <<>> /\ toClient = <<"ack">>
          /\ counted = Announced
       \/ spc \in {"finally", "over"} /\ toServer = <<>> /\ toClient = <<"nack">>

Succeeded ==
  verdict = "success" =>
    /\ cpc = "closed" /\ spc \in {"write", "finally", "over"}
    /\ arrived = Announced /\ length = Announced

InStep ==
  /\ broken => toServer = <<>> /\ toClient = <<>>
  /\ ~short => /\ arrived = counted
               /\ ~broken => BeforeChunk /\ AfterChunk /\ AfterCompletion
               /\ Succeeded

DialogueInv == Dialogue!TypeOK /\ LastWords /\ InStep

-----------------------------------------------------------------------------
(* Lemmas *)

DialogueWords == [word : Dialogue!Words, length : 0 .. ChunkSize]

\* A set of numbers that is not empty has a least one.
LEMMA LeastNumber ==
  ASSUME NEW T \in SUBSET Nat, T # {}
  PROVE  \E x \in T : \A y \in T : x <= y
<1>1. PICK x \in T : \A y \in T : ~(<<y, x>> \in OpToRel(<, Nat))
  BY NatLessThanWellFounded, WFMin, ZenonT(60)
<1>2. \A y \in T : ~(y < x)
  BY <1>1 DEF OpToRel
<1>. QED
  BY <1>2

\* The greatest number of a set that has 0 and is bounded.
LEMMA MaxIn ==
  ASSUME NEW k \in Nat, NEW S \in SUBSET (0 .. k), 0 \in S
  PROVE  Dialogue!Max(S) \in S
<1> DEFINE T == {n \in Nat : \A x \in S : x <= n}
<1>1. T \subseteq Nat /\ k \in T
  OBVIOUS
<1>2. PICK m \in T : \A n \in T : m <= n
  BY <1>1, LeastNumber
<1>3. m \in S
  <2>1. SUFFICES ASSUME m \notin S PROVE FALSE
    OBVIOUS
  <2>2. m > 0 /\ m - 1 \in T
    BY <2>1
  <2>3. QED
    BY <1>2, <2>2
<1>4. \A y \in S : m >= y
  OBVIOUS
<1>5. QED
  BY <1>3, <1>4 DEF Dialogue!Max

\* The smaller of two numbers.
LEMMA MinOf ==
  ASSUME NEW a \in Nat, NEW b \in Nat
  PROVE  Dialogue!Min({a, b}) \in {a, b} /\ Dialogue!Min({a, b}) <= a /\ Dialogue!Min({a, b}) <= b
<1>1. \E x \in {a, b} : \A y \in {a, b} : x =< y
  OBVIOUS
<1>2. QED
  BY <1>1 DEF Dialogue!Min

\* There are as many bytes at the head of the stream as a read can give.
LEMMA AvailableIn ==
  ASSUME toServer \in Seq(DialogueWords)
  PROVE  /\ Dialogue!Available \in 0 .. Len(toServer)
         /\ \A i \in 1 .. Dialogue!Available : toServer[i] = Dialogue!Byte
<1> DEFINE S == {n \in 0 .. Len(toServer) : \A i \in 1 .. n : toServer[i] = Dialogue!Byte}
<1>1. Len(toServer) \in Nat /\ S \in SUBSET (0 .. Len(toServer)) /\ 0 \in S
  OBVIOUS
<1>2. Dialogue!Max(S) \in S
  BY <1>1, MaxIn
<1>3. QED
  BY <1>2 DEF Dialogue!Available

\* The bytes of a chunk as a sequence.
LEMMA BytesAre ==
  ASSUME NEW n \in 1 .. ChunkSize, ChunkSize \in Nat
  PROVE  /\ Dialogue!Bytes(n) \in Seq(DialogueWords) /\ Len(Dialogue!Bytes(n)) = n
         /\ \A i \in 1 .. n : Dialogue!Bytes(n)[i] = Dialogue!Byte
         /\ Dialogue!Bytes(n) # <<>>
         /\ Dialogue!Chunk(n) \in DialogueWords
         /\ Dialogue!Chunk(n).word = "uploadchunk" /\ Dialogue!Chunk(n).length = n
         /\ <<Dialogue!Chunk(n)>> \o Dialogue!Bytes(n) \in Seq(DialogueWords)
         /\ <<Dialogue!Chunk(n)>> \o Dialogue!Bytes(n) # <<>>
         /\ Head(<<Dialogue!Chunk(n)>> \o Dialogue!Bytes(n)) = Dialogue!Chunk(n)
         /\ Tail(<<Dialogue!Chunk(n)>> \o Dialogue!Bytes(n)) = Dialogue!Bytes(n)
         /\ SubSeq(Dialogue!Bytes(n), n + 1, n) = <<>>
<1> DEFINE B == Dialogue!Bytes(n)
           c == Dialogue!Chunk(n)
<1>1. Dialogue!Byte \in DialogueWords /\ c \in DialogueWords /\ c.word = "uploadchunk" /\ c.length = n
  BY DEF Dialogue!Byte, Dialogue!Word, DialogueWords, Dialogue!Words, Dialogue!Chunk
<1>2. B \in Seq(DialogueWords) /\ Len(B) = n /\ \A i \in 1 .. n : B[i] = Dialogue!Byte
  BY <1>1 DEF Dialogue!Bytes
<1> HIDE DEF B, c
<1>3. <<c>> \o B \in Seq(DialogueWords) /\ <<c>> \o B # <<>> /\ Head(<<c>> \o B) = c
  BY <1>1, <1>2
<1>4. Tail(<<c>> \o B) = B
  BY <1>1, <1>2, HeadTailAppend
<1>5. SubSeq(B, n + 1, n) = <<>>
  BY <1>2
<1>6. QED
  BY <1>1, <1>2, <1>3, <1>4, <1>5 DEF B, c

-----------------------------------------------------------------------------
(* What the constants are, and what is the same for every step *)

\* The constants are numbers.
LEMMA DialogueConstants ==
  ASSUME Dialogue!DialogueAssumption
  PROVE  Announced \in Nat /\ MaxLength \in Nat /\ ChunkSize \in Nat /\ ChunkSize > 0
BY DEF Dialogue!DialogueAssumption

\* At first all is in step.
LEMMA DialogueInit ==
  ASSUME Dialogue!DialogueAssumption, Dialogue!Init
  PROVE  DialogueInv
<1> USE DialogueConstants DEF Dialogue!Init
<1>1. Dialogue!TypeOK
  <2>1. toServer \in Seq([word : Dialogue!Words, length : 0 .. ChunkSize]) /\ toClient \in Seq({"ack", "nack"})
    OBVIOUS
  <2>2. length \in 0 .. MaxLength /\ totalSent \in 0 .. length
    OBVIOUS
  <2>3. {broken, short, saved} \subseteq BOOLEAN
    BY Zenon
  <2>4. {counted, arrived} \subseteq Nat /\ arrived <= counted /\ want \in 0 .. ChunkSize
    OBVIOUS
  <2>5. QED
    BY <2>1, <2>2, <2>3, <2>4 DEF Dialogue!TypeOK
<1>2. LastWords
  BY DEF LastWords, Completed, Nacked
<1>3. InStep
  BY DEF InStep, BeforeChunk, AfterChunk, AfterCompletion, Succeeded
<1>4. QED
  BY <1>1, <1>2, <1>3 DEF DialogueInv

\* The server sends the id and the size of the chunks, or the upload is refused.
LEMMA Opens ==
  ASSUME Dialogue!DialogueAssumption, DialogueInv, Dialogue!Open
  PROVE  DialogueInv'
<1> USE DialogueConstants DEF Dialogue!Open, Dialogue!ClientGoto, Dialogue!serverVars
<1>1. Dialogue!TypeOK'
  BY DEF DialogueInv, Dialogue!TypeOK
<1>2. LastWords'
  BY DEF DialogueInv, LastWords, Completed, Nacked
<1>3. InStep'
  BY DEF DialogueInv, LastWords, InStep, BeforeChunk, AfterChunk, AfterCompletion, Succeeded
<1>4. QED
  BY <1>1, <1>2, <1>3 DEF DialogueInv

\* The client cannot read the file and says so.
LEMMA GivesUp ==
  ASSUME Dialogue!DialogueAssumption, DialogueInv, Dialogue!GiveUp
  PROVE  DialogueInv'
<1> USE DialogueConstants DEF Dialogue!GiveUp, Dialogue!ClientGoto, Dialogue!serverVars
<1>1. Dialogue!TypeOK'
  BY DEF DialogueInv, Dialogue!TypeOK
<1>2. LastWords'
  BY DEF DialogueInv, LastWords, Completed, Nacked
<1>3. InStep'
  BY DEF DialogueInv, LastWords, InStep, BeforeChunk, AfterChunk, AfterCompletion, Succeeded
<1>4. QED
  BY <1>1, <1>2, <1>3 DEF DialogueInv

\* A chunk goes out with its data: nothing else is on its way.
LEMMA SendsChunk ==
  ASSUME Dialogue!DialogueAssumption, DialogueInv, Dialogue!SendChunk
  PROVE  DialogueInv'
<1> DEFINE n == Dialogue!Min({ChunkSize, length - totalSent})
           sent == <<Dialogue!Chunk(n)>> \o Dialogue!Bytes(n)
<1>1. /\ cpc = "chunk" /\ cpc' = "ack" /\ ~broken /\ totalSent < length
      /\ toServer' = toServer \o <<Dialogue!Chunk(n)>> \o Dialogue!Bytes(n)
      /\ totalSent' = totalSent + n
      /\ UNCHANGED <<length, verdict, toClient, broken, spc, want, counted, arrived, short, saved>>
  BY DEF Dialogue!SendChunk, Dialogue!ClientGoto, Dialogue!serverVars
<1>2. Announced \in Nat /\ ChunkSize \in Nat /\ ChunkSize > 0 /\ length \in Nat /\ totalSent \in Nat
  BY DialogueConstants DEF DialogueInv, Dialogue!TypeOK
<1>3. n \in 1 .. ChunkSize /\ n <= length - totalSent
  BY <1>1, <1>2, MinOf
<1>4. /\ Dialogue!Bytes(n) \in Seq(DialogueWords) /\ <<Dialogue!Chunk(n)>> \in Seq(DialogueWords)
      /\ sent \in Seq(DialogueWords) /\ \A i \in DOMAIN sent : sent[i].word # "completeupload"
  <2> HIDE DEF n
  <2>1. \A i \in DOMAIN Dialogue!Bytes(n) : Dialogue!Bytes(n)[i].word = "byte"
    BY DEF Dialogue!Bytes, Dialogue!Byte, Dialogue!Word
  <2>2. Dialogue!Chunk(n).word = "uploadchunk"
    BY DEF Dialogue!Chunk
  <2>3. QED
    BY <1>2, <1>3, <2>1, <2>2, BytesAre
<1> HIDE DEF n, sent
<1>5. toServer \in Seq(DialogueWords) /\ toServer' = toServer \o sent
  <2>1. toServer \in Seq(DialogueWords)
    BY DEF DialogueInv, Dialogue!TypeOK, DialogueWords
  <2>2. QED
    BY <1>1, <1>4, <2>1, ConcatAssociative DEF sent
<1>6. toServer' \in Seq(DialogueWords)
  BY <1>4, <1>5
<1>7. Dialogue!TypeOK'
  BY <1>1, <1>2, <1>3, <1>6 DEF DialogueInv, Dialogue!TypeOK, DialogueWords
<1>8. \A i \in DOMAIN toServer' : toServer'[i].word = "completeupload" =>
        i \in DOMAIN toServer /\ toServer[i].word = "completeupload"
  BY <1>4, <1>5
<1>9. LastWords'
  BY <1>1, <1>8 DEF DialogueInv, LastWords, Completed, Nacked
<1>10. InStep'
  <2>1. SUFFICES ASSUME ~short, BeforeChunk, arrived = counted
                 PROVE  (AfterChunk /\ Succeeded)'
    BY <1>1 DEF DialogueInv, InStep, BeforeChunk, AfterCompletion, Succeeded, LastWords
  <2>2. toServer' = sent /\ toClient' = <<>> /\ spc' = "op" /\ arrived' + n = totalSent'
    <3>1. /\ toServer = <<>> /\ toClient = <<>> /\ spc = "op" /\ arrived = totalSent
      BY <1>1, <2>1 DEF BeforeChunk
    <3>2. <<>> \o sent = sent
      BY <1>4, ConcatEmptySeq
    <3>3. QED
      BY <1>1, <1>2, <1>3, <1>5, <3>1, <3>2
  <2>3. AfterChunk'
    BY <1>1, <1>3, <2>2 DEF AfterChunk, ChunkOnItsWay, sent
  <2>4. QED
    BY <1>1, <2>3 DEF DialogueInv, LastWords, Succeeded
<1>11. QED
  BY <1>7, <1>9, <1>10 DEF DialogueInv

\* The completion goes out after the last acknowledgement.
LEMMA SendsCompletion ==
  ASSUME Dialogue!DialogueAssumption, DialogueInv, Dialogue!SendComplete
  PROVE  DialogueInv'
<1> USE DialogueConstants DEF Dialogue!SendComplete, Dialogue!ClientGoto, Dialogue!ServerGoto, Dialogue!clientVars,
                      Dialogue!serverVars, Dialogue!Next1, Dialogue!Replies
<1>1. Dialogue!TypeOK'
  BY DEF DialogueInv, Dialogue!TypeOK, Dialogue!Word, Dialogue!Words
<1>2. LastWords'
  BY DEF DialogueInv, Dialogue!TypeOK, LastWords, Completed, Nacked, Dialogue!Word
<1>3. InStep'
  <2>1. ASSUME ~short PROVE arrived' = totalSent' /\ totalSent' = length'
                             /\ spc' = "op" /\ toServer' = <<Dialogue!Word("completeupload")>> /\ toClient' = <<>>
    <3>1. toServer = <<>> /\ toClient = <<>> /\ spc = "op" /\ arrived = totalSent
      BY <2>1 DEF DialogueInv, InStep, BeforeChunk
    <3>2. QED
      BY <3>1
  <2>2. ASSUME ~short PROVE arrived' = counted' /\ verdict' # "success"
    BY <2>2 DEF DialogueInv, LastWords, InStep
  <2>3. QED
    BY <2>1, <2>2 DEF DialogueInv, InStep, BeforeChunk, AfterChunk, AfterCompletion, Succeeded
<1>4. QED
  BY <1>1, <1>2, <1>3 DEF DialogueInv

\* An acknowledgement answers the chunk before it.
LEMMA ReceivesAck ==
  ASSUME Dialogue!DialogueAssumption, DialogueInv, Dialogue!ReceiveAck
  PROVE  DialogueInv'
<1> USE DialogueConstants DEF Dialogue!ReceiveAck, Dialogue!ClientGoto, Dialogue!ServerGoto, Dialogue!clientVars,
                      Dialogue!serverVars, Dialogue!Next1, Dialogue!Replies
<1>1. Dialogue!TypeOK'
  BY DEF DialogueInv, Dialogue!TypeOK, Dialogue!Word, Dialogue!Words
<1>2. LastWords'
  BY DEF DialogueInv, Dialogue!TypeOK, LastWords, Completed, Nacked, Dialogue!Word
<1>3. InStep'
  <2>1. ASSUME ~short PROVE spc = "op" /\ toServer = <<>> /\ toClient = <<"ack">> /\ arrived = totalSent
    BY <2>1 DEF DialogueInv, InStep, AfterChunk, ChunkOnItsWay
  <2>2. ASSUME ~short PROVE arrived = counted /\ verdict # "success" /\ toClient' = <<>>
    BY <2>1, <2>2 DEF DialogueInv, LastWords, InStep
  <2>3. QED
    BY <2>1, <2>2 DEF DialogueInv, InStep, BeforeChunk, AfterChunk, AfterCompletion, Succeeded
<1>4. QED
  BY <1>1, <1>2, <1>3 DEF DialogueInv

\* The wait for an acknowledgement is given up.
LEMMA TimesOut ==
  ASSUME Dialogue!DialogueAssumption, DialogueInv, Dialogue!Timeout
  PROVE  DialogueInv'
<1> USE DialogueConstants DEF Dialogue!Timeout, Dialogue!ClientGoto, Dialogue!ServerGoto, Dialogue!clientVars,
                      Dialogue!serverVars, Dialogue!Next1, Dialogue!Replies
<1>1. Dialogue!TypeOK'
  <2>1. Dialogue!Word("abort") \in [word : Dialogue!Words, length : 0 .. ChunkSize]
    BY DEF Dialogue!Word, Dialogue!Words
  <2>2. toServer' \in Seq([word : Dialogue!Words, length : 0 .. ChunkSize])
    <3>1. toServer \in Seq([word : Dialogue!Words, length : 0 .. ChunkSize])
      BY DEF DialogueInv, Dialogue!TypeOK
    <3>2. toServer' = toServer \/ toServer' = Append(toServer, Dialogue!Word("abort"))
      OBVIOUS
    <3> HIDE DEF Dialogue!Timeout
    <3>3. Append(toServer, Dialogue!Word("abort")) \in Seq([word : Dialogue!Words, length : 0 .. ChunkSize])
      BY <2>1, <3>1, AppendProperties
    <3>4. QED
      BY <3>1, <3>2, <3>3, Zenon
  <2>3. QED
    BY <2>2 DEF DialogueInv, Dialogue!TypeOK
<1>2. LastWords'
  BY DEF DialogueInv, Dialogue!TypeOK, LastWords, Completed, Nacked, Dialogue!Word
<1>3. InStep'
  BY DEF DialogueInv, Dialogue!TypeOK, LastWords, InStep, BeforeChunk, AfterChunk, AfterCompletion, Succeeded,
     ChunkOnItsWay, Dialogue!Word
<1>4. QED
  BY <1>1, <1>2, <1>3 DEF DialogueInv

\* The verdict is taken from the connection.
LEMMA ReceivesResult ==
  ASSUME Dialogue!DialogueAssumption, DialogueInv, Dialogue!ReceiveResult
  PROVE  DialogueInv'
<1> USE DialogueConstants DEF Dialogue!ReceiveResult, Dialogue!ClientGoto, Dialogue!ServerGoto, Dialogue!clientVars,
                      Dialogue!serverVars, Dialogue!Next1, Dialogue!Replies
<1>1. Dialogue!TypeOK'
  BY DEF DialogueInv, Dialogue!TypeOK, Dialogue!Word, Dialogue!Words
<1>2. LastWords'
  BY DEF DialogueInv, Dialogue!TypeOK, LastWords, Completed, Nacked, Dialogue!Word
<1>3. InStep'
  BY DEF DialogueInv, Dialogue!TypeOK, LastWords, InStep, BeforeChunk, AfterChunk, AfterCompletion, Succeeded,
     ChunkOnItsWay, Dialogue!Word
<1>4. QED
  BY <1>1, <1>2, <1>3 DEF DialogueInv

\* The client finds the connection broken.
LEMMA ClientFails ==
  ASSUME Dialogue!DialogueAssumption, DialogueInv, Dialogue!ClientError
  PROVE  DialogueInv'
<1> USE DialogueConstants DEF Dialogue!ClientError, Dialogue!ClientGoto, Dialogue!ServerGoto, Dialogue!clientVars,
                      Dialogue!serverVars, Dialogue!Next1, Dialogue!Replies
<1>1. Dialogue!TypeOK'
  BY DEF DialogueInv, Dialogue!TypeOK, Dialogue!Word, Dialogue!Words
<1>2. LastWords'
  BY DEF DialogueInv, Dialogue!TypeOK, LastWords, Completed, Nacked, Dialogue!Word
<1>3. InStep'
  BY DEF DialogueInv, Dialogue!TypeOK, LastWords, InStep, BeforeChunk, AfterChunk, AfterCompletion, Succeeded,
     ChunkOnItsWay, Dialogue!Word
<1>4. QED
  BY <1>1, <1>2, <1>3 DEF DialogueInv

\* The handler reads the completion: everything has come by then.
LEMMA ReadsCompletion ==
  ASSUME Dialogue!DialogueAssumption, DialogueInv, Dialogue!ReadComplete
  PROVE  DialogueInv'
<1> USE DialogueConstants DEF Dialogue!ReadComplete, Dialogue!ClientGoto, Dialogue!ServerGoto, Dialogue!clientVars,
                      Dialogue!serverVars, Dialogue!Next1, Dialogue!Replies
<1>1. Dialogue!TypeOK'
  BY DEF DialogueInv, Dialogue!TypeOK, Dialogue!Word, Dialogue!Words
<1>2. LastWords'
  BY DEF DialogueInv, Dialogue!TypeOK, LastWords, Completed, Nacked, Dialogue!Word
<1>3. InStep'
  <2>1. Dialogue!Word("completeupload").word = "completeupload"
    BY DEF Dialogue!Word
  <2>2. \A n \in 1 .. ChunkSize : Head(<<Dialogue!Chunk(n)>> \o Dialogue!Bytes(n)).word = "uploadchunk"
    BY BytesAre
  <2>3. ASSUME ~short, ~broken PROVE \/ cpc = "closed"
                                   \/ /\ cpc = "result" /\ arrived = totalSent /\ totalSent = length
                                      /\ toClient = <<>> /\ toServer' = <<>>
    <3>1. cpc \notin {"open", "chunk", "silent"}
      BY <2>3 DEF DialogueInv, InStep, BeforeChunk
    <3>2. cpc # "ack"
      BY <2>2, <2>3 DEF DialogueInv, InStep, AfterChunk, ChunkOnItsWay
    <3>3. QED
      <4>1. ASSUME cpc = "result"
            PROVE  /\ arrived = totalSent /\ totalSent = length /\ toClient = <<>>
                   /\ toServer = <<Dialogue!Word("completeupload")>>
        BY <2>3, <4>1 DEF DialogueInv, InStep, AfterCompletion
      <4>2. Tail(<<Dialogue!Word("completeupload")>>) = <<>>
        OBVIOUS
      <4>3. cpc \in {"result", "closed"}
        BY <3>1, <3>2 DEF DialogueInv, Dialogue!TypeOK
      <4>4. QED
        BY <4>1, <4>2, <4>3
  <2>4. ASSUME ~short PROVE arrived = counted /\ verdict # "success"
    BY <2>4 DEF DialogueInv, InStep, Succeeded
  <2>5. ~broken
    BY DEF DialogueInv, InStep
  <2>6. QED
    BY <2>3, <2>4, <2>5 DEF DialogueInv, InStep, BeforeChunk, AfterChunk, AfterCompletion, Succeeded
<1>4. QED
  BY <1>1, <1>2, <1>3 DEF DialogueInv

\* The handler reads that the upload is given up.
LEMMA ReadsAbort ==
  ASSUME Dialogue!DialogueAssumption, DialogueInv, Dialogue!ReadAbort
  PROVE  DialogueInv'
<1> USE DialogueConstants DEF Dialogue!ReadAbort, Dialogue!ClientGoto, Dialogue!ServerGoto, Dialogue!clientVars,
                      Dialogue!serverVars, Dialogue!Next1, Dialogue!Replies
<1>1. Dialogue!TypeOK'
  BY DEF DialogueInv, Dialogue!TypeOK, Dialogue!Word, Dialogue!Words
<1>2. LastWords'
  <2>1. \A i \in DOMAIN Tail(toServer) : i + 1 \in DOMAIN toServer /\ Tail(toServer)[i] = toServer[i + 1]
    BY DEF DialogueInv, Dialogue!TypeOK
  <2>2. ASSUME Completed' PROVE Completed
    <3>1. saved' \/ \E i \in DOMAIN Tail(toServer) : Tail(toServer)[i].word = "completeupload"
      BY <2>2 DEF Completed
    <3>2. QED
      BY <2>1, <3>1 DEF Completed
  <2>3. Nacked' = Nacked
    BY DEF Nacked
  <2>4. LastWords /\ UNCHANGED <<cpc, verdict, saved>> /\ spc' = "finally"
    BY DEF DialogueInv
  <2>5. QED
    BY <2>2, <2>3, <2>4 DEF LastWords
<1>3. InStep'
  <2>1. Dialogue!Word("completeupload").word = "completeupload"
    BY DEF Dialogue!Word
  <2>2. \A n \in 1 .. ChunkSize : Head(<<Dialogue!Chunk(n)>> \o Dialogue!Bytes(n)).word = "uploadchunk"
    BY BytesAre
  <2>3. ASSUME ~short, ~broken PROVE cpc = "closed"
    <3>1. cpc \notin {"open", "chunk", "silent"}
      BY <2>3 DEF DialogueInv, InStep, BeforeChunk
    <3>2. cpc # "ack"
      BY <2>2, <2>3 DEF DialogueInv, InStep, AfterChunk, ChunkOnItsWay
    <3>3. QED
      BY <2>1, <2>3, <3>1, <3>2 DEF DialogueInv, Dialogue!TypeOK, InStep, AfterCompletion
  <2>4. ASSUME ~short PROVE arrived = counted /\ verdict # "success"
    BY <2>4 DEF DialogueInv, InStep, Succeeded
  <2>5. ~broken
    BY DEF DialogueInv, InStep
  <2>6. QED
    BY <2>3, <2>4, <2>5 DEF DialogueInv, InStep, BeforeChunk, AfterChunk, AfterCompletion, Succeeded
<1>4. QED
  BY <1>1, <1>2, <1>3 DEF DialogueInv

\* The handler compares what has come with what was announced.
LEMMA Checks ==
  ASSUME Dialogue!DialogueAssumption, DialogueInv, Dialogue!CheckIntegrity
  PROVE  DialogueInv'
<1> USE DialogueConstants DEF Dialogue!CheckIntegrity, Dialogue!ClientGoto, Dialogue!ServerGoto, Dialogue!clientVars,
                      Dialogue!serverVars, Dialogue!Next1, Dialogue!Replies
<1>1. Dialogue!TypeOK'
  BY DEF DialogueInv, Dialogue!TypeOK, Dialogue!Word, Dialogue!Words
<1>2. LastWords'
  BY DEF DialogueInv, Dialogue!TypeOK, LastWords, Completed, Nacked, Dialogue!Word
<1>3. InStep'
  <2>1. ASSUME ~short, ~broken
        PROVE  \/ cpc = "closed"
               \/ /\ cpc = "result" /\ arrived = totalSent /\ totalSent = length
                  /\ toServer = <<>> /\ toClient = <<>>
    BY <2>1 DEF DialogueInv, Dialogue!TypeOK, InStep, BeforeChunk, AfterChunk, ChunkOnItsWay, AfterCompletion
  <2>2. ASSUME ~short PROVE arrived = counted /\ verdict # "success"
    BY <2>2 DEF DialogueInv, InStep, Succeeded
  <2>3. \/ spc' = "write" /\ counted = Announced /\ (~broken => toClient' = Append(toClient, "ack"))
        \/ spc' = "finally" /\ (~broken => toClient' = Append(toClient, "nack"))
    BY DEF Dialogue!checkIntegrity
  <2>4. broken => toClient' = toClient
    OBVIOUS
  <2>5. /\ UNCHANGED <<cpc, length, totalSent, verdict, toServer, broken, counted, arrived, short>>
        /\ broken => toServer = <<>> /\ toClient = <<>>
    BY DEF DialogueInv, InStep
  <2> HIDE DEF Dialogue!CheckIntegrity
  <2>6. ASSUME ~short, ~broken PROVE (BeforeChunk /\ AfterChunk /\ AfterCompletion)'
    <3>1. CASE cpc = "closed"
      BY <2>5, <3>1 DEF BeforeChunk, AfterChunk, AfterCompletion
    <3>2. CASE cpc = "result"
      <4>1. arrived' = totalSent' /\ totalSent' = length' /\ toServer' = <<>> /\ toClient = <<>>
        BY <2>1, <2>5, <2>6, <3>2
      <4>2. \/ spc' = "write" /\ toClient' = <<"ack">> /\ counted' = Announced
            \/ spc' = "finally" /\ toClient' = <<"nack">>
        BY <2>3, <2>5, <2>6, <4>1
      <4>3. QED
        BY <2>5, <3>2, <4>1, <4>2 DEF BeforeChunk, AfterChunk, AfterCompletion
    <3>3. QED
      BY <2>1, <2>6, <3>1, <3>2
  <2>7. QED
    BY <2>2, <2>4, <2>5, <2>6 DEF DialogueInv, InStep, Succeeded
<1>4. QED
  BY <1>1, <1>2, <1>3 DEF DialogueInv

\* The handler stores what it has accepted.
LEMMA StoresUpload ==
  ASSUME Dialogue!DialogueAssumption, DialogueInv, Dialogue!WriteFile
  PROVE  DialogueInv'
<1> USE DialogueConstants DEF Dialogue!WriteFile, Dialogue!ClientGoto, Dialogue!ServerGoto, Dialogue!clientVars,
                      Dialogue!serverVars, Dialogue!Next1, Dialogue!Replies
<1>1. Dialogue!TypeOK'
  BY DEF DialogueInv, Dialogue!TypeOK, Dialogue!Word, Dialogue!Words
<1>2. LastWords'
  BY DEF DialogueInv, Dialogue!TypeOK, LastWords, Completed, Nacked, Dialogue!Word
<1>3. InStep'
  BY DEF DialogueInv, Dialogue!TypeOK, LastWords, InStep, BeforeChunk, AfterChunk, AfterCompletion, Succeeded,
     ChunkOnItsWay, Dialogue!Word
<1>4. QED
  BY <1>1, <1>2, <1>3 DEF DialogueInv

\* The handler finds the connection broken.
LEMMA HandlerFails ==
  ASSUME Dialogue!DialogueAssumption, DialogueInv, Dialogue!ServerError
  PROVE  DialogueInv'
<1> USE DialogueConstants DEF Dialogue!ServerError, Dialogue!ClientGoto, Dialogue!ServerGoto, Dialogue!clientVars,
                      Dialogue!serverVars, Dialogue!Next1, Dialogue!Replies
<1>1. Dialogue!TypeOK'
  BY DEF DialogueInv, Dialogue!TypeOK, Dialogue!Word, Dialogue!Words
<1>2. LastWords'
  BY DEF DialogueInv, Dialogue!TypeOK, LastWords, Completed, Nacked, Dialogue!Word
<1>3. InStep'
  BY DEF DialogueInv, Dialogue!TypeOK, LastWords, InStep, BeforeChunk, AfterChunk, AfterCompletion, Succeeded,
     ChunkOnItsWay, Dialogue!Word
<1>4. QED
  BY <1>1, <1>2, <1>3 DEF DialogueInv

\* The handler ends.
LEMMA Finishes ==
  ASSUME Dialogue!DialogueAssumption, DialogueInv, Dialogue!Finally
  PROVE  DialogueInv'
<1> USE DialogueConstants DEF Dialogue!Finally, Dialogue!ClientGoto, Dialogue!ServerGoto, Dialogue!clientVars,
                      Dialogue!serverVars, Dialogue!Next1, Dialogue!Replies
<1>1. Dialogue!TypeOK'
  BY DEF DialogueInv, Dialogue!TypeOK, Dialogue!Word, Dialogue!Words
<1>2. LastWords'
  BY DEF DialogueInv, Dialogue!TypeOK, LastWords, Completed, Nacked, Dialogue!Word
<1>3. InStep'
  BY DEF DialogueInv, Dialogue!TypeOK, LastWords, InStep, BeforeChunk, AfterChunk, AfterCompletion, Succeeded,
     ChunkOnItsWay, Dialogue!Word
<1>4. QED
  BY <1>1, <1>2, <1>3 DEF DialogueInv

\* The connection breaks.
LEMMA Breaks ==
  ASSUME Dialogue!DialogueAssumption, DialogueInv, Dialogue!Break
  PROVE  DialogueInv'
<1> USE DialogueConstants DEF Dialogue!Break, Dialogue!ClientGoto, Dialogue!ServerGoto, Dialogue!clientVars,
                      Dialogue!serverVars, Dialogue!Next1, Dialogue!Replies
<1>1. Dialogue!TypeOK'
  BY DEF DialogueInv, Dialogue!TypeOK, Dialogue!Word, Dialogue!Words
<1>2. LastWords'
  BY DEF DialogueInv, Dialogue!TypeOK, LastWords, Completed, Nacked, Dialogue!Word
<1>3. InStep'
  BY DEF DialogueInv, Dialogue!TypeOK, LastWords, InStep, BeforeChunk, AfterChunk, AfterCompletion, Succeeded,
     ChunkOnItsWay, Dialogue!Word
<1>4. QED
  BY <1>1, <1>2, <1>3 DEF DialogueInv

\* The handler reads the header of a chunk.
LEMMA ReadsLength ==
  ASSUME Dialogue!DialogueAssumption, DialogueInv, Dialogue!ReadChunkLength
  PROVE  DialogueInv'
<1> USE DialogueConstants DEF Dialogue!ReadChunkLength, Dialogue!ServerGoto, Dialogue!clientVars, Dialogue!Next1
<1>1. Dialogue!TypeOK'
  <2>1. toServer \in Seq([word : Dialogue!Words, length : 0 .. ChunkSize]) /\ toServer # <<>>
    BY DEF DialogueInv, Dialogue!TypeOK
  <2>2. /\ Head(toServer) \in [word : Dialogue!Words, length : 0 .. ChunkSize]
        /\ Tail(toServer) \in Seq([word : Dialogue!Words, length : 0 .. ChunkSize])
    BY <2>1, HeadTailProperties
  <2>3. want' \in 0 .. ChunkSize
    BY <2>2
  <2>4. QED
    BY <2>2, <2>3 DEF DialogueInv, Dialogue!TypeOK
<1>2. LastWords'
  <2>1. toServer \in Seq(DialogueWords) /\ toServer # <<>> /\ toServer' = Tail(toServer)
    BY DEF DialogueInv, Dialogue!TypeOK, DialogueWords
  <2>2. \A i \in DOMAIN Tail(toServer) : i + 1 \in DOMAIN toServer /\ Tail(toServer)[i] = toServer[i + 1]
    BY <2>1, HeadTailProperties
  <2>3. Completed' => Completed
    BY <2>1, <2>2 DEF Completed
  <2>4. QED
    BY <2>3 DEF DialogueInv, LastWords, Nacked
<1>3. InStep'
  <2>1. Dialogue!Word("completeupload").word = "completeupload"
    BY DEF Dialogue!Word
  <2>2. \A n \in 1 .. ChunkSize : /\ Head(<<Dialogue!Chunk(n)>> \o Dialogue!Bytes(n)).length = n
                                  /\ Tail(<<Dialogue!Chunk(n)>> \o Dialogue!Bytes(n)) = Dialogue!Bytes(n)
    BY BytesAre
  <2>3. ~broken
    BY DEF DialogueInv, InStep
  <2>4. ASSUME ~short
        PROVE  \/ cpc = "closed"
               \/ cpc = "ack" /\ \E n \in 1 .. ChunkSize :
                    arrived + n = totalSent /\ toClient = <<>> /\ want' = n /\ toServer' = Dialogue!Bytes(n)
    <3>1. cpc \notin {"open", "chunk", "silent"}
      BY <2>3, <2>4 DEF DialogueInv, InStep, BeforeChunk
    <3>2. cpc # "result"
      BY <2>1, <2>3, <2>4 DEF DialogueInv, InStep, AfterCompletion
    <3>3. CASE cpc = "ack"
      <4>1. PICK n \in 1 .. ChunkSize : ChunkOnItsWay(n)
        BY <2>3, <2>4, <3>3 DEF DialogueInv, InStep, AfterChunk
      <4>2. toServer = <<Dialogue!Chunk(n)>> \o Dialogue!Bytes(n)
        BY <4>1 DEF ChunkOnItsWay
      <4>3. QED
        BY <2>2, <3>3, <4>1, <4>2 DEF ChunkOnItsWay
    <3>4. QED
      BY <3>1, <3>2, <3>3 DEF DialogueInv, Dialogue!TypeOK
  <2>5. ASSUME ~short PROVE arrived = counted /\ verdict # "success"
    BY <2>5 DEF DialogueInv, InStep, Succeeded
  <2>6. QED
    BY <2>3, <2>4, <2>5 DEF DialogueInv, InStep, BeforeChunk, AfterChunk, ChunkOnItsWay, AfterCompletion, Succeeded
<1>4. QED
  BY <1>1, <1>2, <1>3 DEF DialogueInv

\* What is left of the stream has no word that was not there.
LEMMA RestOfStream ==
  ASSUME toServer \in Seq(DialogueWords), NEW n \in 1 .. Len(toServer)
  PROVE  /\ SubSeq(toServer, n + 1, Len(toServer)) \in Seq(DialogueWords)
         /\ \A i \in DOMAIN SubSeq(toServer, n + 1, Len(toServer)) :
              \E j \in DOMAIN toServer : SubSeq(toServer, n + 1, Len(toServer))[i] = toServer[j]
<1> DEFINE rest == SubSeq(toServer, n + 1, Len(toServer))
<1>1. rest \in Seq(DialogueWords) /\ Len(rest) = Len(toServer) - n
  OBVIOUS
<1>2. \A i \in 1 .. Len(toServer) - n : rest[i] = toServer[n + i] /\ n + i \in DOMAIN toServer
  OBVIOUS
<1>3. QED
  BY <1>1, <1>2

\* The handler reads the data of a chunk, perhaps not all of it.
LEMMA ReadsBytes ==
  ASSUME Dialogue!DialogueAssumption, DialogueInv, Dialogue!ReadBytes
  PROVE  DialogueInv'
<1> USE DialogueConstants DEF Dialogue!ServerGoto, Dialogue!clientVars
<1>1. toServer \in Seq(DialogueWords) /\ want \in Nat
  BY DEF DialogueInv, Dialogue!TypeOK, DialogueWords
<1>2. PICK n \in 1 .. Dialogue!Min({want, Dialogue!Available}) :
        /\ toServer' = SubSeq(toServer, n + 1, Len(toServer))
        /\ arrived' = arrived + n
        /\ short' = (short \/ n < want)
  BY DEF Dialogue!ReadBytes
<1>3. n \in 1 .. Len(toServer) /\ n <= want
  BY <1>1, <1>2, AvailableIn, MinOf
<1>4. /\ spc = "bytes" /\ spc' = "op" /\ counted' = counted + want
      /\ toClient' = IF broken THEN toClient ELSE Append(toClient, "ack")
      /\ UNCHANGED <<cpc, length, totalSent, verdict, broken, want, saved>>
  BY DEF Dialogue!ReadBytes, Dialogue!Replies
<1>5. toServer' \in Seq(DialogueWords)
  BY <1>1, <1>2, <1>3, RestOfStream
<1>6. \A i \in DOMAIN toServer' : \E j \in DOMAIN toServer : toServer'[i] = toServer[j]
  BY <1>1, <1>2, <1>3, RestOfStream
<1>7. Dialogue!TypeOK'
  <2>1. toClient' \in Seq({"ack", "nack"})
    BY <1>4 DEF DialogueInv, Dialogue!TypeOK
  <2>2. {counted, arrived}' \subseteq Nat /\ arrived' <= counted'
    <3>1. counted \in Nat /\ arrived \in Nat /\ arrived <= counted
      BY DEF DialogueInv, Dialogue!TypeOK
    <3>2. counted' \in Nat /\ arrived' \in Nat /\ arrived' <= counted'
      BY <1>1, <1>2, <1>3, <1>4, <3>1
    <3>3. QED
      BY <3>2
  <2>3. short' \in BOOLEAN
    BY <1>2
  <2>4. QED
    BY <1>4, <1>5, <2>1, <2>2, <2>3 DEF DialogueInv, Dialogue!TypeOK, DialogueWords
<1>8. LastWords'
  <2>1. Completed' => Completed
    BY <1>4, <1>6 DEF Completed
  <2>2. verdict # "integrity" /\ \A i \in DOMAIN toClient : toClient[i] # "nack"
    BY <1>4 DEF DialogueInv, LastWords, Nacked
  <2>3. ~Nacked'
    BY <1>4, <2>2 DEF DialogueInv, Dialogue!TypeOK, Nacked
  <2>4. QED
    BY <1>4, <2>1, <2>3 DEF DialogueInv, LastWords
<1>9. InStep'
  <2>1. ~broken
    BY <1>1, <1>3 DEF DialogueInv, InStep
  <2>2. SUFFICES ASSUME ~short, n = want
                 PROVE  (arrived = counted /\ BeforeChunk /\ AfterChunk /\ AfterCompletion /\ Succeeded)'
    <3>1. ASSUME ~short' PROVE ~short /\ n = want
      <4>1. ~short /\ ~(n < want)
        BY <1>2, <3>1, Zenon
      <4>2. QED
        BY <1>1, <1>3, <4>1
    <3>2. ~broken'
      BY <1>4, <2>1
    <3>3. QED
      BY <3>1, <3>2 DEF InStep
  <2>3. arrived' = counted' /\ verdict' # "success"
    BY <1>2, <1>4, <2>2 DEF DialogueInv, Dialogue!TypeOK, InStep, Succeeded
  <2>4. cpc \notin {"open", "chunk", "silent", "result"}
    BY <1>4, <2>1, <2>2 DEF DialogueInv, InStep, BeforeChunk, AfterCompletion
  <2>5. ASSUME cpc = "ack"
        PROVE  toServer' = <<>> /\ toClient' = <<"ack">> /\ arrived' = totalSent'
    <3>1. PICK m \in 1 .. ChunkSize : ChunkOnItsWay(m)
      BY <1>4, <2>1, <2>2, <2>5 DEF DialogueInv, InStep, AfterChunk
    <3>2. arrived + m = totalSent /\ toClient = <<>> /\ want = m /\ toServer = Dialogue!Bytes(m)
      BY <1>4, <3>1 DEF ChunkOnItsWay
    <3>3. Len(toServer) = m /\ SubSeq(Dialogue!Bytes(m), m + 1, m) = <<>>
      BY <3>2, BytesAre
    <3>4. QED
      BY <1>2, <1>4, <2>1, <2>2, <3>2, <3>3
  <2>6. QED
    BY <1>4, <2>3, <2>4, <2>5 DEF BeforeChunk, AfterChunk, AfterCompletion, Succeeded
<1>10. QED
  BY <1>7, <1>8, <1>9 DEF DialogueInv

\* The handler takes data for a word: only after a short read.
LEMMA ReadsGarbage ==
  ASSUME Dialogue!DialogueAssumption, DialogueInv, Dialogue!ReadGarbage
  PROVE  DialogueInv'
<1> USE DialogueConstants DEF Dialogue!clientVars
<1>1. /\ spc = "op" /\ spc' \in {"op", "finally", "stuck"} /\ toServer # <<>> /\ Head(toServer) = Dialogue!Byte
      /\ UNCHANGED <<cpc, length, totalSent, verdict, toClient, broken, want, counted, arrived, short, saved>>
  BY DEF Dialogue!ReadGarbage, Dialogue!Next1
<1>2. toServer \in Seq(DialogueWords)
  BY DEF DialogueInv, Dialogue!TypeOK, DialogueWords
<1>3. /\ toServer' \in Seq(DialogueWords)
      /\ \A i \in DOMAIN toServer' :
           toServer'[i] = Dialogue!Byte \/ \E j \in DOMAIN toServer : toServer'[i] = toServer[j]
  <2>1. CASE UNCHANGED toServer
    BY <1>2, <2>1
  <2>2. CASE \E n \in 1 .. Len(toServer) : toServer' = SubSeq(toServer, n + 1, Len(toServer))
    BY <1>2, <2>2, RestOfStream
  <2>3. CASE \E n \in 1 .. Len(toServer) :
               toServer' = <<Dialogue!Byte>> \o SubSeq(toServer, n + 1, Len(toServer))
    <3>1. PICK n \in 1 .. Len(toServer) :
               toServer' = <<Dialogue!Byte>> \o SubSeq(toServer, n + 1, Len(toServer))
      BY <2>3
    <3> DEFINE rest == SubSeq(toServer, n + 1, Len(toServer))
    <3>2. /\ rest \in Seq(DialogueWords)
          /\ \A i \in DOMAIN rest : \E j \in DOMAIN toServer : rest[i] = toServer[j]
      BY <1>2, RestOfStream
    <3>3. Dialogue!Byte \in DialogueWords
      BY DEF Dialogue!Byte, Dialogue!Word, DialogueWords, Dialogue!Words
    <3> HIDE DEF rest
    <3>4. <<Dialogue!Byte>> \o rest \in Seq(DialogueWords)
      BY <3>2, <3>3
    <3>5. ASSUME NEW i \in DOMAIN (<<Dialogue!Byte>> \o rest)
          PROVE  \/ (<<Dialogue!Byte>> \o rest)[i] = Dialogue!Byte
                 \/ i - 1 \in DOMAIN rest /\ (<<Dialogue!Byte>> \o rest)[i] = rest[i - 1]
      BY <3>2, <3>3
    <3>6. QED
      BY <3>1, <3>2, <3>4, <3>5 DEF rest
  <2>4. QED
    BY <2>1, <2>2, <2>3 DEF Dialogue!ReadGarbage
<1>4. Dialogue!TypeOK'
  BY <1>1, <1>3 DEF DialogueInv, Dialogue!TypeOK, DialogueWords
<1>5. LastWords'
  <2>1. Dialogue!Byte.word # "completeupload"
    BY DEF Dialogue!Byte, Dialogue!Word
  <2>2. Completed' => Completed
    BY <1>1, <1>3, <2>1 DEF Completed
  <2>3. QED
    BY <1>1, <2>2 DEF DialogueInv, LastWords, Nacked
<1>6. InStep'
  <2>1. /\ ~broken
        /\ ~short => arrived = counted /\ verdict # "success"
    BY <1>1 DEF DialogueInv, InStep, Succeeded
  <2>2. ASSUME ~short PROVE cpc = "closed"
    <3>1. cpc \notin {"open", "chunk", "silent"}
      BY <1>1, <2>1, <2>2 DEF DialogueInv, InStep, BeforeChunk
    <3>2. cpc # "ack"
      <4>1. \A n \in 1 .. ChunkSize : Head(<<Dialogue!Chunk(n)>> \o Dialogue!Bytes(n)).word = "uploadchunk"
        BY BytesAre
      <4>2. Head(toServer).word = "byte"
        BY <1>1 DEF Dialogue!Byte, Dialogue!Word
      <4>3. QED
        BY <1>1, <2>1, <2>2, <4>1, <4>2 DEF DialogueInv, InStep, AfterChunk, ChunkOnItsWay
    <3>3. cpc # "result"
      BY <1>1, <2>1, <2>2 DEF DialogueInv, InStep, AfterCompletion, Dialogue!Byte, Dialogue!Word
    <3>4. QED
      BY <3>1, <3>2, <3>3 DEF DialogueInv, Dialogue!TypeOK
  <2>3. QED
    BY <1>1, <2>1, <2>2 DEF DialogueInv, InStep, BeforeChunk, AfterChunk, AfterCompletion, Succeeded
<1>7. QED
  BY <1>4, <1>5, <1>6 DEF DialogueInv

-----------------------------------------------------------------------------
(* The theorems *)

\* Every step keeps the invariant.
LEMMA DialogueNext ==
  ASSUME Dialogue!DialogueAssumption, DialogueInv, [Dialogue!Next]_(Dialogue!vars)
  PROVE  DialogueInv'
<1>1. CASE UNCHANGED Dialogue!vars
  BY <1>1 DEF Dialogue!vars, DialogueInv, Dialogue!TypeOK, LastWords, Completed, Nacked, InStep,
    BeforeChunk, AfterChunk, ChunkOnItsWay, AfterCompletion, Succeeded
<1>2. CASE Dialogue!Client
  BY <1>2, Opens, GivesUp, SendsChunk, SendsCompletion, ReceivesAck, TimesOut, ReceivesResult, ClientFails
     DEF Dialogue!Client
<1>3. CASE Dialogue!Server
  BY <1>3, ReadsLength, ReadsBytes, ReadsGarbage, ReadsCompletion, ReadsAbort, Checks, StoresUpload, HandlerFails,
     Finishes DEF Dialogue!Server
<1>4. CASE Dialogue!Break
  BY <1>4, Breaks
<1>5. QED
  BY <1>1, <1>2, <1>3, <1>4 DEF Dialogue!Next

\* For any length announced, any length the file then has and any size of the chunks:
\* chunks go one by one, a reported success means that all of the file has come, and what
\* was given up or refused is not stored.
THEOREM UploadsInOrder ==
  ASSUME Dialogue!DialogueAssumption
  PROVE  Dialogue!Spec => [](Dialogue!Inv /\ Dialogue!SuccessIsComplete /\ Dialogue!RefusedIsNotSaved)
<1>1. Dialogue!Init => DialogueInv
  BY DialogueInit
<1>2. DialogueInv /\ [Dialogue!Next]_(Dialogue!vars) => DialogueInv'
  BY DialogueNext
<1>3. ASSUME DialogueInv
      PROVE  Dialogue!Inv /\ Dialogue!SuccessIsComplete /\ Dialogue!RefusedIsNotSaved
  <2>1. Dialogue!Inv
    BY <1>3 DEF DialogueInv, InStep, BeforeChunk, Dialogue!Inv, Dialogue!DataInOrder
  <2>2. Dialogue!SuccessIsComplete
    BY <1>3 DEF DialogueInv, InStep, Succeeded, Dialogue!SuccessIsComplete
  <2>3. Dialogue!RefusedIsNotSaved
    BY <1>3 DEF DialogueInv, LastWords, Completed, Nacked, Dialogue!RefusedIsNotSaved
  <2>4. QED
    BY <2>1, <2>2, <2>3
<1>4. QED
  BY <1>1, <1>2, <1>3, PTL DEF Dialogue!Spec

-----------------------------------------------------------------------------
(* The downloads of a client *)

CONSTANTS Files, LengthOf, Replies

VARIABLES tpc, offset, replies, downloads, reader, chunk, collected, stored, shortRead, failed

Download == INSTANCE Downloads WITH stream <- downloads, short <- shortRead

\* The words about the state of a download.
Controls == {"downloadbegin", "downloadchunk", "downloadcomplete"}

\* What can be on its way.
Messages ==
  [word : Controls \cup {"print", "downloadabort", "piece"}, file : Files \cup {"none"},
   length : 0 .. ChunkSize, piece : (Files \cup {"zero"}) \X Nat]

\* Words about a download name it, and only pieces have contents.
Sound ==
  /\ downloads \in Seq(Messages)
  /\ \A i \in DOMAIN downloads :
       /\ downloads[i].word \in Controls => downloads[i].file \in Files
       /\ downloads[i].word # "piece" => downloads[i].piece = Download!Zero
  /\ reader = "data" => chunk[1] \in Files
  /\ chunk = <<chunk[1], chunk[2]>> /\ offset \in [Files -> Nat]
  /\ \A f \in DOMAIN collected : collected[f] \in Seq((Files \cup {"zero"}) \X Nat)

\* What is on its way with the header that has been read before its data.
Line ==
  IF reader = "data" THEN <<Download!Msg("downloadchunk", chunk[1], chunk[2])>> \o downloads ELSE downloads

\* At this place on the line is that word about that download.
At(i, w, f) == i \in DOMAIN Line /\ Line[i].word = w /\ Line[i].file = f

\* How much has been collected of a download.
Got(f) == IF f \in DOMAIN collected THEN Len(collected[f]) ELSE 0

\* The chunks of a download follow each other in the file, start being where they begin:
\* so they never come to more than the file has, in whatever disorder they are read.
Spaced(start) ==
  \A f \in Files : Got(f) <= offset[f] /\ \A i \in 1 .. Len(Line) : At(i, "downloadchunk", f) =>
    /\ Got(f) <= start[i] /\ start[i] + Line[i].length <= offset[f]
    /\ \A j \in 1 .. Len(Line) :
         i < j /\ At(j, "downloadchunk", f) => start[i] + Line[i].length <= start[j]

\* As long as all is in order: after a header come its pieces, and pieces come nowhere else.
Framed(start) ==
  /\ \A i \in 1 .. Len(Line) : Line[i].word = "downloadchunk" =>
       /\ Line[i].length >= 1 /\ i + Line[i].length <= Len(Line)
       /\ \A j \in 1 .. Line[i].length :
            Line[i + j].word = "piece" /\ Line[i + j].piece = Download!Piece(Line[i].file, start[i] + j)
  /\ \A i \in 1 .. Len(Line) :
       /\ Line[i].word # "downloadabort"
       /\ Line[i].word = "piece" =>
            \E c \in 1 .. i - 1 : Line[c].word = "downloadchunk" /\ i <= c + Line[c].length

\* The place in a file up to which what is collected and what comes before i bring it.
Reached(start, f, place, i) ==
  \/ place = Got(f)
  \/ \E c \in 1 .. Len(Line) :
       c < i /\ At(c, "downloadchunk", f) /\ start[c] + Line[c].length = place

\* No chunk is missing before another, before the completion, or before what comes next.
Gapless(start) ==
  /\ \A f \in Files : \A i \in 1 .. Len(Line) :
       /\ At(i, "downloadchunk", f) => Reached(start, f, start[i], i)
       /\ At(i, "downloadcomplete", f) => Reached(start, f, LengthOf[f], i)
  /\ \A f \in Files : tpc[f] = "read" => Reached(start, f, offset[f], Len(Line) + 1)
  /\ \A f \in Files : tpc[f] = "open" => offset[f] = 0

\* A download begins before its first chunk, and its completion is its last word.
Bracketed ==
  \A f \in Files :
    /\ tpc[f] = "open" => /\ f \notin DOMAIN collected
                          /\ \A i \in 1 .. Len(Line), w \in Controls : ~At(i, w, f)
    /\ tpc[f] = "read" => f \in DOMAIN collected \/ \E b \in 1 .. Len(Line) : At(b, "downloadbegin", f)
    /\ \A i \in 1 .. Len(Line) :
         /\ At(i, "downloadbegin", f) =>
              /\ f \notin DOMAIN collected
              /\ \A j \in 1 .. Len(Line), w \in Controls : At(j, w, f) => i <= j
         /\ \A w \in {"downloadchunk", "downloadcomplete"} : At(i, w, f) =>
              f \in DOMAIN collected \/ \E b \in 1 .. Len(Line) : b < i /\ At(b, "downloadbegin", f)
         /\ At(i, "downloadcomplete", f) =>
              /\ tpc[f] = "over"
              /\ \A j \in 1 .. Len(Line), w \in Controls : At(j, w, f) => j <= i

\* What has been collected and stored are the pieces, each at its place.
InPlace ==
  /\ \A f \in DOMAIN collected : \A i \in 1 .. Len(collected[f]) : collected[f][i] = Download!Piece(f, i)
  /\ \A d \in stored : d[2] = Download!Contents(d[1])

\* The state as long as no read was short and no file unreadable.
Orderly(start) ==
  /\ reader \in {"word", "data"}
  /\ Framed(start) /\ Gapless(start) /\ Bracketed /\ InPlace

\* The inductive invariant: for some assignment of places to the chunks on the line.
DownloadsInv ==
  /\ Download!TypeOK /\ Sound
  /\ \E start \in [Nat -> Nat] : Spaced(start) /\ (~shortRead /\ ~failed => Orderly(start))

-----------------------------------------------------------------------------
(* Lemmas *)

\* A set of numbers that is bounded and has 0 has a greatest one.
LEMMA GreatestNumber ==
  ASSUME NEW k \in Nat, NEW S \in SUBSET (0 .. k), 0 \in S
  PROVE  \E m \in S : \A x \in S : m >= x
<1> DEFINE T == {n \in Nat : \A x \in S : x <= n}
<1>1. T \subseteq Nat /\ k \in T
  OBVIOUS
<1>2. PICK m \in T : \A n \in T : m <= n
  BY <1>1, LeastNumber
<1>3. m \in S
  <2>1. SUFFICES ASSUME m \notin S PROVE FALSE
    OBVIOUS
  <2>2. m > 0 /\ m - 1 \in T
    BY <2>1
  <2>3. QED
    BY <1>2, <2>2
<1>4. QED
  BY <1>3

\* The smaller of two numbers.
LEMMA DownloadMin ==
  ASSUME NEW a \in Nat, NEW b \in Nat
  PROVE  Download!Min({a, b}) \in {a, b} /\ Download!Min({a, b}) <= a /\ Download!Min({a, b}) <= b
<1>1. \E x \in {a, b} : \A y \in {a, b} : x =< y
  OBVIOUS
<1>2. QED
  BY <1>1 DEF Download!Min

\* The constants are numbers.
LEMMA DownloadConstants ==
  ASSUME Download!DownloadAssumption
  PROVE  LengthOf \in [Files -> Nat] /\ ChunkSize \in Nat /\ ChunkSize > 0
BY DEF Download!DownloadAssumption

\* There are as many pieces at the head of the stream as a read can give.
LEMMA PiecesAvailable ==
  ASSUME downloads \in Seq(Messages)
  PROVE  /\ Download!Available \in 0 .. Len(downloads)
         /\ \A i \in 1 .. Download!Available : downloads[i].word = "piece"
<1> DEFINE S == {n \in 0 .. Len(downloads) : \A i \in 1 .. n : downloads[i].word = "piece"}
<1>1. Len(downloads) \in Nat /\ S \in SUBSET (0 .. Len(downloads)) /\ 0 \in S
  OBVIOUS
<1> HIDE DEF S
<1>2. \E m \in S : \A x \in S : m >= x
  BY <1>1, GreatestNumber
<1>3. Download!Available = Download!Max(S)
  BY DEF Download!Available, S
<1>4. Download!Max(S) \in S
  BY <1>2 DEF Download!Max
<1>5. QED
  BY <1>3, <1>4 DEF S

\* The fields of a message.
LEMMA MsgIs ==
  ASSUME NEW w, NEW f, NEW n
  PROVE  /\ Download!Msg(w, f, n).word = w /\ Download!Msg(w, f, n).file = f
         /\ Download!Msg(w, f, n).length = n /\ Download!Msg(w, f, n).piece = Download!Zero
BY DEF Download!Msg

\* Messages are messages.
LEMMA MsgIn ==
  ASSUME NEW w \in Controls \cup {"print", "downloadabort"}, NEW f \in Files \cup {"none"},
         NEW n \in 0 .. ChunkSize
  PROVE  Download!Msg(w, f, n) \in Messages
<1>1. Download!Zero \in (Files \cup {"zero"}) \X Nat
  BY DEF Download!Zero
<1>2. QED
  BY <1>1 DEF Download!Msg, Messages

\* What is on the line.
LEMMA LineIs ==
  ASSUME Download!TypeOK, Sound
  PROVE  /\ Line \in Seq(Messages) /\ Len(Line) \in Nat
         /\ reader # "data" => Line = downloads
         /\ reader = "data" =>
              /\ Len(Line) = Len(downloads) + 1 /\ At(1, "downloadchunk", chunk[1])
              /\ chunk[1] \in Files /\ Line[1].length = chunk[2]
              /\ \A i \in 1 .. Len(downloads) : Line[i + 1] = downloads[i]
         /\ \A i \in 1 .. Len(Line) : Line[i].word \in Controls => Line[i].file \in Files
<1>1. downloads \in Seq(Messages)
  BY DEF Sound
<1>2. CASE reader # "data"
  BY <1>1, <1>2 DEF Line, Sound
<1>3. CASE reader = "data"
  <2> DEFINE m == Download!Msg("downloadchunk", chunk[1], chunk[2])
  <2>1. chunk[1] \in Files /\ chunk[2] \in 0 .. ChunkSize
    BY <1>3 DEF Sound, Download!TypeOK
  <2>2. m \in Messages
    BY <2>1, MsgIn DEF Controls
  <2>3. m.word = "downloadchunk" /\ m.file = chunk[1] /\ m.length = chunk[2]
    BY MsgIs
  <2>4. Line = <<m>> \o downloads
    BY <1>3 DEF Line
  <2> HIDE DEF m
  <2>5. Line \in Seq(Messages) /\ Len(Line) = Len(downloads) + 1 /\ Line[1] = m
        /\ \A i \in 1 .. Len(downloads) : Line[i + 1] = downloads[i]
    BY <1>1, <2>2, <2>4
  <2>6. \A i \in 1 .. Len(Line) : Line[i].word \in Controls => Line[i].file \in Files
    <3>1. TAKE i \in 1 .. Len(Line)
    <3>2. i = 1 \/ (i - 1 \in 1 .. Len(downloads) /\ Line[i] = downloads[i - 1])
      <4>1. Len(Line) = Len(downloads) + 1 /\ Len(downloads) \in Nat
        BY <1>1, <2>5
      <4>2. i = 1 \/ i - 1 \in 1 .. Len(downloads)
        BY <4>1
      <4>3. ASSUME i - 1 \in 1 .. Len(downloads) PROVE Line[(i - 1) + 1] = downloads[i - 1]
        BY <2>5, <4>3
      <4>4. (i - 1) + 1 = i
        BY <4>1
      <4>5. CASE i - 1 \in 1 .. Len(downloads)
        <5>1. Line[(i - 1) + 1] = downloads[i - 1]
          BY <4>3, <4>5
        <5>2. Line[i] = downloads[i - 1]
          BY <4>4, <5>1
        <5>3. QED
          BY <4>5, <5>2
      <4>6. CASE i = 1
        BY <4>6
      <4>7. QED
        BY <4>2, <4>5, <4>6
    <3>3. QED
      BY <1>1, <2>1, <2>3, <2>5, <3>2 DEF Sound
  <2>7. Len(Line) \in Nat /\ Len(Line) = Len(downloads) + 1 /\ 1 \in DOMAIN Line
    <3>1. Len(downloads) \in Nat /\ DOMAIN Line = 1 .. Len(Line)
      BY <1>1, <2>5
    <3>2. QED
      BY <2>5, <3>1
  <2>8. At(1, "downloadchunk", chunk[1]) /\ Line[1].length = chunk[2]
    BY <2>3, <2>5, <2>7 DEF At
  <2>9. QED
    BY <1>3, <2>1, <2>5, <2>6, <2>7, <2>8, Zenon
<1>4. QED
  BY <1>2, <1>3

\* What is written goes to the end of the line.
LEMMA LineGrows ==
  ASSUME Download!TypeOK, Sound, NEW msgs \in Seq(Messages), downloads' = downloads \o msgs,
         UNCHANGED <<reader, chunk>>
  PROVE  /\ Line' = Line \o msgs /\ Len(Line') = Len(Line) + Len(msgs)
         /\ \A i \in 1 .. Len(Line) : Line'[i] = Line[i]
         /\ \A i \in 1 .. Len(msgs) : Line'[Len(Line) + i] = msgs[i]
         /\ downloads' \in Seq(Messages) /\ Line' \in Seq(Messages)
<1>1. downloads \in Seq(Messages) /\ Line \in Seq(Messages)
  BY LineIs DEF Sound
<1>2. Line' = Line \o msgs
  <2>1. CASE reader = "data"
    <3>1. Download!Msg("downloadchunk", chunk[1], chunk[2]) \in Messages
      BY <2>1, MsgIn DEF Sound, Controls, Download!TypeOK
    <3>2. <<Download!Msg("downloadchunk", chunk[1], chunk[2])>> \in Seq(Messages)
      BY <3>1
    <3>3. QED
      BY <1>1, <2>1, <3>2, ConcatAssociative DEF Line
  <2>2. CASE reader # "data"
    BY <2>2 DEF Line
  <2>3. QED
    BY <2>1, <2>2
<1>3. QED
  BY <1>1, <1>2

-----------------------------------------------------------------------------
(* The line loses what has been read *)

\* The first k words have been taken off the line.
Loses(k) ==
  /\ ChunkSize \in Nat /\ Line \in Seq(Messages) /\ Line' \in Seq(Messages)
  /\ k \in 0 .. Len(Line) /\ Len(Line') = Len(Line) - k
  /\ \A i \in 1 .. Len(Line') : Line'[i] = Line[i + k]

\* The places then.
After(start, k) == [i \in Nat |-> start[i + k]]

\* How much is collected of each download afterwards.
RoomLeft(start, k) ==
  /\ UNCHANGED offset
  /\ \A f \in Files :
       /\ Got(f)' <= offset[f]
       /\ \A i \in 1 .. Len(Line) : i > k /\ At(i, "downloadchunk", f) => Got(f)' <= start[i]

\* What has been collected ends where the chunks read end.
Collects(start, k) ==
  \A f \in Files, c \in 1 .. k : At(c, "downloadchunk", f) => start[c] + Line[c].length = Got(f)'

\* Where no more is collected, or what has been collected is no place anything on the line
\* starts or ends at, or nothing of the download is left.
Passes(start, k, f) ==
  \/ Got(f)' = Got(f)
  \/ /\ LengthOf[f] # Got(f) /\ offset[f] # Got(f)
     /\ \A i \in 1 .. Len(Line) : i > k /\ At(i, "downloadchunk", f) => start[i] # Got(f)
  \/ /\ tpc[f] # "read"
     /\ \A i \in 1 .. Len(Line), w \in Controls : i > k => ~At(i, w, f)

\* A download is begun and forgotten as the words read say.
BeginsAndEnds(k) ==
  /\ UNCHANGED tpc
  /\ \A f \in Files :
       /\ f \in DOMAIN collected' => f \in DOMAIN collected \/ \E b \in 1 .. k : At(b, "downloadbegin", f)
       /\ (\E b \in 1 .. k : At(b, "downloadbegin", f)) => f \in DOMAIN collected'
       /\ f \in DOMAIN collected =>
            f \in DOMAIN collected' \/ \E b \in 1 .. k : At(b, "downloadcomplete", f)

\* The words read end with the end of a chunk.
WholeChunks(k) == \A c \in 1 .. k : Line[c].word = "downloadchunk" => c + Line[c].length <= k

\* Where the words of the line are after a read.
LEMMA LosesAt ==
  ASSUME NEW k \in Nat, Loses(k)
  PROVE  /\ Len(Line) \in Nat /\ Len(Line') \in Nat /\ Len(Line) = Len(Line') + k
         /\ \A i \in 1 .. Len(Line') : i + k \in 1 .. Len(Line) /\ i + k > k
         /\ \A i \in 1 .. Len(Line) : i > k => i - k \in 1 .. Len(Line') /\ Line'[i - k] = Line[i]
         /\ \A i \in 1 .. Len(Line') : \A w, f : At(i, w, f)' <=> At(i + k, w, f)
         /\ \A i \in 1 .. Len(Line) : \A w, f : i > k => (At(i, w, f) <=> At(i - k, w, f)')
<1>0. Len(Line) \in Nat /\ Line \in Seq(Messages) /\ Line' \in Seq(Messages)
  BY DEF Loses
<1>1. Len(Line') \in Nat /\ \A i \in 1 .. Len(Line') : i + k \in 1 .. Len(Line) /\ i + k > k
  BY <1>0 DEF Loses
<1>2. \A i \in 1 .. Len(Line) : i > k => i - k \in 1 .. Len(Line') /\ (i - k) + k = i
  BY <1>0 DEF Loses
<1>3. \A i \in 1 .. Len(Line) : i > k => Line'[i - k] = Line[i]
  BY <1>2 DEF Loses
<1>4. DOMAIN Line = 1 .. Len(Line) /\ DOMAIN Line' = 1 .. Len(Line')
  BY <1>0
<1>5. \A i \in 1 .. Len(Line') : \A w, f : At(i, w, f)' <=> At(i + k, w, f)
  BY <1>1, <1>4 DEF At, Loses
<1>6. \A i \in 1 .. Len(Line) : \A w, f : i > k => (At(i, w, f) <=> At(i - k, w, f)')
  BY <1>2, <1>3, <1>4 DEF At
<1>7. Len(Line) = Len(Line') + k
  BY <1>0 DEF Loses
<1>8. QED
  BY <1>0, <1>7, <1>1, <1>2, <1>3, <1>5, <1>6

\* What is left of the line keeps its places in the files.
LEMMA LosesSpaced ==
  ASSUME NEW k \in Nat, Loses(k),
         NEW start \in [Nat -> Nat], Spaced(start), RoomLeft(start, k)
  PROVE  Spaced(After(start, k))'
<1>0. SUFFICES ASSUME NEW f \in Files, NEW i \in 1 .. Len(Line'), At(i, "downloadchunk", f)'
               PROVE  /\ Got(f)' <= start[i + k] /\ start[i + k] + Line'[i].length <= offset[f]
                      /\ \A j \in 1 .. Len(Line') : i < j /\ At(j, "downloadchunk", f)' =>
                           start[i + k] + Line'[i].length <= start[j + k]
  <2>1. \A i \in 1 .. Len(Line') : After(start, k)[i] = start[i + k]
    BY LosesAt DEF After
  <2>2. QED
    BY <2>1 DEF Spaced, RoomLeft
<1>1. At(i, "downloadchunk", f)'
  BY <1>0
<1>2. i + k \in 1 .. Len(Line) /\ At(i + k, "downloadchunk", f) /\ Line'[i] = Line[i + k] /\ i + k > k
  BY <1>1, LosesAt DEF Loses
<1>3. ASSUME NEW j \in 1 .. Len(Line'), i < j, At(j, "downloadchunk", f)'
      PROVE  start[i + k] + Line'[i].length <= start[j + k]
  <2>1. j + k \in 1 .. Len(Line) /\ At(j + k, "downloadchunk", f) /\ i + k < j + k
    BY <1>3, LosesAt
  <2>2. QED
    BY <1>2, <2>1 DEF Spaced
<1>4. QED
  BY <1>2, <1>3 DEF Spaced, RoomLeft

\* The length of a message is a number.
LEMMA LengthIn ==
  ASSUME ChunkSize \in Nat, Line \in Seq(Messages)
  PROVE  \A i \in 1 .. Len(Line) : Line[i].length \in Nat /\ Line[i].length <= ChunkSize
<1>1. TAKE i \in 1 .. Len(Line)
<1>2. Line[i] \in Messages
  BY ElementOfSeq
<1>3. Line[i].length \in 0 .. ChunkSize
  BY <1>2 DEF Messages
<1>4. QED
  BY <1>3

\* The line is one of messages.
LEMMA LineTyped ==
  ASSUME NEW k, Loses(k)
  PROVE  ChunkSize \in Nat /\ Line \in Seq(Messages)
BY DEF Loses

\* A read of whole chunks leaves whole chunks.
LEMMA LosesFramed ==
  ASSUME NEW k \in Nat, Loses(k), NEW start \in [Nat -> Nat], Framed(start), WholeChunks(k)
  PROVE  Framed(After(start, k))'
<1>1. PICK l \in Nat, m \in Nat : l = Len(Line) /\ m = Len(Line') /\ l = m + k
  BY LosesAt
<1>2. \A i \in 1 .. m : i + k \in 1 .. l /\ Line'[i] = Line[i + k]
  BY <1>1, LosesAt DEF Loses
<1>3. ASSUME NEW i \in 1 .. m, Line'[i].word = "downloadchunk"
      PROVE  /\ Line'[i].length >= 1 /\ i + Line'[i].length <= m
             /\ \A j \in 1 .. Line'[i].length :
                  /\ Line'[i + j].word = "piece"
                  /\ Line'[i + j].piece = Download!Piece(Line'[i].file, After(start, k)[i] + j)
  <2>1. i + k \in 1 .. l /\ Line'[i] = Line[i + k]
    BY <1>2
  <2>2. PICK n \in Nat : n = Line'[i].length
    BY <1>1, <2>1, LengthIn, LineTyped
  <2>3. PICK s \in Nat : s = start[i + k] /\ s = After(start, k)[i]
    BY <2>1 DEF After
  <2>4. /\ n >= 1 /\ (i + k) + n <= l
        /\ \A j \in 1 .. n : /\ Line[(i + k) + j].word = "piece"
                            /\ Line[(i + k) + j].piece = Download!Piece(Line'[i].file, s + j)
    BY <1>1, <1>3, <2>1, <2>2, <2>3 DEF Framed
  <2>5. i + n <= m
    BY <1>1, <2>4
  <2>6. ASSUME NEW j \in 1 .. n
        PROVE  Line'[i + j].word = "piece" /\ Line'[i + j].piece = Download!Piece(Line'[i].file, s + j)
    <3>1. i + j \in 1 .. m /\ (i + j) + k = (i + k) + j
      BY <2>5
    <3>2. Line'[i + j] = Line[(i + j) + k]
      BY <1>2, <3>1
    <3>3. Line'[i + j] = Line[(i + k) + j]
      BY <3>1, <3>2
    <3>4. QED
      BY <2>4, <3>3
  <2>7. QED
    BY <2>2, <2>3, <2>4, <2>5, <2>6
<1>4. ASSUME NEW i \in 1 .. m, Line'[i].word = "piece"
      PROVE  \E c \in 1 .. i - 1 : Line'[c].word = "downloadchunk" /\ i <= c + Line'[c].length
  <2>1. i + k \in 1 .. l /\ Line[i + k].word = "piece"
    BY <1>2, <1>4
  <2>2. PICK c \in 1 .. (i + k) - 1 : Line[c].word = "downloadchunk" /\ i + k <= c + Line[c].length
    BY <1>1, <2>1 DEF Framed
  <2>3. c \in 1 .. l
    BY <2>1
  <2>4. PICK n \in Nat : n = Line[c].length
    BY <1>1, <2>3, LengthIn, LineTyped
  <2>5. i + k <= c + n
    BY <2>2, <2>4
  <2>6. c > k
    <3>1. ASSUME c <= k PROVE c + n <= k
      BY <2>2, <2>4, <3>1 DEF WholeChunks
    <3>2. QED
      BY <2>5, <3>1
  <2>7. c - k \in 1 .. i - 1 /\ (c - k) + k = c /\ c - k \in 1 .. m
    BY <1>1, <2>1, <2>6
  <2>8. Line'[c - k] = Line[c]
    BY <1>2, <2>7
  <2>9. i <= (c - k) + n
    BY <2>5, <2>6
  <2>10. QED
    BY <2>2, <2>4, <2>7, <2>8, <2>9
<1>5. \A i \in 1 .. m : Line'[i].word # "downloadabort"
  BY <1>1, <1>2 DEF Framed
<1>6. QED
  BY <1>1, <1>3, <1>4, <1>5 DEF Framed

\* What is left begins and ends as the downloads do.
LEMMA LosesBracketed ==
  ASSUME NEW k \in Nat, Loses(k),
         Bracketed, BeginsAndEnds(k)
  PROVE  Bracketed'
<1> USE DEF Controls
<1>1. SUFFICES ASSUME NEW f \in Files
      PROVE
    /\ tpc[f] = "open" => /\ f \notin DOMAIN collected'
                          /\ \A i \in 1 .. Len(Line'), w \in Controls : ~At(i, w, f)'
    /\ tpc[f] = "read" => f \in DOMAIN collected' \/ \E b \in 1 .. Len(Line') : At(b, "downloadbegin", f)'
    /\ \A i \in 1 .. Len(Line') :
         /\ At(i, "downloadbegin", f)' =>
              /\ f \notin DOMAIN collected'
              /\ \A j \in 1 .. Len(Line'), w \in Controls : At(j, w, f)' => i <= j
         /\ \A w \in {"downloadchunk", "downloadcomplete"} : At(i, w, f)' =>
              f \in DOMAIN collected' \/ \E b \in 1 .. Len(Line') : b < i /\ At(b, "downloadbegin", f)'
         /\ At(i, "downloadcomplete", f)' =>
              /\ tpc[f] = "over"
              /\ \A j \in 1 .. Len(Line'), w \in Controls : At(j, w, f)' => j <= i
  BY DEF Bracketed, BeginsAndEnds
<1>2. 1 .. k \subseteq 1 .. Len(Line)
  BY DEF Loses
<1>3. ASSUME tpc[f] = "open"
      PROVE  f \notin DOMAIN collected' /\ \A i \in 1 .. Len(Line'), w \in Controls : ~At(i, w, f)'
  BY <1>2, <1>3, LosesAt DEF Bracketed, BeginsAndEnds
<1>4. ASSUME tpc[f] = "read"
      PROVE  f \in DOMAIN collected' \/ \E b \in 1 .. Len(Line') : At(b, "downloadbegin", f)'
  <2>1. \A b \in 1 .. k : ~At(b, "downloadcomplete", f)
    BY <1>2, <1>4 DEF Bracketed
  <2>2. CASE f \in DOMAIN collected
    BY <2>1, <2>2 DEF BeginsAndEnds
  <2>3. CASE \E b \in 1 .. Len(Line) : At(b, "downloadbegin", f)
    <3>1. PICK b \in 1 .. Len(Line) : At(b, "downloadbegin", f)
      BY <2>3
    <3>2. CASE b <= k
      BY <3>1, <3>2 DEF BeginsAndEnds
    <3>3. CASE b > k
      BY <3>1, <3>3, LosesAt
    <3>4. QED
      BY <3>2, <3>3
  <2>4. QED
    BY <1>4, <2>2, <2>3 DEF Bracketed
<1>5. ASSUME NEW i \in 1 .. Len(Line'), At(i, "downloadbegin", f)'
      PROVE  /\ f \notin DOMAIN collected'
             /\ \A j \in 1 .. Len(Line'), w \in Controls : At(j, w, f)' => i <= j
  <2>1. i + k \in 1 .. Len(Line) /\ At(i + k, "downloadbegin", f) /\ i + k > k
    BY <1>5, LosesAt
  <2>2. f \notin DOMAIN collected /\ \A j \in 1 .. Len(Line), w \in Controls : At(j, w, f) => i + k <= j
    BY <2>1 DEF Bracketed
  <2>3. \A b \in 1 .. k : ~At(b, "downloadbegin", f)
    BY <1>2, <2>1, <2>2
  <2>4. ASSUME NEW j \in 1 .. Len(Line'), NEW w \in Controls, At(j, w, f)' PROVE i <= j
    <3>1. j + k \in 1 .. Len(Line) /\ At(j + k, w, f)
      BY <2>4, LosesAt
    <3>2. i + k <= j + k
      BY <2>2, <3>1
    <3>3. QED
      BY <3>2
  <2>5. QED
    BY <2>2, <2>3, <2>4 DEF BeginsAndEnds
<1>6. ASSUME NEW i \in 1 .. Len(Line'), NEW w \in {"downloadchunk", "downloadcomplete"}, At(i, w, f)'
      PROVE  f \in DOMAIN collected' \/ \E b \in 1 .. Len(Line') : b < i /\ At(b, "downloadbegin", f)'
  <2>1. i + k \in 1 .. Len(Line) /\ At(i + k, w, f) /\ i + k > k
    BY <1>6, LosesAt
  <2>2. CASE f \in DOMAIN collected
    <3>1. ASSUME NEW c \in 1 .. k, At(c, "downloadcomplete", f) PROVE FALSE
      <4>1. i + k <= c
        BY <1>2, <2>1, <3>1 DEF Bracketed
      <4>2. QED
        BY <2>1, <4>1
    <3>2. QED
      BY <2>2, <3>1 DEF BeginsAndEnds
  <2>3. CASE \E b \in 1 .. Len(Line) : b < i + k /\ At(b, "downloadbegin", f)
    <3>1. PICK b \in 1 .. Len(Line) : b < i + k /\ At(b, "downloadbegin", f)
      BY <2>3
    <3>2. CASE b <= k
      BY <3>1, <3>2 DEF BeginsAndEnds
    <3>3. CASE b > k
      <4>1. b - k \in 1 .. Len(Line') /\ At(b - k, "downloadbegin", f)'
        BY <3>1, <3>3, LosesAt
      <4>2. b - k < i
        BY <3>1
      <4>3. QED
        BY <4>1, <4>2
    <3>4. QED
      BY <3>2, <3>3
  <2>4. QED
    BY <2>1, <2>2, <2>3 DEF Bracketed
<1>7. ASSUME NEW i \in 1 .. Len(Line'), At(i, "downloadcomplete", f)'
      PROVE  tpc[f] = "over" /\ \A j \in 1 .. Len(Line'), w \in Controls : At(j, w, f)' => j <= i
  <2>1. i + k \in 1 .. Len(Line) /\ At(i + k, "downloadcomplete", f)
    BY <1>7, LosesAt
  <2>2. tpc[f] = "over" /\ \A j \in 1 .. Len(Line), w \in Controls : At(j, w, f) => j <= i + k
    BY <2>1 DEF Bracketed
  <2>3. ASSUME NEW j \in 1 .. Len(Line'), NEW w \in Controls, At(j, w, f)' PROVE j <= i
    <3>1. j + k \in 1 .. Len(Line) /\ At(j + k, w, f)
      BY <2>3, LosesAt
    <3>2. j + k <= i + k
      BY <2>2, <3>1
    <3>3. QED
      BY <3>2
  <2>4. QED
    BY <2>2, <2>3
<1>8. QED
  BY <1>3, <1>4, <1>5, <1>6, <1>7

\* A place that was reached still is.
LEMMA LosesReached ==
  ASSUME NEW k \in Nat, Loses(k),
         NEW start \in [Nat -> Nat], NEW f \in Files, NEW place, NEW i \in Nat, NEW l \in Nat, l + k = i,
         Reached(start, f, place, i), Collects(start, k),
         Got(f)' = Got(f) \/ place # Got(f)
  PROVE  Reached(After(start, k), f, place, l)'
<1>1. CASE place = Got(f)
  BY <1>1 DEF Reached
<1>2. ASSUME NEW c \in 1 .. Len(Line), c < i, At(c, "downloadchunk", f), start[c] + Line[c].length = place
      PROVE  Reached(After(start, k), f, place, l)'
  <2>1. CASE c <= k
    <3>1. c \in 1 .. k
      BY <1>2, <2>1, LosesAt
    <3>2. start[c] + Line[c].length = Got(f)'
      BY <1>2, <3>1 DEF Collects
    <3>3. place = Got(f)'
      BY <1>2, <3>2
    <3>4. QED
      BY <3>3 DEF Reached
  <2>2. CASE c > k
    <3>1. c - k \in 1 .. Len(Line') /\ At(c - k, "downloadchunk", f)' /\ Line'[c - k] = Line[c]
      BY <1>2, <2>2, LosesAt
    <3>0. c \in Nat
      BY <1>2, LosesAt
    <3>2. c - k \in Nat /\ (c - k) + k = c /\ c - k < l
      <4>1. c \in Nat /\ k \in Nat /\ l \in Nat /\ c > k /\ c < l + k
        BY <1>2, <2>2, <3>0
      <4>2. QED
        BY <4>1
    <3>3. After(start, k)[c - k] = start[c]
      BY <3>2 DEF After
    <3>4. QED
      BY <1>2, <3>1, <3>2, <3>3 DEF Reached
  <2>3. QED
    BY <2>1, <2>2
<1>3. QED
  BY <1>1, <1>2 DEF Reached

\* What is left has no gap.
LEMMA LosesGapless ==
  ASSUME NEW k \in Nat, Loses(k),
         NEW start \in [Nat -> Nat], Gapless(start), UNCHANGED <<tpc, offset>>,
         Collects(start, k), \A f \in Files : Passes(start, k, f)
  PROVE  Gapless(After(start, k))'
<1>1. /\ Len(Line') \in Nat /\ Len(Line) = Len(Line') + k
      /\ \A i \in 1 .. Len(Line') : After(start, k)[i] = start[i + k]
  BY LosesAt DEF After
<1>2. ASSUME NEW f \in Files, NEW place, NEW l \in Nat, Reached(start, f, place, l + k),
             Got(f)' = Got(f) \/ place # Got(f)
      PROVE  Reached(After(start, k), f, place, l)'
  <2>2. l + k \in Nat
    OBVIOUS
  <2>3. QED
    BY <1>2, <2>2, LosesReached
<1>3. ASSUME NEW f \in Files, NEW i \in 1 .. Len(Line'), At(i, "downloadchunk", f)'
      PROVE  Reached(After(start, k), f, start[i + k], i)'
  <2>1. i + k \in 1 .. Len(Line) /\ At(i + k, "downloadchunk", f) /\ i + k > k
    BY <1>3, LosesAt
  <2>2. Reached(start, f, start[i + k], i + k)
    BY <2>1 DEF Gapless
  <2>3. Got(f)' = Got(f) \/ start[i + k] # Got(f)
    BY <2>1 DEF Controls, Passes
  <2>4. i \in Nat
    BY <1>1
  <2>5. QED
    BY <2>2, <2>3, <2>4, <1>2
<1>4. ASSUME NEW f \in Files, NEW i \in 1 .. Len(Line'), At(i, "downloadcomplete", f)'
      PROVE  Reached(After(start, k), f, LengthOf[f], i)'
  <2>1. i + k \in 1 .. Len(Line) /\ At(i + k, "downloadcomplete", f) /\ i + k > k
    BY <1>4, LosesAt
  <2>2. Reached(start, f, LengthOf[f], i + k)
    BY <2>1 DEF Gapless
  <2>3. Got(f)' = Got(f) \/ LengthOf[f] # Got(f)
    BY <2>1 DEF Controls, Passes
  <2>4. i \in Nat
    BY <1>1
  <2>5. QED
    BY <2>2, <2>3, <2>4, <1>2
<1>5. ASSUME NEW f \in Files, tpc[f] = "read"
      PROVE  Reached(After(start, k), f, offset[f], Len(Line) + 1)'
  <2>0. PICK m \in Nat : m = Len(Line') + 1
    BY <1>1
  <2>a. PICK place : place = offset[f]
    OBVIOUS
  <2>1. m = Len(Line') + 1 /\ m + k = Len(Line) + 1 /\ place = offset[f] /\ place = offset'[f]
    BY <1>1, <2>0, <2>a
  <2>2. Reached(start, f, place, m + k)
    BY <1>5, <2>1 DEF Gapless
  <2>3. Got(f)' = Got(f) \/ place # Got(f)
    BY <1>5, <2>1 DEF Passes
  <2>4. Reached(After(start, k), f, place, m)'
    BY <2>2, <2>3, <1>2
  <2>5. QED
    BY <2>1, <2>4
<1>6. QED
  BY <1>1, <1>3, <1>4, <1>5 DEF Gapless

-----------------------------------------------------------------------------
(* The line gets what is written *)

\* These words have been written.
Gains(msgs) ==
  /\ ChunkSize \in Nat /\ Line \in Seq(Messages) /\ Line' \in Seq(Messages) /\ msgs \in Seq(Messages)
  /\ Line' = Line \o msgs
  /\ UNCHANGED collected

\* At most one of the words written is about the state of a download.
GainsControl(w, f) ==
  \A i \in 1 .. Len(Line'), v \in Controls, g \in Files :
    At(i, v, g)' <=> (i <= Len(Line) /\ At(i, v, g)) \/ (i = Len(Line) + 1 /\ v = w /\ g = f)

\* Where the words of the line are after something was written.
LEMMA GainsAt ==
  ASSUME NEW msgs, Gains(msgs)
  PROVE  /\ ChunkSize \in Nat /\ Line \in Seq(Messages) /\ Line' \in Seq(Messages) /\ msgs \in Seq(Messages)
         /\ Len(Line) \in Nat /\ Len(msgs) \in Nat /\ Len(Line') = Len(Line) + Len(msgs)
         /\ \A i \in 1 .. Len(Line) : i \in 1 .. Len(Line') /\ Line'[i] = Line[i]
         /\ \A i \in 1 .. Len(msgs) : Len(Line) + i \in 1 .. Len(Line') /\ Line'[Len(Line) + i] = msgs[i]
         /\ \A i \in 1 .. Len(Line) : \A w, f : At(i, w, f)' <=> At(i, w, f)
         /\ \A f : Got(f)' = Got(f)
<1>1. /\ ChunkSize \in Nat /\ Line \in Seq(Messages) /\ Line' \in Seq(Messages) /\ msgs \in Seq(Messages)
      /\ Len(Line) \in Nat /\ Len(msgs) \in Nat /\ Len(Line') = Len(Line) + Len(msgs)
  BY DEF Gains
<1>2. /\ \A i \in 1 .. Len(Line) : i \in 1 .. Len(Line') /\ Line'[i] = Line[i]
      /\ \A i \in 1 .. Len(msgs) : Len(Line) + i \in 1 .. Len(Line') /\ Line'[Len(Line) + i] = msgs[i]
  BY DEF Gains
<1>3. DOMAIN Line = 1 .. Len(Line) /\ DOMAIN Line' = 1 .. Len(Line')
  BY <1>1
<1>4. \A i \in 1 .. Len(Line) : \A w, f : At(i, w, f)' <=> At(i, w, f)
  BY <1>2, <1>3 DEF At
<1>5. \A f : Got(f)' = Got(f)
  BY DEF Got, Gains
<1>6. QED
  BY <1>1, <1>2, <1>4, <1>5

\* A place that was reached still is, and later on the line too.
LEMMA GainsReached ==
  ASSUME NEW msgs, Gains(msgs), NEW start \in [Nat -> Nat], NEW later \in [Nat -> Nat],
         \A i \in 1 .. Len(Line) : later[i] = start[i],
         NEW f, NEW place, NEW i \in Nat, NEW j \in Nat, i <= j, Reached(start, f, place, i)
  PROVE  Reached(later, f, place, j)'
<1>1. CASE place = Got(f)
  BY <1>1, GainsAt DEF Reached
<1>2. ASSUME NEW c \in 1 .. Len(Line), c < i, At(c, "downloadchunk", f), start[c] + Line[c].length = place
      PROVE  Reached(later, f, place, j)'
  <2>1. c \in 1 .. Len(Line') /\ At(c, "downloadchunk", f)' /\ Line'[c] = Line[c]
    BY <1>2, GainsAt
  <2>2. c < j
    <3>1. c \in Nat
      BY GainsAt
    <3>2. QED
      BY <1>2, <3>1
  <2>3. QED
    BY <1>2, <2>1, <2>2 DEF Reached
<1>3. QED
  BY <1>1, <1>2 DEF Reached

\* One word about the state of a download is written where it may be.
LEMMA GainsBracketed ==
  ASSUME NEW msgs, Gains(msgs), Bracketed, NEW f0, NEW w0, GainsControl(w0, f0),
         w0 \in Controls => Len(msgs) >= 1,
         \A g \in Files : g # f0 => tpc'[g] = tpc[g],
         \/ w0 = "print" /\ tpc'[f0] \in {tpc[f0], "over"}
         \/ w0 = "downloadbegin" /\ tpc[f0] = "open" /\ tpc'[f0] = "read"
         \/ w0 = "downloadchunk" /\ tpc[f0] = "read" /\ tpc'[f0] = "read"
         \/ w0 = "downloadcomplete" /\ tpc[f0] = "read" /\ tpc'[f0] = "over"
  PROVE  Bracketed'
<1> USE DEF Controls
<1>1. PICK l \in Nat, m \in Nat : l = Len(Line) /\ m = Len(Line') /\ l <= m /\ (w0 \in Controls => l + 1 <= m)
  BY GainsAt
<1>2. \A i \in 1 .. m, v \in Controls, g \in Files :
        At(i, v, g)' <=> (i <= l /\ At(i, v, g)) \/ (i = l + 1 /\ v = w0 /\ g = f0)
  BY <1>1 DEF GainsControl
<1>3. ASSUME NEW f \in Files
      PROVE
    /\ tpc'[f] = "open" => /\ f \notin DOMAIN collected
                           /\ \A i \in 1 .. m, w \in Controls : ~At(i, w, f)'
    /\ tpc'[f] = "read" => f \in DOMAIN collected \/ \E b \in 1 .. m : At(b, "downloadbegin", f)'
    /\ \A i \in 1 .. m :
         /\ At(i, "downloadbegin", f)' =>
              /\ f \notin DOMAIN collected
              /\ \A j \in 1 .. m, w \in Controls : At(j, w, f)' => i <= j
         /\ \A w \in {"downloadchunk", "downloadcomplete"} : At(i, w, f)' =>
              f \in DOMAIN collected \/ \E b \in 1 .. m : b < i /\ At(b, "downloadbegin", f)'
         /\ At(i, "downloadcomplete", f)' =>
              /\ tpc'[f] = "over"
              /\ \A j \in 1 .. m, w \in Controls : At(j, w, f)' => j <= i
  <2> DEFINE O(i, v) == At(i, v, f)
             N(i, v) == At(i, v, f)'
  <2>1. \A i \in 1 .. m, v \in Controls :
          N(i, v) <=> (i \in 1 .. l /\ O(i, v)) \/ (i = l + 1 /\ v = w0 /\ f = f0)
    BY <1>2
  <2>2. /\ tpc[f] = "open" => /\ f \notin DOMAIN collected
                              /\ \A i \in 1 .. l, w \in Controls : ~O(i, w)
        /\ tpc[f] = "read" => f \in DOMAIN collected \/ \E b \in 1 .. l : O(b, "downloadbegin")
        /\ \A i \in 1 .. l :
             /\ O(i, "downloadbegin") =>
                  /\ f \notin DOMAIN collected
                  /\ \A j \in 1 .. l, w \in Controls : O(j, w) => i <= j
             /\ \A w \in {"downloadchunk", "downloadcomplete"} : O(i, w) =>
                  f \in DOMAIN collected \/ \E b \in 1 .. l : b < i /\ O(b, "downloadbegin")
             /\ O(i, "downloadcomplete") =>
                  /\ tpc[f] = "over"
                  /\ \A j \in 1 .. l, w \in Controls : O(j, w) => j <= i
    BY <1>1 DEF Bracketed
  <2> HIDE DEF O, N
  <2>3. \A b \in 1 .. l : b \in 1 .. m /\ b < l + 1
    BY <1>1
  <2>4. ASSUME tpc'[f] = "open" PROVE f \notin DOMAIN collected /\ \A i \in 1 .. m, w \in Controls : ~N(i, w)
    BY <2>1, <2>2, <2>4
  <2>5. ASSUME tpc'[f] = "read"
        PROVE  f \in DOMAIN collected \/ \E b \in 1 .. m : N(b, "downloadbegin")
    <3>1. CASE f = f0 /\ w0 = "downloadbegin"
      <4>1. l + 1 \in 1 .. m
        BY <1>1, <3>1
      <4>2. QED
        BY <2>1, <3>1, <4>1
    <3>2. CASE ~(f = f0 /\ w0 = "downloadbegin")
      <4>1. tpc[f] = "read"
        BY <2>5, <3>2
      <4>2. QED
        BY <2>1, <2>2, <2>3, <4>1
    <3>3. QED
      BY <3>1, <3>2
  <2>6. ASSUME NEW i \in 1 .. m, N(i, "downloadbegin")
        PROVE  f \notin DOMAIN collected /\ \A j \in 1 .. m, w \in Controls : N(j, w) => i <= j
    <3>1. CASE i \in 1 .. l /\ O(i, "downloadbegin")
      BY <2>1, <2>2, <2>3, <3>1
    <3>2. CASE i = l + 1 /\ w0 = "downloadbegin" /\ f = f0
      BY <2>1, <2>2, <3>2
    <3>3. QED
      BY <2>1, <2>6, <3>1, <3>2
  <2>7. ASSUME NEW i \in 1 .. m, NEW w \in {"downloadchunk", "downloadcomplete"}, N(i, w)
        PROVE  f \in DOMAIN collected \/ \E b \in 1 .. m : b < i /\ N(b, "downloadbegin")
    <3>1. CASE i \in 1 .. l /\ O(i, w)
      BY <2>1, <2>2, <2>3, <3>1
    <3>2. CASE i = l + 1 /\ w0 = w /\ f = f0
      <4>1. tpc[f] = "read"
        BY <3>2
      <4>2. QED
        BY <2>1, <2>2, <2>3, <3>2, <4>1
    <3>3. QED
      BY <2>1, <2>7, <3>1, <3>2
  <2>8. ASSUME NEW i \in 1 .. m, N(i, "downloadcomplete")
        PROVE  tpc'[f] = "over" /\ \A j \in 1 .. m, w \in Controls : N(j, w) => j <= i
    <3>1. CASE i \in 1 .. l /\ O(i, "downloadcomplete")
      <4>1. tpc[f] = "over" /\ \A j \in 1 .. l, w \in Controls : O(j, w) => j <= i
        BY <2>2, <3>1
      <4>2. tpc'[f] = "over" /\ ~(f = f0 /\ w0 \in Controls)
        BY <4>1
      <4>3. QED
        BY <2>1, <4>1, <4>2
    <3>2. CASE i = l + 1 /\ w0 = "downloadcomplete" /\ f = f0
      <4>1. \A j \in 1 .. m, w \in Controls : N(j, w) => j \in 1 .. l \/ j = l + 1
        BY <2>1
      <4>2. QED
        BY <2>3, <3>2, <4>1
    <3>3. QED
      BY <2>1, <2>8, <3>1, <3>2
  <2>9. QED
    BY <2>4, <2>5, <2>6, <2>7, <2>8 DEF N
<1>4. DOMAIN collected' = DOMAIN collected
  BY DEF Gains
<1>5. QED
  BY <1>1, <1>3, <1>4 DEF Bracketed

\* Where a word is after it was written.
LEMMA WordAt ==
  ASSUME NEW m, Gains(<<m>>)
  PROVE  \E l \in Nat : /\ l = Len(Line) /\ Len(Line') = l + 1 /\ Line'[l + 1] = m
                        /\ DOMAIN Line' = 1 .. l + 1
<1>1. Len(<<m>>) = 1 /\ <<m>>[1] = m /\ 1 \in 1 .. 1
  OBVIOUS
<1>2. Len(Line) \in Nat /\ Len(Line') = Len(Line) + 1 /\ Line' \in Seq(Messages)
  BY <1>1, GainsAt
<1>3. Line'[Len(Line) + 1] = <<m>>[1]
  <2>1. \A i \in 1 .. Len(<<m>>) : Line'[Len(Line) + i] = <<m>>[i]
    BY GainsAt
  <2>2. QED
    BY <1>1, <2>1
<1>4. DOMAIN Line' = 1 .. Len(Line')
  BY <1>2
<1>5. QED
  BY <1>1, <1>2, <1>3, <1>4

\* A word that is no header leaves the places of the chunks as they are.
LEMMA WordSpaced ==
  ASSUME NEW m \in Messages, Gains(<<m>>), m.word # "downloadchunk", UNCHANGED offset,
         NEW start \in [Nat -> Nat], Spaced(start)
  PROVE  Spaced(start)'
<1>1. PICK l \in Nat : l = Len(Line) /\ Len(Line') = l + 1 /\ Line'[l + 1] = m
  BY WordAt
<1>2. ASSUME NEW f, NEW i \in 1 .. l + 1, At(i, "downloadchunk", f)'
      PROVE  i \in 1 .. l /\ At(i, "downloadchunk", f) /\ Line'[i] = Line[i]
  <2>1. i # l + 1
    BY <1>1, <1>2 DEF At
  <2>2. i \in 1 .. l
    BY <2>1
  <2>3. QED
    BY <1>1, <1>2, <2>2, GainsAt
<1>3. \A f : Got(f)' = Got(f)
  BY GainsAt
<1>4. SUFFICES ASSUME NEW f \in Files
               PROVE  /\ Got(f) <= offset[f]
                      /\ \A i \in 1 .. l + 1 : At(i, "downloadchunk", f)' =>
                           /\ Got(f) <= start[i] /\ start[i] + Line'[i].length <= offset[f]
                           /\ \A j \in 1 .. l + 1 : i < j /\ At(j, "downloadchunk", f)' =>
                                start[i] + Line'[i].length <= start[j]
  BY <1>1, <1>3 DEF Spaced
<1>5. QED
  BY <1>1, <1>2 DEF Spaced

\* A word is written behind whole chunks.
LEMMA WordFramed ==
  ASSUME NEW m \in Messages, Gains(<<m>>), m.word \notin {"downloadchunk", "piece", "downloadabort"},
         NEW start \in [Nat -> Nat], Framed(start)
  PROVE  Framed(start)'
<1>1. PICK l \in Nat : l = Len(Line) /\ Len(Line') = l + 1 /\ Line'[l + 1] = m
  BY WordAt
<1>2. \A i \in 1 .. l : Line'[i] = Line[i]
  BY <1>1, GainsAt
<1>3. ASSUME NEW i \in 1 .. l + 1, Line'[i].word = "downloadchunk"
      PROVE  /\ Line'[i].length >= 1 /\ i + Line'[i].length <= l + 1
             /\ \A j \in 1 .. Line'[i].length :
                  /\ Line'[i + j].word = "piece"
                  /\ Line'[i + j].piece = Download!Piece(Line'[i].file, start[i] + j)
  <2>1. i \in 1 .. l /\ Line'[i] = Line[i]
    <3>1. i # l + 1
      BY <1>1, <1>3
    <3>2. i \in 1 .. l
      BY <3>1
    <3>3. QED
      BY <1>2, <3>2
  <2>2. PICK n \in Nat : n = Line[i].length
    BY <1>1, <2>1, LengthIn, GainsAt
  <2>3. /\ n >= 1 /\ i + n <= l
        /\ \A j \in 1 .. n : /\ Line[i + j].word = "piece"
                            /\ Line[i + j].piece = Download!Piece(Line[i].file, start[i] + j)
    BY <1>1, <1>3, <2>1, <2>2 DEF Framed
  <2>4. \A j \in 1 .. n : i + j \in 1 .. l
    BY <2>3
  <2>5. QED
    BY <1>2, <2>1, <2>2, <2>3, <2>4
<1>4. ASSUME NEW i \in 1 .. l + 1
      PROVE  /\ Line'[i].word # "downloadabort"
             /\ Line'[i].word = "piece" =>
                  \E c \in 1 .. i - 1 : Line'[c].word = "downloadchunk" /\ i <= c + Line'[c].length
  <2>1. CASE i = l + 1
    BY <1>1, <2>1
  <2>2. CASE i \in 1 .. l
    <3>1. \A c \in 1 .. i - 1 : c \in 1 .. l
      BY <2>2
    <3>2. QED
      BY <1>1, <1>2, <2>2, <3>1 DEF Framed
  <2>3. QED
    BY <2>1, <2>2
<1>5. QED
  BY <1>1, <1>3, <1>4 DEF Framed

\* Everything but the words about f0 comes as far as before.
LEMMA WordGapless ==
  ASSUME NEW m \in Messages, Gains(<<m>>), m.word # "downloadchunk",
         NEW start \in [Nat -> Nat], Gapless(start), Bracketed, UNCHANGED offset,
         NEW f0,
         \A f \in Files : m.word = "downloadcomplete" /\ m.file = f =>
           f = f0 /\ tpc[f0] = "read" /\ offset[f0] = LengthOf[f0],
         \A f \in Files : tpc'[f] = "open" => tpc[f] = "open",
         \A f \in Files : tpc'[f] = "read" => tpc[f] = "read" \/ tpc[f] = "open"
  PROVE  Gapless(start)'
<1>1. PICK l \in Nat : l = Len(Line) /\ Len(Line') = l + 1 /\ Line'[l + 1] = m
  BY WordAt
<1>2. ASSUME NEW f, NEW place, NEW i \in Nat, NEW j \in Nat, i <= j, Reached(start, f, place, i)
      PROVE  Reached(start, f, place, j)'
  BY <1>2, GainsReached
<1>3. ASSUME NEW f \in Files, NEW i \in 1 .. l + 1, At(i, "downloadchunk", f)'
      PROVE  Reached(start, f, start[i], i)'
  <2>1. i # l + 1
    BY <1>1, <1>3 DEF At
  <2>2. i \in 1 .. l /\ i \in Nat /\ i <= i
    BY <2>1
  <2>3. At(i, "downloadchunk", f)
    BY <1>1, <1>3, <2>2, GainsAt
  <2>4. Reached(start, f, start[i], i)
    BY <1>1, <2>2, <2>3 DEF Gapless
  <2>5. QED
    BY <1>2, <2>2, <2>4
<1>4. ASSUME NEW f \in Files, NEW i \in 1 .. l + 1, At(i, "downloadcomplete", f)'
      PROVE  Reached(start, f, LengthOf[f], i)'
  <2>1. CASE i = l + 1
    <3>1. m.word = "downloadcomplete" /\ m.file = f
      BY <1>1, <1>4, <2>1 DEF At
    <3>2. Reached(start, f, LengthOf[f], l + 1)
      BY <1>1, <3>1 DEF Gapless
    <3>3. QED
      BY <1>2, <2>1, <3>2
  <2>2. CASE i # l + 1
    <3>1. i \in 1 .. l /\ i \in Nat /\ i <= i
      BY <2>2
    <3>2. At(i, "downloadcomplete", f)
      BY <1>1, <1>4, <3>1, GainsAt
    <3>3. Reached(start, f, LengthOf[f], i)
      BY <1>1, <3>1, <3>2 DEF Gapless
    <3>4. QED
      BY <1>2, <3>1, <3>3
  <2>3. QED
    BY <2>1, <2>2
<1>5. ASSUME NEW f \in Files, tpc'[f] = "read"
      PROVE  Reached(start, f, offset[f], Len(Line) + 1)'
  <2>1. PICK place : place = offset[f]
    OBVIOUS
  <2>2. place = offset'[f] /\ Len(Line') + 1 = l + 2 /\ l + 1 \in Nat /\ l + 2 \in Nat /\ l + 1 <= l + 2
    BY <1>1, <2>1
  <2>3. Reached(start, f, place, l + 1)
    <3>1. CASE tpc[f] = "read"
      BY <1>1, <2>1, <3>1 DEF Gapless
    <3>2. CASE tpc[f] = "open"
      BY <2>1, <3>2 DEF Gapless, Bracketed, Reached, Got
    <3>3. QED
      BY <1>5, <3>1, <3>2
  <2>4. Reached(start, f, place, l + 2)'
    BY <1>2, <2>2, <2>3
  <2>5. QED
    BY <2>2, <2>4
<1>6. \A f \in Files : tpc'[f] = "open" => offset'[f] = 0
  BY DEF Gapless
<1>7. QED
  BY <1>1, <1>3, <1>4, <1>5, <1>6 DEF Gapless

\* What a word is about.
LEMMA WordControl ==
  ASSUME NEW m \in Messages, Gains(<<m>>), NEW f0, m.word \in Controls => m.file = f0
  PROVE  GainsControl(m.word, f0)
<1>1. PICK l \in Nat : l = Len(Line) /\ Len(Line') = l + 1 /\ Line'[l + 1] = m /\ DOMAIN Line' = 1 .. l + 1
  BY WordAt
<1>2. ASSUME NEW i \in 1 .. l + 1, NEW v \in Controls, NEW g \in Files
      PROVE  At(i, v, g)' <=> (i <= l /\ At(i, v, g)) \/ (i = l + 1 /\ v = m.word /\ g = f0)
  <2>1. CASE i = l + 1
    <3>1. ~(i <= l)
      BY <2>1
    <3>2. At(i, v, g)' <=> m.word = v /\ m.file = g
      BY <1>1, <2>1 DEF At
    <3>3. QED
      BY <2>1, <3>1, <3>2
  <2>2. CASE i # l + 1
    <3>1. i \in 1 .. l /\ i <= l
      BY <2>2
    <3>2. QED
      BY <1>1, <2>2, <3>1, GainsAt
  <2>3. QED
    BY <2>1, <2>2
<1>3. QED
  BY <1>1, <1>2 DEF GainsControl

\* One word is written and no piece of a file.
LEMMA WordAdded ==
  ASSUME Download!DownloadAssumption, DownloadsInv, Download!TypeOK', Sound',
         NEW m \in Messages, downloads' = downloads \o <<m>>,
         UNCHANGED <<reader, chunk, collected, stored, shortRead, offset, failed>>,
         NEW f0, m.word \in Controls => m.file = f0,
         \A g \in Files : g # f0 => tpc'[g] = tpc[g],
         \/ m.word = "print" /\ tpc'[f0] \in {tpc[f0], "over"}
         \/ m.word = "downloadbegin" /\ tpc[f0] = "open" /\ tpc'[f0] = "read"
         \/ m.word = "downloadcomplete" /\ tpc[f0] = "read" /\ tpc'[f0] = "over" /\ offset[f0] = LengthOf[f0]
  PROVE  DownloadsInv'
<1>1. PICK start \in [Nat -> Nat] : Spaced(start) /\ (~shortRead /\ ~failed => Orderly(start))
  BY DEF DownloadsInv
<1>2. Gains(<<m>>)
  <2>1. /\ Download!TypeOK /\ Sound /\ ChunkSize \in Nat /\ <<m>> \in Seq(Messages)
    BY DownloadConstants DEF DownloadsInv
  <2>2. Line \in Seq(Messages)
    BY <2>1, LineIs
  <2>3. Line' \in Seq(Messages) /\ Line' = Line \o <<m>>
    BY <2>1, LineGrows
  <2>4. QED
    BY <2>1, <2>2, <2>3 DEF Gains
<1>3. Spaced(start)'
  BY <1>1, <1>2, WordSpaced
<1>4. ASSUME ~shortRead, ~failed PROVE Orderly(start)'
  <2>1. Orderly(start)
    BY <1>1, <1>4
  <2>2. Framed(start)'
    BY <1>2, <2>1, WordFramed DEF Orderly
  <2>3. Gapless(start)'
    <3>1. \A f \in Files : m.word = "downloadcomplete" /\ m.file = f =>
            f = f0 /\ tpc[f0] = "read" /\ offset[f0] = LengthOf[f0]
      BY DEF Controls
    <3>2. /\ \A f \in Files : tpc'[f] = "open" => tpc[f] = "open"
          /\ \A f \in Files : tpc'[f] = "read" => tpc[f] = "read" \/ tpc[f] = "open"
      OBVIOUS
    <3>3. Gapless(start) /\ Bracketed
      BY <2>1 DEF Orderly
    <3>4. m.word # "downloadchunk" /\ UNCHANGED offset
      OBVIOUS
    <3>5. QED
      BY <1>2, <3>1, <3>2, <3>3, <3>4, WordGapless
  <2>4. Bracketed'
    <3>1. GainsControl(m.word, f0)
      BY <1>2, WordControl
    <3>2. Bracketed /\ Len(<<m>>) >= 1
      BY <2>1 DEF Orderly
    <3>3. QED
      BY <1>2, <3>1, <3>2, GainsBracketed
  <2>5. InPlace' /\ reader' \in {"word", "data"}
    BY <2>1 DEF Orderly, InPlace
  <2>6. QED
    BY <2>2, <2>3, <2>4, <2>5 DEF Orderly
<1>5. QED
  BY <1>3, <1>4 DEF DownloadsInv

-----------------------------------------------------------------------------
(* The steps *)

\* The words there are.
DownloadWords == Controls \cup {"print", "downloadabort", "piece"}

\* A message that names its download and has contents only if it is a piece.
Proper(m) ==
  /\ m \in Messages
  /\ m.word \in Controls => m.file \in Files
  /\ m.word # "piece" => m.piece = Download!Zero

\* A sequence of them.
AllProper(msgs) == \A i \in 1 .. Len(msgs) : Proper(msgs[i])

\* What is on its way are messages.
LEMMA AreProper ==
  ASSUME Sound
  PROVE  downloads \in Seq(Messages) /\ AllProper(downloads) /\ Len(downloads) \in Nat
<1>1. downloads \in Seq(Messages) /\ DOMAIN downloads = 1 .. Len(downloads) /\ Len(downloads) \in Nat
  BY DEF Sound
<1>2. \A i \in 1 .. Len(downloads) : downloads[i] \in Messages
  BY <1>1
<1>3. QED
  BY <1>1, <1>2 DEF Sound, Proper, AllProper

\* The sequence on its way stays one of proper words.
LEMMA StaysSound ==
  ASSUME downloads' \in Seq(Messages), AllProper(downloads'),
         (reader = "data" => chunk[1] \in Files)', (chunk = <<chunk[1], chunk[2]>>)',
         offset' \in [Files -> Nat],
         (\A f \in DOMAIN collected : collected[f] \in Seq((Files \cup {"zero"}) \X Nat))'
  PROVE  Sound' /\ \A i \in DOMAIN downloads' : downloads'[i].word \in DownloadWords
<1>1. DOMAIN downloads' = 1 .. Len(downloads')
  OBVIOUS
<1>2. ASSUME NEW i \in 1 .. Len(downloads')
      PROVE  /\ downloads'[i].word \in Controls => downloads'[i].file \in Files
             /\ downloads'[i].word # "piece" => downloads'[i].piece = Download!Zero
             /\ downloads'[i].word \in DownloadWords
  <2>1. Proper(downloads'[i])
    BY DEF AllProper
  <2>2. QED
    BY <2>1 DEF Proper, Messages, DownloadWords
<1>3. QED
  BY <1>1, <1>2 DEF Sound

\* What is written after them are messages too.
LEMMA WritesProper ==
  ASSUME Sound, NEW msgs \in Seq(Messages), AllProper(msgs), downloads' = downloads \o msgs
  PROVE  downloads' \in Seq(Messages) /\ AllProper(downloads')
<1>1. PICK l \in Nat, m \in Nat : /\ l = Len(downloads) /\ m = Len(msgs) /\ Len(downloads') = l + m
                                  /\ downloads' \in Seq(Messages)
  BY AreProper
<1>2. ASSUME NEW i \in 1 .. l + m PROVE Proper(downloads'[i])
  <2>1. CASE i <= l
    <3>1. i \in 1 .. Len(downloads) /\ downloads'[i] = downloads[i]
      BY <1>1, <2>1, AreProper
    <3>2. QED
      BY <3>1, AreProper DEF AllProper
  <2>2. CASE i > l
    <3>1. i - l \in 1 .. Len(msgs) /\ downloads'[i] = msgs[i - l]
      BY <1>1, <2>2, AreProper
    <3>2. QED
      BY <3>1 DEF AllProper
  <2>3. QED
    BY <1>1, <2>1, <2>2
<1>3. QED
  BY <1>1, <1>2 DEF AllProper

\* The first n words have been read.
Rest(n) ==
  /\ n \in 0 .. Len(downloads) /\ downloads' \in Seq(Messages)
  /\ Len(downloads') = Len(downloads) - n
  /\ \A i \in 1 .. Len(downloads') : downloads'[i] = downloads[i + n]

\* SubSeq takes off what has been read.
LEMMA RestIs ==
  ASSUME Sound, NEW n \in 0 .. Len(downloads), downloads' = SubSeq(downloads, n + 1, Len(downloads))
  PROVE  Rest(n)
<1>1. PICK l \in Nat : l = Len(downloads) /\ n \in 0 .. l /\ downloads \in Seq(Messages)
  BY AreProper
<1>2. downloads' \in Seq(Messages) /\ Len(downloads') = l - n
  BY <1>1
<1>3. \A i \in 1 .. l - n : downloads'[i] = downloads[i + n]
  <2>1. TAKE i \in 1 .. l - n
  <2>2. downloads'[i] = downloads[(n + 1) + i - 1]
    BY <1>1
  <2>3. (n + 1) + i - 1 = i + n
    BY <1>1
  <2>4. QED
    BY <2>2, <2>3
<1>4. QED
  BY <1>1, <1>2, <1>3 DEF Rest

\* So does Tail, one word.
LEMMA TailRest ==
  ASSUME Sound, downloads # <<>>, downloads' = Tail(downloads)
  PROVE  Rest(1) /\ 1 \in 1 .. Len(downloads) /\ Head(downloads) = downloads[1] /\ Proper(downloads[1])
<1>1. downloads \in Seq(Messages) /\ AllProper(downloads)
  BY AreProper
<1>2. Rest(1) /\ 1 \in 1 .. Len(downloads) /\ Head(downloads) = downloads[1]
  BY <1>1, HeadTailProperties DEF Rest
<1>3. QED
  BY <1>1, <1>2 DEF AllProper

\* What is left are messages.
LEMMA RestProper ==
  ASSUME Sound, NEW n \in Nat, Rest(n)
  PROVE  downloads' \in Seq(Messages) /\ AllProper(downloads')
<1>1. PICK l \in Nat : l = Len(downloads) /\ n \in 0 .. l /\ Len(downloads') = l - n /\ downloads' \in Seq(Messages)
  BY AreProper DEF Rest
<1>2. ASSUME NEW i \in 1 .. l - n PROVE Proper(downloads'[i])
  <2>1. i + n \in 1 .. Len(downloads) /\ downloads'[i] = downloads[i + n]
    BY <1>1 DEF Rest
  <2>2. QED
    BY <2>1, AreProper DEF AllProper
<1>3. QED
  BY <1>1, <1>2 DEF AllProper

\* A step that reads and leaves the reader at a word loses what it has read.
LEMMA ReadLoses ==
  ASSUME Download!DownloadAssumption, Download!TypeOK, Sound, Sound', NEW n \in Nat, Rest(n),
         reader' # "data", NEW k \in Nat, k = IF reader = "data" THEN n + 1 ELSE n
  PROVE  Loses(k)
<1>1. Line' = downloads'
  BY DEF Line
<1>2. PICK l \in Nat : l = Len(downloads) /\ n \in 0 .. l /\ Len(downloads') = l - n
                       /\ downloads' \in Seq(Messages) /\ ChunkSize \in Nat /\ Line \in Seq(Messages)
  BY AreProper, LineIs, DownloadConstants DEF Rest
<1>3. CASE reader = "data"
  <2>1. Len(Line) = l + 1 /\ k = n + 1
    BY <1>2, <1>3, LineIs
  <2>2. \A i \in 1 .. l - n : Line'[i] = Line[i + k]
    <3>1. TAKE i \in 1 .. l - n
    <3>2. Line'[i] = downloads[i + n]
      BY <1>1, <1>2 DEF Rest
    <3>3. i + n \in 1 .. Len(downloads) /\ (i + n) + 1 = i + k
      BY <1>2, <2>1
    <3>4. Line[(i + n) + 1] = downloads[i + n]
      BY <1>3, <3>3, LineIs
    <3>5. QED
      BY <3>2, <3>3, <3>4
  <2>3. QED
    <3>1. Len(Line') = l - n /\ Len(Line) = l + 1 /\ k = n + 1 /\ l \in Nat /\ n \in 0 .. l
      BY <1>1, <1>2, <2>1
    <3>2. k \in 0 .. Len(Line) /\ Len(Line') = Len(Line) - k
      BY <3>1
    <3>3. QED
      BY <1>1, <1>2, <2>2, <3>1, <3>2 DEF Loses
<1>4. CASE reader # "data"
  <2>1. Line = downloads /\ k = n
    BY <1>4, LineIs
  <2>2. QED
    BY <1>1, <1>2, <2>1 DEF Loses, Rest
<1>5. QED
  BY <1>3, <1>4

\* At first nothing is on its way.
LEMMA DownloadsInit ==
  ASSUME Download!DownloadAssumption, Download!Init
  PROVE  DownloadsInv
<1> USE DEF Download!Init
<1>1. Line = <<>> /\ Len(Line) = 0 /\ downloads \in Seq(Messages) /\ DOMAIN downloads = {} /\ DOMAIN collected = {}
  BY DEF Line
<1>2. Download!TypeOK
  <2>1. LengthOf \in [Files -> Nat] /\ ChunkSize \in Nat /\ Replies \in Nat
    BY DEF Download!DownloadAssumption
  <2>2. \A f \in Files : offset[f] \in 0 .. LengthOf[f]
    BY <2>1
  <2>3. replies \in 0 .. Replies
    BY <2>1
  <2>4. chunk[1] \in Files \cup {"none"} /\ chunk[2] \in 0 .. ChunkSize
    BY <2>1
  <2>5. \A i \in DOMAIN downloads : FALSE
    BY <1>1
  <2>6. QED
    BY <1>1, <2>2, <2>3, <2>4, <2>5 DEF Download!TypeOK
<1>3. Sound
  BY <1>1 DEF Sound
<1> DEFINE start == [i \in Nat |-> 0]
<1>4. start \in [Nat -> Nat]
  OBVIOUS
<1>5. \A i \in 1 .. Len(Line) : FALSE
  BY <1>1
<1>6. Spaced(start)
  BY <1>1, <1>5 DEF Spaced, Got
<1>7. Orderly(start)
  BY <1>1, <1>5 DEF Orderly, Framed, Gapless, Bracketed, InPlace
<1>8. QED
  BY <1>2, <1>3, <1>4, <1>6, <1>7 DEF DownloadsInv

\* A sequence of one message.
LEMMA OneProper ==
  ASSUME NEW m, Proper(m)
  PROVE  <<m>> \in Seq(Messages) /\ AllProper(<<m>>)
<1>1. m \in Messages
  BY DEF Proper
<1>2. <<m>> \in Seq(Messages) /\ Len(<<m>>) = 1 /\ <<m>>[1] = m
  BY <1>1
<1>3. QED
  BY <1>2 DEF AllProper

\* A message about a download names it.
LEMMA MsgProper ==
  ASSUME NEW w \in Controls \cup {"print", "downloadabort"}, NEW f \in Files \cup {"none"}, f \in Files \/ w = "print",
         NEW n \in 0 .. ChunkSize
  PROVE  Proper(Download!Msg(w, f, n))
BY MsgIn, MsgIs DEF Proper, Controls

\* The fields after a step of the server.
LEMMA ServerFields ==
  ASSUME Download!DownloadAssumption, Download!TypeOK, Sound, NEW msgs \in Seq(Messages), AllProper(msgs),
         downloads' = downloads \o msgs, UNCHANGED <<reader, chunk, collected, stored, shortRead>>,
         tpc' \in [Files -> {"open", "read", "aborting", "over"}],
         replies' \in 0 .. Replies, failed' \in BOOLEAN,
         offset' \in [Files -> Nat], \A f \in Files : offset'[f] <= LengthOf[f]
  PROVE  Download!TypeOK' /\ Sound'
<1>1. downloads' \in Seq(Messages) /\ AllProper(downloads')
  BY WritesProper
<1>2. Sound' /\ \A i \in DOMAIN downloads' : downloads'[i].word \in DownloadWords
  BY <1>1, StaysSound DEF Sound
<1>3. \A f \in Files : offset'[f] \in 0 .. LengthOf[f]
  BY DownloadConstants
<1>4. DownloadWords = {"print", "downloadbegin", "downloadchunk", "downloadcomplete", "downloadabort", "piece"}
  BY DEF DownloadWords, Controls
<1>5. Download!TypeOK'
  BY <1>2, <1>3, <1>4 DEF Download!TypeOK
<1>6. QED
  BY <1>2, <1>5

\* The kinds of step that write one word.
LEMMA WordStep ==
  ASSUME Download!DownloadAssumption, DownloadsInv, NEW f0 \in Files \cup {"none"},
         NEW w \in {"print", "downloadbegin", "downloadcomplete"}, f0 \in Files \/ w = "print",
         downloads' = downloads \o <<Download!Msg(w, f0, 0)>>,
         UNCHANGED <<reader, chunk, collected, stored, shortRead, offset, failed>>,
         replies' \in 0 .. Replies, tpc' \in [Files -> {"open", "read", "aborting", "over"}],
         NEW g0, \A g \in Files : g # g0 => tpc'[g] = tpc[g], w = "print" \/ g0 = f0,
         \/ w = "print" /\ tpc'[g0] \in {tpc[g0], "over"}
         \/ w = "downloadbegin" /\ tpc[g0] = "open" /\ tpc'[g0] = "read"
         \/ w = "downloadcomplete" /\ tpc[g0] = "read" /\ tpc'[g0] = "over" /\ offset[g0] = LengthOf[g0]
  PROVE  DownloadsInv'
<1> DEFINE m == Download!Msg(w, f0, 0)
<1>1. Proper(m) /\ m \in Messages /\ m.word = w /\ m.file = f0
  <2>1. 0 \in 0 .. ChunkSize
    BY DownloadConstants
  <2>2. Proper(m)
    BY <2>1, MsgProper DEF Controls
  <2>3. QED
    BY <2>2, MsgIs DEF Proper
<1> HIDE DEF m
<1>2. <<m>> \in Seq(Messages) /\ AllProper(<<m>>)
  BY <1>1, OneProper
<1>3. downloads' = downloads \o <<m>>
  BY DEF m
<1>4. Download!TypeOK' /\ Sound'
  <2>1. offset' \in [Files -> Nat] /\ failed' \in BOOLEAN
    BY DEF DownloadsInv, Sound, Download!TypeOK
  <2>2. \A f \in Files : offset'[f] <= LengthOf[f]
    <3>1. \A f \in Files : offset[f] \in 0 .. LengthOf[f] /\ LengthOf[f] \in Nat
      BY DownloadConstants DEF DownloadsInv, Download!TypeOK
    <3>2. offset' = offset
      OBVIOUS
    <3>3. QED
      BY <3>1, <3>2
  <2>3. Download!TypeOK /\ Sound
    BY DEF DownloadsInv
  <2>4. QED
    BY <1>2, <1>3, <2>1, <2>2, <2>3, ServerFields
<1>5. m.word \in Controls => m.file = g0
  BY <1>1 DEF Controls
<1>6. QED
  BY <1>1, <1>3, <1>4, <1>5, WordAdded

\* The session answers some other command.
LEMMA ReplyStep ==
  ASSUME Download!DownloadAssumption, DownloadsInv, Download!Reply
  PROVE  DownloadsInv'
<1>1. /\ downloads' = downloads \o <<Download!Msg("print", "none", 0)>>
      /\ UNCHANGED <<tpc, reader, chunk, collected, stored, shortRead, offset, failed>>
  BY DEF Download!Reply, Download!Writes, Download!threadVars, Download!clientVars
<1>2. replies' \in 0 .. Replies
  <2>1. replies \in 0 .. Replies /\ Replies \in Nat /\ replies < Replies /\ replies' = replies + 1
    BY DEF Download!Reply, DownloadsInv, Download!TypeOK, Download!DownloadAssumption
  <2>2. QED
    BY <2>1
<1>3. tpc' \in [Files -> {"open", "read", "aborting", "over"}]
  BY <1>1 DEF DownloadsInv, Download!TypeOK
<1>4. \E g0 : g0 \notin Files /\ tpc'[g0] = tpc[g0]
  <2>1. \E g0 : g0 \notin Files
    BY NoSetContainsEverything
  <2>2. QED
    BY <1>1, <2>1
<1>5. QED
  BY <1>1, <1>2, <1>3, <1>4, WordStep

\* A downloader says that it begins.
LEMMA DownloadBeginStep ==
  ASSUME Download!DownloadAssumption, DownloadsInv, NEW f \in Files, Download!DownloadBegin(f)
  PROVE  DownloadsInv'
<1>1. /\ downloads' = downloads \o <<Download!Msg("downloadbegin", f, 0)>>
      /\ UNCHANGED <<reader, chunk, collected, stored, shortRead, offset, failed, replies>>
      /\ tpc[f] = "open" /\ tpc' = [tpc EXCEPT ![f] = "read"]
  BY DEF Download!DownloadBegin, Download!Goto, Download!Writes, Download!clientVars
<1>2. replies' \in 0 .. Replies /\ tpc \in [Files -> {"open", "read", "aborting", "over"}]
  BY <1>1 DEF DownloadsInv, Download!TypeOK
<1>3. QED
  BY <1>1, <1>2, WordStep

\* A downloader finds that the file has gone.
LEMMA DownloadErrorStep ==
  ASSUME Download!DownloadAssumption, DownloadsInv, NEW f \in Files, Download!DownloadError(f)
  PROVE  DownloadsInv'
<1>1. /\ downloads' = downloads \o <<Download!Msg("print", "none", 0)>>
      /\ UNCHANGED <<reader, chunk, collected, stored, shortRead, offset, failed, replies>>
      /\ tpc[f] = "open" /\ tpc' = [tpc EXCEPT ![f] = "over"]
  BY DEF Download!DownloadError, Download!Goto, Download!Writes, Download!clientVars
<1>2. replies' \in 0 .. Replies /\ tpc \in [Files -> {"open", "read", "aborting", "over"}]
  BY <1>1 DEF DownloadsInv, Download!TypeOK
<1>3. QED
  BY <1>1, <1>2, WordStep

\* A downloader says that it has sent everything.
LEMMA DownloadCompleteStep ==
  ASSUME Download!DownloadAssumption, DownloadsInv, NEW f \in Files, Download!DownloadComplete(f)
  PROVE  DownloadsInv'
<1>1. /\ downloads' = downloads \o <<Download!Msg("downloadcomplete", f, 0)>>
      /\ UNCHANGED <<reader, chunk, collected, stored, shortRead, offset, failed, replies>>
      /\ tpc[f] = "read" /\ tpc' = [tpc EXCEPT ![f] = "over"] /\ offset[f] = LengthOf[f]
  BY DEF Download!DownloadComplete, Download!Goto, Download!Writes, Download!clientVars
<1>2. replies' \in 0 .. Replies /\ tpc \in [Files -> {"open", "read", "aborting", "over"}]
  BY <1>1 DEF DownloadsInv, Download!TypeOK
<1>3. QED
  BY <1>1, <1>2, WordStep

\* A downloader cannot read the file: nothing is promised from there on.
LEMMA DownloadAbortStep ==
  ASSUME Download!DownloadAssumption, DownloadsInv, NEW f \in Files, Download!DownloadAbort(f)
  PROVE  DownloadsInv'
<1> DEFINE m == Download!Msg("downloadabort", f, 0)
<1>1. /\ downloads' = downloads \o <<m>> /\ failed'
      /\ UNCHANGED <<reader, chunk, collected, stored, shortRead, offset, replies>>
      /\ tpc' = [tpc EXCEPT ![f] = "aborting"]
  BY DEF Download!DownloadAbort, Download!Goto, Download!Writes, Download!clientVars
<1>2. Proper(m) /\ m \in Messages /\ m.word = "downloadabort"
  <2>1. 0 \in 0 .. ChunkSize
    BY DownloadConstants
  <2>2. Proper(m)
    BY <2>1, MsgProper
  <2>3. QED
    BY <2>2, MsgIs DEF Proper
<1>3. failed'  /\ failed' \in BOOLEAN
  BY <1>1 DEF Download!DownloadAbort
<1> HIDE DEF m
<1>4. <<m>> \in Seq(Messages) /\ AllProper(<<m>>)
  BY <1>2, OneProper
<1>5. Download!TypeOK /\ Sound
  BY DEF DownloadsInv
<1>6. Download!TypeOK' /\ Sound'
  <2>1. offset' \in [Files -> Nat] /\ replies' \in 0 .. Replies
        /\ tpc' \in [Files -> {"open", "read", "aborting", "over"}]
    BY <1>1 DEF DownloadsInv, Sound, Download!TypeOK
  <2>2. \A g \in Files : offset'[g] <= LengthOf[g]
    BY <1>1, DownloadConstants DEF DownloadsInv, Download!TypeOK
  <2>3. QED
    BY <1>1, <1>3, <1>4, <1>5, <2>1, <2>2, ServerFields
<1>7. Gains(<<m>>)
  BY <1>1, <1>4, <1>5, LineIs, LineGrows, DownloadConstants DEF Gains
<1>8. PICK start \in [Nat -> Nat] : Spaced(start)
  BY DEF DownloadsInv
<1>9. Spaced(start)'
  BY <1>1, <1>2, <1>7, <1>8, WordSpaced
<1>10. QED
  BY <1>3, <1>6, <1>9 DEF DownloadsInv

-----------------------------------------------------------------------------
(* A chunk is written *)

\* The header and the pieces of a chunk that begins at o.
ChunkWords(f, o, n) ==
  <<Download!Msg("downloadchunk", f, n)>> \o Download!Data(Download!Pieces(f, o, o + n))

\* What is to be known of them.
ChunkOf(msgs, f, o, n) ==
  /\ msgs \in Seq(Messages) /\ Len(msgs) = n + 1
  /\ msgs[1].word = "downloadchunk" /\ msgs[1].file = f /\ msgs[1].length = n
  /\ \A j \in 1 .. n : msgs[1 + j].word = "piece" /\ msgs[1 + j].piece = Download!Piece(f, o + j)

\* The words of a chunk are its header and its pieces.
LEMMA ChunkWordsAre ==
  ASSUME ChunkSize \in Nat, NEW f \in Files, NEW o \in Nat, NEW n \in 0 .. ChunkSize
  PROVE  ChunkOf(ChunkWords(f, o, n), f, o, n) /\ AllProper(ChunkWords(f, o, n))
<1> DEFINE s == Download!Pieces(f, o, o + n)
           d == Download!Data(s)
           h == Download!Msg("downloadchunk", f, n)
           P(j) == [word |-> "piece", file |-> f, length |-> 0, piece |-> Download!Piece(f, o + j)]
<1>1. s = [i \in 1 .. n |-> Download!Piece(f, o + i)]
  <2>1. (o + n) - o = n
    OBVIOUS
  <2>2. QED
    BY <2>1 DEF Download!Pieces
<1>2. d = [j \in 1 .. n |-> P(j)]
  <2>1. DOMAIN s = 1 .. n /\ \A j \in 1 .. n : s[j] = Download!Piece(f, o + j) /\ s[j][1] = f
    BY <1>1 DEF Download!Piece
  <2>2. QED
    BY <2>1 DEF Download!Data
<1>3. ASSUME NEW j \in 1 .. n
      PROVE  Proper(P(j))
  <2>1. Download!Piece(f, o + j) \in (Files \cup {"zero"}) \X Nat
    BY DEF Download!Piece
  <2>2. QED
    BY <2>1 DEF Proper, Messages, Controls
<1>4. d \in Seq(Messages) /\ Len(d) = n
  <2>1. \A j \in 1 .. n : P(j) \in Messages
    BY <1>3 DEF Proper
  <2> HIDE DEF P, d
  <2>2. d \in [1 .. n -> Messages] /\ n \in Nat
    BY <1>2, <2>1
  <2>3. QED
    BY <2>2
<1>5. Proper(h) /\ h.word = "downloadchunk" /\ h.file = f /\ h.length = n /\ h \in Messages
  BY MsgProper, MsgIs DEF Controls, Proper
<1>6. ChunkWords(f, o, n) = <<h>> \o d
  BY DEF ChunkWords
<1> HIDE DEF h, s
<1>7. /\ <<h>> \o d \in Seq(Messages) /\ Len(<<h>> \o d) = n + 1 /\ (<<h>> \o d)[1] = h
      /\ \A j \in 1 .. n : (<<h>> \o d)[1 + j] = d[j]
  <2> HIDE DEF d
  <2>1. <<h>> \in Seq(Messages) /\ Len(<<h>>) = 1
    BY <1>5
  <2>2. QED
    BY <1>4, <2>1
<1> DEFINE c == <<h>> \o d
<1>8. \A j \in 1 .. n : c[1 + j] = P(j)
  BY <1>2, <1>7
<1>9. ChunkOf(c, f, o, n)
  <2>1. \A j \in 1 .. n : P(j).word = "piece" /\ P(j).piece = Download!Piece(f, o + j)
    OBVIOUS
  <2>2. c \in Seq(Messages) /\ Len(c) = n + 1 /\ c[1] = h
    BY <1>7
  <2> HIDE DEF c, P
  <2>3. \A j \in 1 .. n : c[1 + j].word = "piece" /\ c[1 + j].piece = Download!Piece(f, o + j)
    BY <1>8, <2>1
  <2>4. QED
    BY <1>5, <2>2, <2>3 DEF ChunkOf
<1>10. ASSUME NEW i \in 1 .. Len(c) PROVE Proper(c[i])
  <2>1. CASE i = 1
    BY <1>5, <1>7, <2>1
  <2>2. CASE i # 1
    <3>1. i - 1 \in 1 .. n /\ 1 + (i - 1) = i
      BY <1>7, <2>2
    <3>2. c[1 + (i - 1)] = P(i - 1)
      BY <1>8, <3>1
    <3>3. QED
      BY <1>3, <3>1, <3>2
  <2>3. QED
    BY <2>1, <2>2
<1>11. QED
  BY <1>6, <1>9, <1>10 DEF AllProper

\* A chunk lies on the line behind what was there.
ChunkLies(f, o, n, l) ==
  /\ l = Len(Line) /\ Len(Line') = l + 1 + n /\ DOMAIN Line' = 1 .. l + 1 + n
  /\ \A i \in 1 .. l : Line'[i] = Line[i]
  /\ Line'[l + 1].word = "downloadchunk" /\ Line'[l + 1].file = f /\ Line'[l + 1].length = n
  /\ \A j \in 1 .. n : /\ Line'[l + 1 + j].word = "piece"
                        /\ Line'[l + 1 + j].piece = Download!Piece(f, o + j)

\* Where they are when they have been written.
LEMMA ChunkAt ==
  ASSUME NEW f, NEW o, NEW n \in Nat, NEW msgs, Gains(msgs), ChunkOf(msgs, f, o, n)
  PROVE  \E l \in Nat : ChunkLies(f, o, n, l)
<1>1. PICK l \in Nat : l = Len(Line) /\ Len(Line') = l + 1 + n /\ Line' \in Seq(Messages) /\ Len(msgs) = n + 1
  BY GainsAt DEF ChunkOf
<1>2. DOMAIN Line' = 1 .. l + 1 + n /\ \A i \in 1 .. l : Line'[i] = Line[i]
  BY <1>1, GainsAt
<1>3. \A i \in 1 .. n + 1 : Line'[l + i] = msgs[i]
  BY <1>1, GainsAt
<1>4. Line'[l + 1] = msgs[1]
  BY <1>3
<1>5. \A j \in 1 .. n : Line'[l + 1 + j] = msgs[1 + j]
  <2>1. TAKE j \in 1 .. n
  <2>2. 1 + j \in 1 .. n + 1 /\ l + (1 + j) = l + 1 + j
    OBVIOUS
  <2>3. QED
    BY <1>3, <2>2
<1>6. QED
  <2>1. /\ Line'[l + 1].word = "downloadchunk" /\ Line'[l + 1].file = f /\ Line'[l + 1].length = n
    BY <1>4 DEF ChunkOf
  <2>2. \A j \in 1 .. n : /\ Line'[l + 1 + j].word = "piece"
                          /\ Line'[l + 1 + j].piece = Download!Piece(f, o + j)
    BY <1>5 DEF ChunkOf
  <2>3. ChunkLies(f, o, n, l)
    BY <1>1, <1>2, <2>1, <2>2 DEF ChunkLies
  <2>4. QED
    BY <2>3

\* Only the header is about the state of the download.
LEMMA ChunkControl ==
  ASSUME NEW f, NEW o, NEW n \in Nat, NEW msgs, Gains(msgs), ChunkOf(msgs, f, o, n)
  PROVE  GainsControl("downloadchunk", f)
<1>0. PICK l \in Nat : ChunkLies(f, o, n, l)
  BY ChunkAt
<1>1. /\ l = Len(Line) /\ Len(Line') = l + 1 + n /\ DOMAIN Line' = 1 .. l + 1 + n
      /\ Line'[l + 1].word = "downloadchunk" /\ Line'[l + 1].file = f
      /\ \A j \in 1 .. n : Line'[l + 1 + j].word = "piece"
  BY <1>0 DEF ChunkLies
<1>2. ASSUME NEW i \in 1 .. l + 1 + n, NEW v \in Controls, NEW g \in Files
      PROVE  At(i, v, g)' <=> (i <= l /\ At(i, v, g)) \/ (i = l + 1 /\ v = "downloadchunk" /\ g = f)
  <2>1. CASE i <= l
    <3>1. i \in 1 .. Len(Line) /\ i # l + 1
      BY <1>1, <2>1
    <3>2. QED
      BY <2>1, <3>1, GainsAt
  <2>2. CASE i = l + 1
    <3>1. ~(i <= l)
      BY <2>2
    <3>2. QED
      BY <1>1, <2>2, <3>1 DEF At
  <2>3. CASE i > l + 1
    <3>1. i - (l + 1) \in 1 .. n /\ l + 1 + (i - (l + 1)) = i /\ ~(i <= l) /\ i # l + 1
      BY <2>3
    <3>2. Line'[i].word = "piece"
      <4>1. Line'[l + 1 + (i - (l + 1))].word = "piece"
        BY <1>1, <3>1
      <4>2. QED
        BY <3>1, <4>1
    <3>3. QED
      BY <3>1, <3>2 DEF At, Controls
  <2>4. QED
    BY <2>1, <2>2, <2>3
<1>3. QED
  BY <1>1, <1>2 DEF GainsControl

\* The places after a chunk was written behind l words.
Places(later, start, l, o) == later[l + 1] = o /\ \A i \in 1 .. l : later[i] = start[i]

\* A chunk begins where the one before it ends.
LEMMA ChunkSpaced ==
  ASSUME NEW l \in Nat, NEW f \in Files, NEW o \in Nat, NEW n \in Nat,
         NEW msgs, Gains(msgs), ChunkOf(msgs, f, o, n), ChunkLies(f, o, n, l),
         offset \in [Files -> Nat], offset[f] = o, offset' = [offset EXCEPT ![f] = o + n],
         NEW start \in [Nat -> Nat], NEW later \in [Nat -> Nat],
         Places(later, start, l, o), Spaced(start)
  PROVE  Spaced(later)'
<1>1. ChunkLies(f, o, n, l)
  OBVIOUS
<1>2. /\ l = Len(Line) /\ Len(Line') = l + 1 + n /\ \A i \in 1 .. l : Line'[i] = Line[i]
      /\ Line'[l + 1].length = n /\ ChunkSize \in Nat /\ Line \in Seq(Messages)
  BY <1>1, GainsAt DEF ChunkLies
<1>3. GainsControl("downloadchunk", f)
  BY ChunkControl
<1>4. \A i \in 1 .. l + 1 + n, g \in Files :
        At(i, "downloadchunk", g)' <=> (i <= l /\ At(i, "downloadchunk", g)) \/ (i = l + 1 /\ g = f)
  BY <1>2, <1>3 DEF GainsControl, Controls
<1>5. later[l + 1] = o /\ \A i \in 1 .. l : later[i] = start[i] /\ start[i] \in Nat
  BY DEF Places
<1>6. \A g \in Files : Got(g)' = Got(g) /\ Got(g) <= offset[g] /\ offset[g] <= offset'[g] /\ Got(g) <= offset'[g]
  <2>1. \A g \in Files : Got(g)' = Got(g) /\ Got(g) <= offset[g]
    BY GainsAt DEF Spaced
  <2>2. \A g \in Files : offset[g] \in Nat /\ offset'[g] = IF g = f THEN o + n ELSE offset[g]
    OBVIOUS
  <2>3. \A g \in Files : Got(g) \in Int
    BY DEF Got
  <2>4. QED
    BY <2>1, <2>2, <2>3
<1>7. ASSUME NEW g \in Files, NEW i \in 1 .. l + 1 + n, At(i, "downloadchunk", g)'
      PROVE  /\ Got(g) <= later[i] /\ later[i] + Line'[i].length <= offset'[g]
             /\ \A j \in 1 .. l + 1 + n : i < j /\ At(j, "downloadchunk", g)' =>
                  later[i] + Line'[i].length <= later[j]
  <2>1. CASE i = l + 1 /\ g = f
    <3>1. offset'[g] = o + n /\ Got(g) <= o
      BY <1>6, <2>1
    <3>2. \A j \in 1 .. l + 1 + n : ~(i < j /\ At(j, "downloadchunk", g)')
      BY <1>4, <2>1
    <3>3. later[i] = o /\ Line'[i].length = n
      BY <1>2, <1>5, <2>1
    <3>4. QED
      BY <3>1, <3>2, <3>3
  <2>2. CASE i <= l /\ At(i, "downloadchunk", g)
    <3>1. i \in 1 .. l /\ Line'[i] = Line[i] /\ later[i] = start[i]
      <4>1. i \in 1 .. l
        BY <2>2
      <4>2. \A k \in 1 .. l : Line'[k] = Line[k]
        BY <1>2
      <4>3. QED
        BY <1>5, <4>1, <4>2
    <3>2. PICK s \in Nat, k \in Nat : s = start[i] /\ k = Line[i].length
      BY <1>2, <1>5, <3>1, LengthIn
    <3>3. /\ Got(g) <= s /\ s + k <= offset[g]
          /\ \A j \in 1 .. l : i < j /\ At(j, "downloadchunk", g) => s + k <= start[j]
      BY <1>2, <2>2, <3>1, <3>2 DEF Spaced
    <3>4. s + k <= offset'[g]
      BY <1>6, <3>3
    <3>5. ASSUME NEW j \in 1 .. l + 1 + n, i < j, At(j, "downloadchunk", g)'
          PROVE  s + k <= later[j]
      <4>1. CASE j = l + 1 /\ g = f
        BY <1>5, <3>3, <4>1
      <4>2. CASE j <= l /\ At(j, "downloadchunk", g)
        <5>1. j \in 1 .. l /\ later[j] = start[j]
          BY <1>5, <4>2
        <5>2. QED
          BY <3>3, <3>5, <4>2, <5>1
      <4>3. QED
        BY <1>4, <3>5, <4>1, <4>2
    <3>6. QED
      BY <3>1, <3>2, <3>3, <3>4, <3>5
  <2>3. QED
    BY <1>4, <1>7, <2>1, <2>2
<1>8. QED
  BY <1>2, <1>6, <1>7 DEF Spaced

\* A chunk is written whole.
LEMMA ChunkFramed ==
  ASSUME NEW l \in Nat, NEW f \in Files, NEW o \in Nat, NEW n \in Nat, n >= 1,
         NEW msgs, Gains(msgs), ChunkOf(msgs, f, o, n), ChunkLies(f, o, n, l),
         NEW start \in [Nat -> Nat], NEW later \in [Nat -> Nat],
         Places(later, start, l, o), Framed(start)
  PROVE  Framed(later)'
<1>1. ChunkLies(f, o, n, l)
  OBVIOUS
<1>2. /\ l = Len(Line) /\ Len(Line') = l + 1 + n /\ \A i \in 1 .. l : Line'[i] = Line[i]
      /\ Line'[l + 1].word = "downloadchunk" /\ Line'[l + 1].file = f /\ Line'[l + 1].length = n
      /\ \A j \in 1 .. n : /\ Line'[l + 1 + j].word = "piece"
                           /\ Line'[l + 1 + j].piece = Download!Piece(f, o + j)
      /\ ChunkSize \in Nat /\ Line \in Seq(Messages)
  BY <1>1, GainsAt DEF ChunkLies
<1>3. later[l + 1] = o /\ \A i \in 1 .. l : later[i] = start[i]
  BY DEF Places
<1>4. ASSUME NEW i \in 1 .. l + 1 + n, i > l + 1
      PROVE  Line'[i].word = "piece"
  <2>1. i - (l + 1) \in 1 .. n /\ l + 1 + (i - (l + 1)) = i
    BY <1>4
  <2>2. Line'[l + 1 + (i - (l + 1))].word = "piece"
    BY <1>2, <2>1
  <2>3. QED
    BY <2>1, <2>2
<1>5. ASSUME NEW i \in 1 .. l + 1 + n, Line'[i].word = "downloadchunk"
      PROVE  /\ Line'[i].length >= 1 /\ i + Line'[i].length <= l + 1 + n
             /\ \A j \in 1 .. Line'[i].length :
                  /\ Line'[i + j].word = "piece"
                  /\ Line'[i + j].piece = Download!Piece(Line'[i].file, later[i] + j)
  <2>1. CASE i = l + 1
    <3>1. Line'[i].length = n /\ Line'[i].file = f /\ later[i] = o
      BY <1>2, <1>3, <2>1
    <3>2. \A j \in 1 .. n : Line'[i + j].word = "piece" /\ Line'[i + j].piece = Download!Piece(f, o + j)
      BY <1>2, <2>1
    <3>3. i + n <= l + 1 + n
      BY <2>1
    <3>4. QED
      BY <3>1, <3>2, <3>3
  <2>2. CASE i \in 1 .. l
    <3>1. Line'[i] = Line[i] /\ later[i] = start[i]
      BY <1>2, <1>3, <2>2
    <3>2. PICK k \in Nat : k = Line[i].length
      BY <1>2, <2>2, LengthIn
    <3>3. /\ k >= 1 /\ i + k <= l
          /\ \A j \in 1 .. k : /\ Line[i + j].word = "piece"
                               /\ Line[i + j].piece = Download!Piece(Line[i].file, start[i] + j)
      <4>1. i \in 1 .. Len(Line) /\ l = Len(Line) /\ Line[i].word = "downloadchunk"
        BY <1>2, <1>5, <2>2, <3>1
      <4>2. QED
        BY <3>2, <4>1 DEF Framed
    <3>4. \A j \in 1 .. k : i + j \in 1 .. l
      BY <3>3
    <3>5. QED
      <4>1. \A j \in 1 .. l : Line'[j] = Line[j]
        BY <1>2
      <4>2. \A j \in 1 .. k : Line'[i + j] = Line[i + j]
        BY <3>4, <4>1
      <4>3. i + k <= l + 1 + n
        BY <3>3
      <4>4. QED
        BY <3>1, <3>2, <3>3, <4>2, <4>3
  <2>3. i = l + 1 \/ i \in 1 .. l
    <3>1. ~(i > l + 1)
      BY <1>4, <1>5
    <3>2. QED
      BY <3>1
  <2>4. QED
    BY <2>1, <2>2, <2>3
<1>6. ASSUME NEW i \in 1 .. l + 1 + n
      PROVE  /\ Line'[i].word # "downloadabort"
             /\ Line'[i].word = "piece" =>
                  \E c \in 1 .. i - 1 : Line'[c].word = "downloadchunk" /\ i <= c + Line'[c].length
  <2>1. CASE i = l + 1
    BY <1>2, <2>1
  <2>2. CASE i > l + 1
    <3>1. l + 1 \in 1 .. i - 1 /\ i <= (l + 1) + n
      BY <2>2
    <3>2. QED
      BY <1>2, <1>4, <2>2, <3>1
  <2>3. CASE i \in 1 .. l
    <3>1. \A c \in 1 .. i - 1 : c \in 1 .. l
      BY <2>3
    <3>2. QED
      <4>1. \A j \in 1 .. l : Line'[j] = Line[j]
        BY <1>2
      <4>2. i \in 1 .. Len(Line)
        BY <1>2, <2>3
      <4>3. /\ Line[i].word # "downloadabort"
            /\ Line[i].word = "piece" =>
                 \E c \in 1 .. i - 1 : Line[c].word = "downloadchunk" /\ i <= c + Line[c].length
        BY <4>2 DEF Framed
      <4>4. Line'[i] = Line[i] /\ \A c \in 1 .. i - 1 : Line'[c] = Line[c]
        BY <2>3, <3>1, <4>1
      <4>5. QED
        BY <4>3, <4>4
  <2>4. QED
    BY <2>1, <2>2, <2>3
<1>7. QED
  BY <1>2, <1>5, <1>6 DEF Framed

\* A chunk leaves no gap.
LEMMA ChunkGapless ==
  ASSUME NEW l \in Nat, NEW f \in Files, NEW o \in Nat, NEW n \in Nat,
         NEW msgs, Gains(msgs), ChunkOf(msgs, f, o, n), ChunkLies(f, o, n, l),
         offset \in [Files -> Nat], offset[f] = o, offset' = [offset EXCEPT ![f] = o + n],
         tpc[f] = "read", tpc' = tpc, NEW start \in [Nat -> Nat], NEW later \in [Nat -> Nat],
         Places(later, start, l, o), Gapless(start)
  PROVE  Gapless(later)'
<1>1. ChunkLies(f, o, n, l)
  OBVIOUS
<1>2. /\ l = Len(Line) /\ Len(Line') = l + 1 + n
      /\ Line'[l + 1].word = "downloadchunk" /\ Line'[l + 1].file = f /\ Line'[l + 1].length = n
      /\ DOMAIN Line' = 1 .. l + 1 + n
  BY <1>1 DEF ChunkLies
<1>3. later[l + 1] = o /\ later \in [Nat -> Nat] /\ \A i \in 1 .. Len(Line) : later[i] = start[i]
  BY <1>2 DEF Places
<1>4. \A i \in 1 .. l + 1 + n, w \in Controls, g \in Files :
        At(i, w, g)' <=> (i <= l /\ At(i, w, g)) \/ (i = l + 1 /\ w = "downloadchunk" /\ g = f)
  <2>1. GainsControl("downloadchunk", f)
    BY ChunkControl
  <2>2. Len(Line) = l /\ Len(Line') = l + 1 + n
    BY <1>2
  <2>3. QED
    BY <2>1, <2>2 DEF GainsControl
<1>5. ASSUME NEW g, NEW place, NEW i \in Nat, NEW j \in Nat, i <= j, Reached(start, g, place, i)
      PROVE  Reached(later, g, place, j)'
  BY <1>3, <1>5, GainsReached
<1>6. Reached(start, f, o, l + 1)
  BY <1>2 DEF Gapless
<1>7. ASSUME NEW g \in Files, NEW i \in 1 .. l + 1 + n, At(i, "downloadchunk", g)'
      PROVE  Reached(later, g, later[i], i)'
  <2>1. CASE i = l + 1 /\ g = f
    <3>1. i \in Nat /\ i <= i /\ later[i] = o
      BY <1>3, <2>1
    <3>2. Reached(start, g, o, i)
      BY <1>6, <2>1
    <3>3. QED
      BY <1>5, <3>1, <3>2
  <2>2. CASE i <= l /\ At(i, "downloadchunk", g)
    <3>1. i \in 1 .. Len(Line) /\ i \in Nat /\ i <= i
      BY <1>2, <2>2
    <3>2. Reached(start, g, start[i], i) /\ later[i] = start[i]
      BY <1>3, <2>2, <3>1 DEF Gapless
    <3>3. QED
      BY <1>5, <3>1, <3>2
  <2>3. QED
    BY <1>4, <1>7, <2>1, <2>2 DEF Controls
<1>8. ASSUME NEW g \in Files, NEW i \in 1 .. l + 1 + n, At(i, "downloadcomplete", g)'
      PROVE  Reached(later, g, LengthOf[g], i)'
  <2>1. i <= l /\ At(i, "downloadcomplete", g)
    BY <1>4, <1>8 DEF Controls
  <2>2. i \in 1 .. Len(Line) /\ i \in Nat /\ i <= i
    BY <1>2, <2>1
  <2>3. Reached(start, g, LengthOf[g], i)
    BY <2>1, <2>2 DEF Gapless
  <2>4. QED
    BY <1>5, <2>2, <2>3
<1>9. ASSUME NEW g \in Files, tpc'[g] = "read"
      PROVE  Reached(later, g, offset[g], Len(Line) + 1)'
  <2>1. CASE g = f
    <3>1. offset'[g] = o + n
      BY <2>1
    <3>2. l + 1 \in 1 .. Len(Line') /\ l + 1 < Len(Line') + 1
      <4>1. PICK m \in Nat : m = Len(Line') /\ m = l + 1 + n
        BY <1>2
      <4>2. l + 1 \in 1 .. m /\ l + 1 < m + 1
        BY <4>1
      <4>3. QED
        BY <4>1, <4>2
    <3>3. At(l + 1, "downloadchunk", g)'
      BY <1>2, <2>1, <3>2 DEF At
    <3>4. \E c \in 1 .. Len(Line') :
            c < Len(Line') + 1 /\ At(c, "downloadchunk", g)' /\ later[c] + Line'[c].length = offset'[g]
      BY <1>2, <1>3, <3>1, <3>2, <3>3
    <3>5. QED
      BY <3>4 DEF Reached
  <2>2. CASE g # f
    <3>1. PICK place : place = offset[g] /\ place = offset'[g]
      BY <2>2
    <3>2. Reached(start, g, place, l + 1)
      BY <1>2, <1>9, <3>1 DEF Gapless
    <3>3. PICK j \in Nat : j = Len(Line') + 1 /\ l + 1 <= j
      <4>1. Len(Line') = l + 1 + n
        BY <1>2
      <4>2. l + 1 + n + 1 \in Nat /\ l + 1 <= l + 1 + n + 1
        OBVIOUS
      <4>3. QED
        BY <4>1, <4>2
    <3>4. Reached(later, g, place, j)'
      BY <1>5, <3>2, <3>3
    <3>5. QED
      BY <3>1, <3>3, <3>4
  <2>3. QED
    BY <2>1, <2>2
<1>10. \A g \in Files : tpc'[g] = "open" => offset'[g] = 0
  BY DEF Gapless
<1>11. QED
  BY <1>2, <1>7, <1>8, <1>9, <1>10 DEF Gapless

\* A downloader sends a chunk.
LEMMA DownloadChunkStep ==
  ASSUME Download!DownloadAssumption, DownloadsInv, NEW f \in Files, Download!DownloadChunk(f)
  PROVE  DownloadsInv'
<1>1. Download!TypeOK /\ Sound
  BY DEF DownloadsInv
<1>2. PICK o \in Nat, len \in Nat : o = offset[f] /\ len = LengthOf[f] /\ o < len
  BY <1>1, DownloadConstants DEF Sound, Download!DownloadChunk
<1>3. PICK n \in Nat : n = Download!ChunkLength(f) /\ n >= 1 /\ n <= ChunkSize /\ o + n <= len /\ ChunkSize \in Nat
  <2>1. len - o \in Nat /\ len - o >= 1 /\ ChunkSize \in Nat /\ ChunkSize >= 1
    BY <1>2, DownloadConstants
  <2>2. PICK k : k = Download!Min({ChunkSize, len - o})
    OBVIOUS
  <2>3. k \in {ChunkSize, len - o} /\ k <= ChunkSize /\ k <= len - o
    BY <2>1, <2>2, DownloadMin
  <2>4. k = Download!ChunkLength(f)
    BY <1>2, <2>2 DEF Download!ChunkLength
  <2>5. QED
    BY <1>2, <2>1, <2>3, <2>4
<1> DEFINE msgs == ChunkWords(f, o, n)
<1>4. /\ downloads' = downloads \o msgs /\ tpc[f] = "read" /\ tpc' = tpc
      /\ offset' = [offset EXCEPT ![f] = o + n]
      /\ UNCHANGED <<failed, replies, reader, chunk, collected, stored, shortRead>>
  BY <1>1, <1>2, <1>3 DEF Download!DownloadChunk, Download!Goto, Download!Writes, Download!clientVars, ChunkWords,
     Download!TypeOK
<1>5. ChunkOf(msgs, f, o, n) /\ AllProper(msgs)
  BY <1>3, ChunkWordsAre
<1> HIDE DEF msgs
<1>6. msgs \in Seq(Messages) /\ Len(msgs) = n + 1 /\ Len(msgs) >= 1
  BY <1>5 DEF ChunkOf
<1>7. Download!TypeOK' /\ Sound'
  <2>1. offset \in [Files -> Nat] /\ offset' \in [Files -> Nat]
    BY <1>1, <1>4 DEF Sound
  <2>2. \A g \in Files : offset'[g] <= LengthOf[g]
    BY <1>1, <1>2, <1>3, <1>4, <2>1, DownloadConstants DEF Download!TypeOK
  <2>3. replies' \in 0 .. Replies /\ failed' \in BOOLEAN /\ tpc' \in [Files -> {"open", "read", "aborting", "over"}]
    BY <1>1, <1>4 DEF Download!TypeOK
  <2>4. QED
    BY <1>1, <1>4, <1>5, <1>6, <2>1, <2>2, <2>3, ServerFields
<1>8. Gains(msgs)
  BY <1>1, <1>3, <1>4, <1>6, LineIs, LineGrows DEF Gains
<1>9. PICK start \in [Nat -> Nat] : Spaced(start) /\ (~shortRead /\ ~failed => Orderly(start))
  BY DEF DownloadsInv
<1>a. PICK l \in Nat : ChunkLies(f, o, n, l)
  BY <1>3, <1>5, <1>8, ChunkAt
<1>10. PICK later \in [Nat -> Nat] : Places(later, start, l, o)
  <2>1. [start EXCEPT ![l + 1] = o] \in [Nat -> Nat]
    BY <1>2, <1>a, <1>9
  <2>2. Places([start EXCEPT ![l + 1] = o], start, l, o)
    BY <1>a, <1>9 DEF Places
  <2>3. QED
    BY <2>1, <2>2
<1>b. offset \in [Files -> Nat]
  BY <1>1 DEF Sound
<1>11. Spaced(later)'
  BY <1>2, <1>3, <1>4, <1>5, <1>8, <1>9, <1>10, <1>a, <1>b, ChunkSpaced
<1>12. ASSUME ~shortRead', ~failed' PROVE Orderly(later)'
  <2>1. Orderly(start)
    BY <1>4, <1>9, <1>12
  <2>2. Framed(later)'
    BY <1>3, <1>5, <1>8, <2>1, <1>a, <1>9, <1>10, ChunkFramed DEF Orderly
  <2>3. Gapless(later)'
    BY <1>2, <1>3, <1>4, <1>5, <1>8, <1>10, <2>1, <1>a, <1>b, <1>9, ChunkGapless DEF Orderly
  <2>4. Bracketed'
    <3>1. GainsControl("downloadchunk", f)
      BY <1>5, <1>8, ChunkControl
    <3>2. Bracketed
      BY <2>1 DEF Orderly
    <3>3. QED
      BY <1>4, <1>6, <1>8, <3>1, <3>2, GainsBracketed
  <2>5. InPlace' /\ reader' \in {"word", "data"}
    BY <1>4, <2>1 DEF Orderly, InPlace
  <2>6. QED
    BY <2>2, <2>3, <2>4, <2>5 DEF Orderly
<1>13. shortRead' \in BOOLEAN
  BY <1>7 DEF Download!TypeOK
<1>14. QED
  BY <1>7, <1>10, <1>11, <1>12 DEF DownloadsInv

-----------------------------------------------------------------------------
(* The client reads *)

\* The types of the client's variables.
ClientTyped ==
  /\ reader \in {"word", "data", "dead", "stuck"}
  /\ chunk = <<chunk[1], chunk[2]>> /\ chunk[1] \in Files \cup {"none"} /\ chunk[2] \in 0 .. ChunkSize
  /\ reader = "data" => chunk[1] \in Files
  /\ DOMAIN collected \subseteq Files
  /\ \A f \in DOMAIN collected : collected[f] \in Seq((Files \cup {"zero"}) \X Nat)
  /\ shortRead \in BOOLEAN

\* The client's variables have their types.
LEMMA IsTyped ==
  ASSUME Download!TypeOK, Sound
  PROVE  ClientTyped
BY DEF Download!TypeOK, Sound, ClientTyped

\* The fields after a step of the client.
LEMMA ReaderFields ==
  ASSUME Download!DownloadAssumption, Download!TypeOK, Sound, NEW n \in Nat, Rest(n), ClientTyped',
         UNCHANGED <<tpc, offset, replies, failed>>, \A f \in Files : Got(f)' <= offset[f]
  PROVE  Download!TypeOK' /\ Sound'
<1>1. downloads' \in Seq(Messages) /\ AllProper(downloads')
  BY RestProper
<1>2. Sound' /\ \A i \in DOMAIN downloads' : downloads'[i].word \in DownloadWords
  BY <1>1, StaysSound DEF Sound, ClientTyped
<1>3. DownloadWords = {"print", "downloadbegin", "downloadchunk", "downloadcomplete", "downloadabort", "piece"}
  BY DEF DownloadWords, Controls
<1>4. \A f \in DOMAIN collected' : Len(collected'[f]) <= LengthOf[f]
  <2>1. TAKE f \in DOMAIN collected'
  <2>2. f \in Files /\ collected'[f] \in Seq((Files \cup {"zero"}) \X Nat)
    BY DEF ClientTyped
  <2>3. Len(collected'[f]) <= offset[f] /\ Len(collected'[f]) \in Nat
    BY <2>2 DEF Got
  <2>4. offset[f] \in Nat /\ LengthOf[f] \in Nat /\ offset[f] <= LengthOf[f]
    BY <2>2, DownloadConstants DEF Download!TypeOK
  <2>5. QED
    BY <2>3, <2>4
<1>5. /\ tpc' \in [Files -> {"open", "read", "aborting", "over"}]
      /\ (\A f \in Files : offset[f] \in 0 .. LengthOf[f])'
      /\ replies' \in 0 .. Replies /\ failed' \in BOOLEAN
  BY DEF Download!TypeOK
<1>6. Download!TypeOK'
  BY <1>2, <1>3, <1>4, <1>5 DEF Download!TypeOK, ClientTyped
<1>7. QED
  BY <1>2, <1>6

\* What has to be shown of a read when all is in order.
OrderlyRead(start, k) ==
  /\ Collects(start, k) /\ \A f \in Files : Passes(start, k, f)
  /\ BeginsAndEnds(k) /\ WholeChunks(k) /\ InPlace' /\ reader' = "word"

\* A read, of which all that is particular has been shown.
LEMMA ReadStep ==
  ASSUME Download!DownloadAssumption, DownloadsInv, NEW n \in Nat, Rest(n), ClientTyped', reader' # "data",
         NEW k \in Nat, k = IF reader = "data" THEN n + 1 ELSE n,
         UNCHANGED <<tpc, offset, replies, failed>>,
         NEW start \in [Nat -> Nat], Spaced(start), RoomLeft(start, k),
         ~shortRead' /\ ~failed => Orderly(start) /\ OrderlyRead(start, k)
  PROVE  DownloadsInv'
<1>1. Download!TypeOK /\ Sound
  BY DEF DownloadsInv
<1>2. Download!TypeOK' /\ Sound'
  <2>1. \A f \in Files : Got(f)' <= offset[f]
    BY DEF RoomLeft
  <2>2. QED
    BY <1>1, <2>1, ReaderFields
<1>3. Loses(k)
  BY <1>1, <1>2, ReadLoses
<1>4. PICK later \in [Nat -> Nat] : later = After(start, k)
  <2>1. After(start, k) \in [Nat -> Nat]
    BY DEF After
  <2>2. QED
    BY <2>1
<1>5. Spaced(After(start, k))'
  BY <1>3, LosesSpaced
<1>6. ASSUME ~shortRead', ~failed' PROVE Orderly(After(start, k))'
  <2>1. Orderly(start) /\ OrderlyRead(start, k)
    BY <1>6
  <2>2. Framed(After(start, k))'
    BY <1>3, <2>1, LosesFramed DEF Orderly, OrderlyRead
  <2>3. Gapless(After(start, k))'
    BY <1>3, <2>1, LosesGapless DEF Orderly, OrderlyRead
  <2>4. Bracketed'
    BY <1>3, <2>1, LosesBracketed DEF Orderly, OrderlyRead
  <2>5. QED
    BY <2>1, <2>2, <2>3, <2>4 DEF Orderly, OrderlyRead
<1>7. Spaced(later)' /\ (~shortRead' /\ ~failed' => Orderly(later)')
  BY <1>4, <1>5, <1>6
<1>8. QED
  BY <1>2, <1>7 DEF DownloadsInv

\* Nothing is collected.
LEMMA RoomStays ==
  ASSUME NEW k \in Nat, NEW start \in [Nat -> Nat], Spaced(start), UNCHANGED <<collected, offset>>
  PROVE  RoomLeft(start, k) /\ \A f : Got(f)' = Got(f)
<1>1. \A f : Got(f)' = Got(f)
  BY DEF Got
<1>2. QED
  BY <1>1 DEF RoomLeft, Spaced

\* The first word on the line, which is no header and no piece, is read.
LEMMA WordReads ==
  ASSUME Download!TypeOK, Sound, reader = "word", downloads # <<>>, downloads' = Tail(downloads),
         NEW w, Head(downloads).word = w
  PROVE  /\ Rest(1) /\ Line[1] = Head(downloads) /\ Line[1].word = w /\ 1 \in 1 .. Len(Line)
         /\ Proper(Line[1]) /\ 1 \in DOMAIN Line
         /\ w # "downloadchunk" => WholeChunks(1) /\ \A start : Collects(start, 1)
<1>1. Line = downloads
  BY LineIs
<1>2. Rest(1) /\ 1 \in 1 .. Len(Line) /\ Line[1] = Head(downloads) /\ Proper(Line[1])
  BY <1>1, TailRest
<1>3. 1 \in DOMAIN Line
  BY <1>1, <1>2, AreProper
<1>4. \A c \in 1 .. 1 : c = 1
  OBVIOUS
<1>5. w # "downloadchunk" => WholeChunks(1) /\ \A start : Collects(start, 1)
  BY <1>2, <1>4 DEF WholeChunks, Collects, At
<1>6. QED
  BY <1>2, <1>3, <1>5

\* The client prints an answer.
LEMMA ReadPrintStep ==
  ASSUME Download!DownloadAssumption, DownloadsInv, Download!ReadPrint
  PROVE  DownloadsInv'
<1>1. /\ reader = "word" /\ downloads # <<>> /\ Head(downloads).word = "print" /\ downloads' = Tail(downloads)
      /\ UNCHANGED <<tpc, offset, replies, failed, reader, chunk, collected, stored, shortRead>>
  BY DEF Download!ReadPrint, Download!Reads, Download!threadVars, Download!clientVars
<1>2. Download!TypeOK /\ Sound
  BY DEF DownloadsInv
<1>3. Rest(1) /\ Line[1].word = "print" /\ WholeChunks(1) /\ \A start : Collects(start, 1)
  BY <1>1, <1>2, WordReads
<1>4. PICK start \in [Nat -> Nat] : Spaced(start) /\ (~shortRead /\ ~failed => Orderly(start))
  BY DEF DownloadsInv
<1>5. RoomLeft(start, 1) /\ \A f : Got(f)' = Got(f)
  BY <1>1, <1>4, RoomStays
<1>6. \A b \in 1 .. 1 : b = 1
  OBVIOUS
<1>7. BeginsAndEnds(1)
  BY <1>1, <1>3, <1>6 DEF BeginsAndEnds, At
<1>8. ASSUME ~shortRead', ~failed PROVE Orderly(start) /\ OrderlyRead(start, 1)
  <2>1. Orderly(start)
    BY <1>1, <1>4, <1>8
  <2>2. InPlace'
    BY <1>1, <2>1 DEF Orderly, InPlace
  <2>3. QED
    BY <1>1, <1>3, <1>5, <1>7, <2>1, <2>2 DEF OrderlyRead, Passes
<1>9. ClientTyped' /\ reader' # "data" /\ reader # "data"
  BY <1>1, <1>2, IsTyped DEF ClientTyped
<1>10. QED
  BY <1>1, <1>3, <1>4, <1>5, <1>8, <1>9, ReadStep

\* The client begins a download: there was none of that id.
LEMMA ReadBeginStep ==
  ASSUME Download!DownloadAssumption, DownloadsInv, Download!ReadBegin
  PROVE  DownloadsInv'
<1>0. PICK f : f = Head(downloads).file
  OBVIOUS
<1>1. /\ reader = "word" /\ downloads # <<>> /\ Head(downloads).word = "downloadbegin"
      /\ downloads' = Tail(downloads)
      /\ collected' = [g \in DOMAIN collected \cup {f} |-> IF g = f THEN <<>> ELSE collected[g]]
      /\ UNCHANGED <<tpc, offset, replies, failed, reader, chunk, stored, shortRead>>
  BY <1>0 DEF Download!ReadBegin, Download!Reads, Download!threadVars
<1>2. Download!TypeOK /\ Sound
  BY DEF DownloadsInv
<1>3. /\ Rest(1) /\ Line[1].word = "downloadbegin" /\ WholeChunks(1) /\ \A start : Collects(start, 1)
      /\ Line[1].file = f /\ Proper(Line[1]) /\ 1 \in 1 .. Len(Line) /\ 1 \in DOMAIN Line
  BY <1>0, <1>1, <1>2, WordReads
<1>4. f \in Files /\ At(1, "downloadbegin", f)
  BY <1>3 DEF Proper, Controls, At
<1>5. PICK start \in [Nat -> Nat] : Spaced(start) /\ (~shortRead /\ ~failed => Orderly(start))
  BY DEF DownloadsInv
<1>6. Got(f)' = 0 /\ \A g : g # f => Got(g)' = Got(g)
  <2>1. Len(<<>>) = 0
    OBVIOUS
  <2>2. DOMAIN collected' = DOMAIN collected \cup {f} /\ collected'[f] = <<>>
        /\ \A g \in DOMAIN collected : g # f => collected'[g] = collected[g]
    BY <1>1
  <2>3. QED
    BY <2>1, <2>2 DEF Got
<1>7. RoomLeft(start, 1)
  <2>1. \A g \in Files : offset[g] \in Nat /\ Got(f)' <= offset[f]
    BY <1>2, <1>4, <1>6 DEF Sound
  <2>2. \A i \in 1 .. Len(Line) : Got(f)' <= start[i]
    <3>1. \A i \in 1 .. Len(Line) : start[i] \in Nat
      BY <1>2, LineIs
    <3>2. QED
      BY <1>6, <3>1
  <2>3. QED
    BY <1>1, <1>5, <1>6, <2>1, <2>2 DEF RoomLeft, Spaced
<1>8. \A b \in 1 .. 1 : b = 1
  OBVIOUS
<1>9. BeginsAndEnds(1)
  BY <1>1, <1>3, <1>4, <1>8 DEF BeginsAndEnds, At
<1>10. ASSUME ~shortRead', ~failed PROVE Orderly(start) /\ OrderlyRead(start, 1)
  <2>1. Orderly(start)
    BY <1>1, <1>5, <1>10
  <2>2. f \notin DOMAIN collected
    BY <1>3, <1>4, <2>1 DEF Orderly, Bracketed
  <2>3. \A g : Got(g)' = Got(g)
    BY <1>6, <2>2 DEF Got
  <2>4. InPlace'
    <3>1. \A g \in DOMAIN collected' : \A i \in 1 .. Len(collected'[g]) : collected'[g][i] = Download!Piece(g, i)
      <4>1. \A g \in DOMAIN collected' : g = f \/ (g \in DOMAIN collected /\ collected'[g] = collected[g])
        BY <1>1
      <4>2. collected'[f] = <<>>
        BY <1>1
      <4>3. \A i \in 1 .. Len(<<>>) : FALSE
        OBVIOUS
      <4>4. QED
        BY <2>1, <4>1, <4>2, <4>3 DEF Orderly, InPlace
    <3>2. QED
      BY <1>1, <2>1, <3>1 DEF Orderly, InPlace
  <2>5. QED
    BY <1>1, <1>3, <1>9, <2>1, <2>3, <2>4 DEF OrderlyRead, Passes
<1>11. ClientTyped' /\ reader' # "data" /\ reader # "data"
  <2>1. ClientTyped
    BY <1>2, IsTyped
  <2>2. DOMAIN collected' \subseteq Files
    BY <1>1, <1>4, <2>1 DEF ClientTyped
  <2>3. \A g \in DOMAIN collected' : collected'[g] \in Seq((Files \cup {"zero"}) \X Nat)
    BY <1>1, <2>1 DEF ClientTyped
  <2>4. QED
    BY <1>1, <2>1, <2>2, <2>3 DEF ClientTyped
<1>12. QED
  BY <1>1, <1>3, <1>5, <1>7, <1>10, <1>11, ReadStep

\* The client stores a download: it has all of it.
LEMMA ReadCompleteStep ==
  ASSUME Download!DownloadAssumption, DownloadsInv, Download!ReadComplete
  PROVE  DownloadsInv'
<1>0. PICK f : f = Head(downloads).file
  OBVIOUS
<1>1. /\ reader = "word" /\ downloads # <<>> /\ Head(downloads).word = "downloadcomplete"
      /\ downloads' = Tail(downloads)
      /\ UNCHANGED <<tpc, offset, replies, failed, chunk, shortRead>>
      /\ IF f \notin DOMAIN collected
         THEN reader' = "dead" /\ UNCHANGED <<collected, stored>>
         ELSE /\ stored' = stored \cup {<<f, collected[f]>>}
              /\ collected' = [g \in DOMAIN collected \ {f} |-> collected[g]]
              /\ UNCHANGED reader
  BY <1>0 DEF Download!ReadComplete, Download!Reads, Download!threadVars
<1>2. Download!TypeOK /\ Sound
  BY DEF DownloadsInv
<1>3. /\ Rest(1) /\ Line[1].word = "downloadcomplete" /\ WholeChunks(1) /\ \A start : Collects(start, 1)
      /\ Line[1].file = f /\ Proper(Line[1]) /\ 1 \in 1 .. Len(Line) /\ 1 \in DOMAIN Line
  BY <1>0, <1>1, <1>2, WordReads
<1>4. f \in Files /\ At(1, "downloadcomplete", f)
  BY <1>3 DEF Proper, Controls, At
<1>5. PICK start \in [Nat -> Nat] : Spaced(start) /\ (~shortRead /\ ~failed => Orderly(start))
  BY DEF DownloadsInv
<1>6. \A b \in 1 .. 1 : b = 1
  OBVIOUS
<1>7. ASSUME Orderly(start)
      PROVE  /\ f \in DOMAIN collected /\ Len(collected[f]) = LengthOf[f]
             /\ \A i \in 1 .. Len(Line), w \in Controls : i > 1 => ~At(i, w, f)
             /\ tpc[f] = "over"
  <2>1. Bracketed /\ Gapless(start)
    BY <1>7 DEF Orderly
  <2>2. \A b \in 1 .. Len(Line) : ~(b < 1)
    <3>1. Len(Line) \in Nat
      BY <1>2, LineIs
    <3>2. QED
      BY <3>1
  <2>3. f \in DOMAIN collected
    BY <1>3, <1>4, <2>1, <2>2 DEF Bracketed
  <2>4. Reached(start, f, LengthOf[f], 1)
    BY <1>3, <1>4, <2>1 DEF Gapless
  <2>5. LengthOf[f] = Len(collected[f])
    BY <2>2, <2>3, <2>4 DEF Reached, Got
  <2>6. tpc[f] = "over" /\ \A i \in 1 .. Len(Line), w \in Controls : At(i, w, f) => i <= 1
    BY <1>3, <1>4, <2>1 DEF Bracketed
  <2>7. \A i \in 1 .. Len(Line), w \in Controls : i > 1 => ~At(i, w, f)
    <3>1. Len(Line) \in Nat
      BY <1>2, LineIs
    <3>2. QED
      BY <2>6, <3>1
  <2>8. QED
    BY <2>3, <2>5, <2>6, <2>7
<1>8. CASE f \notin DOMAIN collected
  <2>1. reader' = "dead" /\ UNCHANGED <<collected, stored>>
    BY <1>1, <1>8
  <2>2. RoomLeft(start, 1)
    BY <1>1, <1>5, <2>1, RoomStays
  <2>3. ~(~shortRead' /\ ~failed)
    BY <1>1, <1>5, <1>7, <1>8
  <2>4. ClientTyped' /\ reader' # "data" /\ reader # "data"
    BY <1>1, <1>2, <2>1, IsTyped DEF ClientTyped
  <2>5. QED
    BY <1>1, <1>3, <1>5, <2>2, <2>3, <2>4, ReadStep
<1>9. CASE f \in DOMAIN collected
  <2>1. /\ stored' = stored \cup {<<f, collected[f]>>} /\ reader' = reader
        /\ collected' = [g \in DOMAIN collected \ {f} |-> collected[g]]
    BY <1>1, <1>9
  <2>2. /\ DOMAIN collected' = DOMAIN collected \ {f}
        /\ \A g \in DOMAIN collected : g # f => g \in DOMAIN collected' /\ collected'[g] = collected[g]
    BY <2>1
  <2>3. Got(f)' = 0 /\ \A g : g # f => Got(g)' = Got(g)
    BY <2>2 DEF Got
  <2>4. RoomLeft(start, 1)
    <3>1. \A g \in Files : offset[g] \in Nat /\ Got(f)' <= offset[f]
      BY <1>2, <1>4, <2>3 DEF Sound
    <3>2. \A i \in 1 .. Len(Line) : Got(f)' <= start[i]
      <4>1. \A i \in 1 .. Len(Line) : start[i] \in Nat
        BY <1>2, LineIs
      <4>2. QED
        BY <2>3, <4>1
    <3>3. QED
      BY <1>1, <1>5, <2>3, <3>1, <3>2 DEF RoomLeft, Spaced
  <2>5. BeginsAndEnds(1)
    BY <1>1, <1>3, <1>4, <1>6, <2>2 DEF BeginsAndEnds, At
  <2>6. ASSUME ~shortRead', ~failed PROVE Orderly(start) /\ OrderlyRead(start, 1)
    <3>1. Orderly(start)
      BY <1>1, <1>5, <2>6
    <3>2. collected[f] = Download!Contents(f)
      <4>1. PICK len \in Nat : len = LengthOf[f]
        BY <1>4, DownloadConstants
      <4>2. Len(collected[f]) = len /\ \A i \in 1 .. len : collected[f][i] = Download!Piece(f, i)
        BY <1>7, <1>9, <3>1, <4>1 DEF Orderly, InPlace
      <4>3. collected[f] \in Seq((Files \cup {"zero"}) \X Nat)
        BY <1>2, <1>9 DEF Sound
      <4>4. collected[f] = [i \in 1 .. len |-> collected[f][i]]
        <5>1. PICK s \in Seq((Files \cup {"zero"}) \X Nat) : s = collected[f]
          BY <4>3
        <5>2. s = [i \in 1 .. Len(s) |-> s[i]]
          BY <5>1
        <5>3. QED
          BY <4>2, <5>1, <5>2
      <4>5. Download!Contents(f) = [i \in 1 .. len |-> Download!Piece(f, i)]
        <5>1. len - 0 = len /\ \A i \in 1 .. len : 0 + i = i
          OBVIOUS
        <5>2. QED
          BY <4>1, <5>1 DEF Download!Contents, Download!Pieces
      <4>6. QED
        BY <4>2, <4>4, <4>5
    <3>3. InPlace'
      <4>1. \A g \in DOMAIN collected' : g \in DOMAIN collected /\ collected'[g] = collected[g]
        BY <2>2
      <4>2. \A d \in stored' : d \in stored \/ d = <<f, collected[f]>>
        BY <2>1
      <4>3. (\A g \in DOMAIN collected : \A i \in 1 .. Len(collected[g]) : collected[g][i] = Download!Piece(g, i))'
        BY <3>1, <4>1 DEF Orderly, InPlace
      <4>4. <<f, collected[f]>>[1] = f /\ <<f, collected[f]>>[2] = collected[f]
        OBVIOUS
      <4>5. \A d \in stored' : d[2] = Download!Contents(d[1])
        BY <3>1, <3>2, <4>2, <4>4 DEF Orderly, InPlace
      <4>6. \A g : Download!Contents(g)' = Download!Contents(g)
        BY DEF Download!Contents, Download!Pieces, Download!Piece
      <4>7. QED
        BY <4>3, <4>5, <4>6 DEF InPlace
    <3>4. \A g \in Files : Passes(start, 1, g)
      <4>1. Passes(start, 1, f)
        BY <1>7, <3>1 DEF Passes
      <4>2. QED
        BY <2>3, <4>1 DEF Passes
    <3>5. QED
      BY <1>1, <1>3, <2>1, <2>5, <3>1, <3>3, <3>4 DEF OrderlyRead
  <2>7. ClientTyped' /\ reader' # "data" /\ reader # "data"
    <3>1. ClientTyped
      BY <1>2, IsTyped
    <3>2. DOMAIN collected' \subseteq Files
          /\ \A g \in DOMAIN collected' : collected'[g] \in Seq((Files \cup {"zero"}) \X Nat)
      BY <2>2, <3>1 DEF ClientTyped
    <3>3. QED
      BY <1>1, <2>1, <3>1, <3>2 DEF ClientTyped
  <2>8. QED
    BY <1>1, <1>3, <1>5, <2>4, <2>6, <2>7, ReadStep
<1>10. QED
  BY <1>8, <1>9

\* The client takes data for a word: only when the reading is in disorder.
LEMMA ReadGarbageStep ==
  ASSUME Download!DownloadAssumption, DownloadsInv, Download!ReadGarbage
  PROVE  DownloadsInv'
<1>1. /\ reader = "word" /\ downloads # <<>> /\ Head(downloads).word \in {"piece", "downloadabort"}
      /\ UNCHANGED <<tpc, offset, replies, failed, chunk, collected, stored, shortRead>>
      /\ \/ /\ \E n \in 1 .. Len(downloads) : downloads' = SubSeq(downloads, n + 1, Len(downloads))
            /\ reader' = reader
         \/ reader' \in {"dead", "stuck"} /\ downloads' = downloads
  BY DEF Download!ReadGarbage, Download!threadVars
<1>2. Download!TypeOK /\ Sound
  BY DEF DownloadsInv
<1>3. PICK start \in [Nat -> Nat] : Spaced(start) /\ (~shortRead /\ ~failed => Orderly(start))
  BY DEF DownloadsInv
<1>4. ~(~shortRead' /\ ~failed)
  <2>1. SUFFICES ASSUME Orderly(start) PROVE FALSE
    BY <1>1, <1>3
  <2>2. Line = downloads /\ 1 \in 1 .. Len(Line) /\ Line[1] = Head(downloads)
    <3>1. Line = downloads /\ downloads \in Seq(Messages)
      BY <1>1, <1>2, LineIs DEF Sound
    <3>2. QED
      BY <1>1, <3>1, HeadTailProperties
  <2>3. Framed(start) /\ \A c \in 1 .. 1 - 1 : FALSE
    BY <2>1 DEF Orderly
  <2>4. QED
    BY <1>1, <2>2, <2>3 DEF Framed
<1>5. PICK n \in 0 .. Len(downloads) : Rest(n)
  <2>1. CASE \E n \in 1 .. Len(downloads) : downloads' = SubSeq(downloads, n + 1, Len(downloads))
    <3>1. PICK n \in 1 .. Len(downloads) : downloads' = SubSeq(downloads, n + 1, Len(downloads))
      BY <2>1
    <3>2. n \in 0 .. Len(downloads)
      BY <1>2, AreProper
    <3>3. QED
      BY <1>2, <3>1, <3>2, RestIs
  <2>2. CASE downloads' = downloads
    <3>1. PICK l \in Nat : l = Len(downloads) /\ downloads \in Seq(Messages)
      BY <1>2, AreProper
    <3>2. 0 \in 0 .. l /\ l - 0 = l /\ \A i \in 1 .. l : i + 0 = i
      OBVIOUS
    <3>3. Rest(0)
      BY <2>2, <3>1, <3>2 DEF Rest
    <3>4. QED
      BY <3>1, <3>2, <3>3
  <2>3. QED
    BY <1>1, <2>1, <2>2
<1>6. n \in Nat
  BY <1>2, AreProper
<1>7. RoomLeft(start, n)
  BY <1>1, <1>3, <1>6, RoomStays
<1>8. ClientTyped' /\ reader' # "data" /\ reader # "data"
  BY <1>1, <1>2, IsTyped DEF ClientTyped
<1>9. QED
  BY <1>1, <1>3, <1>4, <1>5, <1>6, <1>7, <1>8, ReadStep

\* Reading a header leaves the line as it is: the header is kept aside.
LEMMA ReadChunkStep ==
  ASSUME Download!DownloadAssumption, DownloadsInv, Download!ReadChunk
  PROVE  DownloadsInv'
<1> DEFINE h == Head(downloads)
<1>1. /\ reader = "word" /\ downloads # <<>> /\ h.word = "downloadchunk" /\ downloads' = Tail(downloads)
      /\ reader' = "data" /\ chunk' = <<h.file, h.length>>
      /\ UNCHANGED <<tpc, offset, replies, failed, collected, stored, shortRead>>
  BY DEF Download!ReadChunk, Download!Reads, Download!threadVars
<1>2. Download!TypeOK /\ Sound
  BY DEF DownloadsInv
<1>3. Rest(1) /\ Proper(h)
  BY <1>1, <1>2, TailRest
<1>4. h \in Messages /\ h.file \in Files /\ h.piece = Download!Zero
  BY <1>1, <1>3 DEF Proper, Controls
<1>5. h = Download!Msg("downloadchunk", h.file, h.length) /\ h.length \in 0 .. ChunkSize
  BY <1>1, <1>4 DEF Messages, Download!Msg
<1>6. Line = downloads
  BY <1>1, <1>2, LineIs
<1>7. Line' = <<h>> \o Tail(downloads)
  <2>1. Line' = <<Download!Msg("downloadchunk", chunk'[1], chunk'[2])>> \o downloads'
    BY <1>1 DEF Line, Download!Msg
  <2>2. chunk'[1] = h.file /\ chunk'[2] = h.length
    BY <1>1
  <2>3. QED
    BY <1>1, <1>5, <2>1, <2>2
<1>8. Line' = Line
  <2>1. downloads \in Seq(Messages)
    BY <1>2, AreProper
  <2>2. downloads = <<h>> \o Tail(downloads)
    BY <1>1, <2>1
  <2>3. QED
    BY <1>6, <1>7, <2>2
<1>9. PICK start \in [Nat -> Nat] : Spaced(start) /\ (~shortRead /\ ~failed => Orderly(start))
  BY DEF DownloadsInv
<1>10. \A f : Got(f)' = Got(f)
  BY <1>1 DEF Got
<1>11. Download!TypeOK' /\ Sound'
  <2>1. ClientTyped'
    BY <1>1, <1>2, <1>4, <1>5, IsTyped DEF ClientTyped
  <2>2. \A f \in Files : Got(f)' <= offset[f]
    BY <1>9, <1>10 DEF Spaced
  <2>3. QED
    BY <1>1, <1>2, <1>3, <2>1, <2>2, ReaderFields
<1>12. \A i, w, f : At(i, w, f)' <=> At(i, w, f)
  BY <1>8 DEF At
<1>13. Spaced(start)'
  BY <1>1, <1>8, <1>9, <1>10, <1>12 DEF Spaced
<1>14. ASSUME ~shortRead', ~failed' PROVE Orderly(start)'
  <2>1. Orderly(start)
    BY <1>1, <1>9, <1>14
  <2>2. Framed(start)'
    BY <1>8, <2>1 DEF Orderly, Framed
  <2>3. Gapless(start)'
    BY <1>1, <1>8, <1>10, <1>12, <2>1 DEF Orderly, Gapless, Reached
  <2>4. Bracketed'
    BY <1>1, <1>8, <1>12, <2>1 DEF Orderly, Bracketed
  <2>5. InPlace'
    BY <1>1, <2>1 DEF Orderly, InPlace
  <2>6. QED
    BY <1>1, <2>2, <2>3, <2>4, <2>5 DEF Orderly
<1>15. QED
  BY <1>11, <1>13, <1>14 DEF DownloadsInv

\* What a read of n pieces puts into an array of length c.
Filled(n, c) == [i \in 1 .. c |-> IF i <= n THEN downloads[i].piece ELSE Download!Zero]

\* What a read of data does.
LEMMA ReadDataIs ==
  ASSUME Download!DownloadAssumption, DownloadsInv, Download!ReadData
  PROVE  \E f \in Files, n, c \in Nat :
           /\ reader = "data" /\ f = chunk[1] /\ c = chunk[2] /\ 1 <= n /\ n <= c /\ Rest(n)
           /\ \A i \in 1 .. n : i \in 1 .. Len(downloads) /\ downloads[i].word = "piece"
           /\ shortRead' = (shortRead \/ n < c) /\ chunk' = <<"none", 0>>
           /\ UNCHANGED <<tpc, offset, failed, replies, stored>>
           /\ IF f \notin DOMAIN collected THEN reader' = "dead" /\ UNCHANGED collected
              ELSE reader' = "word" /\ collected' = [collected EXCEPT ![f] = @ \o Filled(n, c)]
<1>1. Download!TypeOK /\ Sound
  BY DEF DownloadsInv
<1>2. reader = "data"
  BY DEF Download!ReadData
<1>3. PICK f \in Files, c \in Nat : f = chunk[1] /\ c = chunk[2]
  BY <1>1, <1>2, DownloadConstants DEF Sound, Download!TypeOK
<1>4. PICK l \in Nat, a \in Nat : /\ l = Len(downloads) /\ a = Download!Available /\ a <= l
                                  /\ \A i \in 1 .. a : downloads[i].word = "piece"
  BY <1>1, PiecesAvailable, AreProper
<1>5. PICK m : m = Download!Min({c, a}) /\ m \in Nat /\ m <= c /\ m <= a
  BY DownloadMin
<1>6. PICK n \in 1 .. m :
           /\ downloads' = SubSeq(downloads, n + 1, Len(downloads))
           /\ shortRead' = (shortRead \/ n < c) /\ chunk' = <<"none", 0>>
           /\ UNCHANGED <<tpc, offset, failed, replies, stored>>
           /\ IF f \notin DOMAIN collected THEN reader' = "dead" /\ UNCHANGED collected
              ELSE reader' = "word" /\ collected' = [collected EXCEPT ![f] = @ \o Filled(n, c)]
  BY <1>3, <1>4, <1>5 DEF Download!ReadData, Download!threadVars, Filled
<1>7. n \in Nat /\ 1 <= n /\ n <= c /\ n \in 0 .. l /\ \A i \in 1 .. n : i \in 1 .. a /\ i \in 1 .. l
  BY <1>4, <1>5, <1>6
<1>8. Rest(n)
  BY <1>1, <1>4, <1>6, <1>7, RestIs
<1>9. \A i \in 1 .. n : i \in 1 .. Len(downloads) /\ downloads[i].word = "piece"
  BY <1>4, <1>7
<1>10. QED
  BY <1>2, <1>3, <1>6, <1>7, <1>8, <1>9

\* There are n words to read.
Covers(n) == \A i \in 1 .. n : i \in 1 .. Len(downloads)

\* What is read are pieces.
LEMMA FilledIs ==
  ASSUME Sound, NEW n \in Nat, NEW c \in Nat, n <= c, Covers(n)
  PROVE  /\ Filled(n, c) \in Seq((Files \cup {"zero"}) \X Nat) /\ Len(Filled(n, c)) = c
         /\ n = c => \A i \in 1 .. c : Filled(n, c)[i] = downloads[i].piece
<1>1. Download!Zero \in (Files \cup {"zero"}) \X Nat
  BY DEF Download!Zero
<1>2. \A i \in 1 .. n : downloads[i].piece \in (Files \cup {"zero"}) \X Nat
  BY AreProper DEF AllProper, Proper, Messages, Covers
<1>3. \A i \in 1 .. c : (IF i <= n THEN downloads[i].piece ELSE Download!Zero) \in (Files \cup {"zero"}) \X Nat
  BY <1>1, <1>2
<1>4. Filled(n, c) \in [1 .. c -> (Files \cup {"zero"}) \X Nat]
  BY <1>3 DEF Filled
<1>5. n = c => \A i \in 1 .. c : Filled(n, c)[i] = downloads[i].piece
  BY DEF Filled
<1>6. QED
  BY <1>4, <1>5

\* The client reads the data of a chunk, perhaps not all of it.
LEMMA ReadDataStep ==
  ASSUME Download!DownloadAssumption, DownloadsInv, Download!ReadData
  PROVE  DownloadsInv'
<1>0. PICK f \in Files, n, c \in Nat :
        /\ reader = "data" /\ f = chunk[1] /\ c = chunk[2] /\ 1 <= n /\ n <= c /\ Rest(n)
        /\ \A i \in 1 .. n : i \in 1 .. Len(downloads) /\ downloads[i].word = "piece"
        /\ shortRead' = (shortRead \/ n < c) /\ chunk' = <<"none", 0>>
        /\ UNCHANGED <<tpc, offset, failed, replies, stored>>
        /\ IF f \notin DOMAIN collected THEN reader' = "dead" /\ UNCHANGED collected
           ELSE reader' = "word" /\ collected' = [collected EXCEPT ![f] = @ \o Filled(n, c)]
  BY ReadDataIs
<1>1. /\ UNCHANGED <<tpc, offset, failed, replies, stored>> /\ n \in Nat /\ c \in Nat /\ n + 1 \in Nat
      /\ f \in Files /\ Rest(n) /\ reader = "data" /\ chunk' = <<"none", 0>>
      /\ shortRead' = (shortRead \/ n < c)
  BY <1>0
<1>2. Download!TypeOK /\ Sound
  BY DEF DownloadsInv
<1>3. PICK l \in Nat : /\ Len(Line) = l /\ 1 \in 1 .. l /\ At(1, "downloadchunk", f) /\ Line[1].length = c
                       /\ n + 1 <= l
  <2>1. PICK m \in Nat : m = Len(downloads) /\ Len(Line) = m + 1
    BY <1>1, <1>2, LineIs, AreProper
  <2>2. n <= m
    BY <1>1, <2>1 DEF Rest
  <2>3. At(1, "downloadchunk", f) /\ Line[1].length = c
    BY <1>0, <1>2, LineIs
  <2>4. m + 1 \in Nat /\ 1 \in 1 .. m + 1 /\ n + 1 <= m + 1
    BY <1>1, <2>1, <2>2
  <2>5. QED
    BY <2>1, <2>3, <2>4
<1>4. \A i \in 1 .. n : Line[i + 1] = downloads[i] /\ downloads[i].word = "piece"
  BY <1>0, <1>2, LineIs
<1>5. ASSUME NEW i \in 1 .. n + 1, i # 1 PROVE Line[i].word = "piece"
  <2>1. i - 1 \in 1 .. n /\ (i - 1) + 1 = i
    BY <1>1, <1>5
  <2>2. Line[(i - 1) + 1] = downloads[i - 1] /\ downloads[i - 1].word = "piece"
    BY <1>4, <2>1
  <2>3. QED
    BY <2>1, <2>2
<1>6. PICK start \in [Nat -> Nat] : Spaced(start) /\ (~shortRead /\ ~failed => Orderly(start))
  BY DEF DownloadsInv
<1>7. PICK s \in Nat, o \in Nat : /\ s = start[1] /\ o = offset[f] /\ o <= LengthOf[f] /\ LengthOf[f] \in Nat
                                  /\ Got(f) <= s /\ s + c <= o
                                  /\ \A j \in 1 .. l : 1 < j /\ At(j, "downloadchunk", f) => s + c <= start[j]
  <2>1. PICK s \in Nat, o \in Nat : s = start[1] /\ o = offset[f]
    BY <1>1, <1>2 DEF Sound
  <2>2. o <= LengthOf[f] /\ LengthOf[f] \in Nat
    <3>1. \A g \in Files : offset[g] \in 0 .. LengthOf[g]
      BY <1>2 DEF Download!TypeOK
    <3>2. f \in Files /\ LengthOf[f] \in Nat
      BY <1>1, DownloadConstants
    <3>3. o \in 0 .. LengthOf[f]
      BY <2>1, <3>1, <3>2
    <3>4. QED
      BY <3>2, <3>3
  <2>3. /\ Got(f) <= s /\ s + c <= o
        /\ \A j \in 1 .. l : 1 < j /\ At(j, "downloadchunk", f) => s + c <= start[j]
    BY <1>1, <1>3, <1>6, <2>1 DEF Spaced
  <2>4. QED
    BY <2>1, <2>2, <2>3
<1>a. /\ s \in Nat /\ o \in Nat /\ c \in Nat /\ n \in Nat /\ l \in Nat
      /\ 1 <= n /\ n <= c /\ s + c <= o /\ o <= LengthOf[f] /\ LengthOf[f] \in Nat
  BY <1>0, <1>1, <1>3, <1>7
<1>b. ASSUME NEW j \in 1 .. l, 1 < j, At(j, "downloadchunk", f) PROVE s + c <= start[j] /\ start[j] \in Nat
  <2>1. s + c <= start[j]
    BY <1>7, <1>b
  <2>2. j \in Nat
    BY <1>a
  <2>3. QED
    BY <1>6, <2>1, <2>2
<1>c. Got(f) <= s
  BY <1>7
<1>8. ClientTyped
  BY <1>2, IsTyped
<1>9. 0 \in 0 .. ChunkSize
  BY DownloadConstants
<1>10. shortRead' \in BOOLEAN
  BY <1>1, <1>8 DEF ClientTyped
<1>11. CASE f \notin DOMAIN collected
  <2>1. reader' = "dead" /\ UNCHANGED collected
    BY <1>0, <1>11
  <2>2. RoomLeft(start, n + 1)
    BY <1>1, <1>6, <2>1, RoomStays
  <2>3. ~(~shortRead' /\ ~failed)
    <3>1. SUFFICES ASSUME Orderly(start) PROVE FALSE
      BY <1>1, <1>6
    <3>2. \A b \in 1 .. l : ~(b < 1)
      BY <1>3
    <3>3. QED
      BY <1>1, <1>3, <1>11, <3>1, <3>2 DEF Orderly, Bracketed
  <2>4. ClientTyped' /\ reader' # "data"
    BY <1>1, <1>8, <1>9, <1>10, <2>1 DEF ClientTyped
  <2>5. QED
    BY <1>1, <1>6, <2>2, <2>3, <2>4, ReadStep
<1>12. CASE f \in DOMAIN collected
  <2>1. reader' = "word" /\ collected' = [collected EXCEPT ![f] = @ \o Filled(n, c)]
    BY <1>0, <1>12
  <2>2. PICK data : data = Filled(n, c)
    OBVIOUS
  <2>3. /\ data \in Seq((Files \cup {"zero"}) \X Nat) /\ Len(data) = c
        /\ n = c => \A i \in 1 .. c : data[i] = downloads[i].piece
    <3>1. Covers(n) /\ n <= c
      BY <1>0 DEF Covers
    <3>2. QED
      BY <1>1, <1>2, <2>2, <3>1, FilledIs
  <2>a. PICK old \in Seq((Files \cup {"zero"}) \X Nat) : old = collected[f]
    BY <1>8, <1>12 DEF ClientTyped
  <2>b. PICK q \in Nat : q = Len(old)
    BY <2>a
  <2>4. old \in Seq((Files \cup {"zero"}) \X Nat) /\ q \in Nat /\ old = collected[f] /\ q = Len(old)
    BY <2>a, <2>b
  <2>5. /\ DOMAIN collected' = DOMAIN collected /\ collected'[f] = old \o data
        /\ \A g \in DOMAIN collected : g # f => collected'[g] = collected[g]
    BY <1>12, <2>1, <2>2, <2>4
  <2>6. /\ old \o data \in Seq((Files \cup {"zero"}) \X Nat) /\ Len(old \o data) = q + c
        /\ \A i \in 1 .. q : (old \o data)[i] = old[i]
        /\ \A i \in 1 .. q + c : i > q => (old \o data)[i] = data[i - q]
    <3>1. data \in Seq((Files \cup {"zero"}) \X Nat) /\ Len(data) = c /\ c \in Nat
      BY <1>1, <2>3
    <3>2. old \in Seq((Files \cup {"zero"}) \X Nat) /\ q \in Nat /\ q = Len(old)
      BY <2>4
    <3>3. /\ old \o data \in Seq((Files \cup {"zero"}) \X Nat) /\ Len(old \o data) = Len(old) + Len(data)
          /\ \A i \in 1 .. Len(old) + Len(data) :
               (old \o data)[i] = IF i <= Len(old) THEN old[i] ELSE data[i - Len(old)]
      BY <3>1, <3>2, ConcatProperties
    <3>4. \A i \in 1 .. q : i \in 1 .. q + c /\ i <= q
      BY <3>1, <3>2
    <3>5. \A i \in 1 .. q + c : i > q => ~(i <= q)
      BY <3>1, <3>2
    <3>6. QED
      BY <3>1, <3>2, <3>3, <3>4, <3>5
  <2>7. Got(f) = q /\ Got(f)' = q + c /\ \A g : g # f => Got(g)' = Got(g)
    BY <1>12, <2>4, <2>5, <2>6 DEF Got
  <2>c. q \in Nat /\ c \in Nat /\ q <= s /\ q + c <= o
    <3>1. Got(f) = q
      BY <2>7
    <3>2. q <= s
      BY <1>c, <3>1
    <3>3. q \in Nat
      BY <2>b
    <3>4. QED
      BY <1>a, <3>2, <3>3
  <2>8. RoomLeft(start, n + 1)
    <3>1. q + c <= o
      BY <2>c
    <3>2. ASSUME NEW i \in 1 .. l, i > n + 1, At(i, "downloadchunk", f) PROVE q + c <= start[i]
      <4>1. 1 < i
        BY <1>1, <3>2
      <4>2. s + c <= start[i] /\ start[i] \in Nat
        BY <1>b, <3>2, <4>1
      <4>3. QED
        BY <1>a, <2>c, <4>2
    <3>3. QED
      BY <1>1, <1>3, <1>6, <1>7, <2>7, <3>1, <3>2 DEF RoomLeft, Spaced
  <2>9. ClientTyped' /\ reader' # "data"
    <3>1. \A g \in DOMAIN collected' : collected'[g] \in Seq((Files \cup {"zero"}) \X Nat)
      BY <1>8, <2>5, <2>6 DEF ClientTyped
    <3>2. DOMAIN collected' \subseteq Files
      BY <1>8, <2>5 DEF ClientTyped
    <3>3. QED
      BY <1>1, <1>9, <1>10, <2>1, <3>1, <3>2 DEF ClientTyped
  <2>10. ASSUME ~shortRead', ~failed PROVE Orderly(start) /\ OrderlyRead(start, n + 1)
    <3>1. Orderly(start) /\ n = c
      <4>1. ~shortRead /\ ~(n < c)
        BY <1>1, <2>10
      <4>2. n = c
        BY <1>a, <4>1
      <4>3. QED
        BY <1>6, <2>10, <4>1, <4>2
    <3>2. c >= 1
      BY <1>a
    <3>3. s = q
      <4>1. Reached(start, f, start[1], 1)
        BY <1>1, <1>3, <3>1 DEF Orderly, Gapless
      <4>2. \A b \in 1 .. l : ~(b < 1)
        BY <1>3
      <4>3. QED
        BY <1>3, <1>7, <2>7, <4>1, <4>2 DEF Reached
    <3>4. \A j \in 1 .. c : data[j] = Download!Piece(f, q + j)
      <4>1. \A j \in 1 .. c : Line[1 + j].piece = Download!Piece(f, s + j)
        <5>1. Line[1].word = "downloadchunk" /\ Line[1].file = f
          BY <1>3 DEF At
        <5>2. QED
          BY <1>3, <1>7, <3>1, <5>1 DEF Orderly, Framed
      <4>2. \A j \in 1 .. c : 1 + j = j + 1
        BY <1>1
      <4>3. \A j \in 1 .. c : downloads[j].piece = Download!Piece(f, s + j)
        BY <1>4, <3>1, <4>1, <4>2
      <4>4. QED
        BY <2>3, <3>1, <3>3, <4>3
    <3>5. InPlace'
      <4>1. ASSUME NEW i \in 1 .. q + c PROVE (old \o data)[i] = Download!Piece(f, i)
        <5>1. CASE i <= q
          <6>1. i \in 1 .. q /\ (old \o data)[i] = old[i]
            BY <2>4, <2>6, <5>1
          <6>2. QED
            BY <1>12, <2>4, <3>1, <6>1 DEF Orderly, InPlace
        <5>2. CASE i > q
          <6>1. i - q \in 1 .. c /\ q + (i - q) = i
            BY <2>c, <5>2
          <6>2. data[i - q] = Download!Piece(f, q + (i - q))
            BY <3>4, <6>1
          <6>3. (old \o data)[i] = data[i - q]
            BY <2>6, <5>2
          <6>4. QED
            BY <6>1, <6>2, <6>3
        <5>3. QED
          <6>1. q \in Nat /\ c \in Nat
            BY <2>c
          <6>2. i <= q \/ i > q
            BY <6>1
          <6>3. QED
            BY <5>1, <5>2, <6>2
      <4>2. \A g \in DOMAIN collected' : \A i \in 1 .. Len(collected'[g]) : collected'[g][i] = Download!Piece(g, i)
        <5>1. \A i \in 1 .. Len(collected'[f]) : collected'[f][i] = Download!Piece(f, i)
          BY <2>5, <2>6, <4>1
        <5>2. \A g \in DOMAIN collected' : g # f => g \in DOMAIN collected /\ collected'[g] = collected[g]
          BY <2>5
        <5>3. QED
          BY <3>1, <5>1, <5>2 DEF Orderly, InPlace
      <4>3. QED
        BY <1>1, <3>1, <4>2 DEF Orderly, InPlace
    <3>6. Collects(start, n + 1)
      <4>1. ASSUME NEW g \in Files, NEW b \in 1 .. n + 1, At(b, "downloadchunk", g)
            PROVE  start[b] + Line[b].length = Got(g)'
        <5>1. b = 1
          BY <1>5, <4>1 DEF At
        <5>2. g = f
          BY <1>3, <4>1, <5>1 DEF At
        <5>3. start[b] = q /\ Line[b].length = c
          BY <1>3, <1>7, <3>3, <5>1
        <5>4. QED
          BY <2>7, <5>2, <5>3
      <4>2. QED
        BY <4>1 DEF Collects
    <3>7. ASSUME NEW g \in Files PROVE Passes(start, n + 1, g)
      <4>1. CASE g # f
        BY <2>7, <4>1 DEF Passes
      <4>2. CASE g = f
        <5>1. LengthOf[f] # q /\ offset[f] # q
          <6>1. offset[f] = o
            BY <1>7
          <6>2. PICK len \in Nat : len = LengthOf[f] /\ o <= len
            BY <1>a
          <6>3. o # q /\ len # q
            <7>1. q \in Nat /\ c \in Nat /\ c >= 1 /\ o \in Nat /\ len \in Nat
              BY <1>a, <2>c, <3>2, <6>2
            <7>2. q + c <= o /\ o <= len
              BY <2>c, <6>2
            <7>3. QED
              BY <7>1, <7>2
          <6>4. QED
            BY <6>1, <6>2, <6>3
        <5>2. ASSUME NEW i \in 1 .. Len(Line), i > n + 1, At(i, "downloadchunk", f) PROVE start[i] # q
          <6>1. i \in 1 .. l /\ 1 < i
            BY <1>1, <1>3, <5>2
          <6>2. s + c <= start[i] /\ start[i] \in Nat
            BY <1>b, <5>2, <6>1
          <6>3. QED
            BY <1>a, <3>2, <3>3, <6>2
        <5>3. QED
          BY <2>7, <4>2, <5>1, <5>2 DEF Passes
      <4>3. QED
        BY <4>1, <4>2
    <3>8. WholeChunks(n + 1)
      <4>1. ASSUME NEW b \in 1 .. n + 1, Line[b].word = "downloadchunk" PROVE b + Line[b].length <= n + 1
        <5>1. b = 1
          BY <1>5, <4>1
        <5>2. Line[b].length = n
          BY <1>3, <3>1, <5>1
        <5>3. QED
          BY <1>1, <5>1, <5>2
      <4>2. QED
        BY <4>1 DEF WholeChunks
    <3>9. BeginsAndEnds(n + 1)
      <4>1. ASSUME NEW b \in 1 .. n + 1, NEW g \in Files PROVE ~At(b, "downloadbegin", g)
        BY <1>3, <1>5 DEF At
      <4>2. QED
        BY <1>1, <2>5, <4>1 DEF BeginsAndEnds
    <3>10. QED
      BY <2>1, <3>1, <3>5, <3>6, <3>7, <3>8, <3>9 DEF OrderlyRead
  <2>11. QED
    BY <1>1, <1>6, <2>8, <2>9, <2>10, ReadStep
<1>13. QED
  BY <1>11, <1>12

\* Every step keeps the invariant.
LEMMA DownloadsNext ==
  ASSUME Download!DownloadAssumption, DownloadsInv, [Download!Next]_(Download!vars)
  PROVE  DownloadsInv'
<1>1. CASE Download!Reply
  BY <1>1, ReplyStep
<1>2. ASSUME NEW f \in Files, Download!Downloader(f) \/ Download!DownloadAbort(f) PROVE DownloadsInv'
  BY <1>2, DownloadBeginStep, DownloadErrorStep, DownloadChunkStep, DownloadCompleteStep, DownloadAbortStep
     DEF Download!Downloader
<1>3. CASE Download!Reader
  BY <1>3, ReadPrintStep, ReadBeginStep, ReadChunkStep, ReadDataStep, ReadCompleteStep, ReadGarbageStep
     DEF Download!Reader
<1>4. CASE UNCHANGED Download!vars
  <2>1. UNCHANGED <<tpc, offset, replies, downloads, reader, chunk, collected, stored, shortRead, failed>>
    BY <1>4 DEF Download!vars
  <2>2. Download!TypeOK' /\ Sound'
    BY <2>1 DEF DownloadsInv, Download!TypeOK, Sound
  <2>3. PICK start \in [Nat -> Nat] : Spaced(start) /\ (~shortRead /\ ~failed => Orderly(start))
    BY DEF DownloadsInv
  <2>4. Line' = Line
    BY <2>1 DEF Line, Download!Msg
  <2>5. (\A f : Got(f)' = Got(f)) /\ \A i, w, f : At(i, w, f)' <=> At(i, w, f)
    BY <2>1, <2>4 DEF Got, At
  <2>6. Spaced(start)'
    BY <2>1, <2>3, <2>4, <2>5 DEF Spaced
  <2>7. ASSUME ~shortRead', ~failed' PROVE Orderly(start)'
    <3>1. Orderly(start)
      BY <2>1, <2>3, <2>7
    <3>2. Framed(start)'
      BY <2>4, <3>1 DEF Orderly, Framed
    <3>3. Gapless(start)'
      BY <2>1, <2>4, <2>5, <3>1 DEF Orderly, Gapless, Reached
    <3>4. Bracketed'
      BY <2>1, <2>4, <2>5, <3>1 DEF Orderly, Bracketed
    <3>5. InPlace' /\ reader' \in {"word", "data"}
      BY <2>1, <3>1 DEF Orderly, InPlace
    <3>6. QED
      BY <3>2, <3>3, <3>4, <3>5 DEF Orderly
  <2>8. QED
    BY <2>2, <2>6, <2>7 DEF DownloadsInv
<1>5. QED
  BY <1>1, <1>2, <1>3, <1>4 DEF Download!Next

\* The invariant has in it what is to be shown.
LEMMA DownloadsAreWhole ==
  ASSUME Download!DownloadAssumption, DownloadsInv
  PROVE  Download!Inv /\ Download!DownloadsWhole
<1>1. Download!TypeOK /\ Sound
  BY DEF DownloadsInv
<1>2. PICK start \in [Nat -> Nat] : Spaced(start) /\ (~shortRead /\ ~failed => Orderly(start))
  BY DEF DownloadsInv
<1>3. ASSUME ~shortRead, ~failed
      PROVE  /\ reader \notin {"dead", "stuck"}
             /\ downloads # <<>> => ((reader = "data") = (Head(downloads).word = "piece"))
  <2>1. Orderly(start)
    BY <1>2, <1>3
  <2>2. downloads \in Seq(Messages)
    BY <1>1, AreProper
  <2>3. CASE reader = "data" /\ downloads # <<>>
    <3>1. At(1, "downloadchunk", chunk[1]) /\ Len(Line) = Len(downloads) + 1
          /\ \A i \in 1 .. Len(downloads) : Line[i + 1] = downloads[i]
      BY <1>1, <2>3, LineIs
    <3>2. 1 \in 1 .. Len(downloads) /\ Head(downloads) = downloads[1] /\ 1 \in 1 .. Len(Line)
      BY <2>2, <2>3, <3>1
    <3>3. PICK k \in Nat : k = Line[1].length
      <4>1. ChunkSize \in Nat /\ Line \in Seq(Messages)
        BY <1>1, LineIs, DownloadConstants
      <4>2. QED
        BY <3>2, <4>1, LengthIn
    <3>4. Line[1].word = "downloadchunk"
      BY <3>1 DEF At
    <3>5. k >= 1 /\ \A j \in 1 .. k : Line[1 + j].word = "piece"
      BY <2>1, <3>2, <3>3, <3>4 DEF Orderly, Framed
    <3>6. Line[1 + 1] = downloads[1] /\ 1 \in 1 .. k
      BY <3>1, <3>2, <3>5
    <3>7. QED
      BY <2>3, <3>2, <3>5, <3>6
  <2>4. CASE reader = "word" /\ downloads # <<>>
    <3>1. Line = downloads
      BY <1>1, <2>4, LineIs
    <3>2. 1 \in 1 .. Len(Line) /\ Head(downloads) = Line[1]
      BY <2>2, <2>4, <3>1
    <3>3. \A c \in 1 .. 1 - 1 : FALSE
      OBVIOUS
    <3>4. Line[1].word # "piece"
      BY <2>1, <3>2, <3>3 DEF Orderly, Framed
    <3>5. QED
      BY <2>4, <3>2, <3>4
  <2>5. QED
    BY <2>1, <2>3, <2>4 DEF Orderly
<1>4. ASSUME ~shortRead, ~failed
      PROVE  /\ \A f \in DOMAIN collected : Download!IsPrefix(collected[f], Download!Contents(f))
             /\ \A d \in stored : d[2] = Download!Contents(d[1])
  <2>1. Orderly(start)
    BY <1>2, <1>4
  <2>2. ASSUME NEW f \in DOMAIN collected PROVE Download!IsPrefix(collected[f], Download!Contents(f))
    <3>1. f \in Files
      BY <1>1 DEF Download!TypeOK
    <3>a. PICK s \in Seq((Files \cup {"zero"}) \X Nat) : s = collected[f]
      BY <1>1 DEF Sound
    <3>b. PICK q \in Nat, len \in Nat : q = Len(s) /\ len = LengthOf[f]
      BY <3>1, <3>a, DownloadConstants
    <3>c. q <= len
      BY <1>1, <3>a, <3>b DEF Download!TypeOK
    <3>2. /\ s \in Seq((Files \cup {"zero"}) \X Nat) /\ q \in Nat /\ len \in Nat
          /\ s = collected[f] /\ q = Len(s) /\ len = LengthOf[f] /\ q <= len
      BY <3>a, <3>b, <3>c
    <3>3. \A i \in 1 .. q : s[i] = Download!Piece(f, i)
      BY <2>1, <3>2 DEF Orderly, InPlace
    <3>4. PICK t : t = Download!Contents(f)
      OBVIOUS
    <3>5. t = [i \in 1 .. len |-> Download!Piece(f, i)]
      <4>1. len - 0 = len /\ \A i \in 1 .. len : 0 + i = i
        OBVIOUS
      <4>2. QED
        BY <3>2, <3>4, <4>1 DEF Download!Contents, Download!Pieces
    <3>6. t \in Seq((Files \cup {"zero"}) \X Nat) /\ Len(t) = len
      <4>1. \A i \in 1 .. len : Download!Piece(f, i) \in (Files \cup {"zero"}) \X Nat
        <5>1. len \in Nat
          BY <3>2
        <5>2. \A i \in 1 .. len : i \in Nat
          BY <5>1
        <5>3. QED
          BY <3>1, <5>2 DEF Download!Piece
      <4>2. t \in [1 .. len -> (Files \cup {"zero"}) \X Nat]
        BY <3>5, <4>1
      <4>3. QED
        BY <4>2
    <3>7. \A i \in 1 .. q : s[i] = t[i]
      <4>1. \A i \in 1 .. q : i \in 1 .. len
        <5>1. q \in Nat /\ len \in Nat /\ q <= len
          BY <3>2
        <5>2. QED
          BY <5>1
      <4>2. QED
        BY <3>3, <3>5, <4>1
    <3>8. SubSeq(s, 1, q) = SubSeq(t, 1, q)
      <4>1. SubSeq(s, 1, q) = [i \in 1 .. q |-> s[i]] /\ SubSeq(t, 1, q) = [i \in 1 .. q |-> t[i]]
        BY <3>2, <3>6
      <4>2. QED
        BY <3>7, <4>1
    <3>9. QED
      BY <3>2, <3>4, <3>6, <3>8 DEF Download!IsPrefix
  <2>3. QED
    BY <2>1, <2>2 DEF Orderly, InPlace
<1>5. QED
  BY <1>1, <1>3, <1>4 DEF Download!Inv, Download!ReaderInStep, Download!DownloadsWhole

\* For any files, lengths, size of the chunks and answers in between: as long as no read is
\* short and no file unreadable, the client finds a word where it expects one and data where
\* it expects data, although the downloader threads write to one connection, what it has
\* collected of a download is the beginning of the file, and what it stores is the file.
THEOREM DownloadsComeWhole ==
  ASSUME Download!DownloadAssumption
  PROVE  Download!Spec => [](Download!Inv /\ Download!DownloadsWhole)
<1>1. Download!Init => DownloadsInv
  BY DownloadsInit
<1>2. DownloadsInv /\ [Download!Next]_(Download!vars) => DownloadsInv'
  BY DownloadsNext
<1>3. DownloadsInv => Download!Inv /\ Download!DownloadsWhole
  BY DownloadsAreWhole
<1>4. QED
  BY <1>1, <1>2, <1>3, PTL DEF Download!Spec

-----------------------------------------------------------------------------
(* The pending uploads of a client *)

CONSTANTS NRequests, NameOf, Refusable
VARIABLES main, asked, waiting, commands, answers, accepted, refused, begun, uploads, aborted

Pending == INSTANCE PendingUploads WITH
  N <- NRequests, queue <- waiting, toServer <- commands, toClient <- answers

Answered == accepted \cup refused

\* What is on its way to the client.
Underway(w, k) == \E x \in 1 .. Len(answers) : answers[x] = Pending!Msg(w, k)

\* Requests reach the server in their order.
CommandsInOrder ==
  /\ accepted \cap refused = {} /\ begun \subseteq accepted
  /\ \A k \in Answered : k <= asked
  /\ \A x \in 1 .. Len(commands) : commands[x] \notin Answered /\ commands[x] <= asked
  /\ \A x, y \in 1 .. Len(commands) : x < y => commands[x] < commands[y]
  /\ \A k \in Answered, x \in 1 .. Len(commands) : k < commands[x]
  /\ main = "send" => /\ asked >= 1
                      /\ \A k \in Answered : k < asked
                      /\ \A x \in 1 .. Len(commands) : commands[x] < asked
  /\ \A k \in 1 .. asked :
       \/ k \in Answered \/ (main = "send" /\ k = asked)
       \/ \E x \in 1 .. Len(commands) : commands[x] = k

\* The answers come in that order too, and what may begin has been accepted before.
AnswersInOrder ==
  /\ \A x \in 1 .. Len(answers) :
       /\ answers[x].word = "fileid" => answers[x].request \in accepted
       /\ answers[x].word = "fileiderror" => answers[x].request \in refused
       /\ answers[x].word = "beginupload" => answers[x].request \in begun
  /\ \A x, y \in 1 .. Len(answers) : x < y =>
       /\ answers[y].word # "beginupload" => answers[x].request < answers[y].request
       /\ answers[x] # answers[y]

\* Who is told to begin is told of the id before.
ToldFirst == \A k \in begun : Underway("fileid", k) => Underway("beginupload", k)

\* The client has been told of a request's end.
Gone(k) ==
  \/ k \in refused /\ ~Underway("fileiderror", k)
  \/ k \in begun /\ ~Underway("beginupload", k)

IdOf(k) == IF k \in accepted /\ ~Underway("fileid", k) THEN k ELSE 0

\* The client remembers the requests of whose end it has not been told, in their order, with
\* the ids it has been told.
Remembered ==
  /\ \A x \in 1 .. Len(waiting) :
       /\ waiting[x].request <= asked /\ ~Gone(waiting[x].request)
       /\ waiting[x].id = IdOf(waiting[x].request)
  /\ \A x, y \in 1 .. Len(waiting) : x < y => waiting[x].request < waiting[y].request
  /\ \A k \in 1 .. asked : Gone(k) \/ \E x \in 1 .. Len(waiting) : waiting[x].request = k

UnderOwnId == aborted = {} /\ \A k \in Pending!Requests : uploads[k] \in {0, k}

PendingInv ==
  /\ Pending!TypeOK /\ CommandsInOrder /\ AnswersInOrder /\ ToldFirst
  /\ Pending!Unmixed => Remembered /\ UnderOwnId

-----------------------------------------------------------------------------
(* Operators on sequences *)

\* The first place where a condition holds, if it holds anywhere.
LEMMA FirstPlace ==
  ASSUME NEW T \in SUBSET Nat, T # {}
  PROVE  Pending!Min(T) \in T /\ \A y \in T : Pending!Min(T) <= y
BY LeastNumber DEF Pending!Min

\* The least is the least.
LEMMA MinIs ==
  ASSUME NEW T \in SUBSET Nat, NEW x \in T, \A y \in T : x <= y
  PROVE  Pending!Min(T) = x
<1>1. Pending!Min(T) \in T /\ \A y \in T : Pending!Min(T) <= y
  BY FirstPlace
<1> DEFINE m == Pending!Min(T)
<1> HIDE DEF m
<1>2. m \in Nat /\ x \in Nat /\ m <= x /\ x <= m
  BY <1>1 DEF m
<1>. QED
  BY <1>2 DEF m

\* A sequence without one of its elements.
LEMMA RemoveAtIs ==
  ASSUME NEW S, NEW s \in Seq(S), NEW x \in 1 .. Len(s)
  PROVE  /\ Pending!RemoveAt(s, x) \in Seq(S) /\ Len(Pending!RemoveAt(s, x)) = Len(s) - 1
         /\ \A y \in 1 .. Len(s) - 1 :
              Pending!RemoveAt(s, x)[y] = IF y < x THEN s[y] ELSE s[y + 1]
<1> DEFINE a == SubSeq(s, 1, x - 1)
           b == SubSeq(s, x + 1, Len(s))
<1>1. /\ a \in Seq(S) /\ Len(a) = x - 1 /\ \A y \in 1 .. x - 1 : a[y] = s[y]
  OBVIOUS
<1>2. /\ b \in Seq(S) /\ Len(b) = Len(s) - x /\ \A y \in 1 .. Len(s) - x : b[y] = s[x + y]
  OBVIOUS
<1> HIDE DEF a, b
<1>3. /\ a \o b \in Seq(S) /\ Len(a \o b) = Len(s) - 1
      /\ \A y \in 1 .. x - 1 : (a \o b)[y] = a[y]
      /\ \A y \in 1 .. Len(s) - x : (a \o b)[x - 1 + y] = b[y]
  BY <1>1, <1>2
<1>4. Pending!RemoveAt(s, x) = a \o b
  BY DEF Pending!RemoveAt, a, b
<1> DEFINE c == a \o b
<1> HIDE DEF c
<1>5. ASSUME NEW y \in 1 .. Len(s) - 1 PROVE c[y] = IF y < x THEN s[y] ELSE s[y + 1]
  <2>1. CASE y < x
    BY <1>1, <1>3, <2>1 DEF c
  <2>2. CASE y >= x
    <3> DEFINE z == y - x + 1
    <3>1. z \in 1 .. Len(s) - x /\ x - 1 + z = y /\ x + z = y + 1
      BY <2>2
    <3>2. c[x - 1 + z] = s[x + z]
      BY <1>2, <1>3, <3>1 DEF c
    <3>. QED
      BY <2>2, <3>1, <3>2
  <2>. QED
    BY <2>1, <2>2
<1>. QED
  BY <1>3, <1>4, <1>5 DEF c

-----------------------------------------------------------------------------
(* Lemmas *)

PendingWords == {"fileid", "fileiderror", "beginupload"}
PendingMsgs == [word : PendingWords, request : 1 .. NRequests]
PendingEntries == [request : 1 .. NRequests, id : 0 .. NRequests]

\* The types of the variables.
LEMMA PendingIs ==
  ASSUME Pending!PendingAssumption, PendingInv
  PROVE  /\ NRequests \in Nat /\ Pending!Requests = 1 .. NRequests /\ asked \in 0 .. NRequests
         /\ waiting \in Seq(PendingEntries)
         /\ commands \in Seq(1 .. NRequests)
         /\ answers \in Seq(PendingMsgs)
         /\ Answered \subseteq 1 .. NRequests /\ begun \subseteq 1 .. NRequests
         /\ aborted \subseteq 1 .. NRequests /\ uploads \in [1 .. NRequests -> 0 .. NRequests]
         /\ main \in {"idle", "send"}
BY DEF Pending!PendingAssumption, PendingInv, Pending!TypeOK, Pending!Requests, PendingWords, Answered,
       PendingMsgs, PendingEntries

\* An answer is put at the end.
LEMMA AnswerGoes ==
  ASSUME Pending!PendingAssumption, PendingInv, NEW w \in PendingWords, NEW k \in 1 .. NRequests,
         answers' = Append(answers, Pending!Msg(w, k))
  PROVE  /\ answers' \in Seq(PendingMsgs)
         /\ Len(answers') = Len(answers) + 1 /\ answers'[Len(answers) + 1] = Pending!Msg(w, k)
         /\ \A x \in 1 .. Len(answers) : answers'[x] = answers[x]
         /\ \A v \in PendingWords, j \in 1 .. NRequests :
              Underway(v, j)' <=> Underway(v, j) \/ (v = w /\ j = k)
<1>1. answers \in Seq(PendingMsgs)
  BY PendingIs
<1>2. Pending!Msg(w, k) \in PendingMsgs
  BY DEF Pending!Msg, PendingMsgs
<1>3. /\ answers' \in Seq(PendingMsgs)
      /\ Len(answers') = Len(answers) + 1 /\ answers'[Len(answers) + 1] = Pending!Msg(w, k)
      /\ \A x \in 1 .. Len(answers) : answers'[x] = answers[x]
  BY <1>1, <1>2
<1>4. ASSUME NEW v \in PendingWords, NEW j \in 1 .. NRequests
      PROVE  Underway(v, j)' <=> Underway(v, j) \/ (v = w /\ j = k)
  <2>1. Pending!Msg(v, j) = Pending!Msg(w, k) <=> v = w /\ j = k
    BY DEF Pending!Msg
  <2>2. Len(answers) \in Nat
    BY <1>1
  <2>3. Underway(v, j)' <=> \E x \in 1 .. Len(answers) + 1 : answers'[x] = Pending!Msg(v, j)
    BY <1>3 DEF Underway, Pending!Msg
  <2>4. \A x \in 1 .. Len(answers) + 1 : x = Len(answers) + 1 \/ x \in 1 .. Len(answers)
    BY <2>2
  <2>5. \A x \in 1 .. Len(answers) : x \in 1 .. Len(answers) + 1
    BY <2>2
  <2>6. Len(answers) + 1 \in 1 .. Len(answers) + 1
    BY <2>2
  <2>. QED
    BY <1>3, <2>1, <2>3, <2>4, <2>5, <2>6, Zenon DEF Underway
<1>. QED
  BY <1>3, <1>4

\* The answers without the first one.
LEMMA AnswerComes ==
  ASSUME Pending!PendingAssumption, PendingInv, answers # <<>>, answers' = Tail(answers),
         NEW w, NEW k, Head(answers).word = w, Head(answers).request = k
  PROVE  /\ w \in PendingWords /\ k \in 1 .. NRequests /\ Underway(w, k)
         /\ answers' \in Seq(PendingMsgs)
         /\ Len(answers') = Len(answers) - 1 /\ Len(answers) >= 1
         /\ \A x \in 1 .. Len(answers) - 1 : answers'[x] = answers[x + 1]
         /\ \A v \in PendingWords, j \in 1 .. NRequests :
              Underway(v, j)' <=> Underway(v, j) /\ ~(v = w /\ j = k)
         /\ \A j \in 1 .. NRequests : Underway("fileid", j) /\ w # "beginupload" => k <= j
         /\ \A j \in 1 .. NRequests : Underway("fileid", j) => k <= j /\ (w = "beginupload" => k < j)
<1>1. answers \in Seq(PendingMsgs)
  BY PendingIs
<1>2. /\ Len(answers) \in Nat /\ Len(answers) >= 1 /\ Head(answers) = answers[1]
      /\ answers' \in Seq(PendingMsgs)
      /\ Len(answers') = Len(answers) - 1
      /\ \A x \in 1 .. Len(answers) - 1 : answers'[x] = answers[x + 1]
  BY <1>1
<1>3. answers[1] \in PendingMsgs
  BY <1>1, <1>2
<1>4. answers[1] = Pending!Msg(w, k) /\ w \in PendingWords /\ k \in 1 .. NRequests
  BY <1>2, <1>3 DEF Pending!Msg, PendingMsgs
<1>5. Underway(w, k)
  BY <1>2, <1>4 DEF Underway
<1>6. ASSUME NEW v \in PendingWords, NEW j \in 1 .. NRequests
      PROVE  Underway(v, j)' <=> Underway(v, j) /\ ~(v = w /\ j = k)
  <2>1. Pending!Msg(v, j) = Pending!Msg(w, k) <=> v = w /\ j = k
    BY DEF Pending!Msg
  <2>2. Underway(v, j)' <=> \E x \in 1 .. Len(answers) - 1 : answers[x + 1] = Pending!Msg(v, j)
    BY <1>2 DEF Underway, Pending!Msg
  <2>3. ASSUME NEW x \in 1 .. Len(answers), x # 1
        PROVE  x - 1 \in 1 .. Len(answers) - 1 /\ (x - 1) + 1 = x
    BY <1>2, <2>3
  <2>4. ASSUME NEW x \in 1 .. Len(answers) - 1
        PROVE  x + 1 \in 1 .. Len(answers) /\ answers[x + 1] # answers[1]
    <3>1. x + 1 \in 1 .. Len(answers) /\ 1 \in 1 .. Len(answers) /\ 1 < x + 1
      BY <1>2
    <3>. QED
      BY <3>1 DEF PendingInv, AnswersInOrder
  <2>5. Underway(v, j) /\ ~(v = w /\ j = k) => Underway(v, j)'
    <3> SUFFICES ASSUME Underway(v, j), ~(v = w /\ j = k) PROVE Underway(v, j)'
      OBVIOUS
    <3>1. PICK x \in 1 .. Len(answers) : answers[x] = Pending!Msg(v, j)
      BY DEF Underway
    <3>2. x # 1
      BY <1>4, <2>1, <3>1
    <3>. QED
      BY <2>2, <2>3, <3>1, <3>2
  <2>6. Underway(v, j)' => Underway(v, j) /\ ~(v = w /\ j = k)
    BY <1>4, <2>1, <2>2, <2>4 DEF Underway
  <2>. QED
    BY <2>5, <2>6
<1>7. ASSUME NEW j \in 1 .. NRequests, Underway("fileid", j)
      PROVE  k <= j /\ (w = "beginupload" => k < j)
  <2>1. PICK x \in 1 .. Len(answers) : answers[x] = Pending!Msg("fileid", j)
    BY <1>7 DEF Underway
  <2>2. answers[x].word = "fileid" /\ answers[x].request = j
    BY <2>1 DEF Pending!Msg
  <2>3. answers[1].word = w /\ answers[1].request = k /\ 1 \in 1 .. Len(answers)
    BY <1>2
  <2>4. CASE x = 1
    BY <1>4, <2>2, <2>3, <2>4
  <2>5. CASE x # 1
    <3>1. 1 < x
      BY <2>5
    <3>2. answers[1].request < answers[x].request
      BY <2>2, <2>3, <3>1 DEF PendingInv, AnswersInOrder
    <3>. QED
      BY <1>4, <2>2, <2>3, <3>2
  <2>. QED
    BY <2>4, <2>5
<1>. QED
  BY <1>2, <1>4, <1>5, <1>6, <1>7

\* The order stays when an answer is taken.
LEMMA OrderStays ==
  ASSUME Pending!PendingAssumption, PendingInv, answers # <<>>, answers' = Tail(answers),
         UNCHANGED <<main, asked, commands, accepted, refused, begun>>
  PROVE  CommandsInOrder' /\ AnswersInOrder' /\ (Pending!Unmixed' <=> Pending!Unmixed)
<1>1. CommandsInOrder'
  BY DEF PendingInv, CommandsInOrder, Answered
<1>2. /\ Len(answers') = Len(answers) - 1 /\ Len(answers) \in Nat /\ Len(answers) >= 1
      /\ \A x \in 1 .. Len(answers) - 1 : answers'[x] = answers[x + 1]
  BY PendingIs, AnswerComes
<1>3. \A x \in 1 .. Len(answers) - 1 : x + 1 \in 1 .. Len(answers)
  BY <1>2
<1>4. \A x, y \in 1 .. Len(answers) - 1 : x < y => x + 1 < y + 1
  OBVIOUS
<1>5. AnswersInOrder
  BY DEF PendingInv
<1>6. AnswersInOrder'
  BY <1>2, <1>3, <1>4, <1>5 DEF AnswersInOrder
<1>7. Pending!Unmixed' <=> Pending!Unmixed
  BY DEF Pending!Unmixed
<1>. QED
  BY <1>1, <1>6, <1>7

\* Taking an answer about k changes nothing for the other requests.
LEMMA OthersAreAsBefore ==
  ASSUME Pending!PendingAssumption, PendingInv, answers # <<>>, answers' = Tail(answers),
         UNCHANGED <<accepted, refused, begun>>, NEW j \in 1 .. NRequests
  PROVE  /\ j # Head(answers).request => (Gone(j)' <=> Gone(j)) /\ IdOf(j)' = IdOf(j)
         /\ Head(answers).word = "fileid" => (Gone(j)' <=> Gone(j))
         /\ Head(answers).word # "fileid" => IdOf(j)' = IdOf(j)
<1>1. \A v \in PendingWords : Underway(v, j)'
        <=> Underway(v, j) /\ ~(v = Head(answers).word /\ j = Head(answers).request)
  BY AnswerComes
<1>2. "fileid" \in PendingWords /\ "fileiderror" \in PendingWords /\ "beginupload" \in PendingWords
  BY DEF PendingWords
<1>. QED
  BY <1>1, <1>2 DEF Gone, IdOf

\* What has to be shown of what is remembered after a step.
LEMMA RememberedIs ==
  ASSUME \A x \in 1 .. Len(waiting') : \A j : waiting'[x].request = j =>
           j <= asked' /\ ~Gone(j)' /\ waiting'[x].id = IdOf(j)',
         \A x, y \in 1 .. Len(waiting') : x < y => waiting'[x].request < waiting'[y].request,
         \A j \in 1 .. asked' : Gone(j)' \/ \E x \in 1 .. Len(waiting') : waiting'[x].request = j
  PROVE  Remembered'
<1>1. \A x \in 1 .. Len(waiting') : waiting[x]'.request <= asked'
  OBVIOUS
<1>2. \A x \in 1 .. Len(waiting') : ~Gone(waiting[x].request)'
  BY DEF Gone, Underway
<1>3. \A x \in 1 .. Len(waiting') : waiting[x]'.id = IdOf(waiting[x].request)'
  BY DEF IdOf, Underway
<1>. QED
  BY <1>1, <1>2, <1>3 DEF Remembered

\* An entry goes: the others stay as they are, in their order.
LEMMA EntryGoes ==
  ASSUME Pending!PendingAssumption, PendingInv, Pending!Unmixed, NEW x \in 1 .. Len(waiting),
         waiting' = Pending!RemoveAt(waiting, x), asked' = asked,
         NEW k \in 1 .. NRequests, waiting[x].request = k, Gone(k)',
         \A j \in 1 .. NRequests : j # k => (Gone(j)' <=> Gone(j)) /\ IdOf(j)' = IdOf(j)
  PROVE  Remembered'
<1>1. /\ Remembered /\ Len(waiting) \in Nat /\ asked <= NRequests /\ asked \in Nat /\ NRequests \in Nat
      /\ \A y \in 1 .. Len(waiting) : waiting[y].request \in 1 .. NRequests
  <2>1. Remembered
    BY DEF PendingInv
  <2>2. Len(waiting) \in Nat /\ asked <= NRequests /\ asked \in Nat /\ NRequests \in Nat
    BY PendingIs
  <2>3. \A y \in 1 .. Len(waiting) : waiting[y] \in PendingEntries
    BY PendingIs
  <2>. QED
    BY <2>1, <2>2, <2>3 DEF PendingEntries
<1>2. /\ Len(waiting') = Len(waiting) - 1
      /\ \A y \in 1 .. Len(waiting) - 1 :
           waiting'[y] = IF y < x THEN waiting[y] ELSE waiting[y + 1]
  BY PendingIs, RemoveAtIs
<1> DEFINE Old(y) == IF y < x THEN y ELSE y + 1
<1>3. ASSUME NEW y \in 1 .. Len(waiting) - 1
      PROVE  Old(y) \in 1 .. Len(waiting) /\ Old(y) # x /\ waiting'[y] = waiting[Old(y)]
  BY <1>1, <1>2
<1>4. ASSUME NEW y \in 1 .. Len(waiting) - 1, NEW z \in 1 .. Len(waiting) - 1, y < z
      PROVE  Old(y) < Old(z)
  BY <1>4
<1>5. ASSUME NEW y \in 1 .. Len(waiting), y # x
      PROVE  \E z \in 1 .. Len(waiting) - 1 : Old(z) = y
  <2>1. CASE y < x
    <3>1. y \in 1 .. Len(waiting) - 1 /\ Old(y) = y
      BY <1>1, <2>1
    <3>. QED
      BY <3>1
  <2>2. CASE y > x
    <3>1. y - 1 \in 1 .. Len(waiting) - 1 /\ Old(y - 1) = y
      BY <1>1, <2>2
    <3>. QED
      BY <3>1
  <2>. QED
    BY <1>5, <2>1, <2>2
<1>6. ASSUME NEW y \in 1 .. Len(waiting), y # x PROVE waiting[y].request # k
  <2>1. y < x \/ x < y
    BY <1>6
  <2>2. waiting[y].request < waiting[x].request \/ waiting[x].request < waiting[y].request
    BY <1>1, <2>1 DEF Remembered
  <2>. QED
    BY <1>1, <2>2
<1> HIDE DEF Old
<1>7. ASSUME NEW y \in 1 .. Len(waiting'), NEW j, waiting'[y].request = j
      PROVE  j <= asked /\ ~Gone(j)' /\ waiting'[y].id = IdOf(j)'
  <2>1. y \in 1 .. Len(waiting) - 1
    BY <1>2
  <2>2. waiting'[y] = waiting[Old(y)] /\ Old(y) \in 1 .. Len(waiting) /\ Old(y) # x
    BY <1>3, <2>1
  <2>3. j # k /\ j \in 1 .. NRequests /\ waiting[Old(y)].request = j
    BY <1>1, <1>6, <1>7, <2>2
  <2>4. j <= asked /\ ~Gone(j) /\ waiting[Old(y)].id = IdOf(j)
    BY <1>1, <2>2, <2>3 DEF Remembered
  <2>5. ~Gone(j)' /\ IdOf(j)' = IdOf(j)
    BY <2>3, <2>4
  <2>. QED
    BY <2>2, <2>4, <2>5
<1>8. ASSUME NEW y \in 1 .. Len(waiting'), NEW z \in 1 .. Len(waiting'), y < z
      PROVE  waiting'[y].request < waiting'[z].request
  <2>1. y \in 1 .. Len(waiting) - 1 /\ z \in 1 .. Len(waiting) - 1
    BY <1>2
  <2>. QED
    BY <1>1, <1>3, <1>4, <1>8, <2>1 DEF Remembered
<1>9. ASSUME NEW j \in 1 .. asked, ~Gone(j)'
      PROVE  \E y \in 1 .. Len(waiting') : waiting'[y].request = j
  <2>1. j # k /\ j \in 1 .. NRequests
    <3>1. j \in 1 .. NRequests
      BY <1>1
    <3>2. j # k
      BY <1>9
    <3>. QED
      BY <3>1, <3>2
  <2>2. ~Gone(j)
    BY <1>9, <2>1
  <2>3. PICK y \in 1 .. Len(waiting) : waiting[y].request = j
    BY <1>1, <2>2 DEF Remembered
  <2>4. PICK z \in 1 .. Len(waiting) - 1 : Old(z) = y
    BY <1>5, <2>1, <2>3
  <2>. QED
    BY <1>2, <1>3, <2>3, <2>4
<1>. QED
  BY <1>7, <1>8, <1>9, RememberedIs

\* What the types say, from what is said here.
LEMMA PendingTypes ==
  ASSUME Pending!PendingAssumption,
         main' \in {"idle", "send"}, asked' \in 0 .. NRequests, waiting' \in Seq(PendingEntries),
         commands' \in Seq(1 .. NRequests), answers' \in Seq(PendingMsgs),
         Answered' \subseteq 1 .. NRequests, begun' \subseteq 1 .. NRequests,
         aborted' \subseteq 1 .. NRequests, uploads' \in [1 .. NRequests -> 0 .. NRequests]
  PROVE  Pending!TypeOK'
BY DEF Pending!TypeOK, Pending!Requests, PendingWords, Answered, PendingMsgs, PendingEntries

\* A request is remembered, the last of all.
LEMMA RequestIsMade ==
  ASSUME Pending!PendingAssumption, PendingInv, Pending!Add
  PROVE  PendingInv'
<1> DEFINE k == asked + 1
           e == Pending!Entry(k, 0)
<1>1. /\ main = "idle" /\ main' = "send" /\ asked' = k /\ k \in 1 .. NRequests /\ asked \in Nat
      /\ waiting' = Append(waiting, e)
      /\ commands' = commands /\ answers' = answers /\ accepted' = accepted /\ refused' = refused
      /\ begun' = begun /\ uploads' = uploads /\ aborted' = aborted
  BY PendingIs DEF Pending!Add, Pending!serverVars
<1>2. e \in PendingEntries /\ e.request = k /\ e.id = 0
  BY <1>1, PendingIs DEF Pending!Entry, PendingEntries
<1>3. /\ waiting' \in Seq(PendingEntries) /\ Len(waiting') = Len(waiting) + 1 /\ Len(waiting) \in Nat
      /\ waiting'[Len(waiting) + 1] = e
      /\ \A x \in 1 .. Len(waiting) : waiting'[x] = waiting[x]
      /\ \A x \in 1 .. Len(waiting) : waiting[x] \in PendingEntries
  <2>1. waiting \in Seq(PendingEntries)
    BY PendingIs
  <2> HIDE DEF e
  <2>. QED
    BY <1>1, <1>2, <2>1
<1> HIDE DEF e
<1>4. Pending!TypeOK'
  <2>1. Answered' = Answered
    BY <1>1 DEF Answered
  <2>2. asked' \in 0 .. NRequests
    BY <1>1
  <2>. QED
    BY <1>1, <1>3, <2>1, <2>2, PendingIs, PendingTypes
<1>5. CommandsInOrder' /\ AnswersInOrder'
  <2>1. CommandsInOrder /\ AnswersInOrder
    BY DEF PendingInv
  <2>2. AnswersInOrder'
    BY <1>1, <2>1 DEF AnswersInOrder
  <2>3. Answered' = Answered /\ Answered \subseteq 1 .. NRequests
    BY <1>1, PendingIs DEF Answered
  <2>4. \A x \in 1 .. Len(commands) : commands[x] \in 1 .. NRequests
    BY PendingIs
  <2>5. \A j \in Answered : j < k /\ j <= k
    BY <1>1, <2>1, <2>3 DEF CommandsInOrder
  <2>6. \A x \in 1 .. Len(commands) : commands[x] < k /\ commands[x] <= k
    BY <1>1, <2>1, <2>4 DEF CommandsInOrder
  <2>7. \A j \in 1 .. k : j \in 1 .. asked \/ j = k
    BY <1>1
  <2>. QED
    BY <1>1, <2>1, <2>2, <2>3, <2>5, <2>6, <2>7 DEF CommandsInOrder
<1>6. ASSUME Pending!Unmixed' PROVE Remembered' /\ UnderOwnId'
  <2>1. Pending!Unmixed
    <3> SUFFICES ASSUME NEW i \in refused, NEW j \in 1 .. asked, NameOf[j] = NameOf[i]
                 PROVE  j = i
      BY DEF Pending!Unmixed
    <3>1. j \in 1 .. asked'
      BY <1>1
    <3>. QED
      BY <1>1, <1>6, <3>1 DEF Pending!Unmixed
  <2>2. Remembered /\ UnderOwnId
    BY <2>1 DEF PendingInv
  <2>3. k \notin Answered /\ k \notin begun /\ k \notin accepted /\ k \notin refused
    <3>1. \A j \in Answered : j <= asked /\ j \in Nat
      BY PendingIs DEF PendingInv, CommandsInOrder
    <3>2. k \notin Answered
      BY <1>1, <3>1
    <3>. QED
      BY <3>2 DEF PendingInv, CommandsInOrder, Answered
  <2>4. ASSUME NEW j PROVE (Gone(j)' <=> Gone(j)) /\ IdOf(j)' = IdOf(j)
    BY <1>1 DEF Gone, IdOf, Underway, Pending!Msg
  <2>5. ~Gone(k) /\ IdOf(k) = 0
    BY <2>3 DEF Gone, IdOf
  <2>6. ASSUME NEW x \in 1 .. Len(waiting'), NEW j, waiting'[x].request = j
        PROVE  j <= asked' /\ ~Gone(j) /\ waiting'[x].id = IdOf(j)
    <3>1. CASE x \in 1 .. Len(waiting)
      <4>1. waiting[x].request = j /\ waiting'[x].id = waiting[x].id /\ j \in 1 .. NRequests
        BY <1>3, <2>6, <3>1 DEF PendingEntries
      <4>2. j <= asked /\ ~Gone(j) /\ waiting[x].id = IdOf(j)
        BY <2>2, <3>1, <4>1 DEF Remembered
      <4>. QED
        BY <1>1, <4>1, <4>2
    <3>2. CASE x \notin 1 .. Len(waiting)
      <4>1. x = Len(waiting) + 1
        BY <1>3, <3>2
      <4>. QED
        BY <1>1, <1>2, <1>3, <2>5, <2>6, <4>1
    <3>. QED
      BY <3>1, <3>2
  <2>7. ASSUME NEW x \in 1 .. Len(waiting'), NEW y \in 1 .. Len(waiting'), x < y
        PROVE  waiting'[x].request < waiting'[y].request
    <3>1. x \in 1 .. Len(waiting)
      BY <1>3, <2>7
    <3>2. CASE y \in 1 .. Len(waiting)
      BY <1>3, <2>2, <2>7, <3>1, <3>2 DEF Remembered
    <3>3. CASE y \notin 1 .. Len(waiting)
      <4>1. y = Len(waiting) + 1
        BY <1>3, <3>3
      <4>2. waiting[x].request <= asked /\ waiting[x].request \in 1 .. NRequests
        BY <1>3, <2>2, <3>1 DEF Remembered, PendingEntries
      <4>. QED
        BY <1>1, <1>2, <1>3, <3>1, <4>1, <4>2
    <3>. QED
      BY <3>2, <3>3
  <2>8. ASSUME NEW j \in 1 .. asked' PROVE Gone(j) \/ \E x \in 1 .. Len(waiting') : waiting'[x].request = j
    <3>1. CASE j \in 1 .. asked
      <4>1. \A x \in 1 .. Len(waiting) : x \in 1 .. Len(waiting')
        BY <1>3
      <4>. QED
        BY <1>3, <2>2, <3>1, <4>1 DEF Remembered
    <3>2. CASE j = k
      <4>1. Len(waiting) + 1 \in 1 .. Len(waiting')
        BY <1>3
      <4>. QED
        BY <1>2, <1>3, <3>2, <4>1
    <3>. QED
      BY <1>1, <3>1, <3>2
  <2>9. Remembered'
    BY <2>4, <2>6, <2>7, <2>8, RememberedIs
  <2>. QED
    BY <1>1, <2>2, <2>9 DEF UnderOwnId
<1>7. Pending!Unmixed' => Remembered' /\ UnderOwnId'
  BY <1>6
<1>8. ToldFirst'
  BY <1>1 DEF PendingInv, ToldFirst, Underway, Pending!Msg
<1>. QED
  BY <1>4, <1>5, <1>7, <1>8 DEF PendingInv

\* The command with the request is sent.
LEMMA RequestIsSent ==
  ASSUME Pending!PendingAssumption, PendingInv, Pending!Send
  PROVE  PendingInv'
<1>1. /\ main = "send" /\ main' = "idle" /\ asked' = asked /\ waiting' = waiting
      /\ commands' = Append(commands, asked)
      /\ answers' = answers /\ accepted' = accepted /\ refused' = refused
      /\ begun' = begun /\ uploads' = uploads /\ aborted' = aborted
  BY DEF Pending!Send, Pending!serverVars
<1>2. CommandsInOrder /\ AnswersInOrder /\ Answered' = Answered
  BY <1>1 DEF PendingInv, Answered
<1>3. asked \in 1 .. NRequests /\ NRequests \in Nat
  BY <1>1, <1>2, PendingIs DEF CommandsInOrder
<1>4. /\ commands' \in Seq(1 .. NRequests) /\ Len(commands') = Len(commands) + 1
      /\ Len(commands) \in Nat /\ commands'[Len(commands) + 1] = asked
      /\ \A x \in 1 .. Len(commands) : commands'[x] = commands[x] /\ commands[x] \in 1 .. NRequests
  <2>1. commands \in Seq(1 .. NRequests)
    BY PendingIs
  <2>. QED
    BY <1>1, <1>3, <2>1
<1>5. Pending!TypeOK'
  BY <1>1, <1>2, <1>4, PendingIs, PendingTypes
<1>6. \A x \in 1 .. Len(commands') : x \in 1 .. Len(commands) \/ x = Len(commands) + 1
  BY <1>4
<1>7. \A x \in 1 .. Len(commands) : x \in 1 .. Len(commands')
  BY <1>4
<1>8. Len(commands) + 1 \in 1 .. Len(commands')
  BY <1>4
<1>9. \A k \in Answered : k < asked /\ k \in 1 .. NRequests
  BY <1>1, <1>2, PendingIs DEF CommandsInOrder
<1>10. \A x \in 1 .. Len(commands) : commands[x] < asked
  BY <1>1, <1>2 DEF CommandsInOrder
<1>11. CommandsInOrder'
  <2>1. \A x \in 1 .. Len(commands') : commands'[x] \notin Answered /\ commands'[x] <= asked
    <3>1. \A x \in 1 .. Len(commands) : commands[x] \notin Answered /\ commands[x] <= asked
      BY <1>2 DEF CommandsInOrder
    <3>2. asked \notin Answered /\ asked <= asked
      BY <1>3, <1>9
    <3>. QED
      BY <1>4, <1>6, <3>1, <3>2
  <2>2. ASSUME NEW x \in 1 .. Len(commands'), NEW y \in 1 .. Len(commands'), x < y
        PROVE  commands'[x] < commands'[y]
    <3>1. x \in 1 .. Len(commands)
      BY <1>4, <2>2
    <3>2. y \in 1 .. Len(commands) \/ y = Len(commands) + 1
      BY <1>6
    <3>. QED
      BY <1>2, <1>4, <1>10, <2>2, <3>1, <3>2 DEF CommandsInOrder
  <2>3. \A k \in Answered, x \in 1 .. Len(commands') : k < commands'[x]
    BY <1>2, <1>4, <1>6, <1>9 DEF CommandsInOrder
  <2>4. ASSUME NEW k \in 1 .. asked
        PROVE  k \in Answered \/ \E x \in 1 .. Len(commands') : commands'[x] = k
    <3>1. CASE k = asked
      BY <1>4, <1>8, <3>1
    <3>2. CASE k # asked
      BY <1>2, <1>4, <1>7, <3>2 DEF CommandsInOrder
    <3>. QED
      BY <3>1, <3>2
  <2>. QED
    BY <1>1, <1>2, <2>1, <2>2, <2>3, <2>4 DEF CommandsInOrder
<1>12. AnswersInOrder'
  BY <1>1, <1>2 DEF AnswersInOrder
<1>13. Pending!Unmixed' => Remembered' /\ UnderOwnId'
  <2>1. Pending!Unmixed' <=> Pending!Unmixed
    BY <1>1 DEF Pending!Unmixed
  <2>2. Remembered' <=> Remembered
    BY <1>1 DEF Remembered, Gone, IdOf, Underway, Pending!Msg
  <2>3. UnderOwnId' <=> UnderOwnId
    BY <1>1 DEF UnderOwnId
  <2>. QED
    BY <2>1, <2>2, <2>3 DEF PendingInv
<1>14. ToldFirst'
  BY <1>1 DEF PendingInv, ToldFirst, Underway, Pending!Msg
<1>. QED
  BY <1>5, <1>11, <1>12, <1>13, <1>14 DEF PendingInv

\* Nothing has changed for any request.
LEMMA StillRemembered ==
  ASSUME Pending!PendingAssumption, PendingInv, Remembered, asked' = asked, waiting' = waiting,
         \A j \in 1 .. NRequests : (Gone(j)' <=> Gone(j)) /\ IdOf(j)' = IdOf(j)
  PROVE  Remembered'
<1>1. asked \in Nat /\ asked <= NRequests /\ NRequests \in Nat
  BY PendingIs
<1>2. \A x \in 1 .. Len(waiting) : waiting[x] \in PendingEntries
  BY PendingIs
<1>3. ASSUME NEW x \in 1 .. Len(waiting'), NEW j, waiting'[x].request = j
      PROVE  j <= asked' /\ ~Gone(j)' /\ waiting'[x].id = IdOf(j)'
  <2>1. waiting[x].request = j /\ x \in 1 .. Len(waiting)
    BY <1>3
  <2>2. j \in 1 .. NRequests
    BY <1>2, <2>1 DEF PendingEntries
  <2>3. j <= asked /\ ~Gone(j) /\ waiting[x].id = IdOf(j)
    BY <2>1 DEF Remembered
  <2>. QED
    BY <2>2, <2>3
<1>4. ASSUME NEW j \in 1 .. asked'
      PROVE  Gone(j)' \/ \E x \in 1 .. Len(waiting') : waiting'[x].request = j
  <2>1. j \in 1 .. NRequests
    BY <1>1
  <2>. QED
    BY <2>1 DEF Remembered
<1>5. \A x, y \in 1 .. Len(waiting') : x < y => waiting'[x].request < waiting'[y].request
  BY DEF Remembered
<1>. QED
  BY <1>3, <1>4, <1>5, RememberedIs

\* The server answers the next request.
LEMMA RequestIsAnswered ==
  ASSUME Pending!PendingAssumption, PendingInv, NEW w, NEW k, commands # <<>>, k = Head(commands),
         commands' = Tail(commands), answers' = Append(answers, Pending!Msg(w, k)),
         \/ w = "fileid" /\ accepted' = accepted \cup {k} /\ refused' = refused
         \/ w = "fileiderror" /\ refused' = refused \cup {k} /\ accepted' = accepted,
         UNCHANGED <<main, asked, waiting, begun, uploads, aborted>>
  PROVE  PendingInv'
<1>1. commands \in Seq(1 .. NRequests) /\ CommandsInOrder /\ AnswersInOrder /\ ToldFirst
  BY PendingIs DEF PendingInv
<1>2. /\ k = commands[1] /\ k \in 1 .. NRequests /\ Len(commands) \in Nat /\ Len(commands) >= 1
      /\ commands' \in Seq(1 .. NRequests) /\ Len(commands') = Len(commands) - 1
      /\ \A x \in 1 .. Len(commands) - 1 : commands'[x] = commands[x + 1]
  <2> DEFINE S == 1 .. NRequests
  <2> HIDE DEF S
  <2>1. commands \in Seq(S)
    BY <1>1 DEF S
  <2>2. /\ k = commands[1] /\ k \in S /\ Len(commands) \in Nat /\ Len(commands) >= 1
        /\ commands' \in Seq(S) /\ Len(commands') = Len(commands) - 1
        /\ \A x \in 1 .. Len(commands) - 1 : commands'[x] = commands[x + 1]
    BY <2>1
  <2>. QED
    BY <2>2 DEF S
<1>3. /\ k \notin Answered /\ k <= asked /\ \A j \in Answered : j < k /\ j \in 1 .. NRequests
      /\ NRequests \in Nat
  BY <1>1, <1>2, PendingIs DEF CommandsInOrder
<1>4. /\ Answered' = Answered \cup {k} /\ k \notin accepted /\ k \notin refused /\ k \notin begun
      /\ w \in PendingWords
  BY <1>1, <1>3 DEF Answered, CommandsInOrder, PendingWords
<1>5. /\ answers' \in Seq(PendingMsgs) /\ Len(answers') = Len(answers) + 1
      /\ answers'[Len(answers) + 1] = Pending!Msg(w, k)
      /\ \A x \in 1 .. Len(answers) : answers'[x] = answers[x]
      /\ \A v \in PendingWords, j \in 1 .. NRequests :
           Underway(v, j)' <=> Underway(v, j) \/ (v = w /\ j = k)
  BY <1>2, <1>4, AnswerGoes
<1>6. Len(answers) \in Nat /\ \A x \in 1 .. Len(answers) : answers[x] \in PendingMsgs
  BY PendingIs
<1>7. Pending!TypeOK'
  <2>1. Answered' \subseteq 1 .. NRequests
    BY <1>2, <1>3, <1>4
  <2>. QED
    BY <1>2, <1>5, <2>1, PendingIs, PendingTypes
<1>8. CommandsInOrder'
  <2>1. ASSUME NEW x \in 1 .. Len(commands')
        PROVE  /\ x + 1 \in 1 .. Len(commands) /\ commands'[x] = commands[x + 1] /\ k < commands'[x]
               /\ commands'[x] \notin Answered' /\ commands'[x] <= asked
    <3>1. x \in 1 .. Len(commands) - 1 /\ x + 1 \in 1 .. Len(commands) /\ 1 \in 1 .. Len(commands) /\ 1 < x + 1
      BY <1>2
    <3>2. commands'[x] = commands[x + 1]
      BY <1>2, <3>1
    <3>3. commands[1] < commands[x + 1] /\ commands[x + 1] \notin Answered /\ commands[x + 1] <= asked
      BY <1>1, <3>1 DEF CommandsInOrder
    <3>. QED
      BY <1>2, <1>4, <3>1, <3>2, <3>3
  <2>2. ASSUME NEW x \in 1 .. Len(commands'), NEW y \in 1 .. Len(commands'), x < y
        PROVE  commands'[x] < commands'[y]
    <3>1. x + 1 < y + 1
      BY <2>2
    <3>. QED
      BY <1>1, <2>1, <3>1 DEF CommandsInOrder
  <2>3. \A j \in Answered', x \in 1 .. Len(commands') : j < commands'[x]
    BY <1>1, <1>4, <2>1 DEF CommandsInOrder
  <2>4. ASSUME main = "send"
        PROVE  /\ asked >= 1 /\ \A j \in Answered' : j < asked
               /\ \A x \in 1 .. Len(commands') : commands'[x] < asked
    <3>1. 1 \in 1 .. Len(commands)
      BY <1>2
    <3>2. k < asked
      BY <1>1, <1>2, <2>4, <3>1 DEF CommandsInOrder
    <3>. QED
      BY <1>1, <1>4, <2>1, <2>4, <3>2 DEF CommandsInOrder
  <2>5. ASSUME NEW j \in 1 .. asked, j \notin Answered', ~(main = "send" /\ j = asked)
        PROVE  \E x \in 1 .. Len(commands') : commands'[x] = j
    <3>1. PICK x \in 1 .. Len(commands) : commands[x] = j
      BY <1>1, <1>4, <2>5 DEF CommandsInOrder
    <3>2. x # 1
      BY <1>2, <1>4, <2>5, <3>1
    <3>3. x - 1 \in 1 .. Len(commands') /\ (x - 1) + 1 = x
      BY <1>2, <3>2
    <3>. QED
      BY <2>1, <3>1, <3>3
  <2>6. accepted' \cap refused' = {} /\ begun' \subseteq accepted'
    BY <1>1, <1>4 DEF CommandsInOrder
  <2>7. \A j \in Answered' : j <= asked
    BY <1>1, <1>3, <1>4 DEF CommandsInOrder
  <2>. QED
    BY <2>1, <2>2, <2>3, <2>4, <2>5, <2>6, <2>7 DEF CommandsInOrder
<1>9. AnswersInOrder'
  <2>1. \A x \in 1 .. Len(answers') : x \in 1 .. Len(answers) \/ x = Len(answers) + 1
    BY <1>5, <1>6
  <2>2. Pending!Msg(w, k).word = w /\ Pending!Msg(w, k).request = k
    BY DEF Pending!Msg
  <2>3. ASSUME NEW x \in 1 .. Len(answers) PROVE answers[x].request < k
    <3>1. answers[x].word \in PendingWords
      BY <1>6 DEF PendingMsgs
    <3>2. answers[x].request \in Answered
      BY <1>1, <3>1 DEF AnswersInOrder, CommandsInOrder, PendingWords, Answered
    <3>. QED
      BY <1>3, <3>2
  <2>4. ASSUME NEW x \in 1 .. Len(answers')
        PROVE  /\ answers'[x].word = "fileid" => answers'[x].request \in accepted'
               /\ answers'[x].word = "fileiderror" => answers'[x].request \in refused'
               /\ answers'[x].word = "beginupload" => answers'[x].request \in begun'
    <3>1. CASE x \in 1 .. Len(answers)
      BY <1>1, <1>5, <3>1 DEF AnswersInOrder
    <3>2. CASE x = Len(answers) + 1
      BY <1>5, <2>2, <3>2
    <3>. QED
      BY <2>1, <3>1, <3>2
  <2>5. ASSUME NEW x \in 1 .. Len(answers'), NEW y \in 1 .. Len(answers'), x < y
        PROVE  /\ answers'[y].word # "beginupload" => answers'[x].request < answers'[y].request
               /\ answers'[x] # answers'[y]
    <3>1. x \in 1 .. Len(answers)
      BY <1>5, <1>6, <2>5
    <3>2. CASE y \in 1 .. Len(answers)
      BY <1>1, <1>5, <2>5, <3>1, <3>2 DEF AnswersInOrder
    <3>3. CASE y = Len(answers) + 1
      <4>1. answers'[x].request < k /\ answers'[y].request = k /\ k \in Nat
        BY <1>2, <1>5, <2>2, <2>3, <3>1, <3>3
      <4>2. answers'[x].request # answers'[y].request
        <5>1. answers'[x].request \in Nat
          BY <1>5, <1>6, <3>1 DEF PendingMsgs
        <5>. QED
          BY <4>1, <5>1
      <4>. QED
        BY <4>1, <4>2
    <3>. QED
      BY <2>1, <3>2, <3>3
  <2>. QED
    BY <2>4, <2>5 DEF AnswersInOrder
<1>10. \A j \in begun : j \in 1 .. NRequests /\ j # k
  BY <1>4, PendingIs
<1>11. "fileid" \in PendingWords /\ "fileiderror" \in PendingWords /\ "beginupload" \in PendingWords
  BY DEF PendingWords
<1>12. ToldFirst'
  BY <1>1, <1>5, <1>10, <1>11 DEF ToldFirst
<1>13. ASSUME Pending!Unmixed' PROVE Remembered' /\ UnderOwnId'
  <2>1. Pending!Unmixed
    BY <1>13 DEF Pending!Unmixed
  <2>2. ASSUME NEW j \in 1 .. NRequests PROVE (Gone(j)' <=> Gone(j)) /\ IdOf(j)' = IdOf(j)
    <3>1. CASE j = k
      BY <1>4, <1>5, <1>11, <3>1 DEF Gone, IdOf
    <3>2. CASE j # k
      BY <1>5, <1>11, <3>2 DEF Gone, IdOf
    <3>. QED
      BY <3>1, <3>2
  <2>3. Remembered /\ UnderOwnId
    BY <2>1 DEF PendingInv
  <2>. QED
    BY <2>2, <2>3, StillRemembered DEF UnderOwnId
<1>14. Pending!Unmixed' => Remembered' /\ UnderOwnId'
  BY <1>13
<1>. QED
  BY <1>7, <1>8, <1>9, <1>12, <1>14 DEF PendingInv

\* The manager lets an upload begin.
LEMMA UploadMayBegin ==
  ASSUME Pending!PendingAssumption, PendingInv, Pending!BeginUpload
  PROVE  PendingInv'
<1>1. PICK k \in accepted \ begun :
        /\ answers' = Append(answers, Pending!Msg("beginupload", k)) /\ begun' = begun \cup {k}
        /\ UNCHANGED <<main, asked, waiting, commands, accepted, refused, uploads, aborted>>
  BY DEF Pending!BeginUpload
<1>2. /\ CommandsInOrder /\ AnswersInOrder /\ ToldFirst /\ k \in 1 .. NRequests
      /\ k \notin refused
  BY PendingIs DEF PendingInv, Answered, CommandsInOrder
<1>3. "fileid" \in PendingWords /\ "fileiderror" \in PendingWords /\ "beginupload" \in PendingWords
  BY DEF PendingWords
<1>4. /\ answers' \in Seq(PendingMsgs) /\ Len(answers') = Len(answers) + 1
      /\ answers'[Len(answers) + 1] = Pending!Msg("beginupload", k)
      /\ \A x \in 1 .. Len(answers) : answers'[x] = answers[x]
      /\ \A v \in PendingWords, j \in 1 .. NRequests :
           Underway(v, j)' <=> Underway(v, j) \/ (v = "beginupload" /\ j = k)
  BY <1>1, <1>2, <1>3, AnswerGoes
<1>5. Len(answers) \in Nat
  BY PendingIs
<1>6. Answered' = Answered
  BY <1>1 DEF Answered
<1>7. Pending!TypeOK'
  <2>1. begun' \subseteq 1 .. NRequests
    BY <1>1, <1>2, PendingIs
  <2>. QED
    BY <1>1, <1>4, <1>6, <2>1, PendingIs, PendingTypes
<1>8. CommandsInOrder'
  BY <1>1, <1>2, <1>6 DEF CommandsInOrder
<1>9. AnswersInOrder'
  <2>1. \A x \in 1 .. Len(answers') : x \in 1 .. Len(answers) \/ x = Len(answers) + 1
    BY <1>4, <1>5
  <2>2. /\ Pending!Msg("beginupload", k).word = "beginupload"
        /\ Pending!Msg("beginupload", k).request = k
    BY DEF Pending!Msg
  <2>3. ASSUME NEW x \in 1 .. Len(answers')
        PROVE  /\ answers'[x].word = "fileid" => answers'[x].request \in accepted'
               /\ answers'[x].word = "fileiderror" => answers'[x].request \in refused'
               /\ answers'[x].word = "beginupload" => answers'[x].request \in begun'
    <3>1. CASE x \in 1 .. Len(answers)
      BY <1>1, <1>2, <1>4, <3>1 DEF AnswersInOrder
    <3>2. CASE x = Len(answers) + 1
      BY <1>1, <1>4, <2>2, <3>2
    <3>. QED
      BY <2>1, <3>1, <3>2
  <2>4. ASSUME NEW x \in 1 .. Len(answers'), NEW y \in 1 .. Len(answers'), x < y
        PROVE  /\ answers'[y].word # "beginupload" => answers'[x].request < answers'[y].request
               /\ answers'[x] # answers'[y]
    <3>1. x \in 1 .. Len(answers)
      BY <1>4, <1>5, <2>4
    <3>2. CASE y \in 1 .. Len(answers)
      BY <1>2, <1>4, <2>4, <3>1, <3>2 DEF AnswersInOrder
    <3>3. CASE y = Len(answers) + 1
      <4>1. answers'[y] = Pending!Msg("beginupload", k) /\ answers'[x] = answers[x]
        BY <1>4, <3>1, <3>3
      <4>2. answers[x].word = "beginupload" => answers[x].request # k
        BY <1>1, <1>2, <3>1 DEF AnswersInOrder
      <4>. QED
        BY <2>2, <4>1, <4>2
    <3>. QED
      BY <2>1, <3>2, <3>3
  <2>. QED
    BY <2>3, <2>4 DEF AnswersInOrder
<1>10. ToldFirst'
  <2>1. \A j \in begun : j \in 1 .. NRequests
    BY PendingIs
  <2>. QED
    BY <1>1, <1>2, <1>3, <1>4, <2>1 DEF ToldFirst
<1>11. ASSUME Pending!Unmixed' PROVE Remembered' /\ UnderOwnId'
  <2>1. Pending!Unmixed
    BY <1>1, <1>11 DEF Pending!Unmixed
  <2>2. ASSUME NEW j \in 1 .. NRequests PROVE (Gone(j)' <=> Gone(j)) /\ IdOf(j)' = IdOf(j)
    BY <1>1, <1>2, <1>3, <1>4 DEF Gone, IdOf
  <2>3. Remembered /\ UnderOwnId
    BY <2>1 DEF PendingInv
  <2>. QED
    BY <1>1, <2>2, <2>3, StillRemembered DEF UnderOwnId
<1>12. Pending!Unmixed' => Remembered' /\ UnderOwnId'
  BY <1>11
<1>. QED
  BY <1>7, <1>8, <1>9, <1>10, <1>12 DEF PendingInv

\* A request of whose end the client has not been told is remembered, at one place only.
LEMMA EntryIsThere ==
  ASSUME Pending!PendingAssumption, PendingInv, Pending!Unmixed,
         NEW k \in 1 .. asked, ~Gone(k)
  PROVE  \E x \in 1 .. Len(waiting) :
           /\ waiting[x].request = k /\ waiting[x].id = IdOf(k)
           /\ \A y \in 1 .. Len(waiting) :
                /\ waiting[y].request \in 1 .. asked /\ ~Gone(waiting[y].request)
                /\ waiting[y].id = IdOf(waiting[y].request)
                /\ waiting[y].request = k => y = x
                /\ waiting[y].request < k => y < x
                /\ waiting[y].request > k => y > x
<1>1. Remembered /\ asked \in Nat /\ NRequests \in Nat
  BY PendingIs DEF PendingInv
<1>2. \A x \in 1 .. Len(waiting) : waiting[x] \in PendingEntries
  BY PendingIs
<1>3. PICK x \in 1 .. Len(waiting) : waiting[x].request = k
  BY <1>1 DEF Remembered
<1>4. ASSUME NEW y \in 1 .. Len(waiting)
      PROVE  /\ waiting[y].request \in 1 .. asked /\ ~Gone(waiting[y].request)
             /\ waiting[y].id = IdOf(waiting[y].request)
  BY <1>1, <1>2 DEF Remembered, PendingEntries
<1>5. ASSUME NEW y \in 1 .. Len(waiting)
      PROVE  /\ waiting[y].request = k => y = x
             /\ waiting[y].request < k => y < x
             /\ waiting[y].request > k => y > x
  <2>1. /\ y < x => waiting[y].request < waiting[x].request
        /\ x < y => waiting[x].request < waiting[y].request
    BY <1>1 DEF Remembered
  <2>. QED
    BY <1>3, <1>4, <2>1
<1>. QED
  BY <1>3, <1>4, <1>5

\* Which answer the client takes, and what is so before.
LEMMA AnswerIsFor ==
  ASSUME Pending!PendingAssumption, PendingInv, NEW w, Pending!Receives(w)
  PROVE  /\ answers # <<>> /\ answers' = Tail(answers)
         /\ Head(answers).word = w /\ Head(answers).request \in 1 .. NRequests
         /\ Head(answers).request <= asked
         /\ w = "fileid" => Head(answers).request \in accepted
         /\ w = "fileiderror" => Head(answers).request \in refused
         /\ w = "beginupload" => Head(answers).request \in begun
<1>1. answers # <<>> /\ answers' = Tail(answers) /\ Head(answers).word = w
  BY DEF Pending!Receives
<1>2. Head(answers) = answers[1] /\ 1 \in 1 .. Len(answers) /\ answers[1] \in PendingMsgs
  <2>1. answers \in Seq(PendingMsgs)
    BY PendingIs
  <2>. QED
    BY <1>1, <2>1
<1>3. AnswersInOrder /\ CommandsInOrder
  BY DEF PendingInv
<1>4. /\ w = "fileid" => Head(answers).request \in accepted
      /\ w = "fileiderror" => Head(answers).request \in refused
      /\ w = "beginupload" => Head(answers).request \in begun
  BY <1>1, <1>2, <1>3 DEF AnswersInOrder
<1>5. w \in PendingWords /\ Head(answers).request \in 1 .. NRequests
  BY <1>1, <1>2 DEF PendingMsgs
<1>6. Head(answers).request <= asked
  BY <1>3, <1>4, <1>5 DEF CommandsInOrder, Answered, PendingWords
<1>. QED
  BY <1>1, <1>4, <1>5, <1>6

\* An id goes to the first entry of the name that has none: that is the request's own.
LEMMA IdIsReceived ==
  ASSUME Pending!PendingAssumption, PendingInv, Pending!ReceiveFileId
  PROVE  PendingInv'
<1>0. Pending!Receives("fileid")
  BY DEF Pending!ReceiveFileId
<1>a. PICK k \in 1 .. NRequests : k = Head(answers).request
  BY <1>0, AnswerIsFor
<1> DEFINE T == {x \in 1 .. Len(waiting) : NameOf[waiting[x].request] = NameOf[k] /\ waiting[x].id = 0}
           m == Pending!Min(T)
<1>1. /\ Pending!Receives("fileid") /\ Pending!assignFIllId(k)
      /\ UNCHANGED <<main, asked, commands, accepted, refused, begun, uploads, aborted>>
  BY <1>a DEF Pending!ReceiveFileId, Pending!serverVars
<1>2. /\ answers # <<>> /\ answers' = Tail(answers) /\ Head(answers).word = "fileid"
      /\ k \in 1 .. NRequests /\ k \in 1 .. asked /\ k \in accepted
  BY <1>1, <1>a, PendingIs, AnswerIsFor
<1>3. Len(waiting) \in Nat /\ waiting \in Seq(PendingEntries) /\ T \subseteq Nat /\ NRequests \in Nat
      /\ asked \in Nat
  BY PendingIs
<1>4. T # {} => m \in T /\ m \in 1 .. Len(waiting)
  BY <1>3, FirstPlace
<1>5. waiting' = IF T = {} THEN waiting ELSE [waiting EXCEPT ![m].id = k]
  <2>1. CASE T = {}
    BY <1>1, <2>1 DEF Pending!assignFIllId, Pending!SelectInSeq, Pending!SameName
  <2>2. CASE T # {}
    <3>1. m # 0
      BY <1>4, <2>2
    <3>2. waiting' = IF m = 0 THEN waiting ELSE [waiting EXCEPT ![m].id = k]
      BY <1>1, <2>2 DEF Pending!assignFIllId, Pending!SelectInSeq, Pending!SameName
    <3>. QED
      BY <2>2, <3>1, <3>2
  <2>. QED
    BY <2>1, <2>2
<1>6. /\ answers' \in Seq(PendingMsgs)
      /\ \A v \in PendingWords, j \in 1 .. NRequests :
           Underway(v, j)' <=> Underway(v, j) /\ ~(v = "fileid" /\ j = k)
      /\ \A j \in 1 .. NRequests : Underway("fileid", j) => k <= j
      /\ Underway("fileid", k)
  BY <1>2, <1>a, AnswerComes
<1> HIDE DEF m
<1>7. waiting' \in Seq(PendingEntries)
  <2>1. ASSUME T # {} PROVE [waiting EXCEPT ![m].id = k] \in Seq(PendingEntries)
    <3>1. waiting[m] \in PendingEntries
      BY <1>3, <1>4, <2>1
    <3>2. [waiting[m] EXCEPT !.id = k] \in PendingEntries
      BY <1>2, <3>1 DEF PendingEntries
    <3>3. [waiting EXCEPT ![m] = [waiting[m] EXCEPT !.id = k]] \in Seq(PendingEntries)
      BY <1>3, <1>4, <2>1, <3>2
    <3>. QED
      BY <3>3
  <2>. QED
    BY <1>3, <1>5, <2>1
<1>8. Pending!TypeOK'
  <2>1. Answered' = Answered
    BY <1>1 DEF Answered
  <2>. QED
    BY <1>1, <1>6, <1>7, <2>1, PendingIs, PendingTypes
<1>9. CommandsInOrder' /\ AnswersInOrder' /\ (Pending!Unmixed' <=> Pending!Unmixed)
  BY <1>1, <1>2, OrderStays
<1>10. "fileid" \in PendingWords /\ "fileiderror" \in PendingWords /\ "beginupload" \in PendingWords
  BY DEF PendingWords
<1>11. ToldFirst'
  <2>1. \A j \in begun : j \in 1 .. NRequests
    BY PendingIs
  <2>. QED
    BY <1>1, <1>6, <1>10, <2>1 DEF PendingInv, ToldFirst
<1>12. ASSUME Pending!Unmixed PROVE Remembered' /\ UnderOwnId'
  <2>1. Remembered /\ UnderOwnId /\ CommandsInOrder
    BY <1>12 DEF PendingInv
  <2>2. ~Gone(k) /\ IdOf(k) = 0
    BY <1>2, <1>6, <2>1 DEF PendingInv, ToldFirst, CommandsInOrder, Gone, IdOf
  <2>3. PICK x \in 1 .. Len(waiting) :
          /\ waiting[x].request = k /\ waiting[x].id = IdOf(k)
          /\ \A y \in 1 .. Len(waiting) :
               /\ waiting[y].request \in 1 .. asked /\ ~Gone(waiting[y].request)
               /\ waiting[y].id = IdOf(waiting[y].request)
               /\ waiting[y].request = k => y = x
               /\ waiting[y].request < k => y < x
               /\ waiting[y].request > k => y > x
    BY <1>2, <1>12, <2>2, EntryIsThere
  <2>4. ASSUME NEW y \in T PROVE x <= y
    <3> DEFINE j == waiting[y].request
    <3>1. /\ y \in 1 .. Len(waiting) /\ j \in 1 .. asked /\ ~Gone(j) /\ IdOf(j) = 0
          /\ NameOf[j] = NameOf[k] /\ (j < k => y < x) /\ (j = k => y = x) /\ (j > k => y > x)
      BY <2>3
    <3> HIDE DEF j
    <3>2. CASE j < k
      <4>1. j \in 1 .. NRequests /\ j # 0
        BY <1>2, <1>3, <3>1, PendingIs
      <4>2. ~Underway("fileid", j)
        BY <1>2, <1>6, <3>2, <4>1
      <4>3. j \notin accepted
        BY <3>1, <4>1, <4>2 DEF IdOf
      <4>4. j \in Answered
        <5>1. k \in Answered
          BY <1>2 DEF Answered
        <5>2. \A z \in 1 .. Len(commands) : k < commands[z]
          BY <2>1, <5>1 DEF CommandsInOrder
        <5>3. main = "send" => k < asked
          BY <2>1, <5>1 DEF CommandsInOrder
        <5>4. \A z \in 1 .. Len(commands) : commands[z] # j
          BY <3>2, <4>1, <5>2, PendingIs
        <5>5. ~(main = "send" /\ j = asked)
          BY <1>2, <1>3, <3>1, <3>2, <5>3
        <5>. QED
          BY <2>1, <3>1, <5>4, <5>5 DEF CommandsInOrder
      <4>5. j \in refused
        BY <4>3, <4>4 DEF Answered
      <4>. QED
        BY <1>2, <1>12, <3>1, <3>2, <4>5 DEF Pending!Unmixed
    <3>3. CASE j >= k
      BY <1>2, <1>3, <3>1, <3>3
    <3>. QED
      BY <1>2, <3>1, <3>2, <3>3
  <2>5. x \in T
    BY <2>2, <2>3
  <2>6. m = x
    BY <1>3, <2>4, <2>5, MinIs DEF m
  <2>7. /\ Len(waiting') = Len(waiting)
        /\ \A y \in 1 .. Len(waiting) :
             /\ waiting'[y].request = waiting[y].request
             /\ y # x => waiting'[y].id = waiting[y].id
             /\ y = x => waiting'[y].id = k
    <3>1. waiting' = [waiting EXCEPT ![x] = [waiting[x] EXCEPT !.id = k]]
      BY <1>5, <2>5, <2>6
    <3>2. waiting[x] \in PendingEntries
      BY <1>3
    <3>3. [waiting[x] EXCEPT !.id = k].request = waiting[x].request /\ [waiting[x] EXCEPT !.id = k].id = k
      BY <3>2 DEF PendingEntries
    <3> DEFINE e == [waiting[x] EXCEPT !.id = k]
    <3> HIDE DEF e
    <3>4. waiting' = [waiting EXCEPT ![x] = e]
      BY <3>1 DEF e
    <3>5. Len(waiting') = Len(waiting) /\ \A y \in 1 .. Len(waiting) : waiting'[y] = IF y = x THEN e ELSE waiting[y]
      BY <1>3, <3>4
    <3>. QED
      BY <3>3, <3>5 DEF e
  <2>8. ASSUME NEW j \in 1 .. NRequests
        PROVE  (Gone(j)' <=> Gone(j)) /\ IdOf(j)' = IF j = k THEN k ELSE IdOf(j)
    BY <1>1, <1>2, <1>6, <1>10 DEF Gone, IdOf
  <2>9. ASSUME NEW y \in 1 .. Len(waiting'), NEW j, waiting'[y].request = j
        PROVE  j <= asked' /\ ~Gone(j)' /\ waiting'[y].id = IdOf(j)'
    <3>1. /\ y \in 1 .. Len(waiting) /\ waiting[y].request = j /\ j \in 1 .. asked /\ ~Gone(j)
          /\ waiting[y].id = IdOf(j) /\ (j = k => y = x) /\ (y = x => j = k)
      BY <2>3, <2>7, <2>9
    <3>2. j \in 1 .. NRequests
      BY <3>1, PendingIs
    <3>. QED
      BY <1>1, <2>7, <2>8, <3>1, <3>2
  <2>10. \A y, z \in 1 .. Len(waiting') : y < z => waiting'[y].request < waiting'[z].request
    BY <2>1, <2>7 DEF Remembered
  <2>11. ASSUME NEW j \in 1 .. asked'
         PROVE  Gone(j)' \/ \E y \in 1 .. Len(waiting') : waiting'[y].request = j
    <3>1. j \in 1 .. asked /\ j \in 1 .. NRequests
      BY <1>1, PendingIs
    <3>. QED
      BY <2>1, <2>7, <2>8, <3>1 DEF Remembered
  <2>. QED
    BY <1>1, <2>1, <2>9, <2>10, <2>11, RememberedIs DEF UnderOwnId
<1>13. Pending!Unmixed' => Remembered' /\ UnderOwnId'
  BY <1>9, <1>12
<1>. QED
  BY <1>8, <1>9, <1>11, <1>13 DEF PendingInv

\* What is refused is forgotten: the first entry of its name, as no other has it.
LEMMA RefusalIsReceived ==
  ASSUME Pending!PendingAssumption, PendingInv, Pending!ReceiveError
  PROVE  PendingInv'
<1>0. Pending!Receives("fileiderror")
  BY DEF Pending!ReceiveError
<1>a. PICK k \in 1 .. NRequests : k = Head(answers).request
  BY <1>0, AnswerIsFor
<1> DEFINE T == {x \in 1 .. Len(waiting) : NameOf[waiting[x].request] = NameOf[k]}
           m == Pending!Min(T)
<1>1. /\ Pending!Receives("fileiderror") /\ Pending!removeFile(k)
      /\ UNCHANGED <<main, asked, commands, accepted, refused, begun, uploads, aborted>>
  BY <1>a DEF Pending!ReceiveError, Pending!serverVars
<1>2. /\ answers # <<>> /\ answers' = Tail(answers) /\ Head(answers).word = "fileiderror"
      /\ k \in 1 .. NRequests /\ k \in 1 .. asked /\ k \in refused
  BY <1>1, <1>a, PendingIs, AnswerIsFor
<1>3. Len(waiting) \in Nat /\ waiting \in Seq(PendingEntries) /\ T \subseteq Nat /\ asked \in Nat
  BY PendingIs
<1>4. T # {} => m \in T /\ m \in 1 .. Len(waiting)
  BY <1>3, FirstPlace
<1>5. waiting' = IF T = {} THEN waiting ELSE Pending!RemoveAt(waiting, m)
  BY <1>1, <1>4 DEF Pending!removeFile, Pending!SelectInSeq, Pending!SameName
<1>6. /\ answers' \in Seq(PendingMsgs)
      /\ \A v \in PendingWords, j \in 1 .. NRequests :
           Underway(v, j)' <=> Underway(v, j) /\ ~(v = "fileiderror" /\ j = k)
      /\ Underway("fileiderror", k)
  BY <1>2, <1>a, AnswerComes
<1>7. \A j \in 1 .. NRequests : j # k => (Gone(j)' <=> Gone(j)) /\ IdOf(j)' = IdOf(j)
  BY <1>1, <1>2, <1>a, OthersAreAsBefore
<1> HIDE DEF m
<1>8. waiting' \in Seq(PendingEntries)
  <2>1. CASE T = {}
    BY <1>3, <1>5, <2>1
  <2>2. CASE T # {}
    <3>1. m \in 1 .. Len(waiting) /\ waiting' = Pending!RemoveAt(waiting, m)
      BY <1>4, <1>5, <2>2
    <3>. QED
      BY <1>3, <3>1, RemoveAtIs
  <2>. QED
    BY <2>1, <2>2
<1>9. Pending!TypeOK'
  <2>1. Answered' = Answered
    BY <1>1 DEF Answered
  <2>. QED
    BY <1>1, <1>6, <1>8, <2>1, PendingIs, PendingTypes
<1>10. CommandsInOrder' /\ AnswersInOrder' /\ (Pending!Unmixed' <=> Pending!Unmixed)
  BY <1>1, <1>2, OrderStays
<1>11. "fileid" \in PendingWords /\ "fileiderror" \in PendingWords /\ "beginupload" \in PendingWords
  BY DEF PendingWords
<1>12. ToldFirst'
  <2>1. \A j \in begun : j \in 1 .. NRequests
    BY PendingIs
  <2>. QED
    BY <1>1, <1>6, <1>11, <2>1 DEF PendingInv, ToldFirst
<1>13. ASSUME Pending!Unmixed PROVE Remembered' /\ UnderOwnId'
  <2>1. Remembered /\ UnderOwnId /\ CommandsInOrder
    BY <1>13 DEF PendingInv
  <2>2. ~Gone(k)
    BY <1>2, <1>6, <2>1 DEF CommandsInOrder, Gone
  <2>3. PICK x \in 1 .. Len(waiting) :
          /\ waiting[x].request = k
          /\ \A y \in 1 .. Len(waiting) :
               /\ waiting[y].request \in 1 .. asked
               /\ waiting[y].request = k => y = x
    BY <1>2, <1>13, <2>2, EntryIsThere
  <2>4. ASSUME NEW y \in T PROVE y = x
    <3>1. waiting[y].request = k
      BY <1>2, <1>13, <2>3 DEF Pending!Unmixed
    <3>. QED
      BY <2>3, <3>1
  <2>5. x \in T
    BY <2>3
  <2>6. m = x
    BY <1>3, <1>4, <2>4, <2>5
  <2>7. waiting' = Pending!RemoveAt(waiting, x)
    BY <1>5, <2>5, <2>6
  <2>8. Gone(k)'
    BY <1>1, <1>2, <1>6, <1>11 DEF Gone
  <2>9. Remembered'
    BY <1>1, <1>2, <1>7, <1>13, <2>3, <2>7, <2>8, EntryGoes
  <2>. QED
    BY <1>1, <2>1, <2>9 DEF UnderOwnId
<1>14. Pending!Unmixed' => Remembered' /\ UnderOwnId'
  BY <1>10, <1>13
<1>. QED
  BY <1>9, <1>10, <1>12, <1>14 DEF PendingInv

\* The entry with the id is taken: that is the request's own, and there is one.
LEMMA BeginIsReceived ==
  ASSUME Pending!PendingAssumption, PendingInv, Pending!ReceiveBegin
  PROVE  PendingInv'
<1>0. Pending!Receives("beginupload")
  BY DEF Pending!ReceiveBegin
<1>a. PICK k \in 1 .. NRequests : k = Head(answers).request
  BY <1>0, AnswerIsFor
<1> DEFINE T == {x \in 1 .. Len(waiting) : waiting[x].id = k}
           m == Pending!Min(T)
<1>1. /\ Pending!Receives("beginupload")
      /\ UNCHANGED <<main, asked, commands, accepted, refused, begun>>
  BY <1>a DEF Pending!ReceiveBegin, Pending!serverVars
<1>2. /\ answers # <<>> /\ answers' = Tail(answers) /\ Head(answers).word = "beginupload"
      /\ k \in 1 .. NRequests /\ k \in 1 .. asked /\ k \in begun
  BY <1>1, <1>a, PendingIs, AnswerIsFor
<1>3. Len(waiting) \in Nat /\ waiting \in Seq(PendingEntries) /\ T \subseteq Nat /\ asked \in Nat
  BY PendingIs
<1>4. T # {} => m \in T /\ m \in 1 .. Len(waiting)
  BY <1>3, FirstPlace
<1>5. IF T = {} THEN aborted' = aborted \cup {k} /\ waiting' = waiting /\ uploads' = uploads
      ELSE /\ waiting' = Pending!RemoveAt(waiting, m)
           /\ uploads' = [uploads EXCEPT ![k] = waiting[m].request] /\ aborted' = aborted
  BY <1>4, <1>a DEF Pending!ReceiveBegin, Pending!SelectInSeq
<1>6. /\ answers' \in Seq(PendingMsgs)
      /\ \A v \in PendingWords, j \in 1 .. NRequests :
           Underway(v, j)' <=> Underway(v, j) /\ ~(v = "beginupload" /\ j = k)
      /\ \A j \in 1 .. NRequests : Underway("fileid", j) => k < j
      /\ Underway("beginupload", k)
  BY <1>2, <1>a, AnswerComes
<1>7. \A j \in 1 .. NRequests : j # k => (Gone(j)' <=> Gone(j)) /\ IdOf(j)' = IdOf(j)
  BY <1>1, <1>2, <1>a, OthersAreAsBefore
<1> HIDE DEF m
<1>8. waiting' \in Seq(PendingEntries)
  <2>1. CASE T = {}
    BY <1>3, <1>5, <2>1
  <2>2. CASE T # {}
    <3>1. m \in 1 .. Len(waiting) /\ waiting' = Pending!RemoveAt(waiting, m)
      BY <1>4, <1>5, <2>2
    <3>. QED
      BY <1>3, <3>1, RemoveAtIs
  <2>. QED
    BY <2>1, <2>2
<1>9. Pending!TypeOK'
  <2>1. Answered' = Answered
    BY <1>1 DEF Answered
  <2>2. aborted' \subseteq 1 .. NRequests
    BY <1>2, <1>5, PendingIs
  <2>3. T # {} => waiting[m].request \in 0 .. NRequests
    <3>1. T # {} => waiting[m] \in PendingEntries
      BY <1>3, <1>4
    <3>. QED
      BY <3>1 DEF PendingEntries
  <2>4. uploads' \in [1 .. NRequests -> 0 .. NRequests]
    BY <1>5, <2>3, PendingIs
  <2>. QED
    BY <1>1, <1>6, <1>8, <2>1, <2>2, <2>4, PendingIs, PendingTypes
<1>10. CommandsInOrder' /\ AnswersInOrder' /\ (Pending!Unmixed' <=> Pending!Unmixed)
  BY <1>1, <1>2, OrderStays
<1>11. "fileid" \in PendingWords /\ "fileiderror" \in PendingWords /\ "beginupload" \in PendingWords
  BY DEF PendingWords
<1>12. ~Underway("fileid", k)
  BY <1>2, <1>6
<1>13. ToldFirst'
  <2>1. \A j \in begun : j \in 1 .. NRequests
    BY PendingIs
  <2>. QED
    BY <1>1, <1>6, <1>11, <1>12, <2>1 DEF PendingInv, ToldFirst
<1>14. ASSUME Pending!Unmixed PROVE Remembered' /\ UnderOwnId'
  <2>1. Remembered /\ UnderOwnId /\ CommandsInOrder
    BY <1>14 DEF PendingInv
  <2>2. ~Gone(k) /\ IdOf(k) = k
    BY <1>2, <1>6, <1>12, <2>1 DEF CommandsInOrder, Gone, IdOf
  <2>3. PICK x \in 1 .. Len(waiting) :
          /\ waiting[x].request = k /\ waiting[x].id = IdOf(k)
          /\ \A y \in 1 .. Len(waiting) :
               /\ waiting[y].id = IdOf(waiting[y].request)
               /\ waiting[y].request = k => y = x
    BY <1>2, <1>14, <2>2, EntryIsThere
  <2>4. ASSUME NEW y \in T PROVE y = x
    <3>1. waiting[y].request = k
      BY <1>2, <2>3 DEF IdOf
    <3>. QED
      BY <2>3, <3>1
  <2>5. x \in T
    BY <2>2, <2>3
  <2>6. m = x
    BY <1>3, <1>4, <2>4, <2>5
  <2>7. /\ waiting' = Pending!RemoveAt(waiting, x) /\ aborted' = aborted
        /\ uploads' = [uploads EXCEPT ![k] = k]
    BY <1>5, <2>3, <2>5, <2>6
  <2>8. Gone(k)'
    BY <1>1, <1>2, <1>6, <1>11 DEF Gone
  <2>9. Remembered'
    BY <1>1, <1>2, <1>7, <1>14, <2>3, <2>7, <2>8, EntryGoes
  <2>10. UnderOwnId'
    <3>1. uploads \in [1 .. NRequests -> 0 .. NRequests] /\ Pending!Requests = 1 .. NRequests
      BY PendingIs
    <3>. QED
      BY <1>2, <2>1, <2>7, <3>1 DEF UnderOwnId
  <2>. QED
    BY <2>9, <2>10
<1>15. Pending!Unmixed' => Remembered' /\ UnderOwnId'
  BY <1>10, <1>14
<1>. QED
  BY <1>9, <1>10, <1>13, <1>15 DEF PendingInv

\* Every step keeps the invariant.
LEMMA PendingStep ==
  ASSUME Pending!PendingAssumption, PendingInv, [Pending!Next]_Pending!vars
  PROVE  PendingInv'
<1>1. CASE Pending!Add
  BY <1>1, RequestIsMade
<1>2. CASE Pending!Send
  BY <1>2, RequestIsSent
<1>3. CASE Pending!Answer
  BY <1>3, RequestIsAnswered DEF Pending!Answer
<1>4. CASE Pending!BeginUpload
  BY <1>4, UploadMayBegin
<1>5. CASE Pending!ReceiveFileId
  BY <1>5, IdIsReceived
<1>6. CASE Pending!ReceiveError
  BY <1>6, RefusalIsReceived
<1>7. CASE Pending!ReceiveBegin
  BY <1>7, BeginIsReceived
<1>8. CASE UNCHANGED Pending!vars
  <2>1. /\ main' = main /\ asked' = asked /\ waiting' = waiting /\ commands' = commands
        /\ answers' = answers /\ accepted' = accepted /\ refused' = refused /\ begun' = begun
        /\ uploads' = uploads /\ aborted' = aborted
    BY <1>8 DEF Pending!vars, Pending!serverVars
  <2>2. Answered' = Answered
    BY <2>1 DEF Answered
  <2>3. Pending!TypeOK'
    BY <2>1, <2>2, PendingIs, PendingTypes
  <2>4. CommandsInOrder' /\ AnswersInOrder'
    BY <2>1, <2>2 DEF PendingInv, CommandsInOrder, AnswersInOrder
  <2>5. ToldFirst'
    BY <2>1 DEF PendingInv, ToldFirst, Underway, Pending!Msg
  <2>6. Pending!Unmixed' <=> Pending!Unmixed
    BY <2>1 DEF Pending!Unmixed
  <2>7. (Remembered' <=> Remembered) /\ (UnderOwnId' <=> UnderOwnId)
    BY <2>1 DEF Remembered, UnderOwnId, Gone, IdOf, Underway, Pending!Msg
  <2>. QED
    BY <2>3, <2>4, <2>5, <2>6, <2>7 DEF PendingInv
<1>. QED
  BY <1>1, <1>2, <1>3, <1>4, <1>5, <1>6, <1>7, <1>8 DEF Pending!Next

\* When nothing is on its way, what is remembered is what was accepted and may yet begin.
LEMMA WhatIsLeft ==
  ASSUME Pending!PendingAssumption, PendingInv
  PROVE  Pending!QueueIsWaiting
<1> SUFFICES ASSUME Pending!Unmixed, main = "idle", commands = <<>>, answers = <<>>
             PROVE  /\ Pending!ToSet(waiting) = {Pending!Entry(k, k) : k \in accepted \ begun}
                    /\ Pending!IsInjective(waiting)
  BY DEF Pending!QueueIsWaiting
<1>1. Remembered /\ CommandsInOrder
  BY DEF PendingInv
<1>2. /\ waiting \in Seq(PendingEntries) /\ DOMAIN waiting = 1 .. Len(waiting) /\ Len(waiting) \in Nat
      /\ \A x \in 1 .. Len(waiting) : waiting[x] \in PendingEntries
      /\ asked \in Nat /\ NRequests \in Nat /\ Answered \subseteq 1 .. NRequests
  <2>1. waiting \in Seq(PendingEntries)
    BY PendingIs
  <2>. QED
    BY <2>1, PendingIs
<1>3. \A w, k : ~Underway(w, k)
  BY DEF Underway
<1>4. \A k : (Gone(k) <=> k \in refused \cup begun) /\ IdOf(k) = IF k \in accepted THEN k ELSE 0
  BY <1>3 DEF Gone, IdOf
<1>5. \A k \in 1 .. asked : k \in Answered
  BY <1>1 DEF CommandsInOrder
<1>6. \A k \in Answered : k \in 1 .. asked
  BY <1>1, <1>2 DEF CommandsInOrder
<1>7. Pending!IsInjective(waiting)
  <2> SUFFICES ASSUME NEW x \in 1 .. Len(waiting), NEW y \in 1 .. Len(waiting), x < y
               PROVE  waiting[x] # waiting[y]
    BY <1>2 DEF Pending!IsInjective
  <2>1. waiting[x].request < waiting[y].request /\ waiting[x].request \in Nat
    BY <1>1, <1>2 DEF Remembered, PendingEntries
  <2>. QED
    BY <2>1
<1>8. ASSUME NEW x \in 1 .. Len(waiting)
      PROVE  /\ waiting[x].request \in accepted \ begun
             /\ waiting[x] = Pending!Entry(waiting[x].request, waiting[x].request)
  <2> DEFINE k == waiting[x].request
  <2>1. k \in 1 .. asked /\ ~Gone(k) /\ waiting[x].id = IdOf(k)
    BY <1>1, <1>2 DEF Remembered, PendingEntries
  <2>2. k \in accepted \ begun
    BY <1>4, <1>5, <2>1 DEF Answered
  <2>3. waiting[x].id = k
    BY <1>4, <2>1, <2>2
  <2>. QED
    BY <1>2, <2>2, <2>3 DEF Pending!Entry, PendingEntries
<1>9. ASSUME NEW k \in accepted \ begun
      PROVE  \E x \in 1 .. Len(waiting) : waiting[x] = Pending!Entry(k, k)
  <2>1. k \in Answered /\ k \notin refused
    BY <1>1 DEF Answered, CommandsInOrder
  <2>2. k \in 1 .. asked /\ ~Gone(k)
    BY <1>4, <1>6, <2>1
  <2>3. PICK x \in 1 .. Len(waiting) : waiting[x].request = k
    BY <1>1, <2>2 DEF Remembered
  <2>. QED
    BY <1>8, <2>3
<1>10. Pending!ToSet(waiting) = {Pending!Entry(k, k) : k \in accepted \ begun}
  BY <1>2, <1>8, <1>9 DEF Pending!ToSet
<1>. QED
  BY <1>7, <1>10

\* As long as no refused request has the name of another, a file is sent under the id its
\* request was given, and when nothing is on its way the client remembers exactly the uploads
\* that were accepted and may yet begin (PendingUploads.java).
THEOREM GrantsReachTheirRequests ==
  ASSUME Pending!PendingAssumption
  PROVE  Pending!Spec => [](Pending!Inv /\ Pending!GrantMatchesRequest)
<1>1. Pending!Init => PendingInv
  <2> SUFFICES ASSUME Pending!Init PROVE PendingInv
    OBVIOUS
  <2> USE DEF Pending!Init
  <2>1. NRequests \in Nat
    BY DEF Pending!PendingAssumption
  <2>2. Pending!TypeOK
    BY <2>1 DEF Pending!TypeOK, Pending!Requests
  <2>3. CommandsInOrder /\ AnswersInOrder /\ ToldFirst
    BY <2>1 DEF CommandsInOrder, AnswersInOrder, ToldFirst, Answered
  <2>4. Remembered /\ UnderOwnId
    BY <2>1 DEF Remembered, UnderOwnId
  <2>. QED
    BY <2>2, <2>3, <2>4 DEF PendingInv
<1>2. PendingInv /\ [Pending!Next]_Pending!vars => PendingInv'
  BY PendingStep
<1>3. PendingInv => Pending!Inv /\ Pending!GrantMatchesRequest
  BY WhatIsLeft DEF PendingInv, Pending!Inv, Pending!GrantMatchesRequest, UnderOwnId
<1>. QED
  BY <1>1, <1>2, <1>3, PTL DEF Pending!Spec

-----------------------------------------------------------------------------
(* The files of a student *)

CONSTANTS Handlers, AnnouncedAs, OldFiles, MaxNumber
VARIABLES saving, saveAs, dir, listing, listed, overlapped

Store == INSTANCE StudentFiles WITH
  NameOf <- AnnouncedAs, pc <- saving, file <- saveAs, seen <- listed

Stems == {n[1] : n \in OldFiles \cup {AnnouncedAs[h] : h \in Handlers}}

StorePlaces == Store!Working \cup {"idle", "failed", "done"}

Contents == Handlers \cup {"old", "empty", "partial", "mixed"}

StoreTypes ==
  /\ saving \in [Handlers -> StorePlaces] /\ saveAs \in [Handlers -> Stems \X Nat]
  /\ dir \in [DOMAIN dir -> Contents]
  /\ listing \subseteq DOMAIN dir /\ listed \in [Handlers -> SUBSET DOMAIN dir]
  /\ overlapped \subseteq Handlers \X Handlers

\* A name has been found taken before the next one is tried.
TriedInOrder ==
  \A h \in Handlers :
    /\ saveAs[h][1] = AnnouncedAs[h][1] /\ AnnouncedAs[h][2] <= saveAs[h][2]
    /\ \A k \in AnnouncedAs[h][2] .. (saveAs[h][2] - 1) : <<AnnouncedAs[h][1], k>> \in DOMAIN dir

\* Each handler brings at most one name into the directory.
OneNameEach ==
  DOMAIN dir \subseteq
    OldFiles \cup {saveAs[g] : g \in {h \in Handlers : saving[h] \notin {"idle", "probe", "create"}}}

\* Whoever are at work together have been noticed to be.
Noticed ==
  \A g, h \in Handlers :
    g # h /\ saving[g] \in Store!Working /\ saving[h] \in Store!Working => <<g, h>> \in overlapped

\* A handler that is about to open or to write a file that is complete was at work with the
\* one that completed it: it found the name free.
Rights ==
  \A g \in Handlers :
    /\ saving[g] = "write" => saveAs[g] \in DOMAIN dir
    /\ saving[g] \in {"create", "write"} /\ saveAs[g] \in DOMAIN dir
         /\ dir[saveAs[g]] \in Handlers \cup {"old"} => <<g, dir[saveAs[g]]>> \in overlapped

Alone(h) == \A g \in Handlers : <<g, h>> \notin overlapped

\* How far a handler has come that nobody else was at work with.
AloneGetsThrough ==
  \A h \in Handlers : Alone(h) =>
    /\ saving[h] = "create" => saveAs[h] \notin DOMAIN dir
    /\ saving[h] = "write" => dir[saveAs[h]] = "empty"
    /\ saving[h] \in {"list", "put", "done"} => saveAs[h] \in DOMAIN dir /\ dir[saveAs[h]] = h
    /\ saving[h] = "put" => saveAs[h] \in listed[h]
    /\ saving[h] = "done" => /\ saveAs[h] \in listing
                          /\ \A g \in Handlers : saving[g] = "put" => saveAs[h] \in listed[g]

StoreInv ==
  /\ StoreTypes /\ TriedInOrder /\ OneNameEach
  /\ Noticed /\ Rights /\ AloneGetsThrough

-----------------------------------------------------------------------------
(* Steps *)

\* Finite sets are the same in the instance.
LEMMA SameFinite == \A S : Store!IsFiniteSet(S) <=> IsFiniteSet(S)
BY DEF IsFiniteSet, Store!IsFiniteSet

LEMMA SameCardinality == \A S : Store!Cardinality(S) = Cardinality(S)
BY Zenon DEF Cardinality, Store!Cardinality

LEMMA FilesGiven ==
  ASSUME Store!FilesAssumption
  PROVE  /\ IsFiniteSet(Handlers) /\ IsFiniteSet(OldFiles) /\ OldFiles \subseteq Store!Names
         /\ AnnouncedAs \in [Handlers -> Store!Names] /\ MaxNumber \in Nat
         /\ \A h \in Handlers :
              AnnouncedAs[h][2] + Cardinality(OldFiles) + Cardinality(Handlers) <= MaxNumber
BY SameFinite, SameCardinality DEF Store!FilesAssumption

LEMMA StoreStarts == ASSUME Store!FilesAssumption, Store!Init PROVE StoreInv
<1> USE DEF Store!Init
<1>1. StoreTypes
  <2>1. saveAs \in [Handlers -> Stems \X Nat]
    BY DEF Store!FilesAssumption, Store!Names, Stems
  <2>2. dir \in [DOMAIN dir -> Contents]
    BY DEF Contents
  <2>3. QED
    BY <2>1, <2>2 DEF StoreTypes, StorePlaces
<1>2. TriedInOrder
  BY DEF TriedInOrder, Store!FilesAssumption, Store!Names
<1>3. OneNameEach /\ Noticed /\ Rights /\ AloneGetsThrough
  BY DEF OneNameEach, Noticed, Rights, AloneGetsThrough, Store!Working
<1>4. QED
  BY <1>1, <1>2, <1>3 DEF StoreInv

\* All chunks of an upload are there.
LEMMA WriteFileKeeps ==
  ASSUME Store!FilesAssumption, StoreInv, NEW h \in Handlers, Store!WriteFile(h)
  PROVE  StoreInv'
<1> USE DEF StoreInv, Store!WriteFile, Store!Goto
<1>1. StoreTypes'
  BY DEF StoreTypes, StorePlaces, Store!Working, Store!Successor
<1>2. TriedInOrder'
  BY DEF StoreTypes, TriedInOrder, Store!Successor
<1>3. OneNameEach'
  BY DEF StoreTypes, OneNameEach, Store!Successor
<1>4. Noticed'
  BY DEF StoreTypes, Noticed, Store!Working
<1>5. Rights'
  BY DEF StoreTypes, Noticed, Rights, Store!Working
<1>6. AloneGetsThrough'
  BY DEF StoreTypes, Noticed, AloneGetsThrough, Alone, Store!Working
<1>7. QED
  BY <1>1, <1>2, <1>3, <1>4, <1>5, <1>6

\* A name is taken, and the next one is tried, or free.
LEMMA ProbeKeeps ==
  ASSUME Store!FilesAssumption, StoreInv, NEW h \in Handlers, Store!Probe(h)
  PROVE  StoreInv'
<1> USE DEF StoreInv, Store!Probe, Store!Goto
<1>1. StoreTypes'
  BY DEF StoreTypes, StorePlaces, Store!Working, Store!Successor
<1>2. TriedInOrder'
  <2>1. CASE saveAs[h] \notin DOMAIN dir
    BY <2>1 DEF StoreTypes, TriedInOrder
  <2>2. CASE saveAs[h] \in DOMAIN dir
    <3>1. /\ saveAs[h] = <<AnnouncedAs[h][1], saveAs[h][2]>>
          /\ saveAs[h][2] \in Nat /\ AnnouncedAs[h][2] \in Nat
      BY DEF StoreTypes, TriedInOrder, Store!FilesAssumption, Store!Names
    <3>2. /\ saveAs'[h][1] = saveAs[h][1] /\ saveAs'[h][2] = saveAs[h][2] + 1
          /\ \A g \in Handlers \ {h} : saveAs'[g] = saveAs[g]
      BY <2>2 DEF StoreTypes, Store!Successor
    <3>3. \A k \in AnnouncedAs[h][2] .. saveAs[h][2] : <<AnnouncedAs[h][1], k>> \in DOMAIN dir
      <4>1. TAKE k \in AnnouncedAs[h][2] .. saveAs[h][2]
      <4>2. k = saveAs[h][2] \/ k \in AnnouncedAs[h][2] .. (saveAs[h][2] - 1)
        BY <3>1
      <4>3. QED
        BY <2>2, <3>1, <4>2 DEF TriedInOrder
    <3>4. saveAs'[h][2] - 1 = saveAs[h][2]
      BY <3>1, <3>2
    <3>5. \A g \in Handlers \ {h} :
            /\ saveAs'[g][1] = AnnouncedAs[g][1] /\ AnnouncedAs[g][2] <= saveAs'[g][2]
            /\ \A k \in AnnouncedAs[g][2] .. (saveAs'[g][2] - 1) :
                 <<AnnouncedAs[g][1], k>> \in DOMAIN dir
      BY <3>2 DEF TriedInOrder
    <3>6. AnnouncedAs[h][2] <= saveAs'[h][2] /\ saveAs'[h][1] = AnnouncedAs[h][1]
      BY <3>1, <3>2 DEF TriedInOrder
    <3>7. DOMAIN dir' = DOMAIN dir
      OBVIOUS
    <3>8. QED
      BY <3>3, <3>4, <3>5, <3>6, <3>7 DEF TriedInOrder
  <2>3. QED
    BY <2>1, <2>2
<1>3. OneNameEach'
  BY DEF StoreTypes, OneNameEach, Store!Successor
<1>4. Noticed'
  BY DEF StoreTypes, Noticed, Store!Working
<1>5. Rights'
  BY DEF StoreTypes, Noticed, Rights, Store!Working
<1>6. AloneGetsThrough'
  BY DEF StoreTypes, Noticed, AloneGetsThrough, Alone, Store!Working
<1>7. QED
  BY <1>1, <1>2, <1>3, <1>4, <1>5, <1>6

\* The directory is read.
LEMMA RefreshReadKeeps ==
  ASSUME Store!FilesAssumption, StoreInv, NEW h \in Handlers, Store!RefreshRead(h)
  PROVE  StoreInv'
<1> USE DEF StoreInv, Store!RefreshRead, Store!Goto
<1>1. StoreTypes'
  BY DEF StoreTypes, StorePlaces, Store!Working, Store!Successor
<1>2. TriedInOrder'
  BY DEF StoreTypes, TriedInOrder, Store!Successor
<1>3. OneNameEach'
  BY DEF StoreTypes, OneNameEach, Store!Successor
<1>4. Noticed'
  BY DEF StoreTypes, Noticed, Store!Working
<1>5. Rights'
  BY DEF StoreTypes, Noticed, Rights, Store!Working
<1>6. AloneGetsThrough'
  BY DEF StoreTypes, Noticed, AloneGetsThrough, Alone, Store!Working
<1>7. QED
  BY <1>1, <1>2, <1>3, <1>4, <1>5, <1>6

\* The listing is renewed.
LEMMA RefreshPutKeeps ==
  ASSUME Store!FilesAssumption, StoreInv, NEW h \in Handlers, Store!RefreshPut(h)
  PROVE  StoreInv'
<1> USE DEF StoreInv, Store!RefreshPut, Store!Goto
<1>1. StoreTypes'
  BY DEF StoreTypes, StorePlaces, Store!Working, Store!Successor
<1>2. TriedInOrder'
  BY DEF StoreTypes, TriedInOrder, Store!Successor
<1>3. OneNameEach'
  BY DEF StoreTypes, OneNameEach, Store!Successor
<1>4. Noticed'
  BY DEF StoreTypes, Noticed, Store!Working
<1>5. Rights'
  BY DEF StoreTypes, Noticed, Rights, Store!Working
<1>6. AloneGetsThrough'
  BY DEF StoreTypes, Noticed, AloneGetsThrough, Alone, Store!Working
<1>7. QED
  BY <1>1, <1>2, <1>3, <1>4, <1>5, <1>6

\* A handler puts something into the directory, under the name it has found.
LEMMA PutKeeps ==
  ASSUME Store!FilesAssumption, StoreInv, NEW h \in Handlers,
         NEW c \in Contents, NEW to \in {"write", "list", "failed"},
         saving[h] \in {"create", "write"}, saving' = [saving EXCEPT ![h] = to],
         dir' = Store!Put(saveAs[h], c), UNCHANGED <<saveAs, listing, listed, overlapped>>,
         to = "write" => saving[h] = "create" /\ c = "empty",
         to = "list" => saving[h] = "write" /\ (c = h \/ (c = "mixed" /\ dir[saveAs[h]] # "empty")),
         to = "failed" => c \in {"empty", "partial"}
  PROVE  StoreInv'
<1> USE DEF StoreInv
<1>1. /\ DOMAIN dir' = DOMAIN dir \cup {saveAs[h]}
      /\ dir'[saveAs[h]] = c
      /\ \A n \in DOMAIN dir : n # saveAs[h] => dir'[n] = dir[n]
  BY DEF Store!Put
<1>2. c \in Handlers \cup {"old"} => to = "list" /\ c = h
  BY DEF Store!FilesAssumption
<1>3. StoreTypes'
  BY DEF StoreTypes, StorePlaces, Store!Working, Store!Put
<1>4. TriedInOrder'
  BY <1>1 DEF StoreTypes, TriedInOrder
<1>5. OneNameEach'
  BY <1>1 DEF StoreTypes, OneNameEach
<1>6. Noticed'
  BY DEF StoreTypes, Noticed, Store!Working
<1>7. Rights'
  <2>1. SUFFICES ASSUME NEW g \in Handlers
                 PROVE  /\ saving'[g] = "write" => saveAs[g] \in DOMAIN dir'
                        /\ saving'[g] \in {"create", "write"} /\ saveAs[g] \in DOMAIN dir'
                             /\ dir'[saveAs[g]] \in Handlers \cup {"old"} =>
                                  <<g, dir'[saveAs[g]]>> \in overlapped
    BY DEF Rights
  <2>2. CASE g = h
    BY <1>1, <2>2, <1>2 DEF StoreTypes
  <2>3. CASE g # h /\ saveAs[g] = saveAs[h] /\ saving[g] \in {"create", "write"}
    BY <1>1, <2>3, <1>2 DEF StoreTypes, Noticed, Store!Working
  <2>4. CASE g # h /\ saveAs[g] # saveAs[h] /\ saving[g] \in {"create", "write"}
    BY <1>1, <2>4 DEF StoreTypes, Rights
  <2>5. CASE g # h /\ saving[g] \notin {"create", "write"}
    BY <2>5 DEF StoreTypes
  <2>6. QED
    BY <2>2, <2>3, <2>4, <2>5
<1>8. AloneGetsThrough'
  <2>1. SUFFICES ASSUME NEW g \in Handlers, Alone(g)
                 PROVE  /\ saving'[g] = "create" => saveAs[g] \notin DOMAIN dir'
                        /\ saving'[g] = "write" => dir'[saveAs[g]] = "empty"
                        /\ saving'[g] \in {"list", "put", "done"} =>
                             saveAs[g] \in DOMAIN dir' /\ dir'[saveAs[g]] = g
                        /\ saving'[g] = "put" => saveAs[g] \in listed[g]
                        /\ saving'[g] = "done" =>
                             /\ saveAs[g] \in listing
                             /\ \A f \in Handlers : saving'[f] = "put" => saveAs[g] \in listed[f]
    BY DEF AloneGetsThrough, Alone
  <2>2. CASE g = h
    BY <1>1, <2>1, <2>2 DEF StoreTypes, AloneGetsThrough
  <2>3. CASE g # h
    <3>1. saving'[g] = saving[g] /\ saving[g] \notin {"create", "write"}
      BY <2>1, <2>3 DEF StoreTypes, Noticed, Alone, Store!Working
    <3>2. saving[g] \in {"list", "put", "done"} => saveAs[g] # saveAs[h]
      <4>1. SUFFICES ASSUME saving[g] \in {"list", "put", "done"}, saveAs[g] = saveAs[h]
                     PROVE  FALSE
        OBVIOUS
      <4>2. saveAs[h] \in DOMAIN dir /\ dir[saveAs[h]] = g
        BY <2>1, <4>1 DEF AloneGetsThrough
      <4>3. <<h, g>> \in overlapped
        BY <4>2 DEF Rights
      <4>4. QED
        BY <2>1, <4>3 DEF Alone
    <3>3. \A f \in Handlers : saving'[f] = "put" => saving[f] = "put"
      BY DEF StoreTypes
    <3>4. QED
      BY <1>1, <2>1, <3>1, <3>2, <3>3 DEF AloneGetsThrough
  <2>4. QED
    BY <2>2, <2>3
<1>9. QED
  BY <1>3, <1>4, <1>5, <1>6, <1>7, <1>8

LEMMA CreateKeeps ==
  ASSUME Store!FilesAssumption, StoreInv, NEW h \in Handlers, Store!Create(h)
  PROVE  StoreInv'
<1> USE DEF Store!Create, Store!Goto
<1>1. CASE saving' = [saving EXCEPT ![h] = "failed"] /\ UNCHANGED dir
  <2> USE <1>1 DEF StoreInv
  <2>1. StoreTypes'
    BY DEF StoreTypes, StorePlaces, Store!Working
  <2>2. TriedInOrder' /\ OneNameEach'
    BY DEF StoreTypes, TriedInOrder, OneNameEach
  <2>3. Noticed' /\ Rights' /\ AloneGetsThrough'
    BY DEF StoreTypes, Noticed, Rights, AloneGetsThrough, Alone, Store!Working
  <2>4. QED
    BY <2>1, <2>2, <2>3
<1>2. CASE dir' = Store!Put(saveAs[h], "empty")
  BY <1>2, PutKeeps DEF Contents
<1>3. QED
  BY <1>1, <1>2

LEMMA WriteKeeps ==
  ASSUME Store!FilesAssumption, StoreInv, NEW h \in Handlers, Store!Write(h)
  PROVE  StoreInv'
BY PutKeeps DEF Store!Write, Store!Goto, Contents

LEMMA StoreStep == ASSUME Store!FilesAssumption, StoreInv, [Store!Next]_(Store!vars) PROVE StoreInv'
<1>1. CASE UNCHANGED Store!vars
  BY <1>1 DEF Store!vars, StoreInv, StoreTypes, TriedInOrder, OneNameEach, Noticed, Rights,
              AloneGetsThrough, Alone
<1>2. CASE Store!Next
  BY <1>2, WriteFileKeeps, ProbeKeeps, CreateKeeps, WriteKeeps, RefreshReadKeeps, RefreshPutKeeps
     DEF Store!Next, Store!Handler
<1>3. QED
  BY <1>1, <1>2

-----------------------------------------------------------------------------
(* What follows *)

\* The names that were tried before are in the directory, so there are not more of them than
\* files, and a file has one name of the old ones or that of a handler.
LEMMA NumbersBounded ==
  ASSUME Store!FilesAssumption, StoreInv, NEW h \in Handlers
  PROVE  saveAs[h][2] <= AnnouncedAs[h][2] + Cardinality(OldFiles) + Cardinality(Handlers)
<1> DEFINE chosen == {saveAs[g] : g \in Handlers}
           tried == AnnouncedAs[h][2] .. (saveAs[h][2] - 1)
           name == [k \in tried |-> <<AnnouncedAs[h][1], k>>]
<1>1. IsFiniteSet(chosen) /\ Cardinality(chosen) <= Cardinality(Handlers)
  <2>1. saveAs \in Surjection(Handlers, chosen)
    BY DEF StoreInv, StoreTypes, Surjection
  <2>2. QED
    BY <2>1, FilesGiven, FS_Surjection
<1>2. /\ IsFiniteSet(DOMAIN dir)
      /\ Cardinality(DOMAIN dir) <= Cardinality(OldFiles) + Cardinality(Handlers)
  <2>1. DOMAIN dir \subseteq OldFiles \cup chosen
    BY DEF StoreInv, OneNameEach
  <2>2. /\ IsFiniteSet(OldFiles \cup chosen)
        /\ Cardinality(OldFiles \cup chosen) =
             Cardinality(OldFiles) + Cardinality(chosen) - Cardinality(OldFiles \cap chosen)
    BY <1>1, FilesGiven, FS_Union
  <2>3. IsFiniteSet(OldFiles \cap chosen)
    BY <1>1, FS_Intersection
  <2>4. /\ Cardinality(OldFiles) \in Nat /\ Cardinality(chosen) \in Nat
        /\ Cardinality(OldFiles \cap chosen) \in Nat /\ Cardinality(Handlers) \in Nat
    BY <1>1, <2>3, FilesGiven, FS_CardinalityType
  <2>5. IsFiniteSet(DOMAIN dir) /\ Cardinality(DOMAIN dir) <= Cardinality(OldFiles \cup chosen)
    BY <2>1, <2>2, FS_Subset
  <2>6. Cardinality(DOMAIN dir) \in Nat
    BY <2>5, FS_CardinalityType
  <2>7. QED
    BY <1>1, <2>2, <2>4, <2>5, <2>6
<1>3. AnnouncedAs[h][2] \in Nat /\ saveAs[h][2] \in Nat /\ AnnouncedAs[h][2] <= saveAs[h][2]
  BY DEF StoreInv, StoreTypes, TriedInOrder, Store!FilesAssumption, Store!Names
<1>4. Cardinality(tried) <= Cardinality(DOMAIN dir)
  <2>1. name \in Injection(tried, DOMAIN dir)
    BY DEF StoreInv, TriedInOrder, Injection, IsInjective
  <2>2. QED
    BY <1>2, <2>1, FS_Injection
<1>5. Cardinality(tried) = saveAs[h][2] - AnnouncedAs[h][2]
  <2>1. AnnouncedAs[h][2] \in Int /\ saveAs[h][2] - 1 \in Int
    BY <1>3
  <2>2. QED
    <3> DEFINE a == AnnouncedAs[h][2]
               b == saveAs[h][2] - 1
    <3>1. Cardinality(a .. b) = IF a > b THEN 0 ELSE b - a + 1
      <4> HIDE DEF a, b
      <4> QED BY <2>1, FS_Interval DEF a, b
    <3>2. QED
      BY <1>3, <3>1
<1>6. /\ Cardinality(OldFiles) \in Nat /\ Cardinality(Handlers) \in Nat
      /\ Cardinality(DOMAIN dir) \in Nat
  BY <1>2, FilesGiven, FS_CardinalityType
<1>7. QED
  BY <1>2, <1>3, <1>4, <1>5, <1>6

LEMMA StoreInvEnough == ASSUME Store!FilesAssumption, StoreInv PROVE Store!Inv
<1>1. saveAs \in [Handlers -> Store!Names]
  <2>1. \A h \in Handlers : saveAs[h] \in Store!Names
    <3>1. TAKE h \in Handlers
    <3>2. saveAs[h] = <<saveAs[h][1], saveAs[h][2]>> /\ saveAs[h][1] \in Stems /\ saveAs[h][2] \in Nat
      BY DEF StoreInv, StoreTypes
    <3>3. /\ Cardinality(OldFiles) \in Nat /\ Cardinality(Handlers) \in Nat
          /\ AnnouncedAs[h][2] \in Nat
      BY FilesGiven, FS_CardinalityType DEF Store!Names
    <3>4. saveAs[h][2] <= MaxNumber
      BY <3>2, <3>3, FilesGiven, NumbersBounded
    <3>5. QED
      BY <3>2, <3>4 DEF Store!Names, Stems, Store!FilesAssumption
  <2>2. QED
    BY <2>1 DEF StoreInv, StoreTypes
<1>2. DOMAIN dir \subseteq Store!Names
  BY <1>1 DEF StoreInv, OneNameEach, Store!FilesAssumption
<1>3. Store!TypeOK
  BY <1>1, <1>2 DEF Store!TypeOK, StoreInv, StoreTypes, StorePlaces, Contents
<1>4. Store!StoredAndListed
  BY DEF Store!StoredAndListed, StoreInv, AloneGetsThrough, Alone
<1>5. QED
  BY <1>3, <1>4 DEF Store!Inv

\* What is complete changes only by a handler that was at work with the one that wrote it.
LEMMA StepKeepsComplete ==
  ASSUME Store!FilesAssumption, StoreInv, [Store!Next]_(Store!vars), NEW n \in DOMAIN dir
  PROVE  /\ n \in DOMAIN dir'
         /\ dir[n] # dir'[n] /\ dir[n] \in Handlers \cup {"old"} =>
              \E g \in Handlers : saving[g] # saving'[g] /\ <<g, dir[n]>> \in overlapped
<1>1. CASE UNCHANGED dir
  BY <1>1 DEF StoreInv
<1>2. CASE \E g \in Handlers, c \in Contents :
             /\ saving[g] \in {"create", "write"} /\ saving'[g] # saving[g]
             /\ dir' = Store!Put(saveAs[g], c)
  BY <1>2 DEF StoreInv, Rights, Store!Put
<1>3. ASSUME NEW g \in Handlers, Store!Create(g), dir' # dir
      PROVE  saving'[g] # saving[g] /\ saving[g] = "create" /\ dir' = Store!Put(saveAs[g], "empty")
  BY <1>3 DEF Store!Create, Store!Goto, StoreInv, StoreTypes
<1>4. ASSUME NEW g \in Handlers, Store!Write(g)
      PROVE  /\ saving'[g] # saving[g] /\ saving[g] = "write"
             /\ \E c \in {g, "mixed", "partial"} : dir' = Store!Put(saveAs[g], c)
  BY <1>4 DEF Store!Write, Store!Goto, StoreInv, StoreTypes
<1>5. CASE \E g \in Handlers : Store!Create(g) \/ Store!Write(g)
  BY <1>1, <1>2, <1>3, <1>4, <1>5 DEF Contents
<1>6. QED
  BY <1>1, <1>5 DEF Store!Next, Store!Handler, Store!WriteFile, Store!Probe, Store!RefreshRead,
                    Store!RefreshPut, Store!vars

\* An upload that was written while no other was at work is in the directory under its own
\* name, whole, and in the listing, whatever was or is written before and after it.
THEOREM UploadsAreStored ==
  ASSUME Store!FilesAssumption
  PROVE  Store!Spec => []Store!Inv
<1>1. Store!Init => StoreInv
  BY StoreStarts
<1>2. StoreInv /\ [Store!Next]_(Store!vars) => StoreInv'
  BY StoreStep
<1>3. StoreInv => Store!Inv
  BY StoreInvEnough
<1>4. QED
  BY <1>1, <1>2, <1>3, PTL DEF Store!Spec

\* A complete file is changed only by a handler that was at work together with the one that
\* wrote it, and an old file by none.
THEOREM CompleteFilesStay ==
  ASSUME Store!FilesAssumption
  PROVE  Store!Spec => Store!CompleteStaysComplete
<1>1. Store!Init => StoreInv
  BY StoreStarts
<1>2. StoreInv /\ [Store!Next]_(Store!vars) => StoreInv'
  BY StoreStep
<1>3. StoreInv /\ [Store!Next]_(Store!vars) =>
        [\A n \in DOMAIN dir :
           /\ n \in DOMAIN dir'
           /\ dir[n] # dir'[n] /\ dir[n] \in Handlers \cup {"old"} =>
                \E g \in Handlers : saving[g] # saving'[g] /\ <<g, dir[n]>> \in overlapped]_(Store!vars)
  BY StepKeepsComplete
<1>4. QED
  BY <1>1, <1>2, <1>3, PTL DEF Store!Spec, Store!CompleteStaysComplete

=============================================================================
