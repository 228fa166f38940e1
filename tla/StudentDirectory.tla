-------------------------- MODULE StudentDirectory --------------------------
(***************************************************************************)
(* Who is logged in to the file server (StudentDirectory.java) and the      *)
(* threads that ask and change it: one session thread per connection        *)
(* (ClientThread.loginOperation) and one thread per broadcast file request  *)
(* (BroadcastThread).                                                       *)
(*                                                                          *)
(* A connection c belongs to the student StudentOf[c] and is used once.     *)
(* pc[c] is what its session thread does next; left holds the connections   *)
(* whose client has logged out, crashed or lost its network.  The check and *)
(* the registration of a login are two steps, because the map is asked      *)
(* before the monitor of registeredStudents is entered.                     *)
(***************************************************************************)
EXTENDS Naturals, Sequences, FiniteSets

CONSTANTS
  Conns,        \* connections, each with its ClientThread
  Students,
  StudentOf,    \* the student that logs in on a connection
  Broadcasts,   \* threads that may broadcast at the same time
  None

ASSUME DirectoryAssumption ==
  /\ StudentOf \in [Conns -> Students]
  /\ None \notin Conns

VARIABLES
  pc,           \* of each session thread
  left,         \* connections whose client is gone
  registered,   \* registeredStudents, in the order of their first login
  online,       \* currentlyOnlineStudents: session of a student, or None
  outLock,      \* is the monitor of a session's output stream held by the session?
  bpc,          \* of each broadcast thread
  target,       \* the session a broadcast thread is about to write to
  seen,         \* students its iteration has passed
  due           \* students online since its iteration began, not yet written to

sessionVars   == <<pc, left, registered, online, outLock>>
broadcastVars == <<bpc, target, seen, due>>
vars == <<pc, left, registered, online, outLock, bpc, target, seen, due>>

SessionLocs == {"new", "check", "register", "welcome", "deny", "serve",
                "locked", "logout", "closed"}

\* A session is live between its registration and its logout.
Live == {"welcome", "serve", "locked", "logout"}

Running == {"next", "write"}

Online(s) == online[s] # None

Goto(c, from, to) == pc[c] = from /\ pc' = [pc EXCEPT ![c] = to]

-----------------------------------------------------------------------------
Init ==
  /\ pc = [c \in Conns |-> "new"]
  /\ left = {}
  /\ registered = <<>>
  /\ online = [s \in Students |-> None]
  /\ outLock = [c \in Conns |-> FALSE]
  /\ bpc = [b \in Broadcasts |-> "idle"]
  /\ target = [b \in Broadcasts |-> None]
  /\ seen = [b \in Broadcasts |-> {}]
  /\ due = [b \in Broadcasts |-> {}]

-----------------------------------------------------------------------------
(* The client *)

\* The client connects and sends its student id.
Connect(c) ==
  /\ Goto(c, "new", "check")
  /\ UNCHANGED <<left, registered, online, outLock, broadcastVars>>

\* The client logs out or is disconnected.
Leave(c) ==
  /\ pc[c] \notin {"new", "closed"}
  /\ c \notin left
  /\ left' = left \cup {c}
  /\ UNCHANGED <<pc, registered, online, outLock, broadcastVars>>

-----------------------------------------------------------------------------
(* The session thread *)

\* addNewStudent: is the student online?  No lock is held.
Check(c) ==
  /\ Goto(c, "check", IF Online(StudentOf[c]) THEN "deny" ELSE "register")
  /\ UNCHANGED <<left, registered, online, outLock, broadcastVars>>

IsRegistered(s) == \E i \in DOMAIN registered : registered[i] = s

\* Mutant: the list of known students is not asked before it is extended.
RegisterAgain(c) ==
  /\ Goto(c, "register", "welcome")
  /\ registered' = Append(registered, StudentOf[c])
  /\ online' = [online EXCEPT ![StudentOf[c]] = c]
  /\ UNCHANGED <<left, outLock, broadcastVars>>

\* addNewStudent inside the monitor of registeredStudents.
Register(c) ==
  /\ Goto(c, "register", "welcome")
  /\ registered' = IF IsRegistered(StudentOf[c]) THEN registered
                   ELSE Append(registered, StudentOf[c])
  /\ online' = [online EXCEPT ![StudentOf[c]] = c]
  /\ UNCHANGED <<left, outLock, broadcastVars>>

\* Mutant: a login whose client has gone is dropped without a logout.
WelcomeDropped(c) ==
  \/ /\ Goto(c, "welcome", "serve")
     /\ UNCHANGED <<left, registered, online, outLock, broadcastVars>>
  \/ /\ c \in left
     /\ Goto(c, "welcome", "closed")
     /\ UNCHANGED <<left, registered, online, outLock, broadcastVars>>

\* A write succeeds as long as the client is there, and may still succeed
\* after it has gone; the exception of a failed one leads to the logout.
Welcome(c) ==
  \/ /\ Goto(c, "welcome", "serve")
     /\ UNCHANGED <<left, registered, online, outLock, broadcastVars>>
  \/ /\ c \in left
     /\ Goto(c, "welcome", "logout")
     /\ UNCHANGED <<left, registered, online, outLock, broadcastVars>>

\* The refusal of a second login ends its session.  When the refusal cannot be
\* written the handler of the exception logs the student out.
Deny(c) ==
  \/ /\ Goto(c, "deny", "closed")
     /\ UNCHANGED <<left, registered, online, outLock, broadcastVars>>
  \/ /\ c \in left
     /\ Goto(c, "deny", "logout")
     /\ UNCHANGED <<left, registered, online, outLock, broadcastVars>>

\* The next operation has been read; the stream's monitor is entered.
Lock(c) ==
  /\ Goto(c, "serve", "locked")
  /\ ~outLock[c]
  /\ outLock' = [outLock EXCEPT ![c] = TRUE]
  /\ UNCHANGED <<left, registered, online, broadcastVars>>

\* Mutant: an error in an operation ends the session without a logout.
AnswerEnds(c) ==
  /\ Goto(c, "locked", "serve") \/ Goto(c, "locked", "closed")
  /\ outLock' = [outLock EXCEPT ![c] = FALSE]
  /\ UNCHANGED <<left, registered, online, broadcastVars>>

\* Every operation that only answers on the session's own stream.  The answer
\* fails when the client is gone or the text is longer than writeUTF allows.
\* (The one null pointer an operation can meet is in UploadBuffer!UploadAbort.)
Answer(c) ==
  /\ Goto(c, "locked", "serve") \/ Goto(c, "locked", "logout")
  /\ outLock' = [outLock EXCEPT ![c] = FALSE]
  /\ UNCHANGED <<left, registered, online, broadcastVars>>

\* Mutant: the broadcast runs before the session gives its stream back.
RequestFileHolding(c) ==
  /\ Goto(c, "locked", "serve")
  /\ \E b \in Broadcasts :
       /\ bpc[b] = "idle"
       /\ bpc' = [bpc EXCEPT ![b] = "start"]
  /\ UNCHANGED <<left, registered, online, outLock, target, seen, due>>

\* requestfile: a thread of its own is started for the broadcast.
RequestFile(c) ==
  /\ Goto(c, "locked", "serve")
  /\ outLock' = [outLock EXCEPT ![c] = FALSE]
  /\ \E b \in Broadcasts :
       /\ bpc[b] = "idle"
       /\ bpc' = [bpc EXCEPT ![b] = "start"]
  /\ UNCHANGED <<left, registered, online, target, seen, due>>

\* readUTF throws once the client has gone.
Detect(c) ==
  /\ c \in left
  /\ Goto(c, "serve", "logout")
  /\ UNCHANGED <<left, registered, online, outLock, broadcastVars>>

\* logoutStudent: removes the student's entry, whatever session it names.
Logout(c) ==
  /\ Goto(c, "logout", "closed")
  /\ online' = [online EXCEPT ![StudentOf[c]] = None]
  /\ due' = [b \in Broadcasts |-> due[b] \ {StudentOf[c]}]
  /\ UNCHANGED <<left, registered, outLock, bpc, target, seen>>

-----------------------------------------------------------------------------
(* The broadcast thread: a weakly consistent iteration over the map *)

BroadcastStart(b) ==
  /\ bpc[b] = "start"
  /\ bpc' = [bpc EXCEPT ![b] = "next"]
  /\ seen' = [seen EXCEPT ![b] = {}]
  /\ due' = [due EXCEPT ![b] = {s \in Students : Online(s)}]
  /\ UNCHANGED <<sessionVars, target>>

BroadcastNext(b) ==
  /\ bpc[b] = "next"
  /\ \E s \in Students \ seen[b] :
       /\ Online(s)
       /\ seen' = [seen EXCEPT ![b] = @ \cup {s}]
       /\ target' = [target EXCEPT ![b] = online[s]]
  /\ bpc' = [bpc EXCEPT ![b] = "write"]
  /\ UNCHANGED <<sessionVars, due>>

\* Mutant: an exception of one write ends the whole broadcast.
BroadcastWriteUncaught(b) ==
  /\ bpc[b] = "write"
  /\ ~outLock[target[b]]
  /\ \/ bpc' = [bpc EXCEPT ![b] = "next"]
     \/ target[b] \in left /\ bpc' = [bpc EXCEPT ![b] = "idle"]
  /\ due' = [due EXCEPT ![b] = @ \ {StudentOf[target[b]]}]
  /\ target' = [target EXCEPT ![b] = None]
  /\ UNCHANGED <<sessionVars, seen>>

\* One message under the monitor of the stream.  If the client is gone the
\* write may fail; its exception is caught and the iteration goes on.
BroadcastWrite(b) ==
  /\ bpc[b] = "write"
  /\ ~outLock[target[b]]
  /\ bpc' = [bpc EXCEPT ![b] = "next"]
  /\ due' = [due EXCEPT ![b] = @ \ {StudentOf[target[b]]}]
  /\ target' = [target EXCEPT ![b] = None]
  /\ UNCHANGED <<sessionVars, seen>>

\* The iteration passes every entry that was there from its beginning on.
BroadcastEnd(b) ==
  /\ bpc[b] = "next"
  /\ due[b] \subseteq seen[b]
  /\ bpc' = [bpc EXCEPT ![b] = "idle"]
  /\ seen' = [seen EXCEPT ![b] = {}]
  /\ UNCHANGED <<sessionVars, target, due>>

-----------------------------------------------------------------------------
Session(c) ==
  \/ Check(c) \/ Register(c) \/ Welcome(c) \/ Deny(c) \/ Answer(c)
  \/ RequestFile(c) \/ Logout(c)

Broadcast(b) ==
  \/ BroadcastStart(b) \/ BroadcastNext(b) \/ BroadcastWrite(b) \/ BroadcastEnd(b)

Next ==
  \/ \E c \in Conns : Connect(c) \/ Leave(c) \/ Lock(c) \/ Detect(c) \/ Session(c)
  \/ \E b \in Broadcasts : Broadcast(b)

Spec == Init /\ [][Next]_vars

\* Every thread of the server goes on when it can.  Lock is a wish of the
\* client, who need not ask for anything; a client's requests do not keep the
\* end of its stream from being read, nor its monitor taken, for ever.
FairSpec ==
  /\ Spec
  /\ \A c \in Conns : WF_vars(Session(c)) /\ SF_vars(Detect(c))
  /\ \A b \in Broadcasts : WF_vars(Broadcast(b)) /\ SF_vars(BroadcastWrite(b))

-----------------------------------------------------------------------------
(* Properties *)

TypeOK ==
  /\ pc \in [Conns -> SessionLocs]
  /\ left \subseteq Conns
  /\ registered \in Seq(Students)
  /\ online \in [Students -> Conns \cup {None}]
  /\ outLock \in [Conns -> BOOLEAN]
  /\ bpc \in [Broadcasts -> {"idle", "start"} \cup Running]
  /\ target \in [Broadcasts -> Conns \cup {None}]
  /\ seen \in [Broadcasts -> SUBSET Students]
  /\ due \in [Broadcasts -> SUBSET Students]

\* A student is in the list of known students once, however many first logins
\* overlapped, and whoever is online is in the list (addNewStudent).
RegisteredOnce ==
  /\ \A i, j \in DOMAIN registered : registered[i] = registered[j] => i = j
  /\ \A s \in Students : Online(s) => IsRegistered(s)

\* The fields of the directory and of its threads agree.
Inv == TypeOK /\ RegisteredOnce

\* The directory never shows a student whose session has ended: the session it
\* names belongs to that student and has still to log out.
NoGhosts ==
  \A s \in Students :
    Online(s) => StudentOf[online[s]] = s /\ pc[online[s]] \in Live

\* When a broadcast is over, every student who was online from its beginning to
\* its end has been written to: an exception at one client, a login or a logout
\* meanwhile makes it pass over nobody.
BroadcastReachesAll == \A b \in Broadcasts : bpc[b] = "idle" => due[b] = {}

\* A session whose client has gone stops counting as online.
GoesOffline ==
  \A c \in Conns :
    c \in left /\ pc[c] \in Live ~> online[StudentOf[c]] # c

\* Every broadcast ends: no chain of monitors blocks it.
BroadcastEnds ==
  \A b \in Broadcasts : bpc[b] = "start" ~> bpc[b] = "idle"

\* Neither waits for ever: the end of a session and the end of a broadcast.
SessionsAndBroadcastsEnd == GoesOffline /\ BroadcastEnds

\* "Just ensure that no student is connected with multiple clients at the same
\* time" (the assignment's rule for logins): never two sessions served for one
\* student.  The code breaks it.
OneClientPerStudent ==
  \A c, d \in Conns :
    /\ c # d /\ StudentOf[c] = StudentOf[d]
    /\ {pc[c], pc[d]} \subseteq {"serve", "locked"}
    => c \in left \/ d \in left

\* A student with a client that is connected and served is shown as online (the
\* assignment's list of students).  The code breaks it.
ServedAreOnline ==
  \A c \in Conns :
    pc[c] \in {"serve", "locked"} /\ c \notin left => Online(StudentOf[c])

=============================================================================
