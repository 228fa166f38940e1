-------------------------------- MODULE Tora --------------------------------
(***************************************************************************)
(* The TORA routing protocol for ns-3 (tora-routing-protocol.cc and .h,      *)
(* tora-height.cc, tora-rqueue.cc): a node asks its neighbours for a route   *)
(* to a destination (QRY), they answer with their heights (UPD), and data    *)
(* goes downhill.  The model follows one destination.                        *)
(*                                                                          *)
(* An operator over a node's record s is one method: it returns the record   *)
(* after the call, the packets it broadcasts in s.out, the data it hands to   *)
(* the link in s.data.  s.ok is false when an NS_ASSERT has failed, and the   *)
(* simulation stops there.  Packets may be lost and overtake each other.      *)
(***************************************************************************)
EXTENDS Integers, Sequences, FiniteSets

CONSTANTS
  Nodes,         \* router ids
  Dest,
  Topologies,    \* the sets of links the nodes may have at first
  Packets,       \* for each topology: the data for Dest
  MaxQueueLen,   \* m_maxQueueLen, 64
  MaxQueueTime,  \* m_maxQueueTime, 30 seconds, in ticks of the clock
  MaxFaults,     \* bound, for each topology: links that come or go, packets lost
  MaxNow         \* bound: the clock

\* A link joins two nodes.
ASSUME ToraAssumption ==
  /\ Nodes \subseteq Nat /\ Dest \in Nodes
  /\ \A t \in Topologies : \A l \in t : \E n, k \in Nodes : n # k /\ l = {n, k}
  /\ MaxFaults \in [Topologies -> Nat]

VARIABLES
  node,          \* the routing state of every node
  net,           \* control packets on the air: [from, to, packet]
  data,          \* data on the air: [packet, from, to]; Lo is the loopback of from
  unsent,        \* data no application has sent yet
  links, now,
  left, calm,    \* the faults that may still come; history: there was none yet
  zeroId         \* whom the first call of GetZeroHeight() named

world == <<links, zeroId>>
faults == <<left, calm>>
vars == <<node, net, data, unsent, faults, now, world>>

-----------------------------------------------------------------------------
(* Height: tao, oid, delta, i.  The flag r is 0 in every height the code sends: the  *)
(* method that sets it is never called.                                             *)

\* The heights of GetNullHeight() and GetZeroHeight() are static: each keeps the id of the
\* first call, whoever asks.
Null == <<-1, 0, 0, 0>>
Zero == <<0, 0, 0, zeroId>>

Below(h, g) ==   \* operator<
  h # Null /\ \/ g = Null
              \/ \E k \in 1 .. 4 : h[k] < g[k] /\ \A j \in 1 .. k - 1 : h[j] = g[j]

Lowest(H) == CHOOSE h \in H : \A g \in H : ~Below(g, h)

NeighbourHeight(s, k) == IF k = Dest THEN Zero ELSE s.hn[k]

-----------------------------------------------------------------------------
(* The link states.  upE and dnE: there is an entry for Dest in m_UPLinks and m_DNLinks, *)
(* be it an empty set.                                                                  *)

SetDownLink(s, k) ==
  [s EXCEPT !.dn = @ \cup {k}, !.up = @ \ {k}, !.dnE = TRUE, !.upE = TRUE,
            !.ok = @ /\ (s.h = Null \/ Below(NeighbourHeight(s, k), s.h))]

SetUpLink(s, k) ==
  [s EXCEPT !.up = @ \cup {k}, !.dn = @ \ {k}, !.dnE = TRUE, !.upE = TRUE,
            !.ok = @ /\ Below(s.h, NeighbourHeight(s, k))]

\* Mutant: the neighbour's height is not compared.
ForceDown(s, k) == SetDownLink(s, k)

UpdateUpDownLinkForce(s, k) ==
  LET t == [s EXCEPT !.dn = @ \ {k}, !.up = @ \ {k},
                     !.dnE = @ /\ s.dn # {k}, !.upE = @ /\ s.up # {k}] IN
  IF Below(t.h, NeighbourHeight(t, k)) THEN SetUpLink(t, k) ELSE SetDownLink(t, k)

UpdateUpDownLinks(s) ==
  LET down == {k \in s.up : Below(NeighbourHeight(s, k), s.h) \/ s.h = Null}
      dn == s.dn \cup down
      up == {k \in dn : Below(s.h, NeighbourHeight(s, k))} IN
  [s EXCEPT !.dn = dn \ up, !.up = (@ \ down) \cup up,
            !.dnE = @ \/ down # {}, !.upE = @ \/ up # {}]

-----------------------------------------------------------------------------
(* RequestQueue: the data that waits for a route, with the time it waits until at most *)

\* An entry as Enqueue() leaves it; header and callbacks are the packet's.
QueueEntry(p) == [packet |-> p, expire |-> now + MaxQueueTime]

IsExpired(e) == e.expire - now < 0

\* What is too old leaves the queue, and its sender is told.
Purge(s) == [s EXCEPT !.queue = SelectSeq(@, LAMBDA e : ~IsExpired(e))]

\* The queue as every operation on it sees it first.
RequestQueue(s) == Purge(s).queue

\* All that Dequeue() gives out until it finds nothing.
Dequeued(s) == LET q == RequestQueue(s) IN {q[i].packet : i \in DOMAIN q}

IsQueued(s, p) == \E i \in DOMAIN s.queue : s.queue[i].packet = p

\* Mutant: the queue is not purged before its length is looked at.
EnqueueUnpurged(s, p) == [s EXCEPT !.queue = Append(@, QueueEntry(p))]

\* A packet that waits already does not wait twice; of a full queue the oldest is dropped.
Enqueue(s, p) ==
  LET q == RequestQueue(s) IN
  [s EXCEPT !.queue =
     IF IsQueued(Purge(s), p) THEN q
     ELSE Append(IF Len(q) = MaxQueueLen THEN Tail(q) ELSE q, QueueEntry(p))]

-----------------------------------------------------------------------------
(* Sending *)

Qry == <<"QRY">>
Upd(h) == <<"UPD", h>>

SendQry(s) == [s EXCEPT !.out = @ \cup {Qry}]
SendUpd(s) == [s EXCEPT !.out = @ \cup {Upd(s.h)}, !.sent = now]

Lo == -1

\* The first of the down links; of an empty set, no node at all.
NextHop(s) == IF s.dn = {} THEN 0 ELSE CHOOSE k \in s.dn : \A j \in s.dn : k <= j

SendPacketFromQueue(s) ==
  [s EXCEPT !.data = @ \cup {<<p, NextHop(s)>> : p \in Dequeued(s)}, !.queue = <<>>]

SetHeightAndTell(s, h) == SendUpd(UpdateUpDownLinks([s EXCEPT !.h = h]))

\* One more than the lowest of the neighbours' heights.
GetMinNonNullNeighbourHeight(s) == Lowest({s.hn[k] : k \in Nodes})

Climb(s, n) ==
  LET h == GetMinNonNullNeighbourHeight(s) IN
  [s EXCEPT !.h = <<h[1], h[2], h[3] + 1, n>>, !.ok = @ /\ h # Null]

-----------------------------------------------------------------------------
(* Neighbours: hello packets, and the timer that counts them *)

NotifyNeighbourUp(s, n, k) ==
  LET t == [s EXCEPT !.nbr = @ \cup {k}, !.active[k] = now]
      d == IF k = Dest
           THEN SetDownLink([t EXCEPT !.hn[k] = Zero, !.h = <<0, 0, 1, n>>], k)
           ELSE t
      q == IF s.req THEN SendQry(d) ELSE d IN
  IF k = Dest /\ s.req THEN SendUpd(SendPacketFromQueue(q)) ELSE q

ProcessHello(s, n, k) == IF k \in s.nbr THEN s ELSE NotifyNeighbourUp(s, n, k)

\* The loops run over copies of the sets: a neighbour leaves a set only as the last one
\* in it.  An entry of m_UPLinks counts as an upstream link, empty or not.
RemoveUpDownLink(s, n, k) ==
  LET u == IF k \notin s.up THEN s
           ELSE [s EXCEPT !.hn[k] = Null, !.up = IF @ = {k} THEN {} ELSE @,
                          !.upE = @ /\ s.up # {k}]
      d == [u EXCEPT !.hn[k] = Null, !.dn = {}, !.dnE = FALSE] IN
  IF s.dn # {k} THEN u
  ELSE IF u.upE THEN SetHeightAndTell(d, <<now, n, 0, zeroId>>)
  ELSE [d EXCEPT !.h = Null]

NotifyNeighbourDown(s, n, k) == RemoveUpDownLink([s EXCEPT !.nbr = @ \ {k}], n, k)

-----------------------------------------------------------------------------
(* RecvTora() *)

\* Mutant: a node without a route does not pass the query on.
QryDiscarded(s, n, k) ==
  LET t == ProcessHello(s, n, k) IN
  IF t.req \/ t.dn = {} \/ t.h = Null THEN t
  ELSE IF t.active[k] > t.sent THEN SendUpd(t) ELSE t

ProcessQry(s, n, k) ==
  LET t == ProcessHello(s, n, k) IN
  IF t.req THEN t
  ELSE IF t.dn = {} THEN SendQry([t EXCEPT !.req = TRUE])
  ELSE IF t.h = Null THEN SendUpd(UpdateUpDownLinks(Climb(t, n)))
  ELSE IF t.active[k] > t.sent THEN SendUpd(t) ELSE t

\* The sender is whom the height names.
ProcessUpd(s, n, h) ==
  LET k == h[4]
      t == ProcessHello(s, n, k)
      m == [t EXCEPT !.hn[k] = h]
      c == UpdateUpDownLinkForce(UpdateUpDownLinks(Climb([m EXCEPT !.ok = @ /\ t.h = Null], n)), k)
      r == [SendUpd(c) EXCEPT !.req = FALSE] IN
  IF n = Dest THEN t
  ELSE IF t.req THEN SendPacketFromQueue([r EXCEPT !.ok = @ /\ r.dnE])
  ELSE UpdateUpDownLinkForce(m, k)

-----------------------------------------------------------------------------
(* RouteOutput(), Forwarding(), DeferredRouteOutput(): data for Dest *)

\* Mutant: a packet waits and nobody is asked.
DeferredQuietly(s, p) ==
  IF s.dn # {} THEN SendPacketFromQueue(Enqueue(s, p)) ELSE Enqueue(s, p)

DeferredRouteOutput(s, p) ==
  LET t == Enqueue(s, p) IN
  IF IsQueued(Purge(s), p) THEN t
  ELSE IF t.dn # {} THEN SendPacketFromQueue(t)
  ELSE IF t.req THEN t
  ELSE SendQry([t EXCEPT !.req = TRUE])

\* GetRoute() looks for the entry of m_DNLinks, not for a link in it.
RouteOutput(s, p) ==
  [s EXCEPT !.data = @ \cup {<<p, IF s.dnE THEN NextHop(s) ELSE Lo>>}]

\* A packet of its own that has come back is dropped.
RouteInput(s, n, p) ==
  IF p[2] = n THEN s ELSE IF s.dnE THEN RouteOutput(s, p) ELSE DeferredRouteOutput(s, p)

-----------------------------------------------------------------------------
InRange(n, k) == {n, k} \in links

Fresh(n) ==
  LET near == InRange(n, Dest) IN
  [nbr |-> {k \in Nodes : InRange(n, k)}, active |-> [k \in Nodes |-> 0],
   h |-> IF n = Dest THEN Zero ELSE IF near THEN <<0, 0, 1, n>> ELSE Null,
   hn |-> [k \in Nodes |-> IF k = Dest /\ near THEN Zero ELSE Null],
   up |-> {}, dn |-> IF near THEN {Dest} ELSE {}, upE |-> near, dnE |-> near,
   req |-> FALSE, sent |-> -1, queue |-> <<>>, out |-> {}, data |-> {}, ok |-> TRUE]

\* Every node has heard the first hello packets of the others in range.
Init ==
  /\ links \in Topologies /\ zeroId \in Nodes
  /\ node = [n \in Nodes |-> Fresh(n)]
  /\ net = {} /\ data = {} /\ unsent = Packets[links]
  /\ left = MaxFaults[links] /\ calm = TRUE /\ now = 1

Running == \A n \in Nodes : node[n].ok

\* Node n is now as s; what it broadcasts goes to those in range.
Becomes(n, s, air, traffic) ==
  /\ Running
  /\ node' = [node EXCEPT ![n] = [s EXCEPT !.out = {}, !.data = {}]]
  /\ net' = air \cup {<<n, k, m>> : k \in {k \in Nodes : InRange(n, k)}, m \in s.out}
  /\ data' = traffic \cup {<<d[1], n, d[2]>> : d \in s.data}
  /\ UNCHANGED <<now, world>>

Hello(n, k) ==
  /\ InRange(n, k) /\ k \notin node[n].nbr
  /\ Becomes(n, ProcessHello(node[n], n, k), net, data)
  /\ UNCHANGED <<unsent, faults>>

HelloRecvTimerExpire(n, k) ==
  /\ k \in node[n].nbr /\ ~InRange(n, k)
  /\ Becomes(n, NotifyNeighbourDown(node[n], n, k), net, data)
  /\ UNCHANGED <<unsent, faults>>

RecvQry(m) ==
  /\ m[3] = Qry
  /\ Becomes(m[2], ProcessQry(node[m[2]], m[2], m[1]), net \ {m}, data)
  /\ UNCHANGED <<unsent, faults>>

RecvUpd(m) ==
  /\ m[3] # Qry
  /\ Becomes(m[2], ProcessUpd(node[m[2]], m[2], m[3][2]), net \ {m}, data)
  /\ UNCHANGED <<unsent, faults>>

Send(n, p) ==
  /\ n # Dest /\ unsent' = unsent \ {p}
  /\ Becomes(n, RouteOutput(node[n], <<p, n>>), net, data)
  /\ UNCHANGED faults

Loopback(d) ==
  /\ d[3] = Lo
  /\ Becomes(d[2], DeferredRouteOutput(node[d[2]], d[1]), net, data \ {d})
  /\ UNCHANGED <<unsent, faults>>

\* The next hop forwards the data.
Forward(d) ==
  /\ d[3] \in Nodes \ {Dest} /\ InRange(d[2], d[3])
  /\ Becomes(d[3], RouteInput(node[d[3]], d[3], d[1]), net, data \ {d})
  /\ UNCHANGED <<unsent, faults>>

\* The data is at its destination, or the next hop is out of range, or none at all.
Gone(d) ==
  /\ Running /\ d[3] # Lo /\ (d[3] = Dest \/ ~InRange(d[2], d[3]))
  /\ data' = data \ {d}
  /\ UNCHANGED <<node, net, unsent, faults, now, world>>

Faulty ==
  Running /\ left > 0 /\ left' = left - 1 /\ calm' = FALSE /\ UNCHANGED <<unsent, now, zeroId>>

Lose(m) == Faulty /\ net' = net \ {m} /\ UNCHANGED <<node, data, links>>

Move(n, k) ==
  /\ Faulty
  /\ links' = IF InRange(n, k) THEN links \ {{n, k}} ELSE links \cup {{n, k}}
  /\ UNCHANGED <<node, net, data>>

Tick ==
  Running /\ now < MaxNow /\ now' = now + 1 /\ UNCHANGED <<node, net, data, unsent, faults, world>>

Receive == \E m \in net : RecvQry(m) \/ RecvUpd(m)
Carry == \E d \in data : Loopback(d) \/ Forward(d)

Next ==
  \/ Receive \/ Carry \/ Tick
  \/ \E n, k \in Nodes : Hello(n, k) \/ HelloRecvTimerExpire(n, k) \/ (n < k /\ Move(n, k))
  \/ \E n \in Nodes, p \in unsent : Send(n, p)
  \/ \E d \in data : Gone(d)
  \/ \E m \in net : Lose(m)

Spec == Init /\ [][Next]_vars

\* What is on the air is received, and goes on.  This is WF_vars(Receive) and WF_vars(Carry)
\* with their ENABLED written out.
FairSpec ==
  /\ Spec
  /\ []<>(net = {} \/ ~Running) \/ []<><<Receive>>_vars
  /\ []<>(~Running \/ \A d \in data : d[3] # Lo /\ (d[3] = Dest \/ ~InRange(d[2], d[3])))
       \/ []<><<Carry>>_vars
-----------------------------------------------------------------------------
(* Properties *)

TypeOK ==
  /\ \A n \in Nodes : LET s == node[n] IN
       /\ s.nbr \subseteq Nodes /\ s.up \subseteq Nodes /\ s.dn \subseteq Nodes \ s.up
       /\ s.sent \in -1 .. MaxNow /\ s.out = {} /\ s.data = {}
       /\ s.up # {} => s.upE
       /\ s.dn # {} => s.dnE
  /\ links \subseteq SUBSET Nodes /\ left \in Nat /\ calm \in BOOLEAN

\* A node with packets that wait for a route has asked for one: no packet is forgotten.
Asked == \A n \in Nodes : node[n].queue # <<>> => node[n].req

\* The packets that wait are as many as may, in the order they came, each once.
QueuesRight == \A n \in Nodes : LET q == node[n].queue IN
  /\ Len(q) <= MaxQueueLen
  /\ \A i, j \in DOMAIN q : i < j => q[i].expire <= q[j].expire /\ q[i].packet # q[j].packet

Inv == TypeOK /\ Asked /\ QueuesRight

\* As long as no link has come or gone, the down links lead downhill to Dest, whatever
\* the order of the packets: a packet does not come back to a node.
Level(n) == node[n].h
NoLoop == calm => \A n \in Nodes \ {Dest} : \A k \in node[n].dn :
  /\ k \in node[n].nbr
  /\ k # Dest => Level(k) # Null /\ Below(Level(k), Level(n))

Connected(n) == \A S \in SUBSET Nodes :
  Dest \in S /\ (\A l \in links : l \cap S # {} => l \subseteq S) => n \in S

\* A node that asks for a route gets one and its packets leave, if there is a way to Dest
\* and nothing fails.
RouteFound == \A n \in Nodes \ {Dest} :
  node[n].req /\ Connected(n) ~> (node[n].dn # {} /\ node[n].queue = <<>>) \/ ~calm

\* "If the receiving node has no downstream links and the route-required flag is set, it
\* discards the QRY packet": with a route it does not (tora-routing-protocol.cc).
FlagWithoutRoute == \A n \in Nodes : node[n].req => node[n].dn = {}

\* A next hop is a node whose hello packets have been heard lately.
RouteIsNeighbour == \A n \in Nodes : node[n].dn \subseteq node[n].nbr

\* An assertion of the code never fails.
AssertionsHold == Running
=============================================================================
