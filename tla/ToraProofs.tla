----------------------------- MODULE ToraProofs -----------------------------
(***************************************************************************)
(* Proofs about Tora: as long as no link has come or gone and no packet was *)
(* lost, the routes have no loop, for any number of nodes, any links        *)
(* between them, any amount of data and any order of the packets.           *)
(***************************************************************************)
EXTENDS Tora, WellFoundedInduction, TLAPS

-----------------------------------------------------------------------------
(* Heights *)

\* A height of node k while nothing has failed; d grows with the way to Dest.
At(d, k) == <<0, 0, d, k>>

\* A set of numbers has a least one.
LEMMA LeastNumber ==
  ASSUME NEW T \in SUBSET Nat, T # {}
  PROVE  \E x \in T : \A y \in T : x <= y
<1>1. PICK x \in T : \A y \in T : ~(<<y, x>> \in OpToRel(<, Nat))
  BY NatLessThanWellFounded, WFMin, ZenonT(60)
<1>2. \A y \in T : ~(y < x)
  BY <1>1 DEF OpToRel
<1>. QED
  BY <1>2

\* The nearer is lower, and of two that are equally near the one with the smaller id.
LEMMA BelowAt ==
  ASSUME NEW d \in Nat, NEW e \in Nat, NEW i \in Nat, NEW j \in Nat
  PROVE  Below(At(d, i), At(e, j)) <=> d < e \/ (d = e /\ i < j)
<1>1. At(d, i) # Null /\ At(e, j) # Null
  BY DEF At, Null
<1>2. /\ At(d, i)[1] = 0 /\ At(d, i)[2] = 0 /\ At(d, i)[3] = d /\ At(d, i)[4] = i
      /\ At(e, j)[1] = 0 /\ At(e, j)[2] = 0 /\ At(e, j)[3] = e /\ At(e, j)[4] = j
  BY DEF At
<1>3. ASSUME d < e PROVE Below(At(d, i), At(e, j))
  <2>1. At(d, i)[3] < At(e, j)[3] /\ \A l \in 1 .. 3 - 1 : At(d, i)[l] = At(e, j)[l]
    BY <1>2, <1>3
  <2>. QED
    BY <1>1, <2>1 DEF Below
<1>4. ASSUME d = e, i < j PROVE Below(At(d, i), At(e, j))
  <2>1. At(d, i)[4] < At(e, j)[4] /\ \A l \in 1 .. 4 - 1 : At(d, i)[l] = At(e, j)[l]
    BY <1>2, <1>4
  <2>. QED
    BY <1>1, <2>1 DEF Below
<1>5. ASSUME Below(At(d, i), At(e, j)) PROVE d < e \/ (d = e /\ i < j)
  <2>1. PICK m \in 1 .. 4 : /\ At(d, i)[m] < At(e, j)[m]
                            /\ \A l \in 1 .. m - 1 : At(d, i)[l] = At(e, j)[l]
    BY <1>1, <1>5 DEF Below
  <2>2. m = 3 \/ m = 4
    BY <1>2, <2>1
  <2>3. CASE m = 3
    BY <1>2, <2>1, <2>3
  <2>4. CASE m = 4
    <3>1. At(d, i)[3] = At(e, j)[3]
      BY <2>1, <2>4
    <3>. QED
      BY <1>2, <2>1, <2>4, <3>1
  <2>. QED
    BY <2>2, <2>3, <2>4
<1>. QED
  BY <1>3, <1>4, <1>5

LEMMA BelowNull ==
  ASSUME NEW h
  PROVE  ~Below(Null, h) /\ (h # Null => Below(h, Null))
BY DEF Below

LEMMA AtNotNull == \A d, k : At(d, k) # Null
BY DEF At, Null

\* Among heights of which one is not null there is a lowest one, and it is not null.
LEMMA LowestOf ==
  ASSUME NEW H, NEW h0 \in H, h0 # Null,
         \A h \in H : h = Null \/ \E d \in Nat, k \in Nat : h = At(d, k)
  PROVE  /\ Lowest(H) \in H /\ Lowest(H) # Null
         /\ \A g \in H : ~Below(g, Lowest(H))
<1> DEFINE D == {d \in Nat : \E k \in Nat : At(d, k) \in H}
<1>1. D # {}
  BY AtNotNull
<1>2. PICK d \in D : \A e \in D : d <= e
  BY <1>1, LeastNumber, Zenon
<1> DEFINE K == {k \in Nat : At(d, k) \in H}
<1>3. K # {}
  BY <1>2
<1>4. PICK k \in K : \A j \in K : k <= j
  <2>1. K \in SUBSET Nat
    OBVIOUS
  <2>. QED
    BY <1>3, <2>1, LeastNumber, Zenon
<1>5. ASSUME NEW g \in H PROVE ~Below(g, At(d, k))
  <2>1. CASE g = Null
    BY <2>1, BelowNull
  <2>2. CASE g # Null
    <3>1. PICK e \in Nat, j \in Nat : g = At(e, j)
      BY <2>2
    <3>2. e \in D /\ d <= e
      BY <1>2, <3>1
    <3>3. e = d => k <= j
      BY <1>4, <3>1
    <3>4. d \in Nat /\ k \in Nat /\ ~(e < d \/ (e = d /\ j < k))
      BY <3>2, <3>3
    <3>. QED
      BY <3>1, <3>4, BelowAt, Zenon
  <2>. QED
    BY <2>1, <2>2
<1>6. At(d, k) \in H
  BY <1>4
<1>7. Lowest(H) \in H /\ \A g \in H : ~Below(g, Lowest(H))
  BY <1>5, <1>6, Zenon DEF Lowest
<1>8. Lowest(H) # Null
  BY <1>7, BelowNull
<1>. QED
  BY <1>7, <1>8
-----------------------------------------------------------------------------
(* The record of a node, and what the methods do to the part of it that is about routes *)

Fields == {"nbr", "active", "h", "hn", "up", "dn", "upE", "dnE", "req", "sent", "queue",
           "out", "data", "ok"}

IsNode(s) == s = [f \in Fields |-> s[f]] /\ s.hn = [k \in Nodes |-> s.hn[k]]

\* t has the neighbours, the height and the links of s.
SameRoutes(s, t) ==
  /\ IsNode(t)
  /\ t.nbr = s.nbr /\ t.h = s.h /\ t.hn = s.hn /\ t.up = s.up /\ t.dn = s.dn

\* t differs from s in its links, as far as routes go.
SameButLinks(s, t) ==
  IsNode(t) /\ t.nbr = s.nbr /\ t.h = s.h /\ t.hn = s.hn /\ t.req = s.req /\ t.out = s.out

\* SetDownLink() and SetUpLink() move one link.
LEMMA SettingLinks ==
  ASSUME NEW s, NEW k, IsNode(s)
  PROVE  /\ SameButLinks(s, SetDownLink(s, k))
         /\ SetDownLink(s, k).dn = s.dn \cup {k} /\ SetDownLink(s, k).up = s.up \ {k}
         /\ SameButLinks(s, SetUpLink(s, k))
         /\ SetUpLink(s, k).up = s.up \cup {k} /\ SetUpLink(s, k).dn = s.dn \ {k}
BY DEF IsNode, SameButLinks, SetDownLink, SetUpLink, Fields

\* UpdateUpDownLinkForce() moves it to the side on which the heights put it.
LEMMA ForcingLink ==
  ASSUME NEW s, NEW k, IsNode(s)
  PROVE  LET t == UpdateUpDownLinkForce(s, k) IN
         /\ SameButLinks(s, t)
         /\ IF Below(s.h, NeighbourHeight(s, k))
            THEN t.up = s.up \cup {k} /\ t.dn = s.dn \ {k}
            ELSE t.dn = s.dn \cup {k} /\ t.up = s.up \ {k}
<1> DEFINE c == [s EXCEPT !.dn = @ \ {k}, !.up = @ \ {k},
                          !.dnE = @ /\ s.dn # {k}, !.upE = @ /\ s.up # {k}]
<1>1. /\ IsNode(c) /\ SameButLinks(s, c) /\ c.dn = s.dn \ {k} /\ c.up = s.up \ {k}
  BY DEF IsNode, SameButLinks, Fields
<1>2. NeighbourHeight(c, k) = NeighbourHeight(s, k) /\ c.h = s.h
  BY <1>1 DEF NeighbourHeight, SameButLinks
<1>3. UpdateUpDownLinkForce(s, k) = IF Below(c.h, NeighbourHeight(c, k))
                                    THEN SetUpLink(c, k) ELSE SetDownLink(c, k)
  BY DEF UpdateUpDownLinkForce
<1> HIDE DEF c
<1>4. CASE Below(s.h, NeighbourHeight(s, k))
  <2>1. UpdateUpDownLinkForce(s, k) = SetUpLink(c, k)
    BY <1>2, <1>3, <1>4
  <2>2. /\ SameButLinks(c, SetUpLink(c, k)) /\ SetUpLink(c, k).up = c.up \cup {k}
        /\ SetUpLink(c, k).dn = c.dn \ {k}
    BY <1>1, SettingLinks
  <2>. QED
    BY <1>1, <1>4, <2>1, <2>2 DEF SameButLinks
<1>5. CASE ~Below(s.h, NeighbourHeight(s, k))
  <2>1. UpdateUpDownLinkForce(s, k) = SetDownLink(c, k)
    BY <1>2, <1>3, <1>5
  <2>2. /\ SameButLinks(c, SetDownLink(c, k)) /\ SetDownLink(c, k).dn = c.dn \cup {k}
        /\ SetDownLink(c, k).up = c.up \ {k}
    BY <1>1, SettingLinks
  <2>. QED
    BY <1>1, <1>5, <2>1, <2>2 DEF SameButLinks
<1>. QED
  BY <1>4, <1>5

\* Without upstream links, UpdateUpDownLinks() turns the links to higher nodes around.
LEMMA UpdatingLinks ==
  ASSUME NEW s, IsNode(s), s.up = {}
  PROVE  LET t == UpdateUpDownLinks(s)
             up == {k \in s.dn : Below(s.h, NeighbourHeight(s, k))} IN
         SameButLinks(s, t) /\ t.up = up /\ t.dn = s.dn \ up
<1> DEFINE down == {k \in s.up : Below(NeighbourHeight(s, k), s.h) \/ s.h = Null}
           dn == s.dn \cup down
           up == {k \in dn : Below(s.h, NeighbourHeight(s, k))}
<1>1. down = {} /\ dn = s.dn
  OBVIOUS
<1>2. UpdateUpDownLinks(s) =
        [s EXCEPT !.dn = dn \ up, !.up = (@ \ down) \cup up,
                  !.dnE = @ \/ down # {}, !.upE = @ \/ up # {}]
  BY DEF UpdateUpDownLinks
<1>3. up = {k \in s.dn : Below(s.h, NeighbourHeight(s, k))}
  BY <1>1
<1> HIDE DEF up, dn, down
<1>4. LET t == UpdateUpDownLinks(s) IN
      SameButLinks(s, t) /\ t.up = (s.up \ down) \cup up /\ t.dn = dn \ up
  BY <1>2 DEF IsNode, SameButLinks, Fields
<1>. QED
  BY <1>1, <1>3, <1>4

LEMMA Sending ==
  ASSUME NEW s, IsNode(s)
  PROVE  /\ SameRoutes(s, SendUpd(s)) /\ SendUpd(s).req = s.req
         /\ SendUpd(s).out = s.out \cup {Upd(s.h)}
         /\ SameRoutes(s, SendQry(s)) /\ SendQry(s).req = s.req
         /\ SendQry(s).out = s.out \cup {Qry}
         /\ SameRoutes(s, SendPacketFromQueue(s)) /\ SendPacketFromQueue(s).req = s.req
         /\ SendPacketFromQueue(s).out = s.out
BY DEF IsNode, SameRoutes, SendUpd, SendQry, SendPacketFromQueue, Fields

LEMMA Flagging ==
  ASSUME NEW s, IsNode(s), NEW q, NEW t, t = [s EXCEPT !.req = q]
  PROVE  SameRoutes(s, t) /\ t.req = q /\ t.out = s.out
BY DEF IsNode, SameRoutes, Fields

LEMMA Storing ==
  ASSUME NEW s, IsNode(s), NEW q, NEW t,
         t \in {[s EXCEPT !.queue = q], [s EXCEPT !.data = q], [s EXCEPT !.ok = q]}
  PROVE  SameRoutes(s, t) /\ t.req = s.req /\ t.out = s.out
BY DEF IsNode, SameRoutes, Fields

LEMMA Flushed ==
  ASSUME NEW s, IsNode(s)
  PROVE  LET x == [s EXCEPT !.out = {}, !.data = {}] IN
         SameRoutes(s, x) /\ x.req = s.req /\ x.out = {}
BY DEF IsNode, SameRoutes, Fields

LEMMA Climbing ==
  ASSUME NEW s, NEW n, IsNode(s)
  PROVE  LET low == Lowest({s.hn[k] : k \in Nodes})
             t == Climb(s, n) IN
         /\ IsNode(t) /\ t.h = <<low[1], low[2], low[3] + 1, n>>
         /\ t.nbr = s.nbr /\ t.hn = s.hn /\ t.up = s.up /\ t.dn = s.dn
         /\ t.req = s.req /\ t.out = s.out
BY DEF IsNode, Climb, GetMinNonNullNeighbourHeight, Fields

\* A call that hands data on, or keeps it for later, changes no route; when it asks for
\* a route, there is none.
KeepsRoutes(s, t) ==
  /\ SameRoutes(s, t)
  /\ t.req = s.req \/ s.dn = {}
  /\ t.out \subseteq s.out \cup {Qry}

LEMMA Deferring ==
  ASSUME NEW s, NEW p, IsNode(s)
  PROVE  KeepsRoutes(s, DeferredRouteOutput(s, p))
<1> DEFINE t == Enqueue(s, p)
<1>1. PICK q : t = [s EXCEPT !.queue = q]
  BY DEF Enqueue
<1>2. SameRoutes(s, t) /\ t.req = s.req /\ t.out = s.out
  BY <1>1, Storing
<1>3. IsNode(t)
  BY <1>2 DEF SameRoutes
<1> HIDE DEF t
<1>4. /\ SameRoutes(t, SendPacketFromQueue(t)) /\ SendPacketFromQueue(t).req = t.req
      /\ SendPacketFromQueue(t).out = t.out
  BY <1>3, Sending
<1> DEFINE r == [t EXCEPT !.req = TRUE]
<1>5. SameRoutes(t, r) /\ r.out = t.out
  BY <1>3, Flagging
<1>6. IsNode(r)
  BY <1>5 DEF SameRoutes
<1> HIDE DEF r
<1>7. SameRoutes(r, SendQry(r)) /\ SendQry(r).out = r.out \cup {Qry}
  BY <1>6, Sending
<1>8. \/ DeferredRouteOutput(s, p) = t
      \/ DeferredRouteOutput(s, p) = SendPacketFromQueue(t)
      \/ (t.dn = {} /\ DeferredRouteOutput(s, p) = SendQry(r))
  BY DEF DeferredRouteOutput, t, r
<1>9. KeepsRoutes(s, t)
  BY <1>2 DEF KeepsRoutes
<1>10. KeepsRoutes(s, SendPacketFromQueue(t))
  BY <1>2, <1>4 DEF KeepsRoutes, SameRoutes
<1>11. t.dn = {} => KeepsRoutes(s, SendQry(r))
  BY <1>2, <1>5, <1>7 DEF KeepsRoutes, SameRoutes
<1>. QED
  BY <1>8, <1>9, <1>10, <1>11

LEMMA Routing ==
  ASSUME NEW s, NEW n, NEW p, IsNode(s)
  PROVE  KeepsRoutes(s, RouteOutput(s, p)) /\ KeepsRoutes(s, RouteInput(s, n, p))
<1>1. PICK q : RouteOutput(s, p) = [s EXCEPT !.data = q]
  BY DEF RouteOutput
<1>2. KeepsRoutes(s, RouteOutput(s, p))
  BY <1>1, Storing DEF KeepsRoutes
<1>3. KeepsRoutes(s, s)
  BY DEF KeepsRoutes, SameRoutes
<1>4. RouteInput(s, n, p) \in {s, RouteOutput(s, p), DeferredRouteOutput(s, p)}
  BY DEF RouteInput
<1>. QED
  BY <1>2, <1>3, <1>4, Deferring
-----------------------------------------------------------------------------
(* The inductive invariant: what holds of the routes as long as nothing has failed *)

HeightOf(n, h) == \E d \in Nat : h = At(d, n)

\* Node n, with record s, has links to its neighbours only, and one down to Dest if
\* that is a neighbour.
NearBy(n, s) ==
  /\ s.nbr = {k \in Nodes : InRange(n, k)}
  /\ s.dn \subseteq s.nbr /\ s.up \subseteq s.nbr
  /\ InRange(n, Dest) => Dest \in s.dn

\* It has a link to those whose height it knows, and what it knows of a height is true:
\* a height never changes once there is one.
Learned(n, s) == \A k \in Nodes :
  /\ s.hn[k] # Null <=> k \in s.dn \cup s.up
  /\ s.hn[k] # Null => s.hn[k] = IF k = Dest THEN Zero ELSE node[k].h

\* With a height it has a link down, and every link down leads to one that is lower.
Slopes(n, s) ==
  /\ s.req => s.dn = {}
  /\ InRange(n, Dest) => s.h # Null
  /\ s.h = Null => s.up = {}
  /\ s.h # Null => /\ HeightOf(n, s.h) /\ s.dn # {}
                   /\ \A k \in s.dn : Below(NeighbourHeight(s, k), s.h)

AtTheEnd(s) == s.h = Zero /\ s.dn = {} /\ s.up = {}

Rooted(n, s) ==
  /\ IsNode(s) /\ NearBy(n, s) /\ Learned(n, s)
  /\ IF n = Dest THEN AtTheEnd(s) ELSE Slopes(n, s)

\* What is on the air is a query, or the height of the node it comes from.
TrueNews(m) ==
  /\ InRange(m[1], m[2])
  /\ \/ m[3] = Qry
     \/ m[1] # Dest /\ node[m[1]].h # Null /\ m[3] = Upd(node[m[1]].h)

CalmState ==
  /\ links \in Topologies /\ zeroId \in Nodes
  /\ node = [n \in Nodes |-> node[n]]
  /\ \A n \in Nodes : Rooted(n, node[n]) /\ node[n].out = {}
  /\ \A m \in net : TrueNews(m)

RoutesInv == calm => CalmState

-----------------------------------------------------------------------------
\* A link joins two different nodes, either way.
LEMMA LinksJoinTwo ==
  ASSUME links \in Topologies, NEW n, NEW k, InRange(n, k)
  PROVE  n \in Nodes /\ k \in Nodes /\ n # k /\ InRange(k, n)
<1>1. PICK a \in Nodes, b \in Nodes : a # b /\ {n, k} = {a, b}
  BY ToraAssumption DEF InRange
<1>2. {k, n} = {n, k}
  OBVIOUS
<1>. QED
  BY <1>1, <1>2 DEF InRange

LEMMA ZeroHeight ==
  ASSUME zeroId \in Nodes
  PROVE  Zero = At(0, zeroId) /\ Zero # Null
BY ToraAssumption, AtNotNull DEF Zero, At

\* A height that a node other than Dest is known by is its own.
LEMMA HeightsKnown ==
  ASSUME CalmState, NEW s, NEW n, Learned(n, s), NEW k \in Nodes \ {Dest}, s.hn[k] # Null
  PROVE  HeightOf(k, s.hn[k]) /\ s.hn[k] = node[k].h
<1>1. s.hn[k] = node[k].h
  BY DEF Learned
<1>2. Rooted(k, node[k])
  BY DEF CalmState
<1>. QED
  BY <1>1, <1>2 DEF Rooted, Slopes

\* The lowest height a node knows that is not next to Dest.
LEMMA LowestHeard ==
  ASSUME NEW s, NEW k0 \in Nodes, s.hn[k0] # Null,
         \A k \in Nodes : s.hn[k] # Null => HeightOf(k, s.hn[k])
  PROVE  LET low == Lowest({s.hn[k] : k \in Nodes}) IN
         /\ \E d \in Nat, j \in Nodes : s.hn[j] = At(d, j) /\ low = At(d, j)
         /\ \A g \in Nodes : ~Below(s.hn[g], low)
<1> DEFINE H == {s.hn[k] : k \in Nodes}
<1>1. \A h \in H : h = Null \/ \E d \in Nat, k \in Nat : h = At(d, k)
  BY ToraAssumption DEF HeightOf
<1>2. s.hn[k0] \in H
  OBVIOUS
<1>3. /\ Lowest(H) \in H /\ Lowest(H) # Null
      /\ \A g \in H : ~Below(g, Lowest(H))
  BY <1>1, <1>2, LowestOf
<1>4. PICK j \in Nodes : Lowest(H) = s.hn[j]
  BY <1>3
<1>5. PICK d \in Nat : s.hn[j] = At(d, j)
  BY <1>3, <1>4 DEF HeightOf
<1>. QED
  BY <1>3, <1>4, <1>5

\* A node with links down and no height takes one, and tells it.
LEMMA QueryAnswered ==
  ASSUME CalmState, NEW n \in Nodes \ {Dest}, NEW s, Rooted(n, s),
         s.out = {}, s.h = Null, s.dn # {}
  PROVE  LET t == SendUpd(UpdateUpDownLinks(Climb(s, n))) IN
         Rooted(n, t) /\ t.h # Null /\ t.out = {Upd(t.h)}
<1> DEFINE c == Climb(s, n)
           u == UpdateUpDownLinks(c)
           t == SendUpd(u)
           low == Lowest({s.hn[k] : k \in Nodes})
<1>1. IsNode(s) /\ NearBy(n, s) /\ Learned(n, s) /\ Slopes(n, s)
  BY DEF Rooted
<1>2. ~InRange(n, Dest) /\ s.up = {} /\ ~s.req
  BY <1>1 DEF Slopes
<1>3. links \in Topologies
  BY DEF CalmState
<1>4. \A k \in s.dn : k \in Nodes \ {Dest} /\ k # n
  BY <1>1, <1>2, <1>3, LinksJoinTwo DEF NearBy
<1>5. \A k \in Nodes : s.hn[k] # Null => k \in s.dn /\ HeightOf(k, s.hn[k])
  BY <1>1, <1>2, <1>4, HeightsKnown DEF Learned
<1>6. \A k \in s.dn : s.hn[k] # Null
  BY <1>1, <1>4 DEF Learned
<1>7. PICK k0 \in Nodes : s.hn[k0] # Null
  BY <1>4, <1>6
<1>8. PICK d \in Nat, j \in Nodes :
        s.hn[j] = At(d, j) /\ low = At(d, j) /\ \A g \in Nodes : ~Below(s.hn[g], low)
  BY <1>5, <1>7, LowestHeard
<1>9. j \in s.dn
  BY <1>5, <1>8, AtNotNull
<1>10. /\ IsNode(c) /\ c.h = <<low[1], low[2], low[3] + 1, n>>
       /\ c.nbr = s.nbr /\ c.hn = s.hn /\ c.up = s.up /\ c.dn = s.dn
       /\ c.req = s.req /\ c.out = s.out
  BY <1>1, Climbing
<1>11. c.h = At(d + 1, n)
  BY <1>8, <1>10 DEF At
<1> HIDE DEF c
<1>12. /\ SameButLinks(c, u)
       /\ u.up = {k \in c.dn : Below(c.h, NeighbourHeight(c, k))}
       /\ u.dn = c.dn \ u.up
  BY <1>2, <1>10, UpdatingLinks
<1>13. \A k \in s.dn : NeighbourHeight(c, k) = s.hn[k]
  BY <1>4, <1>10 DEF NeighbourHeight
<1> HIDE DEF u, low
<1>14. IsNode(u)
  BY <1>12 DEF SameButLinks
<1>15. SameRoutes(u, t) /\ t.req = u.req /\ t.out = u.out \cup {Upd(u.h)}
  BY <1>14, Sending
<1> HIDE DEF t
<1>16. /\ IsNode(t) /\ t.nbr = s.nbr /\ t.h = At(d + 1, n) /\ t.hn = s.hn /\ t.req = s.req
       /\ t.out = {Upd(t.h)} /\ t.up \cup t.dn = s.dn
       /\ t.dn = {k \in s.dn : ~Below(At(d + 1, n), s.hn[k])}
  BY <1>10, <1>11, <1>12, <1>13, <1>15 DEF SameRoutes, SameButLinks
<1>17. n \in Nat /\ j \in Nat /\ d + 1 \in Nat
  BY ToraAssumption
<1>18. j \in t.dn
  <2>1. ~Below(At(d + 1, n), At(d, j))
    BY <1>17, BelowAt
  <2>. QED
    BY <1>8, <1>9, <1>16, <2>1
<1>19. ASSUME NEW k \in t.dn PROVE Below(NeighbourHeight(t, k), t.h)
  <2>1. k \in Nodes \ {Dest} /\ k # n /\ ~Below(At(d + 1, n), s.hn[k]) /\ s.hn[k] # Null
    BY <1>4, <1>6, <1>16
  <2>2. PICK e \in Nat : s.hn[k] = At(e, k)
    BY <1>5, <2>1 DEF HeightOf
  <2>3. k \in Nat
    BY <2>1, ToraAssumption
  <2>4. ~(d + 1 < e \/ (d + 1 = e /\ n < k))
    BY <1>17, <2>1, <2>2, <2>3, BelowAt
  <2>5. e < d + 1 \/ (e = d + 1 /\ k < n)
    BY <1>17, <2>1, <2>3, <2>4
  <2>6. Below(At(e, k), At(d + 1, n))
    BY <1>17, <2>3, <2>5, BelowAt
  <2>. QED
    BY <1>16, <2>1, <2>2, <2>6 DEF NeighbourHeight
<1>20. Slopes(n, t)
  BY <1>2, <1>16, <1>17, <1>18, <1>19, AtNotNull DEF Slopes, HeightOf
<1>21. NearBy(n, t)
  BY <1>1, <1>2, <1>16 DEF NearBy
<1>22. Learned(n, t)
  BY <1>1, <1>2, <1>16 DEF Learned
<1>. QED
  BY <1>16, <1>20, <1>21, <1>22, AtNotNull DEF Rooted, t, u, c

\* A node that looks for a route takes the first height it hears of as the way to Dest.
LEMMA RouteTaken ==
  ASSUME CalmState, NEW n \in Nodes \ {Dest}, NEW s, Rooted(n, s), s.out = {}, s.req,
         NEW k \in Nodes \ {Dest}, InRange(n, k), node[k].h # Null
  PROVE  LET t == ProcessUpd(s, n, node[k].h) IN
         Rooted(n, t) /\ t.h # Null /\ t.out = {Upd(t.h)}
<1> DEFINE h == node[k].h
           m == [s EXCEPT !.hn[k] = h]
           b == [m EXCEPT !.ok = @ /\ s.h = Null]
           c == Climb(b, n)
           u == UpdateUpDownLinks(c)
           f == UpdateUpDownLinkForce(u, k)
           g == SendUpd(f)
           r == [g EXCEPT !.req = FALSE]
           a == [r EXCEPT !.ok = @ /\ r.dnE]
           t == SendPacketFromQueue(a)
           low == Lowest({b.hn[i] : i \in Nodes})
<1>1. IsNode(s) /\ NearBy(n, s) /\ Learned(n, s) /\ Slopes(n, s)
  BY DEF Rooted
<1>2. ~InRange(n, Dest) /\ s.up = {} /\ s.dn = {} /\ s.h = Null
  BY <1>1 DEF Slopes
<1>3. \A i \in Nodes : s.hn[i] = Null
  BY <1>1, <1>2 DEF Learned
<1>4. Rooted(k, node[k])
  BY DEF CalmState
<1>5. PICK d \in Nat : h = At(d, k)
  BY <1>4 DEF Rooted, Slopes, HeightOf
<1>6. /\ IsNode(m) /\ m.nbr = s.nbr /\ m.h = s.h /\ m.up = s.up /\ m.dn = s.dn
      /\ m.out = s.out /\ m.hn[k] = h /\ \A i \in Nodes \ {k} : m.hn[i] = Null
  BY <1>1, <1>3 DEF IsNode, Fields
<1> HIDE DEF m
<1>7. SameRoutes(m, b) /\ b.out = m.out
  <2>1. PICK q : b = [m EXCEPT !.ok = q]
    OBVIOUS
  <2>. QED
    BY <1>6, <2>1, Storing
<1> HIDE DEF b
<1>8. IsNode(b) /\ b.hn[k] = h /\ \A i \in Nodes \ {k} : b.hn[i] = Null
  BY <1>6, <1>7 DEF SameRoutes
<1>9. \A i \in Nodes : b.hn[i] # Null => HeightOf(i, b.hn[i])
  BY <1>5, <1>8 DEF HeightOf
<1>10. low = At(d, k)
  <2>1. PICK e \in Nat, j \in Nodes : b.hn[j] = At(e, j) /\ low = At(e, j)
    BY <1>8, <1>9, LowestHeard
  <2>2. j = k
    BY <1>8, <2>1, AtNotNull
  <2>. QED
    BY <1>5, <1>8, <2>1, <2>2
<1>11. /\ IsNode(c) /\ c.h = <<low[1], low[2], low[3] + 1, n>>
       /\ c.nbr = b.nbr /\ c.hn = b.hn /\ c.up = b.up /\ c.dn = b.dn /\ c.out = b.out
  BY <1>8, Climbing
<1>12. c.h = At(d + 1, n)
  BY <1>10, <1>11 DEF At
<1> HIDE DEF c, low
<1>13. c.up = {} /\ c.dn = {}
  BY <1>2, <1>6, <1>7, <1>11 DEF SameRoutes
<1>14. SameButLinks(c, u) /\ u.up = {} /\ u.dn = {}
  BY <1>11, <1>13, UpdatingLinks
<1> HIDE DEF u
<1>15. IsNode(u)
  BY <1>14 DEF SameButLinks
<1>16. n \in Nat /\ k \in Nat /\ d + 1 \in Nat /\ n # k
  BY ToraAssumption, LinksJoinTwo DEF CalmState
<1>17. NeighbourHeight(u, k) = At(d, k) /\ u.h = At(d + 1, n)
  BY <1>5, <1>8, <1>11, <1>12, <1>14 DEF NeighbourHeight, SameButLinks
<1>18. ~Below(u.h, NeighbourHeight(u, k)) /\ Below(At(d, k), At(d + 1, n))
  BY <1>16, <1>17, BelowAt
<1>19. SameButLinks(u, f) /\ f.dn = {k} /\ f.up = {}
  BY <1>14, <1>15, <1>18, ForcingLink
<1> HIDE DEF f
<1>20. IsNode(f)
  BY <1>19 DEF SameButLinks
<1>21. SameRoutes(f, g) /\ g.out = f.out \cup {Upd(f.h)}
  BY <1>20, Sending
<1> HIDE DEF g
<1>22. IsNode(g)
  BY <1>21 DEF SameRoutes
<1>23. SameRoutes(g, r) /\ r.req = FALSE /\ r.out = g.out
  BY <1>22, Flagging
<1> HIDE DEF r
<1>24. IsNode(r)
  BY <1>23 DEF SameRoutes
<1>25. SameRoutes(r, a) /\ a.req = r.req /\ a.out = r.out
  <2>1. PICK q : a = [r EXCEPT !.ok = q]
    OBVIOUS
  <2>. QED
    BY <1>24, <2>1, Storing
<1> HIDE DEF a
<1>26. IsNode(a)
  BY <1>25 DEF SameRoutes
<1>27. SameRoutes(a, t) /\ t.req = a.req /\ t.out = a.out
  BY <1>26, Sending
<1>28. t = ProcessUpd(s, n, h)
  <2>1. h[4] = k
    BY <1>5 DEF At
  <2>2. ProcessHello(s, n, k) = s
    BY <1>1 DEF ProcessHello, NearBy
  <2>. QED
    BY <2>1, <2>2 DEF ProcessUpd, t, a, r, g, f, u, c, b, m
<1> HIDE DEF t
<1>29. /\ IsNode(t) /\ t.nbr = s.nbr /\ t.h = At(d + 1, n) /\ t.hn = b.hn
       /\ t.up = {} /\ t.dn = {k} /\ t.req = FALSE /\ t.out = {Upd(t.h)}
  <2>1. f.h = At(d + 1, n) /\ f.hn = b.hn /\ f.nbr = s.nbr /\ f.out = {}
    BY <1>6, <1>7, <1>11, <1>12, <1>14, <1>19 DEF SameRoutes, SameButLinks
  <2>. QED
    BY <1>19, <1>21, <1>23, <1>25, <1>27, <2>1 DEF SameRoutes
<1>30. Slopes(n, t)
  BY <1>2, <1>5, <1>8, <1>16, <1>18, <1>29, AtNotNull
     DEF Slopes, HeightOf, NeighbourHeight
<1>31. NearBy(n, t)
  BY <1>1, <1>2, <1>29 DEF NearBy
<1>32. Learned(n, t)
  BY <1>5, <1>8, <1>29, AtNotNull DEF Learned
<1>. QED
  BY <1>28, <1>29, <1>30, <1>31, <1>32, AtNotNull DEF Rooted

\* A node that does not look for a route files the height it hears of.
LEMMA HeightFiled ==
  ASSUME CalmState, NEW n \in Nodes \ {Dest}, NEW s, Rooted(n, s), s.out = {}, ~s.req,
         NEW k \in Nodes \ {Dest}, InRange(n, k), node[k].h # Null
  PROVE  LET t == ProcessUpd(s, n, node[k].h) IN
         Rooted(n, t) /\ t.h = s.h /\ t.out = {}
<1> DEFINE h == node[k].h
           m == [s EXCEPT !.hn[k] = h]
           t == UpdateUpDownLinkForce(m, k)
<1>1. IsNode(s) /\ NearBy(n, s) /\ Learned(n, s) /\ Slopes(n, s)
  BY DEF Rooted
<1>2. Rooted(k, node[k])
  BY DEF CalmState
<1>3. PICK d \in Nat : h = At(d, k)
  BY <1>2 DEF Rooted, Slopes, HeightOf
<1>4. /\ IsNode(m) /\ m.nbr = s.nbr /\ m.h = s.h /\ m.up = s.up /\ m.dn = s.dn
      /\ m.req = s.req /\ m.out = s.out
      /\ m.hn[k] = h /\ \A i \in Nodes \ {k} : m.hn[i] = s.hn[i]
  BY <1>1 DEF IsNode, Fields
<1>5. t = ProcessUpd(s, n, h)
  <2>1. h[4] = k
    BY <1>3 DEF At
  <2>2. ProcessHello(s, n, k) = s
    BY <1>1 DEF ProcessHello, NearBy
  <2>. QED
    BY <2>1, <2>2 DEF ProcessUpd
<1> HIDE DEF m
<1>6. NeighbourHeight(m, k) = h
  BY <1>4 DEF NeighbourHeight
<1>7. /\ SameButLinks(m, t)
      /\ IF Below(s.h, h) THEN t.up = s.up \cup {k} /\ t.dn = s.dn \ {k}
         ELSE t.dn = s.dn \cup {k} /\ t.up = s.up \ {k}
  BY <1>4, <1>6, ForcingLink
<1> HIDE DEF t
<1>8. n \in Nat /\ k \in Nat /\ n # k
  BY ToraAssumption, LinksJoinTwo DEF CalmState
<1>9. \A i \in Nodes : t.hn[i] = IF i = k THEN h ELSE s.hn[i]
  BY <1>4, <1>7 DEF SameButLinks
<1>10. s.hn[k] # Null => s.hn[k] = h
  BY <1>1 DEF Learned
<1>11. k \in s.dn => ~Below(s.h, h)
  <2> SUFFICES ASSUME k \in s.dn PROVE ~Below(s.h, h)
    OBVIOUS
  <2>1. s.hn[k] = h
    BY <1>1, <1>10 DEF Learned
  <2>2. CASE s.h = Null
    BY <2>2, BelowNull
  <2>3. CASE s.h # Null
    <3>1. Below(h, s.h)
      BY <1>1, <2>1, <2>3 DEF Slopes, NeighbourHeight
    <3>2. PICK e \in Nat : s.h = At(e, n)
      BY <1>1, <2>3 DEF Slopes, HeightOf
    <3>3. ~(e < d \/ (e = d /\ n < k))
      <4>1. d < e \/ (d = e /\ k < n)
        BY <1>3, <1>8, <3>1, <3>2, BelowAt
      <4>. QED
        BY <1>8, <4>1
    <3>. QED
      BY <1>3, <1>8, <3>2, <3>3, BelowAt
  <2>. QED
    BY <2>2, <2>3
<1>12. /\ t.up \cup t.dn = s.up \cup s.dn \cup {k}
       /\ t.dn = IF Below(s.h, h) THEN s.dn ELSE s.dn \cup {k}
       /\ s.h = Null => t.up = s.up \ {k}
  BY <1>7, <1>11, BelowNull
<1>13. NearBy(n, t)
  <2>1. t.nbr = s.nbr
    BY <1>4, <1>7 DEF SameButLinks
  <2>2. k \in s.nbr
    BY <1>1 DEF NearBy
  <2>. QED
    BY <1>1, <1>12, <2>1, <2>2 DEF NearBy
<1>14. Learned(n, t)
  BY <1>1, <1>3, <1>9, <1>12, AtNotNull DEF Learned
<1>15. t.h = s.h /\ ~t.req /\ t.out = {} /\ IsNode(t)
  BY <1>4, <1>7 DEF SameButLinks
<1>16. ASSUME s.h # Null, NEW i \in t.dn PROVE Below(NeighbourHeight(t, i), t.h)
  <2>1. CASE i # k
    <3>1. i \in s.dn /\ i \in Nodes
      BY <1>1, <1>12, <2>1 DEF NearBy
    <3>2. NeighbourHeight(t, i) = NeighbourHeight(s, i)
      BY <1>9, <2>1, <3>1 DEF NeighbourHeight
    <3>. QED
      BY <1>1, <1>15, <1>16, <3>1, <3>2 DEF Slopes
  <2>2. CASE i = k /\ k \in s.dn
    <3>1. s.hn[k] = h
      BY <1>1, <1>10, <2>2 DEF Learned
    <3>2. NeighbourHeight(t, k) = NeighbourHeight(s, k)
      BY <1>9, <3>1 DEF NeighbourHeight
    <3>. QED
      BY <1>1, <1>15, <1>16, <2>2, <3>2 DEF Slopes
  <2>3. CASE i = k /\ k \notin s.dn
    <3>1. ~Below(s.h, h)
      BY <1>12, <2>3, <1>16
    <3>2. PICK e \in Nat : s.h = At(e, n)
      BY <1>1, <1>16 DEF Slopes, HeightOf
    <3>3. ~(e < d \/ (e = d /\ n < k))
      BY <1>3, <1>8, <3>1, <3>2, BelowAt
    <3>4. d < e \/ (d = e /\ k < n)
      BY <1>8, <3>3
    <3>5. Below(h, s.h)
      BY <1>3, <1>8, <3>2, <3>4, BelowAt
    <3>6. NeighbourHeight(t, k) = h
      BY <1>9 DEF NeighbourHeight
    <3>. QED
      BY <1>15, <2>3, <3>5, <3>6
  <2>. QED
    BY <2>1, <2>2, <2>3
<1>17. Slopes(n, t)
  BY <1>1, <1>12, <1>15, <1>16 DEF Slopes
<1>. QED
  BY <1>5, <1>13, <1>14, <1>15, <1>17 DEF Rooted

-----------------------------------------------------------------------------
(* The steps *)

\* What node n may become: its routes are right, it keeps the height it has, and it tells
\* no height but its own.
Allowed(n, t) ==
  /\ Rooted(n, t)
  /\ node[n].h # Null => t.h = node[n].h
  /\ \A x \in t.out : x = Qry \/ (n # Dest /\ t.h # Null /\ x = Upd(t.h))

\* What is right stays right when no route changes.
LEMMA RoutesKept ==
  ASSUME NEW n, NEW s, NEW t, Rooted(n, s), SameRoutes(s, t), t.req = s.req \/ s.dn = {}
  PROVE  Rooted(n, t)
<1>1. IsNode(t) /\ NearBy(n, t)
  BY DEF Rooted, NearBy, SameRoutes
<1>2. Learned(n, t)
  BY DEF Rooted, Learned, SameRoutes
<1>3. n = Dest => AtTheEnd(t)
  BY DEF Rooted, AtTheEnd, SameRoutes
<1>4. n # Dest => Slopes(n, t)
  BY DEF Rooted, Slopes, SameRoutes, NeighbourHeight
<1>. QED
  BY <1>1, <1>2, <1>3, <1>4 DEF Rooted

LEMMA KeepingAllowed ==
  ASSUME CalmState, NEW n \in Nodes, NEW t, KeepsRoutes(node[n], t)
  PROVE  Allowed(n, t)
<1>1. Rooted(n, node[n]) /\ node[n].out = {}
  BY DEF CalmState
<1>2. Rooted(n, t)
  BY <1>1, RoutesKept DEF KeepsRoutes
<1>. QED
  BY <1>1, <1>2 DEF Allowed, KeepsRoutes, SameRoutes

\* What a query does to a node.
LEMMA QryAllowed ==
  ASSUME CalmState, NEW n, NEW k, InRange(n, k)
  PROVE  n \in Nodes /\ Allowed(n, ProcessQry(node[n], n, k))
<1>1. n \in Nodes /\ k \in Nodes
  BY LinksJoinTwo DEF CalmState
<1> DEFINE s == node[n]
           r == [s EXCEPT !.req = TRUE]
<1>2. Rooted(n, s) /\ s.out = {} /\ IsNode(s)
  BY <1>1 DEF CalmState, Rooted
<1>3. ProcessHello(s, n, k) = s
  BY <1>1, <1>2 DEF ProcessHello, Rooted, NearBy
<1>4. ProcessQry(s, n, k) =
        IF s.req THEN s
        ELSE IF s.dn = {} THEN SendQry(r)
        ELSE IF s.h = Null THEN SendUpd(UpdateUpDownLinks(Climb(s, n)))
        ELSE IF s.active[k] > s.sent THEN SendUpd(s) ELSE s
  BY <1>3 DEF ProcessQry
<1> DEFINE t == ProcessQry(s, n, k)
<1> HIDE DEF s
<1>5. KeepsRoutes(s, s)
  BY <1>2 DEF KeepsRoutes, SameRoutes
<1>6. SameRoutes(s, r) /\ r.out = s.out
  BY <1>2, Flagging
<1>7. IsNode(r)
  BY <1>6 DEF SameRoutes
<1> HIDE DEF r
<1>8. ASSUME s.dn = {} PROVE KeepsRoutes(s, SendQry(r))
  <2>1. SameRoutes(r, SendQry(r)) /\ SendQry(r).out = r.out \cup {Qry}
    BY <1>7, Sending
  <2>. QED
    BY <1>6, <1>8, <2>1 DEF KeepsRoutes, SameRoutes
<1>9. ASSUME KeepsRoutes(s, t) PROVE Allowed(n, t)
  BY <1>1, <1>9, KeepingAllowed DEF s
<1>10. n # Dest \/ s.dn = {}
  BY <1>2 DEF Rooted, AtTheEnd
<1>11. CASE s.dn # {} /\ s.h = Null /\ ~s.req
  <2>1. t = SendUpd(UpdateUpDownLinks(Climb(s, n)))
    BY <1>4, <1>11
  <2>2. Rooted(n, t) /\ t.h # Null /\ t.out = {Upd(t.h)}
    BY <1>1, <1>2, <1>10, <1>11, <2>1, QueryAnswered
  <2>. QED
    BY <1>1, <1>10, <1>11, <2>2 DEF Allowed, s
<1>12. CASE s.dn # {} /\ s.h # Null /\ t = SendUpd(s)
  <2>1. SameRoutes(s, t) /\ t.req = s.req /\ t.out = s.out \cup {Upd(s.h)}
    BY <1>2, <1>12, Sending
  <2>2. Rooted(n, t)
    BY <1>2, <2>1, RoutesKept
  <2>. QED
    BY <1>1, <1>2, <1>10, <1>12, <2>1, <2>2 DEF Allowed, s, SameRoutes
<1>13. \/ t = s
       \/ s.dn = {} /\ t = SendQry(r)
       \/ s.dn # {} /\ s.h = Null /\ ~s.req
       \/ s.dn # {} /\ s.h # Null /\ t = SendUpd(s)
  BY <1>4
<1>14. CASE t = s
  BY <1>1, <1>5, <1>9, <1>14 DEF s
<1>15. CASE s.dn = {} /\ t = SendQry(r)
  BY <1>1, <1>8, <1>9, <1>15 DEF s
<1>. QED
  BY <1>11, <1>12, <1>13, <1>14, <1>15

\* What a neighbour's height does to a node.
LEMMA UpdAllowed ==
  ASSUME CalmState, NEW n, NEW k, InRange(n, k), k # Dest, node[k].h # Null
  PROVE  n \in Nodes /\ Allowed(n, ProcessUpd(node[n], n, node[k].h))
<1>1. n \in Nodes /\ k \in Nodes
  BY LinksJoinTwo DEF CalmState
<1> DEFINE s == node[n]
           t == ProcessUpd(s, n, node[k].h)
<1>2. Rooted(n, s) /\ s.out = {}
  BY <1>1 DEF CalmState
<1>3. CASE n = Dest
  <2>1. Rooted(k, node[k])
    BY <1>1 DEF CalmState
  <2>2. node[k].h[4] = k
    BY <2>1 DEF Rooted, Slopes, HeightOf, At
  <2>3. t = s
    BY <1>1, <1>2, <1>3, <2>2 DEF ProcessUpd, ProcessHello, Rooted, NearBy
  <2>4. KeepsRoutes(s, s)
    BY <1>2 DEF KeepsRoutes, SameRoutes, Rooted
  <2>. QED
    BY <1>1, <2>3, <2>4, KeepingAllowed
<1>4. CASE n # Dest /\ s.req
  <2>1. Rooted(n, t) /\ t.h # Null /\ t.out = {Upd(t.h)}
    BY <1>1, <1>2, <1>4, RouteTaken
  <2>2. s.h = Null
    BY <1>2, <1>4 DEF Rooted, Slopes
  <2>. QED
    BY <1>1, <1>4, <2>1, <2>2 DEF Allowed
<1>5. CASE n # Dest /\ ~s.req
  <2>1. Rooted(n, t) /\ t.h = s.h /\ t.out = {}
    BY <1>1, <1>2, <1>5, HeightFiled
  <2>. QED
    BY <1>1, <2>1 DEF Allowed
<1>. QED
  BY <1>3, <1>4, <1>5

LEMMA NothingChanges ==
  ASSUME CalmState, links' = links, zeroId' = zeroId, node' = node, net' \subseteq net
  PROVE  CalmState'
<1>1. Zero' = Zero
  BY DEF Zero
<1>2. \A k \in Nodes : Rooted(k, node[k]) /\ node[k].out = {}
  BY DEF CalmState
<1>3. (\A k \in Nodes : Rooted(k, node[k]) /\ node[k].out = {})'
  BY <1>1, <1>2 DEF Rooted, NearBy, Learned, Slopes, AtTheEnd, InRange, NeighbourHeight
<1>4. (\A m \in net : TrueNews(m))'
  BY DEF CalmState, TrueNews, InRange
<1>. QED
  BY <1>3, <1>4 DEF CalmState

\* The others see no change: a height that they know is the one it was.
LEMMA BecomesCalm ==
  ASSUME CalmState, NEW n, NEW t, n \in Nodes => Allowed(n, t),
         NEW air, air \subseteq net, NEW traffic, Becomes(n, t, air, traffic)
  PROVE  CalmState'
<1>1. links' = links /\ zeroId' = zeroId /\ Zero' = Zero
  BY DEF Becomes, world, Zero
<1>2. CASE n \notin Nodes
  <2>1. node' = node
    BY <1>2 DEF CalmState, Becomes
  <2>2. {k \in Nodes : InRange(n, k)} = {}
    BY <1>2, LinksJoinTwo DEF CalmState
  <2>3. net' \subseteq net
    BY <2>2 DEF Becomes
  <2>. QED
    BY <1>1, <2>1, <2>3, NothingChanges
<1>3. CASE n \in Nodes
  <2> DEFINE x == [t EXCEPT !.out = {}, !.data = {}]
  <2>1. Allowed(n, t) /\ IsNode(t)
    BY <1>3 DEF Allowed, Rooted
  <2>2. SameRoutes(t, x) /\ x.req = t.req /\ x.out = {}
    BY <2>1, Flushed
  <2>3. Rooted(n, x)
    BY <2>1, <2>2, RoutesKept DEF Allowed
  <2>4. x.h = t.h
    BY <2>2 DEF SameRoutes
  <2>5. node' = [node EXCEPT ![n] = x]
    BY DEF Becomes
  <2> HIDE DEF x
  <2>6. /\ node' = [k \in Nodes |-> node'[k]] /\ node'[n] = x
        /\ \A k \in Nodes \ {n} : node'[k] = node[k]
    BY <1>3, <2>5 DEF CalmState
  <2>7. \A k \in Nodes : node[k].h # Null => node'[k].h = node[k].h
    BY <2>1, <2>4, <2>6 DEF Allowed
  <2>8. ASSUME NEW k \in Nodes PROVE (Rooted(k, node[k]) /\ node[k].out = {})'
    <3>1. Rooted(k, node'[k]) /\ node'[k].out = {}
      BY <2>2, <2>3, <2>6 DEF CalmState
    <3> DEFINE s == node'[k]
    <3>2. IsNode(node[k])'
      BY <3>1 DEF Rooted, IsNode
    <3>3. NearBy(k, node[k])'
      BY <1>1, <3>1 DEF Rooted, NearBy, InRange
    <3>4. Learned(k, node[k])'
      BY <1>1, <2>7, <3>1 DEF Rooted, Learned, Null
    <3>5. IF k = Dest THEN AtTheEnd(node[k])' ELSE Slopes(k, node[k])'
      BY <1>1, <3>1 DEF Rooted, AtTheEnd, Slopes, InRange, NeighbourHeight, Null
    <3>. QED
      BY <3>1, <3>2, <3>3, <3>4, <3>5 DEF Rooted
  <2>9. ASSUME NEW m \in net' PROVE TrueNews(m)'
    <3>1. CASE m \in net
      <4>1. TrueNews(m) /\ m[1] \in Nodes
        BY <3>1, LinksJoinTwo DEF CalmState, TrueNews
      <4>. QED
        BY <1>1, <2>7, <4>1 DEF TrueNews, InRange, Null, Upd, Qry
    <3>2. CASE m \notin net
      <4>1. PICK k \in Nodes, y \in t.out : InRange(n, k) /\ m = <<n, k, y>>
        BY <3>2 DEF Becomes
      <4>2. m[1] = n /\ m[2] = k /\ m[3] = y
        BY <4>1
      <4>3. y = Qry \/ (n # Dest /\ x.h # Null /\ y = Upd(x.h))
        BY <2>1, <2>4, <4>1 DEF Allowed
      <4>. QED
        BY <1>1, <2>6, <4>1, <4>2, <4>3 DEF TrueNews, InRange, Null
    <3>. QED
      BY <3>1, <3>2
  <2>. QED
    BY <1>1, <2>6, <2>8, <2>9 DEF CalmState
<1>. QED
  BY <1>2, <1>3

LEMMA RoutesInit == Init => RoutesInv
<1> SUFFICES ASSUME Init PROVE CalmState
  BY DEF RoutesInv
<1>1. links \in Topologies /\ zeroId \in Nodes /\ net = {}
  BY DEF Init
<1>2. node = [n \in Nodes |-> node[n]] /\ \A n \in Nodes : node[n] = Fresh(n)
  BY DEF Init
<1>3. ASSUME NEW n \in Nodes PROVE Rooted(n, Fresh(n)) /\ Fresh(n).out = {}
  <2> DEFINE s == Fresh(n)
             near == InRange(n, Dest)
  <2>1. /\ IsNode(s) /\ s.nbr = {k \in Nodes : InRange(n, k)} /\ s.out = {} /\ ~s.req
        /\ s.h = (IF n = Dest THEN Zero ELSE IF near THEN At(1, n) ELSE Null)
        /\ s.hn = [k \in Nodes |-> IF k = Dest /\ near THEN Zero ELSE Null]
        /\ s.up = {} /\ s.dn = IF near THEN {Dest} ELSE {}
    BY DEF Fresh, IsNode, Fields, At
  <2> HIDE DEF s
  <2>2. NearBy(n, s)
    BY <2>1, ToraAssumption DEF NearBy
  <2>3. Learned(n, s)
    BY <1>1, <2>1, ZeroHeight DEF Learned
  <2>4. CASE n = Dest
    BY <1>1, <2>1, <2>2, <2>3, <2>4, LinksJoinTwo DEF Rooted, AtTheEnd, s
  <2>5. CASE n # Dest
    <3>1. Below(Zero, At(1, n))
      BY <1>1, ToraAssumption, ZeroHeight, BelowAt
    <3>2. Slopes(n, s)
      BY <2>1, <2>5, <3>1, AtNotNull DEF Slopes, HeightOf, NeighbourHeight
    <3>. QED
      BY <2>1, <2>2, <2>3, <2>5, <3>2 DEF Rooted, s
  <2>. QED
    BY <2>4, <2>5
<1>. QED
  BY <1>1, <1>2, <1>3 DEF CalmState

LEMMA RoutesNext ==
  ASSUME RoutesInv, [Next]_vars
  PROVE  RoutesInv'
<1> SUFFICES ASSUME calm' PROVE CalmState'
  BY DEF RoutesInv
<1>1. CASE UNCHANGED vars
  <2>1. CalmState
    BY <1>1 DEF RoutesInv, vars, faults
  <2>. QED
    BY <1>1, <2>1, NothingChanges DEF vars, world
<1>2. ASSUME Faulty PROVE FALSE
  BY <1>2 DEF Faulty
<1>3. ASSUME UNCHANGED faults PROVE CalmState
  BY <1>3 DEF RoutesInv, faults
<1>4. CASE Receive
  <2>1. PICK m \in net : RecvQry(m) \/ RecvUpd(m)
    BY <1>4 DEF Receive
  <2>2. CalmState
    BY <1>3, <2>1 DEF RecvQry, RecvUpd
  <2>3. TrueNews(m) /\ net \ {m} \subseteq net
    BY <2>1, <2>2 DEF CalmState
  <2>4. InRange(m[2], m[1])
    BY <2>2, <2>3, LinksJoinTwo DEF CalmState, TrueNews
  <2>5. CASE RecvQry(m)
    <3>1. Becomes(m[2], ProcessQry(node[m[2]], m[2], m[1]), net \ {m}, data)
      BY <2>5 DEF RecvQry
    <3>2. Allowed(m[2], ProcessQry(node[m[2]], m[2], m[1]))
      BY <2>2, <2>4, QryAllowed
    <3>. QED
      BY <2>2, <2>3, <3>1, <3>2, BecomesCalm
  <2>6. CASE RecvUpd(m)
    <3>1. m[1] # Dest /\ node[m[1]].h # Null /\ m[3] = Upd(node[m[1]].h)
      BY <2>3, <2>6 DEF RecvUpd, TrueNews
    <3>2. m[3][2] = node[m[1]].h
      BY <3>1 DEF Upd
    <3>3. Becomes(m[2], ProcessUpd(node[m[2]], m[2], node[m[1]].h), net \ {m}, data)
      BY <2>6, <3>2 DEF RecvUpd
    <3>4. Allowed(m[2], ProcessUpd(node[m[2]], m[2], node[m[1]].h))
      BY <2>2, <2>4, <3>1, UpdAllowed
    <3>. QED
      BY <2>2, <2>3, <3>3, <3>4, BecomesCalm
  <2>. QED
    BY <2>1, <2>5, <2>6
<1>5. CASE Carry
  <2>1. PICK d \in data : Loopback(d) \/ Forward(d)
    BY <1>5 DEF Carry
  <2>2. CalmState
    BY <1>3, <2>1 DEF Loopback, Forward
  <2>3. CASE Loopback(d)
    <3> DEFINE n == d[2]
               t == DeferredRouteOutput(node[n], d[1])
    <3>1. Becomes(n, t, net, data \ {d})
      BY <2>3 DEF Loopback
    <3>2. n \in Nodes => Allowed(n, t)
      BY <2>2, Deferring, KeepingAllowed DEF CalmState, Rooted
    <3> HIDE DEF n, t
    <3>. QED
      BY <2>2, <3>1, <3>2, BecomesCalm
  <2>4. CASE Forward(d)
    <3> DEFINE n == d[3]
               t == RouteInput(node[n], n, d[1])
    <3>1. Becomes(n, t, net, data \ {d})
      BY <2>4 DEF Forward
    <3>2. n \in Nodes => Allowed(n, t)
      BY <2>2, Routing, KeepingAllowed DEF CalmState, Rooted
    <3> HIDE DEF n, t
    <3>. QED
      BY <2>2, <3>1, <3>2, BecomesCalm
  <2>. QED
    BY <2>1, <2>3, <2>4
<1>6. CASE Tick \/ \E d \in data : Gone(d)
  <2>1. CalmState /\ UNCHANGED <<node, net, world>>
    BY <1>3, <1>6 DEF Tick, Gone
  <2>. QED
    BY <2>1, NothingChanges DEF world
<1>7. ASSUME NEW n \in Nodes, NEW k \in Nodes,
             Hello(n, k) \/ HelloRecvTimerExpire(n, k) \/ (n < k /\ Move(n, k))
      PROVE  FALSE
  <2>1. Hello(n, k) \/ HelloRecvTimerExpire(n, k)
    BY <1>2, <1>7 DEF Move
  <2>2. CalmState
    BY <1>3, <2>1 DEF Hello, HelloRecvTimerExpire
  <2>3. k \in node[n].nbr <=> InRange(n, k)
    BY <2>2 DEF CalmState, Rooted, NearBy
  <2>. QED
    BY <2>1, <2>3 DEF Hello, HelloRecvTimerExpire
<1>8. ASSUME NEW n \in Nodes, NEW p, Send(n, p) PROVE CalmState'
  <2> DEFINE t == RouteOutput(node[n], <<p, n>>)
  <2>1. CalmState /\ Becomes(n, t, net, data)
    BY <1>3, <1>8 DEF Send
  <2>2. Allowed(n, t)
    BY <2>1, Routing, KeepingAllowed DEF CalmState, Rooted
  <2> HIDE DEF t
  <2>. QED
    BY <2>1, <2>2, BecomesCalm
<1>9. CASE \E m \in net : Lose(m)
  BY <1>2, <1>9 DEF Lose
<1>. QED
  BY <1>1, <1>4, <1>5, <1>6, <1>7, <1>8, <1>9 DEF Next

LEMMA RoutesNoLoop == RoutesInv => NoLoop
<1> SUFFICES ASSUME CalmState, NEW n \in Nodes \ {Dest}, NEW k \in node[n].dn
             PROVE  /\ k \in node[n].nbr
                    /\ k # Dest => Level(k) # Null /\ Below(Level(k), Level(n))
  BY DEF RoutesInv, NoLoop
<1>1. /\ NearBy(n, node[n]) /\ Learned(n, node[n]) /\ Slopes(n, node[n])
  BY DEF CalmState, Rooted
<1>2. k \in node[n].nbr /\ k \in Nodes
  BY <1>1 DEF NearBy
<1>3. ASSUME k # Dest PROVE Level(k) # Null /\ Below(Level(k), Level(n))
  <2>1. node[n].hn[k] # Null /\ node[n].hn[k] = node[k].h
    BY <1>1, <1>2, <1>3 DEF Learned
  <2>2. CASE node[n].h = Null
    BY <2>1, <2>2, BelowNull DEF Level
  <2>3. CASE node[n].h # Null
    BY <1>1, <1>3, <2>1, <2>3 DEF Slopes, NeighbourHeight, Level
  <2>. QED
    BY <2>2, <2>3
<1>. QED
  BY <1>2, <1>3

\* As long as nothing has failed, every node's view of its neighbours is right, and the
\* links down from a node with a height lead to lower ones (SetDownLink, SetUpLink and the
\* calls of ProcessQry and ProcessUpd).
THEOREM RoutesRight == Spec => []RoutesInv
BY RoutesInit, RoutesNext, PTL DEF Spec

\* As long as nothing has failed, the next hops lead downhill to Dest: data never comes
\* back to a node.
THEOREM LoopFree == Spec => []NoLoop
BY RoutesRight, RoutesNoLoop, PTL
=============================================================================
