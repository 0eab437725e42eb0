----------------------------- MODULE RingSafety -----------------------------
(***************************************************************************)
(* Proofs about Ring: for any number of nodes, any lengths of the messages *)
(* and any traffic, two nodes are connected by a FIFO channel.             *)
(*                                                                         *)
(* A message is at a place: in one of the queues of a node or on one of    *)
(* its ports.  The places that messages of one pair can be at lie one      *)
(* behind the other on their way, and the messages' numbers grow along it. *)
(* A tick is taken apart into moves of one message each; one lemma says    *)
(* that a move that lets nobody overtake keeps the invariant.              *)
(***************************************************************************)
EXTENDS Ring, TLAPS

Message == [src : Nodes, dst : Nodes, no : Nat, flits : Nat]
OnPort == {Nothing} \cup [tof : Nat, message : Message]
PairOf(m) == <<m.src, m.dst>>

\* The way to the destination: the port, and the hops still to go.
Turns(n, d) == IF (d + N - n) % N > N \div 2 THEN 0 ELSE 1
Hops(n, d) == IF Turns(n, d) = 0 THEN N - ((d + N - n) % N) ELSE (d + N - n) % N

\* A place: what kind of queue, of which node, and the position in it; for a
\* port its number.
InQ == 0
Port == 1
OutQ == 2
NextQ == 3
Places == (0 .. 3) \X Nodes \X Nat

\* The network's state as a function from the places that hold a message to
\* these messages.
QueueAt(nx, ou, in, l) ==
    IF l[1] = InQ THEN in[l[2]] ELSE IF l[1] = OutQ THEN ou[l[2]] ELSE nx[l[2]]
Occupied(nx, ou, li, in, l) ==
    IF l[1] = Port THEN l[3] \in Ports /\ li[l[2]][l[3]] # Nothing
    ELSE l[3] \in 1 .. Len(QueueAt(nx, ou, in, l))
MessageAt(nx, ou, li, in, l) ==
    IF l[1] = Port THEN li[l[2]][l[3]].message ELSE QueueAt(nx, ou, in, l)[l[3]]
Placed(nx, ou, li, in) ==
    [l \in {x \in Places : Occupied(nx, ou, li, in, x)} |-> MessageAt(nx, ou, li, in, l)]

\* The order of the places on the way to d, the nearest first.
Rank(l, d) == IF l[1] = InQ THEN 0 ELSE 3 * Hops(l[2], d) + l[1] - 3
Before(l, k, d) ==
    Rank(l, d) < Rank(k, d) \/ (Rank(l, d) = Rank(k, d) /\ l[3] < k[3])

\* Message m at place l is on its way: on the side its source has chosen, and
\* not behind the source.
OnRoute(l, m) ==
    /\ m \in Message /\ PairOf(m) \in Pairs
    /\ l[1] = InQ => l[2] = m.dst
    /\ l[1] # InQ => /\ l[2] # m.dst
                     /\ Turns(l[2], m.dst) = Turns(m.src, m.dst)
                     /\ Hops(l[2], m.dst) <= Hops(m.src, m.dst)
    /\ l[1] = Port => l[3] = Turns(l[2], m.dst)
    /\ l[1] = NextQ => l[2] = m.src

\* The messages of a pair that are under way are numbered from the first one
\* not yet received (count) to the last one sent, and in the order of places.
Ordered(w, count, total) ==
    /\ count \in [Pairs -> Nat] /\ total \in [Pairs -> Nat]
    /\ \A p \in Pairs : count[p] <= total[p]
    /\ DOMAIN w \subseteq Places
    /\ \A l \in DOMAIN w : /\ OnRoute(l, w[l])
                           /\ count[PairOf(w[l])] <= w[l].no
                           /\ w[l].no < total[PairOf(w[l])]
    /\ \A l, k \in DOMAIN w :
          PairOf(w[l]) = PairOf(w[k]) /\ Before(l, k, w[l].dst) => w[l].no < w[k].no
    /\ \A p \in Pairs, i \in Nat :
          count[p] <= i /\ i < total[p] => \E l \in DOMAIN w : PairOf(w[l]) = p /\ w[l].no = i

Shaped(nx, ou, li, in) ==
    /\ nx \in [Nodes -> Seq(Message)] /\ ou \in [Nodes -> Seq(Message)]
    /\ in \in [Nodes -> Seq(Message)] /\ li \in [Nodes -> [Ports -> OnPort]]

Net(nx, ou, li, in, count, total) ==
    Shaped(nx, ou, li, in) /\ Ordered(Placed(nx, ou, li, in), count, total)

Lens(rec) == [p \in Pairs |-> Len(rec[p])]
InTurn(rec) ==
    /\ rec \in [Pairs -> Seq(Nat)]
    /\ \A p \in Pairs : rec[p] = Channels!FirstNumbers(Len(rec[p]))

RingInv ==
    /\ Net(outNext, outQueue, link, inQueue, Lens(received), sent)
    /\ InTurn(received)

-----------------------------------------------------------------------------
(* The way round the ring.                                                  *)

LEMMA Sizes == N \in Nat /\ N > 1 /\ Dir \in Nodes /\ Nodes \subseteq Nat
  BY RingAssumption DEF Dir, Nodes

LEMMA Wrapped ==
    ASSUME NEW x \in Nat, x < N + N
    PROVE  x % N = IF x < N THEN x ELSE x - N
  <1>1. N \in Nat \ {0}
    BY Sizes
  <1>2. CASE x < N
    BY <1>1, <1>2
  <1>3. CASE ~(x < N)
    BY <1>1, <1>3
  <1> QED BY <1>2, <1>3

LEMMA Half == /\ N \div 2 \in Nat /\ (N \div 2) + (N \div 2) <= N
              /\ N <= (N \div 2) + (N \div 2) + 1
  BY Sizes

\* The distance to the right, without wrapping.
LEMMA RightDistance ==
    ASSUME NEW n \in Nodes, NEW d \in Nodes
    PROVE  /\ (d + N - n) % N = IF d < n THEN d + N - n ELSE d - n
           /\ (d + N - n) % N \in 0 .. N - 1
  <1>1. n \in Nat /\ d \in Nat /\ n < N /\ d < N /\ N \in Nat
    BY Sizes DEF Nodes
  <1>2. PICK x : x = d + N - n
    OBVIOUS
  <1>3. x \in Nat /\ x < N + N /\ (x < N <=> d < n) /\ x - N = d - n
    BY <1>1, <1>2
  <1>4. x % N = IF x < N THEN x ELSE x - N
    BY <1>3, Wrapped
  <1>5. x % N = IF d < n THEN d + N - n ELSE d - n
    BY <1>2, <1>3, <1>4
  <1> QED BY <1>1, <1>2, <1>5

LEMMA Neighbours ==
    ASSUME NEW n \in Nodes, NEW p \in Ports
    PROVE  /\ Neighbour(n, p) \in Nodes /\ Neighbour(n, p) # n
           /\ Neighbour(n, p) = IF p = 0 THEN IF n = 0 THEN N - 1 ELSE n - 1
                                ELSE IF n = N - 1 THEN 0 ELSE n + 1
           /\ 1 - p \in Ports /\ Neighbour(Neighbour(n, p), 1 - p) = n
  <1>1. N \in Nat /\ N > 1
    BY Sizes
  <1>2. ASSUME NEW k \in Nodes
        PROVE  /\ (k + N - 1) % N = IF k = 0 THEN N - 1 ELSE k - 1
               /\ (k + 1) % N = IF k = N - 1 THEN 0 ELSE k + 1
    <2>1. k \in Nat /\ k < N
      BY <1>1 DEF Nodes
    <2>2. (k + N - 1) % N = IF k + N - 1 < N THEN k + N - 1 ELSE k + N - 1 - N
      BY <1>1, <2>1, Wrapped
    <2>3. (k + 1) % N = IF k + 1 < N THEN k + 1 ELSE k + 1 - N
      BY <1>1, <2>1, Wrapped
    <2> QED BY <1>1, <2>1, <2>2, <2>3
  <1>3. ASSUME NEW k \in Nodes, NEW q \in Ports
        PROVE  Neighbour(k, q) = IF q = 0 THEN IF k = 0 THEN N - 1 ELSE k - 1
                                 ELSE IF k = N - 1 THEN 0 ELSE k + 1
    BY <1>2 DEF Neighbour
  <1>4. Neighbour(n, p) \in Nodes /\ Neighbour(n, p) # n /\ 1 - p \in Ports
    BY <1>1, <1>3 DEF Nodes, Ports
  <1>5. Neighbour(Neighbour(n, p), 1 - p) = n
    BY <1>1, <1>3, <1>4 DEF Nodes, Ports
  <1> QED BY <1>3, <1>4, <1>5

\* A hop brings a message nearer, in the direction its source has chosen.
LEMMA OneHop ==
    ASSUME NEW n \in Nodes, NEW d \in Nodes, n # d, NEW k, k = Neighbour(n, Turns(n, d))
    PROVE  /\ Turns(n, d) \in Ports /\ Hops(n, d) \in Nat \ {0}
           /\ Hops(k, d) = Hops(n, d) - 1
           /\ k # d => Turns(k, d) = Turns(n, d)
  <1>1. n \in Nat /\ d \in Nat /\ n < N /\ d < N /\ N \in Nat /\ N > 1
    BY Sizes DEF Nodes
  <1>2. Turns(n, d) \in Ports
    BY DEF Turns, Ports
  <1>3. /\ k \in Nodes
        /\ k = IF Turns(n, d) = 0 THEN IF n = 0 THEN N - 1 ELSE n - 1
               ELSE IF n = N - 1 THEN 0 ELSE n + 1
    BY <1>2, Neighbours
  <1>4. k \in Nat /\ k < N
    BY <1>1, <1>3 DEF Nodes
  <1>5. PICK r : r = (d + N - n) % N
    OBVIOUS
  <1>6. PICK s : s = (d + N - k) % N
    OBVIOUS
  <1>7. /\ r = (IF d < n THEN d + N - n ELSE d - n) /\ r \in 0 .. N - 1
        /\ s = (IF d < k THEN d + N - k ELSE d - k) /\ s \in 0 .. N - 1
    BY <1>3, <1>5, <1>6, RightDistance
  <1>8. PICK h : h = N \div 2
    OBVIOUS
  <1>9. h \in Nat /\ h + h <= N /\ N <= h + h + 1
    BY <1>8, Half
  <1>10. /\ Turns(n, d) = (IF r > h THEN 0 ELSE 1)
         /\ Turns(k, d) = (IF s > h THEN 0 ELSE 1)
    BY <1>5, <1>6, <1>8 DEF Turns
  <1>11. /\ Hops(n, d) = (IF r > h THEN N - r ELSE r)
         /\ Hops(k, d) = (IF s > h THEN N - s ELSE s)
    <2>1. /\ Hops(n, d) = (IF Turns(n, d) = 0 THEN N - r ELSE r)
          /\ Hops(k, d) = (IF Turns(k, d) = 0 THEN N - s ELSE s)
      BY <1>5, <1>6 DEF Hops
    <2> QED BY <1>10, <2>1
  <1>12. CASE r > h
    <2>1. s = IF k = d THEN 0 ELSE r + 1
      BY <1>1, <1>3, <1>4, <1>7, <1>10, <1>12
    <2>2. k = d => r = N - 1
      BY <1>1, <1>3, <1>4, <1>7, <1>10, <1>12
    <2> QED BY <1>1, <1>2, <1>7, <1>9, <1>10, <1>11, <1>12, <2>1, <2>2
  <1>13. CASE ~(r > h)
    <2>1. r > 0 /\ s = r - 1
      BY <1>1, <1>3, <1>4, <1>7, <1>9, <1>10, <1>13
    <2> QED BY <1>1, <1>2, <1>7, <1>9, <1>10, <1>11, <1>13, <2>1
  <1> QED BY <1>12, <1>13

\* Direction and distance determine the node.
LEMMA OneNode ==
    ASSUME NEW n \in Nodes, NEW k \in Nodes, NEW d \in Nodes,
           Turns(n, d) = Turns(k, d), Hops(n, d) = Hops(k, d)
    PROVE  n = k
  <1>1. /\ n \in Nat /\ k \in Nat /\ d \in Nat /\ n < N /\ k < N /\ d < N /\ N \in Nat
    BY Sizes DEF Nodes
  <1>2. /\ (d + N - n) % N = (IF d < n THEN d + N - n ELSE d - n)
        /\ (d + N - k) % N = (IF d < k THEN d + N - k ELSE d - k)
        /\ (d + N - n) % N \in 0 .. N - 1 /\ (d + N - k) % N \in 0 .. N - 1
    BY RightDistance
  <1>3. (d + N - n) % N = (d + N - k) % N
    BY <1>1, <1>2 DEF Hops
  <1> QED BY <1>1, <1>2, <1>3

-----------------------------------------------------------------------------
(* Places and moves.                                                        *)

USE DEF InQ, Port, OutQ, NextQ

LEMMA PlaceParts ==
    ASSUME NEW l \in Places
    PROVE  /\ l = <<l[1], l[2], l[3]>> /\ l[1] \in {0, 1, 2, 3}
           /\ l[2] \in Nodes /\ l[3] \in Nat
  BY DEF Places

\* What w says of the places of each kind.
IsPlaced(w, nx, ou, li, in) ==
    /\ DOMAIN w \subseteq Places
    /\ \A l \in Places :
         /\ l[1] = InQ => /\ l \in DOMAIN w <=> l[3] \in 1 .. Len(in[l[2]])
                          /\ l \in DOMAIN w => w[l] = in[l[2]][l[3]]
         /\ l[1] = Port => /\ l \in DOMAIN w <=> l[3] \in Ports /\ li[l[2]][l[3]] # Nothing
                           /\ l \in DOMAIN w => w[l] = li[l[2]][l[3]].message
         /\ l[1] = OutQ => /\ l \in DOMAIN w <=> l[3] \in 1 .. Len(ou[l[2]])
                           /\ l \in DOMAIN w => w[l] = ou[l[2]][l[3]]
         /\ l[1] = NextQ => /\ l \in DOMAIN w <=> l[3] \in 1 .. Len(nx[l[2]])
                            /\ l \in DOMAIN w => w[l] = nx[l[2]][l[3]]

LEMMA PlacedIs ==
    ASSUME NEW nx, NEW ou, NEW li, NEW in, NEW w, w = Placed(nx, ou, li, in)
    PROVE  IsPlaced(w, nx, ou, li, in)
  <1>1. /\ DOMAIN w = {x \in Places : Occupied(nx, ou, li, in, x)}
        /\ \A l \in DOMAIN w : w[l] = MessageAt(nx, ou, li, in, l)
    BY DEF Placed
  <1>2. ASSUME NEW l \in Places
        PROVE  /\ l \in DOMAIN w <=> Occupied(nx, ou, li, in, l)
               /\ l \in DOMAIN w => w[l] = MessageAt(nx, ou, li, in, l)
    BY <1>1
  <1>3. ASSUME NEW l \in Places
        PROVE  /\ l[1] = InQ => /\ l \in DOMAIN w <=> l[3] \in 1 .. Len(in[l[2]])
                                /\ l \in DOMAIN w => w[l] = in[l[2]][l[3]]
               /\ l[1] = Port => /\ l \in DOMAIN w <=>
                                       l[3] \in Ports /\ li[l[2]][l[3]] # Nothing
                                 /\ l \in DOMAIN w => w[l] = li[l[2]][l[3]].message
               /\ l[1] = OutQ => /\ l \in DOMAIN w <=> l[3] \in 1 .. Len(ou[l[2]])
                                 /\ l \in DOMAIN w => w[l] = ou[l[2]][l[3]]
               /\ l[1] = NextQ => /\ l \in DOMAIN w <=> l[3] \in 1 .. Len(nx[l[2]])
                                  /\ l \in DOMAIN w => w[l] = nx[l[2]][l[3]]
    <2>1. CASE l[1] = InQ
      BY <1>2, <2>1 DEF Occupied, MessageAt, QueueAt
    <2>2. CASE l[1] = Port
      BY <1>2, <2>2 DEF Occupied, MessageAt
    <2>3. CASE l[1] = OutQ
      BY <1>2, <2>3 DEF Occupied, MessageAt, QueueAt
    <2>4. CASE l[1] = NextQ
      BY <1>2, <2>4 DEF Occupied, MessageAt, QueueAt
    <2>5. l[1] \in {0, 1, 2, 3}
      BY PlaceParts
    <2> QED BY <2>1, <2>2, <2>3, <2>4, <2>5
  <1> QED BY <1>1, <1>3 DEF IsPlaced

\* The rank of a place on a message's way.
LEMMA RankIs ==
    ASSUME NEW l \in Places, NEW m, OnRoute(l, m)
    PROVE  /\ l[1] = InQ => Rank(l, m.dst) = 0
           /\ l[1] # InQ => /\ Hops(l[2], m.dst) \in Nat \ {0}
                            /\ Rank(l, m.dst) = 3 * Hops(l[2], m.dst) + l[1] - 3
           /\ Rank(l, m.dst) \in Nat
  <1>1. m.dst \in Nodes
    BY DEF OnRoute, Message
  <1>2. l[1] # InQ => Hops(l[2], m.dst) \in Nat \ {0}
    BY <1>1, PlaceParts, OneHop DEF OnRoute
  <1>3. l[1] \in {0, 1, 2, 3}
    BY PlaceParts
  <1> QED BY <1>2, <1>3 DEF Rank

\* On the way of one pair a rank stands for one queue or one port.
LEMMA SameRank ==
    ASSUME NEW l \in Places, NEW k \in Places, NEW m, NEW x, OnRoute(l, m), OnRoute(k, x),
           PairOf(m) = PairOf(x), Rank(l, m.dst) = Rank(k, m.dst)
    PROVE  l[1] = k[1] /\ l[2] = k[2] /\ (l[1] = Port => l = k)
  <1>1. x.dst = m.dst /\ x.src = m.src /\ m.dst \in Nodes
    BY DEF PairOf, OnRoute, Message
  <1>2. l[1] \in {0, 1, 2, 3} /\ k[1] \in {0, 1, 2, 3} /\ l[2] \in Nodes /\ k[2] \in Nodes
    BY PlaceParts
  <1>3. CASE l[1] = InQ \/ k[1] = InQ
    <2>1. l[1] = InQ /\ k[1] = InQ
      BY <1>1, <1>2, <1>3, RankIs
    <2> QED BY <1>1, <2>1 DEF OnRoute
  <1>4. CASE l[1] # InQ /\ k[1] # InQ
    <2>1. PICK g, h : g = Hops(l[2], m.dst) /\ h = Hops(k[2], m.dst)
      OBVIOUS
    <2>2. g \in Nat /\ h \in Nat /\ 3 * g + l[1] - 3 = 3 * h + k[1] - 3
      BY <1>1, <1>4, <2>1, RankIs
    <2>3. l[1] = k[1] /\ g = h
      BY <1>2, <1>4, <2>2
    <2>4. Turns(l[2], m.dst) = Turns(k[2], m.dst)
      BY <1>1, <1>4 DEF OnRoute
    <2>5. l[2] = k[2]
      BY <1>1, <1>2, <2>1, <2>3, <2>4, OneNode
    <2>6. l[1] = Port => l[3] = k[3]
      BY <1>1, <2>3, <2>5 DEF OnRoute
    <2> QED BY <2>3, <2>5, <2>6, PlaceParts
  <1> QED BY <1>3, <1>4

LEMMA Comparable ==
    ASSUME NEW l \in Places, NEW k \in Places, l # k, NEW m, NEW x,
           OnRoute(l, m), OnRoute(k, x), PairOf(m) = PairOf(x)
    PROVE  Before(l, k, m.dst) \/ Before(k, l, m.dst)
  <1>1. x.dst = m.dst
    BY DEF PairOf
  <1>2. PICK r, s : r = Rank(l, m.dst) /\ s = Rank(k, m.dst)
    OBVIOUS
  <1>3. r \in Nat /\ s \in Nat
    BY <1>1, <1>2, RankIs
  <1>4. r = s => l[3] # k[3]
    BY <1>2, SameRank, PlaceParts
  <1>5. l[3] \in Nat /\ k[3] \in Nat
    BY PlaceParts
  <1>6. PICK i, j : i = l[3] /\ j = k[3]
    OBVIOUS
  <1>7. /\ Before(l, k, m.dst) <=> r < s \/ (r = s /\ i < j)
        /\ Before(k, l, m.dst) <=> s < r \/ (s = r /\ j < i)
    BY <1>2, <1>6, Zenon DEF Before
  <1>8. (r < s \/ (r = s /\ i < j)) \/ (s < r \/ (s = r /\ j < i))
    BY <1>3, <1>4, <1>5, <1>6
  <1> QED BY <1>7, <1>8

\* f says of each place where its message was before; if nobody is lost and
\* nobody overtakes, the order stays.
LEMMA Relocated ==
    ASSUME NEW w, NEW w2, NEW f \in [Places -> Places], NEW count, NEW total,
           Ordered(w, count, total), DOMAIN w2 \subseteq Places,
           \A l \in Places : l \in DOMAIN w2 <=> f[l] \in DOMAIN w,
           \A l \in DOMAIN w2 : w2[l] = w[f[l]],
           \A l \in DOMAIN w : \E k \in Places : f[k] = l,
           \A l \in DOMAIN w2 : OnRoute(l, w2[l]),
           \A l, k \in DOMAIN w2 :
              PairOf(w2[l]) = PairOf(w2[k]) /\ Before(l, k, w2[l].dst)
              => Before(f[l], f[k], w2[l].dst)
    PROVE  Ordered(w2, count, total)
  <1>1. \A l \in DOMAIN w2 : /\ count[PairOf(w2[l])] <= w2[l].no
                             /\ w2[l].no < total[PairOf(w2[l])]
    BY DEF Ordered
  <1>2. ASSUME NEW l \in DOMAIN w2, NEW k \in DOMAIN w2,
               PairOf(w2[l]) = PairOf(w2[k]), Before(l, k, w2[l].dst)
        PROVE  w2[l].no < w2[k].no
    <2>1. Before(f[l], f[k], w2[l].dst)
      BY <1>2
    <2>2. f[l] \in DOMAIN w /\ f[k] \in DOMAIN w /\ w2[l] = w[f[l]] /\ w2[k] = w[f[k]]
      OBVIOUS
    <2> QED BY <1>2, <2>1, <2>2 DEF Ordered
  <1>3. ASSUME NEW p \in Pairs, NEW i \in Nat, count[p] <= i, i < total[p]
        PROVE  \E l \in DOMAIN w2 : PairOf(w2[l]) = p /\ w2[l].no = i
    <2>1. PICK l \in DOMAIN w : PairOf(w[l]) = p /\ w[l].no = i
      BY <1>3 DEF Ordered
    <2>2. PICK k \in Places : f[k] = l
      OBVIOUS
    <2>3. k \in DOMAIN w2 /\ w2[k] = w[l]
      BY <2>2
    <2> QED BY <2>1, <2>3
  <1> QED BY <1>1, <1>2, <1>3 DEF Ordered

-----------------------------------------------------------------------------
(* The moves of one message.                                                *)

LEMMA AppendIs ==
    ASSUME NEW S, NEW s \in Seq(S), NEW e \in S
    PROVE  /\ Append(s, e) \in Seq(S) /\ Len(Append(s, e)) = Len(s) + 1 /\ Len(s) \in Nat
           /\ \A i \in 1 .. Len(s) : Append(s, e)[i] = s[i]
           /\ Append(s, e)[Len(s) + 1] = e
  OBVIOUS

LEMMA TailIs ==
    ASSUME NEW S, NEW s \in Seq(S), s # <<>>
    PROVE  /\ Len(s) \in Nat \ {0} /\ s[1] \in S /\ Tail(s) \in Seq(S)
           /\ Len(Tail(s)) = Len(s) - 1
           /\ \A i \in 1 .. Len(s) - 1 : Tail(s)[i] = s[i + 1]
  OBVIOUS

LEMMA ConcatIs ==
    ASSUME NEW S, NEW s \in Seq(S), NEW t \in Seq(S)
    PROVE  /\ s \o t \in Seq(S) /\ Len(s) \in Nat /\ Len(t) \in Nat
           /\ Len(s \o t) = Len(s) + Len(t)
           /\ \A i \in 1 .. Len(s) + Len(t) :
                 (s \o t)[i] = IF i <= Len(s) THEN s[i] ELSE t[i - Len(s)]
  OBVIOUS

\* Facts on short sequences.
LEMMA JoinIs ==
    ASSUME NEW s \in Seq(Nat), NEW x \in Seq(Nat), NEW y \in Seq(Nat)
    PROVE  /\ s \o <<>> = s /\ (s \o x) \o y = s \o (x \o y) /\ s \o (<<>> \o <<>>) = s
           /\ Len(s) \in Nat
  OBVIOUS

LEMMA AppendJoins ==
    ASSUME NEW s \in Seq(Nat), NEW e \in Nat
    PROVE  Append(s, e) = s \o <<e>>
  OBVIOUS

LEMMA FrontIs ==
    ASSUME NEW S, NEW q \in Seq(S)
    PROVE  /\ Len(q) \in Nat /\ SubSeq(q, 1, Len(q)) = q
           /\ Len(q) >= 1 => q # <<>> /\ q[1] \in S /\ SubSeq(q, 2, Len(q)) = Tail(q)
           /\ Len(q) >= 2 => /\ Tail(q) # <<>> /\ Tail(q)[1] = q[2] /\ q[2] \in S
                             /\ SubSeq(q, 3, Len(q)) = Tail(Tail(q))
  <1>1. /\ Len(q) \in Nat /\ SubSeq(q, 1, Len(q)) = q
        /\ Len(q) >= 1 => q # <<>> /\ q[1] \in S /\ SubSeq(q, 2, Len(q)) = Tail(q)
    OBVIOUS
  <1>2. ASSUME Len(q) >= 2
        PROVE  /\ Tail(q) # <<>> /\ Tail(q)[1] = q[2] /\ q[2] \in S
               /\ SubSeq(q, 3, Len(q)) = Tail(Tail(q))
    <2>1. q # <<>> /\ q[2] \in S
      BY <1>2
    <2>2. Tail(q) \in Seq(S) /\ Len(Tail(q)) = Len(q) - 1 /\ Tail(q)[1] = q[2]
      BY <1>2, <2>1
    <2>3. Len(Tail(q)) # 0 /\ Len(<<>>) = 0
      BY <1>2, <2>2
    <2>4. Tail(q) # <<>>
      BY <2>3, Zenon
    <2>5. SubSeq(q, 3, Len(q)) = Tail(Tail(q))
      BY <1>2, <2>1, <2>2, <2>4
    <2> QED BY <2>1, <2>2, <2>4, <2>5
  <1> QED BY <1>1, <1>2

\* What Ordered says of the place of one message.
LEMMA PlaceOf ==
    ASSUME NEW w, NEW count, NEW total, Ordered(w, count, total), NEW l \in DOMAIN w
    PROVE  /\ l \in Places /\ OnRoute(l, w[l]) /\ w[l] \in Message
           /\ PairOf(w[l]) \in Pairs /\ w[l].src \in Nodes /\ w[l].dst \in Nodes
           /\ w[l].src # w[l].dst /\ w[l].no \in Nat
           /\ count[PairOf(w[l])] <= w[l].no /\ w[l].no < total[PairOf(w[l])]
           /\ count[PairOf(w[l])] \in Nat /\ total[PairOf(w[l])] \in Nat
  <1>1. l \in Places /\ OnRoute(l, w[l])
    BY DEF Ordered
  <1>2. w[l] \in Message /\ PairOf(w[l]) \in Pairs
    BY <1>1 DEF OnRoute
  <1>3. w[l].src \in Nodes /\ w[l].dst \in Nodes /\ w[l].no \in Nat
    BY <1>2 DEF Message
  <1>4. w[l].src # w[l].dst
    BY <1>2 DEF Pairs, PairOf
  <1> QED BY <1>1, <1>2, <1>3, <1>4 DEF Ordered

\* Positions within a queue do not matter to the way.
LEMMA SameQueue ==
    ASSUME NEW l, NEW g, NEW m, OnRoute(g, m), l[1] = g[1], l[2] = g[2], l[1] # Port
    PROVE  OnRoute(l, m) /\ Rank(l, m.dst) = Rank(g, m.dst)
  BY DEF OnRoute, Rank

LEMMA BeforeIs ==
    ASSUME NEW l, NEW k, NEW d, NEW r, NEW s, r = Rank(l, d), s = Rank(k, d)
    PROVE  Before(l, k, d) <=> (r < s \/ (r = s /\ l[3] < k[3]))
  BY Zenon DEF Before

\* The message at the head of ntwk_out_queue goes to a port that is free.
LEMMA LoadOne ==
    ASSUME NEW nx, NEW ou, NEW li, NEW in, NEW count, NEW total,
           Net(nx, ou, li, in, count, total),
           NEW n \in Nodes, ou[n] # <<>>, NEW m, m = ou[n][1],
           NEW q, q = Turns(n, m.dst), li[n][q] = Nothing, NEW t \in Nat,
           NEW ou2, ou2 = [ou EXCEPT ![n] = Tail(ou[n])],
           NEW on, on = [li[n] EXCEPT ![q] = [tof |-> t, message |-> m]],
           NEW li2, li2 = [li EXCEPT ![n] = on]
    PROVE  Net(nx, ou2, li2, in, count, total)
  <1>1. Shaped(nx, ou, li, in) /\ Ordered(Placed(nx, ou, li, in), count, total)
    BY DEF Net
  <1>2. q \in Ports
    BY DEF Turns, Ports
  <1>3. /\ Len(ou[n]) \in Nat \ {0} /\ m \in Message /\ Tail(ou[n]) \in Seq(Message)
        /\ Len(Tail(ou[n])) = Len(ou[n]) - 1
        /\ \A i \in 1 .. Len(ou[n]) - 1 : Tail(ou[n])[i] = ou[n][i + 1]
    BY <1>1, TailIs DEF Shaped
  <1>4. PICK x : x = [tof |-> t, message |-> m]
    OBVIOUS
  <1>5. x \in OnPort /\ x.message = m /\ x # Nothing
    <2>1. x \in [tof : Nat, message : Message] /\ x.message = m
      BY <1>3, <1>4
    <2>2. "message" \in DOMAIN x /\ "message" \notin DOMAIN Nothing
      BY <1>4 DEF Nothing
    <2> QED BY <2>1, <2>2 DEF OnPort
  <1>6. /\ on \in [Ports -> OnPort] /\ on[q] = x
        /\ \A i \in Ports : i # q => on[i] = li[n][i]
    BY <1>1, <1>2, <1>4, <1>5 DEF Shaped
  <1>7. /\ li2 \in [Nodes -> [Ports -> OnPort]] /\ li2[n] = on
        /\ \A k \in Nodes : k # n => li2[k] = li[k]
        /\ ou2 \in [Nodes -> Seq(Message)] /\ ou2[n] = Tail(ou[n])
        /\ \A k \in Nodes : k # n => ou2[k] = ou[k]
    BY <1>1, <1>3, <1>6 DEF Shaped
  <1>8. Shaped(nx, ou2, li2, in)
    BY <1>1, <1>7 DEF Shaped
  <1>9. PICK w, w2 : w = Placed(nx, ou, li, in) /\ w2 = Placed(nx, ou2, li2, in)
    OBVIOUS
  <1>10. IsPlaced(w, nx, ou, li, in) /\ IsPlaced(w2, nx, ou2, li2, in)
    BY <1>9, PlacedIs
  <1>11. Ordered(w, count, total) /\ DOMAIN w2 \subseteq Places
    BY <1>1, <1>9, <1>10 DEF IsPlaced
  <1>12. PICK from, to : from = <<OutQ, n, 1>> /\ to = <<Port, n, q>>
    OBVIOUS
  <1>13. from \in Places /\ to \in Places
    BY <1>2, <1>12 DEF Places, Ports
  <1>14. PICK f : f = [l \in Places |->
                         IF l = to THEN from
                         ELSE IF l[1] = OutQ /\ l[2] = n /\ l[3] # 0
                              THEN <<OutQ, n, l[3] + 1>> ELSE l]
    OBVIOUS
  <1>15. /\ f \in [Places -> Places] /\ f[to] = from
         /\ \A l \in Places : l # to /\ l[1] = OutQ /\ l[2] = n /\ l[3] # 0
                              => f[l] = <<OutQ, n, l[3] + 1>>
         /\ \A l \in Places : l # to /\ ~(l[1] = OutQ /\ l[2] = n /\ l[3] # 0) => f[l] = l
    <2>1. ASSUME NEW l \in Places PROVE <<OutQ, n, l[3] + 1>> \in Places
      BY PlaceParts DEF Places
    <2> QED BY <1>13, <1>14, <2>1
  <1>16. from \in DOMAIN w /\ w[from] = m /\ to \notin DOMAIN w
    BY <1>2, <1>3, <1>10, <1>12, <1>13 DEF IsPlaced
  <1>17. to \in DOMAIN w2 /\ w2[to] = m
    BY <1>2, <1>5, <1>6, <1>7, <1>10, <1>12, <1>13 DEF IsPlaced
  \* Where every message was.
  <1>18. ASSUME NEW l \in Places
         PROVE  (l \in DOMAIN w2 <=> f[l] \in DOMAIN w) /\ (l \in DOMAIN w2 => w2[l] = w[f[l]])
    <2>1. CASE l = to
      BY <1>15, <1>16, <1>17, <2>1
    <2>2. CASE l # to /\ l[1] = OutQ /\ l[2] = n /\ l[3] # 0
      <3>1. PICK g : g = <<OutQ, n, l[3] + 1>>
        OBVIOUS
      <3>2. g = f[l] /\ g \in Places /\ g[1] = OutQ /\ g[2] = n /\ g[3] = l[3] + 1
        BY <1>15, <2>2, <3>1
      <3>3. g \in DOMAIN w <=> l[3] + 1 \in 1 .. Len(ou[n])
        BY <1>10, <3>2 DEF IsPlaced
      <3>4. g \in DOMAIN w => w[g] = ou[n][l[3] + 1]
        BY <1>10, <3>2 DEF IsPlaced
      <3>5. l \in DOMAIN w2 <=> l[3] \in 1 .. Len(Tail(ou[n]))
        BY <1>7, <1>10, <2>2 DEF IsPlaced
      <3>6. l \in DOMAIN w2 => w2[l] = Tail(ou[n])[l[3]]
        BY <1>7, <1>10, <2>2 DEF IsPlaced
      <3>7. l[3] \in Nat
        BY PlaceParts
      <3> QED BY <1>3, <2>2, <3>2, <3>3, <3>4, <3>5, <3>6, <3>7
    <2>3. CASE l # to /\ ~(l[1] = OutQ /\ l[2] = n /\ l[3] # 0)
      <3>1. f[l] = l /\ l[1] \in {0, 1, 2, 3} /\ l[2] \in Nodes
        BY <1>15, <2>3, PlaceParts
      <3>2. (l \in DOMAIN w2 <=> l \in DOMAIN w) /\ (l \in DOMAIN w2 => w2[l] = w[l])
        <4>1. CASE l[1] = InQ
          BY <1>10, <4>1 DEF IsPlaced
        <4>2. CASE l[1] = NextQ
          BY <1>10, <4>2 DEF IsPlaced
        <4>3. CASE l[1] = OutQ
          <5>1. CASE l[2] # n
            BY <1>7, <1>10, <3>1, <4>3, <5>1 DEF IsPlaced
          <5>2. CASE l[3] = 0
            BY <1>10, <4>3, <5>2 DEF IsPlaced
          <5> QED BY <2>3, <4>3, <5>1, <5>2
        <4>4. CASE l[1] = Port
          <5>1. CASE l[2] # n
            BY <1>7, <1>10, <3>1, <4>4, <5>1 DEF IsPlaced
          <5>2. CASE l[2] = n
            <6>1. l[3] # q
              BY <1>12, <2>3, <4>4, <5>2, PlaceParts
            <6> QED BY <1>6, <1>7, <1>10, <4>4, <5>2, <6>1 DEF IsPlaced
          <5> QED BY <5>1, <5>2
        <4> QED BY <3>1, <4>1, <4>2, <4>3, <4>4
      <3> QED BY <3>1, <3>2
    <2> QED BY <2>1, <2>2, <2>3
  <1>19. \A l \in DOMAIN w2 : l \in Places /\ f[l] \in DOMAIN w /\ w2[l] = w[f[l]]
    BY <1>11, <1>18
  <1>20. \A l \in DOMAIN w : \E k \in Places : f[k] = l
    <2> SUFFICES ASSUME NEW l \in DOMAIN w PROVE \E k \in Places : f[k] = l
      OBVIOUS
    <2>1. l \in Places
      BY <1>11 DEF Ordered
    <2>2. CASE l[1] = OutQ /\ l[2] = n
      <3>1. l[3] \in 1 .. Len(ou[n]) /\ l = <<OutQ, n, l[3]>>
        BY <1>10, <2>1, <2>2, PlaceParts DEF IsPlaced
      <3>2. CASE l[3] = 1
        BY <1>12, <1>13, <1>15, <3>1, <3>2
      <3>3. CASE l[3] # 1
        <4>1. PICK i : i = l[3] - 1
          OBVIOUS
        <4>2. i \in Nat \ {0} /\ i + 1 = l[3]
          BY <1>3, <3>1, <3>3, <4>1
        <4>3. PICK k : k = <<OutQ, n, i>>
          OBVIOUS
        <4>4. k \in Places /\ k[1] = OutQ /\ k[2] = n /\ k[3] = i /\ k # to
          BY <1>12, <4>2, <4>3 DEF Places
        <4>5. f[k] = l
          BY <1>15, <3>1, <4>2, <4>4
        <4> QED BY <4>4, <4>5
      <3> QED BY <3>2, <3>3
    <2>3. CASE ~(l[1] = OutQ /\ l[2] = n)
      BY <1>15, <1>16, <2>1, <2>3
    <2> QED BY <2>2, <2>3
  <1>21. OnRoute(from, m) /\ m \in Message /\ m.dst \in Nodes /\ n # m.dst
    <2>1. OnRoute(from, m) /\ m \in Message /\ m.dst \in Nodes
      BY <1>11, <1>16, PlaceOf
    <2> QED BY <1>12, <2>1 DEF OnRoute
  <1>22. OnRoute(to, m)
    BY <1>12, <1>21 DEF OnRoute
  <1>23. ASSUME NEW l \in DOMAIN w2
         PROVE  /\ OnRoute(l, w2[l]) /\ OnRoute(f[l], w2[l])
                /\ l # to => /\ Rank(f[l], w2[l].dst) = Rank(l, w2[l].dst)
                             /\ f[l][3] = IF l[1] = OutQ /\ l[2] = n THEN l[3] + 1 ELSE l[3]
    <2>1. l \in Places /\ f[l] \in DOMAIN w /\ w2[l] = w[f[l]]
      BY <1>19
    <2>2. OnRoute(f[l], w2[l])
      BY <1>11, <2>1, PlaceOf
    <2>3. CASE l = to
      BY <1>17, <1>22, <2>2, <2>3
    <2>4. CASE l # to /\ l[1] = OutQ /\ l[2] = n
      <3>1. l[3] # 0
        BY <1>7, <1>10, <2>1, <2>4 DEF IsPlaced
      <3>2. f[l] = <<OutQ, n, l[3] + 1>>
        BY <1>15, <2>1, <2>4, <3>1
      <3>3. f[l][1] = l[1] /\ f[l][2] = l[2] /\ f[l][3] = l[3] + 1
        BY <2>4, <3>2
      <3> QED BY <2>2, <2>4, <3>3, SameQueue
    <2>5. CASE l # to /\ ~(l[1] = OutQ /\ l[2] = n)
      BY <1>15, <2>1, <2>2, <2>5
    <2> QED BY <2>2, <2>3, <2>4, <2>5
  <1>24. ASSUME NEW l \in DOMAIN w2, NEW k \in DOMAIN w2,
                PairOf(w2[l]) = PairOf(w2[k]), Before(l, k, w2[l].dst)
         PROVE  Before(f[l], f[k], w2[l].dst)
    <2>1. PICK d : d = w2[l].dst
      OBVIOUS
    <2>2. d = w2[k].dst
      BY <1>24, <2>1 DEF PairOf
    <2>3. PICK r, s : r = Rank(l, d) /\ s = Rank(k, d)
      OBVIOUS
    <2>4. l \in Places /\ k \in Places /\ r \in Nat /\ s \in Nat /\ l[3] \in Nat /\ k[3] \in Nat
      BY <1>19, <1>23, <2>1, <2>2, <2>3, RankIs, PlaceParts
    <2>5. r < s \/ (r = s /\ l[3] < k[3])
      BY <1>24, <2>1, <2>3, BeforeIs
    <2>6. r = s => l[1] = k[1] /\ l[2] = k[2] /\ (l[1] = Port => l = k)
      <3>1. ASSUME r = s PROVE Rank(l, w2[l].dst) = Rank(k, w2[l].dst)
        BY <2>1, <2>3, <3>1
      <3>2. OnRoute(l, w2[l]) /\ OnRoute(k, w2[k])
        BY <1>23
      <3> QED BY <1>24, <2>4, <3>1, <3>2, SameRank
    <2>7. PICK h : h = Hops(n, d)
      OBVIOUS
    <2>8. m.dst = d => Rank(to, d) = 3 * h - 2 /\ Rank(from, d) = 3 * h - 1 /\ h \in Nat \ {0}
      <3> SUFFICES ASSUME m.dst = d
                   PROVE  Rank(to, d) = 3 * h - 2 /\ Rank(from, d) = 3 * h - 1
                          /\ h \in Nat \ {0}
        OBVIOUS
      <3>1. to[1] = Port /\ to[2] = n /\ from[1] = OutQ /\ from[2] = n
        BY <1>12
      <3>2. Rank(to, m.dst) = 3 * Hops(n, m.dst) + 1 - 3
        BY <3>1 DEF Rank
      <3>3. Rank(from, m.dst) = 3 * Hops(n, m.dst) + 2 - 3
        BY <3>1 DEF Rank
      <3>4. Hops(n, m.dst) \in Nat \ {0}
        BY <1>21, OneHop
      <3> QED BY <2>7, <3>2, <3>3, <3>4
    <2>9. CASE l # to /\ k # to
      <3>1. Rank(f[l], d) = r /\ Rank(f[k], d) = s
        BY <1>23, <2>1, <2>2, <2>3, <2>9
      <3>2. r = s => f[l][3] < f[k][3]
        BY <1>23, <2>4, <2>5, <2>6, <2>9
      <3>3. r < s \/ (r = s /\ f[l][3] < f[k][3])
        BY <2>4, <2>5, <3>2
      <3> QED BY <2>1, <3>1, <3>3, BeforeIs
    <2>10. CASE l = to
      <3>1. k # to
        BY <2>3, <2>4, <2>5, <2>10
      <3>2. r = 3 * h - 2 /\ Rank(f[l], d) = 3 * h - 1 /\ f[l][3] = 1 /\ h \in Nat \ {0}
        <4>1. m.dst = d /\ f[l] = from /\ from[3] = 1 /\ r = Rank(to, d)
          <5>1. m.dst = d
            BY <1>17, <2>1, <2>10
          <5>2. f[l] = from
            BY <1>15, <2>10
          <5>3. from[3] = 1 /\ r = Rank(to, d)
            BY <1>12, <2>3, <2>10
          <5> QED BY <5>1, <5>2, <5>3
        <4> QED BY <2>8, <4>1
      <3>3. Rank(f[k], d) = s
        BY <1>23, <2>2, <2>3, <3>1
      <3>4. s # r
        BY <1>12, <2>6, <2>10, <3>1
      <3>5. s = 3 * h - 1 => 1 < f[k][3]
        <4>1. ASSUME s = 3 * h - 1 PROVE 1 < f[k][3]
          <5>1. f[k] \in Places /\ OnRoute(f[k], w2[k]) /\ OnRoute(from, m) /\ m = w2[l]
            BY <1>11, <1>17, <1>19, <1>21, <1>23, <2>10, PlaceOf
          <5>2. Rank(f[k], d) = Rank(from, d)
            BY <1>17, <2>1, <2>8, <2>10, <3>3, <4>1
          <5>3. f[k][1] = OutQ /\ f[k][2] = n
            BY <1>12, <1>13, <1>24, <2>1, <5>1, <5>2, SameRank
          <5>4. k[1] = OutQ /\ k[2] = n
            <6>1. CASE k[1] = OutQ /\ k[2] = n /\ k[3] # 0
              BY <6>1
            <6>2. CASE ~(k[1] = OutQ /\ k[2] = n /\ k[3] # 0)
              BY <1>15, <2>4, <3>1, <5>3, <6>2
            <6> QED BY <6>1, <6>2
          <5>5. f[k][3] = k[3] + 1 /\ k[3] # 0
            BY <1>7, <1>10, <1>23, <2>4, <3>1, <5>4 DEF IsPlaced
          <5> QED BY <2>4, <5>5
        <4> QED BY <4>1
      <3>6. 3 * h - 1 < s \/ (3 * h - 1 = s /\ f[l][3] < f[k][3])
        BY <2>4, <2>5, <3>2, <3>4, <3>5, SMTT(30)
      <3> QED BY <2>1, <3>2, <3>3, <3>6, BeforeIs
    <2>11. CASE l # to /\ k = to
      <3>1. s = 3 * h - 2 /\ Rank(f[k], d) = 3 * h - 1 /\ h \in Nat \ {0}
        BY <1>15, <1>17, <2>2, <2>3, <2>8, <2>11
      <3>2. Rank(f[l], d) = r
        BY <1>23, <2>1, <2>3, <2>11
      <3>3. s # r
        BY <1>12, <2>6, <2>11
      <3>4. r < 3 * h - 1
        BY <2>4, <2>5, <3>1, <3>3
      <3> QED BY <2>1, <3>1, <3>2, <3>4, BeforeIs
    <2> QED BY <2>9, <2>10, <2>11
  <1>25. Ordered(w2, count, total)
    BY <1>11, <1>15, <1>18, <1>19, <1>20, <1>23, <1>24, Relocated
  <1> QED BY <1>8, <1>9, <1>25 DEF Net

\* A message goes from a port to the end of a queue of the node the port leads
\* to: to ntwk_in_queue if it is for that node, else to ntwk_out_queue.
LEMMA MovedOn ==
    ASSUME NEW w, NEW w2, NEW count, NEW total, Ordered(w, count, total),
           NEW from \in DOMAIN w, from[1] = Port, NEW m, m = w[from],
           NEW n, n = Neighbour(from[2], from[3]),
           NEW to \in Places, to \notin DOMAIN w,
           to[1] = IF m.dst = n THEN InQ ELSE OutQ, to[2] = n,
           \A l \in DOMAIN w : l[1] = to[1] /\ l[2] = n => l[3] < to[3],
           DOMAIN w2 = (DOMAIN w \ {from}) \cup {to}, w2[to] = m,
           \A l \in DOMAIN w : l # from => w2[l] = w[l]
    PROVE  Ordered(w2, count, total)
  <1>1. /\ from \in Places /\ OnRoute(from, m) /\ m \in Message /\ m.dst \in Nodes
        /\ m.src \in Nodes /\ m.src # m.dst
    BY PlaceOf
  <1>2. PICK d, b : d = m.dst /\ b = from[2]
    OBVIOUS
  <1>3. /\ d \in Nodes /\ b \in Nodes /\ b # d /\ from[3] = Turns(b, d)
        /\ Turns(b, d) = Turns(m.src, d) /\ Hops(b, d) <= Hops(m.src, d)
    BY <1>1, <1>2, PlaceParts DEF OnRoute
  <1>4. PICK h : h = Hops(b, d)
    OBVIOUS
  <1>5. h \in Nat \ {0}
    BY <1>2, <1>3, <1>4, OneHop
  <1>6. Hops(n, d) = h - 1 /\ (n # d => Turns(n, d) = Turns(b, d))
    BY <1>2, <1>3, <1>4, OneHop
  <1>7. OnRoute(to, m)
    <2>1. CASE n = d
      BY <1>1, <1>2, <2>1 DEF OnRoute
    <2>2. CASE n # d
      <3>1. Hops(n, d) <= Hops(m.src, d)
        <4>1. h <= Hops(m.src, d) /\ Hops(m.src, d) \in Nat
          BY <1>1, <1>2, <1>3, <1>4, OneHop
        <4> QED BY <1>5, <1>6, <4>1
      <3> QED BY <1>1, <1>2, <1>3, <1>6, <2>2, <3>1 DEF OnRoute
    <2> QED BY <2>1, <2>2
  <1>8. Rank(from, d) = 3 * h - 2
    BY <1>2, <1>4, <1>5 DEF Rank
  <1>9. Rank(to, d) = IF n = d THEN 0 ELSE 3 * h - 4
    BY <1>2, <1>5, <1>6 DEF Rank
  \* Of the same pair, nothing is between the two places.
  <1>10. n = d => h = 1
    <2>1. ASSUME n = d, h # 1 PROVE FALSE
      <3>1. n \in Nodes /\ h - 1 \in Nat \ {0}
        BY <1>3, <1>5, <2>1
      <3>2. Hops(d, d) = 0
        <4>1. (d + N - d) % N = 0
          BY <1>3, RightDistance DEF Nodes
        <4>2. N \div 2 \in Nat
          BY Half
        <4> QED BY <4>1, <4>2 DEF Hops, Turns
      <3> QED BY <1>6, <2>1, <3>1, <3>2
    <2> QED BY <2>1
  <1>11. ASSUME NEW l \in DOMAIN w, l # from, PairOf(w[l]) = PairOf(m), NEW r, r = Rank(l, d)
         PROVE  /\ l \in Places /\ OnRoute(l, w[l]) /\ w[l].dst = d /\ r \in Nat
                /\ r # 3 * h - 2
                /\ n # d => r # 3 * h - 3
                /\ r = Rank(to, d) => l[3] < to[3]
    <2>1. l \in Places /\ OnRoute(l, w[l]) /\ w[l].dst = d /\ w[l].src = m.src
      BY <1>2, <1>11, PlaceOf DEF PairOf
    <2>2. r \in Nat
      BY <1>11, <2>1, RankIs
    <2>3. r # 3 * h - 2
      <3>1. ASSUME r = 3 * h - 2 PROVE FALSE
        <4>1. Rank(from, m.dst) = Rank(l, m.dst)
          BY <1>2, <1>8, <1>11, <3>1
        <4>2. from = l
          BY <1>1, <1>11, <2>1, <4>1, SameRank
        <4> QED BY <1>11, <4>2
      <3> QED BY <3>1
    <2>4. r = Rank(to, d) => l[3] < to[3]
      <3>1. ASSUME r = Rank(to, d) PROVE l[3] < to[3]
        <4>1. Rank(to, m.dst) = Rank(l, m.dst)
          BY <1>2, <1>11, <3>1
        <4>2. to[1] = l[1] /\ to[2] = l[2]
          BY <1>7, <1>11, <2>1, <4>1, SameRank
        <4> QED BY <1>11, <4>2
      <3> QED BY <3>1
    <2>5. ASSUME n # d PROVE r # 3 * h - 3
      <3>1. ASSUME r = 3 * h - 3 PROVE FALSE
        <4>1. PICK g : g = Hops(l[2], d)
          OBVIOUS
        <4>2. n \in Nodes /\ h - 1 \in Nat \ {0}
          <5>1. n \in Nodes
            BY <1>1, <1>2, PlaceParts
          <5> QED BY <1>3, <1>5, <1>6, <2>5, <5>1, OneHop
        <4>3. l[1] # InQ
          <5>1. ASSUME l[1] = InQ PROVE FALSE
            <6>1. Rank(l, w[l].dst) = 0
              BY <2>1, <5>1, RankIs
            <6>2. r = 0
              BY <1>11, <2>1, <6>1
            <6> QED BY <1>5, <3>1, <4>2, <6>2
          <5> QED BY <5>1
        <4>4. g \in Nat \ {0} /\ r = 3 * g + l[1] - 3 /\ l[1] \in {1, 2, 3}
          BY <1>11, <2>1, <4>1, <4>3, RankIs, PlaceParts
        <4>5. l[1] = NextQ /\ g = h - 1
          BY <1>5, <3>1, <4>4
        <4>6. Hops(m.src, d) = h - 1
          BY <2>1, <4>1, <4>5 DEF OnRoute
        <4> QED BY <1>3, <1>4, <1>5, <4>6
      <3> QED BY <3>1
    <2> QED BY <2>1, <2>2, <2>3, <2>4, <2>5
  <1>12. PICK f : f = [l \in Places |-> IF l = to THEN from ELSE IF l = from THEN to ELSE l]
    OBVIOUS
  <1>13. /\ f \in [Places -> Places] /\ f[to] = from /\ f[from] = to
         /\ \A l \in Places : l # to /\ l # from => f[l] = l
    BY <1>1, <1>12
  <1>14. DOMAIN w \subseteq Places /\ DOMAIN w2 \subseteq Places
    BY DEF Ordered
  <1>15. \A l \in Places : l \in DOMAIN w2 <=> f[l] \in DOMAIN w
    BY <1>13
  <1>16. \A l \in DOMAIN w2 : w2[l] = w[f[l]]
    BY <1>13, <1>14
  <1>17. \A l \in DOMAIN w : \E k \in Places : f[k] = l
    BY <1>13, <1>14
  <1>18. \A l \in DOMAIN w2 : OnRoute(l, w2[l])
    BY <1>7, PlaceOf
  <1>19. ASSUME NEW l \in DOMAIN w2, NEW k \in DOMAIN w2,
                PairOf(w2[l]) = PairOf(w2[k]), Before(l, k, w2[l].dst)
         PROVE  Before(f[l], f[k], w2[l].dst)
    <2>1. CASE l # to /\ k # to
      <3>1. f[l] = l /\ f[k] = k
        BY <1>13, <1>14, <2>1
      <3> QED BY <1>19, <3>1
    <2>2. CASE l = to /\ k = to
      <3>1. PICK r, i : r = Rank(to, d) /\ i = to[3]
        OBVIOUS
      <3>2. r \in Nat /\ i \in Nat
        BY <1>2, <1>7, <3>1, RankIs, PlaceParts
      <3>3. Before(to, to, d)
        BY <1>2, <1>19, <2>2
      <3>4. r < r \/ (r = r /\ i < i)
        BY <3>1, <3>3, BeforeIs
      <3> QED BY <3>2, <3>4
    <2>3. CASE l = to /\ k # to
      <3>1. PICK r : r = Rank(k, d)
        OBVIOUS
      <3>2. k \in DOMAIN w /\ k # from /\ w2[k] = w[k] /\ PairOf(w[k]) = PairOf(m)
        BY <1>19, <2>3
      <3>3. /\ r \in Nat /\ r # 3 * h - 2 /\ (n # d => r # 3 * h - 3)
            /\ (r = Rank(to, d) => k[3] < to[3]) /\ k \in Places
        BY <1>11, <3>1, <3>2
      <3>4. Rank(to, d) < r \/ (Rank(to, d) = r /\ to[3] < k[3])
        BY <1>2, <1>19, <2>3, <3>1, BeforeIs
      <3>5. PICK i, j : i = to[3] /\ j = k[3]
        OBVIOUS
      <3>6. i \in Nat /\ j \in Nat
        BY <3>3, <3>5, PlaceParts
      <3>7. Rank(to, d) < r
        BY <3>3, <3>4, <3>5, <3>6
      <3>8. 3 * h - 2 < r
        BY <1>5, <1>9, <1>10, <3>3, <3>7
      <3>9. Before(from, k, d)
        BY <1>8, <3>1, <3>8, BeforeIs
      <3>10. f[k] = k /\ f[l] = from
        BY <1>13, <2>3, <3>2, <3>3
      <3> QED BY <1>2, <2>3, <3>9, <3>10
    <2>4. CASE l # to /\ k = to
      <3>1. PICK r : r = Rank(l, d)
        OBVIOUS
      <3>2. l \in DOMAIN w /\ l # from /\ w2[l] = w[l] /\ PairOf(w[l]) = PairOf(m)
        BY <1>19, <2>4
      <3>3. r \in Nat /\ w2[l].dst = d /\ l \in Places
        BY <1>11, <3>1, <3>2
      <3>4. r < Rank(to, d) \/ (r = Rank(to, d) /\ l[3] < to[3])
        BY <1>19, <2>4, <3>1, <3>3, BeforeIs
      <3>5. r < 3 * h - 2
        BY <1>5, <1>9, <3>3, <3>4
      <3>6. Before(l, from, d)
        BY <1>8, <3>1, <3>5, BeforeIs
      <3>7. f[l] = l /\ f[k] = from
        BY <1>13, <2>4, <3>2, <3>3
      <3> QED BY <3>3, <3>6, <3>7
    <2> QED BY <2>1, <2>2, <2>3, <2>4
  <1> QED BY <1>13, <1>14, <1>15, <1>16, <1>17, <1>18, <1>19, Relocated

\* A message m that has arrived from b at port p of n is pulled.
Pulled(ou, li, in, ou2, li2, in2, n, p, b, m) ==
    /\ b = Neighbour(n, p) /\ li[b][1 - p] # Nothing /\ m = li[b][1 - p].message
    /\ li2 = [li EXCEPT ![b] = [li[b] EXCEPT ![1 - p] = Nothing]]
    /\ ou2 = IF m.dst = n THEN ou ELSE [ou EXCEPT ![n] = Append(ou[n], m)]
    /\ in2 = IF m.dst = n THEN [in EXCEPT ![n] = Append(in[n], m)] ELSE in

LEMMA PullOne ==
    ASSUME NEW nx, NEW ou, NEW li, NEW in, NEW count, NEW total,
           Net(nx, ou, li, in, count, total), NEW n \in Nodes, NEW p \in Ports,
           NEW b, NEW m, NEW ou2, NEW li2, NEW in2,
           Pulled(ou, li, in, ou2, li2, in2, n, p, b, m)
    PROVE  Net(nx, ou2, li2, in2, count, total)
  <1>1. PICK on : on = [li[b] EXCEPT ![1 - p] = Nothing]
    OBVIOUS
  <1>2. /\ b = Neighbour(n, p) /\ li[b][1 - p] # Nothing /\ m = li[b][1 - p].message
        /\ li2 = [li EXCEPT ![b] = on]
        /\ ou2 = IF m.dst = n THEN ou ELSE [ou EXCEPT ![n] = Append(ou[n], m)]
        /\ in2 = IF m.dst = n THEN [in EXCEPT ![n] = Append(in[n], m)] ELSE in
    BY <1>1 DEF Pulled
  <1>3. Shaped(nx, ou, li, in) /\ Ordered(Placed(nx, ou, li, in), count, total)
    BY DEF Net
  <1>4. PICK q : q = 1 - p
    OBVIOUS
  <1>5. q \in Ports /\ b \in Nodes /\ b # n /\ n = Neighbour(b, q)
    BY <1>2, <1>4, Neighbours
  <1>6. m \in Message
    <2>1. li[b][q] \in OnPort /\ li[b][q] # Nothing
      BY <1>2, <1>3, <1>4, <1>5 DEF Shaped
    <2>2. li[b][q] \in [tof : Nat, message : Message]
      BY <2>1 DEF OnPort
    <2> QED BY <1>2, <1>4, <2>2
  <1>7. /\ on \in [Ports -> OnPort] /\ on[q] = Nothing
        /\ \A i \in Ports : i # q => on[i] = li[b][i]
    <2>1. li[b] \in [Ports -> OnPort] /\ Nothing \in OnPort
      BY <1>3, <1>5 DEF Shaped, OnPort
    <2> QED BY <1>1, <1>4, <1>5, <2>1
  <1>8. /\ li2 \in [Nodes -> [Ports -> OnPort]] /\ li2[b] = on
        /\ \A k \in Nodes : k # b => li2[k] = li[k]
    BY <1>2, <1>3, <1>5, <1>7 DEF Shaped
  <1>9. /\ ou2 \in [Nodes -> Seq(Message)] /\ in2 \in [Nodes -> Seq(Message)]
        /\ ou2[n] = (IF m.dst = n THEN ou[n] ELSE Append(ou[n], m))
        /\ in2[n] = (IF m.dst = n THEN Append(in[n], m) ELSE in[n])
        /\ \A k \in Nodes : k # n => ou2[k] = ou[k] /\ in2[k] = in[k]
    <2>1. ou \in [Nodes -> Seq(Message)] /\ in \in [Nodes -> Seq(Message)]
      BY <1>3 DEF Shaped
    <2>2. Append(ou[n], m) \in Seq(Message) /\ Append(in[n], m) \in Seq(Message)
      BY <1>6, <2>1, AppendIs
    <2>3. CASE m.dst = n
      BY <1>2, <2>1, <2>2, <2>3
    <2>4. CASE m.dst # n
      BY <1>2, <2>1, <2>2, <2>4
    <2> QED BY <2>3, <2>4
  <1>10. Shaped(nx, ou2, li2, in2)
    BY <1>3, <1>8, <1>9 DEF Shaped
  <1>11. PICK w, w2 : w = Placed(nx, ou, li, in) /\ w2 = Placed(nx, ou2, li2, in2)
    OBVIOUS
  <1>12. IsPlaced(w, nx, ou, li, in) /\ IsPlaced(w2, nx, ou2, li2, in2)
    BY <1>11, PlacedIs
  <1>13. Ordered(w, count, total)
    BY <1>3, <1>11
  <1>14. PICK from : from = <<Port, b, q>>
    OBVIOUS
  <1>15. from \in Places /\ from[1] = Port /\ from[2] = b /\ from[3] = q
    <2>1. from[1] = Port /\ from[2] = b /\ from[3] = q
      BY <1>14
    <2>2. q \in Nat /\ Port \in 0 .. 3 /\ b \in Nodes
      BY <1>5 DEF Ports
    <2>3. from \in Places
      BY <1>14, <2>2, Zenon DEF Places
    <2> QED BY <2>1, <2>3
  <1>16. from \in DOMAIN w /\ w[from] = m /\ from \notin DOMAIN w2
    BY <1>2, <1>4, <1>5, <1>7, <1>8, <1>12, <1>15 DEF IsPlaced
  <1>17. /\ Len(in[n]) \in Nat /\ Len(Append(in[n], m)) = Len(in[n]) + 1
         /\ \A i \in 1 .. Len(in[n]) : Append(in[n], m)[i] = in[n][i]
         /\ Append(in[n], m)[Len(in[n]) + 1] = m
         /\ Len(ou[n]) \in Nat /\ Len(Append(ou[n], m)) = Len(ou[n]) + 1
         /\ \A i \in 1 .. Len(ou[n]) : Append(ou[n], m)[i] = ou[n][i]
         /\ Append(ou[n], m)[Len(ou[n]) + 1] = m
    <2>1. ou[n] \in Seq(Message) /\ in[n] \in Seq(Message)
      BY <1>3 DEF Shaped
    <2> QED BY <1>6, <2>1, AppendIs
  <1>18. PICK to : to = IF m.dst = n THEN <<InQ, n, Len(in[n]) + 1>>
                                     ELSE <<OutQ, n, Len(ou[n]) + 1>>
    OBVIOUS
  <1>19. /\ to \in Places /\ to[1] = (IF m.dst = n THEN InQ ELSE OutQ) /\ to[2] = n
         /\ to[3] = (IF m.dst = n THEN Len(in[n]) + 1 ELSE Len(ou[n]) + 1)
    BY <1>17, <1>18 DEF Places
  <1>20. to \notin DOMAIN w /\ to \in DOMAIN w2 /\ w2[to] = m
    <2>1. CASE m.dst = n
      BY <1>9, <1>12, <1>17, <1>19, <2>1, SMTT(30) DEF IsPlaced
    <2>2. CASE m.dst # n
      BY <1>9, <1>12, <1>17, <1>19, <2>2, SMTT(30) DEF IsPlaced
    <2> QED BY <2>1, <2>2
  <1>21. \A l \in DOMAIN w : l[1] = to[1] /\ l[2] = n => l[3] < to[3]
    <2>1. CASE m.dst = n
      BY <1>12, <1>17, <1>19, <2>1 DEF IsPlaced
    <2>2. CASE m.dst # n
      BY <1>12, <1>17, <1>19, <2>2 DEF IsPlaced
    <2> QED BY <2>1, <2>2
  <1>22. ASSUME NEW l \in Places, l # to, l # from
         PROVE  (l \in DOMAIN w2 <=> l \in DOMAIN w) /\ (l \in DOMAIN w2 => w2[l] = w[l])
    <2>1. l[1] \in {0, 1, 2, 3} /\ l[2] \in Nodes /\ l[3] \in Nat /\ l = <<l[1], l[2], l[3]>>
      BY PlaceParts
    <2>2. CASE l[1] = NextQ
      BY <1>12, <2>2 DEF IsPlaced
    <2>3. CASE l[1] = Port
      <3>1. CASE l[2] # b
        BY <1>8, <1>12, <2>1, <2>3, <3>1 DEF IsPlaced
      <3>2. CASE l[2] = b
        <4>1. l[3] # q
          BY <1>14, <1>22, <2>1, <2>3, <3>2
        <4> QED BY <1>7, <1>8, <1>12, <2>3, <3>2, <4>1 DEF IsPlaced
      <3> QED BY <3>1, <3>2
    <2>4. CASE l[1] = InQ
      <3>1. CASE l[2] # n
        BY <1>9, <1>12, <2>1, <2>4, <3>1 DEF IsPlaced
      <3>2. CASE l[2] = n /\ m.dst # n
        BY <1>9, <1>12, <2>4, <3>2 DEF IsPlaced
      <3>3. CASE l[2] = n /\ m.dst = n
        <4>1. l[3] # Len(in[n]) + 1
          BY <1>18, <1>22, <2>1, <2>4, <3>3
        <4>2. in2[n] = Append(in[n], m)
          BY <1>9, <3>3
        <4>3. l \in DOMAIN w2 <=> l[3] \in 1 .. Len(in[n])
          BY <1>12, <1>17, <2>1, <2>4, <3>3, <4>1, <4>2 DEF IsPlaced
        <4>4. l \in DOMAIN w <=> l[3] \in 1 .. Len(in[n])
          BY <1>12, <2>4, <3>3 DEF IsPlaced
        <4>5. ASSUME l \in DOMAIN w2 PROVE w2[l] = w[l]
          <5>1. w2[l] = in2[n][l[3]] /\ w[l] = in[n][l[3]]
            BY <1>12, <2>4, <3>3, <4>3, <4>4, <4>5 DEF IsPlaced
          <5>2. Append(in[n], m)[l[3]] = in[n][l[3]]
            BY <1>17, <4>3, <4>5
          <5> QED BY <4>2, <5>1, <5>2
        <4> QED BY <4>3, <4>4, <4>5
      <3> QED BY <3>1, <3>2, <3>3
    <2>5. CASE l[1] = OutQ
      <3>1. CASE l[2] # n
        <4>1. ou2[l[2]] = ou[l[2]]
          BY <1>9, <2>1, <3>1
        <4> QED BY <1>12, <2>5, <4>1 DEF IsPlaced
      <3>2. CASE l[2] = n /\ m.dst = n
        BY <1>9, <1>12, <2>5, <3>2 DEF IsPlaced
      <3>3. CASE l[2] = n /\ m.dst # n
        <4>1. l[3] # Len(ou[n]) + 1
          BY <1>18, <1>22, <2>1, <2>5, <3>3
        <4>2. ou2[n] = Append(ou[n], m)
          BY <1>9, <3>3
        <4>3. l \in DOMAIN w2 <=> l[3] \in 1 .. Len(ou[n])
          BY <1>12, <1>17, <2>1, <2>5, <3>3, <4>1, <4>2 DEF IsPlaced
        <4> QED BY <1>12, <1>17, <2>5, <3>3, <4>2, <4>3 DEF IsPlaced
      <3> QED BY <3>1, <3>2, <3>3
    <2> QED BY <2>1, <2>2, <2>3, <2>4, <2>5
  <1>23. DOMAIN w2 = (DOMAIN w \ {from}) \cup {to}
    BY <1>12, <1>16, <1>20, <1>22 DEF IsPlaced
  <1>24. \A l \in DOMAIN w : l # from => w2[l] = w[l]
    <2> SUFFICES ASSUME NEW l \in DOMAIN w, l # from PROVE w2[l] = w[l]
      OBVIOUS
    <2>1. l \in Places /\ l # to
      BY <1>12, <1>20 DEF IsPlaced
    <2> QED BY <1>22, <2>1
  <1>25. Ordered(w2, count, total)
    <2>1. n = Neighbour(from[2], from[3])
      BY <1>5, <1>15
    <2>2. m = w[from] /\ from[1] = Port /\ from \in DOMAIN w
      BY <1>15, <1>16
    <2>3. to \in Places /\ to[1] = (IF m.dst = n THEN InQ ELSE OutQ) /\ to[2] = n
      BY <1>19
    <2> QED BY <1>13, <1>20, <1>21, <1>23, <1>24, <2>1, <2>2, <2>3, MovedOn
  <1> QED BY <1>10, <1>11, <1>25 DEF Net

\* The message at the head of a ntwk_in_queue, at place from, is taken out.
Taken(w, w2, from, count, count2) ==
    /\ from \in DOMAIN w /\ from[1] = InQ /\ from[3] = 1
    /\ \A l \in DOMAIN w : l[1] = InQ => l[3] # 0
    /\ count2 \in [Pairs -> Nat]
    /\ count2[PairOf(w[from])] = count[PairOf(w[from])] + 1
    /\ \A q \in Pairs : q # PairOf(w[from]) => count2[q] = count[q]
    /\ DOMAIN w2 = DOMAIN w \ {from} /\ \A l \in DOMAIN w2 : w2[l] = w[l]

\* It is the one its pair expects; without it, the others are in order.
LEMMA TakenAway ==
    ASSUME NEW w, NEW w2, NEW from, NEW count, NEW count2, NEW total,
           Ordered(w, count, total), Taken(w, w2, from, count, count2)
    PROVE  w[from].no = count[PairOf(w[from])] /\ Ordered(w2, count2, total)
  <1>1. from \in DOMAIN w /\ from[1] = InQ /\ from[3] = 1
    BY DEF Taken
  <1>2. PICK m, p : m = w[from] /\ p = PairOf(w[from])
    OBVIOUS
  <1>3. /\ from \in Places /\ OnRoute(from, m) /\ m \in Message /\ p \in Pairs /\ m.no \in Nat
        /\ count[p] <= m.no /\ m.no < total[p] /\ count[p] \in Nat /\ total[p] \in Nat
    BY <1>1, <1>2, PlaceOf
  <1>4. ASSUME NEW l \in DOMAIN w, l # from, PairOf(w[l]) = p
        PROVE  Before(from, l, m.dst)
    <2>1. l \in Places /\ OnRoute(l, w[l]) /\ w[l].dst = m.dst
      BY <1>2, <1>4, PlaceOf DEF PairOf
    <2>2. Before(from, l, m.dst) \/ Before(l, from, m.dst)
      BY <1>1, <1>2, <1>3, <1>4, <2>1, Comparable
    <2>3. ASSUME Before(l, from, m.dst) PROVE FALSE
      <3>1. PICK r, s : r = Rank(l, m.dst) /\ s = Rank(from, m.dst)
        OBVIOUS
      <3>2. s = 0 /\ r \in Nat
        BY <1>1, <1>3, <2>1, <3>1, RankIs
      <3>3. r < s \/ (r = s /\ l[3] < from[3])
        BY <2>3, <3>1, BeforeIs
      <3>4. r = s /\ l[3] = 0
        BY <1>1, <2>1, <3>2, <3>3, PlaceParts
      <3>5. l[1] = InQ
        BY <1>1, <1>2, <1>3, <1>4, <2>1, <3>1, <3>4, SameRank
      <3> QED BY <1>4, <3>4, <3>5 DEF Taken
    <2> QED BY <2>2, <2>3
  <1>5. m.no = count[p]
    <2>1. PICK l \in DOMAIN w : PairOf(w[l]) = p /\ w[l].no = count[p]
      <3>1. count[p] <= count[p] /\ count[p] < total[p]
        BY <1>3
      <3> QED BY <1>3, <3>1 DEF Ordered
    <2>2. CASE l = from
      BY <1>2, <2>1, <2>2
    <2>3. CASE l # from
      <3>1. Before(from, l, w[from].dst)
        BY <1>2, <1>4, <2>1, <2>3
      <3>2. w[from].no < w[l].no
        BY <1>1, <1>2, <2>1, <3>1 DEF Ordered
      <3> QED BY <1>2, <1>3, <2>1, <3>2
    <2> QED BY <2>2, <2>3
  <1>6. /\ count \in [Pairs -> Nat] /\ total \in [Pairs -> Nat] /\ DOMAIN w \subseteq Places
        /\ \A q \in Pairs : count[q] <= total[q]
    BY DEF Ordered
  <1>7. /\ count2 \in [Pairs -> Nat] /\ count2[p] = count[p] + 1
        /\ \A q \in Pairs : q # p => count2[q] = count[q]
    BY <1>2 DEF Taken
  <1>8. \A q \in Pairs : count2[q] <= total[q]
    <2> SUFFICES ASSUME NEW q \in Pairs PROVE count2[q] <= total[q]
      OBVIOUS
    <2>1. CASE q = p
      BY <1>3, <1>5, <1>7, <2>1
    <2>2. CASE q # p
      BY <1>6, <1>7, <2>2
    <2> QED BY <2>1, <2>2
  <1>9. DOMAIN w2 = DOMAIN w \ {from} /\ \A l \in DOMAIN w2 : w2[l] = w[l]
    BY DEF Taken
  <1>10. ASSUME NEW l \in DOMAIN w2
         PROVE  /\ OnRoute(l, w2[l]) /\ count2[PairOf(w2[l])] <= w2[l].no
                /\ w2[l].no < total[PairOf(w2[l])]
    <2>1. l \in DOMAIN w /\ l # from /\ w2[l] = w[l]
      BY <1>9
    <2>2. PICK q : q = PairOf(w[l])
      OBVIOUS
    <2>3. /\ OnRoute(l, w[l]) /\ q \in Pairs /\ w[l].no \in Nat
          /\ count[q] <= w[l].no /\ w[l].no < total[q]
      BY <2>1, <2>2, PlaceOf
    <2>4. CASE q = p
      <3>1. Before(from, l, w[from].dst)
        BY <1>2, <1>4, <2>1, <2>2, <2>4
      <3>2. m.no < w[l].no
        BY <1>1, <1>2, <2>1, <2>2, <2>4, <3>1 DEF Ordered
      <3>3. count2[q] <= w[l].no
        BY <1>3, <1>5, <1>7, <2>3, <2>4, <3>2
      <3> QED BY <2>1, <2>2, <2>3, <3>3
    <2>5. CASE q # p
      BY <1>7, <2>1, <2>2, <2>3, <2>5
    <2> QED BY <2>4, <2>5
  <1>11. ASSUME NEW l \in DOMAIN w2, NEW k \in DOMAIN w2,
                PairOf(w2[l]) = PairOf(w2[k]), Before(l, k, w2[l].dst)
         PROVE  w2[l].no < w2[k].no
    <2>1. l \in DOMAIN w /\ k \in DOMAIN w /\ w2[l] = w[l] /\ w2[k] = w[k]
      BY <1>9
    <2> QED BY <1>11, <2>1 DEF Ordered
  <1>12. ASSUME NEW q \in Pairs, NEW i \in Nat, count2[q] <= i, i < total[q]
         PROVE  \E l \in DOMAIN w2 : PairOf(w2[l]) = q /\ w2[l].no = i
    <2>1. count[q] <= i /\ (q = p => i # m.no)
      BY <1>3, <1>5, <1>6, <1>7, <1>12
    <2>2. PICK l \in DOMAIN w : PairOf(w[l]) = q /\ w[l].no = i
      BY <1>12, <2>1 DEF Ordered
    <2>3. l # from
      BY <1>2, <2>1, <2>2
    <2> QED BY <1>9, <2>2, <2>3
  <1> QED BY <1>2, <1>5, <1>6, <1>7, <1>8, <1>9, <1>10, <1>11, <1>12 DEF Ordered

\* The head m of ntwk_in_queue, of pair p, is handed to the cache or the directory.
Handed(in, in2, count, count2, n, m, p) ==
    /\ in[n] # <<>> /\ m = in[n][1] /\ p = PairOf(m)
    /\ in2 = [in EXCEPT ![n] = Tail(in[n])]
    /\ count2 = [count EXCEPT ![p] = count[p] + 1]

LEMMA HandOne ==
    ASSUME NEW nx, NEW ou, NEW li, NEW in, NEW count, NEW total,
           Net(nx, ou, li, in, count, total), NEW n \in Nodes,
           NEW m, NEW p, NEW in2, NEW count2, Handed(in, in2, count, count2, n, m, p)
    PROVE  /\ Net(nx, ou, li, in2, count2, total)
           /\ p \in Pairs /\ m.dst = n /\ m.no = count[p]
  <1>1. /\ in[n] # <<>> /\ m = in[n][1] /\ p = PairOf(m)
        /\ in2 = [in EXCEPT ![n] = Tail(in[n])]
        /\ count2 = [count EXCEPT ![p] = count[p] + 1]
    BY DEF Handed
  <1>2. Shaped(nx, ou, li, in) /\ Ordered(Placed(nx, ou, li, in), count, total)
    BY DEF Net
  <1>3. /\ Len(in[n]) \in Nat \ {0} /\ m \in Message /\ Tail(in[n]) \in Seq(Message)
        /\ Len(Tail(in[n])) = Len(in[n]) - 1
        /\ \A i \in 1 .. Len(in[n]) - 1 : Tail(in[n])[i] = in[n][i + 1]
    BY <1>1, <1>2, TailIs DEF Shaped
  <1>4. /\ in2 \in [Nodes -> Seq(Message)] /\ in2[n] = Tail(in[n])
        /\ \A k \in Nodes : k # n => in2[k] = in[k]
    BY <1>1, <1>2, <1>3 DEF Shaped
  <1>5. Shaped(nx, ou, li, in2)
    BY <1>2, <1>4 DEF Shaped
  <1>6. PICK w, w2 : w = Placed(nx, ou, li, in) /\ w2 = Placed(nx, ou, li, in2)
    OBVIOUS
  <1>7. IsPlaced(w, nx, ou, li, in) /\ IsPlaced(w2, nx, ou, li, in2)
    BY <1>6, PlacedIs
  <1>8. Ordered(w, count, total)
    BY <1>2, <1>6
  <1>9. PICK from : from = <<InQ, n, 1>>
    OBVIOUS
  <1>10. from \in Places /\ from[1] = InQ /\ from[2] = n /\ from[3] = 1
    BY <1>9 DEF Places
  <1>11. from \in DOMAIN w /\ w[from] = m
    BY <1>1, <1>3, <1>7, <1>10 DEF IsPlaced
  <1>12. \A l \in DOMAIN w : l[1] = InQ => l[3] # 0
    BY <1>7 DEF IsPlaced
  <1>13. PICK w1 : w1 = [l \in DOMAIN w \ {from} |-> w[l]]
    OBVIOUS
  <1>14. m.no = count[p] /\ Ordered(w1, count2, total)
    <2>1. from \in DOMAIN w /\ from[1] = InQ /\ from[3] = 1 /\ m = w[from]
      BY <1>10, <1>11
    <2>2. p = PairOf(w[from]) /\ p \in Pairs
      BY <1>1, <1>8, <2>1, PlaceOf
    <2>3. count \in [Pairs -> Nat]
      BY <1>8 DEF Ordered
    <2>4. /\ count2 \in [Pairs -> Nat] /\ count2[p] = count[p] + 1
          /\ \A q \in Pairs : q # p => count2[q] = count[q]
      BY <1>1, <2>2, <2>3
    <2>5. DOMAIN w1 = DOMAIN w \ {from} /\ \A l \in DOMAIN w1 : w1[l] = w[l]
      BY <1>13
    <2>6. /\ count2[PairOf(w[from])] = count[PairOf(w[from])] + 1
          /\ \A q \in Pairs : q # PairOf(w[from]) => count2[q] = count[q]
      BY <2>2, <2>4
    <2>7. Taken(w, w1, from, count, count2)
      BY <1>12, <2>1, <2>4, <2>5, <2>6 DEF Taken
    <2>8. w[from].no = count[PairOf(w[from])] /\ Ordered(w1, count2, total)
      BY <1>8, <2>7, TakenAway
    <2> QED BY <2>1, <2>2, <2>8
  <1>15. p \in Pairs /\ m.dst = n
    BY <1>1, <1>8, <1>10, <1>11, PlaceOf DEF OnRoute
  <1>16. PICK f : f = [l \in Places |-> IF l[1] = InQ /\ l[2] = n /\ l[3] # 0
                                        THEN <<InQ, n, l[3] + 1>> ELSE l]
    OBVIOUS
  <1>17. /\ f \in [Places -> Places]
         /\ \A l \in Places : l[1] = InQ /\ l[2] = n /\ l[3] # 0 => f[l] = <<InQ, n, l[3] + 1>>
         /\ \A l \in Places : ~(l[1] = InQ /\ l[2] = n /\ l[3] # 0) => f[l] = l
    <2>1. ASSUME NEW l \in Places PROVE <<InQ, n, l[3] + 1>> \in Places
      BY PlaceParts DEF Places
    <2> QED BY <1>16, <2>1
  <1>18. \A l \in DOMAIN w1 : l \in DOMAIN w /\ l # from /\ w1[l] = w[l] /\ l \in Places
    BY <1>7, <1>13 DEF IsPlaced
  <1>19. ASSUME NEW l \in Places
         PROVE  (l \in DOMAIN w2 <=> f[l] \in DOMAIN w1) /\ (l \in DOMAIN w2 => w2[l] = w1[f[l]])
    <2>1. CASE l[1] = InQ /\ l[2] = n /\ l[3] # 0
      <3>1. PICK g : g = <<InQ, n, l[3] + 1>>
        OBVIOUS
      <3>2. g = f[l] /\ g \in Places /\ g[1] = InQ /\ g[2] = n /\ g[3] = l[3] + 1
        BY <1>17, <2>1, <3>1
      <3>3. l[3] \in Nat
        BY PlaceParts
      <3>4. g # from
        BY <1>10, <2>1, <3>2, <3>3
      <3>5. g \in DOMAIN w1 <=> g \in DOMAIN w
        BY <1>13, <3>4
      <3>6. g \in DOMAIN w <=> l[3] + 1 \in 1 .. Len(in[n])
        BY <1>7, <3>2 DEF IsPlaced
      <3>7. g \in DOMAIN w => w[g] = in[n][l[3] + 1]
        BY <1>7, <3>2 DEF IsPlaced
      <3>8. l \in DOMAIN w2 <=> l[3] \in 1 .. Len(Tail(in[n]))
        BY <1>4, <1>7, <2>1 DEF IsPlaced
      <3>9. l \in DOMAIN w2 => w2[l] = Tail(in[n])[l[3]]
        BY <1>4, <1>7, <2>1 DEF IsPlaced
      <3>10. (l \in DOMAIN w2 <=> g \in DOMAIN w) /\ (l \in DOMAIN w2 => w2[l] = w[g])
        BY <1>3, <2>1, <3>3, <3>6, <3>7, <3>8, <3>9
      <3> QED BY <1>18, <3>2, <3>5, <3>10
    <2>2. CASE ~(l[1] = InQ /\ l[2] = n /\ l[3] # 0)
      <3>1. f[l] = l /\ l[1] \in {0, 1, 2, 3} /\ l[2] \in Nodes
        BY <1>17, <2>2, PlaceParts
      <3>2. l # from
        BY <1>10, <2>2
      <3>3. l \in DOMAIN w1 <=> l \in DOMAIN w
        BY <1>13, <3>2
      <3>4. (l \in DOMAIN w2 <=> l \in DOMAIN w) /\ (l \in DOMAIN w2 => w2[l] = w[l])
        <4>1. CASE l[1] # InQ
          <5>1. CASE l[1] = Port
            BY <1>7, <5>1 DEF IsPlaced
          <5>2. CASE l[1] = OutQ
            BY <1>7, <5>2 DEF IsPlaced
          <5>3. CASE l[1] = NextQ
            BY <1>7, <5>3 DEF IsPlaced
          <5> QED BY <3>1, <4>1, <5>1, <5>2, <5>3
        <4>2. CASE l[1] = InQ /\ l[2] # n
          BY <1>4, <1>7, <3>1, <4>2 DEF IsPlaced
        <4>3. CASE l[1] = InQ /\ l[3] = 0
          BY <1>7, <4>3 DEF IsPlaced
        <4> QED BY <2>2, <4>1, <4>2, <4>3
      <3> QED BY <1>18, <3>1, <3>3, <3>4
    <2> QED BY <2>1, <2>2
  <1>20. DOMAIN w2 \subseteq Places
    BY <1>7 DEF IsPlaced
  <1>21. \A l \in DOMAIN w2 : l \in Places /\ f[l] \in DOMAIN w1 /\ w2[l] = w1[f[l]]
    BY <1>19, <1>20
  <1>22. \A l \in DOMAIN w1 : \E k \in Places : f[k] = l
    <2> SUFFICES ASSUME NEW l \in DOMAIN w1 PROVE \E k \in Places : f[k] = l
      OBVIOUS
    <2>1. l \in Places /\ l \in DOMAIN w /\ l # from
      BY <1>18
    <2>2. CASE l[1] = InQ /\ l[2] = n
      <3>1. l[3] \in 1 .. Len(in[n]) /\ l = <<InQ, n, l[3]>>
        BY <1>7, <2>1, <2>2, PlaceParts DEF IsPlaced
      <3>2. l[3] # 1
        BY <1>9, <2>1, <3>1
      <3>3. PICK i : i = l[3] - 1
        OBVIOUS
      <3>4. i \in Nat \ {0} /\ i + 1 = l[3]
        BY <1>3, <3>1, <3>2, <3>3
      <3>5. PICK k : k = <<InQ, n, i>>
        OBVIOUS
      <3>6. k \in Places /\ k[1] = InQ /\ k[2] = n /\ k[3] = i
        BY <3>4, <3>5 DEF Places
      <3>7. f[k] = l
        BY <1>17, <3>1, <3>4, <3>6
      <3> QED BY <3>6, <3>7
    <2>3. CASE ~(l[1] = InQ /\ l[2] = n)
      BY <1>17, <2>1, <2>3
    <2> QED BY <2>2, <2>3
  <1>23. ASSUME NEW l \in DOMAIN w2
         PROVE  /\ OnRoute(l, w2[l]) /\ OnRoute(f[l], w2[l])
                /\ Rank(f[l], w2[l].dst) = Rank(l, w2[l].dst)
                /\ f[l][3] = IF l[1] = InQ /\ l[2] = n THEN l[3] + 1 ELSE l[3]
    <2>1. l \in Places /\ f[l] \in DOMAIN w1 /\ w2[l] = w1[f[l]]
      BY <1>21
    <2>2. OnRoute(f[l], w2[l])
      BY <1>14, <2>1, PlaceOf
    <2>3. CASE l[1] = InQ /\ l[2] = n
      <3>1. l[3] # 0
        BY <1>4, <1>7, <2>1, <2>3 DEF IsPlaced
      <3>2. f[l] = <<InQ, n, l[3] + 1>>
        BY <1>17, <2>1, <2>3, <3>1
      <3>3. f[l][1] = l[1] /\ f[l][2] = l[2] /\ f[l][3] = l[3] + 1
        BY <2>3, <3>2
      <3> QED BY <2>2, <2>3, <3>3, SameQueue
    <2>4. CASE ~(l[1] = InQ /\ l[2] = n)
      BY <1>17, <2>1, <2>2, <2>4
    <2> QED BY <2>3, <2>4
  <1>24. ASSUME NEW l \in DOMAIN w2, NEW k \in DOMAIN w2,
                PairOf(w2[l]) = PairOf(w2[k]), Before(l, k, w2[l].dst)
         PROVE  Before(f[l], f[k], w2[l].dst)
    <2>1. PICK d : d = w2[l].dst
      OBVIOUS
    <2>2. d = w2[k].dst
      BY <1>24, <2>1 DEF PairOf
    <2>3. PICK r, s : r = Rank(l, d) /\ s = Rank(k, d)
      OBVIOUS
    <2>4. l \in Places /\ k \in Places /\ l[3] \in Nat /\ k[3] \in Nat
      BY <1>21, PlaceParts
    <2>5. r < s \/ (r = s /\ l[3] < k[3])
      BY <1>24, <2>1, <2>3, BeforeIs
    <2>6. r = s => l[1] = k[1] /\ l[2] = k[2]
      <3>1. ASSUME r = s PROVE Rank(l, w2[l].dst) = Rank(k, w2[l].dst)
        BY <2>1, <2>3, <3>1
      <3>2. OnRoute(l, w2[l]) /\ OnRoute(k, w2[k])
        BY <1>23
      <3> QED BY <1>24, <2>4, <3>1, <3>2, SameRank
    <2>7. Rank(f[l], d) = r /\ Rank(f[k], d) = s
      BY <1>23, <2>1, <2>2, <2>3
    <2>8. r = s => (l[3] < k[3] => f[l][3] < f[k][3])
      BY <1>23, <2>4, <2>6
    <2>9. r < s \/ (r = s /\ f[l][3] < f[k][3])
      BY <2>5, <2>8
    <2> QED BY <2>1, <2>7, <2>9, BeforeIs
  <1>25. Ordered(w2, count2, total)
    BY <1>14, <1>17, <1>19, <1>20, <1>21, <1>22, <1>23, <1>24, Relocated
  <1> QED BY <1>5, <1>6, <1>14, <1>15, <1>25 DEF Net

\* A node sends a message: it is behind all others of its pair.
LEMMA SendOne ==
    ASSUME NEW nx, NEW ou, NEW li, NEW in, NEW count, NEW total,
           Net(nx, ou, li, in, count, total),
           NEW p \in Pairs, NEW fl \in Nat, NEW m,
           m = [src |-> p[1], dst |-> p[2], no |-> total[p], flits |-> fl],
           NEW nx2, nx2 = [nx EXCEPT ![p[1]] = Append(nx[p[1]], m)],
           NEW total2, total2 = [total EXCEPT ![p] = total[p] + 1]
    PROVE  Net(nx2, ou, li, in, count, total2)
  <1>1. Shaped(nx, ou, li, in) /\ Ordered(Placed(nx, ou, li, in), count, total)
    BY DEF Net
  <1>2. PICK n : n = p[1]
    OBVIOUS
  <1>3. n \in Nodes /\ p[2] \in Nodes /\ n # p[2] /\ p = <<p[1], p[2]>>
    BY <1>2, Sizes DEF Pairs
  <1>4. /\ total \in [Pairs -> Nat] /\ count \in [Pairs -> Nat] /\ total[p] \in Nat
        /\ \A q \in Pairs : count[q] <= total[q]
    BY <1>1 DEF Ordered
  <1>5. /\ m \in Message /\ PairOf(m) = p /\ m.src = n /\ m.dst = p[2] /\ m.no = total[p]
    BY <1>2, <1>3, <1>4 DEF Message, PairOf
  <1>6. /\ Append(nx[n], m) \in Seq(Message) /\ Len(Append(nx[n], m)) = Len(nx[n]) + 1
        /\ Len(nx[n]) \in Nat
        /\ \A i \in 1 .. Len(nx[n]) : Append(nx[n], m)[i] = nx[n][i]
        /\ Append(nx[n], m)[Len(nx[n]) + 1] = m
    <2>1. nx[n] \in Seq(Message)
      BY <1>1, <1>3 DEF Shaped
    <2> QED BY <1>5, <2>1, AppendIs
  <1>7. /\ nx2 \in [Nodes -> Seq(Message)] /\ nx2[n] = Append(nx[n], m)
        /\ \A k \in Nodes : k # n => nx2[k] = nx[k]
    BY <1>1, <1>2, <1>3, <1>6 DEF Shaped
  <1>8. Shaped(nx2, ou, li, in)
    BY <1>1, <1>7 DEF Shaped
  <1>9. /\ total2 \in [Pairs -> Nat] /\ total2[p] = total[p] + 1
        /\ \A q \in Pairs : q # p => total2[q] = total[q]
    BY <1>4
  <1>10. PICK w, w2 : w = Placed(nx, ou, li, in) /\ w2 = Placed(nx2, ou, li, in)
    OBVIOUS
  <1>11. IsPlaced(w, nx, ou, li, in) /\ IsPlaced(w2, nx2, ou, li, in)
    BY <1>10, PlacedIs
  <1>12. Ordered(w, count, total)
    BY <1>1, <1>10
  <1>13. PICK to : to = <<NextQ, n, Len(nx[n]) + 1>>
    OBVIOUS
  <1>14. to \in Places /\ to[1] = NextQ /\ to[2] = n /\ to[3] = Len(nx[n]) + 1
    BY <1>3, <1>6, <1>13 DEF Places
  <1>15. to \notin DOMAIN w /\ to \in DOMAIN w2 /\ w2[to] = m
    BY <1>6, <1>7, <1>11, <1>14 DEF IsPlaced
  <1>16. ASSUME NEW l \in Places, l # to
         PROVE  (l \in DOMAIN w2 <=> l \in DOMAIN w) /\ (l \in DOMAIN w2 => w2[l] = w[l])
    <2>1. l[1] \in {0, 1, 2, 3} /\ l[2] \in Nodes /\ l[3] \in Nat /\ l = <<l[1], l[2], l[3]>>
      BY PlaceParts
    <2>2. CASE l[1] = InQ
      BY <1>11, <2>2 DEF IsPlaced
    <2>3. CASE l[1] = Port
      BY <1>11, <2>3 DEF IsPlaced
    <2>4. CASE l[1] = OutQ
      BY <1>11, <2>4 DEF IsPlaced
    <2>5. CASE l[1] = NextQ
      <3>1. CASE l[2] # n
        BY <1>7, <1>11, <2>1, <2>5, <3>1 DEF IsPlaced
      <3>2. CASE l[2] = n
        <4>1. l[3] # Len(nx[n]) + 1
          BY <1>13, <1>16, <2>1, <2>5, <3>2
        <4>2. l \in DOMAIN w2 <=> l[3] \in 1 .. Len(nx[n])
          BY <1>6, <1>7, <1>11, <2>1, <2>5, <3>2, <4>1 DEF IsPlaced
        <4> QED BY <1>6, <1>7, <1>11, <2>5, <3>2, <4>2 DEF IsPlaced
      <3> QED BY <3>1, <3>2
    <2> QED BY <2>1, <2>2, <2>3, <2>4, <2>5
  <1>17. DOMAIN w \subseteq Places /\ DOMAIN w2 \subseteq Places
    BY <1>11 DEF IsPlaced
  <1>18. OnRoute(to, m)
    <2>1. Hops(n, p[2]) \in Nat
      BY <1>3, OneHop
    <2> QED BY <1>3, <1>5, <1>14, <2>1 DEF OnRoute
  \* The others of the pair are nearer.
  <1>19. ASSUME NEW l \in DOMAIN w, PairOf(w[l]) = p
         PROVE  ~Before(to, l, p[2])
    <2>1. /\ l \in Places /\ OnRoute(l, w[l]) /\ w[l].dst = p[2] /\ w[l].src = n
      BY <1>3, <1>5, <1>12, <1>19, PlaceOf DEF PairOf
    <2>2. PICK h, g, r : h = Hops(n, p[2]) /\ g = Hops(l[2], p[2]) /\ r = Rank(l, p[2])
      OBVIOUS
    <2>3. Rank(to, p[2]) = 3 * h /\ h \in Nat \ {0}
      <3>1. Rank(to, p[2]) = 3 * h + 3 - 3
        BY <1>14, <2>2 DEF Rank
      <3>2. h \in Nat \ {0}
        BY <1>3, <2>2, OneHop
      <3> QED BY <3>1, <3>2
    <2>4. r \in Nat /\ r <= 3 * h
      <3>1. CASE l[1] = InQ
        BY <2>1, <2>2, <2>3, <3>1, RankIs
      <3>2. CASE l[1] # InQ
        <4>1. g \in Nat \ {0} /\ r = 3 * g + l[1] - 3 /\ g <= h
          BY <2>1, <2>2, <3>2, RankIs DEF OnRoute
        <4>2. l[1] \in {1, 2, 3}
          BY <2>1, <3>2, PlaceParts
        <4> QED BY <2>3, <4>1, <4>2
      <3> QED BY <3>1, <3>2
    <2>5. r = 3 * h => l[3] <= Len(nx[n]) /\ l[3] \in Nat
      <3>1. ASSUME r = 3 * h PROVE l[3] <= Len(nx[n]) /\ l[3] \in Nat
        <4>1. Rank(to, m.dst) = Rank(l, m.dst)
          BY <1>5, <2>2, <2>3, <3>1
        <4>2. l[1] = NextQ /\ l[2] = n
          BY <1>5, <1>14, <1>18, <1>19, <2>1, <4>1, SameRank
        <4>3. l[3] \in 1 .. Len(nx[n])
          BY <1>11, <2>1, <4>2 DEF IsPlaced
        <4> QED BY <1>6, <4>3
      <3> QED BY <3>1
    <2>6. ASSUME Before(to, l, p[2]) PROVE FALSE
      <3>1. 3 * h < r \/ (3 * h = r /\ to[3] < l[3])
        BY <2>2, <2>3, <2>6, BeforeIs
      <3> QED BY <1>6, <1>14, <2>3, <2>4, <2>5, <3>1
    <2> QED BY <2>6
  <1>20. ~Before(to, to, p[2])
    <2>1. PICK r, i : r = Rank(to, p[2]) /\ i = to[3]
      OBVIOUS
    <2>2. r \in Nat /\ i \in Nat
      BY <1>5, <1>14, <1>18, <2>1, RankIs, PlaceParts
    <2>3. ASSUME Before(to, to, p[2]) PROVE FALSE
      <3>1. r < r \/ (r = r /\ i < i)
        BY <2>1, <2>3, BeforeIs
      <3> QED BY <2>2, <3>1
    <2> QED BY <2>3
  <1>21. \A q \in Pairs : count[q] <= total2[q]
    <2> SUFFICES ASSUME NEW q \in Pairs PROVE count[q] <= total2[q]
      OBVIOUS
    <2>1. count[q] \in Nat /\ total[q] \in Nat /\ count[q] <= total[q]
      BY <1>4
    <2>2. total2[q] = total[q] \/ total2[q] = total[q] + 1
      BY <1>9
    <2> QED BY <2>1, <2>2
  <1>22. ASSUME NEW l \in DOMAIN w2
         PROVE  /\ OnRoute(l, w2[l]) /\ count[PairOf(w2[l])] <= w2[l].no
                /\ w2[l].no < total2[PairOf(w2[l])]
    <2>1. CASE l = to
      BY <1>4, <1>5, <1>9, <1>15, <1>18, <2>1
    <2>2. CASE l # to
      <3>1. l \in DOMAIN w /\ w2[l] = w[l]
        BY <1>16, <1>17, <2>2
      <3>2. PICK q : q = PairOf(w[l])
        OBVIOUS
      <3>3. /\ OnRoute(l, w[l]) /\ q \in Pairs /\ w[l].no \in Nat /\ total[q] \in Nat
            /\ count[q] <= w[l].no /\ w[l].no < total[q]
        BY <1>12, <3>1, <3>2, PlaceOf
      <3>4. total2[q] = total[q] \/ total2[q] = total[q] + 1
        BY <1>9, <3>3
      <3>5. w[l].no < total2[q]
        BY <3>3, <3>4
      <3> QED BY <3>1, <3>2, <3>3, <3>5
    <2> QED BY <2>1, <2>2
  <1>23. ASSUME NEW l \in DOMAIN w2, NEW k \in DOMAIN w2,
                PairOf(w2[l]) = PairOf(w2[k]), Before(l, k, w2[l].dst)
         PROVE  w2[l].no < w2[k].no
    <2>1. CASE l # to /\ k # to
      <3>1. l \in DOMAIN w /\ w2[l] = w[l] /\ k \in DOMAIN w /\ w2[k] = w[k]
        BY <1>16, <1>17, <2>1
      <3> QED BY <1>12, <1>23, <3>1 DEF Ordered
    <2>2. CASE l # to /\ k = to
      <3>1. l \in DOMAIN w /\ w2[l] = w[l] /\ PairOf(w[l]) = p /\ w2[k].no = total[p]
        BY <1>5, <1>15, <1>16, <1>17, <1>23, <2>2
      <3> QED BY <1>12, <3>1, PlaceOf
    <2>3. CASE l = to
      <3>1. w2[l].dst = p[2]
        BY <1>5, <1>15, <2>3
      <3>2. CASE k = to
        BY <1>20, <1>23, <2>3, <3>1, <3>2
      <3>3. CASE k # to
        <4>1. k \in DOMAIN w /\ PairOf(w[k]) = p
          BY <1>5, <1>15, <1>16, <1>17, <1>23, <2>3, <3>3
        <4> QED BY <1>19, <1>23, <2>3, <3>1, <4>1
      <3> QED BY <3>2, <3>3
    <2> QED BY <2>1, <2>2, <2>3
  <1>24. ASSUME NEW q \in Pairs, NEW i \in Nat, count[q] <= i, i < total2[q]
         PROVE  \E l \in DOMAIN w2 : PairOf(w2[l]) = q /\ w2[l].no = i
    <2>1. CASE q = p /\ i = total[p]
      BY <1>5, <1>15, <2>1
    <2>2. CASE ~(q = p /\ i = total[p])
      <3>1. i < total[q]
        BY <1>4, <1>9, <1>24, <2>2
      <3>2. PICK l \in DOMAIN w : PairOf(w[l]) = q /\ w[l].no = i
        BY <1>12, <1>24, <3>1 DEF Ordered
      <3>3. l # to /\ l \in Places
        BY <1>15, <1>17
      <3> QED BY <1>16, <3>2, <3>3
    <2> QED BY <2>1, <2>2
  <1>25. Ordered(w2, count, total2)
    BY <1>4, <1>9, <1>17, <1>21, <1>22, <1>23, <1>24 DEF Ordered
  <1> QED BY <1>8, <1>10, <1>25 DEF Net

\* What the ports hold is the same, but for the times of flight.
SameOnPorts(li, li2) ==
    \A n \in Nodes, p \in Ports : /\ li2[n][p] = Nothing <=> li[n][p] = Nothing
                                  /\ li[n][p] # Nothing => li2[n][p].message = li[n][p].message

\* ntwk_out_next joins ntwk_out_queue.
LEMMA QueuesJoined ==
    ASSUME NEW nx, NEW ou, NEW li, NEW in, NEW count, NEW total,
           Net(nx, ou, li, in, count, total),
           NEW nx2, nx2 = [n \in Nodes |-> <<>>],
           NEW ou2, ou2 = [n \in Nodes |-> ou[n] \o nx[n]],
           NEW li2 \in [Nodes -> [Ports -> OnPort]], SameOnPorts(li, li2)
    PROVE  Net(nx2, ou2, li2, in, count, total)
  <1>1. Shaped(nx, ou, li, in) /\ Ordered(Placed(nx, ou, li, in), count, total)
    BY DEF Net
  <1>2. \A n \in Nodes : ou[n] \in Seq(Message) /\ nx[n] \in Seq(Message)
    BY <1>1 DEF Shaped
  <1>3. ASSUME NEW n \in Nodes
        PROVE  /\ ou2[n] \in Seq(Message) /\ nx2[n] = <<>> /\ Len(nx2[n]) = 0
               /\ Len(ou[n]) \in Nat /\ Len(nx[n]) \in Nat
               /\ Len(ou2[n]) = Len(ou[n]) + Len(nx[n])
               /\ \A i \in 1 .. Len(ou2[n]) :
                     ou2[n][i] = IF i <= Len(ou[n]) THEN ou[n][i] ELSE nx[n][i - Len(ou[n])]
    <2>1. ou2[n] = ou[n] \o nx[n] /\ nx2[n] = <<>>
      OBVIOUS
    <2>2. Len(nx2[n]) = 0
      BY <2>1
    <2>3. PICK s, e : s = ou[n] /\ e = nx[n]
      OBVIOUS
    <2>4. s \in Seq(Message) /\ e \in Seq(Message)
      BY <1>2, <2>3
    <2>5. /\ s \o e \in Seq(Message) /\ Len(s) \in Nat /\ Len(e) \in Nat
          /\ Len(s \o e) = Len(s) + Len(e)
          /\ \A i \in 1 .. Len(s) + Len(e) :
                (s \o e)[i] = IF i <= Len(s) THEN s[i] ELSE e[i - Len(s)]
      BY <2>4, ConcatIs
    <2> QED BY <2>1, <2>2, <2>3, <2>5
  <1>4. Shaped(nx2, ou2, li2, in)
    <2>1. ou2 \in [Nodes -> Seq(Message)]
      BY <1>3
    <2>2. nx2 \in [Nodes -> Seq(Message)]
      OBVIOUS
    <2> QED BY <1>1, <2>1, <2>2 DEF Shaped
  <1>5. PICK w, w2 : w = Placed(nx, ou, li, in) /\ w2 = Placed(nx2, ou2, li2, in)
    OBVIOUS
  <1>6. IsPlaced(w, nx, ou, li, in) /\ IsPlaced(w2, nx2, ou2, li2, in)
    BY <1>5, PlacedIs
  <1>7. Ordered(w, count, total)
    BY <1>1, <1>5
  <1>8. DOMAIN w \subseteq Places /\ DOMAIN w2 \subseteq Places
    BY <1>6 DEF IsPlaced
  <1>9. PICK f : f = [l \in Places |->
                        IF l[1] = NextQ THEN <<NextQ, l[2], 0>>
                        ELSE IF l[1] = OutQ /\ l[3] > Len(ou[l[2]])
                             THEN <<NextQ, l[2], l[3] - Len(ou[l[2]])>> ELSE l]
    OBVIOUS
  <1>10. ASSUME NEW l \in Places
         PROVE  /\ f[l] \in Places
                /\ l[1] = NextQ => f[l] = <<NextQ, l[2], 0>>
                /\ l[1] = OutQ /\ l[3] > Len(ou[l[2]])
                   => f[l] = <<NextQ, l[2], l[3] - Len(ou[l[2]])>>
                /\ l[1] # NextQ /\ ~(l[1] = OutQ /\ l[3] > Len(ou[l[2]])) => f[l] = l
    <2>1. l[2] \in Nodes /\ l[3] \in Nat /\ Len(ou[l[2]]) \in Nat
      BY <1>3, PlaceParts
    <2>2. CASE l[1] = NextQ
      <3>1. f[l] = <<NextQ, l[2], 0>>
        BY <1>9, <2>2
      <3> QED BY <2>1, <2>2, <3>1 DEF Places
    <2>3. CASE l[1] = OutQ /\ l[3] > Len(ou[l[2]])
      <3>1. f[l] = <<NextQ, l[2], l[3] - Len(ou[l[2]])>>
        BY <1>9, <2>3
      <3>2. l[3] - Len(ou[l[2]]) \in Nat
        BY <2>1, <2>3
      <3> QED BY <2>1, <2>3, <3>1, <3>2 DEF Places
    <2>4. CASE l[1] # NextQ /\ ~(l[1] = OutQ /\ l[3] > Len(ou[l[2]]))
      BY <1>9, <2>4
    <2> QED BY <2>2, <2>3, <2>4
  <1>11. f \in [Places -> Places]
    BY <1>9, <1>10
  <1>12. ASSUME NEW l \in Places
         PROVE  (l \in DOMAIN w2 <=> f[l] \in DOMAIN w) /\ (l \in DOMAIN w2 => w2[l] = w[f[l]])
    <2>1. PICK n : n = l[2]
      OBVIOUS
    <2>2. n \in Nodes /\ l[3] \in Nat /\ l[1] \in {0, 1, 2, 3}
      BY <2>1, PlaceParts
    <2>3. PICK x, y, z, a, b, c : /\ x = ou[n] /\ y = nx[n] /\ z = ou2[n]
                                  /\ a = Len(x) /\ b = Len(y) /\ c = Len(z)
      OBVIOUS
    <2>4. /\ Len(nx2[n]) = 0 /\ a \in Nat /\ b \in Nat /\ c = a + b
          /\ \A i \in 1 .. c : z[i] = IF i <= a THEN x[i] ELSE y[i - a]
      <3>1. /\ Len(nx2[n]) = 0 /\ Len(ou[n]) \in Nat /\ Len(nx[n]) \in Nat
            /\ Len(ou2[n]) = Len(ou[n]) + Len(nx[n])
            /\ \A i \in 1 .. Len(ou2[n]) :
                ou2[n][i] = IF i <= Len(ou[n]) THEN ou[n][i] ELSE nx[n][i - Len(ou[n])]
        BY <1>3, <2>2
      <3> QED BY <2>3, <3>1, Zenon
    <2>5. l[3] > Len(ou[l[2]]) <=> l[3] > a
      BY <2>1, <2>3
    <2>6. CASE l[1] = InQ
      <3>1. f[l] = l
        BY <1>10, <2>6
      <3> QED BY <1>6, <2>6, <3>1, ZenonT(30) DEF IsPlaced
    <2>7. CASE l[1] = Port
      <3>1. f[l] = l
        BY <1>10, <2>7
      <3>2. l[3] \in Ports => (li2[n][l[3]] = Nothing <=> li[n][l[3]] = Nothing)
        BY <2>2 DEF SameOnPorts
      <3>3. l \in DOMAIN w2 <=> l \in DOMAIN w
        BY <1>6, <2>1, <2>7, <3>2 DEF IsPlaced
      <3>4. ASSUME l \in DOMAIN w2 PROVE w2[l] = w[l]
        <4>1. l[3] \in Ports /\ li[n][l[3]] # Nothing
          BY <1>6, <2>1, <2>7, <3>3, <3>4 DEF IsPlaced
        <4>2. li2[n][l[3]].message = li[n][l[3]].message
          BY <2>2, <4>1 DEF SameOnPorts
        <4> QED BY <1>6, <2>1, <2>7, <3>3, <3>4, <4>2 DEF IsPlaced
      <3> QED BY <3>1, <3>3, <3>4
    <2>8. CASE l[1] = NextQ
      <3>1. f[l] \in Places /\ f[l][1] = NextQ /\ f[l][2] = n /\ f[l][3] = 0
        BY <1>10, <2>1, <2>8
      <3>2. f[l] \notin DOMAIN w
        BY <1>6, <3>1 DEF IsPlaced
      <3>3. l \in DOMAIN w2 <=> l[3] \in 1 .. Len(nx2[n])
        BY <1>6, <2>1, <2>8 DEF IsPlaced
      <3> QED BY <2>4, <3>2, <3>3
    <2>9. CASE l[1] = OutQ /\ ~(l[3] > a)
      <3>1. f[l] = l
        BY <1>10, <2>5, <2>9
      <3>2. l \in DOMAIN w2 <=> l[3] \in 1 .. c
        BY <1>6, <2>1, <2>3, <2>9 DEF IsPlaced
      <3>3. l \in DOMAIN w <=> l[3] \in 1 .. a
        BY <1>6, <2>1, <2>3, <2>9 DEF IsPlaced
      <3>4. l \in DOMAIN w2 <=> l \in DOMAIN w
        BY <2>2, <2>4, <2>9, <3>2, <3>3
      <3>5. ASSUME l \in DOMAIN w2 PROVE w2[l] = w[l]
        <4>1. w2[l] = z[l[3]] /\ w[l] = x[l[3]]
          BY <1>6, <2>1, <2>3, <2>9, <3>4, <3>5 DEF IsPlaced
        <4>2. z[l[3]] = x[l[3]]
          BY <2>2, <2>4, <2>9, <3>2, <3>5
        <4> QED BY <4>1, <4>2
      <3> QED BY <3>1, <3>4, <3>5
    <2>10. CASE l[1] = OutQ /\ l[3] > a
      <3>1. PICK i : i = l[3] - a
        OBVIOUS
      <3>2. i \in Nat \ {0} /\ l[3] = i + a
        <4>1. PICK j : j = l[3]
          OBVIOUS
        <4>2. j \in Nat /\ a \in Nat /\ j > a /\ i = j - a
          BY <2>2, <2>4, <2>10, <3>1, <4>1
        <4>3. i \in Nat \ {0} /\ j = i + a
          BY <4>2
        <4> QED BY <4>1, <4>3
      <3>3. f[l] \in Places /\ f[l][1] = NextQ /\ f[l][2] = n /\ f[l][3] = i
        BY <1>10, <2>1, <2>3, <2>5, <2>10, <3>1
      <3>4. l \in DOMAIN w2 <=> l[3] \in 1 .. c
        BY <1>6, <2>1, <2>3, <2>10 DEF IsPlaced
      <3>5. f[l] \in DOMAIN w <=> i \in 1 .. b
        BY <1>6, <2>3, <3>3 DEF IsPlaced
      <3>6. l \in DOMAIN w2 <=> f[l] \in DOMAIN w
        BY <2>2, <2>4, <2>10, <3>1, <3>2, <3>4, <3>5
      <3>7. ASSUME l \in DOMAIN w2 PROVE w2[l] = w[f[l]]
        <4>1. w2[l] = z[l[3]]
          BY <1>6, <2>1, <2>3, <2>10, <3>7 DEF IsPlaced
        <4>2. w[f[l]] = y[i]
          BY <1>6, <2>3, <3>3, <3>6, <3>7 DEF IsPlaced
        <4>3. z[l[3]] = y[i]
          <5>1. PICK j : j = l[3]
            OBVIOUS
          <5>2. j \in 1 .. c /\ a \in Nat /\ j > a /\ i = j - a
            BY <2>4, <2>10, <3>1, <3>4, <3>7, <5>1
          <5>3. z[j] = IF j <= a THEN x[j] ELSE y[j - a]
            BY <2>4, <5>2
          <5>4. ~(j <= a)
            BY <2>4, <5>2
          <5> QED BY <5>1, <5>2, <5>3, <5>4
        <4> QED BY <4>1, <4>2, <4>3
      <3> QED BY <3>6, <3>7
    <2> QED BY <2>2, <2>6, <2>7, <2>8, <2>9, <2>10
  <1>13. \A l \in DOMAIN w2 : l \in Places /\ f[l] \in DOMAIN w /\ w2[l] = w[f[l]]
    BY <1>8, <1>12
  <1>14. \A l \in DOMAIN w : \E k \in Places : f[k] = l
    <2> SUFFICES ASSUME NEW l \in DOMAIN w PROVE \E k \in Places : f[k] = l
      OBVIOUS
    <2>1. PICK n : n = l[2]
      OBVIOUS
    <2>2. /\ l \in Places /\ n \in Nodes /\ l[3] \in Nat /\ l[1] \in {0, 1, 2, 3}
          /\ l = <<l[1], n, l[3]>>
      BY <1>8, <2>1, PlaceParts
    <2>3. CASE l[1] = NextQ
      <3>1. l[3] \in 1 .. Len(nx[n])
        BY <1>6, <2>1, <2>2, <2>3 DEF IsPlaced
      <3>2. PICK j : j = l[3] + Len(ou[n])
        OBVIOUS
      <3>3. j \in Nat /\ j > Len(ou[n]) /\ j - Len(ou[n]) = l[3]
        BY <1>3, <2>2, <3>1, <3>2
      <3>4. PICK k : k = <<OutQ, n, j>>
        OBVIOUS
      <3>5. k \in Places /\ k[1] = OutQ /\ k[2] = n /\ k[3] = j
        BY <2>2, <3>3, <3>4 DEF Places
      <3>6. f[k] = <<NextQ, n, l[3]>>
        BY <1>10, <3>3, <3>5
      <3> QED BY <2>2, <2>3, <3>5, <3>6
    <2>4. CASE l[1] # NextQ
      <3>1. ~(l[1] = OutQ /\ l[3] > Len(ou[l[2]]))
        <4>1. l[1] = OutQ => l[3] \in 1 .. Len(ou[n])
          BY <1>6, <2>1, <2>2 DEF IsPlaced
        <4> QED BY <1>3, <2>1, <2>2, <4>1
      <3> QED BY <1>10, <2>2, <2>4, <3>1
    <2> QED BY <2>3, <2>4
  <1>15. PICK gone : gone = {l \in DOMAIN w2 : l[1] = OutQ /\ l[3] > Len(ou[l[2]])}
    OBVIOUS
  <1>16. ASSUME NEW l \in DOMAIN w2
         PROVE  /\ OnRoute(l, w2[l]) /\ OnRoute(f[l], w2[l]) /\ l[1] # NextQ
                /\ l \in gone => /\ l[1] = OutQ /\ l[2] = w2[l].src
                                 /\ f[l] = <<NextQ, l[2], l[3] - Len(ou[l[2]])>>
                                 /\ Rank(f[l], w2[l].dst) = Rank(l, w2[l].dst) + 1
                                 /\ Rank(l, w2[l].dst) = 3 * Hops(w2[l].src, w2[l].dst) - 1
                                 /\ l[3] > Len(ou[l[2]])
                /\ l \notin gone => f[l] = l
    <2>1. l \in Places /\ f[l] \in DOMAIN w /\ w2[l] = w[f[l]]
      BY <1>13
    <2>2. OnRoute(f[l], w2[l]) /\ f[l] \in Places
      BY <1>7, <2>1, PlaceOf
    <2>3. l[1] # NextQ
      <3>1. ASSUME l[1] = NextQ PROVE FALSE
        <4>1. l[3] \in 1 .. Len(nx2[l[2]]) /\ l[2] \in Nodes
          BY <1>6, <2>1, <3>1, PlaceParts DEF IsPlaced
        <4> QED BY <1>3, <4>1
      <3> QED BY <3>1
    <2>4. CASE l \in gone
      <3>1. l[1] = OutQ /\ l[3] > Len(ou[l[2]])
        BY <1>15, <2>4
      <3>2. f[l] = <<NextQ, l[2], l[3] - Len(ou[l[2]])>>
        BY <1>10, <2>1, <3>1
      <3>3. f[l][1] = NextQ /\ f[l][2] = l[2]
        BY <3>2
      <3>4. l[2] = w2[l].src
        BY <2>2, <3>3 DEF OnRoute
      <3>5. OnRoute(l, w2[l])
        BY <2>2, <3>1, <3>3 DEF OnRoute
      <3>6. PICK h : h = Hops(w2[l].src, w2[l].dst)
        OBVIOUS
      <3>7. h \in Nat
        BY <2>1, <3>1, <3>4, <3>5, <3>6, RankIs
      <3>8. Rank(l, w2[l].dst) = 3 * h + 2 - 3 /\ Rank(f[l], w2[l].dst) = 3 * h + 3 - 3
        BY <3>1, <3>3, <3>4, <3>6 DEF Rank
      <3> QED BY <2>2, <2>3, <2>4, <3>1, <3>2, <3>4, <3>5, <3>6, <3>7, <3>8
    <2>5. CASE l \notin gone
      <3>1. ~(l[1] = OutQ /\ l[3] > Len(ou[l[2]]))
        BY <1>15, <2>5
      <3>2. f[l] = l
        BY <1>10, <2>1, <2>3, <3>1
      <3> QED BY <2>2, <2>3, <2>5, <3>2
    <2> QED BY <2>4, <2>5
  <1>17. ASSUME NEW l \in DOMAIN w2, NEW k \in DOMAIN w2,
                PairOf(w2[l]) = PairOf(w2[k]), Before(l, k, w2[l].dst)
         PROVE  Before(f[l], f[k], w2[l].dst)
    <2>1. PICK d, src : d = w2[l].dst /\ src = w2[l].src
      OBVIOUS
    <2>2. d = w2[k].dst /\ src = w2[k].src
      BY <1>17, <2>1 DEF PairOf
    <2>3. PICK r, s, h : r = Rank(l, d) /\ s = Rank(k, d) /\ h = Hops(src, d)
      OBVIOUS
    <2>4. /\ l \in Places /\ k \in Places /\ r \in Nat /\ s \in Nat
          /\ l[3] \in Nat /\ k[3] \in Nat
      BY <1>13, <1>16, <2>1, <2>2, <2>3, RankIs, PlaceParts
    <2>5. r < s \/ (r = s /\ l[3] < k[3])
      BY <1>17, <2>1, <2>3, BeforeIs
    <2>6. r = s => l[1] = k[1] /\ l[2] = k[2]
      <3>1. ASSUME r = s PROVE Rank(l, w2[l].dst) = Rank(k, w2[l].dst)
        BY <2>1, <2>3, <3>1
      <3>2. OnRoute(l, w2[l]) /\ OnRoute(k, w2[k])
        BY <1>16
      <3> QED BY <1>17, <2>4, <3>1, <3>2, SameRank
    <2>7. h \in Nat
      <3>1. src \in Nodes /\ d \in Nodes /\ src # d
        BY <1>7, <1>13, <2>1, PlaceOf
      <3> QED BY <2>3, <3>1, OneHop
    <2>8. CASE l \notin gone /\ k \notin gone
      BY <1>16, <1>17, <2>8
    <2>9. CASE l \notin gone /\ k \in gone
      <3>1. f[l] = l /\ Rank(f[k], d) = s + 1
        BY <1>16, <2>2, <2>3, <2>9
      <3>2. r < s + 1
        BY <2>4, <2>5
      <3>3. Before(f[l], f[k], d)
        BY <2>3, <3>1, <3>2, BeforeIs
      <3> QED BY <2>1, <3>3
    <2>10. CASE l \in gone /\ k \notin gone
      <3>1. r = 3 * h - 1 /\ l[1] = OutQ /\ l[3] > Len(ou[l[2]])
        BY <1>16, <2>1, <2>3, <2>10
      <3>2. s <= 3 * h - 1
        <4>1. CASE k[1] = InQ
          <5>1. s = 0
            BY <1>16, <2>2, <2>3, <2>4, <4>1, RankIs
          <5> QED BY <2>4, <3>1, <5>1
        <4>2. CASE k[1] # InQ
          <5>1. PICK g : g = Hops(k[2], d)
            OBVIOUS
          <5>2. g \in Nat \ {0} /\ s = 3 * g + k[1] - 3
            BY <1>16, <2>2, <2>3, <2>4, <4>2, <5>1, RankIs
          <5>3. g <= h
            BY <1>16, <2>2, <2>3, <4>2, <5>1 DEF OnRoute
          <5>4. k[1] \in {1, 2}
            BY <1>16, <2>4, <4>2, PlaceParts
          <5> QED BY <2>7, <5>2, <5>3, <5>4
        <4> QED BY <4>1, <4>2
      <3>3. r = s /\ l[3] < k[3]
        BY <2>4, <2>5, <2>7, <3>1, <3>2
      <3>4. k[1] = OutQ /\ k[3] > Len(ou[k[2]])
        <4>1. k[1] = OutQ /\ k[2] = l[2] /\ l[2] \in Nodes
          BY <2>4, <2>6, <3>1, <3>3, PlaceParts
        <4>2. Len(ou[l[2]]) \in Nat
          BY <1>3, <4>1
        <4> QED BY <2>4, <3>1, <3>3, <4>1, <4>2
      <3> QED BY <1>15, <2>10, <3>4
    <2>11. CASE l \in gone /\ k \in gone
      <3>1. /\ Rank(f[l], d) = r + 1 /\ Rank(f[k], d) = s + 1 /\ r = 3 * h - 1 /\ s = 3 * h - 1
            /\ l[2] = src /\ k[2] = src
        BY <1>16, <2>1, <2>2, <2>3, <2>11
      <3>2. PICK c : c = Len(ou[src])
        OBVIOUS
      <3>3. c \in Nat
        BY <1>3, <2>4, <3>1, <3>2, PlaceParts
      <3>4. f[l][3] = l[3] - c /\ f[k][3] = k[3] - c
        BY <1>16, <2>11, <3>1, <3>2
      <3>5. f[l][3] < f[k][3]
        <4>1. l[3] < k[3]
          BY <2>4, <2>5, <3>1
        <4> QED BY <2>4, <3>3, <3>4, <4>1
      <3>6. Before(f[l], f[k], d)
        <4>1. Rank(f[l], d) = Rank(f[k], d)
          BY <3>1
        <4> QED BY <3>5, <4>1, BeforeIs
      <3> QED BY <2>1, <3>6
    <2> QED BY <2>8, <2>9, <2>10, <2>11
  <1>18. Ordered(w2, count, total)
    BY <1>7, <1>8, <1>11, <1>12, <1>13, <1>14, <1>16, <1>17, Relocated
  <1> QED BY <1>4, <1>5, <1>18 DEF Net

-----------------------------------------------------------------------------
(* A tick, move by move.                                                    *)

LEMMA LeavingIs ==
    ASSUME NEW n \in Nodes, outQueue[n] \in Seq(Message)
    PROVE  /\ Leaving(n) \in 0 .. 2 /\ Leaving(n) <= Len(outQueue[n])
           /\ \A i \in 1 .. Leaving(n) :
                /\ link[n][OutPort(n, outQueue[n][i])] = Nothing
                /\ \A j \in 1 .. i - 1 : OutPort(n, outQueue[n][j]) # OutPort(n, outQueue[n][i])
  <1> DEFINE port(i) == OutPort(n, outQueue[n][i])
             fits(k) == \A i \in 1 .. k : /\ link[n][port(i)] = Nothing
                                          /\ \A j \in 1 .. i - 1 : port(j) # port(i)
             ok == {k \in 0 .. 2 : k <= Len(outQueue[n]) /\ fits(k)}
  <1>1. Leaving(n) = CHOOSE k \in ok : \A j \in ok : j <= k
    BY DEF Leaving
  <1>2. 0 \in ok /\ ok \subseteq {0, 1, 2}
    <2>1. Len(outQueue[n]) \in Nat
      OBVIOUS
    <2> QED BY <2>1
  <1>3. \E k \in ok : \A j \in ok : j <= k
    <2> HIDE DEF ok
    <2>1. CASE 2 \in ok
      BY <1>2, <2>1
    <2>2. CASE 2 \notin ok /\ 1 \in ok
      BY <1>2, <2>2
    <2>3. CASE 2 \notin ok /\ 1 \notin ok
      BY <1>2, <2>3
    <2> QED BY <2>1, <2>2, <2>3
  <1>4. Leaving(n) \in ok
    <2> HIDE DEF ok
    <2> QED BY <1>1, <1>3
  <1> QED BY <1>4

\* OutPort is the direction of the proofs.
LEMMA OutPortIs ==
    ASSUME NEW n, NEW m
    PROVE  OutPort(n, m) = Turns(n, m.dst)
  BY DEF OutPort, Turns

\* The first part of a tick: messages go to the ports.
LEMMA TickLoads ==
    ASSUME NEW count, NEW total, Net(outNext, outQueue, link, inQueue, count, total),
           NEW n \in Nodes, NEW ou,
           ou = [outQueue EXCEPT ![n] = SubSeq(outQueue[n], Leaving(n) + 1, Len(outQueue[n]))],
           NEW li, li = [link EXCEPT ![n] = Loaded(n)]
    PROVE  Net(outNext, ou, li, inQueue, count, total)
  <1>1. PICK q, k : q = outQueue[n] /\ k = Leaving(n)
    OBVIOUS
  <1>2. /\ outQueue \in [Nodes -> Seq(Message)] /\ link \in [Nodes -> [Ports -> OnPort]]
        /\ q \in Seq(Message) /\ Len(q) \in Nat
    BY <1>1 DEF Net, Shaped
  <1>3. /\ k \in {0, 1, 2} /\ k <= Len(q)
        /\ \A i \in 1 .. k : /\ link[n][OutPort(n, q[i])] = Nothing
                             /\ \A j \in 1 .. i - 1 : OutPort(n, q[j]) # OutPort(n, q[i])
    BY <1>1, <1>2, LeavingIs
  <1>4. Loaded(n) = [p \in Ports |->
                       IF {i \in 1 .. k : OutPort(n, q[i]) = p} = {} THEN link[n][p]
                       ELSE [tof |-> q[CHOOSE i \in {i \in 1 .. k : OutPort(n, q[i]) = p} :
                                         TRUE].flits,
                             message |-> q[CHOOSE i \in {i \in 1 .. k : OutPort(n, q[i]) = p} :
                                             TRUE]]]
    BY <1>1 DEF Loaded
  <1>5. CASE k = 0
    <2>1. SubSeq(q, 1, Len(q)) = q
      BY <1>2
    <2>2. ou = outQueue
      BY <1>1, <1>2, <1>5, <2>1
    <2>3. \A p \in Ports : {i \in 1 .. k : OutPort(n, q[i]) = p} = {}
      BY <1>5
    <2>4. Loaded(n) = [p \in Ports |-> link[n][p]]
      BY <1>4, <2>3
    <2>5. li = link
      BY <1>2, <2>4
    <2> QED BY <2>2, <2>5
  <1>6. ASSUME k # 0
        PROVE  /\ q # <<>> /\ q[1] \in Message /\ OutPort(n, q[1]) \in Ports
               /\ link[n][OutPort(n, q[1])] = Nothing
    <2>1. 1 \in 1 .. k /\ q # <<>> /\ q[1] \in Message
      BY <1>2, <1>3, <1>6
    <2>2. OutPort(n, q[1]) \in Ports
      BY DEF OutPort, Ports
    <2> QED BY <1>3, <2>1, <2>2
  <1>7. PICK m, a : m = q[1] /\ a = OutPort(n, q[1])
    OBVIOUS
  <1>8. PICK x : x = [tof |-> m.flits, message |-> m]
    OBVIOUS
  <1>9. PICK on : on = [link[n] EXCEPT ![a] = x]
    OBVIOUS
  <1>10. PICK ou1, li1 : /\ ou1 = [outQueue EXCEPT ![n] = Tail(outQueue[n])]
                         /\ li1 = [link EXCEPT ![n] = on]
    OBVIOUS
  <1>11. ASSUME k # 0 PROVE Net(outNext, ou1, li1, inQueue, count, total)
    <2>1. outQueue[n] # <<>> /\ m = outQueue[n][1] /\ m.flits \in Nat /\ link[n][a] = Nothing
      BY <1>1, <1>6, <1>7, <1>11 DEF Message
    <2>2. a = Turns(n, m.dst)
      BY <1>7, OutPortIs
    <2> QED BY <1>8, <1>9, <1>10, <2>1, <2>2, LoadOne
  <1>12. CASE k = 1
    <2>1. SubSeq(q, k + 1, Len(q)) = Tail(q)
      <3>1. k + 1 = 2
        BY <1>12
      <3>2. SubSeq(q, 2, Len(q)) = Tail(q)
        BY <1>2, <1>3, <1>12, FrontIs
      <3> QED BY <3>1, <3>2
    <2>2. ou = ou1
      <3>1. ou = [outQueue EXCEPT ![n] = SubSeq(q, k + 1, Len(q))]
        BY <1>1, Zenon
      <3>2. ou1 = [outQueue EXCEPT ![n] = Tail(q)]
        BY <1>1, <1>10, Zenon
      <3> QED BY <2>1, <3>1, <3>2, Zenon
    <2>3. \A p \in Ports : {i \in 1 .. k : OutPort(n, q[i]) = p} = IF p = a THEN {1} ELSE {}
      BY <1>7, <1>12
    <2>4. \A p \in Ports : Loaded(n)[p] = IF p = a THEN x ELSE link[n][p]
      <3> SUFFICES ASSUME NEW p \in Ports
                   PROVE  Loaded(n)[p] = IF p = a THEN x ELSE link[n][p]
        OBVIOUS
      <3>1. PICK S : S = {i \in 1 .. k : OutPort(n, q[i]) = p}
        OBVIOUS
      <3>2. S = IF p = a THEN {1} ELSE {}
        BY <2>3, <3>1
      <3>3. Loaded(n)[p] = IF S = {} THEN link[n][p]
                           ELSE [tof |-> q[CHOOSE i \in S : TRUE].flits,
                                 message |-> q[CHOOSE i \in S : TRUE]]
        BY <1>4, <3>1
      <3>4. (CHOOSE i \in {1} : TRUE) = 1
        OBVIOUS
      <3> QED BY <1>7, <1>8, <3>2, <3>3, <3>4
    <2>5. DOMAIN Loaded(n) = Ports /\ DOMAIN on = Ports
      BY <1>2, <1>4, <1>9
    <2>6. Loaded(n) = [p \in Ports |-> Loaded(n)[p]]
      BY <1>4
    <2>7. \A p \in Ports : on[p] = IF p = a THEN x ELSE link[n][p]
      BY <1>2, <1>9
    <2>8. on = [p \in Ports |-> on[p]]
      BY <1>2, <1>9
    <2>9. Loaded(n) = on
      BY <2>4, <2>6, <2>7, <2>8
    <2>10. li = li1
      BY <1>10, <2>9, Zenon
    <2>11. Net(outNext, ou1, li1, inQueue, count, total)
      BY <1>11, <1>12
    <2> QED BY <2>2, <2>10, <2>11, Zenon
  <1>13. CASE k = 2
    <2>1. /\ Tail(q) \in Seq(Message) /\ Tail(q) # <<>> /\ Tail(q)[1] = q[2]
          /\ q[2] \in Message /\ Len(q) >= 2
      <3>1. Len(q) >= 2
        BY <1>3, <1>13
      <3>2. Tail(q) \in Seq(Message)
        BY <1>2, <1>6, <1>13, TailIs
      <3> QED BY <1>2, <3>1, <3>2, FrontIs
    <2>2. PICK m2, b : m2 = q[2] /\ b = OutPort(n, q[2])
      OBVIOUS
    <2>3. b \in Ports /\ a \in Ports /\ a # b /\ link[n][b] = Nothing
      <3>1. 2 \in 1 .. k /\ 1 \in 1 .. 2 - 1
        BY <1>13
      <3>2. b \in Ports /\ a \in Ports
        BY <1>7, <2>2 DEF OutPort, Ports
      <3> QED BY <1>3, <1>7, <2>2, <3>1, <3>2
    <2>4. PICK x2 : x2 = [tof |-> m2.flits, message |-> m2]
      OBVIOUS
    <2>5. ou1[n] = Tail(q) /\ li1[n] = on /\ on[b] = Nothing
      BY <1>1, <1>2, <1>9, <1>10, <2>3
    <2>6. PICK on2 : on2 = [li1[n] EXCEPT ![b] = x2]
      OBVIOUS
    <2>7. PICK ou2, li2 : /\ ou2 = [ou1 EXCEPT ![n] = Tail(ou1[n])]
                          /\ li2 = [li1 EXCEPT ![n] = on2]
      OBVIOUS
    <2>8. Net(outNext, ou2, li2, inQueue, count, total)
      <3>1. Net(outNext, ou1, li1, inQueue, count, total)
        BY <1>11, <1>13
      <3>2. ou1[n] # <<>> /\ m2 = ou1[n][1] /\ m2.flits \in Nat /\ li1[n][b] = Nothing
        BY <2>1, <2>2, <2>5 DEF Message
      <3>3. b = Turns(n, m2.dst)
        BY <2>2, OutPortIs
      <3> QED BY <2>4, <2>6, <2>7, <3>1, <3>2, <3>3, LoadOne
    <2>9. ou = ou2
      <3>1. SubSeq(q, k + 1, Len(q)) = Tail(Tail(q))
        <4>1. k + 1 = 3
          BY <1>13
        <4>2. SubSeq(q, 3, Len(q)) = Tail(Tail(q))
          BY <1>2, <2>1, FrontIs
        <4> QED BY <4>1, <4>2
      <3>2. ou2 = [outQueue EXCEPT ![n] = Tail(Tail(q))]
        BY <1>1, <1>2, <1>10, <2>5, <2>7
      <3>3. ou = [outQueue EXCEPT ![n] = SubSeq(q, k + 1, Len(q))]
        BY <1>1, Zenon
      <3> QED BY <3>1, <3>2, <3>3, Zenon
    <2>10. \A p \in Ports : {i \in 1 .. k : OutPort(n, q[i]) = p} =
                              IF p = a THEN {1} ELSE IF p = b THEN {2} ELSE {}
      <3>1. 1 .. k = {1, 2}
        BY <1>13
      <3> QED BY <1>7, <2>2, <2>3, <3>1
    <2>11. \A p \in Ports : Loaded(n)[p] = IF p = a THEN x ELSE IF p = b THEN x2 ELSE link[n][p]
      <3> SUFFICES ASSUME NEW p \in Ports
                   PROVE  Loaded(n)[p] = IF p = a THEN x ELSE IF p = b THEN x2 ELSE link[n][p]
        OBVIOUS
      <3>1. PICK S : S = {i \in 1 .. k : OutPort(n, q[i]) = p}
        OBVIOUS
      <3>2. S = IF p = a THEN {1} ELSE IF p = b THEN {2} ELSE {}
        BY <2>10, <3>1
      <3>3. Loaded(n)[p] = IF S = {} THEN link[n][p]
                           ELSE [tof |-> q[CHOOSE i \in S : TRUE].flits,
                                 message |-> q[CHOOSE i \in S : TRUE]]
        BY <1>4, <3>1
      <3>4. (CHOOSE i \in {1} : TRUE) = 1 /\ (CHOOSE i \in {2} : TRUE) = 2
        OBVIOUS
      <3>5. CASE p = a
        BY <1>7, <1>8, <3>2, <3>3, <3>4, <3>5
      <3>6. CASE p # a /\ p = b
        BY <2>2, <2>4, <3>2, <3>3, <3>4, <3>6
      <3>7. CASE p # a /\ p # b
        BY <3>2, <3>3, <3>7
      <3> QED BY <3>5, <3>6, <3>7
    <2>12. Loaded(n) = [p \in Ports |-> Loaded(n)[p]]
      BY <1>4
    <2>13. on2 = [p \in Ports |-> on2[p]] /\ on = [p \in Ports |-> on[p]]
      BY <1>2, <1>9, <2>5, <2>6
    <2>14. \A p \in Ports : on2[p] = IF p = a THEN x ELSE IF p = b THEN x2 ELSE link[n][p]
      <3>1. \A p \in Ports : on[p] = IF p = a THEN x ELSE link[n][p]
        BY <1>2, <1>9
      <3>2. \A p \in Ports : on2[p] = IF p = b THEN x2 ELSE on[p]
        BY <2>5, <2>6, <2>13
      <3> QED BY <2>3, <3>1, <3>2
    <2>15. Loaded(n) = on2
      BY <2>11, <2>12, <2>13, <2>14
    <2>16. li2 = [link EXCEPT ![n] = on2]
      BY <1>2, <1>10, <2>7
    <2> QED BY <2>8, <2>9, <2>15, <2>16
  <1> QED BY <1>3, <1>5, <1>12, <1>13

\* The second part: what has arrived at port p joins a queue.
PulledAt(ou, li, in, ou2, li2, in2, n, p) ==
    /\ li[Neighbour(n, p)][1 - p] = Incoming(n, p)
    /\ ou2 = [ou EXCEPT ![n] = ou[n] \o Past(n, p)]
    /\ in2 = [in EXCEPT ![n] = in[n] \o For(n, p)]
    /\ li2 = [k \in Nodes |-> [r \in Ports |->
                 IF k = Neighbour(n, p) /\ r = 1 - p /\ Arrived(n, p) THEN Nothing ELSE li[k][r]]]

LEMMA TickPulls ==
    ASSUME NEW ou, NEW li, NEW in, NEW count, NEW total,
           Net(outNext, ou, li, in, count, total), NEW n \in Nodes, NEW p \in Ports,
           NEW ou2, NEW li2, NEW in2, PulledAt(ou, li, in, ou2, li2, in2, n, p)
    PROVE  Net(outNext, ou2, li2, in2, count, total)
  <1>1. /\ li[Neighbour(n, p)][1 - p] = Incoming(n, p)
        /\ ou2 = [ou EXCEPT ![n] = ou[n] \o Past(n, p)]
        /\ in2 = [in EXCEPT ![n] = in[n] \o For(n, p)]
        /\ li2 = [k \in Nodes |-> [r \in Ports |->
                     IF k = Neighbour(n, p) /\ r = 1 - p /\ Arrived(n, p) THEN Nothing
                     ELSE li[k][r]]]
    BY DEF PulledAt
  <1>2. /\ ou \in [Nodes -> Seq(Message)] /\ in \in [Nodes -> Seq(Message)]
        /\ li \in [Nodes -> [Ports -> OnPort]]
    BY DEF Net, Shaped
  <1>3. PICK b, q : b = Neighbour(n, p) /\ q = 1 - p
    OBVIOUS
  <1>4. b \in Nodes /\ q \in Ports
    BY <1>3, Neighbours
  <1>5. ou[n] \in Seq(Message) /\ in[n] \in Seq(Message)
    BY <1>2
  <1>6. ou[n] \o <<>> = ou[n] /\ in[n] \o <<>> = in[n]
    BY <1>5
  <1>7. [ou EXCEPT ![n] = ou[n]] = ou /\ [in EXCEPT ![n] = in[n]] = in
    BY <1>2
  <1>8. CASE ~Arrived(n, p)
    <2>1. Past(n, p) = <<>> /\ For(n, p) = <<>>
      BY <1>8 DEF Past, For
    <2>2. ou2 = ou /\ in2 = in
      BY <1>1, <1>6, <1>7, <2>1
    <2>3. li2 = [k \in Nodes |-> [r \in Ports |-> li[k][r]]]
      BY <1>1, <1>8
    <2>4. \A k \in Nodes : [r \in Ports |-> li[k][r]] = li[k]
      BY <1>2
    <2>5. li2 = [k \in Nodes |-> li[k]]
      BY <2>3, <2>4
    <2>6. li2 = li
      BY <1>2, <2>5
    <2> QED BY <2>2, <2>6
  <1>9. CASE Arrived(n, p)
    <2>1. PICK m : m = Incoming(n, p).message
      OBVIOUS
    <2>2. li[b][q] # Nothing /\ m = li[b][q].message /\ li[b][q] \in OnPort
      BY <1>1, <1>2, <1>3, <1>4, <1>9, <2>1 DEF Arrived
    <2>3. m \in Message
      <3>1. li[b][q] \in [tof : Nat, message : Message]
        BY <2>2 DEF OnPort
      <3> QED BY <2>2, <3>1
    <2>4. PICK on : on = [li[b] EXCEPT ![q] = Nothing]
      OBVIOUS
    <2>5. li2 = [li EXCEPT ![b] = on]
      <3>1. li2 = [k \in Nodes |-> [r \in Ports |->
                     IF k = b /\ r = q THEN Nothing ELSE li[k][r]]]
        BY <1>1, <1>3, <1>9
      <3>2. on = [r \in Ports |-> IF r = q THEN Nothing ELSE li[b][r]]
        BY <1>2, <1>4, <2>4
      <3>3. [li EXCEPT ![b] = on] = [k \in Nodes |-> IF k = b THEN on ELSE li[k]]
        BY <1>2
      <3>4. ASSUME NEW k \in Nodes
            PROVE  [r \in Ports |-> IF k = b /\ r = q THEN Nothing ELSE li[k][r]] =
                   IF k = b THEN on ELSE li[k]
        <4>1. CASE k = b
          BY <3>2, <4>1
        <4>2. CASE k # b
          <5>1. [r \in Ports |-> li[k][r]] = li[k]
            BY <1>2
          <5> QED BY <4>2, <5>1
        <4> QED BY <4>1, <4>2
      <3> QED BY <3>1, <3>3, <3>4
    <2>6. Append(ou[n], m) = ou[n] \o <<m>> /\ Append(in[n], m) = in[n] \o <<m>>
      BY <1>5, <2>3
    <2>7. ou2 = IF m.dst = n THEN ou ELSE [ou EXCEPT ![n] = Append(ou[n], m)]
      <3>1. Past(n, p) = IF m.dst # n THEN <<m>> ELSE <<>>
        BY <1>9, <2>1 DEF Past
      <3>2. CASE m.dst = n
        BY <1>1, <1>6, <1>7, <3>1, <3>2
      <3>3. CASE m.dst # n
        BY <1>1, <2>6, <3>1, <3>3
      <3> QED BY <3>2, <3>3
    <2>8. in2 = IF m.dst = n THEN [in EXCEPT ![n] = Append(in[n], m)] ELSE in
      <3>1. For(n, p) = IF m.dst = n THEN <<m>> ELSE <<>>
        BY <1>9, <2>1 DEF For
      <3>2. CASE m.dst = n
        BY <1>1, <2>6, <3>1, <3>2
      <3>3. CASE m.dst # n
        BY <1>1, <1>6, <1>7, <3>1, <3>3
      <3> QED BY <3>2, <3>3
    <2>9. /\ b = Neighbour(n, p) /\ li[b][1 - p] # Nothing /\ m = li[b][1 - p].message
          /\ on = [li[b] EXCEPT ![1 - p] = Nothing]
      BY <1>3, <2>2, <2>4
    <2>10. Pulled(ou, li, in, ou2, li2, in2, n, p, b, m)
      BY <2>5, <2>7, <2>8, <2>9 DEF Pulled
    <2> QED BY <2>10, PullOne
  <1> QED BY <1>8, <1>9

\* The first message in n's queue is handed over.
HandedNext(in, in2, rec, rec2, n, m) ==
    /\ in[n] # <<>> /\ m = in[n][1] /\ in2 = [in EXCEPT ![n] = Tail(in[n])]
    /\ rec2 = [p \in Pairs |-> IF PairOf(m) = p THEN Append(rec[p], m.no) ELSE rec[p]]

\* Its number is the one that comes next.
LEMMA TickHandsOne ==
    ASSUME NEW nx, NEW ou, NEW li, NEW in, NEW rec, NEW total,
           Net(nx, ou, li, in, Lens(rec), total), InTurn(rec),
           NEW n \in Nodes, NEW m, NEW in2, NEW rec2, HandedNext(in, in2, rec, rec2, n, m)
    PROVE  /\ Net(nx, ou, li, in2, Lens(rec2), total) /\ InTurn(rec2)
           /\ PairOf(m) \in Pairs /\ m.dst = n
  <1>1. /\ in[n] # <<>> /\ m = in[n][1] /\ in2 = [in EXCEPT ![n] = Tail(in[n])]
        /\ rec2 = [p \in Pairs |-> IF PairOf(m) = p THEN Append(rec[p], m.no) ELSE rec[p]]
    BY DEF HandedNext
  <1>2. PICK p : p = PairOf(m)
    OBVIOUS
  <1>3. PICK count : count = Lens(rec)
    OBVIOUS
  <1>4. PICK count2 : count2 = [count EXCEPT ![p] = count[p] + 1]
    OBVIOUS
  <1>5. /\ Net(nx, ou, li, in2, count2, total)
        /\ p \in Pairs /\ m.dst = n /\ m.no = count[p]
    <2>1. Net(nx, ou, li, in, count, total)
      BY <1>3
    <2>2. Handed(in, in2, count, count2, n, m, p)
      BY <1>1, <1>2, <1>4 DEF Handed
    <2> QED BY <2>1, <2>2, HandOne
  <1>6. rec \in [Pairs -> Seq(Nat)] /\ \A q \in Pairs : rec[q] = Channels!FirstNumbers(Len(rec[q]))
    BY DEF InTurn
  <1>7. m.no = Len(rec[p]) /\ Len(rec[p]) \in Nat
    BY <1>3, <1>5, <1>6 DEF Lens
  <1>8. PICK s, e : s = rec[p] /\ e = Append(rec[p], m.no)
    OBVIOUS
  <1>9. /\ e \in Seq(Nat) /\ Len(e) = Len(s) + 1 /\ e = Channels!FirstNumbers(Len(e))
    <2>1. s \in Seq(Nat) /\ m.no = Len(s) /\ Len(s) \in Nat /\ e = Append(s, Len(s))
      BY <1>5, <1>6, <1>7, <1>8
    <2>2. s = Channels!FirstNumbers(Len(s))
      BY <1>5, <1>6, <1>8
    <2>3. e \in Seq(Nat) /\ Len(e) = Len(s) + 1
      BY <2>1
    <2>4. \A i \in 1 .. Len(s) : s[i] = i - 1
      <3>1. PICK c : c = Len(s)
        OBVIOUS
      <3>2. s = [i \in 1 .. c |-> i - 1]
        BY <2>2, <3>1 DEF Channels!FirstNumbers
      <3>3. \A i \in 1 .. c : s[i] = i - 1
        BY <3>2
      <3> QED BY <3>1, <3>3
    <2>5. ASSUME NEW i \in 1 .. Len(e) PROVE e[i] = i - 1
      <3>1. CASE i <= Len(s)
        BY <2>1, <2>3, <2>4, <3>1
      <3>2. CASE ~(i <= Len(s))
        BY <2>1, <2>3, <3>2
      <3> QED BY <3>1, <3>2
    <2>6. e = [i \in 1 .. Len(e) |-> e[i]]
      BY <2>3
    <2>7. e = [i \in 1 .. Len(e) |-> i - 1]
      BY <2>5, <2>6
    <2> QED BY <2>3, <2>7 DEF Channels!FirstNumbers
  <1>10. \A q \in Pairs : rec2[q] = IF q = p THEN e ELSE rec[q]
    BY <1>1, <1>2, <1>8
  <1>11. InTurn(rec2)
    <2>1. DOMAIN rec2 = Pairs /\ rec2 = [q \in Pairs |-> rec2[q]]
      BY <1>1
    <2>2. \A q \in Pairs : rec2[q] \in Seq(Nat)
      BY <1>6, <1>9, <1>10
    <2>3. rec2 \in [Pairs -> Seq(Nat)]
      BY <2>1, <2>2
    <2>4. \A q \in Pairs : rec2[q] = Channels!FirstNumbers(Len(rec2[q]))
      BY <1>6, <1>9, <1>10
    <2> QED BY <2>3, <2>4 DEF InTurn
  <1>12. Lens(rec2) = count2
    <2>1. count2 = [q \in Pairs |-> IF q = p THEN Len(s) + 1 ELSE Len(rec[q])]
      BY <1>3, <1>4, <1>5, <1>8 DEF Lens
    <2>2. \A q \in Pairs : Len(rec2[q]) = IF q = p THEN Len(s) + 1 ELSE Len(rec[q])
      BY <1>9, <1>10
    <2>3. Lens(rec2) = [q \in Pairs |-> IF q = p THEN Len(s) + 1 ELSE Len(rec[q])]
      BY <2>2 DEF Lens
    <2> QED BY <2>1, <2>3
  <1> QED BY <1>2, <1>5, <1>11, <1>12

\* What one message adds to the numbers from src.
NumberOf(m, src) == IF m.src = src THEN <<m.no>> ELSE <<>>

LEMMA NumbersAre ==
    ASSUME NEW src, NEW q
    PROVE  /\ NumbersFrom(src, q, 0) = <<>> \o <<>>
           /\ NumbersFrom(src, q, 1) = NumberOf(q[1], src) \o <<>>
           /\ NumbersFrom(src, q, 2) = NumberOf(q[1], src) \o NumberOf(q[2], src)
  <1>1. ~(1 <= 0) /\ ~(2 <= 0) /\ 1 <= 1 /\ ~(2 <= 1) /\ 1 <= 2 /\ 2 <= 2
    OBVIOUS
  <1> QED BY <1>1, Zenon DEF NumbersFrom, NumberOf

\* What is for n and from p's source is of pair p, if p leads to n.
LEMMA IsOfPair ==
    ASSUME NEW m, NEW n, NEW p \in Pairs, m.dst = n
    PROVE  PairOf(m) = p <=> p[2] = n /\ m.src = p[1]
  BY DEF PairOf, Pairs

\* The numbers of pair p after m.
Adds(rec, rec2, n, m, p) ==
    /\ NumberOf(m, p[1]) \in Seq(Nat)
    /\ rec2[p] = IF p[2] = n THEN rec[p] \o NumberOf(m, p[1]) ELSE rec[p]
    /\ Len(rec2[p]) = Len(rec[p]) \/ Len(rec2[p]) = Len(rec[p]) + 1
    /\ rec[p] \in Seq(Nat) /\ rec2[p] \in Seq(Nat)

LEMMA HandedNextAdds ==
    ASSUME NEW in, NEW in2, NEW rec, NEW rec2, NEW n, NEW m,
           HandedNext(in, in2, rec, rec2, n, m), rec \in [Pairs -> Seq(Nat)],
           m.dst = n, m.no \in Nat, NEW p \in Pairs
    PROVE  Adds(rec, rec2, n, m, p)
  <1>1. rec2[p] = IF PairOf(m) = p THEN Append(rec[p], m.no) ELSE rec[p]
    BY DEF HandedNext
  <1>2. PairOf(m) = p <=> p[2] = n /\ m.src = p[1]
    BY IsOfPair
  <1>3. PICK s : s = rec[p]
    OBVIOUS
  <1>4. s \in Seq(Nat) /\ s \o <<>> = s
    BY <1>3
  <1>5. /\ Append(s, m.no) = s \o <<m.no>> /\ Append(s, m.no) \in Seq(Nat)
        /\ Len(Append(s, m.no)) = Len(s) + 1 /\ <<m.no>> \in Seq(Nat) /\ <<>> \in Seq(Nat)
    BY <1>4, AppendIs, AppendJoins
  <1>6. CASE PairOf(m) = p
    <2>1. rec2[p] = Append(s, m.no) /\ NumberOf(m, p[1]) = <<m.no>> /\ p[2] = n
      BY <1>1, <1>2, <1>3, <1>6 DEF NumberOf
    <2> QED BY <1>3, <1>4, <1>5, <2>1, Zenon DEF Adds
  <1>7. CASE PairOf(m) # p
    <2>1. rec2[p] = s /\ (p[2] = n => NumberOf(m, p[1]) = <<>>)
      BY <1>1, <1>2, <1>3, <1>7 DEF NumberOf
    <2>2. NumberOf(m, p[1]) \in Seq(Nat)
      <3>1. NumberOf(m, p[1]) = <<m.no>> \/ NumberOf(m, p[1]) = <<>>
        BY Zenon DEF NumberOf
      <3> QED BY <1>5, <3>1, Zenon
    <2> QED BY <1>3, <1>4, <2>1, <2>2, Zenon DEF Adds
  <1> QED BY <1>6, <1>7

\* The engine takes one message, or as many as two.
HandedAll(in, in2, rec, rec2, n) ==
    /\ in2 = [in EXCEPT ![n] = SubSeq(in[n], HandedOver(n, in[n]) + 1, Len(in[n]))]
    /\ rec2 = [p \in Pairs |-> IF p[2] = n
                               THEN rec[p] \o NumbersFrom(p[1], in[n], HandedOver(n, in[n]))
                               ELSE rec[p]]

\* The third part of a tick.
LEMMA TickHandsOver ==
    ASSUME NEW nx, NEW ou, NEW li, NEW in, NEW rec, NEW total,
           Net(nx, ou, li, in, Lens(rec), total), InTurn(rec),
           NEW n \in Nodes, NEW in2, NEW rec2, HandedAll(in, in2, rec, rec2, n)
    PROVE  /\ Net(nx, ou, li, in2, Lens(rec2), total) /\ InTurn(rec2)
           /\ \A p \in Pairs : Len(rec2[p]) \in {Len(rec[p]), Len(rec[p]) + 1, Len(rec[p]) + 2}
  <1>1. in \in [Nodes -> Seq(Message)] /\ rec \in [Pairs -> Seq(Nat)]
    BY DEF Net, Shaped, InTurn
  <1>2. PICK q : q = in[n]
    OBVIOUS
  <1>3. q \in Seq(Message) /\ Len(q) \in Nat
    BY <1>1, <1>2
  <1>4. PICK t : t = HandedOver(n, q)
    OBVIOUS
  <1>5. t \in {0, 1, 2} /\ t <= Len(q)
    <2>1. PICK c : c = Len(q)
      OBVIOUS
    <2>2. PICK most : most = IF n = Dir THEN 2 ELSE 1
      OBVIOUS
    <2>3. t = IF c < most THEN c ELSE most
      BY <1>4, <2>1, <2>2, Zenon DEF HandedOver
    <2>4. c \in Nat /\ most \in {1, 2}
      BY <1>3, <2>1, <2>2
    <2> QED BY <2>1, <2>3, <2>4
  <1>6. /\ in2 = [in EXCEPT ![n] = SubSeq(q, t + 1, Len(q))]
        /\ rec2 = [p \in Pairs |-> IF p[2] = n THEN rec[p] \o NumbersFrom(p[1], q, t)
                                   ELSE rec[p]]
    BY <1>2, <1>4, Zenon DEF HandedAll
  <1>7. rec2 = [p \in Pairs |-> rec2[p]] /\ rec = [p \in Pairs |-> rec[p]]
    BY <1>1, <1>6
  <1>8. \A p \in Pairs : rec2[p] = IF p[2] = n THEN rec[p] \o NumbersFrom(p[1], q, t) ELSE rec[p]
    BY <1>6
  <1>9. CASE t = 0
    <2>1. SubSeq(q, t + 1, Len(q)) = q
      BY <1>3, <1>9, FrontIs
    <2>2. in2 = in
      BY <1>1, <1>2, <1>6, <2>1
    <2>3. ASSUME NEW p \in Pairs PROVE rec2[p] = rec[p]
      <3>1. NumbersFrom(p[1], q, t) = <<>> \o <<>>
        BY <1>9, NumbersAre
      <3>2. rec[p] \o (<<>> \o <<>>) = rec[p]
        BY <1>1
      <3> QED BY <1>8, <3>1, <3>2, Zenon
    <2>4. rec2 = rec
      BY <1>7, <2>3
    <2> QED BY <2>2, <2>4, Zenon
  <1>10. ASSUME t # 0
         PROVE  /\ Len(q) >= 1 /\ q # <<>> /\ q[1] \in Message
                /\ SubSeq(q, 2, Len(q)) = Tail(q) /\ q[1].no \in Nat
    <2>1. /\ Len(q) >= 1 /\ q # <<>> /\ q[1] \in Message /\ SubSeq(q, 2, Len(q)) = Tail(q)
      <3>1. Len(q) >= 1
        BY <1>3, <1>5, <1>10
      <3> QED BY <1>3, <3>1, FrontIs
    <2>2. q[1].no \in Nat
      BY <2>1 DEF Message
    <2> QED BY <2>1, <2>2
  <1>11. PICK in1, rec1 : HandedNext(in, in1, rec, rec1, n, q[1]) \/ t = 0
    <2>1. CASE t # 0
      BY <1>2, <1>10, <2>1, Zenon DEF HandedNext
    <2> QED BY <2>1
  <1>12. ASSUME t # 0
         PROVE  /\ Net(nx, ou, li, in1, Lens(rec1), total) /\ InTurn(rec1)
                /\ q[1].dst = n
    BY <1>11, <1>12, TickHandsOne
  <1>13. ASSUME t # 0, NEW p \in Pairs
         PROVE  /\ NumberOf(q[1], p[1]) \in Seq(Nat)
                /\ rec1[p] = IF p[2] = n THEN rec[p] \o NumberOf(q[1], p[1]) ELSE rec[p]
                /\ Len(rec1[p]) = Len(rec[p]) \/ Len(rec1[p]) = Len(rec[p]) + 1
                /\ rec[p] \in Seq(Nat) /\ rec1[p] \in Seq(Nat)
    <2>1. PICK m : m = q[1]
      OBVIOUS
    <2>2. HandedNext(in, in1, rec, rec1, n, m) /\ m.dst = n /\ m.no \in Nat
      BY <1>10, <1>11, <1>12, <1>13, <2>1, Zenon
    <2>3. Adds(rec, rec1, n, m, p)
      BY <1>1, <2>2, HandedNextAdds
    <2> QED BY <2>1, <2>3, Zenon DEF Adds
  <1>14. t # 0 => /\ in1 = [in EXCEPT ![n] = Tail(q)]
                  /\ rec1 = [p \in Pairs |-> rec1[p]]
    <2>1. ASSUME t # 0 PROVE in1 = [in EXCEPT ![n] = Tail(q)]
      BY <1>2, <1>11, <2>1, Zenon DEF HandedNext
    <2>2. ASSUME t # 0 PROVE rec1 = [p \in Pairs |-> rec1[p]]
      BY <1>11, <2>2 DEF HandedNext
    <2> QED BY <2>1, <2>2
  <1>15. CASE t = 1
    <2>1. t # 0 /\ t + 1 = 2
      BY <1>15
    <2>2. in2 = in1
      BY <1>6, <1>10, <1>14, <2>1, Zenon
    <2>3. ASSUME NEW p \in Pairs PROVE rec2[p] = rec1[p]
      <3>1. PICK x : x = NumberOf(q[1], p[1])
        OBVIOUS
      <3>2. NumbersFrom(p[1], q, t) = x \o <<>>
        BY <1>15, <3>1, NumbersAre
      <3>3. x \in Seq(Nat) /\ (rec1[p] = IF p[2] = n THEN rec[p] \o x ELSE rec[p])
        BY <1>13, <2>1, <3>1
      <3>4. x \o <<>> = x
        BY <3>3
      <3> QED BY <1>8, <3>2, <3>3, <3>4, Zenon
    <2>4. rec2 = rec1
      BY <1>7, <1>14, <2>1, <2>3, Zenon
    <2>5. \A p \in Pairs : Len(rec2[p]) = Len(rec[p]) \/ Len(rec2[p]) = Len(rec[p]) + 1
      BY <1>13, <2>1, <2>4, Zenon
    <2> QED BY <1>12, <2>1, <2>2, <2>4, <2>5
  <1>16. CASE t = 2
    <2>1. t # 0 /\ t + 1 = 3 /\ Len(q) >= 2
      BY <1>3, <1>5, <1>16
    <2>2. /\ Tail(q) # <<>> /\ Tail(q)[1] = q[2] /\ q[2] \in Message
          /\ SubSeq(q, 3, Len(q)) = Tail(Tail(q))
      BY <1>3, <2>1, FrontIs
    <2>3. in1 = [in EXCEPT ![n] = Tail(q)] /\ rec1 = [p \in Pairs |-> rec1[p]]
      BY <1>14, <2>1
    <2>4. in1[n] = Tail(q)
      BY <1>1, <2>3
    <2>5. PICK in3, rec3 :
             /\ in3 = [in1 EXCEPT ![n] = Tail(in1[n])]
             /\ rec3 = [p \in Pairs |-> IF PairOf(q[2]) = p THEN Append(rec1[p], q[2].no)
                                        ELSE rec1[p]]
      OBVIOUS
    <2>6. HandedNext(in1, in3, rec1, rec3, n, q[2])
      BY <2>2, <2>4, <2>5, Zenon DEF HandedNext
    <2>7. Net(nx, ou, li, in1, Lens(rec1), total) /\ InTurn(rec1)
      BY <1>12, <2>1
    <2>8. /\ Net(nx, ou, li, in3, Lens(rec3), total) /\ InTurn(rec3)
          /\ q[2].dst = n
      BY <2>6, <2>7, TickHandsOne
    <2>9. in2 = in3
      <3>1. in3 = [in EXCEPT ![n] = Tail(Tail(q))]
        BY <1>1, <2>3, <2>4, <2>5
      <3> QED BY <1>6, <2>1, <2>2, <3>1, Zenon
    <2>10. q[2].no \in Nat /\ rec1 \in [Pairs -> Seq(Nat)]
      BY <2>2, <2>7 DEF Message, InTurn
    <2>11. ASSUME NEW p \in Pairs
           PROVE  /\ rec2[p] = rec3[p]
                  /\ Len(rec2[p]) \in {Len(rec[p]), Len(rec[p]) + 1, Len(rec[p]) + 2}
      <3>1. PICK x, y : x = NumberOf(q[1], p[1]) /\ y = NumberOf(q[2], p[1])
        OBVIOUS
      <3>2. NumbersFrom(p[1], q, t) = x \o y
        BY <1>16, <3>1, NumbersAre
      <3>3. /\ x \in Seq(Nat) /\ rec[p] \in Seq(Nat) /\ rec1[p] \in Seq(Nat)
            /\ rec1[p] = (IF p[2] = n THEN rec[p] \o x ELSE rec[p])
            /\ Len(rec1[p]) = Len(rec[p]) \/ Len(rec1[p]) = Len(rec[p]) + 1
        BY <1>13, <2>1, <3>1
      <3>4. /\ y \in Seq(Nat)
            /\ rec3[p] = (IF p[2] = n THEN rec1[p] \o y ELSE rec1[p])
            /\ Len(rec3[p]) = Len(rec1[p]) \/ Len(rec3[p]) = Len(rec1[p]) + 1
        <4>1. Adds(rec1, rec3, n, q[2], p)
          BY <2>6, <2>8, <2>10, HandedNextAdds
        <4> QED BY <3>1, <4>1, Zenon DEF Adds
      <3>5. PICK s : s = rec[p]
        OBVIOUS
      <3>6. (s \o x) \o y = s \o (x \o y) /\ Len(s) \in Nat
        BY <3>3, <3>4, <3>5, JoinIs
      <3>7. rec2[p] = rec3[p]
        BY <1>8, <3>2, <3>3, <3>4, <3>5, <3>6, Zenon
      <3>8. PICK a, b, c : a = Len(rec[p]) /\ b = Len(rec1[p]) /\ c = Len(rec3[p])
        OBVIOUS
      <3>9. /\ a \in Nat /\ (b = a \/ b = a + 1) /\ (c = b \/ c = b + 1)
        BY <3>3, <3>4, <3>5, <3>6, <3>8, Zenon
      <3>10. c \in {a, a + 1, a + 2}
        BY <3>9
      <3> QED BY <3>7, <3>8, <3>10, Zenon
    <2>12. rec3 = [p \in Pairs |-> rec3[p]]
      BY <2>5
    <2>13. rec2 = rec3
      BY <1>7, <2>11, <2>12, Zenon
    <2> QED BY <2>8, <2>9, <2>11, <2>13, Zenon
  <1> QED BY <1>5, <1>9, <1>15, <1>16

\* A tick is its three parts.
LEMMA TickStep ==
    ASSUME RingInv, NEW n \in Nodes, NodeTick(n)
    PROVE  /\ RingInv'
           /\ \A p \in Pairs : Len(received'[p]) \in
                {Len(received[p]), Len(received[p]) + 1, Len(received[p]) + 2}
  <1>1. /\ Net(outNext, outQueue, link, inQueue, Lens(received), sent) /\ InTurn(received)
    BY DEF RingInv
  <1>2. /\ outQueue \in [Nodes -> Seq(Message)] /\ inQueue \in [Nodes -> Seq(Message)]
        /\ link \in [Nodes -> [Ports -> OnPort]]
    BY <1>1 DEF Net, Shaped
  <1>3. PICK waiting, taken : /\ waiting = inQueue[n] \o For(n, 0) \o For(n, 1)
                              /\ taken = HandedOver(n, waiting)
    OBVIOUS
  <1>4. /\ outQueue' = [outQueue EXCEPT ![n] =
              SubSeq(outQueue[n], Leaving(n) + 1, Len(outQueue[n])) \o Forwarded(n)]
        /\ inQueue' = [inQueue EXCEPT ![n] = SubSeq(waiting, taken + 1, Len(waiting))]
        /\ received' = [p \in Pairs |-> IF p[2] = n
                          THEN received[p] \o NumbersFrom(p[1], waiting, taken)
                          ELSE received[p]]
        /\ link' = [k \in Nodes |->
              LET own == IF k = n THEN Loaded(n) ELSE link[k]
              IN  [p \in Ports |-> IF Vacated(n, k, p) THEN Nothing ELSE own[p]]]
        /\ outNext' = outNext /\ sent' = sent
    BY <1>3, Zenon DEF NodeTick
  <1>5. PICK ou1, li1 :
           /\ ou1 = [outQueue EXCEPT ![n] =
                       SubSeq(outQueue[n], Leaving(n) + 1, Len(outQueue[n]))]
           /\ li1 = [link EXCEPT ![n] = Loaded(n)]
    OBVIOUS
  <1>6. Net(outNext, ou1, li1, inQueue, Lens(received), sent)
    BY <1>1, <1>5, TickLoads
  <1>7. ASSUME NEW p \in Ports
        PROVE  /\ Neighbour(n, p) \in Nodes /\ Neighbour(n, p) # n /\ 1 - p \in Ports
               /\ li1[Neighbour(n, p)][1 - p] = Incoming(n, p)
    <2>1. /\ Neighbour(n, p) \in Nodes /\ Neighbour(n, p) # n /\ 1 - p \in Ports
      BY Neighbours
    <2>2. li1[Neighbour(n, p)] = link[Neighbour(n, p)]
      BY <1>2, <1>5, <2>1
    <2> QED BY <2>1, <2>2 DEF Incoming
  <1>8. 0 \in Ports /\ 1 \in Ports /\ 1 - 0 = 1 /\ 1 - 1 = 0 /\ Ports = {0, 1}
    BY DEF Ports
  <1>9. PICK ou2, li2, in2 :
           /\ ou2 = [ou1 EXCEPT ![n] = ou1[n] \o Past(n, 0)]
           /\ in2 = [inQueue EXCEPT ![n] = inQueue[n] \o For(n, 0)]
           /\ li2 = [k \in Nodes |-> [r \in Ports |->
                       IF k = Neighbour(n, 0) /\ r = 1 - 0 /\ Arrived(n, 0) THEN Nothing
                       ELSE li1[k][r]]]
    OBVIOUS
  <1>10. Net(outNext, ou2, li2, in2, Lens(received), sent)
    <2>1. PulledAt(ou1, li1, inQueue, ou2, li2, in2, n, 0)
      BY <1>7, <1>8, <1>9, Zenon DEF PulledAt
    <2> QED BY <1>6, <1>8, <2>1, TickPulls
  <1>11. PICK ou3, li3, in3 :
           /\ ou3 = [ou2 EXCEPT ![n] = ou2[n] \o Past(n, 1)]
           /\ in3 = [in2 EXCEPT ![n] = in2[n] \o For(n, 1)]
           /\ li3 = [k \in Nodes |-> [r \in Ports |->
                       IF k = Neighbour(n, 1) /\ r = 1 - 1 /\ Arrived(n, 1) THEN Nothing
                       ELSE li2[k][r]]]
    OBVIOUS
  <1>12. Net(outNext, ou3, li3, in3, Lens(received), sent)
    <2>1. li2[Neighbour(n, 1)][1 - 1] = li1[Neighbour(n, 1)][1 - 1]
      <3>1. Neighbour(n, 1) \in Nodes /\ 1 - 1 \in Ports /\ 1 - 1 # 1 - 0
        BY <1>7, <1>8
      <3> QED BY <1>9, <3>1
    <2>2. li2[Neighbour(n, 1)][1 - 1] = Incoming(n, 1)
      BY <1>7, <1>8, <2>1
    <2>3. PulledAt(ou2, li2, in2, ou3, li3, in3, n, 1)
      BY <1>11, <2>2, Zenon DEF PulledAt
    <2> QED BY <1>8, <1>10, <2>3, TickPulls
  <1>13. in3 = [inQueue EXCEPT ![n] = waiting]
    BY <1>2, <1>3, <1>9, <1>11
  <1>14. in3[n] = waiting
    BY <1>2, <1>13
  <1>15. HandedAll(in3, inQueue', received, received', n)
    <2>1. inQueue' = [in3 EXCEPT ![n] = SubSeq(waiting, taken + 1, Len(waiting))]
      BY <1>2, <1>4, <1>13
    <2> QED BY <1>3, <1>4, <1>14, <2>1, Zenon DEF HandedAll
  <1>16. outQueue' = ou3
    <2>1. PICK s, x, y : /\ s = SubSeq(outQueue[n], Leaving(n) + 1, Len(outQueue[n]))
                         /\ x = Past(n, 0) /\ y = Past(n, 1)
      OBVIOUS
    <2>2. ou1 \in [Nodes -> Seq(Message)] /\ ou2 \in [Nodes -> Seq(Message)]
          /\ ou3 \in [Nodes -> Seq(Message)]
      BY <1>6, <1>10, <1>12 DEF Net, Shaped
    <2>3. ou1[n] = s /\ ou1 = [outQueue EXCEPT ![n] = s] /\ s \in Seq(Message)
      BY <1>2, <1>5, <2>1, <2>2
    <2>4. ou2 = [outQueue EXCEPT ![n] = s \o x] /\ ou2[n] = s \o x
      BY <1>2, <1>9, <2>1, <2>3
    <2>5. ou3 = [outQueue EXCEPT ![n] = (s \o x) \o y]
      BY <1>2, <1>11, <2>1, <2>4
    <2>6. ASSUME NEW p \in Ports PROVE Past(n, p) \in Seq(Message)
      <3>1. CASE Arrived(n, p)
        <4>1. Incoming(n, p) \in OnPort /\ Incoming(n, p) # Nothing
          BY <1>2, <1>7, <3>1 DEF Incoming, Arrived
        <4>2. Incoming(n, p).message \in Message
          BY <4>1 DEF OnPort
        <4> QED BY <4>2 DEF Past
      <3>2. CASE ~Arrived(n, p)
        BY <3>2 DEF Past
      <3> QED BY <3>1, <3>2
    <2>7. x \in Seq(Message) /\ y \in Seq(Message)
      BY <1>8, <2>1, <2>6
    <2>8. (s \o x) \o y = s \o (x \o y)
      BY <2>3, <2>7
    <2>9. Forwarded(n) = x \o y
      BY <2>1 DEF Forwarded
    <2> QED BY <1>4, <2>1, <2>5, <2>8, <2>9, Zenon
  <1>17. link' = li3
    <2>1. ASSUME NEW k \in Nodes, NEW r \in Ports
          PROVE  Vacated(n, k, r) <=> k = Neighbour(n, 1 - r) /\ Arrived(n, 1 - r)
      <3>1. Neighbour(k, r) = n => k = Neighbour(n, 1 - r)
        BY Neighbours
      <3>2. 1 - r \in Ports /\ 1 - (1 - r) = r
        BY DEF Ports
      <3>3. k = Neighbour(n, 1 - r) => Neighbour(k, r) = n
        BY <3>2, Neighbours
      <3> QED BY <3>1, <3>3 DEF Vacated
    <2>2. ASSUME NEW k \in Nodes
          PROVE  [r \in Ports |-> IF Vacated(n, k, r) THEN Nothing
                                  ELSE (IF k = n THEN Loaded(n) ELSE link[k])[r]]
                 = [r \in Ports |-> IF k = Neighbour(n, 1) /\ r = 1 - 1 /\ Arrived(n, 1)
                                    THEN Nothing ELSE li2[k][r]]
      <3> SUFFICES ASSUME NEW r \in Ports
                   PROVE  (IF Vacated(n, k, r) THEN Nothing
                           ELSE (IF k = n THEN Loaded(n) ELSE link[k])[r])
                          = (IF k = Neighbour(n, 1) /\ r = 1 - 1 /\ Arrived(n, 1)
                             THEN Nothing ELSE li2[k][r])
        OBVIOUS
      <3>1. li2[k][r] = IF k = Neighbour(n, 0) /\ r = 1 - 0 /\ Arrived(n, 0) THEN Nothing
                        ELSE li1[k][r]
        BY <1>9
      <3>2. li1[k] = IF k = n THEN Loaded(n) ELSE link[k]
        BY <1>2, <1>5
      <3>3. CASE r = 0
        <4>1. Vacated(n, k, r) <=> k = Neighbour(n, 1) /\ Arrived(n, 1)
          <5>1. 1 - r = 1
            BY <3>3
          <5> QED BY <2>1, <5>1
        <4>2. r = 1 - 1 /\ r # 1 - 0
          BY <3>3
        <4> QED BY <3>1, <3>2, <4>1, <4>2, Zenon
      <3>4. CASE r = 1
        <4>1. Vacated(n, k, r) <=> k = Neighbour(n, 0) /\ Arrived(n, 0)
          <5>1. 1 - r = 0
            BY <3>4
          <5> QED BY <2>1, <5>1
        <4>2. r # 1 - 1 /\ r = 1 - 0
          BY <3>4
        <4> QED BY <3>1, <3>2, <4>1, <4>2, Zenon
      <3> QED BY <1>8, <3>3, <3>4
    <2>3. link' = [k \in Nodes |-> [r \in Ports |-> IF Vacated(n, k, r) THEN Nothing
                                  ELSE (IF k = n THEN Loaded(n) ELSE link[k])[r]]]
      BY <1>4, Zenon
    <2> QED BY <1>11, <2>2, <2>3
  <1>18. /\ Net(outNext, ou3, li3, inQueue', Lens(received'), sent) /\ InTurn(received')
         /\ \A p \in Pairs : Len(received'[p]) \in
              {Len(received[p]), Len(received[p]) + 1, Len(received[p]) + 2}
    BY <1>1, <1>12, <1>15, TickHandsOver
  <1>19. RingInv' <=> /\ Net(outNext', outQueue', link', inQueue', Lens(received'), sent')
                      /\ InTurn(received')
    BY DEF RingInv
  <1> QED BY <1>4, <1>16, <1>17, <1>18, <1>19, Zenon

\* What InTurn and Net say of the numbers of one pair.
LEMMA Received ==
    ASSUME RingInv, NEW p \in Pairs
    PROVE  /\ received[p] = Channels!FirstNumbers(Len(received[p]))
           /\ Len(received[p]) \in Nat /\ Len(received[p]) <= sent[p]
  <1>1. received \in [Pairs -> Seq(Nat)] /\ received[p] = Channels!FirstNumbers(Len(received[p]))
    BY DEF RingInv, InTurn
  <1>2. Lens(received)[p] <= sent[p]
    BY DEF RingInv, Net, Ordered
  <1>3. Lens(received)[p] = Len(received[p])
    BY DEF Lens
  <1> QED BY <1>1, <1>2, <1>3

\* A tick delivers.
LEMMA TickDelivers ==
    ASSUME RingInv, NEW n \in Nodes, NodeTick(n)
    PROVE  RingInv' /\ Channels!Deliver
  <1>1. /\ RingInv'
        /\ \A p \in Pairs : Len(received'[p]) \in
             {Len(received[p]), Len(received[p]) + 1, Len(received[p]) + 2}
    BY TickStep
  <1>2. sent' = sent
    BY DEF NodeTick
  <1>3. \A p \in Pairs : /\ received'[p] = Channels!FirstNumbers(Len(received'[p]))
                         /\ Len(received'[p]) \in Nat /\ Len(received'[p]) <= sent[p]
    <2>1. received' \in [Pairs -> Seq(Nat)]
          /\ \A p \in Pairs : received'[p] = Channels!FirstNumbers(Len(received'[p]))
      BY <1>1 DEF RingInv, InTurn
    <2>2. \A p \in Pairs : Lens(received')[p] <= sent'[p]
      BY <1>1 DEF RingInv, Net, Ordered
    <2>3. \A p \in Pairs : Lens(received')[p] = Len(received'[p])
      BY DEF Lens
    <2> QED BY <1>2, <2>1, <2>2, <2>3
  <1>4. received' = [p \in Pairs |-> received'[p]]
    BY DEF NodeTick
  <1>5. PICK k : k = [p \in Pairs |-> Len(received'[p]) - Len(received[p])]
    OBVIOUS
  <1>6. ASSUME NEW p \in Pairs
        PROVE  k[p] \in 0 .. 2 /\ Len(received[p]) + k[p] = Len(received'[p])
    <2>1. PICK a, b : a = Len(received[p]) /\ b = Len(received'[p])
      OBVIOUS
    <2>2. a \in Nat /\ b \in {a, a + 1, a + 2}
      BY <1>1, <2>1, Received
    <2>3. k[p] = b - a
      BY <1>5, <2>1
    <2>4. b - a \in 0 .. 2 /\ a + (b - a) = b
      BY <2>2
    <2> QED BY <2>1, <2>3, <2>4, Zenon
  <1>7. k \in [Pairs -> 0 .. 2]
    BY <1>5, <1>6
  <1>8. /\ \A p \in Pairs : Len(received[p]) + k[p] <= sent[p]
        /\ received' = [p \in Pairs |-> Channels!FirstNumbers(Len(received[p]) + k[p])]
    <2>1. \A p \in Pairs : Len(received[p]) + k[p] <= sent[p]
      BY <1>3, <1>6
    <2>2. \A p \in Pairs : received'[p] = Channels!FirstNumbers(Len(received[p]) + k[p])
      BY <1>3, <1>6
    <2> QED BY <1>4, <2>1, <2>2
  <1> QED BY <1>1, <1>2, <1>7, <1>8, Zenon DEF Channels!Deliver

\* A tock delivers nothing and loses nothing.
LEMMA TockStep ==
    ASSUME RingInv, Tock
    PROVE  RingInv' /\ UNCHANGED <<sent, received>>
  <1>1. Net(outNext, outQueue, link, inQueue, Lens(received), sent) /\ InTurn(received)
    BY DEF RingInv
  <1>2. link \in [Nodes -> [Ports -> OnPort]]
    BY <1>1 DEF Net, Shaped
  <1>3. PICK li2 : li2 = [n \in Nodes |-> [p \in Ports |-> Passed(link[n][p])]]
    OBVIOUS
  <1>4. ASSUME NEW n \in Nodes, NEW p \in Ports
        PROVE  /\ li2[n][p] = Passed(link[n][p]) /\ Passed(link[n][p]) \in OnPort
               /\ Passed(link[n][p]) = Nothing <=> link[n][p] = Nothing
               /\ link[n][p] # Nothing => Passed(link[n][p]).message = link[n][p].message
    <2>1. li2[n][p] = Passed(link[n][p])
      BY <1>3
    <2>2. PICK l : l = link[n][p]
      OBVIOUS
    <2>3. l \in OnPort
      BY <1>2, <2>2
    <2>4. CASE l = Nothing
      <3>1. Passed(l) = l
        BY <2>4 DEF Passed, Nothing
      <3> QED BY <2>1, <2>2, <2>3, <2>4, <3>1, Zenon
    <2>5. CASE l # Nothing
      <3>1. PICK t \in Nat, m \in Message : l = [tof |-> t, message |-> m]
        BY <2>3, <2>5 DEF OnPort
      <3>2. PICK u : u = IF t > 0 THEN t - 1 ELSE t
        OBVIOUS
      <3>3. u \in Nat /\ Passed(l) = [tof |-> u, message |-> m]
        BY <3>1, <3>2 DEF Passed
      <3>4. Passed(l) \in OnPort /\ Passed(l).message = l.message
        BY <3>1, <3>3 DEF OnPort
      <3>5. Passed(l) # Nothing
        <4>1. DOMAIN Passed(l) = {"tof", "message"} /\ DOMAIN Nothing = {"tof"}
          BY <3>3 DEF Nothing
        <4> QED BY <4>1
      <3> QED BY <2>1, <2>2, <2>5, <3>4, <3>5, Zenon
    <2> QED BY <2>4, <2>5
  <1>5. li2 \in [Nodes -> [Ports -> OnPort]]
    <2>1. \A n \in Nodes : [p \in Ports |-> Passed(link[n][p])] \in [Ports -> OnPort]
      BY <1>4
    <2> QED BY <1>3, <2>1
  <1>6. SameOnPorts(link, li2)
    BY <1>4 DEF SameOnPorts
  <1>7. PICK nx2, ou2 : /\ nx2 = [n \in Nodes |-> <<>>]
                        /\ ou2 = [n \in Nodes |-> outQueue[n] \o outNext[n]]
    OBVIOUS
  <1>8. Net(nx2, ou2, li2, inQueue, Lens(received), sent)
    BY <1>1, <1>5, <1>6, <1>7, QueuesJoined
  <1>9. /\ outNext' = nx2 /\ outQueue' = ou2 /\ link' = li2 /\ inQueue' = inQueue
        /\ sent' = sent /\ received' = received
    BY <1>3, <1>7, Zenon DEF Tock
  <1>10. RingInv' <=> /\ Net(outNext', outQueue', link', inQueue', Lens(received'), sent')
                      /\ InTurn(received')
    BY DEF RingInv
  <1> QED BY <1>1, <1>8, <1>9, <1>10, Zenon

\* A message sent is the last of its pair.
LEMMA SendStep ==
    ASSUME RingInv, NEW p \in Pairs, NEW f \in Flits, Send(p, f)
    PROVE  RingInv' /\ Channels!Send(p)
  <1>1. Net(outNext, outQueue, link, inQueue, Lens(received), sent) /\ InTurn(received)
    BY DEF RingInv
  <1>2. f \in Nat
    BY RingAssumption
  <1>3. PICK m, nx2, total2 :
           /\ m = [src |-> p[1], dst |-> p[2], no |-> sent[p], flits |-> f]
           /\ nx2 = [outNext EXCEPT ![p[1]] = Append(outNext[p[1]], m)]
           /\ total2 = [sent EXCEPT ![p] = sent[p] + 1]
    OBVIOUS
  <1>4. Net(nx2, outQueue, link, inQueue, Lens(received), total2)
    BY <1>1, <1>2, <1>3, SendOne
  <1>5. /\ outNext' = nx2 /\ outQueue' = outQueue /\ link' = link /\ inQueue' = inQueue
        /\ sent' = total2 /\ received' = received
    BY <1>3, Zenon DEF Send
  <1>6. RingInv' <=> /\ Net(outNext', outQueue', link', inQueue', Lens(received'), sent')
                     /\ InTurn(received')
    BY DEF RingInv
  <1>7. RingInv'
    BY <1>1, <1>4, <1>5, <1>6, Zenon
  <1>8. Channels!Send(p)
    BY <1>3, <1>5, Zenon DEF Channels!Send
  <1> QED BY <1>7, <1>8

LEMMA InitRing ==
    ASSUME Init
    PROVE  RingInv /\ Channels!Init
  <1>1. /\ outNext = [n \in Nodes |-> <<>>] /\ outQueue = [n \in Nodes |-> <<>>]
        /\ inQueue = [n \in Nodes |-> <<>>] /\ link = [n \in Nodes |-> [p \in Ports |-> Nothing]]
        /\ sent = [p \in Pairs |-> 0] /\ received = [p \in Pairs |-> <<>>]
    BY DEF Init
  <1>2. Shaped(outNext, outQueue, link, inQueue)
    <2>1. <<>> \in Seq(Message) /\ Nothing \in OnPort
      BY DEF OnPort
    <2> QED BY <1>1, <2>1 DEF Shaped
  <1>3. PICK w : w = Placed(outNext, outQueue, link, inQueue)
    OBVIOUS
  <1>4. DOMAIN w = {}
    <2>1. ASSUME NEW l \in Places PROVE ~Occupied(outNext, outQueue, link, inQueue, l)
      <3>1. l[2] \in Nodes
        BY PlaceParts
      <3>2. /\ outNext[l[2]] = <<>> /\ outQueue[l[2]] = <<>> /\ inQueue[l[2]] = <<>>
            /\ l[3] \in Ports => link[l[2]][l[3]] = Nothing
        BY <1>1, <3>1
      <3>3. QueueAt(outNext, outQueue, inQueue, l) = <<>>
        BY <3>2, Zenon DEF QueueAt
      <3>4. Len(QueueAt(outNext, outQueue, inQueue, l)) = 0
        BY <3>3
      <3>5. l[3] \notin 1 .. Len(QueueAt(outNext, outQueue, inQueue, l))
        <4>1. 1 .. 0 = {}
          OBVIOUS
        <4> QED BY <3>4, <4>1, Zenon
      <3> QED BY <3>2, <3>5, Zenon DEF Occupied
    <2>2. DOMAIN w = {x \in Places : Occupied(outNext, outQueue, link, inQueue, x)}
      BY <1>3 DEF Placed
    <2> QED BY <2>1, <2>2, Zenon
  <1>5. Lens(received) = [p \in Pairs |-> 0]
    <2>1. \A p \in Pairs : Len(received[p]) = 0
      BY <1>1
    <2> QED BY <2>1 DEF Lens
  <1>6. Ordered(w, Lens(received), sent)
    BY <1>1, <1>4, <1>5 DEF Ordered
  <1>7. InTurn(received)
    <2>1. <<>> = Channels!FirstNumbers(Len(<<>>))
      BY DEF Channels!FirstNumbers
    <2>2. \A p \in Pairs : received[p] = <<>>
      BY <1>1
    <2>3. received \in [Pairs -> Seq(Nat)]
      BY <1>1
    <2> QED BY <2>1, <2>2, <2>3, Zenon DEF InTurn
  <1> QED BY <1>1, <1>2, <1>3, <1>6, <1>7, Zenon DEF RingInv, Net, Channels!Init

LEMMA RingStep ==
    ASSUME RingInv, [Next]_vars
    PROVE  RingInv' /\ [Channels!Next]_<<sent, received>>
  <1>1. ASSUME NEW n \in Nodes, NodeTick(n)
        PROVE  RingInv' /\ [Channels!Next]_<<sent, received>>
    BY <1>1, TickDelivers DEF Channels!Next
  <1>2. CASE Tock
    BY <1>2, TockStep
  <1>3. ASSUME NEW p \in Pairs, NEW f \in Flits, Send(p, f)
        PROVE  RingInv' /\ [Channels!Next]_<<sent, received>>
    BY <1>3, SendStep DEF Channels!Next
  <1>4. CASE UNCHANGED vars
    <2>1. RingInv' <=> /\ Net(outNext', outQueue', link', inQueue', Lens(received'), sent')
                       /\ InTurn(received')
      BY DEF RingInv
    <2> QED BY <1>4, <2>1 DEF RingInv, vars
  <1> QED BY <1>1, <1>2, <1>3, <1>4 DEF Next, Cycle

\* The invariant of the ring: between the ticks of node.cpp and the tock of
\* network.cpp every message of a pair is at one place of the shorter way that
\* its source chose, the numbers of those under way are those sent and not yet
\* received, without a gap, and they grow from the destination back to the source.
THEOREM RingInvariant == Spec => []RingInv
  <1>1. Init => RingInv
    BY InitRing
  <1>2. RingInv /\ [Next]_vars => RingInv'
    BY RingStep
  <1> QED BY <1>1, <1>2, PTL DEF Spec

\* The ring implements one FIFO channel per pair of nodes, for any number of
\* nodes, lengths of messages and traffic: what Node::tick hands over is the next
\* message its source sent, never a later one, a copy or one nobody sent.
THEOREM RingImplementsChannels == Spec => ImplementsChannels
  <1>1. Init => Channels!Init
    BY InitRing
  <1>2. RingInv /\ [Next]_vars => [Channels!Next]_<<sent, received>>
    BY RingStep
  <1> QED BY <1>1, <1>2, RingInvariant, PTL DEF Spec, ImplementsChannels, Channels!Spec
=============================================================================
