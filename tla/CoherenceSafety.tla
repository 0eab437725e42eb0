---------------------------- MODULE CoherenceSafety ----------------------------
(***************************************************************************)
(* All five protocols are safe for every number of processors, every set   *)
(* of blocks and traces of any length.  The network is seen, for each      *)
(* block, as the kinds of messages on the way up from and down to every    *)
(* node; the inductive invariant says that the channels carry each message *)
(* once and in a safe order, and that every block is as CoherenceBlocks    *)
(* has it.                                                                 *)
(***************************************************************************)
EXTENDS CoherenceBlocks

Upward(n, b, k) == [kind |-> k, src |-> n, block |-> b]
Downward(b, k)  == [kind |-> k, block |-> b]

\* The messages in a channel, and whether each is there once.
In(s)    == {s[i] : i \in DOMAIN s}
NoDup(s) == \A i, j \in DOMAIN s : s[i] = s[j] => i = j
Before(s, x, y) == \A i, j \in DOMAIN s : s[i] = x /\ s[j] = y => i < j

\* The latched response is on its way down, too.
Latched(n, b, k) == /\ resp.busy /\ resp.target = n /\ resp.block = b
                    /\ k = IF resp.send_E THEN "DATA_E" ELSE "DATA"

\* Block b as its agents, its messages and its entry show it.
AgentsAt(b) == [n \in Procs |-> agent[n][b]]
Ups(b)   == [n \in Procs |-> {k \in UpKinds : Upward(n, b, k) \in In(toDir[n]) \cup In(queue)}]
Downs(b) == [n \in Procs |-> {k \in DownKinds : \/ Downward(b, k) \in In(toNode[n])
                                                \/ Latched(n, b, k)}]
BlockOK(b) == BlockIs(protocol, AgentsAt(b), Ups(b), Downs(b), entry[b])

\* Every message is there once, a node's own, and an answer is not overtaken by
\* a recall or an invalidation of the same block.
UpChannels ==
  /\ NoDup(queue)
  /\ \A n \in Procs : /\ NoDup(toDir[n])
                      /\ In(toDir[n]) \cap In(queue) = {}
                      /\ \A m \in In(toDir[n]) : m.src = n
InOrder(s) == \A b \in Blocks, k \in AnsKinds, r \in ProbeKinds :
                Before(s, Downward(b, k), Downward(b, r))
DownChannels ==
  \A n \in Procs :
    /\ NoDup(toNode[n])
    /\ InOrder(toNode[n])
    /\ \A b \in Blocks, k, r \in DownKinds :
         Latched(n, b, k) => Downward(b, r) \notin In(toNode[n])

ProtocolInv == /\ ~thrown
               /\ UpChannels /\ DownChannels
               /\ \A b \in Blocks : BlockOK(b)

\* The types of what the protocols keep.
NetworkTypes ==
  /\ protocol \in Protocol
  /\ agent \in [Procs -> [Blocks -> AgentStates]]
  /\ toDir \in [Procs -> Seq(ToDirMsg)]
  /\ toNode \in [Procs -> Seq(ToNodeMsg)]
  /\ queue \in Seq(ToDirMsg)
  /\ entry \in [Blocks -> DirEntry]
  /\ resp \in Latch \cup {Idle}

--------------------------------------------------------------------------------
(* Channels as sets of messages.                                            *)

\* Sending a message adds it.
LEMMA AppendIn ==
  ASSUME NEW S, NEW s \in Seq(S), NEW z \in S
  PROVE  /\ In(Append(s, z)) = In(s) \cup {z}
         /\ NoDup(s) /\ z \notin In(s) => NoDup(Append(s, z))
         /\ \A x, y : Before(s, x, y) /\ x # y /\ (z = x => y \notin In(s))
                     => Before(Append(s, z), x, y)
<1>1. /\ DOMAIN s = 1..Len(s) /\ Len(s) \in Nat
      /\ DOMAIN Append(s, z) = 1..Len(s) + 1
      /\ \A i \in 1..Len(s) : Append(s, z)[i] = s[i]
      /\ Append(s, z)[Len(s) + 1] = z
  BY LenProperties, AppendProperties
<1>2. In(Append(s, z)) = In(s) \cup {z}
  BY <1>1 DEF In
<1>3. NoDup(s) /\ z \notin In(s) => NoDup(Append(s, z))
  BY <1>1 DEF In, NoDup
<1>4. ASSUME NEW x, NEW y, Before(s, x, y), x # y, z = x => y \notin In(s)
      PROVE  Before(Append(s, z), x, y)
  BY <1>1, <1>4 DEF In, Before
<1> QED BY <1>2, <1>3, <1>4

\* Taking the head removes it, and nothing else that is there once.
LEMMA TailIn ==
  ASSUME NEW S, NEW s \in Seq(S), s # <<>>
  PROVE  /\ Head(s) \in In(s) /\ Head(s) \in S /\ Tail(s) \in Seq(S)
         /\ In(Tail(s)) \subseteq In(s)
         /\ NoDup(s) => /\ NoDup(Tail(s))
                        /\ In(Tail(s)) = In(s) \ {Head(s)}
         /\ \A x, y : Before(s, x, y) => /\ Before(Tail(s), x, y)
                                         /\ Head(s) = y => x \notin In(s)
<1>1. /\ DOMAIN s = 1..Len(s) /\ Len(s) \in Nat \ {0}
      /\ Tail(s) \in Seq(S) /\ Head(s) \in S
      /\ DOMAIN Tail(s) = 1..Len(s) - 1
      /\ \A i \in 1..Len(s) - 1 : Tail(s)[i] = s[i + 1]
      /\ Head(s) = s[1]
  BY LenProperties, HeadTailProperties, EmptySeq
<1>2. Head(s) \in In(s)
  BY <1>1 DEF In
<1>3. In(Tail(s)) \subseteq In(s)
  BY <1>1 DEF In
<1>4. NoDup(s) => NoDup(Tail(s))
  BY <1>1 DEF NoDup
<1>5. ASSUME NoDup(s)
      PROVE  In(Tail(s)) = In(s) \ {Head(s)}
  <2>1. ASSUME NEW x \in In(s), x # Head(s)
        PROVE  x \in In(Tail(s))
    <3>1. PICK i \in 1..Len(s) : s[i] = x
      BY <1>1 DEF In
    <3>2. i - 1 \in 1..Len(s) - 1 /\ Tail(s)[i - 1] = x
      BY <1>1, <2>1, <3>1
    <3> QED BY <1>1, <3>2 DEF In
  <2>2. Head(s) \notin In(Tail(s))
    BY <1>1, <1>5 DEF In, NoDup
  <2> QED BY <1>3, <2>1, <2>2
<1>6. ASSUME NEW x, NEW y, Before(s, x, y)
      PROVE  Before(Tail(s), x, y) /\ (Head(s) = y => x \notin In(s))
  BY <1>1, <1>6 DEF In, Before
<1> QED BY <1>1, <1>2, <1>3, <1>4, <1>5, <1>6

\* Cycling the queue keeps its messages.
LEMMA CycleIn ==
  ASSUME NEW S, NEW s \in Seq(S), s # <<>>, NoDup(s)
  PROVE  /\ In(Append(Tail(s), Head(s))) = In(s)
         /\ NoDup(Append(Tail(s), Head(s)))
<1>1. /\ Tail(s) \in Seq(S) /\ Head(s) \in S /\ NoDup(Tail(s))
      /\ In(Tail(s)) = In(s) \ {Head(s)} /\ Head(s) \in In(s)
  BY TailIn
<1>2. /\ In(Append(Tail(s), Head(s))) = In(Tail(s)) \cup {Head(s)}
      /\ NoDup(Append(Tail(s), Head(s)))
  <2> DEFINE t == Tail(s)
             z == Head(s)
  <2>1. t \in Seq(S) /\ z \in S /\ NoDup(t) /\ z \notin In(t)
    BY <1>1
  <2> HIDE DEF t, z
  <2>2. In(Append(t, z)) = In(t) \cup {z} /\ NoDup(Append(t, z))
    BY <2>1, AppendIn
  <2> QED BY <2>2 DEF t, z
<1> QED BY <1>1, <1>2

\* Messages are told apart by kind, node and block.
LEMMA MessagesDiffer ==
  /\ \A n, m, b, c, k, r : Upward(n, b, k) = Upward(m, c, r) <=> n = m /\ b = c /\ k = r
  /\ \A b, c, k, r : Downward(b, k) = Downward(c, r) <=> b = c /\ k = r
  BY DEF Upward, Downward

\* They are what the channels carry.
LEMMA MessageTypes ==
  /\ \A n \in Procs, b \in Blocks, k \in UpKinds : Upward(n, b, k) \in ToDirMsg
  /\ \A b \in Blocks, k \in DownKinds : Downward(b, k) \in ToNodeMsg
  /\ \A m \in ToDirMsg : m = Upward(m.src, m.block, m.kind)
                         /\ m.src \in Procs /\ m.block \in Blocks /\ m.kind \in UpKinds
  /\ \A m \in ToNodeMsg : m = Downward(m.block, m.kind)
                          /\ m.block \in Blocks /\ m.kind \in DownKinds
<1>1. /\ \A n \in Procs, b \in Blocks, k \in UpKinds : Upward(n, b, k) \in ToDirMsg
      /\ \A b \in Blocks, k \in DownKinds : Downward(b, k) \in ToNodeMsg
  BY DEF Upward, Downward, ToDirMsg, ToNodeMsg, UpKinds, DownKinds
<1>2. \A m \in ToDirMsg : m = Upward(m.src, m.block, m.kind)
                          /\ m.src \in Procs /\ m.block \in Blocks /\ m.kind \in UpKinds
  BY DEF Upward, ToDirMsg, UpKinds
<1>3. \A m \in ToNodeMsg : m = Downward(m.block, m.kind)
                           /\ m.block \in Blocks /\ m.kind \in DownKinds
  BY DEF Downward, ToNodeMsg, DownKinds
<1> QED BY <1>1, <1>2, <1>3

\* The latch holds an answer.
LEMMA LatchedKind ==
  ASSUME NetworkTypes, NEW n, NEW b, NEW k, Latched(n, b, k)
  PROVE  /\ n \in Procs /\ b \in Blocks /\ k \in {"DATA", "DATA_E"} /\ resp \in Latch
         /\ \A m, c, r : Latched(m, c, r) <=> m = n /\ c = b /\ r = k
<1>1. resp \in Latch
  BY DEF Latched, NetworkTypes, Idle
<1> QED BY <1>1 DEF Latched, Latch

\* The views of a block have the kinds the network has.
LEMMA ViewsTyped ==
  ASSUME NEW b
  PROVE  /\ Ups(b) \in [Procs -> SUBSET UpKinds]
         /\ Downs(b) \in [Procs -> SUBSET DownKinds]
         /\ \A n \in Procs : AgentsAt(b)[n] = agent[n][b]
  BY DEF Ups, Downs, AgentsAt

\* Nothing changes but the view of node n.
OnlyOf(n, ag, U, D, ag1, U1, D1) ==
  \A k \in Procs : k # n => ag1[k] = ag[k] /\ U1[k] = U[k] /\ D1[k] = D[k]

SameAck(u, d, u1, d1) ==
  "REQ_INVALID" \in d1 \/ "INVACK" \in u1 <=> "REQ_INVALID" \in d \/ "INVACK" \in u

\* A block stays right when one node changes and the same acknowledgements are
\* to come.
LEMMA NodeChanges ==
  ASSUME NEW p, NEW ag, NEW U, NEW D, NEW e, BlockIs(p, ag, U, D, e), NEW n \in Procs,
         NEW ag1, NEW U1 \in [Procs -> SUBSET UpKinds], NEW D1 \in [Procs -> SUBSET DownKinds],
         OnlyOf(n, ag, U, D, ag1, U1, D1),
         NodeOK(p, n, ag1[n], U1[n], D1[n], e), SameAck(U[n], D[n], U1[n], D1[n])
  PROVE  BlockIs(p, ag1, U1, D1, e)
<1>1. AckSet(U1, D1) = AckSet(U, D)
  <2>1. \A k \in Procs : "REQ_INVALID" \in D1[k] \/ "INVACK" \in U1[k]
                         <=> "REQ_INVALID" \in D[k] \/ "INVACK" \in U[k]
    BY DEF OnlyOf, SameAck
  <2> QED BY <2>1 DEF AckSet
<1>2. \A k \in Procs : NodeOK(p, k, ag1[k], U1[k], D1[k], e)
  BY DEF BlockIs, OnlyOf
<1> QED BY <1>1, <1>2 DEF BlockIs

\* And when only its representation does.
LEMMA SameViews ==
  ASSUME NEW p, NEW ag, NEW U, NEW D, NEW e, BlockIs(p, ag, U, D, e),
         NEW ag1, NEW U1 \in [Procs -> SUBSET UpKinds], NEW D1 \in [Procs -> SUBSET DownKinds],
         \A k \in Procs : ag1[k] = ag[k] /\ U1[k] = U[k] /\ D1[k] = D[k]
  PROVE  BlockIs(p, ag1, U1, D1, e)
<1>1. AckSet(U1, D1) = AckSet(U, D)
  BY DEF AckSet
<1>2. \A k \in Procs : NodeOK(p, k, ag1[k], U1[k], D1[k], e)
  BY DEF BlockIs
<1> QED BY <1>1, <1>2 DEF BlockIs

--------------------------------------------------------------------------------
(* What the steps do to the channels and the views.                         *)

SentUp(n, z)     == toDir' = [toDir EXCEPT ![n] = Append(@, z)]
TakenDown(n)     == toNode[n] # <<>> /\ toNode' = [toNode EXCEPT ![n] = Tail(@)]
AgentGoes(n, b, t) == agent' = [agent EXCEPT ![n][b] = t]

\* One node's view of one block gains or loses one kind.
UpGains(n, b, k) == \A c \in Blocks, m \in Procs :
  Ups(c)'[m] = IF c = b /\ m = n THEN Ups(c)[m] \cup {k} ELSE Ups(c)[m]
UpLoses(n, b, k) == \A c \in Blocks, m \in Procs :
  Ups(c)'[m] = IF c = b /\ m = n THEN Ups(c)[m] \ {k} ELSE Ups(c)[m]
DownLoses(n, b, k) == \A c \in Blocks, m \in Procs :
  Downs(c)'[m] = IF c = b /\ m = n THEN Downs(c)[m] \ {k} ELSE Downs(c)[m]

\* Channels that do not change show the same.
LEMMA UpsKept ==
  ASSUME UNCHANGED <<toDir, queue>>
  PROVE  /\ UpChannels => UpChannels'
         /\ \A c : Ups(c)' = Ups(c)
  BY DEF UpChannels, Ups

\* So do channels down and the latch.
LEMMA DownsKept ==
  ASSUME UNCHANGED <<toNode, resp>>
  PROVE  /\ DownChannels => DownChannels'
         /\ \A c : Downs(c)' = Downs(c)
  BY DEF DownChannels, Downs, Latched

\* A message that is sent up.
LEMMA UpSent ==
  ASSUME NetworkTypes, UpChannels, NEW n \in Procs, NEW b \in Blocks, NEW k \in UpKinds,
         k \notin Ups(b)[n], queue' = queue,
         SentUp(n, Upward(n, b, k))
  PROVE  UpChannels' /\ UpGains(n, b, k)
<1> DEFINE z == Upward(n, b, k)
<1>1. z \in ToDirMsg /\ z.src = n /\ toDir[n] \in Seq(ToDirMsg)
  BY MessageTypes DEF NetworkTypes, Upward
<1>2. z \notin In(toDir[n]) /\ z \notin In(queue)
  BY DEF Ups
<1>3. /\ toDir'[n] = Append(toDir[n], z)
      /\ \A m \in Procs : m # n => toDir'[m] = toDir[m]
  BY DEF NetworkTypes, SentUp
<1>4. NoDup(toDir[n]) /\ In(toDir[n]) \cap In(queue) = {}
  BY DEF UpChannels
<1> HIDE DEF z
<1>5. In(toDir'[n]) = In(toDir[n]) \cup {z} /\ NoDup(toDir'[n])
  BY <1>1, <1>2, <1>3, <1>4, AppendIn
<1>6. UpChannels'
  <2>1. NoDup(queue')
    BY DEF UpChannels
  <2>2. ASSUME NEW m \in Procs
        PROVE  /\ NoDup(toDir'[m])
               /\ In(toDir'[m]) \cap In(queue') = {}
               /\ \A y \in In(toDir'[m]) : y.src = m
    <3>1. CASE m = n
      <4>1. \A y \in In(toDir[n]) : y.src = n
        BY DEF UpChannels
      <4>2. In(toDir'[n]) \cap In(queue) = {}
        BY <1>2, <1>4, <1>5
      <4> QED BY <1>1, <1>5, <3>1, <4>1, <4>2
    <3>2. CASE m # n
      <4>1. toDir'[m] = toDir[m]
        BY <1>3, <3>2
      <4> QED BY <4>1 DEF UpChannels
    <3> QED BY <3>1, <3>2
  <2> QED BY <2>1, <2>2 DEF UpChannels
<1>7. ASSUME NEW c \in Blocks, NEW m \in Procs
      PROVE  Ups(c)'[m] = IF c = b /\ m = n THEN Ups(c)[m] \cup {k} ELSE Ups(c)[m]
  <2>1. \A r \in UpKinds : Upward(m, c, r) = z <=> m = n /\ c = b /\ r = k
    BY MessagesDiffer DEF z
  <2>2. CASE m = n
    BY <1>5, <2>1, <2>2 DEF Ups
  <2>3. CASE m # n
    BY <1>3, <2>3 DEF Ups
  <2> QED BY <2>2, <2>3
<1> QED BY <1>6, <1>7 DEF UpGains

\* A message that reaches the directory is still on its way up.
LEMMA UpArrived ==
  ASSUME NetworkTypes, UpChannels, NEW n \in Procs, toDir[n] # <<>>,
         queue' = Append(queue, Head(toDir[n])), toDir' = [toDir EXCEPT ![n] = Tail(@)]
  PROVE  /\ UpChannels'
         /\ \A c \in Blocks, m \in Procs : Ups(c)'[m] = Ups(c)[m]
<1> DEFINE z == Head(toDir[n])
<1>1. toDir[n] \in Seq(ToDirMsg) /\ queue \in Seq(ToDirMsg)
  BY DEF NetworkTypes
<1>2. NoDup(toDir[n]) /\ In(toDir[n]) \cap In(queue) = {} /\ NoDup(queue)
  BY DEF UpChannels
<1>3. /\ toDir'[n] = Tail(toDir[n])
      /\ \A m \in Procs : m # n => toDir'[m] = toDir[m]
  BY DEF NetworkTypes
<1>4. /\ z \in In(toDir[n]) /\ z \in ToDirMsg /\ NoDup(toDir'[n])
      /\ In(toDir'[n]) = In(toDir[n]) \ {z}
  BY <1>1, <1>2, <1>3, TailIn
<1>5. z \notin In(queue) /\ z.src = n
  BY <1>2, <1>4 DEF UpChannels
<1> HIDE DEF z
<1>6. In(queue') = In(queue) \cup {z} /\ NoDup(queue')
  <2>1. queue' = Append(queue, z)
    BY DEF z
  <2> QED BY <1>1, <1>2, <1>4, <1>5, <2>1, AppendIn
<1>7. ASSUME NEW m \in Procs
      PROVE  /\ NoDup(toDir'[m]) /\ In(toDir'[m]) \cap In(queue') = {}
             /\ \A y \in In(toDir'[m]) : y.src = m
  <2>1. In(toDir[m]) \cap In(queue) = {} /\ NoDup(toDir[m]) /\ \A y \in In(toDir[m]) : y.src = m
    BY DEF UpChannels
  <2>2. CASE m = n
    BY <1>4, <1>6, <2>1, <2>2
  <2>3. CASE m # n
    BY <1>3, <1>5, <1>6, <2>1, <2>3
  <2> QED BY <2>2, <2>3
<1>8. UpChannels'
  BY <1>6, <1>7 DEF UpChannels
<1>9. ASSUME NEW c \in Blocks, NEW m \in Procs
      PROVE  Ups(c)'[m] = Ups(c)[m]
  <2>1. CASE m = n
    BY <1>4, <1>6, <2>1 DEF Ups
  <2>2. CASE m # n
    <3>1. \A r : Upward(m, c, r) # z
      BY <1>5, <2>2 DEF Upward
    <3> QED BY <1>3, <1>6, <2>2, <3>1 DEF Ups
  <2> QED BY <2>1, <2>2
<1> QED BY <1>8, <1>9

\* A message at the head of the queue that is put back at its end.
LEMMA UpCycled ==
  ASSUME NetworkTypes, UpChannels, queue # <<>>,
         queue' = Append(Tail(queue), Head(queue)), toDir' = toDir
  PROVE  /\ UpChannels'
         /\ \A c \in Blocks, m \in Procs : Ups(c)'[m] = Ups(c)[m]
<1>1. queue \in Seq(ToDirMsg) /\ NoDup(queue)
  BY DEF NetworkTypes, UpChannels
<1>2. In(queue') = In(queue) /\ NoDup(queue')
  BY <1>1, CycleIn
<1> QED BY <1>2 DEF UpChannels, Ups

\* The message at the head of the queue is taken.
LEMMA UpTaken ==
  ASSUME NetworkTypes, UpChannels, queue # <<>>, queue' = Tail(queue), toDir' = toDir,
         NEW n \in Procs, NEW b \in Blocks, NEW k \in UpKinds, Head(queue) = Upward(n, b, k)
  PROVE  UpChannels' /\ k \in Ups(b)[n] /\ UpLoses(n, b, k)
<1>1. queue \in Seq(ToDirMsg) /\ NoDup(queue)
  BY DEF NetworkTypes, UpChannels
<1>2. /\ In(queue') = In(queue) \ {Upward(n, b, k)} /\ NoDup(queue')
      /\ Upward(n, b, k) \in In(queue)
  BY <1>1, TailIn
<1>3. UpChannels' /\ k \in Ups(b)[n]
  BY <1>2 DEF UpChannels, Ups
<1>4. \A m \in Procs : Upward(n, b, k) \notin In(toDir[m])
  BY <1>2 DEF UpChannels
<1>5. ASSUME NEW c \in Blocks, NEW m \in Procs
      PROVE  Ups(c)'[m] = IF c = b /\ m = n THEN Ups(c)[m] \ {k} ELSE Ups(c)[m]
  <2>1. \A r : Upward(m, c, r) = Upward(n, b, k) <=> m = n /\ c = b /\ r = k
    BY MessagesDiffer
  <2>2. \A r : /\ Upward(m, c, r) \in In(queue') <=> Upward(m, c, r) \in In(queue)
                                                     /\ ~(m = n /\ c = b /\ r = k)
               /\ m = n /\ c = b /\ r = k => Upward(m, c, r) \notin In(toDir[m])
    BY <1>2, <1>4, <2>1
  <2>3. \A r \in UpKinds : r \in Ups(c)'[m] <=> r \in Ups(c)[m] /\ ~(m = n /\ c = b /\ r = k)
    BY <2>2 DEF Ups
  <2>4. Ups(c)'[m] \subseteq UpKinds /\ Ups(c)[m] \subseteq UpKinds
    BY DEF Ups
  <2> QED BY <2>3, <2>4
<1> QED BY <1>3, <1>5 DEF UpLoses

\* The message at the head of a channel down is taken; a recall or an
\* invalidation has no answer of its block behind or beside it.
LEMMA DownTaken ==
  ASSUME NetworkTypes, DownChannels, NEW n \in Procs, NEW b \in Blocks, NEW k \in DownKinds,
         Head(toNode[n]) = Downward(b, k), TakenDown(n), resp' = resp
  PROVE  /\ DownChannels' /\ k \in Downs(b)[n]
         /\ k \in ProbeKinds => ~Answered(Downs(b)[n])
         /\ DownLoses(n, b, k)
<1> DEFINE z == Downward(b, k)
<1>1. toNode[n] \in Seq(ToNodeMsg) /\ NoDup(toNode[n]) /\ toNode[n] # <<>>
  BY DEF NetworkTypes, DownChannels, TakenDown
<1>2. /\ toNode'[n] = Tail(toNode[n])
      /\ \A m \in Procs : m # n => toNode'[m] = toNode[m]
  BY DEF NetworkTypes, TakenDown
<1>3. /\ z \in In(toNode[n]) /\ In(toNode'[n]) = In(toNode[n]) \ {z} /\ NoDup(toNode'[n])
      /\ \A x, y : Before(toNode[n], x, y) => /\ Before(toNode'[n], x, y)
                                              /\ z = y => x \notin In(toNode[n])
  BY <1>1, <1>2, TailIn
<1>4. \A m, c, r : Latched(m, c, r)' = Latched(m, c, r)
  BY DEF Latched
<1>5. DownChannels'
  <2>1. ASSUME NEW m \in Procs
        PROVE  /\ NoDup(toNode'[m])
               /\ InOrder(toNode'[m])
               /\ \A c \in Blocks, x, r \in DownKinds :
                    Latched(m, c, x) => Downward(c, r) \notin In(toNode'[m])
    <3>1. CASE m = n
      BY <1>3, <3>1 DEF DownChannels, InOrder
    <3>2. CASE m # n
      BY <1>2, <3>2 DEF DownChannels
    <3> QED BY <3>1, <3>2
  <2> QED BY <1>4, <2>1 DEF DownChannels
<1>6. \A r \in DownKinds : ~Latched(n, b, r)
  BY <1>3 DEF DownChannels
<1>7. k \in Downs(b)[n]
  BY <1>3 DEF Downs
<1>8. ASSUME k \in ProbeKinds
      PROVE  ~Answered(Downs(b)[n])
  <2>1. \A x \in AnsKinds : Downward(b, x) \notin In(toNode[n])
    BY <1>3, <1>8 DEF DownChannels, InOrder
  <2> QED BY <1>6, <2>1, Kinds DEF Answered, Downs
<1>9. ASSUME NEW c \in Blocks, NEW m \in Procs
      PROVE  Downs(c)'[m] = IF c = b /\ m = n THEN Downs(c)[m] \ {k} ELSE Downs(c)[m]
  <2>1. \A r : Downward(c, r) = z <=> c = b /\ r = k
    BY MessagesDiffer DEF z
  <2> HIDE DEF z
  <2>2. \A r : Downward(c, r) \in In(toNode'[m]) <=> Downward(c, r) \in In(toNode[m])
                                                     /\ ~(m = n /\ c = b /\ r = k)
    <3>1. CASE m = n
      BY <1>3, <2>1, <3>1
    <3>2. CASE m # n
      BY <1>2, <3>2
    <3> QED BY <3>1, <3>2
  <2>3. \A r \in DownKinds : r \in Downs(c)'[m] <=> r \in Downs(c)[m] /\ ~(m = n /\ c = b /\ r = k)
    BY <1>4, <1>6, <2>2 DEF Downs
  <2>4. Downs(c)'[m] \subseteq DownKinds /\ Downs(c)[m] \subseteq DownKinds
    BY DEF Downs
  <2> QED BY <2>3, <2>4
<1> QED BY <1>5, <1>7, <1>8, <1>9 DEF DownLoses

--------------------------------------------------------------------------------
(* The agents' steps.                                                       *)

\* The view of node n on block b is all that a step of its agent changes.
OneNode(n, b) ==
  /\ UNCHANGED <<protocol, entry, thrown>>
  /\ \A c \in Blocks, m \in Procs : ~(c = b /\ m = n) =>
       agent'[m][c] = agent[m][c] /\ Ups(c)'[m] = Ups(c)[m] /\ Downs(c)'[m] = Downs(c)[m]

\* Such a step keeps the invariant if it keeps the node's part of it.
LEMMA OneNodeKeeps ==
  ASSUME ProtocolInv, NEW n \in Procs, NEW b \in Blocks, OneNode(n, b),
         UpChannels', DownChannels',
         NodeOK(protocol, n, agent'[n][b], Ups(b)'[n], Downs(b)'[n], entry[b]),
         SameAck(Ups(b)[n], Downs(b)[n], Ups(b)'[n], Downs(b)'[n])
  PROVE  ProtocolInv'
<1> SUFFICES ASSUME NEW c \in Blocks PROVE BlockOK(c)'
  BY DEF ProtocolInv, OneNode
<1>1. BlockIs(protocol, AgentsAt(c), Ups(c), Downs(c), entry[c])
  BY DEF ProtocolInv, BlockOK
<1>2. /\ Ups(c)' \in [Procs -> SUBSET UpKinds]
      /\ Downs(c)' \in [Procs -> SUBSET DownKinds]
      /\ \A m \in Procs : AgentsAt(c)[m] = agent[m][c] /\ AgentsAt(c)'[m] = agent'[m][c]
  BY DEF Ups, Downs, AgentsAt
<1>3. protocol' = protocol /\ entry' = entry
  BY DEF OneNode
<1>4. CASE c = b
  <2>1. OnlyOf(n, AgentsAt(c), Ups(c), Downs(c), AgentsAt(c)', Ups(c)', Downs(c)')
    BY <1>2 DEF OneNode, OnlyOf
  <2>2. NodeOK(protocol, n, AgentsAt(c)'[n], Ups(c)'[n], Downs(c)'[n], entry[c])
        /\ SameAck(Ups(c)[n], Downs(c)[n], Ups(c)'[n], Downs(c)'[n])
    BY <1>2, <1>4
  <2>3. BlockIs(protocol, AgentsAt(c)', Ups(c)', Downs(c)', entry[c])
    BY <1>1, <1>2, <2>1, <2>2, NodeChanges
  <2> QED BY <1>3, <2>3 DEF BlockOK
<1>5. CASE c # b
  <2>1. \A m \in Procs :
          /\ AgentsAt(c)'[m] = AgentsAt(c)[m]
          /\ Ups(c)'[m] = Ups(c)[m] /\ Downs(c)'[m] = Downs(c)[m]
    BY <1>2, <1>5 DEF OneNode
  <2>2. BlockIs(protocol, AgentsAt(c)', Ups(c)', Downs(c)', entry[c])
    BY <1>1, <1>2, <2>1, SameViews
  <2> QED BY <1>3, <2>2 DEF BlockOK
<1> QED BY <1>4, <1>5

\* What the invariant says of one node.
LEMMA NodeRight ==
  ASSUME ProtocolInv, NEW n \in Procs, NEW b \in Blocks
  PROVE  /\ NodeOK(protocol, n, agent[n][b], Ups(b)[n], Downs(b)[n], entry[b])
         /\ EntryOK(protocol, entry[b]) /\ protocol \in Protocol
         /\ UpChannels /\ DownChannels
  BY DEF ProtocolInv, BlockOK, BlockIs, AgentsAt

\* One agent's new state.
LEMMA AgentChanges ==
  ASSUME NetworkTypes, NEW n \in Procs, NEW b \in Blocks, NEW t,
         AgentGoes(n, b, t)
  PROVE  \A m \in Procs, c \in Blocks :
           /\ c = b /\ m = n => agent'[m][c] = t
           /\ ~(c = b /\ m = n) => agent'[m][c] = agent[m][c]
  BY DEF NetworkTypes, AgentGoes

\* A load or store that misses: the request is on its way.
LEMMA AskStep ==
  ASSUME NetworkTypes, ProtocolInv, NEW n \in Procs, NEW b \in Blocks,
         NEW k, NEW t, AskRow(agent[n][b], k, t), t \in AgentsOf(protocol),
         AgentGoes(n, b, t), SentUp(n, Upward(n, b, k)),
         UNCHANGED <<protocol, toNode, queue, entry, resp, thrown>>
  PROVE  ProtocolInv'
<1>1. /\ NodeOK(protocol, n, agent[n][b], Ups(b)[n], Downs(b)[n], entry[b])
      /\ protocol \in Protocol /\ UpChannels /\ DownChannels
  BY NodeRight
<1>2. NodeOK(protocol, n, t, Ups(b)[n] \cup {k}, Downs(b)[n], entry[b]) /\ ~Asks(Ups(b)[n])
  <2>1. agent[n][b] \in DirStable
    BY DEF AskRow, DirStable
  <2> QED BY <1>1, <2>1, AskKeeps DEF NodeOK, RequestPlace
<1>3. k \in ReqKinds /\ k \in UpKinds /\ k \notin Ups(b)[n] /\ k # "INVACK"
  BY <1>2, Kinds DEF AskRow, Asks
<1>4. UpChannels' /\ UpGains(n, b, k)
  BY <1>1, <1>3, UpSent
<1>5. DownChannels' /\ \A c : Downs(c)' = Downs(c)
  BY <1>1, DownsKept
<1>6. \A m \in Procs, c \in Blocks :
        /\ c = b /\ m = n => agent'[m][c] = t
        /\ ~(c = b /\ m = n) => agent'[m][c] = agent[m][c]
  BY AgentChanges
<1>7. OneNode(n, b)
  BY <1>4, <1>5, <1>6 DEF OneNode, UpGains, DownLoses
<1>8. /\ agent'[n][b] = t /\ Ups(b)'[n] = Ups(b)[n] \cup {k} /\ Downs(b)'[n] = Downs(b)[n]
  BY <1>4, <1>5, <1>6 DEF UpGains
<1>9. NodeOK(protocol, n, agent'[n][b], Ups(b)'[n], Downs(b)'[n], entry[b])
  BY <1>2, <1>8
<1>10. SameAck(Ups(b)[n], Downs(b)[n], Ups(b)'[n], Downs(b)'[n])
  BY <1>3, <1>8 DEF SameAck
<1> QED BY <1>4, <1>5, <1>7, <1>9, <1>10, OneNodeKeeps

\* The answer arrives.
LEMMA AnswerStep ==
  ASSUME NetworkTypes, ProtocolInv, NEW n \in Procs, NEW b \in Blocks, NEW k \in AnsKinds,
         Head(toNode[n]) = Downward(b, k), TakenDown(n),
         NEW t, t = Due(agent[n][b], {k}), AgentGoes(n, b, t),
         UNCHANGED <<protocol, toDir, queue, entry, resp, thrown>>
  PROVE  ProtocolInv'
<1>1. /\ NodeOK(protocol, n, agent[n][b], Ups(b)[n], Downs(b)[n], entry[b])
      /\ protocol \in Protocol /\ UpChannels /\ DownChannels
  BY NodeRight
<1>2. k \in DownKinds /\ k # "REQ_INVALID"
  BY Kinds
<1>3. /\ DownChannels' /\ k \in Downs(b)[n]
      /\ DownLoses(n, b, k)
  BY <1>1, <1>2, DownTaken
<1>4. NodeOK(protocol, n, t, Ups(b)[n], Downs(b)[n] \ {k}, entry[b])
  BY <1>1, <1>3, AnswerKeeps
<1>5. UpChannels' /\ \A c : Ups(c)' = Ups(c)
  BY <1>1, UpsKept
<1>6. \A m \in Procs, c \in Blocks :
        /\ c = b /\ m = n => agent'[m][c] = t
        /\ ~(c = b /\ m = n) => agent'[m][c] = agent[m][c]
  BY AgentChanges
<1>7. OneNode(n, b)
  BY <1>3, <1>5, <1>6 DEF OneNode, UpGains, DownLoses
<1>8. /\ agent'[n][b] = t /\ Ups(b)'[n] = Ups(b)[n] /\ Downs(b)'[n] = Downs(b)[n] \ {k}
  BY <1>3, <1>5, <1>6 DEF DownLoses
<1>9. NodeOK(protocol, n, agent'[n][b], Ups(b)'[n], Downs(b)'[n], entry[b])
  BY <1>4, <1>8
<1>10. SameAck(Ups(b)[n], Downs(b)[n], Ups(b)'[n], Downs(b)'[n])
  BY <1>2, <1>8 DEF SameAck
<1> QED BY <1>3, <1>5, <1>7, <1>9, <1>10, OneNodeKeeps

\* A recall or invalidation arrives and is answered.
LEMMA ProbeStep ==
  ASSUME NetworkTypes, ProtocolInv, NEW n \in Procs, NEW b \in Blocks, NEW r \in ProbeKinds,
         Head(toNode[n]) = Downward(b, r), TakenDown(n),
         NEW k, NEW t, ProbeRow(protocol, agent[n][b], r, k, t), t \in AgentsOf(protocol),
         AgentGoes(n, b, t), SentUp(n, Upward(n, b, k)),
         UNCHANGED <<protocol, queue, entry, resp, thrown>>
  PROVE  ProtocolInv'
<1>1. /\ NodeOK(protocol, n, agent[n][b], Ups(b)[n], Downs(b)[n], entry[b])
      /\ EntryOK(protocol, entry[b])
      /\ protocol \in Protocol /\ UpChannels /\ DownChannels
  BY NodeRight
<1>2. r \in DownKinds
  BY Kinds
<1>3. /\ DownChannels' /\ r \in Downs(b)[n] /\ ~Answered(Downs(b)[n])
      /\ DownLoses(n, b, r)
  BY <1>1, <1>2, DownTaken
<1>4. NodeOK(protocol, n, t, Ups(b)[n] \cup {k}, Downs(b)[n] \ {r}, entry[b])
  BY <1>1, <1>3, ProbeKeeps
<1>5. ~Replies(Ups(b)[n]) /\ \A q \in ProbeKinds : q \in Downs(b)[n] => q = r
  BY <1>1, <1>3, ProbeMeets
<1>6. k \in {"DATA", "INVACK"} /\ (k = "INVACK" <=> r = "REQ_INVALID")
  BY DEF ProbeRow
<1>7. k \in UpKinds /\ k \notin Ups(b)[n] /\ queue' = queue
  BY <1>5, <1>6, Kinds DEF Replies
<1>8. UpChannels' /\ UpGains(n, b, k)
  BY <1>1, <1>7, UpSent
<1>9. \A m \in Procs, c \in Blocks :
        /\ c = b /\ m = n => agent'[m][c] = t
        /\ ~(c = b /\ m = n) => agent'[m][c] = agent[m][c]
  BY AgentChanges
<1>10. OneNode(n, b)
  BY <1>3, <1>8, <1>9 DEF OneNode, UpGains, DownLoses
<1>11. /\ agent'[n][b] = t
       /\ Ups(b)'[n] = Ups(b)[n] \cup {k} /\ Downs(b)'[n] = Downs(b)[n] \ {r}
  BY <1>3, <1>8, <1>9 DEF UpGains, DownLoses
<1>12. NodeOK(protocol, n, agent'[n][b], Ups(b)'[n], Downs(b)'[n], entry[b])
  BY <1>4, <1>11
<1>13. SameAck(Ups(b)[n], Downs(b)[n], Ups(b)'[n], Downs(b)'[n])
  BY <1>3, <1>5, <1>6, <1>11, Kinds DEF Replies, SameAck
<1> QED BY <1>3, <1>8, <1>10, <1>12, <1>13, OneNodeKeeps

\* Steps that only move a message leave the views as they are.
LEMMA SameViewsKeep ==
  ASSUME ProtocolInv, UNCHANGED <<protocol, agent, entry, thrown>>, UpChannels', DownChannels',
         \A c \in Blocks, m \in Procs : Ups(c)'[m] = Ups(c)[m] /\ Downs(c)'[m] = Downs(c)[m]
  PROVE  ProtocolInv'
<1> SUFFICES ASSUME NEW c \in Blocks PROVE BlockOK(c)'
  BY DEF ProtocolInv
<1>1. BlockIs(protocol, AgentsAt(c), Ups(c), Downs(c), entry[c])
  BY DEF ProtocolInv, BlockOK
<1>2. /\ Ups(c)' \in [Procs -> SUBSET UpKinds]
      /\ Downs(c)' \in [Procs -> SUBSET DownKinds]
      /\ \A m \in Procs : AgentsAt(c)'[m] = AgentsAt(c)[m]
  BY DEF Ups, Downs, AgentsAt
<1>3. BlockIs(protocol, AgentsAt(c)', Ups(c)', Downs(c)', entry[c])
  BY <1>1, <1>2, SameViews
<1> QED BY <1>3 DEF BlockOK

\* Steps beside the protocol keep the invariant, too.
LEMMA ProtocolIdle ==
  ASSUME ProtocolInv,
         UNCHANGED <<protocol, agent, toDir, toNode, queue, entry, resp, thrown>>
  PROVE  ProtocolInv'
<1>1. UpChannels' /\ DownChannels'
  BY UpsKept, DownsKept DEF ProtocolInv
<1>2. \A c \in Blocks, m \in Procs : Ups(c)'[m] = Ups(c)[m] /\ Downs(c)'[m] = Downs(c)[m]
  BY UpsKept, DownsKept
<1> QED BY <1>1, <1>2, SameViewsKeep

\* A message reaches the directory.
LEMMA ArriveStep ==
  ASSUME NetworkTypes, ProtocolInv, NEW n \in Procs, DirArrive(n)
  PROVE  ProtocolInv'
<1>1. /\ toDir[n] # <<>> /\ queue' = Append(queue, Head(toDir[n]))
      /\ toDir' = [toDir EXCEPT ![n] = Tail(@)]
      /\ UNCHANGED <<protocol, agent, toNode, entry, resp, thrown>>
  BY DEF DirArrive
<1>2. UpChannels' /\ \A c \in Blocks, m \in Procs : Ups(c)'[m] = Ups(c)[m]
  BY <1>1, UpArrived DEF ProtocolInv
<1>3. DownChannels' /\ \A c \in Blocks, m \in Procs : Downs(c)'[m] = Downs(c)[m]
  BY <1>1, DownsKept DEF ProtocolInv
<1> QED BY <1>1, <1>2, <1>3, SameViewsKeep

\* A request for a block in transit is put back.
LEMMA CycleStep ==
  ASSUME NetworkTypes, ProtocolInv, queue # <<>>, CycleQueue, UNCHANGED <<protocol, agent, toDir>>
  PROVE  ProtocolInv'
<1>1. /\ queue' = Append(Tail(queue), Head(queue))
      /\ UNCHANGED <<protocol, agent, toDir, toNode, entry, resp, thrown>>
  BY DEF CycleQueue
<1>2. UpChannels' /\ \A c \in Blocks, m \in Procs : Ups(c)'[m] = Ups(c)[m]
  BY <1>1, UpCycled DEF ProtocolInv
<1>3. DownChannels' /\ \A c \in Blocks, m \in Procs : Downs(c)'[m] = Downs(c)[m]
  BY <1>1, DownsKept DEF ProtocolInv
<1> QED BY <1>1, <1>2, <1>3, SameViewsKeep

--------------------------------------------------------------------------------
(* The directory's steps.                                                   *)

DownGains(b, dsts, x) == \A c \in Blocks, m \in Procs :
  Downs(c)'[m] = IF c = b /\ m \in dsts THEN Downs(c)[m] \cup {x} ELSE Downs(c)[m]

\* x goes to the nodes of dsts.
SentDown(b, dsts, x) ==
  toNode' = [n \in Procs |-> IF n \in dsts THEN Append(toNode[n], Downward(b, x)) ELSE toNode[n]]

\* One channel that gets a message which is not there yet, and is no answer of
\* a block for which something is there.
LEMMA OneChannel ==
  ASSUME NEW s \in Seq(ToNodeMsg), NoDup(s), InOrder(s),
         NEW b \in Blocks, NEW x \in DownKinds, Downward(b, x) \notin In(s),
         x \in AnsKinds => \A r \in DownKinds : Downward(b, r) \notin In(s),
         NEW t, t = Append(s, Downward(b, x))
  PROVE  In(t) = In(s) \cup {Downward(b, x)} /\ NoDup(t) /\ InOrder(t)
<1> DEFINE z == Downward(b, x)
<1>1. z \in ToNodeMsg
  BY MessageTypes
<1>2. /\ In(t) = In(s) \cup {z} /\ NoDup(t)
      /\ \A y, w : Before(s, y, w) /\ y # w /\ (z = y => w \notin In(s)) => Before(t, y, w)
  <2>1. z \notin In(s) /\ t = Append(s, z)
    OBVIOUS
  <2> HIDE DEF z
  <2> QED BY <1>1, <2>1, AppendIn
<1>3. ASSUME NEW c \in Blocks, NEW k \in AnsKinds, NEW r \in ProbeKinds
      PROVE  Before(t, Downward(c, k), Downward(c, r))
  <2>1. k # r /\ r \in DownKinds
    BY Kinds
  <2>2. /\ Downward(c, k) # Downward(c, r)
        /\ z = Downward(c, k) => b = c /\ x = k
    BY <2>1, MessagesDiffer
  <2>3. z = Downward(c, k) => Downward(c, r) \notin In(s)
    BY <2>1, <2>2
  <2>4. Before(s, Downward(c, k), Downward(c, r))
    BY DEF InOrder
  <2> HIDE DEF z
  <2> QED BY <1>2, <2>2, <2>3, <2>4
<1> QED BY <1>2, <1>3 DEF InOrder

\* What the directory sends down at once.
LEMMA DownSent ==
  ASSUME NetworkTypes, DownChannels, NEW b \in Blocks, NEW dsts, NEW x \in DownKinds,
         \A m \in dsts : m \in Procs /\ Fresh(Downs(b)[m], x),
         SentDown(b, dsts, x), ~resp.busy, resp' = resp
  PROVE  DownChannels' /\ DownGains(b, dsts, x)
<1> DEFINE z == Downward(b, x)
<1>1. \A m, c, r : ~Latched(m, c, r) /\ ~Latched(m, c, r)'
  BY DEF Latched
<1>2. \A m \in Procs : /\ m \in dsts => toNode'[m] = Append(toNode[m], z)
                       /\ m \notin dsts => toNode'[m] = toNode[m]
  BY DEF SentDown
<1>3. ASSUME NEW m \in Procs
      PROVE  /\ m \in dsts => In(toNode'[m]) = In(toNode[m]) \cup {z}
             /\ m \notin dsts => In(toNode'[m]) = In(toNode[m])
             /\ NoDup(toNode'[m])
             /\ InOrder(toNode'[m])
  <2>1. /\ toNode[m] \in Seq(ToNodeMsg) /\ NoDup(toNode[m])
        /\ InOrder(toNode[m])
    BY DEF NetworkTypes, DownChannels
  <2>2. CASE m \in dsts
    <3>1. Fresh(Downs(b)[m], x)
      BY <2>2
    <3>2. /\ Downward(b, x) \notin In(toNode[m])
          /\ x \in AnsKinds => \A r \in DownKinds : Downward(b, r) \notin In(toNode[m])
      BY <3>1 DEF Fresh, Downs
    <3> QED BY <1>2, <2>1, <2>2, <3>2, OneChannel
  <2>3. CASE m \notin dsts
    BY <1>2, <2>1, <2>3
  <2> QED BY <2>2, <2>3
<1>4. DownChannels'
  BY <1>1, <1>3 DEF DownChannels
<1>5. ASSUME NEW c \in Blocks, NEW m \in Procs
      PROVE  Downs(c)'[m] = IF c = b /\ m \in dsts THEN Downs(c)[m] \cup {x} ELSE Downs(c)[m]
  <2>1. \A r : Downward(c, r) = z <=> c = b /\ r = x
    BY MessagesDiffer
  <2> HIDE DEF z
  <2>2. \A r : Downward(c, r) \in In(toNode'[m]) <=>
                 Downward(c, r) \in In(toNode[m]) \/ (m \in dsts /\ c = b /\ r = x)
    BY <1>3, <2>1
  <2>3. \A r \in DownKinds : r \in Downs(c)'[m] <=>
                               r \in Downs(c)[m] \/ (m \in dsts /\ c = b /\ r = x)
    BY <1>1, <2>2 DEF Downs
  <2>4. Downs(c)'[m] \subseteq DownKinds /\ Downs(c)[m] \subseteq DownKinds
    BY DEF Downs
  <2> QED BY <2>3, <2>4
<1> QED BY <1>4, <1>5 DEF DownGains

\* The response that is latched is on its way down from then on.
LEMMA DownLatched ==
  ASSUME NetworkTypes, DownChannels, NEW b \in Blocks, NEW q \in Procs, NEW send_E \in BOOLEAN,
         Downs(b)[q] = {}, ~resp.busy, toNode' = toNode,
         resp' = [busy |-> TRUE, target |-> q, block |-> b, send_E |-> send_E]
  PROVE  DownChannels' /\ DownGains(b, {q}, IF send_E THEN "DATA_E" ELSE "DATA")
<1> DEFINE x == IF send_E THEN "DATA_E" ELSE "DATA"
<1>1. \A m, c, r : ~Latched(m, c, r) /\ (Latched(m, c, r)' <=> m = q /\ c = b /\ r = x)
  BY DEF Latched
<1>2. x \in DownKinds
  BY Kinds
<1> HIDE DEF x
<1>3. DownChannels'
  <2>1. \A r \in DownKinds : Downward(b, r) \notin In(toNode[q])
    BY DEF Downs
  <2> QED BY <1>1, <2>1 DEF DownChannels
<1>4. ASSUME NEW c \in Blocks, NEW m \in Procs
      PROVE  Downs(c)'[m] = IF c = b /\ m \in {q} THEN Downs(c)[m] \cup {x} ELSE Downs(c)[m]
  <2>1. \A r \in DownKinds : r \in Downs(c)'[m] <=>
                               r \in Downs(c)[m] \/ (m \in {q} /\ c = b /\ r = x)
    BY <1>1, <1>2 DEF Downs
  <2>2. Downs(c)'[m] \subseteq DownKinds /\ Downs(c)[m] \subseteq DownKinds
    BY DEF Downs
  <2> QED BY <1>2, <2>1, <2>2
<1>5. DownGains(b, {q}, x)
  BY <1>4 DEF DownGains
<1> QED BY <1>3, <1>5 DEF x

\* It leaves the latch for the channel of its node.
LEMMA RespondStep ==
  ASSUME NetworkTypes, ProtocolInv, DirRespond
  PROVE  ProtocolInv'
<1> DEFINE n == resp.target
           b == resp.block
           k == IF resp.send_E THEN "DATA_E" ELSE "DATA"
<1>1. n \in Procs /\ b \in Blocks /\ Latched(n, b, k) /\ k \in AnsKinds /\ k \in DownKinds
  <2>1. resp \in Latch
    BY DEF DirRespond, NetworkTypes, Idle
  <2> QED BY <2>1, Kinds DEF DirRespond, Latch, Latched
<1>2. /\ toNode' = [toNode EXCEPT ![n] = Append(@, Downward(b, k))] /\ resp' = Idle
      /\ UNCHANGED <<protocol, agent, toDir, queue, entry, thrown>>
  BY DEF DirRespond, Downward
<1>3. /\ \A m, c, r : ~Latched(m, c, r)'
      /\ \A m, c, r : Latched(m, c, r) <=> m = n /\ c = b /\ r = k
  BY <1>1, <1>2 DEF Latched, Idle
<1> HIDE DEF n, b, k
<1>4. UpChannels' /\ \A c \in Blocks, m \in Procs : Ups(c)'[m] = Ups(c)[m]
  BY <1>2, UpsKept DEF ProtocolInv
<1>5. /\ toNode'[n] = Append(toNode[n], Downward(b, k))
      /\ \A m \in Procs : m # n => toNode'[m] = toNode[m]
  BY <1>1, <1>2 DEF NetworkTypes
<1>6. /\ toNode[n] \in Seq(ToNodeMsg) /\ NoDup(toNode[n])
      /\ InOrder(toNode[n])
      /\ \A r \in DownKinds : Downward(b, r) \notin In(toNode[n])
  BY <1>1 DEF NetworkTypes, ProtocolInv, DownChannels
<1>7. /\ In(toNode'[n]) = In(toNode[n]) \cup {Downward(b, k)} /\ NoDup(toNode'[n])
      /\ InOrder(toNode'[n])
  BY <1>1, <1>5, <1>6, OneChannel
<1>8. DownChannels'
  <2>1. ASSUME NEW m \in Procs
        PROVE  /\ NoDup(toNode'[m])
               /\ InOrder(toNode'[m])
    BY <1>5, <1>7 DEF ProtocolInv, DownChannels
  <2> QED BY <1>3, <2>1 DEF DownChannels
<1>9. ASSUME NEW c \in Blocks, NEW m \in Procs
      PROVE  Downs(c)'[m] = Downs(c)[m]
  <2>1. \A r : Downward(c, r) = Downward(b, k) <=> c = b /\ r = k
    BY MessagesDiffer
  <2>2. \A r : Downward(c, r) \in In(toNode'[m]) <=>
                 Downward(c, r) \in In(toNode[m]) \/ (m = n /\ c = b /\ r = k)
    BY <1>5, <1>7, <2>1
  <2> QED BY <1>3, <2>2 DEF Downs
<1> QED BY <1>2, <1>4, <1>8, <1>9, SameViewsKeep

\* The message k of n about b is taken, the entry becomes f, and x goes to dsts.
HandledStep(n, b, k, f, dsts, x) ==
  /\ UpChannels' /\ DownChannels'
  /\ UpLoses(n, b, k) /\ DownGains(b, dsts, x)
  /\ entry' = [entry EXCEPT ![b] = f]
  /\ UNCHANGED <<protocol, agent, thrown>>

\* A message that is handled well keeps the invariant.
LEMMA HandledKeeps ==
  ASSUME NetworkTypes, ProtocolInv, NEW n \in Procs, NEW b \in Blocks,
         NEW k, NEW f, NEW dsts, NEW x,
         Handles(protocol, AgentsAt(b), Ups(b), Downs(b), n, k, f, dsts, x),
         HandledStep(n, b, k, f, dsts, x)
  PROVE  ProtocolInv'
<1> SUFFICES ASSUME NEW c \in Blocks PROVE BlockOK(c)'
  BY DEF ProtocolInv, HandledStep
<1>1. /\ Ups(c)' \in [Procs -> SUBSET UpKinds] /\ Ups(c) \in [Procs -> SUBSET UpKinds]
      /\ Downs(c)' \in [Procs -> SUBSET DownKinds] /\ Downs(c) \in [Procs -> SUBSET DownKinds]
      /\ AgentsAt(c)' = AgentsAt(c) /\ protocol' = protocol
  BY DEF Ups, Downs, AgentsAt, HandledStep
<1>2. entry'[c] = IF c = b THEN f ELSE entry[c]
  BY DEF HandledStep, NetworkTypes
<1>3. CASE c = b
  <2>1. BlockIs(protocol, AgentsAt(c), Took(Ups(c), n, k), Gave(Downs(c), dsts, x), f)
    BY <1>3 DEF Handles
  <2>2. \A m \in Procs : /\ Ups(c)'[m] = Took(Ups(c), n, k)[m]
                         /\ Downs(c)'[m] = Gave(Downs(c), dsts, x)[m]
    BY <1>1, <1>3 DEF HandledStep, UpLoses, DownGains, Took, Gave
  <2>3. BlockIs(protocol, AgentsAt(c), Ups(c)', Downs(c)', f)
    BY <1>1, <2>1, <2>2, SameViews
  <2> QED BY <1>1, <1>2, <1>3, <2>3 DEF BlockOK
<1>4. CASE c # b
  <2>1. BlockIs(protocol, AgentsAt(c), Ups(c), Downs(c), entry[c])
    BY DEF ProtocolInv, BlockOK
  <2>2. \A m \in Procs : Ups(c)'[m] = Ups(c)[m] /\ Downs(c)'[m] = Downs(c)[m]
    BY <1>4 DEF HandledStep, UpLoses, DownGains
  <2>3. BlockIs(protocol, AgentsAt(c), Ups(c)', Downs(c)', entry[c])
    BY <1>1, <2>1, <2>2, SameViews
  <2> QED BY <1>1, <1>2, <1>4, <2>3 DEF BlockOK
<1> QED BY <1>3, <1>4

\* Message m, next in the queue, as block and entry see it.
Meets(p, ag, U, D, e, m) ==
  BlockIs(p, ag, U, D, e) /\ m \in ToDirMsg /\ m.kind \in U[m.src]

\* The entry becomes f and x is sent to q by way of the memory, or to the nodes
\* of dsts directly.
Fetched(b, f, q, x) == \/ x = "DATA"   /\ Fetch(b, f, q, FALSE)
                       \/ x = "DATA_E" /\ Fetch(b, f, q, TRUE)
Sends(b, f, dsts, x) ==
  \/ Send(b, f, dsts, x)
  \/ \E q : dsts = {q} /\ Fetched(b, f, q, x)
  \/ dsts = {} /\ Note(b, f)

\* The message is handled well.
Outcome(p, ag, U, D, m) == \E f, dsts, x :
  /\ x \in DownKinds /\ Sends(m.block, f, dsts, x)
  /\ Handles(p, ag, U, D, m.src, m.kind, f, dsts, x)

\* What the handlers find in a message and its entry.
LEMMA MeetsTypes ==
  ASSUME NEW p, NEW ag, NEW U, NEW D, NEW e, NEW m, Meets(p, ag, U, D, e, m)
  PROVE  /\ BlockIs(p, ag, U, D, e) /\ p \in Protocol /\ EntryOK(p, e)
         /\ m \in ToDirMsg /\ m.src \in Procs /\ m.kind \in U[m.src] /\ m.kind \in UpKinds
         /\ m.block \in Blocks
         /\ e \in DirEntry /\ e.state \in DirStatesOf(p) /\ e.state \in DirStates
         /\ e.presence \in SUBSET Procs /\ e.active_sharers = Cardinality(e.presence)
         /\ e.req_node \in Procs /\ e.inv_ack_waiting \in Int
<1>1. /\ BlockIs(p, ag, U, D, e) /\ m \in ToDirMsg /\ m.kind \in U[m.src]
      /\ p \in Protocol /\ EntryOK(p, e) /\ e \in DirEntry
  BY BlockParts DEF Meets
<1>2. m.src \in Procs /\ m.kind \in UpKinds /\ m.block \in Blocks
  BY <1>1, MessageTypes
<1>3. /\ e.presence \in SUBSET Procs /\ e.req_node \in Procs /\ e.inv_ack_waiting \in Int
      /\ e.state \in DirStates
  BY <1>1 DEF DirEntry
<1> QED BY <1>1, <1>2, <1>3 DEF EntryOK

\* The only holder is the first and the last one that is present.
LEMMA OnlyHolder ==
  ASSUME NEW e, NEW h \in Procs, e.presence = {h}
  PROVE  FirstPresent(e) = h /\ LastPresent(e) = h
<1>1. h \in Int
  BY ProcsAreInts
<1>2. \A n \in {h} : n = h
  OBVIOUS
<1> QED BY <1>1, <1>2 DEF FirstPresent, LastPresent

\* A message the protocol has a row for at the block's state is all that comes.
LEMMA MessageExpected ==
  ASSUME NEW p, NEW ag, NEW U, NEW D, NEW e, NEW m, Meets(p, ag, U, D, e, m)
  PROVE  /\ m.kind \in {"GETS", "GETM", "GETX", "DATA", "INVACK"}
         /\ m.kind = "DATA" =>
              e.state \in {"MM", "EM", "MS", "ES", "MO", "EF", "OO", "FF", "OM", "FM"}
         /\ m.kind = "INVACK" => e.state \in {"SM", "OM", "FM"} /\ e.inv_ack_waiting >= 1
         /\ m.kind = "GETS" => p # "MI"
         /\ m.kind = "GETX" => p \in WithE
<1>1. /\ BlockIs(p, ag, U, D, e) /\ m.src \in Procs /\ m.kind \in U[m.src] /\ m.kind \in UpKinds
      /\ p \in Protocol
  BY MeetsTypes
<1>2. m.kind \in {"GETS", "GETM", "GETX", "DATA", "INVACK"}
  BY <1>1 DEF UpKinds, ReqKinds
<1>3. m.kind = "DATA" =>
        e.state \in {"MM", "EM", "MS", "ES", "MO", "EF", "OO", "FF", "OM", "FM"}
  BY <1>1, Giver
<1>4. ASSUME m.kind = "INVACK"
      PROVE  e.state \in {"SM", "OM", "FM"} /\ e.inv_ack_waiting >= 1
  <2>1. "INVACK" \in U[m.src]
    BY <1>1, <1>4
  <2>2. e.state \in {"SM", "OM", "FM"} /\ AckTaken(U, D, e, m.src)
    BY <1>1, <2>1, Acknowledger
  <2>3. e.inv_ack_waiting \in Nat /\ e.inv_ack_waiting > 0
    BY <2>2 DEF AckTaken
  <2> QED BY <2>2, <2>3
<1>5. m.kind = "GETS" => p # "MI"
  <2>1. m.kind = "GETS" => ag[m.src] = "IS" /\ ag[m.src] \in AgentsOf(p)
    BY <1>1, Asker, Kinds DEF BlockIs, NodeOK
  <2> QED BY <1>1, <2>1, AgentsSplit
<1>6. m.kind = "GETX" => p \in WithE
  BY <1>1, Asker, Kinds
<1> QED BY <1>2, <1>3, <1>4, <1>5, <1>6

\* A load, or any request for a block nobody has, comes from no holder.
LEMMA NoHolderAsks ==
  ASSUME NEW p, NEW ag, NEW U, NEW D, NEW e, NEW m, Meets(p, ag, U, D, e, m),
         m.kind \in ReqKinds, e.state = "I" \/ (e.state = "S" /\ m.kind = "GETS")
  PROVE  m.src \notin e.presence
<1>1. /\ BlockIs(p, ag, U, D, e) /\ m.src \in Procs /\ m.kind \in U[m.src] /\ e \in DirEntry
      /\ p \in Protocol /\ EntryOK(p, e) /\ e.state \in DirStatesOf(p)
  BY MeetsTypes
<1>2. CASE e.state = "I"
  BY <1>1, <1>2 DEF EntryOK
<1>3. CASE e.state = "S" /\ m.kind = "GETS"
  <2> DEFINE f == AddSharer(e, m.src)
  <2>1. /\ f \in DirEntry /\ f.state = "S" /\ f.presence = e.presence \cup {m.src}
        /\ f.active_sharers = e.active_sharers + 1 /\ f.inv_ack_waiting = e.inv_ack_waiting
    <3>1. f \in DirEntry
      BY <1>1, EntryEdits
    <3> QED BY <1>1, <1>3, <3>1 DEF AddSharer, DirEntry
  <2> HIDE DEF f
  <2>2. PICK x \in AnsKinds : x = "DATA"
    BY Kinds
  <2>3. /\ e.state = "I" \/ (e.state = "S" /\ f.state = "S")
        /\ \/ m.kind \in {"GETM", "GETX"} /\ f.state = "M" /\ x = "DATA"
           \/ m.kind = "GETS" /\ f.state = "S" /\ x = "DATA" /\ "S" \in DirStatesOf(p)
           \/ m.kind = "GETS" /\ f.state = "E" /\ x = "DATA_E" /\ p \in WithE
    BY <1>1, <1>3, <2>1, <2>2
  <2>4. m.src \notin e.presence /\ Handles(p, ag, U, D, m.src, m.kind, f, {m.src}, x)
    BY <1>1, <1>3, <2>1, <2>3, GrantFromMemory
  <2> QED BY <2>4
<1> QED BY <1>2, <1>3

\* The answer comes from memory.
LEMMA FetchMet ==
  ASSUME NEW p, NEW ag, NEW U, NEW D, NEW e, NEW m, Meets(p, ag, U, D, e, m),
         NEW s, NEW x,
         \/ e.state = "I" /\ m.kind \in {"GETM", "GETX"} /\ s = "M" /\ x = "DATA"
         \/ e.state = "I" /\ m.kind = "GETS" /\ s = "E" /\ x = "DATA_E" /\ p \in WithE
         \/ e.state \in {"I", "S"} /\ m.kind = "GETS" /\ s = "S" /\ x = "DATA"
            /\ "S" \in DirStatesOf(p),
         NEW f, f \in {AddSharer(Goto(e, s), m.src), AddOnce(Goto(e, s), m.src)}
                \/ (e.state = s /\ f \in {AddSharer(e, m.src), AddOnce(e, m.src)}),
         Fetched(m.block, f, m.src, x)
  PROVE  Outcome(p, ag, U, D, m)
<1>1. /\ BlockIs(p, ag, U, D, e) /\ m.src \in Procs /\ m.kind \in U[m.src] /\ e \in DirEntry
  BY MeetsTypes
<1>2. m.kind \in ReqKinds /\ m.src \notin e.presence
  BY NoHolderAsks, Kinds
<1>3. /\ f \in DirEntry /\ f.state = s /\ f.presence = e.presence \cup {m.src}
      /\ f.active_sharers = e.active_sharers + 1 /\ f.inv_ack_waiting = e.inv_ack_waiting
  <2>1. s \in DirStates
    BY DEF DirStates
  <2>2. f \in DirEntry
    BY <1>1, <2>1, EntryEdits
  <2>3. f \in {AddSharer(Goto(e, s), m.src)} \/ (e.state = s /\ f = AddSharer(e, m.src))
    BY <1>1, <1>2 DEF AddOnce, Goto, DirEntry
  <2> QED BY <1>1, <2>2, <2>3 DEF AddSharer, Goto, DirEntry
<1>4. x \in AnsKinds /\ x \in DownKinds
  BY Kinds
<1>5. /\ e.state = "I" \/ (e.state = "S" /\ f.state = "S")
      /\ \/ m.kind \in {"GETM", "GETX"} /\ f.state = "M" /\ x = "DATA"
         \/ m.kind = "GETS" /\ f.state = "S" /\ x = "DATA" /\ "S" \in DirStatesOf(p)
         \/ m.kind = "GETS" /\ f.state = "E" /\ x = "DATA_E" /\ p \in WithE
  BY <1>3
<1>6. Sends(m.block, f, {m.src}, x)
  BY DEF Sends
<1>7. Handles(p, ag, U, D, m.src, m.kind, f, {m.src}, x)
  BY <1>1, <1>2, <1>3, <1>4, <1>5, GrantFromMemory
<1> QED BY <1>4, <1>6, <1>7 DEF Outcome

\* Its only holder is granted M.
LEMMA GrantMet ==
  ASSUME NEW p, NEW ag, NEW U, NEW D, NEW e, NEW m, Meets(p, ag, U, D, e, m),
         \/ e.state = "S" /\ e.presence \ {m.src} = {} /\ m.kind \in {"GETM", "GETX"}
         \/ e.state = "E" /\ m.kind = "GETX",
         NEW f \in DirEntry, f.state = "M",
         f.presence = e.presence, f.active_sharers = e.active_sharers,
         f.inv_ack_waiting = e.inv_ack_waiting,
         Send(m.block, f, {m.src}, "ACK")
  PROVE  Outcome(p, ag, U, D, m)
<1>1. /\ BlockIs(p, ag, U, D, e) /\ m.src \in Procs /\ m.kind \in U[m.src] /\ e \in DirEntry
      /\ EntryOK(p, e)
  BY MeetsTypes
<1>2. m.kind \in ReqKinds /\ "ACK" \in DownKinds
  BY Kinds
<1>3. e.state = "S" => e.presence # {}
  BY <1>1 DEF EntryOK
<1>4. \/ e.state = "S" /\ e.presence = {m.src} /\ m.kind \in {"GETM", "GETX"}
      \/ e.state = "E" /\ m.kind = "GETX"
  BY <1>3
<1>5. Handles(p, ag, U, D, m.src, m.kind, f, {m.src}, "ACK")
  BY <1>1, <1>2, <1>4, GrantToHolder
<1> QED BY <1>2, <1>5 DEF Outcome, Sends

\* The other sharers are invalidated.
LEMMA InvalidateMet ==
  ASSUME NEW p, NEW ag, NEW U, NEW D, NEW e, NEW m, Meets(p, ag, U, D, e, m),
         e.state = "S", m.kind \in {"GETM", "GETX"},
         NEW f \in DirEntry, f.state = "SM", f.req_node = m.src,
         f.presence = e.presence, f.active_sharers = e.active_sharers,
         f.inv_ack_waiting = Cardinality(e.presence \ {m.src}),
         p = "MSI" => (f.getM_upgrade <=> m.src \in e.presence),
         Send(m.block, f, e.presence \ {m.src}, "REQ_INVALID")
  PROVE  Outcome(p, ag, U, D, m)
<1>1. /\ BlockIs(p, ag, U, D, e) /\ m.src \in Procs /\ m.kind \in U[m.src]
  BY MeetsTypes
<1>2. "REQ_INVALID" \in DownKinds
  BY Kinds
<1>3. Handles(p, ag, U, D, m.src, m.kind, f, e.presence \ {m.src}, "REQ_INVALID")
  BY <1>1, InvalidateSharers
<1> QED BY <1>2, <1>3 DEF Outcome, Sends

\* The holder is asked for the block.
LEMMA RecallMet ==
  ASSUME NEW p, NEW ag, NEW U, NEW D, NEW e, NEW m, Meets(p, ag, U, D, e, m),
         NEW s, NEW x,
         \/ e.state = "M" /\ m.kind \in {"GETM", "GETX"} /\ s = "MM" /\ x = "RECALL_GOTO_I"
         \/ e.state = "E" /\ m.kind = "GETM" /\ s = "EM" /\ x = "RECALL_GOTO_I"
         \/ e.state = "M" /\ m.kind = "GETS" /\ s \in {"MS", "MO"} /\ x = "RECALL_GOTO_S"
         \/ e.state = "E" /\ m.kind = "GETS" /\ s \in {"ES", "EF"} /\ x = "RECALL_GOTO_S",
         s \in DirStatesOf(p),
         \/ s \notin {"MO", "EF"} /\ Recall(m, e, s, x)
         \/ s \notin {"MO", "EF"} /\ Send(m.block, Await(e, s, m.src), {FirstPresent(e)}, x)
         \/ x = "RECALL_GOTO_S" /\ RecallCopy(m, e, s)
  PROVE  Outcome(p, ag, U, D, m)
<1>1. /\ BlockIs(p, ag, U, D, e) /\ m.src \in Procs /\ m.kind \in U[m.src] /\ e \in DirEntry
      /\ EntryOK(p, e) /\ p \in Protocol
  BY MeetsTypes
<1>2. PICK h \in Procs : e.presence = {h}
  BY <1>1 DEF EntryOK, Sole
<1>3. FirstPresent(e) = h /\ LastPresent(e) = h
  BY <1>2, OnlyHolder
<1> DEFINE g == Await(e, s, m.src)
<1>4. s \in DirStates /\ g \in DirEntry
  <2>1. s \in DirStates
    BY DEF DirStates
  <2> QED BY <1>1, <2>1, EntryEdits
<1>5. /\ g.state = s /\ g.req_node = m.src /\ g.presence = e.presence
      /\ g.active_sharers = e.active_sharers /\ g.inv_ack_waiting = e.inv_ack_waiting
  BY <1>1 DEF Await, DirEntry
<1> DEFINE g1 == [g EXCEPT !.o_f_id = h]
<1>6. /\ g1 \in DirEntry /\ g1.state = s /\ g1.req_node = m.src /\ g1.presence = e.presence
      /\ g1.active_sharers = e.active_sharers /\ g1.inv_ack_waiting = e.inv_ack_waiting
      /\ g1.o_f_id = h
  <2> HIDE DEF g
  <2>1. g1 \in DirEntry
    BY <1>4, FieldEdits
  <2> QED BY <1>4, <1>5, <2>1 DEF DirEntry
<1>7. PICK f \in {g, g1} : /\ Send(m.block, f, {h}, x)
                           /\ s \in {"MO", "EF"} => f = g1
  BY <1>2, <1>3 DEF Recall, RecallCopy
<1> HIDE DEF g, g1
<1>8. /\ f \in DirEntry /\ f.state = s /\ f.req_node = m.src /\ f.presence = e.presence
      /\ f.active_sharers = e.active_sharers /\ f.inv_ack_waiting = e.inv_ack_waiting
      /\ f.state \in {"MO", "EF"} => f.o_f_id \in e.presence
  BY <1>2, <1>4, <1>5, <1>6, <1>7
<1>9. m.kind \in ReqKinds /\ x \in DownKinds /\ x \in {"RECALL_GOTO_I", "RECALL_GOTO_S"}
  BY Kinds
<1>10. \/ e.state = "M" /\ m.kind # "GETS" /\ f.state = "MM" /\ x = "RECALL_GOTO_I"
       \/ e.state = "E" /\ m.kind = "GETM" /\ f.state = "EM" /\ x = "RECALL_GOTO_I"
       \/ e.state = "M" /\ m.kind = "GETS" /\ f.state \in {"MS", "MO"} /\ x = "RECALL_GOTO_S"
       \/ e.state = "E" /\ m.kind = "GETS" /\ f.state \in {"ES", "EF"} /\ x = "RECALL_GOTO_S"
  BY <1>8
<1>11. f.state \in DirStatesOf(p)
  BY <1>8
<1>12. Handles(p, ag, U, D, m.src, m.kind, f, e.presence, x)
  BY <1>1, <1>8, <1>9, <1>10, <1>11, RecallFromHolder
<1> QED BY <1>2, <1>7, <1>9, <1>12 DEF Outcome, Sends

\* The owner or forwarder is asked for a copy; it does not ask itself.
LEMMA CopyMet ==
  ASSUME NEW p, NEW ag, NEW U, NEW D, NEW e, NEW m, Meets(p, ag, U, D, e, m),
         e.state \in {"O", "F"}, m.kind = "GETS",
         NEW s, s = IF e.state = "O" THEN "OO" ELSE "FF", CopyFromOwner(m, e, s)
  PROVE  Outcome(p, ag, U, D, m)
<1> DEFINE f == Await(e, s, m.src)
<1>1. /\ BlockIs(p, ag, U, D, e) /\ m.src \in Procs /\ m.kind \in U[m.src] /\ e \in DirEntry
  BY MeetsTypes
<1>2. m.kind \in ReqKinds /\ "GETS" \in U[m.src] /\ "RECALL_GOTO_S" \in DownKinds
  BY <1>1, Kinds
<1>3. m.src \notin e.presence /\ e.o_f_id \in e.presence
  BY <1>1, <1>2, OwnedBlock, OwnedBlockAsker
<1>4. Send(m.block, f, {e.o_f_id}, "RECALL_GOTO_S")
  BY <1>3 DEF CopyFromOwner
<1>5. /\ f \in DirEntry /\ f.state = s /\ f.req_node = m.src /\ f.presence = e.presence
      /\ f.active_sharers = e.active_sharers /\ f.inv_ack_waiting = e.inv_ack_waiting
      /\ f.o_f_id = e.o_f_id
  <2>1. s \in DirStates
    BY DEF DirStates
  <2>2. f \in DirEntry
    BY <1>1, <2>1, EntryEdits
  <2> QED BY <1>1, <2>2 DEF Await, DirEntry
<1> HIDE DEF f
<1>6. f.state = IF e.state = "O" THEN "OO" ELSE "FF"
  BY <1>5
<1>7. Handles(p, ag, U, D, m.src, "GETS", f, {e.o_f_id}, "RECALL_GOTO_S")
  BY <1>1, <1>2, <1>5, <1>6, CopyFromHolder
<1> QED BY <1>2, <1>4, <1>7 DEF Outcome, Sends

\* The plain sharers are invalidated before the owner or forwarder goes; a GETX
\* always meets one.
LEMMA AroundMet ==
  ASSUME NEW p, NEW ag, NEW U, NEW D, NEW e, NEW m, Meets(p, ag, U, D, e, m),
         e.state \in {"O", "F"}, m.kind \in {"GETM", "GETX"},
         NEW s, s = IF e.state = "O" THEN "OM" ELSE "FM",
         \/ m.kind = "GETM" /\ InvalidateAround(m, e, s)
         \/ /\ m.kind = "GETX" /\ e.state = "F"
            /\ Invalidate(m, e, s, e.presence \ {m.src})
         \/ /\ m.kind = "GETX" /\ e.state = "O"
            /\ Invalidate(m, e, s, e.presence \ {m.src, e.o_f_id})
  PROVE  Outcome(p, ag, U, D, m)
<1> DEFINE victims == e.presence \ {m.src, e.o_f_id}
           f == [Await(e, s, m.src) EXCEPT !.inv_ack_waiting = Cardinality(victims)]
<1>1. /\ BlockIs(p, ag, U, D, e) /\ m.src \in Procs /\ m.kind \in U[m.src] /\ e \in DirEntry
      /\ e.presence \in SUBSET Procs
  BY MeetsTypes
<1>2. m.kind \in ReqKinds /\ "REQ_INVALID" \in DownKinds /\ "RECALL_GOTO_I" \in DownKinds
  BY Kinds
<1>3. /\ m.kind = "GETX" /\ e.state = "F" => m.src = e.o_f_id
      /\ m.kind = "GETX" => victims # {}
  BY <1>1, <1>2, OwnedBlockAsker
<1>4. /\ victims = {} => Cardinality(victims) = 0
      /\ Cardinality(victims) \in Int
  BY <1>1, Counting
<1>5. \/ victims # {} /\ Send(m.block, f, victims, "REQ_INVALID")
      \/ victims = {} /\ Send(m.block, f, {e.o_f_id}, "RECALL_GOTO_I")
  <2>1. CASE m.kind = "GETM" /\ InvalidateAround(m, e, s)
    BY <1>4, <2>1 DEF InvalidateAround, Invalidate
  <2>2. CASE m.kind = "GETX" /\ e.state = "F" /\ Invalidate(m, e, s, e.presence \ {m.src})
    <3>1. e.presence \ {m.src} = victims
      BY <1>3, <2>2
    <3> QED BY <1>3, <2>2, <3>1 DEF Invalidate
  <2>3. CASE m.kind = "GETX" /\ e.state = "O" /\ Invalidate(m, e, s, victims)
    BY <1>3, <2>3 DEF Invalidate
  <2> QED BY <2>1, <2>2, <2>3
<1>6. /\ f \in DirEntry /\ f.state = s /\ f.req_node = m.src /\ f.presence = e.presence
      /\ f.active_sharers = e.active_sharers /\ f.inv_ack_waiting = Cardinality(victims)
      /\ f.o_f_id = e.o_f_id
  <2> DEFINE g == Await(e, s, m.src)
  <2>1. g \in DirEntry
    <3>1. s \in DirStates
      BY DEF DirStates
    <3> QED BY <1>1, <3>1, EntryEdits
  <2>2. f \in DirEntry
    <3> HIDE DEF g
    <3> QED BY <1>4, <2>1, FieldEdits DEF g
  <2>3. /\ g.state = s /\ g.req_node = m.src /\ g.presence = e.presence
        /\ g.active_sharers = e.active_sharers /\ g.o_f_id = e.o_f_id
    BY <1>1 DEF Await, DirEntry
  <2> HIDE DEF g
  <2>4. f = [g EXCEPT !.inv_ack_waiting = Cardinality(victims)]
    BY DEF g
  <2> HIDE DEF f
  <2> QED BY <2>1, <2>2, <2>3, <2>4 DEF DirEntry
<1> HIDE DEF f
<1>7. f.state = IF e.state = "O" THEN "OM" ELSE "FM"
  BY <1>6
<1>8. CASE victims # {}
  <2> HIDE DEF victims
  <2>1. victims = e.presence \ {m.src, e.o_f_id}
    BY DEF victims
  <2>2. Handles(p, ag, U, D, m.src, m.kind, f, victims, "REQ_INVALID")
    BY <1>1, <1>2, <1>6, <1>7, <1>8, <2>1, InvalidateAroundOwner
  <2> QED BY <1>2, <1>5, <1>8, <2>2 DEF Outcome, Sends
<1>9. CASE victims = {}
  <2>1. /\ f \in DirEntry /\ f.req_node = m.src /\ f.presence = e.presence
        /\ f.active_sharers = e.active_sharers /\ f.o_f_id = e.o_f_id
        /\ f.inv_ack_waiting = 0
    BY <1>4, <1>6, <1>9
  <2>2. NoSharers(e, m.src)
    BY <1>9 DEF NoSharers
  <2> HIDE DEF victims
  <2> DEFINE o == e.o_f_id
  <2>3. o = e.o_f_id
    OBVIOUS
  <2> HIDE DEF o
  <2>4. Handles(p, ag, U, D, m.src, m.kind, f, {o}, "RECALL_GOTO_I")
    BY <1>1, <1>7, <2>1, <2>2, <2>3, RecallFromOwner
  <2> QED BY <1>2, <1>5, <1>9, <2>3, <2>4 DEF Outcome, Sends
<1> QED BY <1>8, <1>9

\* The old holder has gone: the block goes on to the requester.
LEMMA PassMet ==
  ASSUME NEW p, NEW ag, NEW U, NEW D, NEW e, NEW m, Meets(p, ag, U, D, e, m),
         e.state \in {"MM", "EM"}, m.kind = "DATA",
         PassOwnership(m, e) \/ MSIPassOn(m, e)
  PROVE  Outcome(p, ag, U, D, m)
<1> DEFINE q == e.req_node
           g == DropSharer(e, m.src)
           h == Goto(g, "M")
           f == AddSharer(h, q)
<1>1. /\ BlockIs(p, ag, U, D, e) /\ m.src \in Procs /\ m.kind \in U[m.src] /\ e \in DirEntry
      /\ e.active_sharers = Cardinality(e.presence) /\ q \in Procs
      /\ e.inv_ack_waiting \in Int
  BY MeetsTypes
<1>2. "DATA" \in U[m.src] /\ "DATA" \in DownKinds
  BY <1>1, Kinds
<1>3. e.presence = {m.src}
  BY <1>1, <1>2, Giver
<1>4. FirstPresent(e) = m.src /\ e.active_sharers = 1
  <2>1. Cardinality({m.src}) = 1
    BY FS_Singleton
  <2> QED BY <1>1, <1>3, <2>1, OnlyHolder
<1>5. Send(m.block, f, {q}, "DATA")
  BY <1>3, <1>4 DEF PassOwnership, MSIPassOn
<1>6. /\ g \in DirEntry /\ g.presence = {} /\ g.active_sharers = 0
      /\ g.inv_ack_waiting = e.inv_ack_waiting
  <2>1. g \in DirEntry
    BY <1>1, DropType
  <2> QED BY <1>1, <1>3, <1>4, <2>1 DEF DropSharer, DirEntry
<1> HIDE DEF g
<1>7. /\ h \in DirEntry /\ h.state = "M" /\ h.presence = {} /\ h.active_sharers = 0
      /\ h.inv_ack_waiting = e.inv_ack_waiting
  <2>1. h \in DirEntry
    BY <1>6, EntryEdits, StateTypes
  <2> QED BY <1>6, <2>1 DEF Goto, DirEntry
<1> HIDE DEF h
<1>8. /\ f \in DirEntry /\ f.state = "M" /\ f.presence = {q} /\ f.active_sharers = 1
      /\ f.inv_ack_waiting = e.inv_ack_waiting
  <2>1. f \in DirEntry
    BY <1>1, <1>7, EntryEdits
  <2> QED BY <1>7, <2>1 DEF AddSharer, DirEntry
<1> HIDE DEF f
<1>9. Handles(p, ag, U, D, m.src, "DATA", f, {e.req_node}, "DATA")
  BY <1>1, <1>2, <1>8, PassOn
<1> QED BY <1>2, <1>5, <1>9 DEF Outcome, Sends

\* The old holder keeps a copy: the requester joins it.
LEMMA JoinMet ==
  ASSUME NEW p, NEW ag, NEW U, NEW D, NEW e, NEW m, Meets(p, ag, U, D, e, m),
         e.state \in Reading, m.kind = "DATA",
         NEW s, s = IF e.state \in {"MS", "ES"} THEN "S"
                    ELSE IF e.state \in {"MO", "OO"} THEN "O" ELSE "F",
         JoinSharers(m, e, s)
  PROVE  Outcome(p, ag, U, D, m)
<1> DEFINE g == Goto(e, s)
           f == AddSharer(g, e.req_node)
<1>1. /\ BlockIs(p, ag, U, D, e) /\ m.src \in Procs /\ m.kind \in U[m.src] /\ e \in DirEntry
      /\ e.req_node \in Procs
  BY MeetsTypes
<1>2. "DATA" \in U[m.src] /\ "DATA" \in DownKinds
  BY <1>1, Kinds
<1>3. /\ g \in DirEntry /\ g.state = s /\ g.presence = e.presence
      /\ g.active_sharers = e.active_sharers /\ g.inv_ack_waiting = e.inv_ack_waiting
      /\ g.o_f_id = e.o_f_id
  <2>1. s \in DirStates
    BY DEF DirStates
  <2>2. g \in DirEntry
    BY <1>1, <2>1, EntryEdits
  <2> QED BY <1>1, <2>2 DEF Goto, DirEntry
<1>4. Send(m.block, f, {e.req_node}, "DATA")
  BY DEF JoinSharers
<1> HIDE DEF g
<1>5. /\ f \in DirEntry /\ f.state = s /\ f.presence = e.presence \cup {e.req_node}
      /\ f.active_sharers = e.active_sharers + 1 /\ f.inv_ack_waiting = e.inv_ack_waiting
      /\ f.o_f_id = e.o_f_id
  <2>1. f \in DirEntry
    BY <1>1, <1>3, EntryEdits
  <2> QED BY <1>3, <2>1 DEF AddSharer, DirEntry
<1> HIDE DEF f
<1>6. f.state = IF e.state \in {"MS", "ES"} THEN "S"
                ELSE IF e.state \in {"MO", "OO"} THEN "O" ELSE "F"
  BY <1>5
<1>7. Handles(p, ag, U, D, m.src, "DATA", f, {e.req_node}, "DATA")
  BY <1>1, <1>2, <1>5, <1>6, JoinOn
<1> QED BY <1>2, <1>4, <1>7 DEF Outcome, Sends

\* What an acknowledgement of n leaves of the entry.
AckLeaves(e, n, f) ==
  /\ f \in DirEntry /\ f.state = e.state /\ f.req_node = e.req_node
  /\ f.o_f_id = e.o_f_id /\ f.getM_upgrade = e.getM_upgrade
  /\ f.presence = e.presence \ {n} /\ f.active_sharers = e.active_sharers - 1
  /\ f.inv_ack_waiting = e.inv_ack_waiting - 1
  /\ f.active_sharers = Cardinality(f.presence)
  /\ e.req_node # n /\ n \in e.presence

\* It leaves a sharer less, and one acknowledgement less to wait for.
LEMMA AckEffect ==
  ASSUME NEW p, NEW ag, NEW U, NEW D, NEW e, NEW m, Meets(p, ag, U, D, e, m),
         m.kind = "INVACK"
  PROVE  AckLeaves(e, m.src, AckReceived(m, e))
<1> DEFINE f == AckReceived(m, e)
<1> DEFINE g == DropSharer(e, m.src)
<1>1. /\ BlockIs(p, ag, U, D, e) /\ m.src \in Procs /\ m.kind \in U[m.src] /\ e \in DirEntry
      /\ e.presence \in SUBSET Procs /\ e.active_sharers = Cardinality(e.presence)
      /\ m \in ToDirMsg /\ e.inv_ack_waiting \in Int
  BY MeetsTypes
<1>2. m.src \in e.presence /\ m.src # e.req_node
  <2>1. "INVACK" \in U[m.src]
    BY <1>1
  <2> QED BY <1>1, <2>1, Acknowledger
<1>3. /\ g \in DirEntry /\ g.state = e.state /\ g.req_node = e.req_node
      /\ g.o_f_id = e.o_f_id /\ g.getM_upgrade = e.getM_upgrade
      /\ g.presence = e.presence \ {m.src} /\ g.active_sharers = e.active_sharers - 1
      /\ g.inv_ack_waiting = e.inv_ack_waiting
  <2>1. g \in DirEntry
    BY <1>1, DropType
  <2> QED BY <1>1, <2>1 DEF DropSharer, DirEntry
<1>4. f \in DirEntry /\ f = [g EXCEPT !.inv_ack_waiting = @ - 1]
  BY <1>1, AckType DEF AckReceived
<1> HIDE DEF g
<1>5. /\ f.state = e.state /\ f.req_node = e.req_node
      /\ f.o_f_id = e.o_f_id /\ f.getM_upgrade = e.getM_upgrade
      /\ f.presence = e.presence \ {m.src} /\ f.active_sharers = e.active_sharers - 1
      /\ f.inv_ack_waiting = e.inv_ack_waiting - 1
  BY <1>3, <1>4 DEF DirEntry
<1>6. e.active_sharers - 1 = Cardinality(e.presence \ {m.src})
  BY <1>1, <1>2, Counting
<1> HIDE DEF f
<1>7. AckLeaves(e, m.src, f)
  BY <1>2, <1>4, <1>5, <1>6 DEF AckLeaves
<1> QED BY <1>7 DEF f

\* The acknowledgement is noted.
LEMMA NoteMet ==
  ASSUME NEW p, NEW ag, NEW U, NEW D, NEW e, NEW m, Meets(p, ag, U, D, e, m),
         m.kind = "INVACK", e.inv_ack_waiting > 1, NEW f, f = AckReceived(m, e),
         Note(m.block, f)
  PROVE  Outcome(p, ag, U, D, m)
<1>1. /\ BlockIs(p, ag, U, D, e) /\ m.src \in Procs /\ "INVACK" \in U[m.src]
  BY MeetsTypes
<1>2. AckLeaves(e, m.src, f)
  BY AckEffect
<1>3. /\ f \in DirEntry /\ f.state = e.state /\ f.req_node = e.req_node
      /\ f.o_f_id = e.o_f_id /\ f.getM_upgrade = e.getM_upgrade
      /\ f.presence = e.presence \ {m.src} /\ f.active_sharers = e.active_sharers - 1
      /\ f.inv_ack_waiting = e.inv_ack_waiting - 1
  BY <1>2 DEF AckLeaves
<1>4. Handles(p, ag, U, D, m.src, "INVACK", f, {}, "REQ_INVALID")
  BY <1>1, <1>3, AckNoted
<1>5. "REQ_INVALID" \in DownKinds
  BY Kinds
<1> QED BY <1>4, <1>5 DEF Outcome, Sends

\* The last acknowledgement lets the requester have the block, with a line if it
\* has lost its own.
LEMMA LastAckMet ==
  ASSUME NEW p, NEW ag, NEW U, NEW D, NEW e, NEW m, Meets(p, ag, U, D, e, m),
         m.kind = "INVACK", e.inv_ack_waiting = 1,
         e.state \in {"OM", "FM"} => e.req_node = e.o_f_id,
         NEW g, g = AckReceived(m, e), NEW q, q = e.req_node,
         \/ q \in e.presence /\ Send(m.block, Goto(g, "M"), {q}, "ACK")
         \/ q \notin e.presence /\ Fetched(m.block, AddSharer(Goto(g, "M"), q), q, "DATA")
  PROVE  Outcome(p, ag, U, D, m)
<1> DEFINE h == Goto(g, "M")
<1>1. /\ BlockIs(p, ag, U, D, e) /\ m.src \in Procs /\ "INVACK" \in U[m.src]
      /\ e.presence \in SUBSET Procs /\ q \in Procs
  BY MeetsTypes
<1>2. /\ g \in DirEntry /\ g.presence = e.presence \ {m.src}
      /\ g.active_sharers = Cardinality(g.presence) /\ g.inv_ack_waiting = 0
      /\ q # m.src
  <2>1. AckLeaves(e, m.src, g)
    BY AckEffect
  <2> QED BY <2>1 DEF AckLeaves
<1>3. g.presence \subseteq {q}
  <2>1. \A n \in e.presence : n = m.src \/ n = e.req_node
                              \/ (n = e.o_f_id /\ e.state \in {"OM", "FM"})
    BY <1>1, LastAck
  <2> QED BY <1>2, <2>1
<1>4. /\ h \in DirEntry /\ h.state = "M" /\ h.presence = g.presence
      /\ h.active_sharers = g.active_sharers /\ h.inv_ack_waiting = 0
  <2>1. h \in DirEntry
    BY <1>2, EntryEdits, StateTypes
  <2> QED BY <1>2, <2>1 DEF Goto, DirEntry
<1> HIDE DEF h
<1>5. CASE q \in e.presence
  <2>1. h.presence = {q} /\ h.active_sharers = 1
    <3>1. g.presence = {q}
      BY <1>2, <1>3, <1>5
    <3>2. Cardinality({q}) = 1
      BY FS_Singleton
    <3> QED BY <1>2, <1>4, <3>1, <3>2
  <2>2. PICK x : x = "ACK"
    OBVIOUS
  <2>3. x = IF e.req_node \in e.presence THEN "ACK" ELSE "DATA"
    BY <1>5, <2>2
  <2>4. Handles(p, ag, U, D, m.src, "INVACK", h, {e.req_node}, x)
    BY <1>1, <1>4, <2>1, <2>3, LastAckGrant
  <2>5. x \in DownKinds /\ Send(m.block, h, {q}, x)
    BY <1>5, <2>2, Kinds DEF h
  <2> QED BY <2>4, <2>5 DEF Outcome, Sends
<1>6. CASE q \notin e.presence
  <2> DEFINE f == AddSharer(h, q)
  <2>1. h.presence = {} /\ h.active_sharers = 0
    <3>1. g.presence = {}
      BY <1>2, <1>3, <1>6
    <3> QED BY <1>2, <1>4, <3>1, FS_EmptySet
  <2>2. /\ f \in DirEntry /\ f.state = "M" /\ f.presence = {q}
        /\ f.active_sharers = 1 /\ f.inv_ack_waiting = 0
    <3>1. f \in DirEntry
      BY <1>1, <1>4, EntryEdits
    <3> QED BY <1>4, <2>1, <3>1 DEF AddSharer, DirEntry
  <2>3. Fetched(m.block, f, q, "DATA")
    BY <1>6 DEF h
  <2> HIDE DEF f
  <2>4. PICK x : x = "DATA"
    OBVIOUS
  <2>5. x = IF e.req_node \in e.presence THEN "ACK" ELSE "DATA"
    BY <1>6, <2>4
  <2>6. Handles(p, ag, U, D, m.src, "INVACK", f, {e.req_node}, x)
    BY <1>1, <2>2, <2>5, LastAckGrant
  <2>7. x \in DownKinds /\ Sends(m.block, f, {q}, x)
    BY <2>3, <2>4, Kinds DEF Sends
  <2> QED BY <2>6, <2>7 DEF Outcome
<1> QED BY <1>5, <1>6

\* The acknowledgements of a shared block.
LEMMA SharersAckMet ==
  ASSUME NEW p, NEW ag, NEW U, NEW D, NEW e, NEW m, Meets(p, ag, U, D, e, m),
         e.state = "SM", m.kind = "INVACK",
         InvAckThenGrant(m, e) \/ (p = "MSI" /\ MSIInvAck(m, e))
  PROVE  Outcome(p, ag, U, D, m)
<1> DEFINE g == AckReceived(m, e)
           q == e.req_node
<1>1. e.inv_ack_waiting >= 1 /\ e.inv_ack_waiting \in Int /\ EntryOK(p, e)
  BY MessageExpected, MeetsTypes
<1>2. /\ q \in g.presence <=> q \in e.presence
      /\ g.inv_ack_waiting = e.inv_ack_waiting - 1
  <2>1. AckLeaves(e, m.src, g)
    BY AckEffect
  <2> HIDE DEF g
  <2> QED BY <2>1 DEF AckLeaves
<1>3. p = "MSI" => (e.getM_upgrade <=> q \in e.presence)
  BY <1>1 DEF EntryOK
<1>4. g = [DropSharer(e, m.src) EXCEPT !.inv_ack_waiting = @ - 1]
  BY DEF AckReceived
<1>5. \/ e.inv_ack_waiting > 1 /\ Note(m.block, g)
      \/ /\ e.inv_ack_waiting = 1
         /\ \/ q \in e.presence /\ Send(m.block, Goto(g, "M"), {q}, "ACK")
            \/ q \notin e.presence /\ Fetched(m.block, AddSharer(Goto(g, "M"), q), q, "DATA")
  <2>1. CASE InvAckThenGrant(m, e)
    <3> HIDE DEF g
    <3>1. g = AckReceived(m, e)
      BY DEF g
    <3>2. CASE e.inv_ack_waiting > 1
      BY <1>1, <2>1, <3>1, <3>2 DEF InvAckThenGrant, Fetched, Fetch
    <3>3. CASE e.inv_ack_waiting = 1 /\ q \in e.presence
      BY <1>1, <1>2, <2>1, <3>1, <3>3 DEF InvAckThenGrant, Fetched, Fetch
    <3>4. CASE e.inv_ack_waiting = 1 /\ q \notin e.presence
      BY <1>1, <1>2, <2>1, <3>1, <3>4 DEF InvAckThenGrant, Fetched, Fetch
    <3> QED BY <1>1, <3>2, <3>3, <3>4
  <2>2. CASE p = "MSI" /\ MSIInvAck(m, e)
    <3> HIDE DEF g
    <3>1. CASE e.inv_ack_waiting > 1
      BY <1>1, <1>2, <1>4, <2>2, <3>1 DEF MSIInvAck, Fetched, Fetch
    <3>2. CASE e.inv_ack_waiting = 1 /\ q \in e.presence
      BY <1>1, <1>2, <1>3, <1>4, <2>2, <3>2 DEF MSIInvAck, Fetched, Fetch
    <3>3. CASE e.inv_ack_waiting = 1 /\ q \notin e.presence
      BY <1>1, <1>2, <1>3, <1>4, <2>2, <3>3 DEF MSIInvAck, Fetched, Fetch
    <3> QED BY <1>1, <3>1, <3>2, <3>3
  <2> QED BY <2>1, <2>2
<1> HIDE DEF g
<1>6. g = AckReceived(m, e)
  BY DEF g
<1> QED BY <1>5, <1>6, NoteMet, LastAckMet

\* Those of an owned or forwarded block: after the last one the owner goes,
\* unless it is the requester.
LEMMA AroundAckMet ==
  ASSUME NEW p, NEW ag, NEW U, NEW D, NEW e, NEW m, Meets(p, ag, U, D, e, m),
         e.state \in {"OM", "FM"}, m.kind = "INVACK", InvAckThenRecall(m, e)
  PROVE  Outcome(p, ag, U, D, m)
<1> DEFINE g == AckReceived(m, e)
           q == e.req_node
           o == e.o_f_id
<1>1. /\ BlockIs(p, ag, U, D, e) /\ m.src \in Procs /\ "INVACK" \in U[m.src]
      /\ e.inv_ack_waiting >= 1 /\ e.inv_ack_waiting \in Int /\ EntryOK(p, e)
      /\ e.presence \in SUBSET Procs
  BY MessageExpected, MeetsTypes
<1>2. AckLeaves(e, m.src, g)
  BY AckEffect
<1> HIDE DEF g
<1>3. g = AckReceived(m, e)
  BY DEF g
<1>4. /\ g \in DirEntry /\ g.state = e.state /\ g.req_node = q /\ g.o_f_id = o
      /\ g.getM_upgrade = e.getM_upgrade
      /\ g.presence = e.presence \ {m.src} /\ g.active_sharers = e.active_sharers - 1
      /\ g.inv_ack_waiting = e.inv_ack_waiting - 1
      /\ g.active_sharers = Cardinality(g.presence) /\ q # m.src
  BY <1>2 DEF AckLeaves
<1>5. CASE e.inv_ack_waiting > 1
  <2>1. Note(m.block, g)
    BY <1>1, <1>3, <1>5 DEF InvAckThenRecall
  <2> QED BY <1>3, <1>5, <2>1, NoteMet
<1>6. CASE e.inv_ack_waiting = 1 /\ q = o
  <2>1. g.presence = {q}
    <3>1. \A n \in e.presence : n = m.src \/ n = e.req_node
                                \/ (n = e.o_f_id /\ e.state \in {"OM", "FM"})
      BY <1>1, <1>6, LastAck
    <3>2. o \in e.presence
      BY <1>1 DEF EntryOK, Upgrading
    <3> QED BY <1>4, <1>6, <3>1, <3>2
  <2>2. g.active_sharers = 1
    <3>1. Cardinality({q}) = 1
      BY FS_Singleton
    <3> QED BY <1>4, <2>1, <3>1
  <2>3. q \in e.presence
    BY <1>4, <2>1
  <2>4. Send(m.block, Goto(g, "M"), {q}, "ACK")
    BY <1>1, <1>3, <1>6, <2>2 DEF InvAckThenRecall
  <2> HIDE DEF q
  <2>5. q = e.req_node
    BY DEF q
  <2> QED BY <1>3, <1>6, <2>3, <2>4, <2>5, LastAckMet
<1>7. CASE e.inv_ack_waiting = 1 /\ q # o
  <2>1. Send(m.block, g, {o}, "RECALL_GOTO_I")
    BY <1>1, <1>3, <1>7 DEF InvAckThenRecall
  <2>2. g.inv_ack_waiting = 0
    BY <1>4, <1>7
  <2>3. Handles(p, ag, U, D, m.src, "INVACK", g, {e.o_f_id}, "RECALL_GOTO_I")
    BY <1>1, <1>4, <1>7, <2>2, LastAckRecall
  <2>4. "RECALL_GOTO_I" \in DownKinds
    BY Kinds
  <2> QED BY <2>1, <2>3, <2>4 DEF Outcome, Sends
<1> QED BY <1>1, <1>5, <1>6, <1>7

\* The owner's line: it was the last one to go.
LEMMA OwnerGoneMet ==
  ASSUME NEW p, NEW ag, NEW U, NEW D, NEW e, NEW m, Meets(p, ag, U, D, e, m),
         e.state \in {"OM", "FM"}, m.kind = "DATA", OwnerGone(m, e)
  PROVE  Outcome(p, ag, U, D, m)
<1> DEFINE q == e.req_node
           o == e.o_f_id
           g == Goto(e, "M")
           h == DropSharer(g, o)
           e1 == [h EXCEPT !.o_f_id = NoNode]
<1>1. /\ BlockIs(p, ag, U, D, e) /\ m.src \in Procs /\ "DATA" \in U[m.src] /\ e \in DirEntry
      /\ EntryOK(p, e) /\ e.presence \in SUBSET Procs /\ q \in Procs
      /\ e.active_sharers = Cardinality(e.presence)
  BY MeetsTypes
<1>2. /\ m.src = o /\ e.inv_ack_waiting = 0 /\ o \in e.presence /\ q # o /\ o \in Procs
      /\ e.inv_ack_waiting = Cardinality(AckSet(U, D))
  <2>1. m.src = o /\ e.inv_ack_waiting = 0 /\ o \in e.presence
    BY <1>1, Giver
  <2>2. e.inv_ack_waiting = Cardinality(AckSet(U, D))
    BY <1>1, BlockParts
  <2> QED BY <1>1, <2>1, <2>2 DEF EntryOK, Upgrading
<1>3. e.presence \subseteq {o, q}
  <2>1. ASSUME NEW n \in e.presence, n # o, n # q
        PROVE  FALSE
    <3>1. n \in Procs
      BY <1>1
    <3>2. Collected(n, ag[n], U[n], D[n], e)
      BY <1>1, <2>1, <3>1, CollectedBlock
    <3>3. Invalidated(ag[n], U[n], D[n])
      BY <2>1, <3>2 DEF Collected
    <3>4. n \in AckSet(U, D)
      BY <3>1, <3>3, CountedOn
    <3>5. AckSet(U, D) \in SUBSET Procs
      BY DEF AckSet
    <3> QED BY <1>2, <3>4, <3>5, Counting
  <2> QED BY <2>1
<1>4. /\ g \in DirEntry /\ g.state = "M" /\ g.presence = e.presence
      /\ g.active_sharers = e.active_sharers /\ g.inv_ack_waiting = e.inv_ack_waiting
  <2>1. g \in DirEntry
    BY <1>1, EntryEdits, StateTypes
  <2> QED BY <1>1, <2>1 DEF Goto, DirEntry
<1> HIDE DEF g
<1>5. /\ h \in DirEntry /\ h.state = "M" /\ h.presence = e.presence \ {o}
      /\ h.active_sharers = e.active_sharers - 1 /\ h.inv_ack_waiting = e.inv_ack_waiting
  <2>1. h \in DirEntry
    BY <1>4, DropType
  <2> QED BY <1>4, <2>1 DEF DropSharer, DirEntry
<1>6. OwnerGone(m, e) <=> IF q \in e1.presence
                          THEN Send(m.block, e1, {q}, "ACK")
                          ELSE Send(m.block, AddSharer(e1, q), {q}, "DATA")
  BY DEF OwnerGone, h, g
<1> HIDE DEF h
<1>7. /\ e1 \in DirEntry /\ e1.state = "M" /\ e1.presence = e.presence \ {o}
      /\ e1.active_sharers = Cardinality(e1.presence)
      /\ e1.inv_ack_waiting = e.inv_ack_waiting
  <2>1. e1 \in DirEntry
    BY <1>5, FieldEdits
  <2>2. /\ e1.state = "M" /\ e1.presence = e.presence \ {o}
        /\ e1.active_sharers = e.active_sharers - 1
        /\ e1.inv_ack_waiting = e.inv_ack_waiting
    BY <1>5, <2>1 DEF DirEntry
  <2>3. Cardinality(e.presence \ {o}) = e.active_sharers - 1
    BY <1>1, <1>2, Counting
  <2> HIDE DEF e1
  <2> QED BY <2>1, <2>2, <2>3
<1> HIDE DEF e1
<1>8. CASE q \in e.presence
  <2>1. e1.presence = {q} /\ e1.active_sharers = 1
    <3>1. e1.presence = {q}
      BY <1>2, <1>3, <1>7, <1>8
    <3> QED BY <1>7, <3>1, FS_Singleton
  <2>2. PICK x : x = "ACK"
    OBVIOUS
  <2>3. x = IF e.req_node \in e.presence THEN "ACK" ELSE "DATA"
    BY <1>8, <2>2
  <2>4. Handles(p, ag, U, D, m.src, "DATA", e1, {e.req_node}, x)
    BY <1>1, <1>7, <2>1, <2>3, OwnerLeft
  <2>5. x \in DownKinds /\ Send(m.block, e1, {q}, x)
    BY <1>6, <2>1, <2>2, Kinds
  <2> QED BY <2>4, <2>5 DEF Outcome, Sends
<1>9. CASE q \notin e.presence
  <2> DEFINE f == AddSharer(e1, q)
  <2>1. e1.presence = {} /\ e1.active_sharers = 0
    <3>1. e1.presence = {}
      BY <1>2, <1>3, <1>7, <1>9
    <3> QED BY <1>7, <3>1, FS_EmptySet
  <2>2. /\ f \in DirEntry /\ f.state = "M" /\ f.presence = {q}
        /\ f.active_sharers = 1 /\ f.inv_ack_waiting = e.inv_ack_waiting
    <3>1. f \in DirEntry
      BY <1>1, <1>7, EntryEdits
    <3> QED BY <1>7, <2>1, <3>1 DEF AddSharer, DirEntry
  <2>3. PICK x : x = "DATA"
    OBVIOUS
  <2>4. x \in DownKinds /\ Send(m.block, f, {q}, x)
    BY <1>6, <2>1, <2>3, Kinds
  <2> HIDE DEF f
  <2>5. x = IF e.req_node \in e.presence THEN "ACK" ELSE "DATA"
    BY <1>9, <2>3
  <2>6. Handles(p, ag, U, D, m.src, "DATA", f, {e.req_node}, x)
    BY <1>1, <2>2, <2>5, OwnerLeft
  <2> QED BY <2>4, <2>6 DEF Outcome, Sends
<1> QED BY <1>8, <1>9

\* A store to a shared block: M at once, or after the acknowledgements.
LEMMA UpgradeMet ==
  ASSUME NEW p, NEW ag, NEW U, NEW D, NEW e, NEW m, Meets(p, ag, U, D, e, m),
         e.state = "S", m.kind \in {"GETM", "GETX"},
         \/ p = "MSI" /\ MSIUpgrade(m, e)
         \/ p = "MOSI" /\ MOSIUpgrade(m, e)
         \/ p = "MESI" /\ Invalidate(m, e, "SM", e.presence \ {m.src})
  PROVE  Outcome(p, ag, U, D, m)
<1> DEFINE others == e.presence \ {m.src}
           g == Await(e, "SM", m.src)
           c == Cardinality(others)
           u == m.src \in e.presence
           f1 == [g EXCEPT !.inv_ack_waiting = c]
           f2 == [f1 EXCEPT !.getM_upgrade = u]
           h == Goto(e, "M")
<1>1. /\ BlockIs(p, ag, U, D, e) /\ m.src \in Procs /\ e \in DirEntry
      /\ e.presence \in SUBSET Procs /\ e.state \in DirStable
  BY MeetsTypes DEF DirStable
<1>2. e.inv_ack_waiting = 0 /\ c \in Int
  BY <1>1, AtRest, CountType
<1>3. /\ g \in DirEntry /\ g.state = "SM" /\ g.req_node = m.src /\ g.presence = e.presence
      /\ g.active_sharers = e.active_sharers
  <2>1. g \in DirEntry
    BY <1>1, EntryEdits DEF DirStates
  <2> QED BY <1>1, <2>1 DEF Await, DirEntry
<1>4. /\ h \in DirEntry /\ h.state = "M" /\ h.presence = e.presence
      /\ h.active_sharers = e.active_sharers /\ h.inv_ack_waiting = 0
  <2>1. h \in DirEntry
    BY <1>1, EntryEdits, StateTypes
  <2> QED BY <1>1, <1>2, <2>1 DEF Goto, DirEntry
<1>5. [h EXCEPT !.inv_ack_waiting = 0] = h
  <2> HIDE DEF h
  <2> QED BY <1>4 DEF DirEntry
<1>6. PICK f :
        /\ f = f1 \/ f = f2
        /\ p = "MSI" => f = f2
        /\ \/ others = {} /\ Send(m.block, h, {m.src}, "ACK")
           \/ Send(m.block, f, others, "REQ_INVALID")
  <2> HIDE DEF h, g, c
  <2>1. CASE p = "MSI" /\ MSIUpgrade(m, e)
    BY <2>1 DEF MSIUpgrade, h, g, c
  <2>2. CASE p = "MOSI" /\ MOSIUpgrade(m, e)
    <3>1. \/ others = {} /\ Send(m.block, h, {m.src}, "ACK")
          \/ Send(m.block, f1, others, "REQ_INVALID")
      BY <1>5, <2>2 DEF MOSIUpgrade, Invalidate, h, g, c
    <3> QED BY <2>2, <3>1
  <2>3. CASE p = "MESI" /\ Invalidate(m, e, "SM", e.presence \ {m.src})
    <3>1. Send(m.block, f1, others, "REQ_INVALID")
      BY <2>3 DEF Invalidate, g, c
    <3> QED BY <2>3, <3>1
  <2> QED BY <2>1, <2>2, <2>3
<1> HIDE DEF g, h, c, u
<1>7. /\ f1 \in DirEntry /\ f1.state = "SM" /\ f1.req_node = m.src
      /\ f1.presence = e.presence /\ f1.active_sharers = e.active_sharers
      /\ f1.inv_ack_waiting = c
  <2>1. f1 \in DirEntry
    BY <1>2, <1>3, FieldEdits
  <2> QED BY <1>3, <2>1 DEF DirEntry
<1>8. u \in BOOLEAN
  BY DEF u
<1> HIDE DEF f1
<1>9. /\ f2 \in DirEntry /\ f2.state = f1.state /\ f2.req_node = f1.req_node
      /\ f2.presence = f1.presence /\ f2.active_sharers = f1.active_sharers
      /\ f2.inv_ack_waiting = f1.inv_ack_waiting /\ f2.getM_upgrade = u
  <2>1. f2 \in DirEntry
    BY <1>7, <1>8, FieldEdits
  <2> QED BY <1>7, <1>8, <2>1 DEF DirEntry
<1> HIDE DEF f2
<1>10. /\ f \in DirEntry /\ f.state = "SM" /\ f.req_node = m.src /\ f.presence = e.presence
       /\ f.active_sharers = e.active_sharers /\ f.inv_ack_waiting = c
       /\ p = "MSI" => f.getM_upgrade = u
  BY <1>6, <1>7, <1>9
<1>11. CASE others = {} /\ Send(m.block, h, {m.src}, "ACK")
  BY <1>2, <1>4, <1>11, GrantMet
<1>12. CASE Send(m.block, f, others, "REQ_INVALID")
  <2>1. /\ f.inv_ack_waiting = Cardinality(e.presence \ {m.src})
        /\ p = "MSI" => (f.getM_upgrade <=> m.src \in e.presence)
    BY <1>10 DEF c, u
  <2>2. Send(m.block, f, e.presence \ {m.src}, "REQ_INVALID")
    BY <1>12
  <2> QED BY <1>10, <2>1, <2>2, InvalidateMet
<1> QED BY <1>6, <1>11, <1>12

\* Every message the MI directory meets is handled well, or put back.
LEMMA MITickMet ==
  ASSUME NEW p, NEW ag, NEW U, NEW D, NEW e, NEW m, Meets(p, ag, U, D, e, m), p = "MI",
         e = entry[m.block], MITick(m)
  PROVE  Outcome(p, ag, U, D, m) \/ CycleQueue
<1>1. /\ m.kind \in {"GETM", "DATA"} /\ e.state \in {"I", "M", "MM"}
      /\ m.kind = "DATA" => e.state = "MM" /\ "MM" \in DirStatesOf(p)
      /\ m.kind \in {"GETS", "GETM", "GETX"} => m.kind = "GETM" /\ "MM" \in DirStatesOf(p)
  BY MessageExpected, MeetsTypes DEF DirStatesOf, WithE
<1>2. \/ /\ e.state = "I" /\ m.kind = "GETM"
         /\ Fetched(m.block, AddSharer(Goto(e, "M"), m.src), m.src, "DATA")
      \/ e.state = "M" /\ m.kind = "GETM" /\ Recall(m, e, "MM", "RECALL_GOTO_I")
      \/ e.state = "MM" /\ m.kind = "DATA" /\ PassOwnership(m, e)
      \/ CycleQueue
  BY <1>1 DEF MITick, MIHandled, Fetched, Fetch
<1>3. CASE /\ e.state = "I" /\ m.kind = "GETM"
           /\ Fetched(m.block, AddSharer(Goto(e, "M"), m.src), m.src, "DATA")
  BY <1>3, FetchMet
<1>4. CASE e.state = "M" /\ m.kind = "GETM" /\ Recall(m, e, "MM", "RECALL_GOTO_I")
  BY <1>1, <1>4, RecallMet
<1>5. CASE e.state = "MM" /\ m.kind = "DATA" /\ PassOwnership(m, e)
  BY <1>5, PassMet
<1> QED BY <1>2, <1>3, <1>4, <1>5

\* Every message the MSI directory meets is handled well, or put back.
LEMMA MSITickMet ==
  ASSUME NEW p, NEW ag, NEW U, NEW D, NEW e, NEW m, Meets(p, ag, U, D, e, m), p = "MSI",
         e = entry[m.block], MSITick(m)
  PROVE  Outcome(p, ag, U, D, m) \/ CycleQueue
<1>1. /\ m.kind \in {"GETS", "GETM", "DATA", "INVACK"}
      /\ e.state \in {"I", "S", "M", "SM", "MM", "MS"}
      /\ m.kind = "DATA" => e.state \in {"MM", "MS"}
      /\ m.kind = "INVACK" => e.state \in {"SM"}
  BY MessageExpected, MeetsTypes DEF DirStatesOf, WithE
<1>2. {"S", "MM", "MS"} \subseteq DirStatesOf(p)
  BY DEF DirStatesOf
<1>3. p \notin WithE
  BY DEF WithE
<1>4. \/ /\ e.state = "I" /\ m.kind = "GETM"
         /\ Fetched(m.block, AddOnce(Goto(e, "M"), m.src), m.src, "DATA")
      \/ /\ e.state = "I" /\ m.kind = "GETS"
         /\ Fetched(m.block, AddOnce(Goto(e, "S"), m.src), m.src, "DATA")
      \/ /\ e.state = "S" /\ m.kind = "GETS"
         /\ Fetched(m.block, AddOnce(e, m.src), m.src, "DATA")
      \/ /\ e.state = "M" /\ m.kind = "GETM"
         /\ Send(m.block, Await(e, "MM", m.src), {FirstPresent(e)}, "RECALL_GOTO_I")
      \/ /\ e.state = "M" /\ m.kind = "GETS"
         /\ Send(m.block, Await(e, "MS", m.src), {FirstPresent(e)}, "RECALL_GOTO_S")
      \/ e.state = "MM" /\ m.kind = "DATA" /\ MSIPassOn(m, e)
      \/ e.state = "MS" /\ m.kind = "DATA" /\ JoinSharers(m, e, "S")
      \/ e.state = "S" /\ m.kind = "GETM" /\ MSIUpgrade(m, e)
      \/ e.state = "SM" /\ m.kind = "INVACK" /\ MSIInvAck(m, e)
      \/ CycleQueue
  BY <1>1 DEF MSITick, MSIHandled, MSITransient, ReqKinds, DirStable, Fetched, Fetch
<1>5. CASE /\ e.state = "I" /\ m.kind = "GETM"
           /\ Fetched(m.block, AddOnce(Goto(e, "M"), m.src), m.src, "DATA")
  BY <1>2, <1>3, <1>5, FetchMet
<1>6. CASE /\ e.state = "I" /\ m.kind = "GETS"
           /\ Fetched(m.block, AddOnce(Goto(e, "S"), m.src), m.src, "DATA")
  BY <1>2, <1>3, <1>6, FetchMet
<1>7. CASE /\ e.state = "S" /\ m.kind = "GETS"
           /\ Fetched(m.block, AddOnce(e, m.src), m.src, "DATA")
  BY <1>2, <1>3, <1>7, FetchMet
<1>8. CASE /\ e.state = "M" /\ m.kind = "GETM"
           /\ Send(m.block, Await(e, "MM", m.src), {FirstPresent(e)}, "RECALL_GOTO_I")
  BY <1>2, <1>8, RecallMet
<1>9. CASE /\ e.state = "M" /\ m.kind = "GETS"
           /\ Send(m.block, Await(e, "MS", m.src), {FirstPresent(e)}, "RECALL_GOTO_S")
  BY <1>2, <1>9, RecallMet
<1>10. CASE e.state = "MM" /\ m.kind = "DATA" /\ MSIPassOn(m, e)
  BY <1>10, PassMet
<1>11. CASE e.state = "MS" /\ m.kind = "DATA" /\ JoinSharers(m, e, "S")
  BY <1>11, JoinMet DEF Reading
<1>12. CASE e.state = "S" /\ m.kind = "GETM" /\ MSIUpgrade(m, e)
  BY <1>12, UpgradeMet
<1>13. CASE e.state = "SM" /\ m.kind = "INVACK" /\ MSIInvAck(m, e)
  BY <1>13, SharersAckMet
<1> QED BY <1>4, <1>5, <1>6, <1>7, <1>8, <1>9, <1>10, <1>11, <1>12, <1>13

\* Every message the MESI directory meets is handled well, or put back.
LEMMA MESITickMet ==
  ASSUME NEW p, NEW ag, NEW U, NEW D, NEW e, NEW m, Meets(p, ag, U, D, e, m), p = "MESI",
         e = entry[m.block], MESITick(m)
  PROVE  Outcome(p, ag, U, D, m) \/ CycleQueue
<1>1. /\ m.kind \in {"GETS", "GETM", "GETX", "DATA", "INVACK"}
      /\ e.state \in {"I", "S", "E", "M", "SM", "MM", "MS", "EM", "ES"}
      /\ m.kind = "DATA" => e.state \in {"MM", "EM", "MS", "ES"}
      /\ m.kind = "INVACK" => e.state \in {"SM"}
  BY MessageExpected, MeetsTypes DEF DirStatesOf, WithE
<1>2. {"S", "MM", "MS", "EM", "ES"} \subseteq DirStatesOf(p)
  BY DEF DirStatesOf
<1>3. p \in WithE
  BY DEF WithE
<1>4. \/ /\ e.state = "I" /\ m.kind \in {"GETM", "GETX"}
         /\ Fetched(m.block, AddSharer(Goto(e, "M"), m.src), m.src, "DATA")
      \/ /\ e.state = "I" /\ m.kind = "GETS"
         /\ Fetched(m.block, AddSharer(Goto(e, "E"), m.src), m.src, "DATA_E")
      \/ /\ e.state = "S" /\ m.kind = "GETS"
         /\ Fetched(m.block, AddSharer(e, m.src), m.src, "DATA")
      \/ e.state = "M" /\ m.kind \in {"GETM", "GETX"} /\ Recall(m, e, "MM", "RECALL_GOTO_I")
      \/ e.state = "M" /\ m.kind = "GETS" /\ Recall(m, e, "MS", "RECALL_GOTO_S")
      \/ e.state = "E" /\ m.kind = "GETM" /\ Recall(m, e, "EM", "RECALL_GOTO_I")
      \/ e.state = "E" /\ m.kind = "GETS" /\ Recall(m, e, "ES", "RECALL_GOTO_S")
      \/ e.state = "E" /\ m.kind = "GETX" /\ Send(m.block, Goto(e, "M"), {m.src}, "ACK")
      \/ e.state \in {"MM", "EM"} /\ m.kind = "DATA" /\ PassOwnership(m, e)
      \/ e.state \in {"MS", "ES"} /\ m.kind = "DATA" /\ JoinSharers(m, e, "S")
      \/ /\ e.state = "S" /\ m.kind \in {"GETM", "GETX"}
         /\ Invalidate(m, e, "SM", e.presence \ {m.src})
      \/ e.state = "SM" /\ m.kind = "INVACK" /\ InvAckThenGrant(m, e)
      \/ CycleQueue
  BY <1>1 DEF MESITick, MESIHandled, MESITransient, ReqKinds, DirStable, Fetched, Fetch
<1>5. CASE /\ e.state = "I" /\ m.kind \in {"GETM", "GETX"}
           /\ Fetched(m.block, AddSharer(Goto(e, "M"), m.src), m.src, "DATA")
  BY <1>2, <1>3, <1>5, FetchMet
<1>6. CASE /\ e.state = "I" /\ m.kind = "GETS"
           /\ Fetched(m.block, AddSharer(Goto(e, "E"), m.src), m.src, "DATA_E")
  BY <1>2, <1>3, <1>6, FetchMet
<1>7. CASE /\ e.state = "S" /\ m.kind = "GETS"
           /\ Fetched(m.block, AddSharer(e, m.src), m.src, "DATA")
  BY <1>2, <1>3, <1>7, FetchMet
<1>8. CASE e.state = "M" /\ m.kind \in {"GETM", "GETX"} /\ Recall(m, e, "MM", "RECALL_GOTO_I")
  BY <1>2, <1>8, RecallMet
<1>9. CASE e.state = "M" /\ m.kind = "GETS" /\ Recall(m, e, "MS", "RECALL_GOTO_S")
  BY <1>2, <1>9, RecallMet
<1>10. CASE e.state = "E" /\ m.kind = "GETM" /\ Recall(m, e, "EM", "RECALL_GOTO_I")
  BY <1>2, <1>10, RecallMet
<1>11. CASE e.state = "E" /\ m.kind = "GETS" /\ Recall(m, e, "ES", "RECALL_GOTO_S")
  BY <1>2, <1>11, RecallMet
<1>12. CASE e.state = "E" /\ m.kind = "GETX" /\ Send(m.block, Goto(e, "M"), {m.src}, "ACK")
  <2> DEFINE h == Goto(e, "M")
  <2>1. e \in DirEntry
    BY MeetsTypes
  <2>2. h \in DirEntry
    BY <2>1, EntryEdits, StateTypes
  <2>3. /\ h.state = "M" /\ h.presence = e.presence /\ h.active_sharers = e.active_sharers
        /\ h.inv_ack_waiting = e.inv_ack_waiting
    BY <2>1, <2>2 DEF Goto, DirEntry
  <2> HIDE DEF h
  <2> QED BY <1>12, <2>2, <2>3, GrantMet DEF h
<1>13. CASE e.state \in {"MM", "EM"} /\ m.kind = "DATA" /\ PassOwnership(m, e)
  BY <1>13, PassMet
<1>14. CASE e.state \in {"MS", "ES"} /\ m.kind = "DATA" /\ JoinSharers(m, e, "S")
  BY <1>14, JoinMet DEF Reading
<1>15. CASE /\ e.state = "S" /\ m.kind \in {"GETM", "GETX"}
            /\ Invalidate(m, e, "SM", e.presence \ {m.src})
  BY <1>15, UpgradeMet
<1>16. CASE e.state = "SM" /\ m.kind = "INVACK" /\ InvAckThenGrant(m, e)
  BY <1>16, SharersAckMet
<1> QED BY <1>4, <1>5, <1>6, <1>7, <1>8, <1>9, <1>10, <1>11, <1>12, <1>13, <1>14, <1>15,
           <1>16

\* Every message the MOSI directory meets is handled well, or put back.
LEMMA MOSITickMet ==
  ASSUME NEW p, NEW ag, NEW U, NEW D, NEW e, NEW m, Meets(p, ag, U, D, e, m), p = "MOSI",
         e = entry[m.block], MOSITick(m)
  PROVE  Outcome(p, ag, U, D, m) \/ CycleQueue
<1>1. /\ m.kind \in {"GETS", "GETM", "DATA", "INVACK"}
      /\ e.state \in {"I", "S", "M", "O", "SM", "MM", "MO", "OM", "OO"}
      /\ m.kind = "DATA" => e.state \in {"MM", "MO", "OO", "OM"}
      /\ m.kind = "INVACK" => e.state \in {"SM", "OM"}
  BY MessageExpected, MeetsTypes DEF DirStatesOf, WithE
<1>2. {"S", "MM", "MO"} \subseteq DirStatesOf(p)
  BY DEF DirStatesOf
<1>3. p \notin WithE
  BY DEF WithE
<1>4. \/ /\ e.state = "I" /\ m.kind = "GETM"
         /\ Fetched(m.block, AddSharer(Goto(e, "M"), m.src), m.src, "DATA")
      \/ /\ e.state = "I" /\ m.kind = "GETS"
         /\ Fetched(m.block, AddSharer(Goto(e, "S"), m.src), m.src, "DATA")
      \/ /\ e.state = "S" /\ m.kind = "GETS"
         /\ Fetched(m.block, AddSharer(e, m.src), m.src, "DATA")
      \/ e.state = "M" /\ m.kind = "GETM" /\ Recall(m, e, "MM", "RECALL_GOTO_I")
      \/ e.state = "M" /\ m.kind = "GETS" /\ RecallCopy(m, e, "MO")
      \/ e.state = "MM" /\ m.kind = "DATA" /\ PassOwnership(m, e)
      \/ e.state \in {"MO", "OO"} /\ m.kind = "DATA" /\ JoinSharers(m, e, "O")
      \/ e.state = "S" /\ m.kind = "GETM" /\ MOSIUpgrade(m, e)
      \/ e.state = "SM" /\ m.kind = "INVACK" /\ InvAckThenGrant(m, e)
      \/ e.state = "O" /\ m.kind = "GETM" /\ InvalidateAround(m, e, "OM")
      \/ e.state = "O" /\ m.kind = "GETS" /\ CopyFromOwner(m, e, "OO")
      \/ e.state = "OM" /\ m.kind = "INVACK" /\ InvAckThenRecall(m, e)
      \/ e.state = "OM" /\ m.kind = "DATA" /\ OwnerGone(m, e)
      \/ CycleQueue
  BY <1>1 DEF MOSITick, MOSIHandled, MOSITransient, ReqKinds, DirStable, Fetched, Fetch
<1>5. CASE /\ e.state = "I" /\ m.kind = "GETM"
           /\ Fetched(m.block, AddSharer(Goto(e, "M"), m.src), m.src, "DATA")
  BY <1>2, <1>3, <1>5, FetchMet
<1>6. CASE /\ e.state = "I" /\ m.kind = "GETS"
           /\ Fetched(m.block, AddSharer(Goto(e, "S"), m.src), m.src, "DATA")
  BY <1>2, <1>3, <1>6, FetchMet
<1>7. CASE /\ e.state = "S" /\ m.kind = "GETS"
           /\ Fetched(m.block, AddSharer(e, m.src), m.src, "DATA")
  BY <1>2, <1>3, <1>7, FetchMet
<1>8. CASE e.state = "M" /\ m.kind = "GETM" /\ Recall(m, e, "MM", "RECALL_GOTO_I")
  BY <1>2, <1>8, RecallMet
<1>9. CASE e.state = "M" /\ m.kind = "GETS" /\ RecallCopy(m, e, "MO")
  BY <1>2, <1>9, RecallMet
<1>10. CASE e.state = "MM" /\ m.kind = "DATA" /\ PassOwnership(m, e)
  BY <1>10, PassMet
<1>11. CASE e.state \in {"MO", "OO"} /\ m.kind = "DATA" /\ JoinSharers(m, e, "O")
  BY <1>11, JoinMet DEF Reading
<1>12. CASE e.state = "S" /\ m.kind = "GETM" /\ MOSIUpgrade(m, e)
  BY <1>12, UpgradeMet
<1>13. CASE e.state = "SM" /\ m.kind = "INVACK" /\ InvAckThenGrant(m, e)
  BY <1>13, SharersAckMet
<1>14. CASE e.state = "O" /\ m.kind = "GETM" /\ InvalidateAround(m, e, "OM")
  BY <1>14, AroundMet
<1>15. CASE e.state = "O" /\ m.kind = "GETS" /\ CopyFromOwner(m, e, "OO")
  BY <1>15, CopyMet
<1>16. CASE e.state = "OM" /\ m.kind = "INVACK" /\ InvAckThenRecall(m, e)
  BY <1>16, AroundAckMet
<1>17. CASE e.state = "OM" /\ m.kind = "DATA" /\ OwnerGone(m, e)
  BY <1>17, OwnerGoneMet
<1> QED BY <1>4, <1>5, <1>6, <1>7, <1>8, <1>9, <1>10, <1>11, <1>12, <1>13, <1>14, <1>15,
           <1>16, <1>17

\* Every message the MOESIF directory meets is handled well, or put back.
LEMMA MOESIFTickMet ==
  ASSUME NEW p, NEW ag, NEW U, NEW D, NEW e, NEW m, Meets(p, ag, U, D, e, m), p = "MOESIF",
         e = entry[m.block], MOESIFTick(m)
  PROVE  Outcome(p, ag, U, D, m) \/ CycleQueue
<1>1. /\ m.kind \in {"GETS", "GETM", "GETX", "DATA", "INVACK"}
      /\ e.state \in {"I", "E", "M", "O", "F", "MM", "MO", "EM", "EF", "OM", "OO", "FM", "FF"}
      /\ m.kind = "DATA" => e.state \in {"MM", "EM", "MO", "EF", "OO", "FF", "OM", "FM"}
      /\ m.kind = "INVACK" => e.state \in {"OM", "FM"}
  BY MessageExpected, MeetsTypes DEF DirStatesOf, WithE
<1>2. {"MM", "MO", "EM", "EF"} \subseteq DirStatesOf(p)
  BY DEF DirStatesOf
<1>3. p \in WithE
  BY DEF WithE
<1>4. \/ /\ e.state = "I" /\ m.kind \in {"GETM", "GETX"}
         /\ Fetched(m.block, AddSharer(Goto(e, "M"), m.src), m.src, "DATA")
      \/ /\ e.state = "I" /\ m.kind = "GETS"
         /\ Fetched(m.block, AddSharer(Goto(e, "E"), m.src), m.src, "DATA_E")
      \/ e.state = "M" /\ m.kind \in {"GETM", "GETX"} /\ Recall(m, e, "MM", "RECALL_GOTO_I")
      \/ e.state = "M" /\ m.kind = "GETS" /\ RecallCopy(m, e, "MO")
      \/ e.state = "E" /\ m.kind = "GETM" /\ Recall(m, e, "EM", "RECALL_GOTO_I")
      \/ e.state = "E" /\ m.kind = "GETS" /\ RecallCopy(m, e, "EF")
      \/ e.state = "E" /\ m.kind = "GETX" /\ Send(m.block, Goto(e, "M"), {m.src}, "ACK")
      \/ e.state \in {"MM", "EM"} /\ m.kind = "DATA" /\ PassOwnership(m, e)
      \/ e.state \in {"MO", "OO"} /\ m.kind = "DATA" /\ JoinSharers(m, e, "O")
      \/ e.state \in {"EF", "FF"} /\ m.kind = "DATA" /\ JoinSharers(m, e, "F")
      \/ e.state = "F" /\ m.kind = "GETM" /\ InvalidateAround(m, e, "FM")
      \/ e.state = "O" /\ m.kind = "GETM" /\ InvalidateAround(m, e, "OM")
      \/ e.state = "F" /\ m.kind = "GETS" /\ CopyFromOwner(m, e, "FF")
      \/ e.state = "O" /\ m.kind = "GETS" /\ CopyFromOwner(m, e, "OO")
      \/ e.state = "F" /\ m.kind = "GETX" /\ Invalidate(m, e, "FM", e.presence \ {m.src})
      \/ /\ e.state = "O" /\ m.kind = "GETX"
         /\ Invalidate(m, e, "OM", e.presence \ {m.src, e.o_f_id})
      \/ e.state \in {"OM", "FM"} /\ m.kind = "INVACK" /\ InvAckThenRecall(m, e)
      \/ e.state \in {"OM", "FM"} /\ m.kind = "DATA" /\ OwnerGone(m, e)
      \/ CycleQueue
  BY <1>1 DEF MOESIFTick, MOESIFHandled, MOESIFTransient, ReqKinds, DirStable, Fetched, Fetch
<1>5. CASE /\ e.state = "I" /\ m.kind \in {"GETM", "GETX"}
           /\ Fetched(m.block, AddSharer(Goto(e, "M"), m.src), m.src, "DATA")
  BY <1>2, <1>3, <1>5, FetchMet
<1>6. CASE /\ e.state = "I" /\ m.kind = "GETS"
           /\ Fetched(m.block, AddSharer(Goto(e, "E"), m.src), m.src, "DATA_E")
  BY <1>2, <1>3, <1>6, FetchMet
<1>7. CASE e.state = "M" /\ m.kind \in {"GETM", "GETX"} /\ Recall(m, e, "MM", "RECALL_GOTO_I")
  BY <1>2, <1>7, RecallMet
<1>8. CASE e.state = "M" /\ m.kind = "GETS" /\ RecallCopy(m, e, "MO")
  BY <1>2, <1>8, RecallMet
<1>9. CASE e.state = "E" /\ m.kind = "GETM" /\ Recall(m, e, "EM", "RECALL_GOTO_I")
  BY <1>2, <1>9, RecallMet
<1>10. CASE e.state = "E" /\ m.kind = "GETS" /\ RecallCopy(m, e, "EF")
  BY <1>2, <1>10, RecallMet
<1>11. CASE e.state = "E" /\ m.kind = "GETX" /\ Send(m.block, Goto(e, "M"), {m.src}, "ACK")
  <2> DEFINE h == Goto(e, "M")
  <2>1. e \in DirEntry
    BY MeetsTypes
  <2>2. h \in DirEntry
    BY <2>1, EntryEdits, StateTypes
  <2>3. /\ h.state = "M" /\ h.presence = e.presence /\ h.active_sharers = e.active_sharers
        /\ h.inv_ack_waiting = e.inv_ack_waiting
    BY <2>1, <2>2 DEF Goto, DirEntry
  <2> HIDE DEF h
  <2> QED BY <1>11, <2>2, <2>3, GrantMet DEF h
<1>12. CASE e.state \in {"MM", "EM"} /\ m.kind = "DATA" /\ PassOwnership(m, e)
  BY <1>12, PassMet
<1>13. CASE e.state \in {"MO", "OO"} /\ m.kind = "DATA" /\ JoinSharers(m, e, "O")
  BY <1>13, JoinMet DEF Reading
<1>14. CASE e.state \in {"EF", "FF"} /\ m.kind = "DATA" /\ JoinSharers(m, e, "F")
  BY <1>14, JoinMet DEF Reading
<1>15. CASE e.state = "F" /\ m.kind = "GETM" /\ InvalidateAround(m, e, "FM")
  BY <1>15, AroundMet
<1>16. CASE e.state = "O" /\ m.kind = "GETM" /\ InvalidateAround(m, e, "OM")
  BY <1>16, AroundMet
<1>17. CASE e.state = "F" /\ m.kind = "GETS" /\ CopyFromOwner(m, e, "FF")
  BY <1>17, CopyMet
<1>18. CASE e.state = "O" /\ m.kind = "GETS" /\ CopyFromOwner(m, e, "OO")
  BY <1>18, CopyMet
<1>19. CASE e.state = "F" /\ m.kind = "GETX" /\ Invalidate(m, e, "FM", e.presence \ {m.src})
  BY <1>19, AroundMet
<1>20. CASE /\ e.state = "O" /\ m.kind = "GETX"
            /\ Invalidate(m, e, "OM", e.presence \ {m.src, e.o_f_id})
  BY <1>20, AroundMet
<1>21. CASE e.state \in {"OM", "FM"} /\ m.kind = "INVACK" /\ InvAckThenRecall(m, e)
  BY <1>21, AroundAckMet
<1>22. CASE e.state \in {"OM", "FM"} /\ m.kind = "DATA" /\ OwnerGone(m, e)
  BY <1>22, OwnerGoneMet
<1> QED BY <1>4, <1>5, <1>6, <1>7, <1>8, <1>9, <1>10, <1>11, <1>12, <1>13, <1>14, <1>15,
           <1>16, <1>17, <1>18, <1>19, <1>20, <1>21, <1>22

\* What the directory sends, and what it has taken.
LEMMA SendsHandled ==
  ASSUME NetworkTypes, UpChannels, DownChannels, ~resp.busy, queue # <<>>,
         NEW m, m = Head(queue), NEW b, b = m.block, NEW f, NEW dsts, NEW x \in DownKinds,
         Handles(protocol, AgentsAt(b), Ups(b), Downs(b), m.src, m.kind, f, dsts, x),
         Sends(b, f, dsts, x), UNCHANGED <<protocol, agent, toDir>>
  PROVE  HandledStep(m.src, b, m.kind, f, dsts, x)
<1>1. /\ m \in ToDirMsg /\ m = Upward(m.src, b, m.kind)
      /\ m.src \in Procs /\ b \in Blocks /\ m.kind \in UpKinds
  BY MessageTypes DEF NetworkTypes
<1>2. \A n \in dsts : n \in Procs /\ Fresh(Downs(b)[n], x)
  BY DEF Handles
<1>3. /\ queue' = Tail(queue) /\ entry' = [entry EXCEPT ![b] = f]
      /\ UNCHANGED <<protocol, agent, thrown>>
  BY DEF Sends, Send, Fetched, Fetch, Note, Dequeue
<1>4. UpChannels' /\ UpLoses(m.src, b, m.kind)
  <2> DEFINE n == m.src
             k == m.kind
  <2>1. Head(queue) = Upward(n, b, k) /\ n \in Procs /\ k \in UpKinds
    BY <1>1
  <2> HIDE DEF n, k
  <2>2. UpChannels' /\ UpLoses(n, b, k)
    BY <1>1, <1>3, <2>1, UpTaken
  <2> QED BY <2>2 DEF n, k
<1>5. DownChannels' /\ DownGains(b, dsts, x)
  <2>1. CASE Send(b, f, dsts, x)
    <3>1. SentDown(b, dsts, x) /\ resp' = resp
      BY <2>1 DEF Send, SentDown, Downward
    <3> QED BY <1>1, <1>2, <3>1, DownSent
  <2>2. CASE \E q : dsts = {q} /\ Fetched(b, f, q, x)
    <3>1. PICK q : dsts = {q} /\ Fetched(b, f, q, x)
      BY <2>2
    <3>2. PICK send_E \in BOOLEAN :
            /\ x = IF send_E THEN "DATA_E" ELSE "DATA"
            /\ toNode' = toNode
            /\ resp' = [busy |-> TRUE, target |-> q, block |-> b, send_E |-> send_E]
      BY <3>1 DEF Fetched, Fetch
    <3>3. q \in Procs /\ Downs(b)[q] = {}
      <4>1. q \in Procs /\ Fresh(Downs(b)[q], x)
        BY <1>2, <3>1
      <4> QED BY <3>2, <4>1, Kinds DEF Fresh
    <3>4. DownChannels' /\ DownGains(b, {q}, IF send_E THEN "DATA_E" ELSE "DATA")
      BY <1>1, <3>2, <3>3, DownLatched
    <3> QED BY <3>1, <3>2, <3>4
  <2>3. CASE dsts = {} /\ Note(b, f)
    <3>1. UNCHANGED <<toNode, resp>>
      BY <2>3 DEF Note
    <3> QED BY <2>3, <3>1, DownsKept DEF DownGains
  <2> QED BY <2>1, <2>2, <2>3 DEF Sends
<1> QED BY <1>3, <1>4, <1>5 DEF HandledStep

\* What the directory takes from its queue is handled well.
LEMMA DirectoryStep ==
  ASSUME NetworkTypes, ProtocolInv, DirTick
  PROVE  ProtocolInv'
<1> DEFINE m == Head(queue)
           b == m.block
           e == entry[b]
           p == protocol
<1>1. /\ ~resp.busy /\ queue # <<>> /\ UNCHANGED <<protocol, agent, toDir>>
      /\ \/ p = "MI"     /\ MITick(m)
         \/ p = "MSI"    /\ MSITick(m)
         \/ p = "MESI"   /\ MESITick(m)
         \/ p = "MOSI"   /\ MOSITick(m)
         \/ p = "MOESIF" /\ MOESIFTick(m)
  BY DEF DirTick
<1>2. /\ m \in ToDirMsg /\ m.src \in Procs /\ m.block \in Blocks /\ m.kind \in UpKinds
      /\ m \in In(queue) /\ m = Upward(m.src, b, m.kind)
  <2>1. queue \in Seq(ToDirMsg)
    BY DEF NetworkTypes
  <2>2. m \in ToDirMsg /\ m \in In(queue)
    BY <1>1, <2>1, TailIn
  <2> QED BY <2>2, MessageTypes
<1> HIDE DEF m
<1>3. m.kind \in Ups(b)[m.src]
  BY <1>2 DEF Ups
<1>4. Meets(p, AgentsAt(b), Ups(b), Downs(b), e, m)
  BY <1>2, <1>3 DEF Meets, ProtocolInv, BlockOK
<1>5. Outcome(p, AgentsAt(b), Ups(b), Downs(b), m) \/ CycleQueue
  <2> DEFINE ag == AgentsAt(b)
             U == Ups(b)
             D == Downs(b)
  <2> HIDE DEF ag, U, D, p, e
  <2>1. Meets(p, ag, U, D, e, m) /\ e = entry[m.block]
    BY <1>4 DEF ag, U, D, p, e
  <2>2. Outcome(p, ag, U, D, m) \/ CycleQueue
    BY <1>1, <2>1, MITickMet, MSITickMet, MESITickMet, MOSITickMet, MOESIFTickMet
  <2> QED BY <2>2 DEF ag, U, D, p, e
<1>6. CASE CycleQueue
  BY <1>1, <1>6, CycleStep
<1>7. CASE Outcome(p, AgentsAt(b), Ups(b), Downs(b), m)
  <2>1. PICK f, dsts, x :
          /\ x \in DownKinds /\ Sends(b, f, dsts, x)
          /\ Handles(p, AgentsAt(b), Ups(b), Downs(b), m.src, m.kind, f, dsts, x)
    BY <1>7 DEF Outcome
  <2>2. HandledStep(m.src, b, m.kind, f, dsts, x)
    <3>1. m = Head(queue) /\ UpChannels /\ DownChannels
      BY DEF m, ProtocolInv
    <3> HIDE DEF b
    <3>2. b = m.block
      BY DEF b
    <3> QED BY <1>1, <2>1, <3>1, <3>2, SendsHandled
  <2> QED BY <1>2, <2>1, <2>2, HandledKeeps
<1> QED BY <1>5, <1>6, <1>7

--------------------------------------------------------------------------------
(* The agent tables.                                                        *)

\* A load or store either hits a copy that permits it or asks for one.
HitRow(r) == /\ r.send = "DATA_proc" /\ r.to = r.from
             /\ r.from \in DirStable \ {"I"} /\ (r.on = "STORE" => r.from = "M")
MissRow(p, r) == /\ AskRow(r.from, r.send, r.to) /\ r.to \in AgentsOf(p)
                 /\ r.to = "IS" <=> r.on = "LOAD" /\ p # "MI"

ProcTable(p, rows) ==
  /\ \A r \in rows : HitRow(r) \/ MissRow(p, r)
  /\ \A s \in AgentsOf(p) \cap DirStable, on \in {"LOAD", "STORE"} :
       \E r \in rows : r.from = s /\ r.on = on

\* An answer completes the request; a probe takes the copy away, or part of it.
AnswerTable(p, rows) ==
  /\ \A r \in rows : r.on \in AnsKinds => r.send = "DATA_proc" /\ r.to = Due(r.from, {r.on})
  /\ \A s \in {"IS", "IM"} \cap AgentsOf(p) : \E r \in rows : r.from = s /\ r.on = "DATA"
  /\ p \in WithE => \E r \in rows : r.from = "IS" /\ r.on = "DATA_E"
  /\ \A s \in {"SM", "EM", "OM", "FM"} \cap AgentsOf(p) : \E r \in rows : r.from = s /\ r.on = "ACK"
ProbeTable(p, rows) ==
  /\ \A r \in rows : r.on \in ProbeKinds => /\ ProbeRow(p, r.from, r.on, r.send, r.to)
                                            /\ r.to \in AgentsOf(p)
  /\ \A s \in AgentsOf(p), on \in ProbeKinds, t \in AgentsOf(p), k \in {"DATA", "INVACK"} :
       ProbeRow(p, s, on, k, t) => \E r \in rows : r.from = s /\ r.on = on

\* The rows of MOESIF's upgrading agents.
LEMMA UpgradingRows ==
  \A s \in {"EM", "OM", "FM"}, on \in {"ACK", "RECALL_GOTO_I", "RECALL_GOTO_S"} :
    \E r \in MOESIFNtwk : r.from = s /\ r.on = on
<1> SUFFICES ASSUME NEW u \in MOESIFUpgrading,
                    NEW on \in {"ACK", "RECALL_GOTO_I", "RECALL_GOTO_S"}
             PROVE  \E r \in MOESIFNtwk : r.from = u[1] /\ r.on = on
  BY DEF MOESIFUpgrading
<1> DEFINE R == { Row(u[1], "RECALL_GOTO_I", "DATA",      "IM"),
                  Row(u[1], "RECALL_GOTO_S", "DATA",      u[2]),
                  Row(u[1], "ACK",           "DATA_proc", "M"),
                  Row(u[1], "DATA",          "DATA_proc", "M") }
<1>1. R \subseteq MOESIFNtwk
  BY DEF MOESIFNtwk
<1>2. \E r \in R : r.from = u[1] /\ r.on = on
  BY DEF Row
<1> QED BY <1>1, <1>2

\* Its other agents' rows for recalls, invalidations and answers.
LEMMA PlainRows ==
  /\ \A s \in {"E", "M", "F", "O"}, on \in {"RECALL_GOTO_I", "RECALL_GOTO_S"} :
       \E r \in MOESIFNtwk : r.from = s /\ r.on = on
  /\ \A s \in {"S", "SM"} : \E r \in MOESIFNtwk : r.from = s /\ r.on = "REQ_INVALID"
  /\ \A s \in {"IS", "IM"} : \E r \in MOESIFNtwk : r.from = s /\ r.on = "DATA"
  /\ \E r \in MOESIFNtwk : r.from = "IS" /\ r.on = "DATA_E"
  /\ \E r \in MOESIFNtwk : r.from = "SM" /\ r.on = "ACK"
<1>1. /\ Row("E",  "RECALL_GOTO_I", "DATA", "I") \in MOESIFNtwk
      /\ Row("E",  "RECALL_GOTO_S", "DATA", "F") \in MOESIFNtwk
      /\ Row("M",  "RECALL_GOTO_I", "DATA", "I") \in MOESIFNtwk
      /\ Row("M",  "RECALL_GOTO_S", "DATA", "O") \in MOESIFNtwk
      /\ Row("F",  "RECALL_GOTO_I", "DATA", "I") \in MOESIFNtwk
      /\ Row("F",  "RECALL_GOTO_S", "DATA", "F") \in MOESIFNtwk
      /\ Row("O",  "RECALL_GOTO_I", "DATA", "I") \in MOESIFNtwk
      /\ Row("O",  "RECALL_GOTO_S", "DATA", "O") \in MOESIFNtwk
  BY DEF MOESIFNtwk
<1>2. /\ Row("S",  "REQ_INVALID", "INVACK", "I") \in MOESIFNtwk
      /\ Row("SM", "REQ_INVALID", "INVACK", "IM") \in MOESIFNtwk
      /\ Row("IS", "DATA",   "DATA_proc", "S") \in MOESIFNtwk
      /\ Row("IS", "DATA_E", "DATA_proc", "E") \in MOESIFNtwk
      /\ Row("IM", "DATA",   "DATA_proc", "M") \in MOESIFNtwk
      /\ Row("SM", "ACK",    "DATA_proc", "M") \in MOESIFNtwk
  BY DEF MOESIFNtwk
<1>3. \A s, on, k, t : Row(s, on, k, t).from = s /\ Row(s, on, k, t).on = on
  BY DEF Row
<1> QED BY <1>1, <1>2, <1>3

\* The processor's half of the five tables.
LEMMA ProcTables ==
  ASSUME protocol \in Protocol
  PROVE  ProcTable(protocol, ProcRows)
<1> USE DEF ProcTable, HitRow, MissRow, AskRow, AgentsOf, DirStable, Row, AgentStates
<1>1. ProcTable("MI", MIProc)
  BY DEF MIProc
<1>2. ProcTable("MSI", MSIProc)
  BY DEF MSIProc
<1>3. ProcTable("MESI", MESIProc)
  BY DEF MESIProc
<1>4. ProcTable("MOSI", MOSIProc)
  BY DEF MOSIProc
<1>5. ProcTable("MOESIF", MOESIFProc)
  BY DEF MOESIFProc
<1> HIDE DEF ProcTable
<1> QED BY <1>1, <1>2, <1>3, <1>4, <1>5 DEF ProcRows, Protocol

\* The answers of the five tables.
LEMMA AnswerTables ==
  ASSUME protocol \in Protocol
  PROVE  AnswerTable(protocol, NtwkRows)
<1> USE DEF AnswerTable, AnsKinds, Due, Copy, WithE, AgentsOf, Row, AgentStates
<1>1. AnswerTable("MI", MINtwk)
  BY DEF MINtwk
<1>2. AnswerTable("MSI", MSINtwk)
  BY DEF MSINtwk
<1>3. AnswerTable("MESI", MESINtwk)
  BY DEF MESINtwk
<1>4. AnswerTable("MOSI", MOSINtwk)
  BY DEF MOSINtwk
<1>5. AnswerTable("MOESIF", MOESIFNtwk)
  <2>1. ASSUME NEW r \in MOESIFNtwk, r.on \in AnsKinds
        PROVE  r.send = "DATA_proc" /\ r.to = Due(r.from, {r.on})
    BY <2>1 DEF MOESIFNtwk, MOESIFUpgrading
  <2> QED BY <2>1, UpgradingRows, PlainRows
<1> HIDE DEF AnswerTable
<1> QED BY <1>1, <1>2, <1>3, <1>4, <1>5 DEF NtwkRows, Protocol

\* The recalls and invalidations of the five tables.
LEMMA ProbeTables ==
  ASSUME protocol \in Protocol
  PROVE  ProbeTable(protocol, NtwkRows)
<1> USE DEF ProbeTable, ProbeKinds, ProbeRow, AgentsOf, Row, AgentStates
<1>1. ProbeTable("MI", MINtwk)
  BY DEF MINtwk
<1>2. ProbeTable("MSI", MSINtwk)
  BY DEF MSINtwk
<1>3. ProbeTable("MESI", MESINtwk)
  BY DEF MESINtwk
<1>4. ProbeTable("MOSI", MOSINtwk)
  BY DEF MOSINtwk
<1>5. ProbeTable("MOESIF", MOESIFNtwk)
  <2>1. \A r \in MOESIFNtwk : r.on \in ProbeKinds => ProbeRow("MOESIF", r.from, r.on, r.send, r.to)
                                                    /\ r.to \in AgentStates
    BY DEF MOESIFNtwk, MOESIFUpgrading
  <2>2. \A s \in {"EM", "OM", "FM"}, on \in {"RECALL_GOTO_I", "RECALL_GOTO_S"} :
          \E r \in MOESIFNtwk : r.from = s /\ r.on = on
    BY UpgradingRows
  <2> QED BY <2>1, <2>2, PlainRows
<1> HIDE DEF ProbeTable
<1> QED BY <1>1, <1>2, <1>3, <1>4, <1>5 DEF NtwkRows, Protocol

--------------------------------------------------------------------------------
(* What an agent does with what it meets.                                   *)

Hit(n, b, on) == /\ agent[n][b] \in DirStable \ {"I"} /\ (on = "STORE" => agent[n][b] = "M")
                 /\ cacheIn' = [cacheIn EXCEPT ![n] = TRUE]
                 /\ UNCHANGED <<agent, toDir, thrown>>
Miss(n, b, on, k, t) == /\ AskRow(agent[n][b], k, t) /\ t \in AgentsOf(protocol)
                        /\ t = "IS" <=> on = "LOAD" /\ protocol # "MI"
                        /\ AgentGoes(n, b, t) /\ SentUp(n, Upward(n, b, k))
                        /\ UNCHANGED <<cacheIn, thrown>>
GetsAnswer(n, b, k) == /\ AgentGoes(n, b, Due(agent[n][b], {k}))
                       /\ cacheIn' = [cacheIn EXCEPT ![n] = TRUE]
                       /\ UNCHANGED <<toDir, thrown>>
Yields(n, b, r, k, t) == /\ ProbeRow(protocol, agent[n][b], r, k, t) /\ t \in AgentsOf(protocol)
                         /\ AgentGoes(n, b, t) /\ SentUp(n, Upward(n, b, k))
                         /\ UNCHANGED <<cacheIn, thrown>>

\* A row of the table is taken, if the table has one.
RowTaken(n, b, on, rows, r) == /\ r \in rows /\ r.from = agent[n][b] /\ r.on = on
                               /\ Emit(n, b, r.send) /\ AgentGoes(n, b, r.to) /\ UNCHANGED thrown

\* A step for which the table has a row takes one.
LEMMA TableStep ==
  ASSUME NEW n, NEW b, NEW on, NEW rows, AgentStep(n, b, on, rows),
         NEW q \in rows, q.from = agent[n][b], q.on = on
  PROVE  \E r : RowTaken(n, b, on, rows, r)
  BY DEF AgentStep, RowTaken, AgentGoes

\* A load or store of an agent that does not wait.
LEMMA ProcAgent ==
  ASSUME NetworkTypes, ProtocolInv, NEW n \in Procs, NEW b \in Blocks, NEW on \in {"LOAD", "STORE"},
         agent[n][b] \in DirStable, AgentStep(n, b, on, ProcRows)
  PROVE  Hit(n, b, on) \/ \E k, t : Miss(n, b, on, k, t)
<1>1. ProcTable(protocol, ProcRows)
  BY ProcTables DEF NetworkTypes
<1>2. agent[n][b] \in AgentsOf(protocol)
  BY NodeRight DEF NodeOK
<1>3. PICK r : RowTaken(n, b, on, ProcRows, r)
  <2>1. \E q \in ProcRows : q.from = agent[n][b] /\ q.on = on
    BY <1>1, <1>2 DEF ProcTable
  <2> QED BY <2>1, TableStep
<1>4. CASE HitRow(r)
  <2>1. agent' = agent
    BY <1>3, <1>4 DEF RowTaken, HitRow, AgentGoes, NetworkTypes
  <2>2. Emit(n, b, "DATA_proc")
    BY <1>3, <1>4 DEF RowTaken, HitRow
  <2> QED BY <1>3, <1>4, <2>1, <2>2 DEF RowTaken, HitRow, Emit, Hit
<1>5. CASE MissRow(protocol, r)
  <2>1. r.send # "DATA_proc"
    BY <1>5 DEF MissRow, AskRow
  <2>2. SentUp(n, Upward(n, b, r.send)) /\ UNCHANGED cacheIn
    BY <1>3, <2>1 DEF RowTaken, Emit, SentUp, Upward
  <2>3. Miss(n, b, on, r.send, r.to)
    BY <1>3, <1>5, <2>2 DEF RowTaken, MissRow, Miss
  <2> QED BY <2>3
<1> QED BY <1>1, <1>3, <1>4, <1>5 DEF ProcTable, RowTaken

\* An answer from the directory.
LEMMA AnswerAgent ==
  ASSUME NetworkTypes, ProtocolInv, NEW n \in Procs, NEW b \in Blocks, NEW k \in AnsKinds,
         k \in Downs(b)[n], AgentStep(n, b, k, NtwkRows)
  PROVE  GetsAnswer(n, b, k)
<1>1. AnswerTable(protocol, NtwkRows)
  BY AnswerTables DEF NetworkTypes
<1>2. /\ agent[n][b] \in AgentsOf(protocol)
      /\ RequestKind(protocol, n, agent[n][b], Ups(b)[n], Downs(b)[n], entry[b])
  BY NodeRight DEF NodeOK
<1>3. \E q \in NtwkRows : q.from = agent[n][b] /\ q.on = k
  <2>1. CASE k = "DATA"
    BY <1>1, <1>2, <2>1 DEF RequestKind, AnswerTable
  <2>2. CASE k = "DATA_E"
    BY <1>1, <1>2, <2>2 DEF RequestKind, AnswerTable
  <2>3. CASE k = "ACK"
    BY <1>1, <1>2, <2>3 DEF RequestKind, AnswerTable
  <2> QED BY <2>1, <2>2, <2>3 DEF AnsKinds
<1>4. PICK r : RowTaken(n, b, k, NtwkRows, r)
  BY <1>3, TableStep
<1>5. r.send = "DATA_proc" /\ r.to = Due(r.from, {r.on})
  BY <1>1, <1>4 DEF AnswerTable, RowTaken
<1>6. Emit(n, b, "DATA_proc") /\ r.from = agent[n][b] /\ r.on = k
  BY <1>4, <1>5 DEF RowTaken
<1> QED BY <1>4, <1>5, <1>6 DEF RowTaken, Emit, GetsAnswer

\* A recall or an invalidation.
LEMMA ProbeAgent ==
  ASSUME NetworkTypes, ProtocolInv, NEW n \in Procs, NEW b \in Blocks, NEW on \in ProbeKinds,
         on \in Downs(b)[n], ~Answered(Downs(b)[n]), AgentStep(n, b, on, NtwkRows)
  PROVE  \E k, t : Yields(n, b, on, k, t)
<1>1. ProbeTable(protocol, NtwkRows)
  BY ProbeTables DEF NetworkTypes
<1>2. /\ NodeOK(protocol, n, agent[n][b], Ups(b)[n], Downs(b)[n], entry[b])
      /\ EntryOK(protocol, entry[b]) /\ protocol \in Protocol
  BY NodeRight DEF NetworkTypes
<1>3. \E q \in NtwkRows : q.from = agent[n][b] /\ q.on = on
  <2>1. \E k \in {"DATA", "INVACK"}, t \in AgentsOf(protocol) :
          ProbeRow(protocol, agent[n][b], on, k, t)
    BY <1>2, ProbeHasRow
  <2> QED BY <1>1, <1>2, <2>1 DEF ProbeTable, NodeOK
<1>4. PICK r : RowTaken(n, b, on, NtwkRows, r)
  BY <1>3, TableStep
<1>5. ProbeRow(protocol, agent[n][b], on, r.send, r.to) /\ r.to \in AgentsOf(protocol)
  BY <1>1, <1>4 DEF ProbeTable, RowTaken
<1>6. r.send # "DATA_proc"
  BY <1>5 DEF ProbeRow
<1>7. SentUp(n, Upward(n, b, r.send)) /\ UNCHANGED cacheIn
  BY <1>4, <1>6 DEF RowTaken, Emit, SentUp, Upward
<1>8. Yields(n, b, on, r.send, r.to)
  BY <1>4, <1>5, <1>7 DEF RowTaken, Yields
<1> QED BY <1>8

--------------------------------------------------------------------------------
(* The caches' steps, whatever else happens in the same cycle.              *)

\* A load or store keeps the invariant.
LEMMA ProcKeeps ==
  ASSUME NetworkTypes, ProtocolInv, NEW n \in Procs, NEW b \in Blocks, NEW on \in {"LOAD", "STORE"},
         agent[n][b] \in DirStable, AgentStep(n, b, on, ProcRows),
         UNCHANGED <<protocol, toNode, queue, entry, resp>>
  PROVE  ProtocolInv'
<1>1. CASE Hit(n, b, on)
  BY <1>1, ProtocolIdle DEF Hit
<1>2. ASSUME NEW k, NEW t, Miss(n, b, on, k, t)
      PROVE  ProtocolInv'
  BY <1>2, AskStep DEF Miss
<1> QED BY <1>1, <1>2, ProcAgent

\* What the cache finds at the head of the channel, and what the agent does.
AnswerComes(n, b, k) == /\ k \in AnsKinds /\ k \in Downs(b)[n] /\ Head(toNode[n]) = Downward(b, k)
                        /\ GetsAnswer(n, b, k)
ProbeComes(n, b, r, k, t) == /\ r \in ProbeKinds /\ r \in Downs(b)[n]
                             /\ Head(toNode[n]) = Downward(b, r)
                             /\ ~Answered(Downs(b)[n]) /\ Yields(n, b, r, k, t)

\* An agent that takes a message takes an answer or a probe.
LEMMA NtwkCases ==
  ASSUME NetworkTypes, ProtocolInv, NEW n \in Procs, TakenDown(n),
         AgentStep(n, Head(toNode[n]).block, Head(toNode[n]).kind, NtwkRows),
         UNCHANGED resp
  PROVE  \E b \in Blocks : \/ \E k : AnswerComes(n, b, k)
                           \/ \E r, k, t : ProbeComes(n, b, r, k, t)
<1> DEFINE m == Head(toNode[n])
<1>1. m \in ToNodeMsg
  BY DEF NetworkTypes, TakenDown
<1>2. PICK b \in Blocks, k \in DownKinds : m = Downward(b, k) /\ m.block = b /\ m.kind = k
  BY <1>1 DEF ToNodeMsg, Downward, DownKinds
<1>3. /\ k \in Downs(b)[n]
      /\ k \in ProbeKinds => ~Answered(Downs(b)[n])
  BY <1>2, NodeRight, DownTaken
<1>4. AgentStep(n, b, k, NtwkRows)
  BY <1>2
<1>5. CASE k \in AnsKinds
  BY <1>2, <1>3, <1>4, <1>5, AnswerAgent DEF AnswerComes
<1>6. CASE k \in ProbeKinds
  BY <1>2, <1>3, <1>4, <1>6, ProbeAgent DEF ProbeComes
<1> QED BY <1>5, <1>6 DEF DownKinds

\* A message from the directory keeps the invariant.
LEMMA NtwkKeeps ==
  ASSUME NetworkTypes, ProtocolInv, NEW n \in Procs, TakenDown(n),
         AgentStep(n, Head(toNode[n]).block, Head(toNode[n]).kind, NtwkRows),
         UNCHANGED <<protocol, queue, entry, resp>>
  PROVE  ProtocolInv'
<1>1. PICK b \in Blocks : \/ \E k : AnswerComes(n, b, k)
                          \/ \E r, k, t : ProbeComes(n, b, r, k, t)
  BY NtwkCases
<1>2. ASSUME NEW k, AnswerComes(n, b, k)
      PROVE  ProtocolInv'
  <2> DEFINE t == Due(agent[n][b], {k})
  <2>1. AgentGoes(n, b, t) /\ UNCHANGED <<toDir, thrown>>
    BY <1>2 DEF AnswerComes, GetsAnswer
  <2>2. k \in AnsKinds /\ Head(toNode[n]) = Downward(b, k)
    BY <1>2 DEF AnswerComes
  <2>3. t = Due(agent[n][b], {k})
    OBVIOUS
  <2> HIDE DEF t
  <2> QED BY <2>1, <2>2, <2>3, AnswerStep
<1>3. ASSUME NEW r, NEW k, NEW t, ProbeComes(n, b, r, k, t)
      PROVE  ProtocolInv'
  BY <1>3, ProbeStep DEF ProbeComes, Yields
<1> QED BY <1>1, <1>2, <1>3

\* The invariant needs the types of the network only.
LEMMA NetworkTyped ==
  ASSUME TypeOK
  PROVE  NetworkTypes
  BY ProtocolsAssumption DEF TypeOK, NetworkTypes, Protocol

--------------------------------------------------------------------------------
(* One request per processor: while an agent waits, the CPU waits for it,   *)
(* and what the CPU waits for is in one of its slots or with an agent.      *)

OneRequest(n) ==
  /\ cpuIn[n] # NoReq => cpuIn[n] = req[n] /\ ~cacheIn[n]
  /\ cacheIn[n] => req[n] # NoReq
  /\ req[n] # NoReq => \/ cpuIn[n] # NoReq \/ cacheIn[n]
                       \/ \E b \in Blocks : agent[n][b] \notin DirStable
  /\ \A b \in Blocks : agent[n][b] \notin DirStable =>
       /\ req[n] # NoReq /\ req[n].block = b
       /\ cpuIn[n] = NoReq /\ ~cacheIn[n]
       /\ agent[n][b] = "IS" => req[n].op = "LOAD"

CpusOK == \A n \in Procs : OneRequest(n)

\* A step that leaves the others' slots and agents alone.
OnlyNode(n) == \A m \in Procs : m # n =>
  /\ cpuIn'[m] = cpuIn[m] /\ req'[m] = req[m] /\ cacheIn'[m] = cacheIn[m]
  /\ \A b \in Blocks : agent'[m][b] = agent[m][b]

\* Such a step leaves the other nodes' requests in order.
LEMMA OnlyNodeKeeps ==
  ASSUME CpusOK, NEW n \in Procs, OnlyNode(n), OneRequest(n)'
  PROVE  CpusOK'
  BY DEF CpusOK, OneRequest, OnlyNode

\* A trace CPU issues its next request only when the last one is answered.
LEMMA CpuTickCpus ==
  ASSUME TypeOK, CpusOK, NEW n \in Procs, CpuTick(n)
  PROVE  CpusOK'
<1>1. OnlyNode(n) /\ agent' = agent
  BY DEF CpuTick, TypeOK, OnlyNode
<1>2. \A b \in Blocks : agent[n][b] \in DirStable
  BY DEF CpuTick, CpusOK, OneRequest
<1>3. ~cacheIn'[n]
  BY DEF CpuTick, TypeOK
<1>4. CASE left[n] = 0
  <2>1. cpuIn[n] = NoReq
    BY <1>4 DEF CpuTick, CpusOK, OneRequest
  <2> QED BY <1>1, <1>2, <1>3, <1>4, <2>1, OnlyNodeKeeps DEF CpuTick, TypeOK, OneRequest
<1>5. CASE left[n] > 0
  <2>1. cpuIn'[n] = req'[n] /\ req'[n] # NoReq
    BY <1>5 DEF CpuTick, TypeOK, Instrs, NoReq
  <2> QED BY <1>1, <1>2, <1>3, <2>1, OnlyNodeKeeps DEF OneRequest
<1>6. left[n] \in Nat
  BY TraceLenAssumption DEF TypeOK
<1> QED BY <1>4, <1>5, <1>6

\* The request in the slot finds no agent waiting.
LEMMA ProcStable ==
  ASSUME TypeOK, CpusOK, NEW n \in Procs, CacheProc(n, ProcRows)
  PROVE  /\ cpuIn[n] \in Instrs /\ cpuIn[n].block \in Blocks /\ cpuIn[n].op \in {"LOAD", "STORE"}
         /\ cpuIn[n] = req[n] /\ req[n] # NoReq /\ ~cacheIn[n]
         /\ \A b \in Blocks : agent[n][b] \in DirStable
<1>1. cpuIn[n] # NoReq
  BY DEF CacheProc
<1>2. cpuIn[n] \in Instrs
  BY <1>1 DEF TypeOK
<1> QED BY <1>1, <1>2 DEF CpusOK, OneRequest, Instrs

\* The processor's half of the cache hands the request on or answers it.
LEMMA CacheProcCpus ==
  ASSUME TypeOK, ProtocolInv, CpusOK, NEW n \in Procs, CacheProc(n, ProcRows)
  PROVE  CpusOK'
<1> DEFINE b == cpuIn[n].block
           on == cpuIn[n].op
<1>1. /\ b \in Blocks /\ on \in {"LOAD", "STORE"} /\ NetworkTypes
      /\ cpuIn[n] = req[n] /\ req[n] # NoReq /\ ~cacheIn[n]
      /\ \A c \in Blocks : agent[n][c] \in DirStable
  BY ProcStable, NetworkTyped
<1>2. /\ cpuIn' = [cpuIn EXCEPT ![n] = NoReq] /\ UNCHANGED req
      /\ AgentStep(n, b, on, ProcRows)
  BY DEF CacheProc
<1>3. cpuIn'[n] = NoReq /\ \A m \in Procs : m # n => cpuIn'[m] = cpuIn[m]
  BY <1>2 DEF TypeOK
<1>4. req[n].block = b /\ req[n].op = on
  BY <1>1
<1> HIDE DEF b, on
<1>5. CASE Hit(n, b, on)
  <2>1. cacheIn'[n] /\ agent' = agent /\ \A m \in Procs : m # n => cacheIn'[m] = cacheIn[m]
    BY <1>5 DEF Hit, TypeOK
  <2> QED BY <1>1, <1>2, <1>3, <2>1, OnlyNodeKeeps DEF OneRequest, OnlyNode
<1>6. ASSUME NEW k, NEW t, Miss(n, b, on, k, t)
      PROVE  CpusOK'
  <2>1. /\ cacheIn' = cacheIn /\ AgentGoes(n, b, t) /\ (t = "IS" => on = "LOAD")
        /\ t \notin DirStable
    BY <1>6 DEF Miss, AskRow, DirStable
  <2>2. \A m \in Procs, c \in Blocks :
          /\ c = b /\ m = n => agent'[m][c] = t
          /\ ~(c = b /\ m = n) => agent'[m][c] = agent[m][c]
    BY <1>1, <2>1, AgentChanges
  <2>3. OnlyNode(n)
    BY <1>2, <1>3, <2>1, <2>2 DEF OnlyNode
  <2>4. OneRequest(n)'
    BY <1>1, <1>2, <1>3, <1>4, <2>1, <2>2 DEF OneRequest
  <2> QED BY <2>3, <2>4, OnlyNodeKeeps
<1> QED BY <1>1, <1>2, <1>5, <1>6, ProcAgent

\* The answer's agent was the one that waited.
LEMMA AnswerWaited ==
  ASSUME NetworkTypes, ProtocolInv, NEW n \in Procs, NEW b \in Blocks, NEW k, AnswerComes(n, b, k)
  PROVE  agent[n][b] \notin DirStable /\ Due(agent[n][b], {k}) \in DirStable \ {"I"}
<1>1. /\ RequestPlace(n, agent[n][b], Ups(b)[n], Downs(b)[n], entry[b])
      /\ k \in AnsKinds /\ Answered(Downs(b)[n])
  BY NodeRight DEF NodeOK, AnswerComes, Answered, AnsKinds
<1>2. Due(agent[n][b], {k}) \in {"S", "E", "M"}
  BY <1>1 DEF Due, AnsKinds
<1> QED BY <1>1, <1>2 DEF RequestPlace, DirStable

\* The network's half of the cache.
LEMMA CacheNtwkCpus ==
  ASSUME TypeOK, ProtocolInv, CpusOK, NEW n \in Procs, CacheNtwk(n, NtwkRows)
  PROVE  CpusOK'
<1>1. /\ TakenDown(n) /\ UNCHANGED <<req, cpuIn, resp>>
      /\ AgentStep(n, Head(toNode[n]).block, Head(toNode[n]).kind, NtwkRows)
      /\ NetworkTypes
  BY NetworkTyped DEF CacheNtwk, TakenDown
<1>2. PICK b \in Blocks : \/ \E k : AnswerComes(n, b, k)
                          \/ \E r, k, t : ProbeComes(n, b, r, k, t)
  BY <1>1, NtwkCases
<1>3. OneRequest(n)
  BY DEF CpusOK
<1>4. ASSUME NEW k, AnswerComes(n, b, k)
      PROVE  CpusOK'
  <2> DEFINE t == Due(agent[n][b], {k})
  <2>1. agent[n][b] \notin DirStable /\ t \in DirStable
    BY <1>1, <1>4, AnswerWaited
  <2>2. AgentGoes(n, b, t) /\ cacheIn' = [cacheIn EXCEPT ![n] = TRUE]
    BY <1>4 DEF AnswerComes, GetsAnswer
  <2> HIDE DEF t
  <2>3. \A m \in Procs, c \in Blocks :
          /\ c = b /\ m = n => agent'[m][c] = t
          /\ ~(c = b /\ m = n) => agent'[m][c] = agent[m][c]
    BY <1>1, <2>2, AgentChanges
  <2>4. cacheIn'[n] /\ \A m \in Procs : m # n => cacheIn'[m] = cacheIn[m]
    BY <2>2 DEF TypeOK
  <2>5. OnlyNode(n)
    BY <1>1, <2>3, <2>4 DEF OnlyNode
  <2>6. OneRequest(n)'
    BY <1>1, <1>3, <2>1, <2>3, <2>4 DEF OneRequest
  <2> QED BY <2>5, <2>6, OnlyNodeKeeps
<1>5. ASSUME NEW r, NEW k, NEW t, ProbeComes(n, b, r, k, t)
      PROVE  CpusOK'
  <2>1. /\ cacheIn' = cacheIn /\ AgentGoes(n, b, t)
        /\ t # "IS" /\ (t \in DirStable <=> agent[n][b] \in DirStable)
    BY <1>5 DEF ProbeComes, Yields, ProbeRow, DirStable
  <2>2. \A m \in Procs, c \in Blocks :
          /\ c = b /\ m = n => agent'[m][c] = t
          /\ ~(c = b /\ m = n) => agent'[m][c] = agent[m][c]
    BY <1>1, <2>1, AgentChanges
  <2>3. OnlyNode(n)
    BY <1>1, <2>1, <2>2 DEF OnlyNode
  <2>4. OneRequest(n)'
    BY <1>1, <1>3, <2>1, <2>2 DEF OneRequest
  <2> QED BY <2>3, <2>4, OnlyNodeKeeps
<1> QED BY <1>2, <1>4, <1>5

--------------------------------------------------------------------------------
(* The invariant of the simulator.                                          *)

\* At the start nothing is on its way and nothing is held.
LEMMA Initially ==
  ASSUME TypeOK, SystemInit
  PROVE  ProtocolInv /\ CpusOK
<1>1. protocol \in Protocol
  BY NetworkTyped DEF NetworkTypes
<1>2. In(<<>>) = {} /\ NoDup(<<>>) /\ \A x, y : Before(<<>>, x, y)
  BY DEF In, NoDup, Before
<1>3. ~resp.busy
  BY DEF SystemInit, Init, Idle
<1>4. UpChannels /\ DownChannels
  BY <1>2, <1>3 DEF SystemInit, Init, UpChannels, DownChannels, InOrder, Latched
<1>5. ASSUME NEW b \in Blocks
      PROVE  BlockOK(b)
  <2>1. /\ AgentsAt(b) = [n \in Procs |-> "I"]
        /\ Ups(b) = [n \in Procs |-> {}] /\ Downs(b) = [n \in Procs |-> {}]
        /\ entry[b] = NewEntry
    BY <1>2, <1>3 DEF SystemInit, Init, AgentsAt, Ups, Downs, Latched
  <2>2. AckSet(Ups(b), Downs(b)) = {}
    BY <2>1 DEF AckSet
  <2>3. Cardinality({}) = 0
    BY FS_EmptySet
  <2>4. EntryOK(protocol, NewEntry)
    BY <1>1, <2>3 DEF EntryOK, NewEntry, DirStatesOf, Protocol, Sole, Owned, Upgrading
  <2>5. \A n \in Procs : NodeOK(protocol, n, "I", {}, {}, NewEntry)
    BY <1>1 DEF NodeOK, NewEntry, AgentsOf, Protocol, AgentStates, RequestPlace, RequestKind, Rests,
                Due, Copy, Probed, Replies, Asks, Answered, Taken, DirStable
  <2>6. /\ EntryOK(protocol, entry[b])
        /\ entry[b].inv_ack_waiting = Cardinality(AckSet(Ups(b), Downs(b)))
    <3>1. NewEntry.inv_ack_waiting = 0
      BY DEF NewEntry
    <3> QED BY <2>1, <2>2, <2>3, <2>4, <3>1
  <2>7. \A n \in Procs :
          NodeOK(protocol, n, AgentsAt(b)[n], Ups(b)[n], Downs(b)[n], entry[b])
    BY <2>1, <2>5
  <2>8. /\ Ups(b) \in [Procs -> SUBSET UpKinds] /\ Downs(b) \in [Procs -> SUBSET DownKinds]
    BY <2>1
  <2>9. entry[b] \in DirEntry
    BY DEF TypeOK
  <2> QED BY <1>1, <2>6, <2>7, <2>8, <2>9 DEF BlockOK, BlockIs
<1>6. CpusOK
  BY DEF SystemInit, Init, CpusOK, OneRequest, DirStable
<1> QED BY <1>4, <1>5, <1>6 DEF ProtocolInv, SystemInit, Init

\* Every step keeps it.
LEMMA EachStep ==
  ASSUME TypeOK, ProtocolInv, CpusOK, [Next]_vars
  PROVE  ProtocolInv' /\ CpusOK'
<1>1. NetworkTypes
  BY NetworkTyped
<1>2. ASSUME NEW n \in Procs, CpuTick(n)
      PROVE  ProtocolInv' /\ CpusOK'
  BY <1>2, CpuTickCpus, ProtocolIdle DEF CpuTick
<1>3. ASSUME NEW n \in Procs, CacheProc(n, ProcRows)
      PROVE  ProtocolInv' /\ CpusOK'
  <2> DEFINE b == cpuIn[n].block
             on == cpuIn[n].op
  <2>1. /\ b \in Blocks /\ on \in {"LOAD", "STORE"} /\ agent[n][b] \in DirStable
        /\ AgentStep(n, b, on, ProcRows)
        /\ UNCHANGED <<protocol, toNode, queue, entry, resp>>
    BY <1>3, ProcStable DEF CacheProc
  <2> HIDE DEF b, on
  <2> QED BY <1>1, <1>3, <2>1, ProcKeeps, CacheProcCpus
<1>4. ASSUME NEW n \in Procs, CacheNtwk(n, NtwkRows)
      PROVE  ProtocolInv' /\ CpusOK'
  <2>1. /\ TakenDown(n)
        /\ AgentStep(n, Head(toNode[n]).block, Head(toNode[n]).kind, NtwkRows)
        /\ UNCHANGED <<protocol, queue, entry, resp>>
    BY <1>4 DEF CacheNtwk, TakenDown
  <2> QED BY <1>1, <1>4, <2>1, NtwkKeeps, CacheNtwkCpus
<1>5. ASSUME NEW n \in Procs, DirArrive(n)
      PROVE  ProtocolInv' /\ CpusOK'
  BY <1>1, <1>5, ArriveStep DEF DirArrive, CpusOK, OneRequest
<1>6. CASE DirTick
  BY <1>1, <1>6, DirectoryStep DEF DirTick, CpusOK, OneRequest
<1>7. CASE DirRespond
  BY <1>1, <1>7, RespondStep DEF DirRespond, CpusOK, OneRequest
<1>8. CASE UNCHANGED vars
  BY <1>8, ProtocolIdle DEF vars, CpusOK, OneRequest
<1> QED BY <1>2, <1>3, <1>4, <1>5, <1>6, <1>7, <1>8 DEF Next, Finished

\* The inductive invariant holds throughout, whichever protocol the run has
\* chosen: the channels, every block, and one request per processor.
THEOREM CoherenceInvariant == Spec => [](ProtocolInv /\ CpusOK)
<1>1. TypeOK /\ SystemInit => ProtocolInv /\ CpusOK
  BY Initially
<1>2. TypeOK /\ (ProtocolInv /\ CpusOK) /\ [Next]_vars => (ProtocolInv /\ CpusOK)'
  BY EachStep
<1> QED BY <1>1, <1>2, TypeCorrect, PTL DEF Spec

--------------------------------------------------------------------------------
(* Levels and presence bits.                                                *)

\* The levels of the agent states.
LEMMA LevelValues ==
  ASSUME NEW s \in AgentStates
  PROVE  /\ Level(s) \in 0..3
         /\ Level(s) >= 2 <=> s \in {"E", "EM", "M"}
         /\ Level(s) = 0 <=> s \in {"I", "IS", "IM"}
         /\ Level(s) = 3 <=> s = "M"
  BY DEF AgentStates, Level

\* A copy, or one about to arrive, is never forgotten by the directory, and one
\* that permits a write is the only one.
LEMMA DueKnown ==
  ASSUME ProtocolInv, NEW b \in Blocks, NEW n \in Procs
  PROVE  /\ Due(agent[n][b], Downs(b)[n]) # "I" => n \in entry[b].presence
         /\ Due(agent[n][b], Downs(b)[n]) \in {"E", "M"} => /\ entry[b].presence = {n}
                                                            /\ entry[b].state \in Sole
<1> DEFINE s == agent[n][b]
           D == Downs(b)[n]
           U == Ups(b)[n]
           e == entry[b]
<1>1. NodeOK(protocol, n, s, U, D, e) /\ EntryOK(protocol, e) /\ protocol \in Protocol
  BY NodeRight
<1> HIDE DEF s, D, U, e
<1>2. Due(s, D) # "I" => n \in e.presence
  BY <1>1 DEF NodeOK, Rests
<1>3. ASSUME Due(s, D) \in {"E", "M"}
      PROVE  e.presence = {n} /\ e.state \in Sole
  <2>1. n \in e.presence /\ HolderOK(n, s, U, D, e) /\ e.state \in DirStates
    BY <1>1, <1>2, <1>3, DirStatesSplit DEF NodeOK, EntryOK
  <2>2. e.state \in Sole
    BY <1>1, <1>3, <2>1 DEF HolderOK, Rests, GivesUp, Shares, Collected, Invalidated, LastOwner,
                            DirStates, Sole, EntryOK
  <2> QED BY <1>1, <2>1, <2>2 DEF EntryOK
<1> QED BY <1>2, <1>3 DEF s, D, e

\* What an agent has, it still has when its answer arrives.
LEMMA DueOfLevel ==
  ASSUME ProtocolInv, NEW b \in Blocks, NEW n \in Procs, agent[n][b] \in AgentStates
  PROVE  /\ Level(agent[n][b]) >= 1 => Due(agent[n][b], Downs(b)[n]) # "I"
         /\ Level(agent[n][b]) >= 2 => Due(agent[n][b], Downs(b)[n]) \in {"E", "M"}
<1> DEFINE s == agent[n][b]
           D == Downs(b)[n]
<1>1. RequestKind(protocol, n, s, Ups(b)[n], D, entry[b])
  BY NodeRight DEF NodeOK
<1> HIDE DEF s, D
<1>2. ASSUME Level(s) >= 1
      PROVE  Due(s, D) # "I"
  <2>1. s \in AgentStates \ {"I", "IS", "IM"}
    BY <1>2, LevelValues DEF s
  <2> QED BY <2>1 DEF Due, Copy, AgentStates
<1>3. ASSUME Level(s) >= 2
      PROVE  Due(s, D) \in {"E", "M"}
  <2>1. s \in {"E", "EM", "M"}
    BY <1>3, LevelValues DEF s
  <2> QED BY <1>1, <2>1 DEF Due, Copy, RequestKind
<1> QED BY <1>2, <1>3 DEF s, D

\* So the directory knows the holders.
LEMMA HolderKnown ==
  ASSUME ProtocolInv, NEW b \in Blocks, NEW n \in Procs, agent[n][b] \in AgentStates
  PROVE  /\ Level(agent[n][b]) >= 1 => n \in entry[b].presence
         /\ Level(agent[n][b]) >= 2 => entry[b].presence = {n} /\ entry[b].state \in Sole
  BY DueKnown, DueOfLevel

\* A writer's presence bit is the only one.
LEMMA OneWriter ==
  ASSUME TypeOK, ProtocolInv
  PROVE  SWMR
<1> SUFFICES ASSUME NEW b \in Blocks, NEW n \in Procs, NEW k \in Procs,
                    n # k, Level(agent[n][b]) >= 2
             PROVE  Level(agent[k][b]) = 0
  BY DEF SWMR
<1>1. agent[n][b] \in AgentStates /\ agent[k][b] \in AgentStates
  BY DEF TypeOK
<1>2. k \notin entry[b].presence
  BY <1>1, HolderKnown
<1>3. ~(Level(agent[k][b]) >= 1)
  BY <1>1, <1>2, HolderKnown
<1> QED BY <1>1, <1>3, LevelValues

\* Single writer or many readers, in all five protocols: the recalls and
\* invalidations that precede a grant have reached every other holder.
THEOREM SingleWriter == Spec => []SWMR
<1>1. TypeOK /\ (ProtocolInv /\ CpusOK) => SWMR
  BY OneWriter
<1> QED BY <1>1, CoherenceInvariant, TypeCorrect, PTL

\* No agent and no directory tick meets a pair of state and message that its
\* switch throws on, in any of the five protocols.
THEOREM NeverThrows == Spec => []NoThrow
<1>1. ProtocolInv /\ CpusOK => NoThrow
  BY DEF ProtocolInv, NoThrow
<1> QED BY <1>1, CoherenceInvariant, PTL

\* The presence bits cover every copy, active_sharers counts them through all
\* the increments and decrements of the handlers, and in the sharing states
\* nobody may write.
THEOREM PresenceIsSound == Spec => []PresenceSound
<1>1. TypeOK /\ (ProtocolInv /\ CpusOK) => PresenceSound
  <2> SUFFICES ASSUME TypeOK, ProtocolInv, NEW b \in Blocks
               PROVE  /\ entry[b].active_sharers = Cardinality(entry[b].presence)
                      /\ \A n \in Procs : Level(agent[n][b]) >= 1 => n \in entry[b].presence
                      /\ entry[b].state \in {"S", "SM", "O", "OO", "F", "FF"} =>
                           \A n \in Procs : Level(agent[n][b]) <= 1
    BY DEF PresenceSound
  <2>1. \A n \in Procs : agent[n][b] \in AgentStates
    BY DEF TypeOK
  <2>2. entry[b].active_sharers = Cardinality(entry[b].presence)
    BY DEF ProtocolInv, BlockOK, BlockIs, EntryOK
  <2>3. \A n \in Procs : Level(agent[n][b]) >= 1 => n \in entry[b].presence
    BY <2>1, HolderKnown
  <2>4. ASSUME NEW n \in Procs, entry[b].state \notin Sole
        PROVE  Level(agent[n][b]) <= 1
    <3>1. Level(agent[n][b]) \in 0..3 /\ ~(Level(agent[n][b]) >= 2)
      BY <2>1, <2>4, HolderKnown, LevelValues
    <3> QED BY <3>1
  <2>5. {"S", "SM", "O", "OO", "F", "FF"} \cap Sole = {}
    BY DEF Sole
  <2> QED BY <2>2, <2>3, <2>4, <2>5
<1> QED BY <1>1, CoherenceInvariant, TypeCorrect, PTL

--------------------------------------------------------------------------------
(* The refinement.                                                          *)

\* One agent's step shows as one level's change.
LEMMA LevelStep ==
  ASSUME TypeOK, NEW n \in Procs, NEW b \in Blocks, NEW t \in AgentStates,
         AgentGoes(n, b, t)
  PROVE  MemLevel' = [MemLevel EXCEPT ![n][b] = Level(t)]
<1>1. \A k \in Procs, c \in Blocks :
        agent'[k][c] = IF k = n /\ c = b THEN t ELSE agent[k][c]
  BY DEF TypeOK, AgentGoes
<1> DEFINE new == [MemLevel EXCEPT ![n][b] = Level(t)]
<1>2. \A k \in Procs, c \in Blocks :
        /\ k = n /\ c = b => MemLevel'[k][c] = Level(t)
        /\ ~(k = n /\ c = b) => MemLevel'[k][c] = MemLevel[k][c]
  BY <1>1 DEF MemLevel
<1>3. \A k \in Procs, c \in Blocks :
        /\ k = n /\ c = b => new[k][c] = Level(t)
        /\ ~(k = n /\ c = b) => new[k][c] = MemLevel[k][c]
  BY DEF MemLevel
<1>4. Level(t) \in 0..3 /\ MemLevel \in [Procs -> [Blocks -> 0..3]]
  BY LevelValues DEF TypeOK, MemLevel
<1>5. new \in [Procs -> [Blocks -> 0..3]]
  BY <1>4
<1>6. MemLevel' \in [Procs -> [Blocks -> 0..3]]
  <2>1. \A k \in Procs, c \in Blocks : MemLevel'[k][c] \in 0..3
    BY <1>2, <1>4
  <2>2. \A k \in Procs, c \in Blocks : Level(agent'[k][c]) \in 0..3
    BY <2>1 DEF MemLevel
  <2> QED BY <2>2 DEF MemLevel
<1>7. \A k \in Procs, c \in Blocks : MemLevel'[k][c] = new[k][c]
  BY <1>2, <1>3
<1> HIDE DEF new
<1>8. MemLevel' = new
  BY <1>5, <1>6, <1>7
<1> QED BY <1>8 DEF new

\* An answer of the abstract memory that raises the level to that of copy c.
LEMMA MemoryAnswers ==
  ASSUME TypeOK, ProtocolInv, NEW n \in Procs, NEW b \in Blocks,
         NEW c \in {"S", "E", "M", "O", "F"}, c = Due(agent[n][b], Downs(b)[n]),
         Level(c) >= Level(agent[n][b]),
         MemPending[n] \in Instrs, MemPending[n].block = b,
         MemPending[n].op = "STORE" => c = "M",
         MemLevel' = [MemLevel EXCEPT ![n][b] = Level(c)],
         MemPending' = [MemPending EXCEPT ![n] = NoReq]
  PROVE  Memory!Answer(n)
<1>1. MemPending[n] # NoReq /\ MemPending[n].op \in {"LOAD", "STORE"}
  BY DEF Instrs, NoReq
<1>2. c \in AgentStates /\ \A k \in Procs : agent[k][b] \in AgentStates
  BY DEF TypeOK, AgentStates
<1>3. Level(c) \in 1..3 /\ (c \in {"E", "M"} <=> Level(c) >= 2) /\ (c = "M" => Level(c) = 3)
  BY <1>2, LevelValues
<1>4. Level(c) >= Memory!Needed(MemPending[n].op)
  BY <1>1, <1>3 DEF Memory!Needed, Memory!Write, Memory!Shared
<1>5. ASSUME NEW k \in Procs \ {n}
      PROVE  Memory!Compatible(Level(c), MemLevel[k][b])
  <2> DEFINE l == Level(agent[k][b])
  <2>1. MemLevel[k][b] = l /\ l \in 0..3
    BY <1>2, LevelValues DEF MemLevel
  <2>2. n \in entry[b].presence /\ (c \in {"E", "M"} => entry[b].presence = {n})
    BY DueKnown
  <2>3. l >= 1 => k \in entry[b].presence
    BY <1>2, HolderKnown
  <2>4. l >= 2 => entry[b].presence = {k}
    BY <1>2, HolderKnown
  <2>5. ~(l >= 2) /\ (Level(c) >= 2 => ~(l >= 1))
    BY <1>3, <2>2, <2>3, <2>4
  <2> HIDE DEF l
  <2> QED BY <1>3, <2>1, <2>5 DEF Memory!Compatible, Memory!None, Memory!Shared
<1>6. Level(c) \in Memory!Levels
  BY <1>3 DEF Memory!Levels, Memory!None, Memory!Write
<1>7. Level(c) >= MemLevel[n][b]
  BY DEF MemLevel
<1>8. /\ MemLevel' = [MemLevel EXCEPT ![n][MemPending[n].block] = Level(c)]
      /\ Level(c) >= MemLevel[n][MemPending[n].block]
      /\ \A k \in Procs \ {n} : Memory!Compatible(Level(c), MemLevel[k][MemPending[n].block])
  BY <1>5, <1>7
<1> DEFINE l == Level(c)
<1> HIDE DEF l
<1>9. /\ l \in Memory!Levels /\ l >= MemLevel[n][MemPending[n].block]
      /\ l >= Memory!Needed(MemPending[n].op)
      /\ \A k \in Procs \ {n} : Memory!Compatible(l, MemLevel[k][MemPending[n].block])
      /\ MemLevel' = [MemLevel EXCEPT ![n][MemPending[n].block] = l]
  BY <1>4, <1>6, <1>8 DEF l
<1> QED BY <1>1, <1>9 DEF Memory!Answer, Memory!NoReq, NoReq

MemoryIdle == MemLevel' = MemLevel /\ MemPending' = MemPending

\* The CPU's step issues a request of the abstract memory or changes nothing of it.
LEMMA CpuTickMaps ==
  ASSUME TypeOK, CpusOK, NEW n \in Procs, CpuTick(n)
  PROVE  Memory!Issue(n) \/ MemoryIdle
<1>1. MemLevel' = MemLevel /\ ~cacheIn'[n]
  BY DEF CpuTick, MemLevel, TypeOK
<1>2. \A k \in Procs : k # n => req'[k] = req[k] /\ cacheIn'[k] = cacheIn[k]
  BY DEF CpuTick, TypeOK
<1>3. MemPending[n] = NoReq
  BY DEF CpuTick, MemPending
<1>4. MemPending' = [MemPending EXCEPT ![n] = req'[n]]
  BY <1>1, <1>2 DEF MemPending
<1>5. CASE left[n] = 0
  <2>1. req'[n] = NoReq
    BY <1>5 DEF CpuTick, TypeOK
  <2>2. MemPending' = MemPending
    BY <1>3, <1>4, <2>1 DEF MemPending
  <2> QED BY <1>1, <2>2 DEF MemoryIdle
<1>6. CASE left[n] # 0
  <2>1. req'[n] \in Instrs
    BY <1>6 DEF CpuTick, TypeOK
  <2>2. req'[n] \in Memory!Request
    BY <2>1 DEF Memory!Request, Instrs
  <2> QED BY <1>1, <1>3, <1>4, <2>2 DEF Memory!Issue, Memory!NoReq, NoReq, MemLevel, MemPending
<1> QED BY <1>5, <1>6

\* A hit answers the request; a miss changes nothing of the abstract memory.
LEMMA CacheProcMaps ==
  ASSUME TypeOK, ProtocolInv, CpusOK, NEW n \in Procs, CacheProc(n, ProcRows)
  PROVE  Memory!Answer(n) \/ MemoryIdle
<1> DEFINE b == cpuIn[n].block
           on == cpuIn[n].op
<1>1. /\ b \in Blocks /\ on \in {"LOAD", "STORE"} /\ NetworkTypes
      /\ req[n] \in Instrs /\ req[n].block = b /\ req[n].op = on /\ ~cacheIn[n]
      /\ agent[n][b] \in DirStable /\ UNCHANGED req
      /\ AgentStep(n, b, on, ProcRows)
  BY ProcStable, NetworkTyped DEF CacheProc
<1> HIDE DEF b, on
<1>2. CASE Hit(n, b, on)
  <2> DEFINE c == agent[n][b]
  <2>1. c \in {"S", "E", "M", "O", "F"} /\ (on = "STORE" => c = "M") /\ agent' = agent
        /\ cacheIn' = [cacheIn EXCEPT ![n] = TRUE]
    BY <1>2 DEF Hit, DirStable
  <2>2. c = Due(agent[n][b], Downs(b)[n])
    <3>1. ~Answered(Downs(b)[n])
      BY <1>1, NodeRight DEF NodeOK, RequestPlace
    <3> QED BY <2>1, <3>1 DEF Due, Answered, Copy
  <2>3. MemLevel' = [MemLevel EXCEPT ![n][b] = Level(c)]
    <3>1. MemLevel[n][b] = Level(c) /\ MemLevel' = MemLevel
      BY <1>1, <2>1 DEF MemLevel
    <3> HIDE DEF c
    <3> QED BY <1>1, <3>1 DEF MemLevel
  <2>4. MemPending' = [MemPending EXCEPT ![n] = NoReq]
    BY <1>1, <2>1 DEF MemPending, TypeOK
  <2>5. MemPending[n] \in Instrs /\ MemPending[n].block = b /\ MemPending[n].op = on
    BY <1>1 DEF MemPending
  <2>6. Level(c) >= Level(agent[n][b])
    <3>1. Level(c) \in 0..3
      BY <2>1, LevelValues DEF AgentStates
    <3> QED BY <3>1
  <2> HIDE DEF c
  <2> QED BY <1>1, <2>1, <2>2, <2>3, <2>4, <2>5, <2>6, MemoryAnswers
<1>3. ASSUME NEW k, NEW t, Miss(n, b, on, k, t)
      PROVE  MemoryIdle
  <2>1. cacheIn' = cacheIn /\ AgentGoes(n, b, t) /\ Level(t) = Level(agent[n][b])
    BY <1>3 DEF Miss, AskRow, Level
  <2>2. \A m \in Procs, c \in Blocks : Level(agent'[m][c]) = Level(agent[m][c])
    BY <1>1, <2>1, AgentChanges
  <2> QED BY <1>1, <2>1, <2>2 DEF MemLevel, MemPending, MemoryIdle
<1> QED BY <1>1, <1>2, <1>3, ProcAgent

\* The level after an answer permits what was asked.
LEMMA AnswerLevels ==
  ASSUME ProtocolInv, NEW n \in Procs, NEW b \in Blocks, NEW k, AnswerComes(n, b, k)
  PROVE  /\ Due(agent[n][b], {k}) \in {"S", "E", "M"}
         /\ Due(agent[n][b], {k}) = Due(agent[n][b], Downs(b)[n])
         /\ Level(Due(agent[n][b], {k})) >= Level(agent[n][b])
         /\ agent[n][b] # "IS" => Due(agent[n][b], {k}) = "M"
<1> DEFINE s == agent[n][b]
           D == Downs(b)[n]
<1>1. RequestKind(protocol, n, s, Ups(b)[n], D, entry[b]) /\ k \in AnsKinds /\ k \in D
  BY NodeRight DEF NodeOK, AnswerComes
<1> HIDE DEF s, D
<1>2. Due(s, {k}) = Due(s, D) /\ Due(s, {k}) \in {"S", "E", "M"} /\ (s # "IS" => Due(s, {k}) = "M")
  BY <1>1 DEF Due, AnsKinds, RequestKind
<1>3. Level(Due(s, {k})) >= Level(s)
  <2>1. s \in {"IS", "IM", "SM", "EM", "OM", "FM"}
    BY <1>1 DEF AnsKinds, RequestKind
  <2> QED BY <1>2, <2>1 DEF Level
<1> QED BY <1>2, <1>3 DEF s, D

\* A recall or invalidation never raises a level.
LEMMA ProbeLevels ==
  ASSUME NEW p, NEW s, NEW r, NEW k, NEW t, ProbeRow(p, s, r, k, t)
  PROVE  s \in AgentStates /\ t \in AgentStates /\ (Level(t) < Level(s) \/ Level(t) = Level(s))
  BY DEF ProbeRow, Level, AgentStates

\* An answer from the network answers the request; a recall or invalidation
\* surrenders the block or part of the access to it.
LEMMA CacheNtwkMaps ==
  ASSUME TypeOK, ProtocolInv, CpusOK, NEW n \in Procs, CacheNtwk(n, NtwkRows)
  PROVE  Memory!Answer(n) \/ Memory!Surrender(n) \/ MemoryIdle
<1>1. /\ TakenDown(n) /\ UNCHANGED <<req, resp>> /\ NetworkTypes
      /\ AgentStep(n, Head(toNode[n]).block, Head(toNode[n]).kind, NtwkRows)
  BY NetworkTyped DEF CacheNtwk, TakenDown
<1>2. PICK b \in Blocks : \/ \E k : AnswerComes(n, b, k)
                          \/ \E r, k, t : ProbeComes(n, b, r, k, t)
  BY <1>1, NtwkCases
<1>3. ASSUME NEW k, AnswerComes(n, b, k)
      PROVE  Memory!Answer(n)
  <2> DEFINE c == Due(agent[n][b], {k})
  <2>1. AgentGoes(n, b, c) /\ cacheIn' = [cacheIn EXCEPT ![n] = TRUE]
    BY <1>3 DEF AnswerComes, GetsAnswer
  <2>2. /\ c \in {"S", "E", "M"} /\ c = Due(agent[n][b], Downs(b)[n])
        /\ Level(c) >= Level(agent[n][b]) /\ (agent[n][b] # "IS" => c = "M")
    BY <1>3, AnswerLevels
  <2>3. /\ req[n] \in Instrs /\ req[n].block = b /\ ~cacheIn[n]
        /\ agent[n][b] = "IS" => req[n].op = "LOAD"
    <3>1. agent[n][b] \notin DirStable
      BY <1>1, <1>3, AnswerWaited
    <3> QED BY <3>1 DEF CpusOK, OneRequest, TypeOK
  <2> HIDE DEF c
  <2>4. c \in AgentStates
    BY <2>2 DEF AgentStates
  <2>5. MemLevel' = [MemLevel EXCEPT ![n][b] = Level(c)]
    BY <2>1, <2>4, LevelStep
  <2>6. MemPending' = [MemPending EXCEPT ![n] = NoReq]
    BY <1>1, <2>1 DEF MemPending, TypeOK
  <2>7. /\ MemPending[n] \in Instrs /\ MemPending[n].block = b
        /\ MemPending[n].op = "STORE" => c = "M"
    BY <2>2, <2>3 DEF MemPending
  <2> QED BY <2>2, <2>5, <2>6, <2>7, MemoryAnswers
<1>4. ASSUME NEW r, NEW k, NEW t, ProbeComes(n, b, r, k, t)
      PROVE  Memory!Surrender(n) \/ MemoryIdle
  <2>1. cacheIn' = cacheIn /\ AgentGoes(n, b, t)
        /\ ProbeRow(protocol, agent[n][b], r, k, t)
    BY <1>4 DEF ProbeComes, Yields
  <2>2. t \in AgentStates /\ agent[n][b] \in AgentStates
        /\ (Level(t) < Level(agent[n][b]) \/ Level(t) = Level(agent[n][b]))
    BY <2>1, ProbeLevels
  <2>3. MemPending' = MemPending
    BY <1>1, <2>1 DEF MemPending
  <2>4. MemLevel' = [MemLevel EXCEPT ![n][b] = Level(t)]
    BY <2>1, <2>2, LevelStep
  <2>5. CASE Level(t) < Level(agent[n][b])
    <3>1. Level(t) \in Memory!Levels /\ MemLevel[n][b] = Level(agent[n][b])
      BY <2>2, LevelValues DEF Memory!Levels, Memory!None, Memory!Write, MemLevel
    <3> QED BY <2>3, <2>4, <2>5, <3>1 DEF Memory!Surrender
  <2>6. CASE Level(t) = Level(agent[n][b])
    <3>1. \A m \in Procs, c \in Blocks : Level(agent'[m][c]) = Level(agent[m][c])
      BY <1>1, <2>1, <2>6, AgentChanges
    <3> QED BY <2>3, <3>1 DEF MemoryIdle, MemLevel
  <2> QED BY <2>2, <2>5, <2>6
<1> QED BY <1>2, <1>3, <1>4

\* All five protocols implement the memory without messages: every request is
\* answered at a level that permits it and that is compatible with what the
\* other processors may do at that moment, and no level rises in any other step.
THEOREM AllImplementMemory == Spec => ImplementsMemory
<1>1. SystemInit => Memory!Init
  BY DEF SystemInit, Init, Memory!Init, MemLevel, MemPending, Level, Memory!None, NoReq,
         Memory!NoReq
<1>2. TypeOK /\ (ProtocolInv /\ CpusOK) /\ [Next]_vars => [Memory!Next]_<<MemLevel, MemPending>>
  <2> SUFFICES ASSUME TypeOK, ProtocolInv, CpusOK, [Next]_vars
               PROVE  Memory!Next \/ MemoryIdle
    BY DEF MemoryIdle
  <2>1. ASSUME NEW n \in Procs, CpuTick(n)
        PROVE  Memory!Next \/ MemoryIdle
    BY <2>1, CpuTickMaps DEF Memory!Next
  <2>2. ASSUME NEW n \in Procs, CacheProc(n, ProcRows)
        PROVE  Memory!Next \/ MemoryIdle
    BY <2>2, CacheProcMaps DEF Memory!Next
  <2>3. ASSUME NEW n \in Procs, CacheNtwk(n, NtwkRows)
        PROVE  Memory!Next \/ MemoryIdle
    BY <2>3, CacheNtwkMaps DEF Memory!Next
  <2>4. CASE UNCHANGED <<req, cacheIn, agent>>
    <3>1. \A k \in Procs, c \in Blocks : Level(agent'[k][c]) = Level(agent[k][c])
      BY <2>4
    <3> QED BY <2>4, <3>1 DEF MemLevel, MemPending, MemoryIdle
  <2>5. \/ \E n \in Procs : CpuTick(n) \/ CacheProc(n, ProcRows) \/ CacheNtwk(n, NtwkRows)
        \/ UNCHANGED <<req, cacheIn, agent>>
    BY DEF Next, vars, DirArrive, DirTick, DirRespond, Finished
  <2> QED BY <2>1, <2>2, <2>3, <2>4, <2>5
<1> QED BY <1>1, <1>2, TypeCorrect, CoherenceInvariant, PTL DEF Spec, ImplementsMemory, Memory!Spec

--------------------------------------------------------------------------------
(* Where the messages are.                                                  *)

\* A message in a channel is in the view of its block.
LEMMA UpSeen ==
  ASSUME NetworkTypes, UpChannels, NEW n \in Procs, NEW z
  PROVE  /\ z \in In(toDir[n]) => z.src = n
         /\ z \in In(toDir[n]) \/ (z \in In(queue) /\ z.src = n) =>
              /\ z = Upward(n, z.block, z.kind) /\ z.block \in Blocks
              /\ z.kind \in UpKinds /\ z.kind \in Ups(z.block)[n]
<1>1. ASSUME z \in In(toDir[n])
      PROVE  z.src = n /\ z \in ToDirMsg
  <2>1. toDir[n] \in Seq(ToDirMsg)
    BY DEF NetworkTypes
  <2>2. z \in ToDirMsg
    BY <1>1, <2>1 DEF In
  <2> QED BY <1>1, <2>2 DEF UpChannels
<1>2. ASSUME z \in In(queue)
      PROVE  z \in ToDirMsg
  <2>1. queue \in Seq(ToDirMsg)
    BY DEF NetworkTypes
  <2> QED BY <1>2, <2>1 DEF In
<1>3. ASSUME z \in ToDirMsg, z.src = n
      PROVE  z = Upward(n, z.block, z.kind) /\ z.block \in Blocks /\ z.kind \in UpKinds
  BY <1>3 DEF ToDirMsg, Upward, UpKinds
<1> QED BY <1>1, <1>2, <1>3 DEF Ups

\* So is one on its way down.
LEMMA DownSeen ==
  ASSUME NetworkTypes, NEW n \in Procs, NEW z \in In(toNode[n])
  PROVE  /\ z = Downward(z.block, z.kind) /\ z.block \in Blocks
         /\ z.kind \in DownKinds /\ z.kind \in Downs(z.block)[n]
<1>1. z \in ToNodeMsg
  <2>1. toNode[n] \in Seq(ToNodeMsg)
    BY DEF NetworkTypes
  <2> QED BY <2>1 DEF In
<1>2. z = Downward(z.block, z.kind) /\ z.block \in Blocks /\ z.kind \in DownKinds
  BY <1>1 DEF ToNodeMsg, Downward, DownKinds
<1> QED BY <1>2 DEF Downs

\* A busy latch holds a response.
LEMMA LatchTypes ==
  ASSUME NetworkTypes, resp.busy
  PROVE  resp.target \in Procs /\ resp.block \in Blocks /\ resp.send_E \in BOOLEAN
<1>1. resp \in Latch
  BY DEF NetworkTypes, Idle
<1> QED BY <1>1 DEF Latch

\* And so is the latched answer.
LEMMA LatchSeen ==
  ASSUME NetworkTypes, NEW n \in Procs, resp.busy, resp.target = n
  PROVE  \E b \in Blocks, k \in AnsKinds : Latched(n, b, k) /\ k \in Downs(b)[n]
<1>1. resp.block \in Blocks /\ resp.send_E \in BOOLEAN
  BY LatchTypes
<1>2. PICK k \in AnsKinds : k = IF resp.send_E THEN "DATA_E" ELSE "DATA"
  BY DEF AnsKinds
<1>3. Latched(n, resp.block, k)
  BY <1>2 DEF Latched
<1> QED BY <1>1, <1>3, Kinds DEF Downs

\* An agent that does not wait has no request anywhere.
LEMMA NothingAsked ==
  ASSUME ProtocolInv, NEW n \in Procs, NEW b \in Blocks, agent[n][b] \in DirStable
  PROVE  ~Asks(Ups(b)[n]) /\ ~Taken(n, entry[b]) /\ ~Answered(Downs(b)[n])
  BY NodeRight DEF NodeOK, RequestPlace

--------------------------------------------------------------------------------
(* When all is done.                                                        *)

\* Without waiting agents, every node rests and the entry is stable.
LEMMA QuietBlock ==
  ASSUME TypeOK, ProtocolInv, NEW b \in Blocks, \A n \in Procs : agent[n][b] \in DirStable
  PROVE  /\ entry[b].state \in DirStable
         /\ \A n \in Procs : Ups(b)[n] = {} /\ Downs(b)[n] = {}
         /\ \A n \in Procs : IF n \in entry[b].presence
                             THEN HolderOK(n, agent[n][b], {}, {}, entry[b])
                             ELSE agent[n][b] = "I"
<1>1. entry[b].state \in DirStable
  <2>1. entry[b].req_node \in Procs
    BY DEF TypeOK, DirEntry
  <2> QED BY <2>1, NothingAsked DEF Taken
<1>2. ASSUME NEW n \in Procs
      PROVE  /\ Ups(b)[n] = {} /\ Downs(b)[n] = {}
             /\ IF n \in entry[b].presence
                THEN HolderOK(n, agent[n][b], {}, {}, entry[b])
                ELSE agent[n][b] = "I"
  <2> DEFINE U == Ups(b)[n]
             D == Downs(b)[n]
             s == agent[n][b]
             e == entry[b]
  <2>1. /\ NodeOK(protocol, n, s, U, D, e) /\ EntryOK(protocol, e)
        /\ s \in DirStable /\ e.state \in DirStable
        /\ ~Asks(U) /\ ~Answered(D)
        /\ U \subseteq UpKinds /\ D \subseteq DownKinds
    BY <1>1, NodeRight, NothingAsked DEF Ups, Downs
  <2> HIDE DEF U, D, s, e
  <2>2. ~Probed(D) /\ ~Replies(U)
    BY <2>1 DEF NodeOK, HolderOK, Rests, DirStable, EntryOK
  <2>3. U = {} /\ D = {}
    BY <2>1, <2>2 DEF Asks, Answered, Probed, Replies, UpKinds, DownKinds, AnsKinds, ProbeKinds,
                      ReqKinds
  <2>4. n \notin e.presence => s = "I"
    BY <2>1, <2>3 DEF NodeOK, Rests, Due, Copy, DirStable
  <2> QED BY <2>1, <2>3, <2>4 DEF NodeOK, U, D, s, e
<1> QED BY <1>1, <1>2

\* Then the block is settled.
LEMMA QuietSettled ==
  ASSUME TypeOK, ProtocolInv, NEW b \in Blocks, \A n \in Procs : agent[n][b] \in DirStable
  PROVE  Settled(b)
<1> DEFINE holders == {n \in Procs : Level(agent[n][b]) > 0}
           e == entry[b]
<1>1. /\ e.state \in DirStable /\ e.presence \subseteq Procs
      /\ \A n \in Procs : IF n \in e.presence
                          THEN HolderOK(n, agent[n][b], {}, {}, e)
                          ELSE agent[n][b] = "I"
  BY QuietBlock DEF TypeOK, DirEntry
<1>2. EntryOK(protocol, e)
  BY NodeRight, ProcsAreInts, NumProcsAssumption DEF ProtocolInv, BlockOK, BlockIs
<1>3. \A s \in DirStable : Due(s, {}) = s
  BY DEF DirStable, Due, Copy
<1>4. ASSUME NEW n \in e.presence
      PROVE  /\ e.state \in {"S", "E", "M"} => agent[n][b] = e.state
             /\ e.state \in {"O", "F"} => agent[n][b] = IF n = e.o_f_id THEN e.state ELSE "S"
  BY <1>1, <1>3 DEF HolderOK, Rests
<1>5. \A n \in Procs : Level(agent[n][b]) > 0 <=> n \in e.presence
  <2> TAKE n \in Procs
  <2>1. agent[n][b] \in DirStable /\ (agent[n][b] # "I" <=> Level(agent[n][b]) > 0)
    BY DEF DirStable, Level
  <2>2. n \in e.presence => agent[n][b] # "I"
    BY <1>1, <1>2, <1>4 DEF EntryOK, DirStable
  <2> QED BY <1>1, <2>1, <2>2
<1>6. e.presence = holders
  BY <1>1, <1>5
<1>7. e.state \in {"O", "F"} => e.o_f_id \in e.presence
  BY <1>2 DEF EntryOK, Owned
<1>8. /\ e.state = "I" => holders = {}
      /\ e.state = "S" => \A n \in holders : agent[n][b] = "S"
      /\ e.state \in {"O", "F"} => /\ agent[e.o_f_id][b] = e.state
                                   /\ \A n \in holders \ {e.o_f_id} : agent[n][b] = "S"
      /\ e.state \in {"E", "M"} => \A n \in holders : agent[n][b] = e.state
  BY <1>2, <1>4, <1>6, <1>7 DEF EntryOK
<1> HIDE DEF holders
<1> QED BY <1>1, <1>6, <1>8 DEF Settled, holders, DirStable

\* Channels without messages in any view are empty.
LEMMA QuietChannels ==
  ASSUME NetworkTypes, UpChannels,
         \A b \in Blocks, n \in Procs : Ups(b)[n] = {} /\ Downs(b)[n] = {}
  PROVE  /\ queue = <<>> /\ ~resp.busy
         /\ \A n \in Procs : toDir[n] = <<>> /\ toNode[n] = <<>>
<1>1. ASSUME NEW S, NEW s \in Seq(S), In(s) = {}
      PROVE  s = <<>>
  BY <1>1, TailIn
<1>2. ASSUME NEW n \in Procs
      PROVE  In(toDir[n]) = {} /\ In(toNode[n]) = {}
  BY UpSeen, DownSeen
<1>3. In(queue) = {}
  <2>1. \A z \in In(queue) : z.src \in Procs
    <3>1. queue \in Seq(ToDirMsg)
      BY DEF NetworkTypes
    <3>2. In(queue) \subseteq ToDirMsg
      BY <3>1 DEF In
    <3> QED BY <3>2 DEF ToDirMsg
  <2> QED BY <2>1, UpSeen
<1>4. ~resp.busy
  <2>1. resp.busy => resp.target \in Procs
    BY LatchTypes
  <2> QED BY <2>1, LatchSeen
<1> QED BY <1>1, <1>2, <1>3, <1>4 DEF NetworkTypes

\* When the last CPU is done nothing is in flight, no block is in transit, and
\* the directory knows exactly who holds what and who the owner or forwarder is.
THEOREM AllSettledWhenDone == Spec => []SettledWhenDone
<1>1. TypeOK /\ (ProtocolInv /\ CpusOK) => SettledWhenDone
  <2> SUFFICES ASSUME TypeOK, ProtocolInv, CpusOK, AllDone
               PROVE  /\ queue = <<>> /\ ~resp.busy
                      /\ \A n \in Procs : toDir[n] = <<>> /\ toNode[n] = <<>>
                      /\ \A b \in Blocks : Settled(b)
    BY DEF SettledWhenDone
  <2>1. \A n \in Procs, b \in Blocks : agent[n][b] \in DirStable
    BY DEF AllDone, CpuDone, CpusOK, OneRequest
  <2>2. \A b \in Blocks, n \in Procs : Ups(b)[n] = {} /\ Downs(b)[n] = {}
    BY <2>1, QuietBlock
  <2>3. NetworkTypes /\ UpChannels
    BY NetworkTyped DEF ProtocolInv
  <2> QED BY <2>1, <2>2, <2>3, QuietChannels, QuietSettled
<1> QED BY <1>1, TypeCorrect, CoherenceInvariant, PTL

--------------------------------------------------------------------------------
(* Requests.                                                                *)

\* A message that is in a channel at most once is counted as often as it is there.
LEMMA CountOnce ==
  ASSUME NEW s, NEW x, NEW D, NoDup(s),
         D \subseteq DOMAIN s, \A i \in DOMAIN s : i \in D <=> s[i] = x
  PROVE  Cardinality(D) = CountBool(x \in In(s))
<1>1. CASE x \in In(s)
  <2>1. PICK i \in DOMAIN s : s[i] = x
    BY <1>1 DEF In
  <2>2. D = {i}
    BY <2>1 DEF NoDup
  <2> QED BY <1>1, <2>2, FS_Singleton DEF CountBool
<1>2. CASE x \notin In(s)
  <2>1. D = {}
    BY <1>2 DEF In
  <2> QED BY <1>2, <2>1, FS_EmptySet DEF CountBool
<1> QED BY <1>1, <1>2

\* The places that Whereabouts counts.
AsksUp(n)     == {i \in DOMAIN toDir[n] : toDir[n][i].kind \in ReqKinds}
AsksQueued(n) == {i \in DOMAIN queue : queue[i].kind \in ReqKinds /\ queue[i].src = n}
AsksTaken(n)  == {b \in Blocks : entry[b].state \notin DirStable /\ entry[b].req_node = n}
AnswersTo(n)  == {i \in DOMAIN toNode[n] : toNode[n][i].kind \in AnsKinds}

\* Their numbers make up Whereabouts.
LEMMA CountedPlaces ==
  ASSUME NEW n
  PROVE  Whereabouts(n) = CountBool(cpuIn[n] # NoReq) + Cardinality(AsksUp(n))
                          + Cardinality(AsksQueued(n)) + Cardinality(AsksTaken(n))
                          + CountBool(resp.busy /\ resp.target = n)
                          + Cardinality(AnswersTo(n)) + CountBool(cacheIn[n])
  BY DEF Whereabouts, CountMsgs, AsksUp, AsksQueued, AsksTaken, AnswersTo

\* Nobody of n waits: its request, if there is one, is in one of its two slots.
LEMMA RequestAtHome ==
  ASSUME TypeOK, ProtocolInv, CpusOK, NEW n \in Procs, \A b \in Blocks : agent[n][b] \in DirStable
  PROVE  Whereabouts(n) = CountBool(req[n] # NoReq)
<1>1. \A b \in Blocks : ~Asks(Ups(b)[n]) /\ ~Taken(n, entry[b]) /\ ~Answered(Downs(b)[n])
  BY NothingAsked
<1>2. NetworkTypes /\ UpChannels
  BY NetworkTyped DEF ProtocolInv
<1>3. AsksUp(n) = {}
  <2>1. ASSUME NEW z \in In(toDir[n]), z.kind \in ReqKinds
        PROVE  FALSE
    BY <1>1, <1>2, <2>1, UpSeen DEF Asks, ReqKinds
  <2> QED BY <2>1 DEF AsksUp, In
<1>4. AsksQueued(n) = {}
  <2>1. ASSUME NEW z \in In(queue), z.src = n, z.kind \in ReqKinds
        PROVE  FALSE
    BY <1>1, <1>2, <2>1, UpSeen DEF Asks, ReqKinds
  <2> QED BY <2>1 DEF AsksQueued, In
<1>5. AsksTaken(n) = {}
  BY <1>1 DEF AsksTaken, Taken
<1>6. ~(resp.busy /\ resp.target = n)
  BY <1>1, <1>2, LatchSeen DEF Answered, AnsKinds
<1>7. AnswersTo(n) = {}
  <2>1. ASSUME NEW z \in In(toNode[n]), z.kind \in AnsKinds
        PROVE  FALSE
    BY <1>1, <1>2, <2>1, DownSeen DEF Answered, AnsKinds
  <2> QED BY <2>1 DEF AnswersTo, In
<1>8. /\ req[n] # NoReq <=> cpuIn[n] # NoReq \/ cacheIn[n]
      /\ ~(cpuIn[n] # NoReq /\ cacheIn[n])
  BY DEF CpusOK, OneRequest
<1>9. /\ CountBool(cpuIn[n] # NoReq) + CountBool(cacheIn[n]) = CountBool(req[n] # NoReq)
      /\ CountBool(cpuIn[n] # NoReq) \in Int /\ CountBool(cacheIn[n]) \in Int
      /\ CountBool(resp.busy /\ resp.target = n) = 0
  BY <1>6, <1>8 DEF CountBool
<1>10. Cardinality(AsksUp(n)) = 0 /\ Cardinality(AsksQueued(n)) = 0
       /\ Cardinality(AsksTaken(n)) = 0 /\ Cardinality(AnswersTo(n)) = 0
  BY <1>3, <1>4, <1>5, <1>7, FS_EmptySet
<1> QED BY <1>9, <1>10, CountedPlaces

\* The one request of a node about a block, and the one answer.
LEMMA OneKind ==
  ASSUME ProtocolInv, NEW n \in Procs, NEW b \in Blocks
  PROVE  /\ \E k \in ReqKinds : \A q \in ReqKinds : q \in Ups(b)[n] => q = k
         /\ \E k \in AnsKinds : \A q \in AnsKinds : q \in Downs(b)[n] => q = k
<1> DEFINE U == Ups(b)[n]
           D == Downs(b)[n]
<1>1. RequestKind(protocol, n, agent[n][b], U, D, entry[b])
  BY NodeRight DEF NodeOK
<1> HIDE DEF U, D
<1>2. \E k \in ReqKinds : \A q \in ReqKinds : q \in U => q = k
  BY <1>1 DEF RequestKind, ReqKinds
<1>3. \E k \in AnsKinds : \A q \in AnsKinds : q \in D => q = k
  BY <1>1 DEF RequestKind, AnsKinds
<1> QED BY <1>2, <1>3 DEF U, D

\* An agent of n waits for b: the request is in exactly one of the other places.
LEMMA RequestAbroad ==
  ASSUME TypeOK, ProtocolInv, CpusOK, NEW n \in Procs, NEW b \in Blocks,
         agent[n][b] \notin DirStable
  PROVE  Whereabouts(n) = CountBool(req[n] # NoReq)
<1>1. /\ req[n] # NoReq /\ cpuIn[n] = NoReq /\ ~cacheIn[n]
      /\ \A c \in Blocks : agent[n][c] \notin DirStable => c = b
  BY DEF CpusOK, OneRequest
<1>2. NetworkTypes /\ UpChannels /\ DownChannels
  BY NetworkTyped DEF ProtocolInv
<1>3. \A c \in Blocks : Asks(Ups(c)[n]) \/ Taken(n, entry[c]) \/ Answered(Downs(c)[n]) => c = b
  BY <1>1, NothingAsked
<1>4. PICK k \in ReqKinds : \A q \in ReqKinds : q \in Ups(b)[n] => q = k
  BY OneKind
<1>5. PICK a \in AnsKinds : \A q \in AnsKinds : q \in Downs(b)[n] => q = a
  BY OneKind
<1> DEFINE x == Upward(n, b, k)
           y == Downward(b, a)
<1>6. Cardinality(AsksUp(n)) = CountBool(x \in In(toDir[n]))
  <2>1. \A z \in In(toDir[n]) : z.kind \in ReqKinds => z = x
    BY <1>2, <1>3, <1>4, UpSeen DEF Asks, ReqKinds
  <2>2. x.kind \in ReqKinds
    BY DEF Upward
  <2> HIDE DEF x
  <2>3. \A i \in DOMAIN toDir[n] : i \in AsksUp(n) <=> toDir[n][i] = x
    BY <2>1, <2>2 DEF AsksUp, In
  <2>4. NoDup(toDir[n]) /\ AsksUp(n) \subseteq DOMAIN toDir[n]
    BY <1>2 DEF UpChannels, AsksUp
  <2> QED BY <2>3, <2>4, CountOnce
<1>7. Cardinality(AsksQueued(n)) = CountBool(x \in In(queue))
  <2>1. \A z \in In(queue) : z.kind \in ReqKinds /\ z.src = n => z = x
    BY <1>2, <1>3, <1>4, UpSeen DEF Asks, ReqKinds
  <2>2. x.kind \in ReqKinds /\ x.src = n
    BY DEF Upward
  <2> HIDE DEF x
  <2>3. \A i \in DOMAIN queue : i \in AsksQueued(n) <=> queue[i] = x
    BY <2>1, <2>2 DEF AsksQueued, In
  <2>4. NoDup(queue) /\ AsksQueued(n) \subseteq DOMAIN queue
    BY <1>2 DEF UpChannels, AsksQueued
  <2> QED BY <2>3, <2>4, CountOnce
<1>8. Cardinality(AsksTaken(n)) = CountBool(Taken(n, entry[b]))
  <2>1. \A c \in Blocks : c \in AsksTaken(n) <=> c = b /\ Taken(n, entry[b])
    BY <1>3 DEF Taken, AsksTaken
  <2>2. AsksTaken(n) = IF Taken(n, entry[b]) THEN {b} ELSE {}
    BY <2>1 DEF AsksTaken
  <2> QED BY <2>2, FS_EmptySet, FS_Singleton DEF CountBool
<1>9. CountBool(resp.busy /\ resp.target = n) = CountBool(Latched(n, b, a))
  <2>1. resp.busy /\ resp.target = n => Latched(n, b, a)
    BY <1>2, <1>3, <1>5, LatchSeen DEF Answered, AnsKinds
  <2> QED BY <2>1 DEF Latched, CountBool
<1>10. Cardinality(AnswersTo(n)) = CountBool(y \in In(toNode[n]))
  <2>1. \A z \in In(toNode[n]) : z.kind \in AnsKinds => z = y
    BY <1>2, <1>3, <1>5, DownSeen DEF Answered, AnsKinds
  <2>2. y.kind \in AnsKinds
    BY DEF Downward
  <2> HIDE DEF y
  <2>3. \A i \in DOMAIN toNode[n] : i \in AnswersTo(n) <=> toNode[n][i] = y
    BY <2>1, <2>2 DEF AnswersTo, In
  <2>4. NoDup(toNode[n]) /\ AnswersTo(n) \subseteq DOMAIN toNode[n]
    BY <1>2 DEF DownChannels, AnswersTo
  <2> QED BY <2>3, <2>4, CountOnce
<1>11. /\ x \in In(toDir[n]) \/ x \in In(queue) <=> Asks(Ups(b)[n])
       /\ ~(x \in In(toDir[n]) /\ x \in In(queue))
  <2>1. k \in Ups(b)[n] <=> x \in In(toDir[n]) \/ x \in In(queue)
    BY Kinds DEF Ups
  <2>2. k \in Ups(b)[n] <=> Asks(Ups(b)[n])
    BY <1>4 DEF Asks, ReqKinds
  <2> QED BY <1>2, <2>1, <2>2 DEF UpChannels
<1>12. /\ y \in In(toNode[n]) \/ Latched(n, b, a) <=> Answered(Downs(b)[n])
       /\ ~(y \in In(toNode[n]) /\ Latched(n, b, a))
  <2>1. a \in Downs(b)[n] <=> y \in In(toNode[n]) \/ Latched(n, b, a)
    BY Kinds DEF Downs
  <2>2. a \in Downs(b)[n] <=> Answered(Downs(b)[n])
    BY <1>5 DEF Answered, AnsKinds
  <2> QED BY <1>2, <2>1, <2>2, Kinds DEF DownChannels
<1>13. RequestPlace(n, agent[n][b], Ups(b)[n], Downs(b)[n], entry[b])
  BY NodeRight DEF NodeOK
<1> DEFINE p1 == x \in In(toDir[n])
           p2 == x \in In(queue)
           p3 == Taken(n, entry[b])
           p4 == Latched(n, b, a)
           p5 == y \in In(toNode[n])
<1>14. /\ p1 \/ p2 \/ p3 \/ p4 \/ p5
       /\ p1 => ~p2 /\ ~p3 /\ ~p4 /\ ~p5
       /\ p2 => ~p3 /\ ~p4 /\ ~p5
       /\ p3 => ~p4 /\ ~p5
       /\ p4 => ~p5
  BY <1>11, <1>12, <1>13 DEF RequestPlace
<1>15. CountBool(p1) + CountBool(p2) + CountBool(p3) + CountBool(p4) + CountBool(p5) = 1
  <2> HIDE DEF p1, p2, p3, p4, p5
  <2> QED BY <1>14 DEF CountBool
<1>16. /\ CountBool(p1) \in Int /\ CountBool(p2) \in Int /\ CountBool(p3) \in Int
       /\ CountBool(p4) \in Int /\ CountBool(p5) \in Int
  BY DEF CountBool
<1>17. CountBool(cpuIn[n] # NoReq) = 0 /\ CountBool(cacheIn[n]) = 0 /\ CountBool(req[n] # NoReq) = 1
  BY <1>1 DEF CountBool
<1> QED BY <1>6, <1>7, <1>8, <1>9, <1>10, <1>15, <1>16, <1>17, CountedPlaces

\* A request is in exactly one place until its CPU has the answer, in all five
\* protocols: it is never lost in the cycled queue, and never answered twice.
THEOREM RequestsConserved == Spec => []RequestConserved
<1>1. TypeOK /\ (ProtocolInv /\ CpusOK) => RequestConserved
  BY RequestAtHome, RequestAbroad DEF RequestConserved
<1> QED BY <1>1, TypeCorrect, CoherenceInvariant, PTL

--------------------------------------------------------------------------------
(* Invalidations, recalls and their answers.                                *)

\* The nodes that have a message of the kinds about b in their channel, and
\* those whose message waits in the queue.
SomeIn(s, b, kinds)      == \E z \in In(s) : z.kind \in kinds /\ z.block = b
NodesWith(chan, b, kinds) == {n \in Procs : SomeIn(chan[n], b, kinds)}
NodesQueued(b, kinds) ==
  {n \in Procs : \E z \in In(queue) : z.kind \in kinds /\ z.block = b /\ z.src = n}

\* The positions that InFlightFor counts.
Matches(s, b, kinds)       == {j \in DOMAIN s : s[j].kind \in kinds /\ s[j].block = b}
PlacesWith(chan, b, kinds) == UNION {{<<n, i>> : i \in Matches(chan[n], b, kinds)} : n \in Procs}

\* In-flight messages are those in the two channels and in the queue.
LEMMA InFlightPlaces ==
  ASSUME NEW b, NEW K, NEW L
  PROVE  InFlightFor(b, K, L) = Cardinality(PlacesWith(toNode, b, K))
                                + Cardinality(PlacesWith(toDir, b, L))
                                + Cardinality(Matches(queue, b, L))
  BY DEF InFlightFor, CountMsgs, PlacesWith, Matches

\* Sets of nodes are finite.
LEMMA NodesFinite ==
  ASSUME NEW S \in SUBSET Procs
  PROVE  IsFiniteSet(S) /\ Cardinality(S) \in Nat
<1>1. IsFiniteSet(Procs)
  BY ProcsAreInts, FS_Interval DEF Procs
<1> QED BY <1>1, FS_Subset, FS_CardinalityType

\* If every channel has one such message at most, there are as many as nodes
\* that have one.
LEMMA CountNodes ==
  ASSUME NEW chan, NEW b, NEW K,
         \A n \in Procs : \A i, j \in Matches(chan[n], b, K) : i = j
  PROVE  Cardinality(PlacesWith(chan, b, K)) = Cardinality(NodesWith(chan, b, K))
<1> DEFINE N == NodesWith(chan, b, K)
           P == PlacesWith(chan, b, K)
           f == [n \in N |-> <<n, CHOOSE i \in Matches(chan[n], b, K) : TRUE>>]
<1>1. ASSUME NEW n \in N
      PROVE  \E i \in Matches(chan[n], b, K) : f[n] = <<n, i>>
  <2>1. \E i : i \in Matches(chan[n], b, K)
    BY DEF NodesWith, SomeIn, In, Matches
  <2> QED BY <2>1
<1>2. \A p \in P : \E n \in Procs : \E i \in Matches(chan[n], b, K) : p = <<n, i>>
  BY DEF PlacesWith
<1>3. \A n \in Procs : \A i \in Matches(chan[n], b, K) : <<n, i>> \in P
  BY DEF PlacesWith
<1>4. \A n \in Procs : \A i \in Matches(chan[n], b, K) : n \in N
  BY DEF Matches, NodesWith, SomeIn, In
<1>5. \A n \in N : n \in Procs
  BY DEF NodesWith
<1>6. DOMAIN f = N
  OBVIOUS
<1> HIDE DEF N, P, f
<1>7. f \in [N -> P]
  <2>1. ASSUME NEW n \in N
        PROVE  f[n] \in P
    <3>1. PICK i \in Matches(chan[n], b, K) : f[n] = <<n, i>>
      BY <1>1
    <3>2. <<n, i>> \in P
      BY <1>3, <1>5
    <3> QED BY <3>1, <3>2
  <2>2. f = [n \in N |-> f[n]]
    BY DEF f
  <2> QED BY <2>1, <2>2
<1>8. \A n, m \in N : f[n] = f[m] => n = m
  BY <1>1
<1>9. \A p \in P : \E n \in N : f[n] = p
  <2> TAKE p \in P
  <2>1. PICK n \in Procs : \E i \in Matches(chan[n], b, K) : p = <<n, i>>
    BY <1>2
  <2>2. n \in N
    BY <1>4, <2>1
  <2>3. f[n] = p
    BY <1>1, <2>1, <2>2
  <2> QED BY <2>2, <2>3
<1>10. f \in Bijection(N, P)
  BY <1>6, <1>7, <1>8, <1>9 DEF Bijection, Injection, Surjection, IsInjective
<1>11. ExistsBijection(N, P)
  BY <1>10 DEF ExistsBijection
<1>12. IsFiniteSet(N)
  BY <1>5, NodesFinite
<1> QED BY <1>11, <1>12, FS_Bijection DEF N, P

\* So it is with the queue, where every message names its node.
LEMMA CountQueued ==
  ASSUME NEW b, NEW K, \A i \in DOMAIN queue : queue[i].src \in Procs,
         \A i, j \in Matches(queue, b, K) : queue[i].src = queue[j].src => i = j
  PROVE  Cardinality(Matches(queue, b, K)) = Cardinality(NodesQueued(b, K))
<1> DEFINE N == NodesQueued(b, K)
           P == Matches(queue, b, K)
           f == [n \in N |-> CHOOSE i \in P : queue[i].src = n]
<1>1. ASSUME NEW n \in N
      PROVE  f[n] \in P /\ queue[f[n]].src = n
  <2>1. \E i \in P : queue[i].src = n
    BY DEF NodesQueued, In, Matches
  <2> HIDE DEF N, P
  <2> QED BY <2>1
<1>2. \A i \in P : queue[i].src \in N
  BY DEF Matches, NodesQueued, In
<1>3. \A n \in N : n \in Procs
  BY DEF NodesQueued
<1>4. DOMAIN f = N /\ f = [n \in N |-> f[n]]
  OBVIOUS
<1>5. \A i, j \in P : queue[i].src = queue[j].src => i = j
  OBVIOUS
<1> HIDE DEF N, P, f
<1>6. f \in [N -> P]
  BY <1>1, <1>4
<1>7. \A n, m \in N : f[n] = f[m] => n = m
  BY <1>1
<1>8. \A p \in P : \E n \in N : f[n] = p
  BY <1>1, <1>2, <1>5
<1>9. f \in Bijection(N, P)
  BY <1>4, <1>6, <1>7, <1>8 DEF Bijection, Injection, Surjection, IsInjective
<1>10. ExistsBijection(N, P)
  BY <1>9 DEF ExistsBijection
<1>11. IsFiniteSet(N)
  BY <1>3, NodesFinite
<1> QED BY <1>10, <1>11, FS_Bijection DEF N, P

\* Three sets of nodes that do not meet are counted one by one.
LEMMA CountApart ==
  ASSUME NEW A \in SUBSET Procs, NEW B \in SUBSET Procs, NEW C \in SUBSET Procs,
         A \cap B = {}, A \cap C = {}, B \cap C = {}
  PROVE  Cardinality(A \cup B \cup C) = Cardinality(A) + Cardinality(B) + Cardinality(C)
<1>1. /\ IsFiniteSet(A) /\ IsFiniteSet(B) /\ IsFiniteSet(C) /\ IsFiniteSet(A \cup B)
      /\ Cardinality(A) \in Nat /\ Cardinality(B) \in Nat /\ Cardinality(C) \in Nat
  BY NodesFinite
<1>2. Cardinality({}) = 0
  BY FS_EmptySet
<1>3. Cardinality(A \cup B) = Cardinality(A) + Cardinality(B)
  <2>1. Cardinality(A \cup B) = Cardinality(A) + Cardinality(B) - Cardinality(A \cap B)
    BY <1>1, FS_Union
  <2> QED BY <1>1, <1>2, <2>1
<1>4. Cardinality((A \cup B) \cap C) = 0
  <2>1. (A \cup B) \cap C = {}
    OBVIOUS
  <2> QED BY <1>2, <2>1
<1>5. Cardinality((A \cup B) \cup C)
        = Cardinality(A \cup B) + Cardinality(C) - Cardinality((A \cup B) \cap C)
  BY <1>1, FS_Union
<1>6. Cardinality((A \cup B) \cup C) = Cardinality(A) + Cardinality(B) + Cardinality(C)
  BY <1>1, <1>3, <1>4, <1>5
<1> QED BY <1>6

\* The kinds K on the way down and L on the way up are there once per node.
Carries(D, U, K, L) == (\E k \in K : k \in D) \/ (\E k \in L : k \in U)
AtMostOne(D, U, K, L) ==
  /\ \A k, q \in K : k \in D /\ q \in D => k = q
  /\ \A k, q \in L : k \in U /\ q \in U => k = q
  /\ ~((\E k \in K : k \in D) /\ (\E k \in L : k \in U))
CarriersOf(b, K, L) == {n \in Procs : Carries(Downs(b)[n], Ups(b)[n], K, L)}

\* Then as many messages are in flight as nodes have one.
LEMMA InFlightCount ==
  ASSUME NetworkTypes, UpChannels, DownChannels, NEW b \in Blocks,
         NEW K \in SUBSET ProbeKinds, NEW L \in SUBSET UpKinds,
         \A n \in Procs : AtMostOne(Downs(b)[n], Ups(b)[n], K, L)
  PROVE  InFlightFor(b, K, L) = Cardinality(CarriersOf(b, K, L))
<1> DEFINE A == NodesWith(toNode, b, K)
           B == NodesWith(toDir, b, L)
           C == NodesQueued(b, L)
<1>1. ASSUME NEW n \in Procs
      PROVE  /\ n \in A <=> \E k \in K : k \in Downs(b)[n]
             /\ \A i, j \in Matches(toNode[n], b, K) : i = j
  <2>1. \A z \in In(toNode[n]) : z = Downward(z.block, z.kind) /\ z.kind \in Downs(z.block)[n]
    BY DownSeen
  <2>2. \A k \in K : k \in Downs(b)[n] => Downward(b, k) \in In(toNode[n])
    BY DEF Downs, Latched, ProbeKinds
  <2>3. \A k : Downward(b, k).kind = k /\ Downward(b, k).block = b
    BY DEF Downward
  <2>4. n \in A <=> \E k \in K : k \in Downs(b)[n]
    BY <2>1, <2>2, <2>3 DEF NodesWith, SomeIn
  <2>5. ASSUME NEW i \in Matches(toNode[n], b, K), NEW j \in Matches(toNode[n], b, K)
        PROVE  i = j
    <3>1. /\ i \in DOMAIN toNode[n] /\ toNode[n][i] \in In(toNode[n])
          /\ toNode[n][i].kind \in K /\ toNode[n][i].block = b
          /\ j \in DOMAIN toNode[n] /\ toNode[n][j] \in In(toNode[n])
          /\ toNode[n][j].kind \in K /\ toNode[n][j].block = b
      BY DEF Matches, In
    <3>2. toNode[n][i].kind = toNode[n][j].kind
      BY <2>1, <3>1 DEF AtMostOne
    <3>3. toNode[n][i] = toNode[n][j]
      BY <2>1, <3>1, <3>2
    <3> QED BY <3>1, <3>3 DEF DownChannels, NoDup
  <2> QED BY <2>4, <2>5
<1>2. ASSUME NEW n \in Procs
      PROVE  /\ n \in B \/ n \in C <=> \E k \in L : k \in Ups(b)[n]
             /\ ~(n \in B /\ n \in C)
             /\ \A i, j \in Matches(toDir[n], b, L) : i = j
             /\ \A i, j \in Matches(queue, b, L) :
                  queue[i].src = n /\ queue[j].src = n => i = j
  <2>1. /\ \A z \in In(toDir[n]) : z = Upward(n, z.block, z.kind) /\ z.kind \in Ups(z.block)[n]
        /\ \A z \in In(queue) : z.src = n =>
             z = Upward(n, z.block, z.kind) /\ z.kind \in Ups(z.block)[n]
    BY UpSeen
  <2>2. \A k \in L : k \in Ups(b)[n] =>
          Upward(n, b, k) \in In(toDir[n]) \/ Upward(n, b, k) \in In(queue)
    BY DEF Ups
  <2>3. \A k : Upward(n, b, k).kind = k /\ Upward(n, b, k).block = b /\ Upward(n, b, k).src = n
    BY DEF Upward
  <2>4. n \in B \/ n \in C <=> \E k \in L : k \in Ups(b)[n]
    BY <2>1, <2>2, <2>3 DEF NodesWith, SomeIn, NodesQueued
  <2>5. \A k, q \in L : k \in Ups(b)[n] /\ q \in Ups(b)[n] => k = q
    BY DEF AtMostOne
  <2>6. ~(n \in B /\ n \in C)
    <3>1. SUFFICES ASSUME n \in B, n \in C
                   PROVE  FALSE
      OBVIOUS
    <3>2. PICK z \in In(toDir[n]) : z.kind \in L /\ z.block = b
      BY <3>1 DEF NodesWith, SomeIn
    <3>3. PICK y \in In(queue) : y.kind \in L /\ y.block = b /\ y.src = n
      BY <3>1 DEF NodesQueued
    <3>4. z = y
      BY <2>1, <2>5, <3>2, <3>3
    <3> QED BY <3>4 DEF UpChannels
  <2>7. ASSUME NEW i \in Matches(toDir[n], b, L), NEW j \in Matches(toDir[n], b, L)
        PROVE  i = j
    <3>1. /\ i \in DOMAIN toDir[n] /\ toDir[n][i] \in In(toDir[n])
          /\ toDir[n][i].kind \in L /\ toDir[n][i].block = b
          /\ j \in DOMAIN toDir[n] /\ toDir[n][j] \in In(toDir[n])
          /\ toDir[n][j].kind \in L /\ toDir[n][j].block = b
      BY DEF Matches, In
    <3>2. toDir[n][i] = toDir[n][j]
      BY <2>1, <2>5, <3>1
    <3> QED BY <3>1, <3>2 DEF UpChannels, NoDup
  <2>8. ASSUME NEW i \in Matches(queue, b, L), NEW j \in Matches(queue, b, L),
               queue[i].src = n, queue[j].src = n
        PROVE  i = j
    <3>1. /\ i \in DOMAIN queue /\ queue[i] \in In(queue)
          /\ queue[i].kind \in L /\ queue[i].block = b
          /\ j \in DOMAIN queue /\ queue[j] \in In(queue)
          /\ queue[j].kind \in L /\ queue[j].block = b
      BY DEF Matches, In
    <3>2. queue[i] = queue[j]
      BY <2>1, <2>5, <2>8, <3>1
    <3> QED BY <3>1, <3>2 DEF UpChannels, NoDup
  <2> QED BY <2>4, <2>6, <2>7, <2>8
<1>3. /\ A \in SUBSET Procs /\ B \in SUBSET Procs /\ C \in SUBSET Procs
  BY DEF NodesWith, NodesQueued
<1>4. \A i \in DOMAIN queue : queue[i].src \in Procs
  <2>1. queue \in Seq(ToDirMsg)
    BY DEF NetworkTypes
  <2>2. \A i \in DOMAIN queue : queue[i] \in ToDirMsg
    BY <2>1
  <2> QED BY <2>2 DEF ToDirMsg
<1>5. Cardinality(PlacesWith(toNode, b, K)) = Cardinality(A)
  <2>1. \A n \in Procs : \A i, j \in Matches(toNode[n], b, K) : i = j
    BY <1>1
  <2> QED BY <2>1, CountNodes
<1>6. Cardinality(PlacesWith(toDir, b, L)) = Cardinality(B)
  <2>1. \A n \in Procs : \A i, j \in Matches(toDir[n], b, L) : i = j
    BY <1>2
  <2> QED BY <2>1, CountNodes
<1>7. Cardinality(Matches(queue, b, L)) = Cardinality(C)
  <2>1. ASSUME NEW i \in Matches(queue, b, L), NEW j \in Matches(queue, b, L),
               queue[i].src = queue[j].src
        PROVE  i = j
    <3>1. queue[i].src \in Procs
      BY <1>4 DEF Matches
    <3> QED BY <1>2, <2>1, <3>1
  <2> QED BY <1>4, <2>1, CountQueued
<1> HIDE DEF A, B, C
<1>8. A \cap B = {} /\ A \cap C = {} /\ B \cap C = {}
  BY <1>1, <1>2, <1>3 DEF AtMostOne
<1>9. A \cup B \cup C = CarriersOf(b, K, L)
  BY <1>1, <1>2, <1>3 DEF CarriersOf, Carries
<1>10. Cardinality(A \cup B \cup C) = Cardinality(A) + Cardinality(B) + Cardinality(C)
  BY <1>3, <1>8, CountApart
<1> QED BY <1>5, <1>6, <1>7, <1>9, <1>10, InFlightPlaces

\* Invalidations and acknowledgements, and recalls and recalled lines, are such.
LEMMA OnePerNode ==
  ASSUME ProtocolInv, NEW b \in Blocks, NEW n \in Procs
  PROVE  /\ AtMostOne(Downs(b)[n], Ups(b)[n], {"REQ_INVALID"}, {"INVACK"})
         /\ AtMostOne(Downs(b)[n], Ups(b)[n], {"RECALL_GOTO_I", "RECALL_GOTO_S"}, {"DATA"})
<1> DEFINE D == Downs(b)[n]
           U == Ups(b)[n]
<1>1. /\ NodeOK(protocol, n, agent[n][b], U, D, entry[b])
      /\ EntryOK(protocol, entry[b]) /\ protocol \in Protocol
  BY NodeRight
<1>2. \A r \in ProbeKinds : r \in D => ~Replies(U) /\ \A q \in ProbeKinds : q \in D => q = r
  <2> HIDE DEF U, D
  <2> QED BY <1>1, ProbeMeets
<1> HIDE DEF U, D
<1>3. AtMostOne(D, U, {"REQ_INVALID"}, {"INVACK"})
  BY <1>2 DEF AtMostOne, Replies, ProbeKinds
<1>4. AtMostOne(D, U, {"RECALL_GOTO_I", "RECALL_GOTO_S"}, {"DATA"})
  BY <1>2 DEF AtMostOne, Replies, ProbeKinds
<1> QED BY <1>3, <1>4 DEF U, D

\* Which node gives a recalled line, and which acknowledges, the entry says.
Giving(U, D)  == Carries(D, U, {"RECALL_GOTO_I", "RECALL_GOTO_S"}, {"DATA"})
Acking(U, D)  == Carries(D, U, {"REQ_INVALID"}, {"INVACK"})
Recalled(n, e) == /\ n \in e.presence /\ e.state \notin DirStable \cup {"SM"}
                  /\ e.state \in {"OO", "FF", "OM", "FM"} => n = e.o_f_id
                  /\ e.state \in {"OM", "FM"} => ~(e.inv_ack_waiting > 0)

\* For each single node.
LEMMA RecallSeen ==
  ASSUME NEW p, NEW n, NEW s, NEW U, NEW D, NEW e, NodeOK(p, n, s, U, D, e), EntryOK(p, e),
         e.state \in DirStates
  PROVE  /\ Giving(U, D) <=> Recalled(n, e)
         /\ Acking(U, D) => e.state \in {"SM", "OM", "FM"}
<1>1. \A c : Rests(s, U, D, c) => ~Giving(U, D) /\ ~Acking(U, D)
  BY DEF Rests, Probed, Replies, Giving, Acking, Carries
<1>2. /\ \A c : GivesUp(s, U, D, c) => Giving(U, D) /\ ~Acking(U, D)
      /\ \A c, d : Shares(s, U, D, c, d) => Giving(U, D) /\ ~Acking(U, D)
  BY DEF GivesUp, Shares, Probed, Replies, Giving, Acking, Carries
<1>3. Collected(n, s, U, D, e) => ~Giving(U, D)
  BY <1>1 DEF Collected, Invalidated, Probed, Replies, Giving, Carries
<1>4. \A c : LastOwner(s, U, D, e, c) => (Giving(U, D) <=> ~(e.inv_ack_waiting > 0))
  BY <1>1, <1>2 DEF LastOwner
<1>5. CASE n \notin e.presence
  BY <1>1, <1>5 DEF NodeOK, Recalled
<1>6. CASE n \in e.presence
  <2>1. HolderOK(n, s, U, D, e)
    BY <1>6 DEF NodeOK
  <2>2. CASE e.state \in DirStable
    <3>1. \E c : Rests(s, U, D, c)
      BY <1>6, <2>1, <2>2 DEF HolderOK, DirStable, EntryOK
    <3> QED BY <1>1, <2>2, <3>1 DEF Recalled
  <2>3. CASE e.state \in {"MM", "EM", "MS", "ES", "MO", "EF"}
    <3>1. Giving(U, D) /\ ~Acking(U, D)
      BY <1>2, <2>1, <2>3 DEF HolderOK
    <3> QED BY <1>6, <2>3, <3>1 DEF Recalled, DirStable
  <2>4. CASE e.state \in {"OO", "FF"}
    <3>1. (Giving(U, D) <=> n = e.o_f_id) /\ ~Acking(U, D)
      BY <1>1, <1>2, <2>1, <2>4 DEF HolderOK
    <3> QED BY <1>6, <2>4, <3>1 DEF Recalled, DirStable
  <2>5. CASE e.state = "SM"
    BY <1>3, <2>1, <2>5 DEF HolderOK, Recalled
  <2>6. CASE e.state \in {"OM", "FM"}
    <3>1. Giving(U, D) <=> n = e.o_f_id /\ ~(e.inv_ack_waiting > 0)
      BY <1>3, <1>4, <2>1, <2>6 DEF HolderOK
    <3> QED BY <1>6, <2>6, <3>1 DEF Recalled, DirStable
  <2> QED BY <2>2, <2>3, <2>4, <2>5, <2>6 DEF DirStates, DirStable
<1> QED BY <1>5, <1>6

\* One node is recalled from in a block in transit, once the acknowledgements
\* are in.
LEMMA RecalledOne ==
  ASSUME NEW p, NEW ag, NEW U, NEW D, NEW e, BlockIs(p, ag, U, D, e)
  PROVE  Cardinality({n \in Procs : Recalled(n, e)})
           = CountBool(e.state \notin DirStable \cup {"SM"} /\ e.inv_ack_waiting = 0)
<1> DEFINE R == {n \in Procs : Recalled(n, e)}
<1>1. /\ e \in DirEntry /\ EntryOK(p, e) /\ e.inv_ack_waiting = Cardinality(AckSet(U, D))
      /\ \A n \in Procs : NodeOK(p, n, ag[n], U[n], D[n], e)
      /\ e.state \in DirStates /\ e.presence \subseteq Procs
  BY DEF BlockIs, DirEntry
<1>2. e.inv_ack_waiting \in Nat
  <2>1. AckSet(U, D) \in SUBSET Procs
    BY DEF AckSet
  <2> QED BY <1>1, <2>1, NodesFinite
<1>3. CASE e.state \in DirStable \cup {"SM"}
  <2>1. R = {}
    BY <1>3 DEF Recalled
  <2> HIDE DEF R
  <2>2. Cardinality(R) = 0
    BY <2>1, FS_EmptySet
  <2> QED BY <1>3, <2>2 DEF R, CountBool
<1>4. CASE e.state \in {"OM", "FM"} /\ e.inv_ack_waiting > 0
  <2>1. R = {}
    BY <1>4 DEF Recalled
  <2> HIDE DEF R
  <2>2. Cardinality(R) = 0 /\ ~(e.inv_ack_waiting = 0)
    BY <1>2, <1>4, <2>1, FS_EmptySet
  <2> QED BY <2>2 DEF R, CountBool
<1>5. CASE /\ e.state \notin DirStable \cup {"SM"}
           /\ ~(e.state \in {"OM", "FM"} /\ e.inv_ack_waiting > 0)
  <2>1. e.inv_ack_waiting = 0
    <3>1. CASE e.state \in {"OM", "FM"}
      BY <1>2, <1>5, <3>1
    <3>2. CASE e.state \notin {"OM", "FM"}
      <4>1. \A n \in Procs : ~Acking(U[n], D[n])
        BY <1>1, <1>5, <3>2, RecallSeen
      <4>2. AckSet(U, D) = {}
        BY <4>1 DEF AckSet, Acking, Carries
      <4> QED BY <1>1, <4>2, FS_EmptySet
    <3> QED BY <3>1, <3>2
  <2>2. \E h \in Procs : R = {h}
    <3>1. CASE e.state \in {"OO", "FF", "OM", "FM"}
      <4>1. e.o_f_id \in e.presence
        BY <1>1, <3>1 DEF EntryOK, Owned, Upgrading
      <4>2. R = {e.o_f_id}
        BY <1>1, <1>5, <3>1, <4>1 DEF Recalled
      <4> QED BY <1>1, <4>1, <4>2
    <3>2. CASE e.state \notin {"OO", "FF", "OM", "FM"}
      <4>1. e.state \in Sole
        BY <1>1, <1>5, <3>2 DEF DirStates, DirStable, Sole
      <4>2. PICK h \in Procs : e.presence = {h}
        BY <1>1, <4>1 DEF EntryOK
      <4>3. R = {h}
        BY <1>5, <3>2, <4>2 DEF Recalled
      <4> QED BY <4>3
    <3> QED BY <3>1, <3>2
  <2> HIDE DEF R
  <2>3. Cardinality(R) = 1
    BY <2>2, FS_Singleton
  <2> QED BY <1>5, <2>1, <2>3 DEF R, CountBool
<1> QED BY <1>3, <1>4, <1>5

\* A block's invalidations, acknowledgements and recalls are as its entry says.
LEMMA BlockAccounted ==
  ASSUME NetworkTypes, ProtocolInv, NEW b \in Blocks
  PROVE  /\ InFlightFor(b, {"REQ_INVALID"}, {"INVACK"}) = entry[b].inv_ack_waiting
         /\ InFlightFor(b, {"RECALL_GOTO_I", "RECALL_GOTO_S"}, {"DATA"}) =
              CountBool(/\ entry[b].state \notin DirStable \cup {"SM"}
                        /\ entry[b].inv_ack_waiting = 0)
<1> DEFINE e == entry[b]
<1>1. UpChannels /\ DownChannels /\ BlockIs(protocol, AgentsAt(b), Ups(b), Downs(b), e)
  BY DEF ProtocolInv, BlockOK
<1>2. \A n \in Procs : NodeOK(protocol, n, AgentsAt(b)[n], Ups(b)[n], Downs(b)[n], e)
  BY <1>1 DEF BlockIs
<1>3. /\ EntryOK(protocol, e) /\ e.state \in DirStates
      /\ e.inv_ack_waiting = Cardinality(AckSet(Ups(b), Downs(b)))
  BY <1>1 DEF BlockIs, DirEntry
<1>4. InFlightFor(b, {"REQ_INVALID"}, {"INVACK"})
        = Cardinality(CarriersOf(b, {"REQ_INVALID"}, {"INVACK"}))
  <2>1. {"REQ_INVALID"} \in SUBSET ProbeKinds /\ {"INVACK"} \in SUBSET UpKinds
    BY DEF ProbeKinds, UpKinds
  <2> QED BY <1>1, <2>1, OnePerNode, InFlightCount
<1>5. CarriersOf(b, {"REQ_INVALID"}, {"INVACK"}) = AckSet(Ups(b), Downs(b))
  BY DEF CarriersOf, Carries, AckSet
<1>6. InFlightFor(b, {"RECALL_GOTO_I", "RECALL_GOTO_S"}, {"DATA"})
        = Cardinality(CarriersOf(b, {"RECALL_GOTO_I", "RECALL_GOTO_S"}, {"DATA"}))
  <2>1. {"RECALL_GOTO_I", "RECALL_GOTO_S"} \in SUBSET ProbeKinds /\ {"DATA"} \in SUBSET UpKinds
    BY DEF ProbeKinds, UpKinds
  <2> QED BY <1>1, <2>1, OnePerNode, InFlightCount
<1>7. CarriersOf(b, {"RECALL_GOTO_I", "RECALL_GOTO_S"}, {"DATA"}) = {n \in Procs : Recalled(n, e)}
  <2> HIDE DEF e
  <2>1. \A n \in Procs : Giving(Ups(b)[n], Downs(b)[n]) <=> Recalled(n, e)
    BY <1>2, <1>3, RecallSeen
  <2> QED BY <2>1 DEF CarriersOf, Giving
<1>8. Cardinality({n \in Procs : Recalled(n, e)})
        = CountBool(e.state \notin DirStable \cup {"SM"} /\ e.inv_ack_waiting = 0)
  <2> HIDE DEF e
  <2> QED BY <1>1, RecalledOne
<1> QED BY <1>3, <1>4, <1>5, <1>6, <1>7, <1>8

\* No acknowledgement and no recalled line is lost or sent twice, in any of the
\* five protocols: what the directory still counts on is what is under way.
THEOREM HandshakesAccounted == Spec => []HandshakeAccounted
<1>1. TypeOK /\ (ProtocolInv /\ CpusOK) => HandshakeAccounted
  BY BlockAccounted, NetworkTyped DEF HandshakeAccounted
<1> QED BY <1>1, TypeCorrect, CoherenceInvariant, PTL
================================================================================
