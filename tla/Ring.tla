-------------------------------- MODULE Ring --------------------------------
(***************************************************************************)
(* The ring of nodes of the coherence network (src/src/coherence/node.cpp  *)
(* and network.cpp).  Nodes 0 .. N-2 hold a CPU and a cache, node N-1 the  *)
(* directory.  A cycle ticks the nodes in the order of their ids and then  *)
(* tocks them all.  What the caches and the directory do is reduced to     *)
(* their sending a message now and then: CPU nodes send to the directory   *)
(* and it to them.                                                         *)
(*                                                                         *)
(* outgoing_packets of a node and incoming_packets of its neighbour alias  *)
(* one message: they are one `link' here.  The incoming half is cleared    *)
(* after the outgoing half, so a link is free when it holds nothing.       *)
(***************************************************************************)
EXTENDS Naturals, Sequences, Functions

CONSTANTS
    N,              \* number of nodes, the directory included
    Flits,          \* message lengths: headers only, and with a payload
    MaxMessages     \* bound on the messages of a run

ASSUME RingAssumption ==
    /\ N \in Nat \ {0, 1}
    /\ Flits \subseteq Nat \ {0}
    /\ MaxMessages \in Nat

VARIABLES
    turn,           \* the node to tick next; N stands for the tock
    outNext,        \* ntwk_out_next of each node
    outQueue,       \* ntwk_out_queue
    link,           \* link[n][p]: what node n has on its port p, with its tof
    inQueue,        \* ntwk_in_queue
    sent,           \* sent[p]: messages sent from p[1] to p[2]; numbers them
    received        \* ghost: the numbers handed over at p[2] of those from p[1]

vars == <<turn, outNext, outQueue, link, inQueue, sent, received>>

Nodes == 0 .. N - 1
Dir == N - 1
Pairs == {p \in Nodes \X Nodes : (p[1] = Dir) # (p[2] = Dir)}
Ports == 0 .. 1     \* left, right
Nothing == [tof |-> 0]

Total(f) == FoldFunction(+, 0, f)

-----------------------------------------------------------------------------
\* Fault: a message whose way is taken goes the other way round.
OutPortAdaptive(n, m) ==
    LET short == IF (m.dst + N - n) % N > N \div 2 THEN 0 ELSE 1
    IN  IF link[n][short] = Nothing THEN short ELSE 1 - short

\* The shorter way round; to the right if both are as long.
OutPort(n, m) == IF (m.dst + N - n) % N > N \div 2 THEN 0 ELSE 1

\* The neighbour at a port, whose port towards n is the other one.
Neighbour(n, p) == IF p = 0 THEN (n + N - 1) % N ELSE (n + 1) % N

\* How many messages leave in this tick: the loop stops at the first one whose
\* port is taken, by an earlier cycle or by a message just sent.
Leaving(n) ==
    LET port(i)  == OutPort(n, outQueue[n][i])
        fits(k) == \A i \in 1 .. k :
                     /\ link[n][port(i)] = Nothing
                     /\ \A j \in 1 .. i - 1 : port(j) # port(i)
        ok == {k \in 0 .. 2 : k <= Len(outQueue[n]) /\ fits(k)}
    IN  CHOOSE k \in ok : \A j \in ok : j <= k

\* The links of n after that: tof counts the flits.
Loaded(n) ==
    [p \in Ports |->
        LET on == {i \in 1 .. Leaving(n) : OutPort(n, outQueue[n][i]) = p}
        IN  IF on = {} THEN link[n][p]
            ELSE LET m == outQueue[n][CHOOSE i \in on : TRUE]
                 IN  [tof |-> m.flits, message |-> m]]

\* What has arrived on a port: the neighbour's link that ends there.
Incoming(n, p) == link[Neighbour(n, p)][1 - p]

Arrived(n, p) == Incoming(n, p) # Nothing /\ Incoming(n, p).tof = 0

\* The message that arrived on a port, if it is for n, or if it is not.
For(n, p) ==
    IF Arrived(n, p) /\ Incoming(n, p).message.dst = n
    THEN <<Incoming(n, p).message>> ELSE <<>>
Past(n, p) ==
    IF Arrived(n, p) /\ Incoming(n, p).message.dst # n
    THEN <<Incoming(n, p).message>> ELSE <<>>

\* Fault: a message that is only passing through is not sent on.
ForwardedNever(n) == <<>>

\* What n sends on of the messages that have arrived.
Forwarded(n) == Past(n, 0) \o Past(n, 1)

\* The directory takes one message per port and cycle, a cache one.
HandedOver(n, q) ==
    LET most == IF n = Dir THEN 2 ELSE 1
    IN  IF Len(q) < most THEN Len(q) ELSE most

\* The link of k at p ends at n, which has pulled its message.
Vacated(n, k, p) == Neighbour(k, p) = n /\ Arrived(n, 1 - p)

\* The numbers, if they come from src, of the first `taken' messages of q.
NumbersFrom(src, q, taken) ==
    LET number(i) == IF i <= taken /\ q[i].src = src THEN <<q[i].no>> ELSE <<>>
    IN  number(1) \o number(2)

\* Node::tick after the tick of its engine: send, pull what arrived, hand over.
NodeTick(n) ==
    /\ turn = n
    /\ turn' = n + 1
    /\ LET waiting == inQueue[n] \o For(n, 0) \o For(n, 1)
           taken   == HandedOver(n, waiting)
       IN  /\ outQueue' = [outQueue EXCEPT ![n] =
                 SubSeq(@, Leaving(n) + 1, Len(@)) \o Forwarded(n)]
           /\ inQueue' = [inQueue EXCEPT ![n] = SubSeq(waiting, taken + 1, Len(waiting))]
           /\ received' = [p \in Pairs |->
                 IF p[2] = n
                 THEN received[p] \o NumbersFrom(p[1], waiting, taken)
                 ELSE received[p]]
           /\ link' = [k \in Nodes |->
                 LET own == IF k = n THEN Loaded(n) ELSE link[k]
                 IN  [p \in Ports |-> IF Vacated(n, k, p) THEN Nothing ELSE own[p]]]
    /\ UNCHANGED <<outNext, sent>>

\* The engine of a node sends a message: it joins ntwk_out_next.
Send(p, flits) ==
    /\ Total(sent) < MaxMessages
    /\ turn = p[1]
    /\ outNext' = [outNext EXCEPT ![p[1]] =
            Append(@, [src |-> p[1], dst |-> p[2], no |-> sent[p], flits |-> flits])]
    /\ sent' = [sent EXCEPT ![p] = @ + 1]
    /\ UNCHANGED <<turn, outQueue, link, inQueue, received>>

\* A flit of what is on a port gets through.
Passed(l) == IF l.tof > 0 THEN [l EXCEPT !.tof = @ - 1] ELSE l

\* Node::tock of every node.
Tock ==
    /\ turn = N
    /\ turn' = 0
    /\ outQueue' = [n \in Nodes |-> outQueue[n] \o outNext[n]]
    /\ outNext' = [n \in Nodes |-> <<>>]
    /\ link' = [n \in Nodes |-> [p \in Ports |-> Passed(link[n][p])]]
    /\ UNCHANGED <<inQueue, sent, received>>

Init ==
    /\ turn = 0
    /\ outNext = [n \in Nodes |-> <<>>]
    /\ outQueue = [n \in Nodes |-> <<>>]
    /\ inQueue = [n \in Nodes |-> <<>>]
    /\ link = [n \in Nodes |-> [p \in Ports |-> Nothing]]
    /\ sent = [p \in Pairs |-> 0]
    /\ received = [p \in Pairs |-> <<>>]

Cycle == (\E n \in Nodes : NodeTick(n)) \/ Tock

Next == Cycle \/ \E p \in Pairs, f \in Flits : Send(p, f)

\* The main loop ticks the network for ever.
Spec == Init /\ [][Next]_vars /\ WF_vars(Cycle)

-----------------------------------------------------------------------------
(* Properties.                                                             *)

Channels == INSTANCE FifoChannels

\* The ring keeps the order of every pair of nodes: whatever the other
\* traffic, the stalls of the ports and the lengths of the messages, each hop
\* of Node::tick hands them on so that the oldest arrives first and none is
\* skipped or copied.
ImplementsChannels == Channels!Spec

AllReceived == \A p \in Pairs : Len(received[p]) = sent[p]

\* Every message arrives: as no more than MaxMessages are sent, the ring delivers
\* all, although a port carries one message at a time and the head of a queue
\* that cannot leave holds back the messages behind it.
EverythingArrives == []<>AllReceived
=============================================================================
