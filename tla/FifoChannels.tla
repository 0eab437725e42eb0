---------------------------- MODULE FifoChannels ----------------------------
(***************************************************************************)
(* What the coherence protocols ask of the network: between two nodes      *)
(* messages arrive in the order they were sent, and none is lost, copied or*)
(* made up.  Nothing is promised between different pairs of nodes.         *)
(***************************************************************************)
EXTENDS Naturals, Sequences

CONSTANT Pairs          \* <<source, destination>>

VARIABLES
    sent,       \* sent[p]: how many messages were sent, which numbers them
    received    \* received[p]: the numbers of those that have arrived

Init == /\ sent = [p \in Pairs |-> 0]
        /\ received = [p \in Pairs |-> <<>>]

Send(p) == /\ sent' = [sent EXCEPT ![p] = @ + 1]
           /\ UNCHANGED received

\* The numbers of the first k messages of a pair.
FirstNumbers(k) == [i \in 1 .. k |-> i - 1]

\* Some pairs receive what comes next, of what was sent.
Deliver == /\ \E k \in [Pairs -> 0 .. 2] :
                /\ \A p \in Pairs : Len(received[p]) + k[p] <= sent[p]
                /\ received' = [p \in Pairs |-> FirstNumbers(Len(received[p]) + k[p])]
           /\ UNCHANGED sent

Next == (\E p \in Pairs : Send(p)) \/ Deliver

Spec == Init /\ [][Next]_<<sent, received>>
=============================================================================
