---------------------------- MODULE CoherenceBlocks ----------------------------
(***************************************************************************)
(* What all five protocols keep true of one block: an inductive invariant  *)
(* in which the network is a set of message kinds per node.                *)
(*                                                                         *)
(* A node's share of the system, seen from block b, is its agent's state,  *)
(* the kinds of its messages on the way up, the kinds on the way down to   *)
(* it, and the directory's entry.  NodeOK relates the four.  The lemmas    *)
(* take the directory's transitions one by one and show that they keep     *)
(* NodeOK of every node and EntryOK of the entry.                          *)
(***************************************************************************)
EXTENDS CoherenceTypes, SequenceTheorems

\* The agent and directory states of a protocol.
AgentsOf(p) ==
  CASE p = "MI"     -> {"I", "M", "IM"}
    [] p = "MSI"    -> {"I", "S", "M", "IS", "IM", "SM"}
    [] p = "MESI"   -> {"I", "S", "E", "M", "IS", "IM", "SM", "EM"}
    [] p = "MOSI"   -> {"I", "S", "M", "O", "IS", "IM", "SM", "OM"}
    [] p = "MOESIF" -> AgentStates

DirStatesOf(p) ==
  CASE p = "MI"     -> {"I", "M", "MM"}
    [] p = "MSI"    -> {"I", "S", "M", "SM", "MM", "MS"}
    [] p = "MESI"   -> {"I", "S", "E", "M", "SM", "MM", "MS", "EM", "ES"}
    [] p = "MOSI"   -> {"I", "S", "M", "O", "SM", "MM", "MO", "OM", "OO"}
    [] p = "MOESIF" -> {"I", "E", "M", "O", "F", "MM", "MO", "EM", "EF", "OM", "OO", "FM", "FF"}

\* The protocols in which a lone reader gets the block exclusive.
WithE == {"MESI", "MOESIF"}

\* The copy an agent holds while its upgrade is under way.
Copy(s) ==
  IF s \in {"I", "IS", "IM"} THEN "I"
  ELSE IF s \in {"S", "SM"} THEN "S"
  ELSE IF s \in {"E", "EM"} THEN "E"
  ELSE IF s \in {"O", "OM"} THEN "O"
  ELSE IF s \in {"F", "FM"} THEN "F"
  ELSE "M"

\* The copy it will hold when the answer under way to it has arrived.
Due(s, D) ==
  IF "DATA_E" \in D THEN "E"
  ELSE IF "ACK" \in D THEN "M"
  ELSE IF "DATA" \in D THEN IF s = "IS" THEN "S" ELSE "M"
  ELSE Copy(s)

--------------------------------------------------------------------------------
(* One node: its agent in s, the kinds U on the way up from it, the kinds D *)
(* on the way down to it, and the entry e.                                  *)

Asks(U)     == "GETS" \in U \/ "GETM" \in U \/ "GETX" \in U
Answered(D) == "DATA" \in D \/ "DATA_E" \in D \/ "ACK" \in D
Probed(D)   == "REQ_INVALID" \in D \/ "RECALL_GOTO_I" \in D \/ "RECALL_GOTO_S" \in D
Replies(U)  == "DATA" \in U \/ "INVACK" \in U
Taken(n, e) == e.state \notin DirStable /\ e.req_node = n

\* The directory reads for a load, and takes away for a store.
Reading == {"MS", "ES", "MO", "EF", "OO", "FF"}

\* A waiting agent's request is asked, taken or answered, exactly one of them;
\* a stable agent has none.
RequestPlace(n, s, U, D, e) ==
  /\ s \in DirStable => ~Asks(U) /\ ~Taken(n, e) /\ ~Answered(D)
  /\ s \notin DirStable => Asks(U) \/ Taken(n, e) \/ Answered(D)
  /\ ~(Asks(U) /\ Taken(n, e)) /\ ~(Asks(U) /\ Answered(D)) /\ ~(Taken(n, e) /\ Answered(D))

\* It is the request, or the answer, the agent's state waits for.  A GETX that
\* meets a block still exclusive or forwarded comes from its holder.
RequestKind(p, n, s, U, D, e) ==
  /\ "GETS" \in U => s = "IS" /\ "GETM" \notin U /\ "GETX" \notin U
  /\ "GETM" \in U => s \in {"IM", "SM", "OM", "FM"} /\ "GETX" \notin U
  /\ "GETX" \in U => /\ p \in WithE
                     /\ s \in {"EM", "IM", "FM"} \/ (s = "SM" /\ p = "MESI")
                     /\ e.state \in {"I", "E", "EF", "F", "FF"} => s \in {"EM", "FM"}
  /\ "DATA" \in D => s \in {"IS", "IM"} /\ "DATA_E" \notin D /\ "ACK" \notin D
  /\ "DATA_E" \in D => s = "IS" /\ p \in WithE /\ "ACK" \notin D
  /\ "ACK" \in D => s \in {"SM", "EM", "OM", "FM"}
  /\ Taken(n, e) => (s = "IS" <=> e.state \in Reading)

\* The node has the copy c and nothing is asked of it.
Rests(s, U, D, c) == Due(s, D) = c /\ ~Probed(D) /\ ~Replies(U)

\* It is invalidated, or has acknowledged that.
Invalidated(s, U, D) ==
  \/ /\ Due(s, D) = "S" /\ ~Replies(U)
     /\ "REQ_INVALID" \in D /\ "RECALL_GOTO_I" \notin D /\ "RECALL_GOTO_S" \notin D
  \/ Due(s, D) = "I" /\ ~Probed(D) /\ "INVACK" \in U /\ "DATA" \notin U

\* Its copy c is recalled and to become c1, or has become it.
GivesUp(s, U, D, c) ==
  \/ /\ Due(s, D) = c /\ ~Replies(U)
     /\ "RECALL_GOTO_I" \in D /\ "RECALL_GOTO_S" \notin D /\ "REQ_INVALID" \notin D
  \/ Due(s, D) = "I" /\ ~Probed(D) /\ "DATA" \in U /\ "INVACK" \notin U

Shares(s, U, D, c, c1) ==
  \/ /\ Due(s, D) = c /\ ~Replies(U)
     /\ "RECALL_GOTO_S" \in D /\ "RECALL_GOTO_I" \notin D /\ "REQ_INVALID" \notin D
  \/ Due(s, D) = c1 /\ ~Probed(D) /\ "DATA" \in U /\ "INVACK" \notin U

\* A plain sharer of a block that is being collected for e.req_node.
Collected(n, s, U, D, e) ==
  IF n = e.req_node THEN Rests(s, U, D, "S") ELSE Invalidated(s, U, D)

\* The owner or forwarder with copy c of such a block: its turn comes last.
LastOwner(s, U, D, e, c) ==
  IF e.inv_ack_waiting > 0 THEN Rests(s, U, D, c) ELSE GivesUp(s, U, D, c)

\* What the entry knows of a node with its presence bit.
HolderOK(n, s, U, D, e) ==
  /\ e.state \in {"S", "E", "M"} => Rests(s, U, D, e.state)
  /\ e.state \in {"O", "F"} => Rests(s, U, D, IF n = e.o_f_id THEN e.state ELSE "S")
  /\ e.state = "MM" => GivesUp(s, U, D, "M")
  /\ e.state = "EM" => GivesUp(s, U, D, "E")
  /\ e.state = "MS" => Shares(s, U, D, "M", "S")
  /\ e.state = "ES" => Shares(s, U, D, "E", "S")
  /\ e.state = "MO" => Shares(s, U, D, "M", "O")
  /\ e.state = "EF" => Shares(s, U, D, "E", "F")
  /\ e.state = "OO" => IF n = e.o_f_id THEN Shares(s, U, D, "O", "O") ELSE Rests(s, U, D, "S")
  /\ e.state = "FF" => IF n = e.o_f_id THEN Shares(s, U, D, "F", "F") ELSE Rests(s, U, D, "S")
  /\ e.state = "SM" => Collected(n, s, U, D, e)
  /\ e.state = "OM" => IF n = e.o_f_id THEN LastOwner(s, U, D, e, "O") ELSE Collected(n, s, U, D, e)
  /\ e.state = "FM" => IF n = e.o_f_id THEN LastOwner(s, U, D, e, "F") ELSE Collected(n, s, U, D, e)

NodeOK(p, n, s, U, D, e) ==
  /\ s \in AgentsOf(p)
  /\ RequestPlace(n, s, U, D, e)
  /\ RequestKind(p, n, s, U, D, e)
  /\ IF n \in e.presence THEN HolderOK(n, s, U, D, e) ELSE Rests(s, U, D, "I")

--------------------------------------------------------------------------------
(* The entry.                                                               *)

Sole   == {"E", "M", "MM", "EM", "MS", "ES", "MO", "EF"}
Owned  == {"O", "F", "OO", "FF"}
Upgrading == {"OM", "FM"}

EntryOK(p, e) ==
  /\ e.state \in DirStatesOf(p)
  /\ e.active_sharers = Cardinality(e.presence)
  /\ e.state = "I" => e.presence = {}
  /\ e.state = "S" => e.presence # {}
  /\ e.state \in Sole => \E h \in Procs : e.presence = {h}
  /\ e.state \in {"MO", "EF"} => e.o_f_id \in e.presence
  /\ e.state \in Owned => e.o_f_id \in e.presence /\ e.presence # {e.o_f_id}
  /\ e.state \in {"OO", "FF"} => e.req_node # e.o_f_id
  /\ e.state \in Upgrading => /\ e.o_f_id \in e.presence
                              /\ e.req_node = e.o_f_id => e.inv_ack_waiting > 0
  /\ p = "MSI" /\ e.state = "SM" => (e.getM_upgrade <=> e.req_node \in e.presence)

\* The kinds of messages on the way up and on the way down.
UpKinds   == ReqKinds \cup {"DATA", "INVACK"}
DownKinds == AnsKinds \cup ProbeKinds

--------------------------------------------------------------------------------
(* The agents' steps.                                                       *)

\* A miss: the request k takes the agent from s to t.
AskRow(s, k, t) ==
  \/ s = "I" /\ k = "GETS" /\ t = "IS"
  \/ s = "I" /\ k = "GETM" /\ t = "IM"
  \/ s = "S" /\ k = "GETM" /\ t = "SM"
  \/ s = "E" /\ k = "GETX" /\ t = "EM"
  \/ s = "F" /\ k = "GETM" /\ t = "FM"
  \/ s = "O" /\ k = "GETM" /\ t = "OM"

\* A recall or invalidation: probe r is answered by k and takes s to t.
ProbeRow(p, s, r, k, t) ==
  \/ /\ r = "REQ_INVALID" /\ k = "INVACK"
     /\ (s = "S" /\ t = "I") \/ (s = "SM" /\ t = "IM")
  \/ /\ r = "RECALL_GOTO_I" /\ k = "DATA"
     /\ (s \in {"E", "M", "O", "F"} /\ t = "I") \/ (s \in {"EM", "OM", "FM"} /\ t = "IM")
  \/ /\ r = "RECALL_GOTO_S" /\ k = "DATA"
     /\ \/ s = "M" /\ p \in {"MSI", "MESI"} /\ t = "S"
        \/ s = "M" /\ p \in {"MOSI", "MOESIF"} /\ t = "O"
        \/ s = "E" /\ p = "MESI" /\ t = "S"
        \/ s = "E" /\ p = "MOESIF" /\ t = "F"
        \/ s = "EM" /\ p = "MESI" /\ t = "SM"
        \/ s = "EM" /\ p = "MOESIF" /\ t = "FM"
        \/ s \in {"O", "F", "OM", "FM"} /\ t = s

Protocol == {"MI", "MSI", "MESI", "MOSI", "MOESIF"}

\* The states of each protocol, spelled out.
LEMMA AgentsSplit ==
  ASSUME NEW p \in Protocol
  PROVE  /\ AgentsOf(p) \subseteq AgentStates
         /\ {"I", "IM", "M"} \subseteq AgentsOf(p)
         /\ "IS" \in AgentsOf(p) <=> p # "MI"
         /\ "S" \in AgentsOf(p) <=> p # "MI"
         /\ "SM" \in AgentsOf(p) <=> p # "MI"
         /\ "E" \in AgentsOf(p) <=> p \in WithE
         /\ "EM" \in AgentsOf(p) <=> p \in WithE
         /\ "O" \in AgentsOf(p) <=> p \in {"MOSI", "MOESIF"}
         /\ "OM" \in AgentsOf(p) <=> p \in {"MOSI", "MOESIF"}
         /\ "F" \in AgentsOf(p) <=> p = "MOESIF"
         /\ "FM" \in AgentsOf(p) <=> p = "MOESIF"
<1>1. CASE p = "MI"
  BY <1>1 DEF AgentsOf, AgentStates, WithE
<1>2. CASE p = "MSI"
  BY <1>2 DEF AgentsOf, AgentStates, WithE
<1>3. CASE p = "MESI"
  BY <1>3 DEF AgentsOf, AgentStates, WithE
<1>4. CASE p = "MOSI"
  BY <1>4 DEF AgentsOf, AgentStates, WithE
<1>5. CASE p = "MOESIF"
  BY <1>5 DEF AgentsOf, AgentStates, WithE
<1> QED BY <1>1, <1>2, <1>3, <1>4, <1>5 DEF Protocol

\* Two views of a node that differ only in its request and in answers that have
\* been taken: the same copy is due, the same probes and replies are under way.
SameCopy(s, U, D, t, V, E) ==
  /\ Due(t, E) = Due(s, D)
  /\ \A k \in {"DATA", "INVACK"} : k \in V <=> k \in U
  /\ \A r \in ProbeKinds : r \in E <=> r \in D

\* The directory cannot tell them apart.
LEMMA SameCopyHolds ==
  ASSUME NEW n, NEW e, NEW s, NEW U, NEW D, NEW t, NEW V, NEW E, SameCopy(s, U, D, t, V, E)
  PROVE  /\ HolderOK(n, s, U, D, e) => HolderOK(n, t, V, E, e)
         /\ Rests(s, U, D, "I") => Rests(t, V, E, "I")
<1>1. \A c : Rests(s, U, D, c) => Rests(t, V, E, c)
  BY DEF SameCopy, Rests, Probed, Replies, ProbeKinds
<1>2. \A c : GivesUp(s, U, D, c) => GivesUp(t, V, E, c)
  BY DEF SameCopy, GivesUp, Probed, Replies, ProbeKinds
<1>3. \A c, c1 : Shares(s, U, D, c, c1) => Shares(t, V, E, c, c1)
  BY DEF SameCopy, Shares, Probed, Replies, ProbeKinds
<1>4. Invalidated(s, U, D) => Invalidated(t, V, E)
  BY DEF SameCopy, Invalidated, Probed, Replies, ProbeKinds
<1>5. Collected(n, s, U, D, e) => Collected(n, t, V, E, e)
  BY <1>1, <1>4 DEF Collected
<1>6. \A c : LastOwner(s, U, D, e, c) => LastOwner(t, V, E, e, c)
  BY <1>1, <1>2 DEF LastOwner
<1>7. ASSUME HolderOK(n, s, U, D, e)
      PROVE  HolderOK(n, t, V, E, e)
  BY <1>1, <1>2, <1>3, <1>5, <1>6, <1>7 DEF HolderOK
<1> QED BY <1>1, <1>7

\* A miss leaves the node as the directory knows it.
LEMMA AskKeeps ==
  ASSUME NEW p \in Protocol, NEW n, NEW s, NEW U, NEW D, NEW e, NodeOK(p, n, s, U, D, e),
         NEW k, NEW t, AskRow(s, k, t), t \in AgentsOf(p)
  PROVE  NodeOK(p, n, t, U \cup {k}, D, e)
<1> DEFINE V == U \cup {k}
<1>1. /\ s \in DirStable /\ t \notin DirStable /\ Copy(t) = Copy(s)
      /\ ~Asks(U) /\ ~Taken(n, e) /\ ~Answered(D) /\ Due(s, D) = Copy(s) /\ Due(t, D) = Copy(t)
  BY DEF AskRow, DirStable, Copy, NodeOK, RequestPlace, Due, Answered
<1>2. Asks(V) /\ SameCopy(s, U, D, t, V, D)
  BY <1>1 DEF AskRow, Asks, SameCopy
<1>3. RequestPlace(n, t, V, D, e)
  BY <1>1, <1>2 DEF RequestPlace
<1>4. RequestKind(p, n, t, V, D, e)
  <2>1. t = "EM" => p \in WithE
    BY AgentsSplit DEF Protocol
  <2> QED BY <1>1, <2>1 DEF RequestKind, AskRow, Asks, Answered, NodeOK
<1>5. IF n \in e.presence THEN HolderOK(n, t, V, D, e) ELSE Rests(t, V, D, "I")
  BY <1>2, SameCopyHolds DEF NodeOK
<1> QED BY <1>3, <1>4, <1>5 DEF NodeOK

\* An answer makes the agent's copy what was due.
LEMMA AnswerKeeps ==
  ASSUME NEW p \in Protocol, NEW n, NEW s, NEW U, NEW D, NEW e, NodeOK(p, n, s, U, D, e),
         NEW k \in AnsKinds, k \in D
  PROVE  /\ s \notin DirStable
         /\ NodeOK(p, n, Due(s, D), U, D \ {k}, e)
         /\ Due(s, D) \in {"S", "E", "M"} /\ (Due(s, D) = "S" => s = "IS" /\ k = "DATA")
         /\ Due(s, D) = Due(s, {k})
<1> DEFINE t == Due(s, D)
           E == D \ {k}
<1>1. /\ s \notin DirStable /\ ~Asks(U) /\ ~Taken(n, e)
      /\ Answered(D) /\ ~Answered(E)
  BY DEF NodeOK, RequestPlace, RequestKind, Answered, AnsKinds
<1>2. /\ k = "DATA_E" => t = "E" /\ s = "IS" /\ p \in WithE
      /\ k = "ACK" => t = "M" /\ s \in {"SM", "EM", "OM", "FM"}
      /\ k = "DATA" => s \in {"IS", "IM"} /\ t = IF s = "IS" THEN "S" ELSE "M"
  BY DEF NodeOK, RequestKind, Due, AnsKinds
<1>3. t \in {"S", "E", "M"} /\ t \in DirStable /\ t \in AgentsOf(p)
      /\ (t = "S" => s = "IS" /\ k = "DATA")
  <2>1. s \in AgentsOf(p)
    BY DEF NodeOK
  <2> QED BY <1>2, <2>1, AgentsSplit DEF AnsKinds, DirStable, Protocol
<1>4. Due(s, {k}) = t
  BY <1>2 DEF Due, AnsKinds
<1>5. Due(t, E) = t
  BY <1>1, <1>3 DEF Due, Copy, Answered
<1> HIDE DEF t
<1>6. SameCopy(s, U, D, t, U, E)
  BY <1>5 DEF SameCopy, AnsKinds, ProbeKinds, t
<1>7. RequestPlace(n, t, U, E, e) /\ RequestKind(p, n, t, U, E, e)
  BY <1>1, <1>3 DEF RequestPlace, RequestKind, Asks, Answered
<1>8. IF n \in e.presence THEN HolderOK(n, t, U, E, e) ELSE Rests(t, U, E, "I")
  BY <1>6, SameCopyHolds DEF NodeOK
<1>9. NodeOK(p, n, t, U, E, e)
  BY <1>3, <1>7, <1>8 DEF NodeOK
<1> QED BY <1>1, <1>3, <1>4, <1>9 DEF t

\* The directory's states of each protocol, spelled out.
LEMMA DirStatesSplit ==
  ASSUME NEW p \in Protocol
  PROVE  /\ DirStatesOf(p) \subseteq DirStates
         /\ {"I", "MM", "M"} \subseteq DirStatesOf(p)
         /\ "S" \in DirStatesOf(p) <=> p \in {"MSI", "MESI", "MOSI"}
         /\ "SM" \in DirStatesOf(p) <=> p \in {"MSI", "MESI", "MOSI"}
         /\ "MS" \in DirStatesOf(p) <=> p \in {"MSI", "MESI"}
         /\ "E" \in DirStatesOf(p) <=> p \in WithE
         /\ "EM" \in DirStatesOf(p) <=> p \in WithE
         /\ "ES" \in DirStatesOf(p) <=> p = "MESI"
         /\ "O" \in DirStatesOf(p) <=> p \in {"MOSI", "MOESIF"}
         /\ "MO" \in DirStatesOf(p) <=> p \in {"MOSI", "MOESIF"}
         /\ "OM" \in DirStatesOf(p) <=> p \in {"MOSI", "MOESIF"}
         /\ "OO" \in DirStatesOf(p) <=> p \in {"MOSI", "MOESIF"}
         /\ "F" \in DirStatesOf(p) <=> p = "MOESIF"
         /\ "EF" \in DirStatesOf(p) <=> p = "MOESIF"
         /\ "FM" \in DirStatesOf(p) <=> p = "MOESIF"
         /\ "FF" \in DirStatesOf(p) <=> p = "MOESIF"
<1>1. CASE p = "MI"
  BY <1>1 DEF DirStatesOf, DirStates, WithE
<1>2. CASE p = "MSI"
  BY <1>2 DEF DirStatesOf, DirStates, WithE
<1>3. CASE p = "MESI"
  BY <1>3 DEF DirStatesOf, DirStates, WithE
<1>4. CASE p = "MOSI"
  BY <1>4 DEF DirStatesOf, DirStates, WithE
<1>5. CASE p = "MOESIF"
  BY <1>5 DEF DirStatesOf, DirStates, WithE
<1> QED BY <1>1, <1>2, <1>3, <1>4, <1>5 DEF Protocol

\* A probe meets a holder with the copy it is about, and nothing has been
\* answered to it yet.
LEMMA ProbeMeets ==
  ASSUME NEW p \in Protocol, NEW n, NEW s, NEW U, NEW D, NEW e, NodeOK(p, n, s, U, D, e),
         EntryOK(p, e), NEW r \in ProbeKinds, r \in D
  PROVE  /\ n \in e.presence /\ ~Replies(U)
         /\ \A q \in ProbeKinds : q \in D => q = r
         /\ r = "REQ_INVALID" => Due(s, D) = "S" /\ Collected(n, s, U, D, e)
                                 /\ e.state \in {"SM", "OM", "FM"} /\ n # e.req_node
         /\ r = "RECALL_GOTO_I" => GivesUp(s, U, D, Due(s, D)) /\ Due(s, D) \in {"E", "M", "O", "F"}
         /\ r = "RECALL_GOTO_S" =>
              \/ Due(s, D) = "M" /\ p \in {"MSI", "MESI"} /\ e.state = "MS"
              \/ Due(s, D) = "M" /\ p \in {"MOSI", "MOESIF"} /\ e.state = "MO"
              \/ Due(s, D) = "E" /\ p = "MESI" /\ e.state = "ES"
              \/ Due(s, D) = "E" /\ p = "MOESIF" /\ e.state = "EF"
              \/ Due(s, D) = "O" /\ e.state = "OO" /\ n = e.o_f_id
              \/ Due(s, D) = "F" /\ e.state = "FF" /\ n = e.o_f_id
<1> DEFINE only == ~Replies(U) /\ \A q \in ProbeKinds : q \in D => q = r
<1>1. /\ n \in e.presence /\ HolderOK(n, s, U, D, e)
      /\ e.state \in DirStates /\ e.state # "I" /\ e.state \in DirStatesOf(p)
  BY DirStatesSplit DEF NodeOK, Rests, Probed, ProbeKinds, EntryOK
<1>2. \A c : ~Rests(s, U, D, c)
  BY DEF Rests, Probed, ProbeKinds
<1>3. \A c : GivesUp(s, U, D, c) => r = "RECALL_GOTO_I" /\ Due(s, D) = c /\ only
  BY DEF GivesUp, Probed, ProbeKinds
<1>4. \A c, c1 : Shares(s, U, D, c, c1) => r = "RECALL_GOTO_S" /\ Due(s, D) = c /\ only
  BY DEF Shares, Probed, ProbeKinds
<1>5. Invalidated(s, U, D) => r = "REQ_INVALID" /\ Due(s, D) = "S" /\ only
  BY DEF Invalidated, Probed, ProbeKinds
<1>6. Collected(n, s, U, D, e) =>
        r = "REQ_INVALID" /\ Due(s, D) = "S" /\ only /\ n # e.req_node
  BY <1>2, <1>5 DEF Collected
<1>7. \A c : LastOwner(s, U, D, e, c) =>
        r = "RECALL_GOTO_I" /\ Due(s, D) = c /\ only /\ GivesUp(s, U, D, c)
  BY <1>2, <1>3 DEF LastOwner
<1> HIDE DEF only
<1>8. \/ /\ e.state \in {"SM", "OM", "FM"} /\ Collected(n, s, U, D, e)
      \/ e.state = "MM" /\ GivesUp(s, U, D, "M")
      \/ e.state = "EM" /\ GivesUp(s, U, D, "E")
      \/ e.state = "OM" /\ LastOwner(s, U, D, e, "O")
      \/ e.state = "FM" /\ LastOwner(s, U, D, e, "F")
      \/ e.state = "MS" /\ Shares(s, U, D, "M", "S")
      \/ e.state = "ES" /\ Shares(s, U, D, "E", "S")
      \/ e.state = "MO" /\ Shares(s, U, D, "M", "O")
      \/ e.state = "EF" /\ Shares(s, U, D, "E", "F")
      \/ e.state = "OO" /\ Shares(s, U, D, "O", "O") /\ n = e.o_f_id
      \/ e.state = "FF" /\ Shares(s, U, D, "F", "F") /\ n = e.o_f_id
  BY <1>1, <1>2 DEF HolderOK, DirStates
<1>9. /\ e.state = "MS" => p \in {"MSI", "MESI"}
      /\ e.state = "MO" => p \in {"MOSI", "MOESIF"}
      /\ e.state = "ES" => p = "MESI"
      /\ e.state = "EF" => p = "MOESIF"
  BY <1>1, DirStatesSplit
<1>10. only
  BY <1>3, <1>4, <1>6, <1>7, <1>8
<1>11. CASE r = "REQ_INVALID"
  <2>1. e.state \in {"SM", "OM", "FM"} /\ Collected(n, s, U, D, e)
    BY <1>3, <1>4, <1>7, <1>8, <1>11
  <2> QED BY <1>1, <1>6, <1>10, <1>11, <2>1 DEF only
<1>12. CASE r = "RECALL_GOTO_I"
  <2>1. \E c \in {"E", "M", "O", "F"} : GivesUp(s, U, D, c)
    BY <1>4, <1>6, <1>7, <1>8, <1>12
  <2> QED BY <1>1, <1>3, <1>10, <1>12, <2>1 DEF only
<1>13. CASE r = "RECALL_GOTO_S"
  <2>1. \/ e.state = "MS" /\ Due(s, D) = "M"
        \/ e.state = "ES" /\ Due(s, D) = "E"
        \/ e.state = "MO" /\ Due(s, D) = "M"
        \/ e.state = "EF" /\ Due(s, D) = "E"
        \/ e.state = "OO" /\ Due(s, D) = "O" /\ n = e.o_f_id
        \/ e.state = "FF" /\ Due(s, D) = "F" /\ n = e.o_f_id
    BY <1>3, <1>4, <1>6, <1>7, <1>8, <1>13
  <2> QED BY <1>1, <1>9, <1>10, <1>13, <2>1 DEF only
<1> QED BY <1>11, <1>12, <1>13 DEF ProbeKinds

\* Every agent that meets a probe has a row for it.
LEMMA ProbeHasRow ==
  ASSUME NEW p \in Protocol, NEW n, NEW s, NEW U, NEW D, NEW e, NodeOK(p, n, s, U, D, e),
         EntryOK(p, e), NEW r \in ProbeKinds, r \in D, ~Answered(D)
  PROVE  \E k \in {"DATA", "INVACK"}, t \in AgentsOf(p) : ProbeRow(p, s, r, k, t)
<1>1. s \in AgentsOf(p) /\ s \in AgentStates /\ Due(s, D) = Copy(s)
  BY AgentsSplit DEF NodeOK, Due, Answered
<1>2. CASE r = "REQ_INVALID"
  <2>1. s \in {"S", "SM"}
    BY <1>1, <1>2, ProbeMeets DEF Copy, AgentStates
  <2> QED BY <1>1, <1>2, <2>1, AgentsSplit DEF ProbeRow
<1>3. CASE r = "RECALL_GOTO_I"
  <2>1. s \in {"E", "EM", "M", "O", "OM", "F", "FM"}
    BY <1>1, <1>3, ProbeMeets DEF Copy, AgentStates
  <2> QED BY <1>1, <1>3, <2>1, AgentsSplit DEF ProbeRow
<1>4. CASE r = "RECALL_GOTO_S"
  <2>1. \/ s = "M" /\ p \in {"MSI", "MESI"}
        \/ s = "M" /\ p \in {"MOSI", "MOESIF"}
        \/ s \in {"E", "EM"} /\ p \in WithE
        \/ s \in {"O", "OM", "F", "FM"}
    BY <1>1, <1>4, ProbeMeets DEF Copy, AgentStates, WithE
  <2> QED BY <1>1, <1>4, <2>1, AgentsSplit DEF ProbeRow, WithE
<1> QED BY <1>2, <1>3, <1>4 DEF ProbeKinds

\* And the directory sees the recall or invalidation answered.
LEMMA ProbeKeeps ==
  ASSUME NEW p \in Protocol, NEW n, NEW s, NEW U, NEW D, NEW e, NodeOK(p, n, s, U, D, e),
         EntryOK(p, e), NEW r \in ProbeKinds, r \in D, ~Answered(D),
         NEW k, NEW t, ProbeRow(p, s, r, k, t), t \in AgentsOf(p)
  PROVE  NodeOK(p, n, t, U \cup {k}, D \ {r}, e)
<1> DEFINE V == U \cup {k}
           E == D \ {r}
<1>1. /\ s \in AgentsOf(p) /\ s \in AgentStates /\ Due(s, D) = Copy(s)
      /\ n \in e.presence /\ HolderOK(n, s, U, D, e) /\ e.state \in DirStates
      /\ e.state \in DirStatesOf(p) /\ e.state # "I"
  BY AgentsSplit, DirStatesSplit, ProbeMeets DEF NodeOK, Due, Answered, EntryOK
<1>2. ~Answered(E) /\ ~Probed(E) /\ Due(t, E) = Copy(t) /\ (Asks(V) <=> Asks(U))
  BY ProbeMeets DEF Answered, Probed, ProbeKinds, Asks, ProbeRow, Due
<1>3. t \in DirStable <=> s \in DirStable
  BY DEF ProbeRow, DirStable
<1>4. RequestPlace(n, t, V, E, e)
  BY <1>2, <1>3 DEF NodeOK, RequestPlace
<1>5. RequestKind(p, n, t, V, E, e)
  <2>1. /\ s = "IS" <=> t = "IS"
        /\ s \in {"IM", "SM", "OM", "FM"} => t \in {"IM", "OM", "FM"}
        /\ s = "EM" => t = "IM" \/ (t = "SM" /\ p = "MESI") \/ t = "FM"
    BY DEF ProbeRow
  <2>2. ~(s = "EM" /\ "GETM" \in U)
    BY DEF NodeOK, RequestKind
  <2>3. ASSUME "GETX" \in U, e.state \in {"I", "E", "EF", "F", "FF"}
        PROVE  t \in {"EM", "FM"}
    <3>1. s \in {"EM", "FM"}
      BY <2>3 DEF NodeOK, RequestKind
    <3>2. r = "RECALL_GOTO_S" /\ p = "MOESIF"
      <4>1. ASSUME r = "RECALL_GOTO_I" PROVE FALSE
        <5>1. GivesUp(s, U, D, Due(s, D))
          BY <4>1, ProbeMeets
        <5>2. HolderOK(n, s, U, D, e)
          BY <1>1
        <5>3. \A c : ~Rests(s, U, D, c)
          BY <4>1 DEF Rests, Probed
        <5>4. \A c, c1 : ~Shares(s, U, D, c, c1)
          BY <4>1 DEF Shares, Probed
        <5> QED BY <1>1, <2>3, <5>2, <5>3, <5>4 DEF HolderOK
      <4>2. r # "REQ_INVALID"
        BY <2>3, ProbeMeets
      <4>3. r = "RECALL_GOTO_S"
        BY <4>1, <4>2 DEF ProbeKinds
      <4>4. p \in {"MESI", "MOESIF"} /\ (p = "MESI" => e.state \notin {"I", "E", "EF", "F", "FF"})
        <5>1. p \in WithE
          BY <2>3 DEF NodeOK, RequestKind
        <5> QED BY <1>1, <4>3, <5>1, ProbeMeets, DirStatesSplit DEF WithE
      <4> QED BY <2>3, <4>3, <4>4
    <3> QED BY <3>1, <3>2 DEF ProbeRow
  <2>4. "GETX" \in U => p \in WithE /\ (s \in {"EM", "IM", "FM"} \/ (s = "SM" /\ p = "MESI"))
    BY DEF NodeOK, RequestKind
  <2>5. "GETX" \in U => t \in {"EM", "IM", "FM"} \/ (t = "SM" /\ p = "MESI")
    BY <2>1, <2>4 DEF ProbeRow
  <2>6. k \in {"DATA", "INVACK"}
    BY DEF ProbeRow
  <2> QED BY <1>2, <2>1, <2>2, <2>3, <2>4, <2>5, <2>6 DEF NodeOK, RequestKind, Answered
<1>6. HolderOK(n, t, V, E, e)
  <2>1. CASE r = "REQ_INVALID"
    <3>1. Invalidated(t, V, E) /\ Collected(n, t, V, E, e)
          /\ e.state \in {"SM", "OM", "FM"} /\ n # e.req_node
      BY <1>2, <2>1, ProbeMeets DEF Invalidated, Collected, ProbeRow, Replies, Copy
    <3>2. n = e.o_f_id => e.state = "SM"
      <4>1. \A c : LastOwner(s, U, D, e, c) => c = Due(s, D)
        BY <2>1 DEF LastOwner, Rests, GivesUp, Probed
      <4> QED BY <1>1, <2>1, <3>1, <4>1, ProbeMeets DEF HolderOK
    <3> QED BY <3>1, <3>2 DEF HolderOK
  <2>2. CASE r = "RECALL_GOTO_I"
    <3>1. \A c : GivesUp(t, V, E, c)
      BY <1>2, <2>2, ProbeMeets DEF GivesUp, ProbeRow, Replies, Copy
    <3>2. \A c : ~Rests(s, U, D, c) /\ ~Collected(n, s, U, D, e)
      BY <2>2, ProbeMeets DEF Rests, Collected, Invalidated, Probed, ProbeKinds
    <3>3. \A c, c1 : ~Shares(s, U, D, c, c1)
      BY <2>2 DEF Shares, Probed
    <3>4. \A c : LastOwner(s, U, D, e, c) => LastOwner(t, V, E, e, c)
      BY <3>1, <3>2 DEF LastOwner
    <3> QED BY <1>1, <3>1, <3>2, <3>3, <3>4 DEF HolderOK
  <2>3. CASE r = "RECALL_GOTO_S"
    <3>1. Shares(t, V, E, Copy(s), Copy(t)) /\ \A c : Shares(t, V, E, c, Copy(t))
      BY <1>2, <2>3, ProbeMeets DEF Shares, ProbeRow, Replies, Copy
    <3>2. /\ e.state \in {"MS", "ES"} => Copy(t) = "S"
          /\ e.state \in {"MO", "OO"} => Copy(t) = "O"
          /\ e.state \in {"EF", "FF"} => Copy(t) = "F"
      BY <1>1, <2>3, ProbeMeets DEF ProbeRow, Copy
    <3>3. e.state \in {"MS", "ES", "MO", "OO", "EF", "FF"}
          /\ (e.state \in {"OO", "FF"} => n = e.o_f_id)
      BY <2>3, ProbeMeets
    <3> QED BY <3>1, <3>2, <3>3 DEF HolderOK
  <2> QED BY <2>1, <2>2, <2>3 DEF ProbeKinds
<1> QED BY <1>1, <1>4, <1>5, <1>6 DEF NodeOK

--------------------------------------------------------------------------------
(* A block as the directory's handlers see it: ag[n], U[n] and D[n] are the  *)
(* agent of n and the kinds on the way up from it and down to it.            *)

\* A request that is taken does not touch the copy.
LEMMA AskTaken ==
  ASSUME NEW s, NEW U, NEW D, NEW c, Rests(s, U, D, c), NEW k \in ReqKinds
  PROVE  Rests(s, U \ {k}, D, c)
  BY DEF Rests, Replies, ReqKinds

\* A probe under way to it puts the copy in question.
LEMMA ProbeSent ==
  ASSUME NEW s, NEW U, NEW D, NEW c, Rests(s, U, D, c)
  PROVE  /\ GivesUp(s, U, D \cup {"RECALL_GOTO_I"}, c)
         /\ \A c1 : Shares(s, U, D \cup {"RECALL_GOTO_S"}, c, c1)
         /\ c = "S" => Invalidated(s, U, D \cup {"REQ_INVALID"})
<1>1. \A r \in ProbeKinds : Due(s, D \cup {r}) = Due(s, D)
  BY DEF ProbeKinds, Due
<1> QED BY <1>1 DEF Rests, Probed, GivesUp, Shares, Invalidated, ProbeKinds

\* The reply that is taken settles it.
LEMMA ReplyTaken ==
  ASSUME NEW s, NEW U, NEW D
  PROVE  /\ \A c : GivesUp(s, U, D, c) /\ "DATA" \in U => Rests(s, U \ {"DATA"}, D, "I")
         /\ \A c, c1 : Shares(s, U, D, c, c1) /\ "DATA" \in U => Rests(s, U \ {"DATA"}, D, c1)
         /\ Invalidated(s, U, D) /\ "INVACK" \in U => Rests(s, U \ {"INVACK"}, D, "I")
  BY DEF GivesUp, Shares, Invalidated, Rests, Replies

\* An answer under way to it says what the copy will be.
LEMMA AnswerSent ==
  ASSUME NEW s, NEW U, NEW D, NEW c, Rests(s, U, D, c), ~Answered(D), NEW x \in AnsKinds
  PROVE  Rests(s, U, D \cup {x}, Due(s, {x}))
<1>1. Due(s, D \cup {x}) = Due(s, {x})
  BY DEF AnsKinds, Answered, Due
<1> QED BY <1>1 DEF Rests, Probed, AnsKinds

AckSet(U, D) == {n \in Procs : "REQ_INVALID" \in D[n] \/ "INVACK" \in U[n]}

BlockIs(p, ag, U, D, e) ==
  /\ p \in Protocol /\ e \in DirEntry
  /\ U \in [Procs -> SUBSET UpKinds] /\ D \in [Procs -> SUBSET DownKinds]
  /\ EntryOK(p, e)
  /\ e.inv_ack_waiting = Cardinality(AckSet(U, D))
  /\ \A n \in Procs : NodeOK(p, n, ag[n], U[n], D[n], e)

\* The message k of src is taken, and x is sent to the nodes of dsts.
Took(U, src, k)  == [U EXCEPT ![src] = @ \ {k}]
Gave(D, dsts, x) == [n \in Procs |-> IF n \in dsts THEN D[n] \cup {x} ELSE D[n]]

\* Nothing on the way to the node is like x, or must arrive before it.
Fresh(D, x) == IF x \in AnsKinds THEN D = {} ELSE x \notin D

\* The directory answers or asks with x, the entry becoming f.
Handles(p, ag, U, D, src, k, f, dsts, x) ==
  /\ BlockIs(p, ag, Took(U, src, k), Gave(D, dsts, x), f)
  /\ \A n \in dsts : n \in Procs /\ Fresh(D[n], x)

\* What happens to the two views of a node.
LEMMA ViewTypes ==
  ASSUME NEW U \in [Procs -> SUBSET UpKinds], NEW D \in [Procs -> SUBSET DownKinds],
         NEW src \in Procs, NEW k, NEW dsts, NEW x \in DownKinds
  PROVE  /\ Took(U, src, k) \in [Procs -> SUBSET UpKinds]
         /\ Gave(D, dsts, x) \in [Procs -> SUBSET DownKinds]
  BY DEF Took, Gave

\* The views hold nothing but the kinds of the network.
LEMMA ViewKinds ==
  ASSUME NEW D \in SUBSET DownKinds, ~Answered(D), ~Probed(D)
  PROVE  D = {}
  BY DEF DownKinds, AnsKinds, ProbeKinds, Answered, Probed

--------------------------------------------------------------------------------
(* The nodes' requests, whatever becomes of the copies.                      *)

\* Nobody's request is mistaken when the entry becomes exclusive or forwarded.
Sharpens(e, f) == f.state \in {"I", "E", "EF", "F", "FF"} => e.state \in {"I", "E", "EF", "F", "FF"}

RequestOK(p, n, s, U, D, e) == RequestPlace(n, s, U, D, e) /\ RequestKind(p, n, s, U, D, e)

\* The answer x is the one that an agent in state s waits for.
Fits(p, s, x) == \/ x = "DATA" /\ s \in {"IS", "IM"}
                 \/ x = "DATA_E" /\ s = "IS" /\ p \in WithE
                 \/ x = "ACK" /\ s \in {"SM", "EM", "OM", "FM"}

\* A request that is answered at once.
LEMMA AnsweredAtOnce ==
  ASSUME NEW p, NEW n, NEW s, NEW U, NEW D, NEW e, RequestOK(p, n, s, U, D, e),
         NEW f, e.state \in DirStable, f.state \in DirStable, Sharpens(e, f),
         NEW src, NEW k \in ReqKinds, n = src => k \in U,
         NEW x \in AnsKinds, n = src => Fits(p, s, x)
  PROVE  RequestOK(p, n, s, IF n = src THEN U \ {k} ELSE U,
                   IF n \in {src} THEN D \cup {x} ELSE D, f)
<1>1. CASE n # src
  BY <1>1 DEF RequestOK, RequestPlace, RequestKind, Asks, Answered, Taken, Sharpens
<1>2. CASE n = src
  <2>1. Asks(U) /\ ~Asks(U \ {k}) /\ s \notin DirStable /\ ~Answered(D)
    BY <1>2 DEF RequestOK, RequestPlace, RequestKind, Asks, ReqKinds
  <2>2. Answered(D \cup {x})
    BY DEF Answered, AnsKinds
  <2>3. RequestPlace(n, s, U \ {k}, D \cup {x}, f)
    BY <2>1, <2>2 DEF RequestPlace, Taken
  <2>4. RequestKind(p, n, s, U \ {k}, D \cup {x}, f)
    BY <1>2, <2>1 DEF RequestKind, Taken, Fits, Asks, Answered, AnsKinds
  <2> QED BY <1>2, <2>3, <2>4 DEF RequestOK
<1> QED BY <1>1, <1>2

\* A request that is taken while the directory probes other nodes.
LEMMA TakenWhileProbing ==
  ASSUME NEW p, NEW n, NEW s, NEW U, NEW D, NEW e, RequestOK(p, n, s, U, D, e),
         NEW f, e.state \in DirStable, f.state \notin DirStable, Sharpens(e, f),
         NEW src, f.req_node = src, NEW k \in ReqKinds, n = src => k \in U,
         k = "GETS" <=> f.state \in Reading,
         NEW dsts, NEW x \in ProbeKinds
  PROVE  RequestOK(p, n, s, IF n = src THEN U \ {k} ELSE U,
                   IF n \in dsts THEN D \cup {x} ELSE D, f)
<1> DEFINE E == IF n \in dsts THEN D \cup {x} ELSE D
<1>1. \A a \in AnsKinds : a \in E <=> a \in D
  BY DEF AnsKinds, ProbeKinds
<1> SUFFICES RequestOK(p, n, s, IF n = src THEN U \ {k} ELSE U, E, f)
  OBVIOUS
<1> HIDE DEF E
<1>2. CASE n # src
  BY <1>1, <1>2 DEF RequestOK, RequestPlace, RequestKind, Asks, Answered, Taken, Sharpens, AnsKinds
<1>3. CASE n = src
  <2>1. Asks(U) /\ ~Asks(U \ {k}) /\ s \notin DirStable /\ ~Answered(D) /\ Taken(n, f)
    BY <1>3 DEF RequestOK, RequestPlace, RequestKind, Asks, ReqKinds, Taken
  <2>2. ~Answered(E)
    BY <1>1, <2>1 DEF Answered, AnsKinds
  <2>3. RequestPlace(n, s, U \ {k}, E, f)
    BY <2>1, <2>2 DEF RequestPlace
  <2>4. s = "IS" <=> k = "GETS"
    BY <1>3 DEF RequestOK, RequestKind, ReqKinds
  <2>5. RequestKind(p, n, s, U \ {k}, E, f)
    BY <1>3, <2>1, <2>2, <2>4 DEF RequestKind, Asks, Answered
  <2> QED BY <1>3, <2>3, <2>5 DEF RequestOK
<1> QED BY <1>2, <1>3

\* A reply that lets the directory answer the request it has taken.
LEMMA AnsweredByReply ==
  ASSUME NEW p, NEW n, NEW s, NEW U, NEW D, NEW e, RequestOK(p, n, s, U, D, e),
         NEW f, e.state \notin DirStable, f.state \in DirStable, Sharpens(e, f),
         NEW src, NEW k \in {"DATA", "INVACK"},
         NEW x \in AnsKinds, n = e.req_node => Fits(p, s, x)
  PROVE  RequestOK(p, n, s, IF n = src THEN U \ {k} ELSE U,
                   IF n \in {e.req_node} THEN D \cup {x} ELSE D, f)
<1> DEFINE V == IF n = src THEN U \ {k} ELSE U
<1>1. \A a \in ReqKinds : a \in V <=> a \in U
  BY DEF ReqKinds
<1> SUFFICES RequestOK(p, n, s, V, IF n \in {e.req_node} THEN D \cup {x} ELSE D, f)
  OBVIOUS
<1> HIDE DEF V
<1>2. Asks(V) <=> Asks(U)
  BY <1>1 DEF Asks, ReqKinds
<1>3. CASE n # e.req_node
  BY <1>1, <1>2, <1>3 DEF RequestOK, RequestPlace, RequestKind, Taken, Sharpens, ReqKinds
<1>4. CASE n = e.req_node
  <2>1. ~Asks(V) /\ s \notin DirStable /\ ~Answered(D)
    BY <1>2, <1>4 DEF RequestOK, RequestPlace, Taken
  <2>2. Answered(D \cup {x})
    BY DEF Answered, AnsKinds
  <2>3. RequestPlace(n, s, V, D \cup {x}, f)
    BY <2>1, <2>2 DEF RequestPlace, Taken
  <2>4. RequestKind(p, n, s, V, D \cup {x}, f)
    BY <1>4, <2>1 DEF RequestKind, Taken, Fits, Asks, Answered, AnsKinds
  <2> QED BY <1>4, <2>3, <2>4 DEF RequestOK
<1> QED BY <1>3, <1>4

\* A reply after which the directory goes on probing for the same request.
LEMMA StillTaken ==
  ASSUME NEW p, NEW n, NEW s, NEW U, NEW D, NEW e, RequestOK(p, n, s, U, D, e),
         NEW f, f.state = e.state, f.req_node = e.req_node,
         NEW src, NEW k \in {"DATA", "INVACK"}, NEW dsts, NEW x \in ProbeKinds
  PROVE  RequestOK(p, n, s, IF n = src THEN U \ {k} ELSE U,
                   IF n \in dsts THEN D \cup {x} ELSE D, f)
<1> DEFINE V == IF n = src THEN U \ {k} ELSE U
           E == IF n \in dsts THEN D \cup {x} ELSE D
<1>1. /\ \A a \in ReqKinds : a \in V <=> a \in U
      /\ \A a \in AnsKinds : a \in E <=> a \in D
  BY DEF ReqKinds, AnsKinds, ProbeKinds
<1> HIDE DEF V, E
<1>2. RequestOK(p, n, s, V, E, f)
  BY <1>1 DEF RequestOK, RequestPlace, RequestKind, Asks, Answered, Taken, ReqKinds, AnsKinds
<1> QED BY <1>2 DEF V, E

--------------------------------------------------------------------------------
(* What the handlers have in common.                                         *)

CopyKept(n, s, U, D, e) == IF n \in e.presence THEN HolderOK(n, s, U, D, e) ELSE Rests(s, U, D, "I")

RequestsAfter(p, ag, U, D, src, k, f, dsts, x) ==
  \A n \in Procs : RequestOK(p, n, ag[n], Took(U, src, k)[n], Gave(D, dsts, x)[n], f)
CopiesAfter(ag, U, D, src, k, f, dsts, x) ==
  \A n \in Procs : CopyKept(n, ag[n], Took(U, src, k)[n], Gave(D, dsts, x)[n], f)

\* A handler is right when requests, copies, entry and acknowledgements are.
LEMMA HandlesWell ==
  ASSUME NEW p, NEW ag, NEW U, NEW D, NEW e, BlockIs(p, ag, U, D, e),
         NEW src \in Procs, NEW k, NEW dsts \in SUBSET Procs, NEW x \in DownKinds,
         NEW f \in DirEntry, EntryOK(p, f),
         f.inv_ack_waiting = Cardinality(AckSet(Took(U, src, k), Gave(D, dsts, x))),
         RequestsAfter(p, ag, U, D, src, k, f, dsts, x),
         CopiesAfter(ag, U, D, src, k, f, dsts, x),
         \A n \in dsts : Fresh(D[n], x)
  PROVE  Handles(p, ag, U, D, src, k, f, dsts, x)
<1>1. /\ Took(U, src, k) \in [Procs -> SUBSET UpKinds]
      /\ Gave(D, dsts, x) \in [Procs -> SUBSET DownKinds]
  BY ViewTypes DEF BlockIs
<1>2. \A n \in Procs : NodeOK(p, n, ag[n], Took(U, src, k)[n], Gave(D, dsts, x)[n], f)
  BY DEF BlockIs, NodeOK, RequestsAfter, CopiesAfter, RequestOK, CopyKept
<1> QED BY <1>1, <1>2 DEF BlockIs, Handles

\* Sets of processors can be counted.
LEMMA Counting ==
  ASSUME NEW S \in SUBSET Procs
  PROVE  /\ IsFiniteSet(S) /\ Cardinality(S) \in Nat
         /\ Cardinality(S) = 0 <=> S = {}
         /\ \A n \in Procs : /\ n \notin S => Cardinality(S \cup {n}) = Cardinality(S) + 1
                             /\ n \in S => Cardinality(S \ {n}) = Cardinality(S) - 1
<1>1. IsFiniteSet(Procs)
  BY FS_Interval, NumProcsAssumption DEF Procs
<1>2. IsFiniteSet(S)
  BY <1>1, FS_Subset
<1> QED BY <1>2, FS_CardinalityType, FS_EmptySet, FS_AddElement, FS_RemoveElement

\* A block at rest: nothing is asked of anybody, nobody is counted on.
LEMMA AtRest ==
  ASSUME NEW p, NEW ag, NEW U, NEW D, NEW e, BlockIs(p, ag, U, D, e), e.state \in DirStable
  PROVE  /\ \A n \in Procs : ~Probed(D[n]) /\ ~Replies(U[n])
         /\ AckSet(U, D) = {} /\ e.inv_ack_waiting = 0
<1>1. ASSUME NEW n \in Procs
      PROVE  ~Probed(D[n]) /\ ~Replies(U[n])
  <2>1. NodeOK(p, n, ag[n], U[n], D[n], e) /\ (e.state = "I" => e.presence = {})
    BY DEF BlockIs, EntryOK
  <2>2. \E c : Rests(ag[n], U[n], D[n], c)
    BY <2>1 DEF NodeOK, HolderOK, DirStable
  <2> QED BY <2>2 DEF Rests
<1>2. AckSet(U, D) = {}
  BY <1>1 DEF AckSet, Probed, Replies
<1>3. e.inv_ack_waiting = Cardinality(AckSet(U, D))
  BY DEF BlockIs
<1> QED BY <1>1, <1>2, <1>3, FS_EmptySet

\* Whoever asks has no answer under way, and the copy its state says.
LEMMA Asker ==
  ASSUME NEW p, NEW ag, NEW U, NEW D, NEW e, BlockIs(p, ag, U, D, e),
         NEW src \in Procs, NEW k \in ReqKinds, k \in U[src]
  PROVE  /\ ag[src] \notin DirStable /\ ag[src] \in AgentStates
         /\ ~Answered(D[src]) /\ Due(ag[src], D[src]) = Copy(ag[src])
         /\ k = "GETS" => ag[src] = "IS"
         /\ k = "GETM" => ag[src] \in {"IM", "SM", "OM", "FM"}
         /\ k = "GETX" => /\ ag[src] \in {"EM", "IM", "FM", "SM"} /\ p \in WithE
                          /\ ag[src] = "SM" => p = "MESI"
                          /\ e.state \in {"I", "E", "EF", "F", "FF"} => ag[src] \in {"EM", "FM"}
<1>1. NodeOK(p, src, ag[src], U[src], D[src], e) /\ p \in Protocol
  BY DEF BlockIs
<1>2. ag[src] \in AgentStates
  BY <1>1, AgentsSplit DEF NodeOK
<1>3. ag[src] \notin DirStable /\ ~Answered(D[src])
  BY <1>1 DEF NodeOK, RequestPlace, Asks, ReqKinds
<1> QED BY <1>1, <1>2, <1>3 DEF NodeOK, RequestKind, Due, Answered

\* So does the node whose request has been taken.
LEMMA TakenAsker ==
  ASSUME NEW p, NEW ag, NEW U, NEW D, NEW e, BlockIs(p, ag, U, D, e), e.state \notin DirStable
  PROVE  LET q == e.req_node IN
         /\ q \in Procs /\ ag[q] \notin DirStable /\ ag[q] \in AgentStates
         /\ ~Answered(D[q]) /\ Due(ag[q], D[q]) = Copy(ag[q])
         /\ ag[q] = "IS" <=> e.state \in Reading
<1> DEFINE q == e.req_node
<1>1. q \in Procs /\ Taken(q, e)
  BY DEF BlockIs, DirEntry, Taken
<1>2. NodeOK(p, q, ag[q], U[q], D[q], e) /\ p \in Protocol
  BY <1>1 DEF BlockIs
<1> HIDE DEF q
<1>3. ag[q] \in AgentStates
  BY <1>2, AgentsSplit DEF NodeOK
<1>4. ag[q] \notin DirStable /\ ~Answered(D[q])
  BY <1>1, <1>2 DEF NodeOK, RequestPlace
<1> QED BY <1>1, <1>2, <1>3, <1>4 DEF NodeOK, RequestKind, Due, Answered, q

\* Probes of owners and their answers count for nothing.
LEMMA SameAcks ==
  ASSUME NEW U \in [Procs -> SUBSET UpKinds], NEW D \in [Procs -> SUBSET DownKinds],
         NEW src \in Procs, NEW k, k # "INVACK", NEW dsts, NEW x \in DownKinds, x # "REQ_INVALID"
  PROVE  AckSet(Took(U, src, k), Gave(D, dsts, x)) = AckSet(U, D)
<1>1. \A n \in Procs :
        /\ "INVACK" \in Took(U, src, k)[n] <=> "INVACK" \in U[n]
        /\ "REQ_INVALID" \in Gave(D, dsts, x)[n] <=> "REQ_INVALID" \in D[n]
  BY DEF Took, Gave
<1> QED BY <1>1 DEF AckSet

\* Entries with one holder, or with holders of one kind.
LEMMA PlainHolder ==
  ASSUME NEW n, NEW s, NEW U, NEW D, NEW e, e.state \in {"S", "E", "M"}
  PROVE  HolderOK(n, s, U, D, e) <=> Rests(s, U, D, e.state)
  BY DEF HolderOK

\* The copies after a step, node by node.
LEMMA CopiesSplit ==
  ASSUME NEW ag, NEW U \in [Procs -> SUBSET UpKinds], NEW D \in [Procs -> SUBSET DownKinds],
         NEW src \in Procs, NEW k, NEW f, NEW dsts \in SUBSET Procs, NEW x \in DownKinds,
         \A n \in Procs \ dsts : n # src => CopyKept(n, ag[n], U[n], D[n], f),
         src \notin dsts => CopyKept(src, ag[src], U[src] \ {k}, D[src], f),
         \A n \in dsts : n # src => CopyKept(n, ag[n], U[n], D[n] \cup {x}, f),
         src \in dsts => CopyKept(src, ag[src], U[src] \ {k}, D[src] \cup {x}, f)
  PROVE  CopiesAfter(ag, U, D, src, k, f, dsts, x)
<1> SUFFICES ASSUME NEW n \in Procs
             PROVE  CopyKept(n, ag[n], Took(U, src, k)[n], Gave(D, dsts, x)[n], f)
  BY DEF CopiesAfter
<1>1. /\ Took(U, src, k)[n] = IF n = src THEN U[n] \ {k} ELSE U[n]
      /\ Gave(D, dsts, x)[n] = IF n \in dsts THEN D[n] \cup {x} ELSE D[n]
  BY DEF Took, Gave
<1>2. CASE n = src /\ n \in dsts
  BY <1>1, <1>2
<1>3. CASE n = src /\ n \notin dsts
  BY <1>1, <1>3
<1>4. CASE n # src /\ n \in dsts
  BY <1>1, <1>4
<1>5. CASE n # src /\ n \notin dsts
  BY <1>1, <1>5
<1> QED BY <1>2, <1>3, <1>4, <1>5

\* The requests after a step, node by node.
LEMMA RequestsSplit ==
  ASSUME NEW p, NEW ag, NEW U \in [Procs -> SUBSET UpKinds], NEW D \in [Procs -> SUBSET DownKinds],
         NEW src \in Procs, NEW k, NEW f, NEW dsts, NEW x \in DownKinds,
         \A n \in Procs : RequestOK(p, n, ag[n], IF n = src THEN U[n] \ {k} ELSE U[n],
                                    IF n \in dsts THEN D[n] \cup {x} ELSE D[n], f)
  PROVE  RequestsAfter(p, ag, U, D, src, k, f, dsts, x)
  BY DEF RequestsAfter, Took, Gave

\* What a block's correctness says of each part.
LEMMA BlockParts ==
  ASSUME NEW p, NEW ag, NEW U, NEW D, NEW e, BlockIs(p, ag, U, D, e)
  PROVE  /\ p \in Protocol /\ EntryOK(p, e) /\ e \in DirEntry
         /\ e.presence \in SUBSET Procs /\ e.req_node \in Procs
         /\ U \in [Procs -> SUBSET UpKinds] /\ D \in [Procs -> SUBSET DownKinds]
         /\ e.inv_ack_waiting = Cardinality(AckSet(U, D))
         /\ \A n \in Procs : /\ RequestOK(p, n, ag[n], U[n], D[n], e)
                             /\ CopyKept(n, ag[n], U[n], D[n], e)
                             /\ D[n] \in SUBSET DownKinds
  BY DEF BlockIs, DirEntry, NodeOK, RequestOK, CopyKept

\* The kinds in the views.
LEMMA Kinds ==
  /\ AnsKinds \subseteq DownKinds /\ ProbeKinds \subseteq DownKinds
  /\ ReqKinds \subseteq UpKinds /\ "DATA" \in UpKinds /\ "INVACK" \in UpKinds
  /\ AnsKinds = {"DATA", "DATA_E", "ACK"} /\ ReqKinds = {"GETS", "GETM", "GETX"}
  /\ ProbeKinds = {"REQ_INVALID", "RECALL_GOTO_I", "RECALL_GOTO_S"}
  BY DEF UpKinds, DownKinds, AnsKinds, ProbeKinds, ReqKinds

\* The requests of all nodes, after a request that is answered at once.
LEMMA RequestsAnswered ==
  ASSUME NEW p, NEW ag, NEW U, NEW D, NEW e, BlockIs(p, ag, U, D, e),
         NEW src \in Procs, NEW k \in ReqKinds, k \in U[src],
         NEW f, e.state \in DirStable, f.state \in DirStable, Sharpens(e, f),
         NEW x \in AnsKinds, Fits(p, ag[src], x)
  PROVE  RequestsAfter(p, ag, U, D, src, k, f, {src}, x)
<1>1. ASSUME NEW n \in Procs
      PROVE  RequestOK(p, n, ag[n], IF n = src THEN U[n] \ {k} ELSE U[n],
                       IF n \in {src} THEN D[n] \cup {x} ELSE D[n], f)
  <2>1. RequestOK(p, n, ag[n], U[n], D[n], e)
    BY BlockParts
  <2>2. (n = src => k \in U[n]) /\ (n = src => Fits(p, ag[n], x))
    OBVIOUS
  <2> QED BY <2>1, <2>2, AnsweredAtOnce
<1> QED BY <1>1, RequestsSplit, BlockParts, Kinds

\* After a request that is taken.
LEMMA RequestsTaken ==
  ASSUME NEW p, NEW ag, NEW U, NEW D, NEW e, BlockIs(p, ag, U, D, e),
         NEW src \in Procs, NEW k \in ReqKinds, k \in U[src],
         NEW f, e.state \in DirStable, f.state \notin DirStable, Sharpens(e, f),
         f.req_node = src, k = "GETS" <=> f.state \in Reading,
         NEW dsts, NEW x \in ProbeKinds
  PROVE  RequestsAfter(p, ag, U, D, src, k, f, dsts, x)
<1>1. ASSUME NEW n \in Procs
      PROVE  RequestOK(p, n, ag[n], IF n = src THEN U[n] \ {k} ELSE U[n],
                       IF n \in dsts THEN D[n] \cup {x} ELSE D[n], f)
  <2>1. RequestOK(p, n, ag[n], U[n], D[n], e)
    BY BlockParts
  <2>2. n = src => k \in U[n]
    OBVIOUS
  <2> QED BY <2>1, <2>2, TakenWhileProbing
<1> QED BY <1>1, RequestsSplit, BlockParts, Kinds

\* After a reply that lets the directory answer.
LEMMA RequestsReplied ==
  ASSUME NEW p, NEW ag, NEW U, NEW D, NEW e, BlockIs(p, ag, U, D, e),
         NEW src \in Procs, NEW k \in {"DATA", "INVACK"},
         NEW f, e.state \notin DirStable, f.state \in DirStable, Sharpens(e, f),
         NEW q, q = e.req_node, NEW x \in AnsKinds, Fits(p, ag[q], x)
  PROVE  RequestsAfter(p, ag, U, D, src, k, f, {q}, x)
<1>1. ASSUME NEW n \in Procs
      PROVE  RequestOK(p, n, ag[n], IF n = src THEN U[n] \ {k} ELSE U[n],
                       IF n \in {q} THEN D[n] \cup {x} ELSE D[n], f)
  <2>1. RequestOK(p, n, ag[n], U[n], D[n], e)
    BY BlockParts
  <2>2. n = e.req_node => Fits(p, ag[n], x)
    OBVIOUS
  <2> QED BY <2>1, <2>2, AnsweredByReply
<1> QED BY <1>1, RequestsSplit, BlockParts, Kinds

\* After a reply after which it goes on probing.
LEMMA RequestsKept ==
  ASSUME NEW p, NEW ag, NEW U, NEW D, NEW e, BlockIs(p, ag, U, D, e),
         NEW src \in Procs, NEW k \in {"DATA", "INVACK"},
         NEW f, f.state = e.state, f.req_node = e.req_node,
         NEW dsts, NEW x \in ProbeKinds
  PROVE  RequestsAfter(p, ag, U, D, src, k, f, dsts, x)
<1>1. ASSUME NEW n \in Procs
      PROVE  RequestOK(p, n, ag[n], IF n = src THEN U[n] \ {k} ELSE U[n],
                       IF n \in dsts THEN D[n] \cup {x} ELSE D[n], f)
  <2>1. RequestOK(p, n, ag[n], U[n], D[n], e)
    BY BlockParts
  <2> QED BY <2>1, StillTaken
<1> QED BY <1>1, RequestsSplit, BlockParts, Kinds

--------------------------------------------------------------------------------
(* Requests that the directory answers at once.                              *)

\* A block nobody has, or one more sharer: the answer comes from memory.
LEMMA GrantFromMemory ==
  ASSUME NEW p, NEW ag, NEW U, NEW D, NEW e, BlockIs(p, ag, U, D, e),
         NEW src \in Procs, NEW k \in ReqKinds, k \in U[src],
         NEW f \in DirEntry, NEW x \in AnsKinds,
         e.state = "I" \/ (e.state = "S" /\ f.state = "S"),
         \/ k \in {"GETM", "GETX"} /\ f.state = "M" /\ x = "DATA"
         \/ k = "GETS" /\ f.state = "S" /\ x = "DATA" /\ "S" \in DirStatesOf(p)
         \/ k = "GETS" /\ f.state = "E" /\ x = "DATA_E" /\ p \in WithE,
         f.presence = e.presence \cup {src}, f.active_sharers = e.active_sharers + 1,
         f.inv_ack_waiting = e.inv_ack_waiting
  PROVE  src \notin e.presence /\ Handles(p, ag, U, D, src, k, f, {src}, x)
<1>1. e.state \in DirStable /\ x \in DownKinds /\ k # "INVACK" /\ x # "REQ_INVALID"
  BY Kinds DEF DirStable
<1>2. \A n \in Procs : IF n \in e.presence THEN Rests(ag[n], U[n], D[n], "S") /\ e.state = "S"
                                           ELSE Rests(ag[n], U[n], D[n], "I")
  BY BlockParts, PlainHolder DEF CopyKept, EntryOK
<1>3. src \notin e.presence /\ ag[src] \in {"IS", "IM"} /\ (k = "GETS" <=> ag[src] = "IS")
  <2>1. \/ Copy(ag[src]) = "I" /\ src \notin e.presence
        \/ Copy(ag[src]) = "S" /\ e.state = "S" /\ src \in e.presence
    BY <1>2, Asker DEF Rests
  <2>2. CASE k = "GETS"
    BY <2>1, <2>2, Asker DEF Copy
  <2>3. CASE k \in {"GETM", "GETX"}
    <3>1. e.state = "I" /\ src \notin e.presence
      BY <2>3, BlockParts DEF EntryOK
    <3>2. Copy(ag[src]) = "I"
      BY <2>1, <3>1
    <3> QED BY <2>3, <3>1, <3>2, Asker DEF Copy
  <2> QED BY <2>2, <2>3 DEF ReqKinds
<1>4. Fits(p, ag[src], x) /\ Due(ag[src], {x}) = f.state
  BY <1>3 DEF Fits, Due
<1>5. ~Answered(D[src]) /\ D[src] = {}
  BY <1>1, Asker, AtRest, ViewKinds, BlockParts
<1>6. RequestsAfter(p, ag, U, D, src, k, f, {src}, x)
  <2>1. f.state \in DirStable /\ Sharpens(e, f)
    BY DEF DirStable, Sharpens
  <2> QED BY <1>1, <1>4, <2>1, RequestsAnswered
<1>7. CopiesAfter(ag, U, D, src, k, f, {src}, x)
  <2>1. ASSUME NEW n \in Procs, n # src
        PROVE  CopyKept(n, ag[n], U[n], D[n], f)
    BY <1>2, <2>1, PlainHolder DEF CopyKept
  <2>2. Rests(ag[src], U[src] \ {k}, D[src], "I")
    BY <1>2, <1>3, AskTaken
  <2>3. Rests(ag[src], U[src] \ {k}, D[src] \cup {x}, f.state)
    BY <1>4, <1>5, <2>2, AnswerSent
  <2>4. CopyKept(src, ag[src], U[src] \ {k}, D[src] \cup {x}, f)
    BY <2>3, PlainHolder DEF CopyKept
  <2> QED BY <1>1, <2>1, <2>4, CopiesSplit, BlockParts
<1>8. EntryOK(p, f)
  <2>1. f.active_sharers = Cardinality(f.presence)
    BY <1>3, Counting, BlockParts DEF EntryOK
  <2>2. f.state \in DirStatesOf(p)
    BY BlockParts, DirStatesSplit
  <2>3. f.state # "S" => f.presence = {src}
    BY BlockParts DEF EntryOK
  <2> QED BY <1>3, <2>1, <2>2, <2>3 DEF EntryOK, Sole, Owned, Upgrading
<1>9. f.inv_ack_waiting = Cardinality(AckSet(Took(U, src, k), Gave(D, {src}, x)))
  BY <1>1, SameAcks, BlockParts
<1> QED BY <1>1, <1>3, <1>5, <1>6, <1>7, <1>8, <1>9, HandlesWell DEF Fresh

\* Its only holder asks to write: the copy it has becomes M.
LEMMA GrantToHolder ==
  ASSUME NEW p, NEW ag, NEW U, NEW D, NEW e, BlockIs(p, ag, U, D, e),
         NEW src \in Procs, NEW k \in ReqKinds, k \in U[src],
         NEW f \in DirEntry, f.state = "M",
         \/ e.state = "S" /\ e.presence = {src} /\ k \in {"GETM", "GETX"}
         \/ e.state = "E" /\ k = "GETX",
         f.presence = e.presence, f.active_sharers = e.active_sharers,
         f.inv_ack_waiting = e.inv_ack_waiting
  PROVE  Handles(p, ag, U, D, src, k, f, {src}, "ACK")
<1>1. e.state \in DirStable /\ k # "INVACK" /\ "ACK" \in AnsKinds /\ "ACK" \in DownKinds
  BY Kinds DEF DirStable
<1>2. \A n \in Procs : IF n \in e.presence THEN Rests(ag[n], U[n], D[n], e.state)
                                           ELSE Rests(ag[n], U[n], D[n], "I")
  BY BlockParts, PlainHolder DEF CopyKept
<1>3. e.presence = {src} /\ ag[src] \in {"SM", "EM"}
  <2>1. Copy(ag[src]) = IF src \in e.presence THEN e.state ELSE "I"
    BY <1>2, Asker DEF Rests
  <2>2. CASE e.state = "S"
    BY <2>1, <2>2, Asker DEF Copy, DirStable, AgentStates
  <2>3. CASE e.state = "E"
    <3>1. src \in e.presence /\ ag[src] \in {"SM", "EM"}
      BY <2>1, <2>3, Asker DEF Copy
    <3>2. \E h \in Procs : e.presence = {h}
      BY <2>3, BlockParts DEF EntryOK, Sole
    <3> QED BY <3>1, <3>2
  <2> QED BY <2>2, <2>3
<1>4. Fits(p, ag[src], "ACK") /\ Due(ag[src], {"ACK"}) = "M"
  BY <1>3 DEF Fits, Due
<1>5. ~Answered(D[src]) /\ D[src] = {}
  BY <1>1, Asker, AtRest, ViewKinds, BlockParts
<1>6. RequestsAfter(p, ag, U, D, src, k, f, {src}, "ACK")
  <2>1. f.state \in DirStable /\ Sharpens(e, f)
    BY DEF DirStable, Sharpens
  <2> QED BY <1>1, <1>4, <2>1, RequestsAnswered
<1>7. CopiesAfter(ag, U, D, src, k, f, {src}, "ACK")
  <2>1. ASSUME NEW n \in Procs, n # src
        PROVE  CopyKept(n, ag[n], U[n], D[n], f)
    BY <1>2, <1>3, <2>1 DEF CopyKept
  <2>2. Rests(ag[src], U[src] \ {k}, D[src], e.state)
    BY <1>2, <1>3, AskTaken
  <2>3. Rests(ag[src], U[src] \ {k}, D[src] \cup {"ACK"}, "M")
    BY <1>1, <1>4, <1>5, <2>2, AnswerSent
  <2>4. CopyKept(src, ag[src], U[src] \ {k}, D[src] \cup {"ACK"}, f)
    BY <1>3, <2>3, PlainHolder DEF CopyKept
  <2> QED BY <1>1, <2>1, <2>4, CopiesSplit, BlockParts
<1>8. EntryOK(p, f)
  <2>1. f.state \in DirStatesOf(p)
    BY BlockParts, DirStatesSplit
  <2> QED BY <1>3, <2>1, BlockParts DEF EntryOK, Sole, Owned, Upgrading
<1>9. f.inv_ack_waiting = Cardinality(AckSet(Took(U, src, k), Gave(D, {src}, "ACK")))
  BY <1>1, SameAcks, BlockParts
<1> QED BY <1>1, <1>5, <1>6, <1>7, <1>8, <1>9, HandlesWell DEF Fresh

--------------------------------------------------------------------------------
(* Requests for which the directory first recalls or invalidates copies.     *)

\* The other sharers are told to go; they are the ones counted on.
LEMMA InvalidationCounts ==
  ASSUME NEW U \in [Procs -> SUBSET UpKinds], NEW D \in [Procs -> SUBSET DownKinds],
         AckSet(U, D) = {}, NEW src \in Procs, NEW k \in ReqKinds, NEW victims \in SUBSET Procs
  PROVE  AckSet(Took(U, src, k), Gave(D, victims, "REQ_INVALID")) = victims
<1>1. \A n \in Procs : /\ "INVACK" \notin Took(U, src, k)[n]
                       /\ "REQ_INVALID" \in Gave(D, victims, "REQ_INVALID")[n] <=> n \in victims
  BY DEF Took, Gave, AckSet
<1> QED BY <1>1 DEF AckSet

\* A store to a shared block.
LEMMA InvalidateSharers ==
  ASSUME NEW p, NEW ag, NEW U, NEW D, NEW e, BlockIs(p, ag, U, D, e),
         NEW src \in Procs, NEW k \in {"GETM", "GETX"}, k \in U[src], e.state = "S",
         NEW f \in DirEntry, f.state = "SM", f.req_node = src,
         f.presence = e.presence, f.active_sharers = e.active_sharers,
         f.inv_ack_waiting = Cardinality(e.presence \ {src}),
         p = "MSI" => (f.getM_upgrade <=> src \in e.presence)
  PROVE  Handles(p, ag, U, D, src, k, f, e.presence \ {src}, "REQ_INVALID")
<1> DEFINE victims == e.presence \ {src}
<1>1. /\ e.state \in DirStable /\ k \in ReqKinds /\ "REQ_INVALID" \in DownKinds
      /\ "REQ_INVALID" \in ProbeKinds /\ "REQ_INVALID" \notin AnsKinds /\ victims \in SUBSET Procs
  BY BlockParts, Kinds DEF DirStable
<1>2. \A n \in Procs : IF n \in e.presence THEN Rests(ag[n], U[n], D[n], "S")
                                           ELSE Rests(ag[n], U[n], D[n], "I")
  BY BlockParts, PlainHolder DEF CopyKept
<1> HIDE DEF victims
<1>3. RequestsAfter(p, ag, U, D, src, k, f, victims, "REQ_INVALID")
  <2>1. f.state \notin DirStable /\ Sharpens(e, f) /\ ~(f.state \in Reading) /\ k # "GETS"
    BY DEF DirStable, Sharpens, Reading
  <2> QED BY <1>1, <2>1, RequestsTaken
<1>4. CopiesAfter(ag, U, D, src, k, f, victims, "REQ_INVALID")
  <2>1. \A n, s, V, E : HolderOK(n, s, V, E, f) <=> Collected(n, s, V, E, f)
    BY DEF HolderOK
  <2>2. ASSUME NEW n \in Procs \ victims, n # src
        PROVE  CopyKept(n, ag[n], U[n], D[n], f)
    BY <1>2, <2>2 DEF CopyKept, victims
  <2>3. src \notin victims /\ CopyKept(src, ag[src], U[src] \ {k}, D[src], f)
    BY <1>1, <1>2, <2>1, AskTaken DEF CopyKept, victims, Collected
  <2>4. ASSUME NEW n \in victims
        PROVE  CopyKept(n, ag[n], U[n], D[n] \cup {"REQ_INVALID"}, f)
    <3>1. n \in Procs /\ n \in e.presence /\ n # src
      BY <1>1, <2>4 DEF victims
    <3>2. Invalidated(ag[n], U[n], D[n] \cup {"REQ_INVALID"})
      BY <1>2, <3>1, ProbeSent
    <3> QED BY <2>1, <3>1, <3>2 DEF CopyKept, Collected
  <2> QED BY <1>1, <2>2, <2>3, <2>4, CopiesSplit, BlockParts
<1>5. EntryOK(p, f)
  <2>1. f.state \in DirStatesOf(p)
    BY BlockParts, DirStatesSplit DEF EntryOK
  <2> QED BY <2>1, BlockParts DEF EntryOK, Sole, Owned, Upgrading
<1>6. f.inv_ack_waiting = Cardinality(AckSet(Took(U, src, k), Gave(D, victims, "REQ_INVALID")))
  <2>1. AckSet(Took(U, src, k), Gave(D, victims, "REQ_INVALID")) = victims
    BY <1>1, AtRest, InvalidationCounts, BlockParts
  <2> QED BY <2>1 DEF victims
<1>7. \A n \in victims : Fresh(D[n], "REQ_INVALID")
  BY <1>1, AtRest DEF Fresh, Probed
<1>8. Handles(p, ag, U, D, src, k, f, victims, "REQ_INVALID")
  BY <1>1, <1>3, <1>4, <1>5, <1>6, <1>7, HandlesWell
<1> QED BY <1>8 DEF victims

\* A block in one cache is recalled from there, altogether or for a copy.
LEMMA RecallFromHolder ==
  ASSUME NEW p, NEW ag, NEW U, NEW D, NEW e, BlockIs(p, ag, U, D, e),
         NEW src \in Procs, NEW k \in ReqKinds, k \in U[src],
         NEW f \in DirEntry, f.req_node = src, NEW x \in {"RECALL_GOTO_I", "RECALL_GOTO_S"},
         \/ e.state = "M" /\ k # "GETS" /\ f.state = "MM" /\ x = "RECALL_GOTO_I"
         \/ e.state = "E" /\ k = "GETM" /\ f.state = "EM" /\ x = "RECALL_GOTO_I"
         \/ e.state = "M" /\ k = "GETS" /\ f.state \in {"MS", "MO"} /\ x = "RECALL_GOTO_S"
         \/ e.state = "E" /\ k = "GETS" /\ f.state \in {"ES", "EF"} /\ x = "RECALL_GOTO_S",
         f.state \in DirStatesOf(p), f.state \in {"MO", "EF"} => f.o_f_id \in e.presence,
         f.presence = e.presence, f.active_sharers = e.active_sharers,
         f.inv_ack_waiting = e.inv_ack_waiting
  PROVE  Handles(p, ag, U, D, src, k, f, e.presence, x)
<1>1. /\ e.state \in DirStable /\ x \in ProbeKinds /\ x \in DownKinds /\ x \notin AnsKinds
      /\ x # "REQ_INVALID" /\ k # "INVACK"
      /\ e.presence \in SUBSET Procs
  BY Kinds, BlockParts DEF DirStable
<1>2. \A n \in Procs : IF n \in e.presence THEN Rests(ag[n], U[n], D[n], e.state)
                                           ELSE Rests(ag[n], U[n], D[n], "I")
  BY BlockParts, PlainHolder DEF CopyKept
<1>3. src \notin e.presence
  <2>1. src \in e.presence => Copy(ag[src]) = e.state
    BY <1>2, Asker DEF Rests
  <2> QED BY <2>1, Asker DEF Copy, DirStable, AgentStates, ReqKinds
<1>4. RequestsAfter(p, ag, U, D, src, k, f, e.presence, x)
  <2>1. f.state \notin DirStable /\ Sharpens(e, f) /\ (k = "GETS" <=> f.state \in Reading)
    BY DEF DirStable, Sharpens, Reading
  <2> QED BY <1>1, <2>1, RequestsTaken
<1>5. CopiesAfter(ag, U, D, src, k, f, e.presence, x)
  <2>1. ASSUME NEW n \in Procs \ e.presence, n # src
        PROVE  CopyKept(n, ag[n], U[n], D[n], f)
    BY <1>2, <2>1 DEF CopyKept
  <2>2. CopyKept(src, ag[src], U[src] \ {k}, D[src], f)
    BY <1>2, <1>3, AskTaken DEF CopyKept
  <2>3. ASSUME NEW n \in e.presence
        PROVE  CopyKept(n, ag[n], U[n], D[n] \cup {x}, f)
    <3>1. Rests(ag[n], U[n], D[n], e.state)
      BY <1>1, <1>2
    <3>2. x = "RECALL_GOTO_I" => GivesUp(ag[n], U[n], D[n] \cup {x}, e.state)
      BY <3>1, ProbeSent
    <3>3. x = "RECALL_GOTO_S" => \A c1 : Shares(ag[n], U[n], D[n] \cup {x}, e.state, c1)
      BY <3>1, ProbeSent
    <3> QED BY <3>2, <3>3 DEF CopyKept, HolderOK
  <2> QED BY <1>1, <1>3, <2>1, <2>2, <2>3, CopiesSplit, BlockParts
<1>6. EntryOK(p, f)
  <2>1. \E h \in Procs : e.presence = {h}
    BY BlockParts DEF EntryOK, Sole
  <2> QED BY <2>1, BlockParts DEF EntryOK, Sole, Owned, Upgrading
<1>7. f.inv_ack_waiting = Cardinality(AckSet(Took(U, src, k), Gave(D, e.presence, x)))
  BY <1>1, SameAcks, BlockParts
<1>8. \A n \in e.presence : Fresh(D[n], x)
  BY <1>1, AtRest DEF Fresh, Probed
<1> QED BY <1>1, <1>4, <1>5, <1>6, <1>7, <1>8, HandlesWell

\* Who holds what of an owned or forwarded block.
LEMMA OwnedBlock ==
  ASSUME NEW p, NEW ag, NEW U, NEW D, NEW e, BlockIs(p, ag, U, D, e), e.state \in {"O", "F"}
  PROVE  /\ e.state \in DirStable /\ e.o_f_id \in e.presence /\ e.o_f_id \in Procs
         /\ e.presence # {e.o_f_id}
         /\ \A n \in Procs :
              /\ n \notin e.presence => Rests(ag[n], U[n], D[n], "I")
              /\ n = e.o_f_id => Rests(ag[n], U[n], D[n], e.state)
              /\ n \in e.presence /\ n # e.o_f_id => Rests(ag[n], U[n], D[n], "S")
<1>1. /\ e.state \in DirStable /\ e.o_f_id \in e.presence /\ e.o_f_id \in Procs
      /\ e.presence # {e.o_f_id}
  BY BlockParts DEF EntryOK, Owned, DirStable
<1>2. ASSUME NEW n \in Procs
      PROVE  /\ n \notin e.presence => Rests(ag[n], U[n], D[n], "I")
             /\ n \in e.presence => Rests(ag[n], U[n], D[n], IF n = e.o_f_id THEN e.state ELSE "S")
  <2>1. CopyKept(n, ag[n], U[n], D[n], e)
    BY BlockParts
  <2> QED BY <2>1 DEF CopyKept, HolderOK
<1> QED BY <1>1, <1>2

\* Which of them asks: a reader has no copy; a writer may be the owner, a sharer
\* or neither, but what asks with GETX for an owned block is neither, and for a
\* forwarded one it is the forwarder.
LEMMA OwnedBlockAsker ==
  ASSUME NEW p, NEW ag, NEW U, NEW D, NEW e, BlockIs(p, ag, U, D, e), e.state \in {"O", "F"},
         NEW src \in Procs, NEW k \in ReqKinds, k \in U[src]
  PROVE  /\ k = "GETS" => src \notin e.presence
         /\ k = "GETX" /\ e.state = "O" => src \notin e.presence
         /\ k = "GETX" /\ e.state = "F" => src = e.o_f_id
         /\ e.presence \ {src, e.o_f_id} = {} => k # "GETX" /\ src # e.o_f_id
<1>1. Copy(ag[src]) = IF src = e.o_f_id THEN e.state ELSE IF src \in e.presence THEN "S" ELSE "I"
  BY OwnedBlock, Asker DEF Rests
<1>2. k = "GETS" => src \notin e.presence
  BY <1>1, OwnedBlock, Asker DEF Copy
<1>3. k = "GETX" /\ e.state = "F" => src = e.o_f_id
  BY <1>1, Asker DEF Copy
<1>4. k = "GETX" /\ e.state = "O" => src \notin e.presence
  <2>1. ASSUME k = "GETX", e.state = "O" PROVE p # "MESI"
    BY <2>1, BlockParts, DirStatesSplit DEF EntryOK
  <2> QED BY <1>1, <2>1, OwnedBlock, Asker DEF Copy
<1> QED BY <1>2, <1>3, <1>4, OwnedBlock

\* A load of an owned or forwarded block: the owner is asked for a copy.
LEMMA CopyFromHolder ==
  ASSUME NEW p, NEW ag, NEW U, NEW D, NEW e, BlockIs(p, ag, U, D, e), e.state \in {"O", "F"},
         NEW src \in Procs, "GETS" \in U[src],
         NEW f \in DirEntry, f.req_node = src,
         f.state = IF e.state = "O" THEN "OO" ELSE "FF",
         f.presence = e.presence, f.active_sharers = e.active_sharers,
         f.inv_ack_waiting = e.inv_ack_waiting, f.o_f_id = e.o_f_id
  PROVE  Handles(p, ag, U, D, src, "GETS", f, {e.o_f_id}, "RECALL_GOTO_S")
<1> DEFINE o == e.o_f_id
           x == "RECALL_GOTO_S"
<1>1. /\ o \in Procs /\ "GETS" \in ReqKinds /\ x \in ProbeKinds /\ x \in DownKinds
      /\ x \notin AnsKinds /\ x # "REQ_INVALID"
  BY OwnedBlock, Kinds
<1>2. src \notin e.presence /\ src # o
  BY <1>1, OwnedBlock, OwnedBlockAsker
<1> HIDE DEF x
<1>3. RequestsAfter(p, ag, U, D, src, "GETS", f, {o}, x)
  <2>1. f.state \notin DirStable /\ Sharpens(e, f) /\ f.state \in Reading
    BY DEF DirStable, Sharpens, Reading
  <2> QED BY <1>1, <2>1, OwnedBlock, RequestsTaken
<1>4. CopiesAfter(ag, U, D, src, "GETS", f, {o}, x)
  <2>1. ASSUME NEW n \in Procs \ {o}, n # src
        PROVE  CopyKept(n, ag[n], U[n], D[n], f)
    BY <2>1, OwnedBlock DEF CopyKept, HolderOK
  <2>2. CopyKept(src, ag[src], U[src] \ {"GETS"}, D[src], f)
    BY <1>1, <1>2, OwnedBlock, AskTaken DEF CopyKept
  <2>3. CopyKept(o, ag[o], U[o], D[o] \cup {x}, f)
    <3>1. Rests(ag[o], U[o], D[o], e.state)
      BY OwnedBlock
    <3>2. \A c1 : Shares(ag[o], U[o], D[o] \cup {x}, e.state, c1)
      BY <3>1, ProbeSent DEF x
    <3> QED BY <3>2, OwnedBlock DEF CopyKept, HolderOK
  <2> QED BY <1>1, <1>2, <2>1, <2>2, <2>3, CopiesSplit, BlockParts
<1>5. EntryOK(p, f)
  <2>1. f.state \in DirStatesOf(p)
    BY BlockParts, DirStatesSplit DEF EntryOK
  <2> QED BY <1>2, <2>1, OwnedBlock, BlockParts DEF EntryOK, Sole, Owned, Upgrading
<1>6. f.inv_ack_waiting = Cardinality(AckSet(Took(U, src, "GETS"), Gave(D, {o}, x)))
  BY <1>1, SameAcks, BlockParts
<1>7. Fresh(D[o], x)
  BY <1>1, AtRest, OwnedBlock DEF Fresh, Probed, x
<1>8. Handles(p, ag, U, D, src, "GETS", f, {o}, x)
  BY <1>1, <1>3, <1>4, <1>5, <1>6, <1>7, HandlesWell
<1> QED BY <1>8 DEF x

\* A store to such a block: the plain sharers have to go before the owner.
LEMMA InvalidateAroundOwner ==
  ASSUME NEW p, NEW ag, NEW U, NEW D, NEW e, BlockIs(p, ag, U, D, e), e.state \in {"O", "F"},
         NEW src \in Procs, NEW k \in {"GETM", "GETX"}, k \in U[src],
         NEW f \in DirEntry, f.req_node = src,
         f.state = IF e.state = "O" THEN "OM" ELSE "FM",
         f.presence = e.presence, f.active_sharers = e.active_sharers, f.o_f_id = e.o_f_id,
         NEW victims, victims = e.presence \ {src, e.o_f_id}, victims # {},
         f.inv_ack_waiting = Cardinality(victims)
  PROVE  Handles(p, ag, U, D, src, k, f, victims, "REQ_INVALID")
<1> DEFINE o == e.o_f_id
           x == "REQ_INVALID"
<1>1. /\ o \in Procs /\ k \in ReqKinds /\ x \in ProbeKinds /\ x \in DownKinds
      /\ x \notin AnsKinds /\ victims \in SUBSET Procs
      /\ src \notin victims /\ o \notin victims
  BY OwnedBlock, Kinds, BlockParts
<1>2. f.inv_ack_waiting > 0
  BY <1>1, Counting
<1>3. RequestsAfter(p, ag, U, D, src, k, f, victims, x)
  <2>1. f.state \notin DirStable /\ Sharpens(e, f) /\ ~(f.state \in Reading) /\ k # "GETS"
    BY DEF DirStable, Sharpens, Reading
  <2> HIDE DEF x
  <2> QED BY <1>1, <2>1, OwnedBlock, RequestsTaken
<1>4. CopiesAfter(ag, U, D, src, k, f, victims, x)
  <2>1. ASSUME NEW n \in Procs, NEW s, NEW V, NEW E
        PROVE  HolderOK(n, s, V, E, f) <=> IF n = o THEN Rests(s, V, E, e.state)
                                          ELSE Collected(n, s, V, E, f)
    BY <1>2 DEF HolderOK, LastOwner
  <2>2. ASSUME NEW n \in Procs \ victims, n # src
        PROVE  CopyKept(n, ag[n], U[n], D[n], f)
    BY <2>1, <2>2, OwnedBlock DEF CopyKept
  <2>3. CopyKept(src, ag[src], U[src] \ {k}, D[src], f)
    <3>1. \A c : Rests(ag[src], U[src], D[src], c) => Rests(ag[src], U[src] \ {k}, D[src], c)
      BY <1>1, AskTaken
    <3> QED BY <2>1, <3>1, OwnedBlock DEF CopyKept, Collected
  <2>4. ASSUME NEW n \in victims
        PROVE  CopyKept(n, ag[n], U[n], D[n] \cup {x}, f)
    <3>1. n \in Procs /\ n \in e.presence /\ n # src /\ n # o
      BY <1>1, <2>4
    <3>2. Invalidated(ag[n], U[n], D[n] \cup {x})
      BY <3>1, OwnedBlock, ProbeSent
    <3> QED BY <2>1, <3>1, <3>2 DEF CopyKept, Collected
  <2> HIDE DEF x
  <2> QED BY <1>1, <2>2, <2>3, <2>4, CopiesSplit, BlockParts
<1>5. EntryOK(p, f)
  <2>1. f.state \in DirStatesOf(p)
    BY BlockParts, DirStatesSplit DEF EntryOK
  <2> QED BY <1>2, <2>1, OwnedBlock, BlockParts DEF EntryOK, Sole, Owned, Upgrading
<1>6. f.inv_ack_waiting = Cardinality(AckSet(Took(U, src, k), Gave(D, victims, x)))
  <2>1. AckSet(Took(U, src, k), Gave(D, victims, x)) = victims
    BY <1>1, AtRest, OwnedBlock, InvalidationCounts, BlockParts
  <2> QED BY <2>1
<1>7. \A n \in victims : Fresh(D[n], x)
  BY <1>1, AtRest, OwnedBlock DEF Fresh, Probed
<1> QED BY <1>1, <1>3, <1>4, <1>5, <1>6, <1>7, HandlesWell

\* Nobody but the owner, and possibly the asker, holds the block.
NoSharers(e, src) == e.presence \ {src, e.o_f_id} = {}

\* Without plain sharers the owner has to go at once.
LEMMA RecallFromOwner ==
  ASSUME NEW p, NEW ag, NEW U, NEW D, NEW e, BlockIs(p, ag, U, D, e), e.state \in {"O", "F"},
         NEW src \in Procs, NEW k \in {"GETM", "GETX"}, k \in U[src],
         NEW f \in DirEntry, f.req_node = src,
         f.state = IF e.state = "O" THEN "OM" ELSE "FM",
         f.presence = e.presence, f.active_sharers = e.active_sharers, f.o_f_id = e.o_f_id,
         NoSharers(e, src), f.inv_ack_waiting = 0, NEW o, o = e.o_f_id
  PROVE  Handles(p, ag, U, D, src, k, f, {o}, "RECALL_GOTO_I")
<1> DEFINE x == "RECALL_GOTO_I"
<1>1. /\ o \in Procs /\ k \in ReqKinds /\ x \in ProbeKinds /\ x \in DownKinds
      /\ x \notin AnsKinds /\ x # "REQ_INVALID" /\ k # "INVACK"
      /\ \A n \in e.presence : n = src \/ n = o
  BY OwnedBlock, Kinds, BlockParts DEF NoSharers
<1>2. src # o
  BY <1>1, OwnedBlockAsker
<1> HIDE DEF x
<1>3. RequestsAfter(p, ag, U, D, src, k, f, {o}, x)
  <2>1. f.state \notin DirStable /\ Sharpens(e, f) /\ ~(f.state \in Reading) /\ k # "GETS"
    BY DEF DirStable, Sharpens, Reading
  <2> QED BY <1>1, <2>1, OwnedBlock, RequestsTaken
<1>4. CopiesAfter(ag, U, D, src, k, f, {o}, x)
  <2>1. ASSUME NEW n \in Procs \ {o}, n # src
        PROVE  CopyKept(n, ag[n], U[n], D[n], f)
    BY <1>1, <2>1, OwnedBlock DEF CopyKept
  <2>2. CopyKept(src, ag[src], U[src] \ {k}, D[src], f)
    <3>1. \A c : Rests(ag[src], U[src], D[src], c) => Rests(ag[src], U[src] \ {k}, D[src], c)
      BY <1>1, AskTaken
    <3> QED BY <1>2, <3>1, OwnedBlock DEF CopyKept, HolderOK, Collected
  <2>3. CopyKept(o, ag[o], U[o], D[o] \cup {x}, f)
    <3>1. Rests(ag[o], U[o], D[o], e.state)
      BY OwnedBlock
    <3>2. GivesUp(ag[o], U[o], D[o] \cup {x}, e.state)
      BY <3>1, ProbeSent DEF x
    <3> QED BY <3>2, OwnedBlock DEF CopyKept, HolderOK, LastOwner
  <2> QED BY <1>1, <1>2, <2>1, <2>2, <2>3, CopiesSplit, BlockParts
<1>5. EntryOK(p, f)
  <2>1. f.state \in DirStatesOf(p)
    BY BlockParts, DirStatesSplit DEF EntryOK
  <2> QED BY <1>2, <2>1, OwnedBlock, BlockParts DEF EntryOK, Sole, Owned, Upgrading
<1>6. f.inv_ack_waiting = Cardinality(AckSet(Took(U, src, k), Gave(D, {o}, x)))
  BY <1>1, SameAcks, AtRest, OwnedBlock, BlockParts
<1>7. Fresh(D[o], x)
  BY <1>1, AtRest, OwnedBlock DEF Fresh, Probed, x
<1>8. Handles(p, ag, U, D, src, k, f, {o}, x)
  BY <1>1, <1>3, <1>4, <1>5, <1>6, <1>7, HandlesWell
<1> QED BY <1>8 DEF x

--------------------------------------------------------------------------------
(* Replies.                                                                  *)

\* A line comes back only from the one whom the directory has recalled it from.
LEMMA Giver ==
  ASSUME NEW p, NEW ag, NEW U, NEW D, NEW e, BlockIs(p, ag, U, D, e),
         NEW src \in Procs, "DATA" \in U[src]
  PROVE  /\ src \in e.presence /\ ~Probed(D[src]) /\ "INVACK" \notin U[src]
         /\ \/ /\ e.state \in {"MM", "EM"} /\ e.presence = {src}
               /\ Due(ag[src], D[src]) = "I"
            \/ /\ e.state \in {"MS", "ES", "MO", "EF"} /\ e.presence = {src}
               /\ Due(ag[src], D[src]) = IF e.state = "MO" THEN "O"
                                         ELSE IF e.state = "EF" THEN "F" ELSE "S"
            \/ /\ e.state \in {"OO", "FF"} /\ src = e.o_f_id
               /\ Due(ag[src], D[src]) = IF e.state = "OO" THEN "O" ELSE "F"
            \/ /\ e.state \in {"OM", "FM"} /\ src = e.o_f_id
               /\ Due(ag[src], D[src]) = "I" /\ e.inv_ack_waiting = 0
<1> DEFINE s == ag[src]
           V == U[src]
           E == D[src]
           d == Due(s, E)
           given == ~Probed(E) /\ "INVACK" \notin V
<1>1. CopyKept(src, s, V, E, e) /\ EntryOK(p, e) /\ e.state \in DirStates
  BY BlockParts, DirStatesSplit DEF EntryOK
<1>2. "DATA" \in V
  OBVIOUS
<1> HIDE DEF s, V, E
<1>3. /\ \A c : ~Rests(s, V, E, c)
      /\ ~Invalidated(s, V, E) /\ ~Collected(src, s, V, E, e)
  BY <1>2 DEF Rests, Invalidated, Collected, Replies
<1>4. \A c : GivesUp(s, V, E, c) => d = "I" /\ given
  BY <1>2 DEF GivesUp, Replies
<1>5. \A c, c1 : Shares(s, V, E, c, c1) => d = c1 /\ given
  BY <1>2 DEF Shares, Replies
<1>6. src \in e.presence /\ HolderOK(src, s, V, E, e)
  BY <1>1, <1>3 DEF CopyKept
<1>7. \A c : LastOwner(s, V, E, e, c) => ~(e.inv_ack_waiting > 0) /\ d = "I" /\ given
  BY <1>3, <1>4 DEF LastOwner
<1>8. e.inv_ack_waiting \in Nat
  <2>1. AckSet(U, D) \in SUBSET Procs
    BY DEF AckSet
  <2> QED BY <2>1, BlockParts, Counting
<1> HIDE DEF d, given
<1>9. /\ \/ e.state \in {"MM", "EM"} /\ d = "I"
         \/ e.state \in {"MS", "ES"} /\ d = "S"
         \/ e.state = "MO" /\ d = "O"
         \/ e.state = "EF" /\ d = "F"
         \/ e.state = "OO" /\ src = e.o_f_id /\ d = "O"
         \/ e.state = "FF" /\ src = e.o_f_id /\ d = "F"
         \/ e.state \in {"OM", "FM"} /\ src = e.o_f_id /\ d = "I" /\ ~(e.inv_ack_waiting > 0)
      /\ given
  BY <1>1, <1>3, <1>4, <1>5, <1>6, <1>7 DEF HolderOK, DirStates, EntryOK
<1>10. e.state \in Sole => e.presence = {src}
  BY <1>1, <1>6 DEF EntryOK
<1> QED BY <1>6, <1>8, <1>9, <1>10 DEF given, d, s, V, E, Sole

\* With the acknowledgement of src there is one less to wait for.
AckTaken(U, D, e, src) ==
  /\ src \in AckSet(U, D)
  /\ AckSet(Took(U, src, "INVACK"), D) = AckSet(U, D) \ {src}
  /\ e.inv_ack_waiting \in Nat /\ e.inv_ack_waiting > 0
  /\ Cardinality(AckSet(U, D) \ {src}) = e.inv_ack_waiting - 1

\* An acknowledgement comes only from a plain sharer that was told to go.
LEMMA Acknowledger ==
  ASSUME NEW p, NEW ag, NEW U, NEW D, NEW e, BlockIs(p, ag, U, D, e),
         NEW src \in Procs, "INVACK" \in U[src]
  PROVE  /\ src \in e.presence /\ e.state \in {"SM", "OM", "FM"} /\ src # e.req_node
         /\ e.state \in {"OM", "FM"} => src # e.o_f_id
         /\ Rests(ag[src], U[src] \ {"INVACK"}, D[src], "I")
         /\ AckTaken(U, D, e, src)
<1> DEFINE s == ag[src]
           V == U[src]
           E == D[src]
<1>1. CopyKept(src, s, V, E, e) /\ EntryOK(p, e) /\ e.state \in DirStates
  BY BlockParts, DirStatesSplit DEF EntryOK
<1>2. "INVACK" \in V
  OBVIOUS
<1> HIDE DEF s, V, E
<1>3. /\ \A c : ~Rests(s, V, E, c) /\ ~GivesUp(s, V, E, c)
      /\ \A c, c1 : ~Shares(s, V, E, c, c1)
  BY <1>2 DEF Rests, GivesUp, Shares, Replies
<1>4. \A c : ~LastOwner(s, V, E, e, c)
  BY <1>3 DEF LastOwner
<1>5. src \in e.presence /\ HolderOK(src, s, V, E, e)
  BY <1>1, <1>3 DEF CopyKept
<1>6. e.state \in {"SM", "OM", "FM"} /\ Collected(src, s, V, E, e)
      /\ (e.state \in {"OM", "FM"} => src # e.o_f_id)
  BY <1>1, <1>3, <1>4, <1>5 DEF HolderOK, DirStates, EntryOK
<1>7. src # e.req_node /\ Invalidated(s, V, E)
  BY <1>3, <1>6 DEF Collected
<1>8. Rests(s, V \ {"INVACK"}, E, "I") /\ "REQ_INVALID" \notin E
  BY <1>2, <1>7, ReplyTaken DEF Invalidated, Replies, Probed
<1>9. AckSet(Took(U, src, "INVACK"), D) = AckSet(U, D) \ {src} /\ src \in AckSet(U, D)
  BY <1>2, <1>8, BlockParts DEF AckSet, Took, E, V
<1>10. AckSet(U, D) \in SUBSET Procs
  BY DEF AckSet
<1>11. /\ e.inv_ack_waiting \in Nat /\ e.inv_ack_waiting > 0
       /\ Cardinality(AckSet(U, D) \ {src}) = e.inv_ack_waiting - 1
  BY <1>9, <1>10, BlockParts, Counting
<1> QED BY <1>5, <1>6, <1>7, <1>8, <1>9, <1>11 DEF s, V, E, AckTaken

\* The old holder has given the block up: it goes on to the requester.
LEMMA PassOn ==
  ASSUME NEW p, NEW ag, NEW U, NEW D, NEW e, BlockIs(p, ag, U, D, e),
         NEW src \in Procs, "DATA" \in U[src], e.state \in {"MM", "EM"},
         NEW f \in DirEntry, f.state = "M", f.presence = {e.req_node}, f.active_sharers = 1,
         f.inv_ack_waiting = e.inv_ack_waiting
  PROVE  Handles(p, ag, U, D, src, "DATA", f, {e.req_node}, "DATA")
<1> DEFINE q == e.req_node
           x == "DATA"
           k == "DATA"
<1>1. /\ q \in Procs /\ x \in AnsKinds /\ x \in DownKinds /\ k \in {"DATA", "INVACK"}
      /\ x # "REQ_INVALID" /\ k # "INVACK" /\ e.state \notin DirStable
  BY BlockParts, Kinds DEF DirStable
<1>2. e.presence = {src} /\ Rests(ag[src], U[src] \ {k}, D[src], "I")
  BY Giver DEF Rests, Replies
<1>3. \A n \in Procs : n # src => Rests(ag[n], U[n], D[n], "I")
  BY <1>2, BlockParts DEF CopyKept
<1> DEFINE V == IF q = src THEN U[q] \ {k} ELSE U[q]
<1>4. Rests(ag[q], V, D[q], "I")
  BY <1>1, <1>2, <1>3
<1>5. ag[q] = "IM" /\ ~Answered(D[q])
  <2>1. Copy(ag[q]) = "I"
    BY <1>1, <1>4, TakenAsker DEF Rests
  <2>2. ag[q] # "IS"
    BY <1>1, TakenAsker DEF Reading
  <2> QED BY <1>1, <2>1, <2>2, TakenAsker DEF Copy, AgentStates, DirStable
<1>6. D[q] = {}
  BY <1>1, <1>4, <1>5, ViewKinds, BlockParts DEF Rests
<1>7. Fits(p, ag[q], x) /\ Due(ag[q], {x}) = "M"
  BY <1>5 DEF Fits, Due
<1> HIDE DEF x, k, q
<1>8. RequestsAfter(p, ag, U, D, src, k, f, {q}, x)
  <2>1. f.state \in DirStable /\ Sharpens(e, f)
    BY DEF DirStable, Sharpens
  <2> QED BY <1>1, <1>7, <2>1, RequestsReplied DEF q
<1>9. CopiesAfter(ag, U, D, src, k, f, {q}, x)
  <2>1. ASSUME NEW n \in Procs \ {q}, n # src
        PROVE  CopyKept(n, ag[n], U[n], D[n], f)
    BY <1>3, <2>1 DEF CopyKept, q
  <2>2. src # q => CopyKept(src, ag[src], U[src] \ {k}, D[src], f)
    BY <1>2 DEF CopyKept, q
  <2>3. CopyKept(q, ag[q], V, D[q] \cup {x}, f)
    <3>1. Rests(ag[q], V, D[q] \cup {x}, "M")
      BY <1>1, <1>4, <1>5, <1>7, AnswerSent
    <3> QED BY <3>1, PlainHolder DEF CopyKept, q
  <2> QED BY <1>1, <2>1, <2>2, <2>3, CopiesSplit, BlockParts
<1>10. EntryOK(p, f)
  <2>1. f.state \in DirStatesOf(p) /\ f.active_sharers = Cardinality(f.presence)
    <3>1. Cardinality({q}) = 1
      BY <1>1, FS_Singleton
    <3>2. f.state \in DirStatesOf(p)
      BY BlockParts, DirStatesSplit
    <3> QED BY <3>1, <3>2 DEF q
  <2> QED BY <1>1, <2>1 DEF EntryOK, Sole, Owned, Upgrading, q
<1>11. f.inv_ack_waiting = Cardinality(AckSet(Took(U, src, k), Gave(D, {q}, x)))
  BY <1>1, SameAcks, BlockParts
<1>12. Handles(p, ag, U, D, src, k, f, {q}, x)
  BY <1>1, <1>6, <1>8, <1>9, <1>10, <1>11, HandlesWell DEF Fresh
<1> QED BY <1>12 DEF x, k, q

\* The old holder keeps a copy: the requester joins it.
LEMMA JoinOn ==
  ASSUME NEW p, NEW ag, NEW U, NEW D, NEW e, BlockIs(p, ag, U, D, e),
         NEW src \in Procs, "DATA" \in U[src], e.state \in Reading,
         NEW f \in DirEntry,
         f.state = IF e.state \in {"MS", "ES"} THEN "S"
                   ELSE IF e.state \in {"MO", "OO"} THEN "O" ELSE "F",
         f.presence = e.presence \cup {e.req_node}, f.active_sharers = e.active_sharers + 1,
         f.inv_ack_waiting = e.inv_ack_waiting, f.o_f_id = e.o_f_id
  PROVE  /\ e.req_node \notin e.presence
         /\ Handles(p, ag, U, D, src, "DATA", f, {e.req_node}, "DATA")
<1> DEFINE q == e.req_node
           x == "DATA"
           k == "DATA"
           o == e.o_f_id
<1>1. /\ q \in Procs /\ x \in AnsKinds /\ x \in DownKinds /\ k \in {"DATA", "INVACK"}
      /\ x # "REQ_INVALID" /\ k # "INVACK" /\ e.state \notin DirStable
      /\ e.presence \in SUBSET Procs
  BY BlockParts, Kinds DEF DirStable, Reading
<1>2. /\ src \in e.presence /\ Rests(ag[src], U[src] \ {k}, D[src], f.state)
      /\ Due(ag[src], D[src]) = f.state /\ (f.state \in {"O", "F"} => src = o)
      /\ e.state \notin {"OO", "FF"} => e.presence = {src}
  BY Giver, BlockParts DEF Rests, Replies, Reading, EntryOK
<1>3. ASSUME NEW n \in Procs, n # src
      PROVE  IF n \in e.presence
             THEN e.state \in {"OO", "FF"} /\ n # o /\ Rests(ag[n], U[n], D[n], "S")
             ELSE Rests(ag[n], U[n], D[n], "I")
  <2>1. CopyKept(n, ag[n], U[n], D[n], e)
    BY BlockParts
  <2>2. n \in e.presence => e.state \in {"OO", "FF"} /\ n # o
    BY <1>2, <1>3 DEF Reading
  <2> QED BY <2>1, <2>2 DEF CopyKept, HolderOK
<1>4. ag[q] = "IS" /\ ~Answered(D[q]) /\ Due(ag[q], D[q]) = "I"
  BY <1>1, TakenAsker DEF Copy
<1>5. q \notin e.presence /\ q # src /\ Rests(ag[q], U[q], D[q], "I")
  <2>1. q # src
    BY <1>2, <1>4
  <2>2. q \notin e.presence
    BY <1>1, <1>3, <1>4, <2>1 DEF Rests
  <2> QED BY <1>1, <1>3, <2>1, <2>2
<1>6. D[q] = {}
  BY <1>1, <1>4, <1>5, ViewKinds, BlockParts DEF Rests
<1>7. Fits(p, ag[q], x) /\ Due(ag[q], {x}) = "S"
  BY <1>4 DEF Fits, Due
<1>8. f.state \in {"S", "O", "F"}
  OBVIOUS
<1> HIDE DEF x, k, q, o
<1>9. RequestsAfter(p, ag, U, D, src, k, f, {q}, x)
  <2>1. f.state \in DirStable /\ Sharpens(e, f)
    BY DEF DirStable, Sharpens, Reading
  <2> QED BY <1>1, <1>7, <2>1, RequestsReplied DEF q
<1>10. CopiesAfter(ag, U, D, src, k, f, {q}, x)
  <2>1. ASSUME NEW n \in Procs \ {q}, n # src
        PROVE  CopyKept(n, ag[n], U[n], D[n], f)
    <3>1. n \in f.presence <=> n \in e.presence
      BY <2>1 DEF q
    <3>2. n \in e.presence => n # f.o_f_id /\ Rests(ag[n], U[n], D[n], "S")
      BY <1>3, <2>1 DEF o
    <3> QED BY <1>3, <1>8, <2>1, <3>1, <3>2 DEF CopyKept, HolderOK
  <2>2. CopyKept(src, ag[src], U[src] \ {k}, D[src], f)
    BY <1>2, <1>8 DEF CopyKept, HolderOK, o
  <2>3. CopyKept(q, ag[q], U[q], D[q] \cup {x}, f)
    <3>1. Rests(ag[q], U[q], D[q] \cup {x}, "S")
      BY <1>1, <1>4, <1>5, <1>7, AnswerSent
    <3>2. q \in f.presence /\ (f.state \in {"O", "F"} => q # f.o_f_id)
      BY <1>2, <1>5 DEF q, o
    <3> QED BY <1>8, <3>1, <3>2 DEF CopyKept, HolderOK
  <2> QED BY <1>1, <1>5, <2>1, <2>2, <2>3, CopiesSplit, BlockParts
<1>11. EntryOK(p, f)
  <2>1. f.active_sharers = Cardinality(f.presence)
    BY <1>1, <1>5, Counting, BlockParts DEF EntryOK, q
  <2>2. f.state \in DirStatesOf(p)
    <3>1. e.state \in DirStatesOf(p) /\ p \in Protocol
      BY BlockParts DEF EntryOK
    <3> QED BY <3>1, DirStatesSplit DEF Reading, WithE
  <2>3. f.state \in {"O", "F"} => f.o_f_id \in f.presence /\ f.presence # {f.o_f_id}
    BY <1>2, <1>5 DEF q, o
  <2>4. f.presence # {}
    OBVIOUS
  <2> QED BY <1>8, <2>1, <2>2, <2>3, <2>4 DEF EntryOK, Sole, Owned, Upgrading
<1>12. f.inv_ack_waiting = Cardinality(AckSet(Took(U, src, k), Gave(D, {q}, x)))
  BY <1>1, SameAcks, BlockParts
<1>13. Handles(p, ag, U, D, src, k, f, {q}, x)
  BY <1>1, <1>6, <1>9, <1>10, <1>11, <1>12, HandlesWell DEF Fresh
<1> QED BY <1>5, <1>13 DEF x, k, q

--------------------------------------------------------------------------------
(* Acknowledgements.                                                         *)

\* A block that is being collected: what its holders are doing.
LEMMA CollectedBlock ==
  ASSUME NEW p, NEW ag, NEW U, NEW D, NEW e, BlockIs(p, ag, U, D, e),
         e.state \in {"SM", "OM", "FM"}
  PROVE  /\ e.state \notin DirStable /\ e.req_node \in Procs
         /\ \A n \in Procs :
              /\ n \notin e.presence => Rests(ag[n], U[n], D[n], "I")
              /\ n \in e.presence /\ e.state = "SM" => Collected(n, ag[n], U[n], D[n], e)
              /\ n \in e.presence /\ n # e.o_f_id => Collected(n, ag[n], U[n], D[n], e)
         /\ e.state \in {"OM", "FM"} =>
              /\ e.o_f_id \in e.presence /\ e.o_f_id \in Procs
              /\ LET o == e.o_f_id IN
                 LastOwner(ag[o], U[o], D[o], e, IF e.state = "OM" THEN "O" ELSE "F")
<1>1. e.state \notin DirStable /\ e.req_node \in Procs /\ e.presence \in SUBSET Procs
  BY BlockParts DEF DirStable
<1>2. ASSUME NEW n \in Procs
      PROVE  /\ n \notin e.presence => Rests(ag[n], U[n], D[n], "I")
             /\ n \in e.presence /\ e.state = "SM" => Collected(n, ag[n], U[n], D[n], e)
             /\ n \in e.presence /\ n # e.o_f_id => Collected(n, ag[n], U[n], D[n], e)
             /\ n \in e.presence /\ n = e.o_f_id /\ e.state = "OM" =>
                  LastOwner(ag[n], U[n], D[n], e, "O")
             /\ n \in e.presence /\ n = e.o_f_id /\ e.state = "FM" =>
                  LastOwner(ag[n], U[n], D[n], e, "F")
  <2>1. CopyKept(n, ag[n], U[n], D[n], e)
    BY BlockParts
  <2> QED BY <2>1 DEF CopyKept, HolderOK
<1>3. e.state \in {"OM", "FM"} => e.o_f_id \in e.presence /\ e.o_f_id \in Procs
  BY <1>1, BlockParts DEF EntryOK, Upgrading
<1> QED BY <1>1, <1>2, <1>3

\* A sharer that has to go is counted on until its acknowledgement is taken.
LEMMA CountedOn ==
  ASSUME NEW U, NEW D, NEW n \in Procs, NEW s, Invalidated(s, U[n], D[n])
  PROVE  n \in AckSet(U, D)
  BY DEF Invalidated, AckSet

\* The count is not down to zero yet.
LEMMA AckNoted ==
  ASSUME NEW p, NEW ag, NEW U, NEW D, NEW e, BlockIs(p, ag, U, D, e),
         NEW src \in Procs, "INVACK" \in U[src], e.inv_ack_waiting > 1,
         NEW f \in DirEntry, f.state = e.state, f.req_node = e.req_node, f.o_f_id = e.o_f_id,
         f.getM_upgrade = e.getM_upgrade,
         f.presence = e.presence \ {src}, f.active_sharers = e.active_sharers - 1,
         f.inv_ack_waiting = e.inv_ack_waiting - 1
  PROVE  Handles(p, ag, U, D, src, "INVACK", f, {}, "REQ_INVALID")
<1> DEFINE x == "REQ_INVALID"
           k == "INVACK"
           none == {}
<1>0. AckTaken(U, D, e, src)
  BY Acknowledger
<1>1. /\ x \in ProbeKinds /\ x \in DownKinds /\ k \in {"DATA", "INVACK"} /\ none \in SUBSET Procs
      /\ f.inv_ack_waiting > 0
  BY <1>0, Kinds DEF AckTaken
<1>2. /\ src \in e.presence /\ e.state \in {"SM", "OM", "FM"} /\ src # e.req_node
      /\ e.state \in {"OM", "FM"} => src # e.o_f_id
      /\ Rests(ag[src], U[src] \ {k}, D[src], "I")
  BY Acknowledger
<1>3. Gave(D, none, x) = D
  BY BlockParts DEF Gave
<1>4. f.inv_ack_waiting = Cardinality(AckSet(Took(U, src, k), Gave(D, none, x)))
  BY <1>0, <1>3 DEF AckTaken
<1> HIDE DEF x, k
<1>5. RequestsAfter(p, ag, U, D, src, k, f, none, x)
  BY <1>1, RequestsKept
<1>6. CopiesAfter(ag, U, D, src, k, f, none, x)
  <2>1. CopyKept(src, ag[src], U[src] \ {k}, D[src], f)
    BY <1>2 DEF CopyKept
  <2>2. ASSUME NEW n \in Procs \ none, n # src
        PROVE  CopyKept(n, ag[n], U[n], D[n], f)
    <3>1. Collected(n, ag[n], U[n], D[n], e) => Collected(n, ag[n], U[n], D[n], f)
      BY DEF Collected
    <3>2. \A c : LastOwner(ag[n], U[n], D[n], e, c) => LastOwner(ag[n], U[n], D[n], f, c)
      BY <1>0, <1>1 DEF LastOwner, AckTaken
    <3> QED BY <1>2, <2>2, <3>1, <3>2, CollectedBlock DEF CopyKept, HolderOK
  <2> QED BY <1>1, <2>1, <2>2, CopiesSplit, BlockParts
<1>7. EntryOK(p, f)
  <2>1. f.active_sharers = Cardinality(f.presence)
    BY <1>2, Counting, BlockParts DEF EntryOK
  <2> QED BY <1>1, <1>2, <2>1, BlockParts DEF EntryOK, Sole, Owned, Upgrading
<1>8. Handles(p, ag, U, D, src, k, f, none, x)
  BY <1>1, <1>4, <1>5, <1>6, <1>7, HandlesWell
<1> QED BY <1>8 DEF x, k

\* The last acknowledgement: all plain sharers but the requester have gone.
LEMMA LastAck ==
  ASSUME NEW p, NEW ag, NEW U, NEW D, NEW e, BlockIs(p, ag, U, D, e),
         NEW src \in Procs, "INVACK" \in U[src], e.inv_ack_waiting = 1
  PROVE  /\ AckSet(U, D) = {src}
         /\ \A n \in e.presence : n = src \/ n = e.req_node
                                  \/ (n = e.o_f_id /\ e.state \in {"OM", "FM"})
<1>0. AckTaken(U, D, e, src)
  BY Acknowledger
<1>1. AckSet(U, D) = {src}
  <2>1. AckSet(U, D) \ {src} = {}
    <3>1. AckSet(U, D) \ {src} \in SUBSET Procs
      BY DEF AckSet
    <3>2. Cardinality(AckSet(U, D) \ {src}) = 0
      BY <1>0 DEF AckTaken
    <3> QED BY <3>1, <3>2, Counting
  <2> QED BY <1>0, <2>1 DEF AckTaken
<1>2. ASSUME NEW n \in e.presence, n # e.req_node, n # e.o_f_id \/ e.state = "SM"
      PROVE  n = src
  <2>1. n \in Procs /\ Collected(n, ag[n], U[n], D[n], e)
    BY <1>2, CollectedBlock, Acknowledger, BlockParts
  <2> QED BY <1>1, <1>2, <2>1, CountedOn DEF Collected
<1> QED BY <1>1, <1>2, Acknowledger

\* The answer x will make the copy of an agent in s writable.
ToBeGranted(p, s, D, x) == D = {} /\ ~Answered(D) /\ Fits(p, s, x) /\ Due(s, {x}) = "M"

\* A requester that has lost its copy needs the line, another only leave.
LEMMA StoreAsker ==
  ASSUME NEW p, NEW ag, NEW U, NEW D, NEW e, BlockIs(p, ag, U, D, e),
         e.state \in {"SM", "OM", "FM"},
         NEW q, q = e.req_node, NEW V, NEW c \in {"I", "S", "O", "F"}, Rests(ag[q], V, D[q], c)
  PROVE  ToBeGranted(p, ag[q], D[q], IF c = "I" THEN "DATA" ELSE "ACK")
<1>1. /\ q \in Procs /\ ag[q] \notin DirStable /\ ag[q] \in AgentStates /\ ~Answered(D[q])
      /\ Copy(ag[q]) = c /\ ag[q] # "IS"
  BY CollectedBlock, TakenAsker DEF Rests, Reading
<1>2. D[q] = {}
  BY <1>1, ViewKinds, BlockParts DEF Rests
<1>3. /\ c = "I" => ag[q] = "IM"
      /\ c # "I" => ag[q] \in {"SM", "OM", "FM"}
  BY <1>1 DEF Copy, AgentStates, DirStable
<1> QED BY <1>1, <1>2, <1>3 DEF Fits, Due, ToBeGranted

\* The last acknowledgement of a store that needs no line: M is granted.
LEMMA LastAckGrant ==
  ASSUME NEW p, NEW ag, NEW U, NEW D, NEW e, BlockIs(p, ag, U, D, e),
         NEW src \in Procs, "INVACK" \in U[src], e.inv_ack_waiting = 1,
         e.state \in {"OM", "FM"} => e.req_node = e.o_f_id,
         NEW f \in DirEntry, f.state = "M", f.presence = {e.req_node}, f.active_sharers = 1,
         f.inv_ack_waiting = 0,
         NEW x, x = IF e.req_node \in e.presence THEN "ACK" ELSE "DATA"
  PROVE  Handles(p, ag, U, D, src, "INVACK", f, {e.req_node}, x)
<1> DEFINE q == e.req_node
           k == "INVACK"
<1>1. /\ q \in Procs /\ x \in AnsKinds /\ x \in DownKinds /\ k \in {"DATA", "INVACK"}
      /\ x # "REQ_INVALID" /\ e.state \notin DirStable /\ e.state \in {"SM", "OM", "FM"}
      /\ q # src
  BY BlockParts, Kinds, Acknowledger DEF DirStable
<1>2. Rests(ag[src], U[src] \ {k}, D[src], "I")
  BY Acknowledger
<1>3. \A n \in Procs \ {q} : n # src => Rests(ag[n], U[n], D[n], "I")
  BY LastAck, CollectedBlock, <1>1
<1>4. \E c \in {"I", "S", "O", "F"} : Rests(ag[q], U[q], D[q], c) /\ (c = "I" <=> q \notin e.presence)
  <2>1. CASE q \notin e.presence
    BY <1>1, <2>1, CollectedBlock
  <2>2. CASE q \in e.presence /\ e.state = "SM"
    BY <1>1, <2>2, CollectedBlock DEF Collected
  <2>3. CASE q \in e.presence /\ e.state # "SM"
    <3>1. q = e.o_f_id /\ LastOwner(ag[q], U[q], D[q], e, IF e.state = "OM" THEN "O" ELSE "F")
      BY <1>1, <2>3, CollectedBlock
    <3> QED BY <2>3, <3>1 DEF LastOwner
  <2> QED BY <2>1, <2>2, <2>3
<1>5. PICK c \in {"I", "S", "O", "F"} :
        Rests(ag[q], U[q], D[q], c) /\ (c = "I" <=> q \notin e.presence)
  BY <1>4
<1>6. D[q] = {} /\ ~Answered(D[q]) /\ Fits(p, ag[q], x) /\ Due(ag[q], {x}) = "M"
  <2>1. q = e.req_node
    OBVIOUS
  <2> HIDE DEF q
  <2>2. ToBeGranted(p, ag[q], D[q], IF c = "I" THEN "DATA" ELSE "ACK")
    BY <1>1, <1>5, <2>1, StoreAsker
  <2>3. x = IF c = "I" THEN "DATA" ELSE "ACK"
    BY <1>5 DEF q
  <2> QED BY <2>2, <2>3 DEF ToBeGranted
<1>7. f.inv_ack_waiting = Cardinality(AckSet(Took(U, src, k), Gave(D, {q}, x)))
  <2>1. AckSet(Took(U, src, k), Gave(D, {q}, x)) = AckSet(Took(U, src, k), D)
    BY <1>1, BlockParts DEF AckSet, Gave
  <2>2. AckTaken(U, D, e, src)
    BY Acknowledger
  <2> QED BY <2>1, <2>2 DEF AckTaken
<1> HIDE DEF k, q
<1>8. RequestsAfter(p, ag, U, D, src, k, f, {q}, x)
  <2>1. f.state \in DirStable /\ Sharpens(e, f)
    BY DEF DirStable, Sharpens
  <2> QED BY <1>1, <1>6, <2>1, RequestsReplied DEF q
<1>9. CopiesAfter(ag, U, D, src, k, f, {q}, x)
  <2>1. ASSUME NEW n \in Procs \ {q}, n # src
        PROVE  CopyKept(n, ag[n], U[n], D[n], f)
    BY <1>3, <2>1 DEF CopyKept, q
  <2>2. CopyKept(src, ag[src], U[src] \ {k}, D[src], f)
    BY <1>1, <1>2 DEF CopyKept, q
  <2>3. CopyKept(q, ag[q], U[q], D[q] \cup {x}, f)
    <3>1. Rests(ag[q], U[q], D[q] \cup {x}, "M")
      BY <1>1, <1>5, <1>6, AnswerSent
    <3> QED BY <3>1, PlainHolder DEF CopyKept, q
  <2> QED BY <1>1, <2>1, <2>2, <2>3, CopiesSplit, BlockParts
<1>10. EntryOK(p, f)
  <2>1. f.state \in DirStatesOf(p)
    BY BlockParts, DirStatesSplit
  <2>2. Cardinality({q}) = 1
    BY <1>1, FS_Singleton
  <2> QED BY <1>1, <2>1, <2>2 DEF EntryOK, Sole, Owned, Upgrading, q
<1>11. Handles(p, ag, U, D, src, k, f, {q}, x)
  BY <1>1, <1>6, <1>7, <1>8, <1>9, <1>10, HandlesWell DEF Fresh
<1> QED BY <1>11 DEF k, q

\* The last acknowledgement, but the owner is another: it has to go, too.
LEMMA LastAckRecall ==
  ASSUME NEW p, NEW ag, NEW U, NEW D, NEW e, BlockIs(p, ag, U, D, e),
         NEW src \in Procs, "INVACK" \in U[src], e.inv_ack_waiting = 1,
         e.state \in {"OM", "FM"}, e.req_node # e.o_f_id,
         NEW f \in DirEntry, f.state = e.state, f.req_node = e.req_node, f.o_f_id = e.o_f_id,
         f.getM_upgrade = e.getM_upgrade,
         f.presence = e.presence \ {src}, f.active_sharers = e.active_sharers - 1,
         f.inv_ack_waiting = 0
  PROVE  Handles(p, ag, U, D, src, "INVACK", f, {e.o_f_id}, "RECALL_GOTO_I")
<1> DEFINE o == e.o_f_id
           x == "RECALL_GOTO_I"
           k == "INVACK"
           c == IF e.state = "OM" THEN "O" ELSE "F"
<1>1. /\ x \in ProbeKinds /\ x \in DownKinds /\ x \notin AnsKinds /\ x # "REQ_INVALID"
      /\ k \in {"DATA", "INVACK"}
      /\ o \in Procs /\ o \in e.presence /\ src # o /\ src # e.req_node
  BY Kinds, Acknowledger, CollectedBlock
<1>2. Rests(ag[src], U[src] \ {k}, D[src], "I") /\ src \in e.presence
  BY Acknowledger
<1>3. Rests(ag[o], U[o], D[o], c) /\ c \in {"O", "F"}
  <2>1. LastOwner(ag[o], U[o], D[o], e, c)
    BY CollectedBlock
  <2> QED BY <2>1 DEF LastOwner
<1>4. f.inv_ack_waiting = Cardinality(AckSet(Took(U, src, k), Gave(D, {o}, x)))
  <2>1. AckSet(Took(U, src, k), Gave(D, {o}, x)) = AckSet(Took(U, src, k), D)
    BY <1>1, BlockParts DEF AckSet, Gave
  <2>2. AckTaken(U, D, e, src)
    BY Acknowledger
  <2> QED BY <2>1, <2>2 DEF AckTaken
<1> HIDE DEF x, k
<1>5. RequestsAfter(p, ag, U, D, src, k, f, {o}, x)
  BY <1>1, RequestsKept
<1>6. CopiesAfter(ag, U, D, src, k, f, {o}, x)
  <2>1. CopyKept(src, ag[src], U[src] \ {k}, D[src], f)
    BY <1>2 DEF CopyKept
  <2>2. ASSUME NEW n \in Procs \ {o}, n # src
        PROVE  CopyKept(n, ag[n], U[n], D[n], f)
    <3>1. Collected(n, ag[n], U[n], D[n], e) => Collected(n, ag[n], U[n], D[n], f)
      BY DEF Collected
    <3> QED BY <1>2, <2>2, <3>1, CollectedBlock DEF CopyKept, HolderOK
  <2>3. CopyKept(o, ag[o], U[o], D[o] \cup {x}, f)
    <3>1. GivesUp(ag[o], U[o], D[o] \cup {x}, c)
      BY <1>3, ProbeSent DEF x
    <3> QED BY <1>1, <3>1 DEF CopyKept, HolderOK, LastOwner
  <2> QED BY <1>1, <2>1, <2>2, <2>3, CopiesSplit, BlockParts
<1>7. EntryOK(p, f)
  <2>1. f.active_sharers = Cardinality(f.presence)
    BY <1>2, Counting, BlockParts DEF EntryOK
  <2> QED BY <1>1, <2>1, BlockParts DEF EntryOK, Sole, Owned, Upgrading
<1>8. Fresh(D[o], x)
  BY <1>1, <1>3 DEF Fresh, Rests, Probed, x
<1>9. Handles(p, ag, U, D, src, k, f, {o}, x)
  BY <1>1, <1>4, <1>5, <1>6, <1>7, <1>8, HandlesWell
<1> QED BY <1>9 DEF x, k

\* The owner has gone as well: the requester is alone.
LEMMA OwnerLeft ==
  ASSUME NEW p, NEW ag, NEW U, NEW D, NEW e, BlockIs(p, ag, U, D, e),
         NEW src \in Procs, "DATA" \in U[src], e.state \in {"OM", "FM"},
         NEW f \in DirEntry, f.state = "M", f.presence = {e.req_node}, f.active_sharers = 1,
         f.inv_ack_waiting = e.inv_ack_waiting,
         NEW x, x = IF e.req_node \in e.presence THEN "ACK" ELSE "DATA"
  PROVE  Handles(p, ag, U, D, src, "DATA", f, {e.req_node}, x)
<1> DEFINE q == e.req_node
           k == "DATA"
<1>1. /\ q \in Procs /\ x \in AnsKinds /\ x \in DownKinds /\ k \in {"DATA", "INVACK"}
      /\ x # "REQ_INVALID" /\ k # "INVACK" /\ e.state \notin DirStable
  BY BlockParts, Kinds DEF DirStable
<1>2. /\ src \in e.presence /\ src = e.o_f_id /\ e.inv_ack_waiting = 0
      /\ Rests(ag[src], U[src] \ {k}, D[src], "I")
  BY Giver DEF Rests, Replies, Sole
<1>3. q # src /\ e.presence \subseteq {q, src}
  <2>1. q # src
    BY <1>2, BlockParts DEF EntryOK, Upgrading
  <2>2. AckSet(U, D) = {}
    <3>1. AckSet(U, D) \in SUBSET Procs
      BY DEF AckSet
    <3> QED BY <1>2, <3>1, Counting, BlockParts
  <2>3. ASSUME NEW n \in e.presence, n # src, n # q
        PROVE  FALSE
    <3>1. n \in Procs /\ Collected(n, ag[n], U[n], D[n], e)
      BY <1>2, <2>3, CollectedBlock, BlockParts
    <3> QED BY <2>2, <2>3, <3>1, CountedOn DEF Collected
  <2> QED BY <2>1, <2>3
<1>4. \A n \in Procs \ {q} : n # src => Rests(ag[n], U[n], D[n], "I")
  BY <1>3, CollectedBlock
<1>5. PICK c \in {"I", "S", "O", "F"} :
        Rests(ag[q], U[q], D[q], c) /\ (c = "I" <=> q \notin e.presence)
  <2>1. CASE q \notin e.presence
    BY <1>1, <2>1, CollectedBlock
  <2>2. CASE q \in e.presence
    BY <1>1, <1>2, <1>3, <2>2, CollectedBlock DEF Collected
  <2> QED BY <2>1, <2>2
<1>6. D[q] = {} /\ ~Answered(D[q]) /\ Fits(p, ag[q], x) /\ Due(ag[q], {x}) = "M"
  <2>1. q = e.req_node
    OBVIOUS
  <2> HIDE DEF q
  <2>2. ToBeGranted(p, ag[q], D[q], IF c = "I" THEN "DATA" ELSE "ACK")
    BY <1>1, <1>5, <2>1, StoreAsker
  <2>3. x = IF c = "I" THEN "DATA" ELSE "ACK"
    BY <1>5 DEF q
  <2> QED BY <2>2, <2>3 DEF ToBeGranted
<1>7. f.inv_ack_waiting = Cardinality(AckSet(Took(U, src, k), Gave(D, {q}, x)))
  BY <1>1, SameAcks, BlockParts
<1> HIDE DEF k, q
<1>8. RequestsAfter(p, ag, U, D, src, k, f, {q}, x)
  <2>1. f.state \in DirStable /\ Sharpens(e, f)
    BY DEF DirStable, Sharpens
  <2> QED BY <1>1, <1>6, <2>1, RequestsReplied DEF q
<1>9. CopiesAfter(ag, U, D, src, k, f, {q}, x)
  <2>1. ASSUME NEW n \in Procs \ {q}, n # src
        PROVE  CopyKept(n, ag[n], U[n], D[n], f)
    BY <1>4, <2>1 DEF CopyKept, q
  <2>2. CopyKept(src, ag[src], U[src] \ {k}, D[src], f)
    BY <1>2, <1>3 DEF CopyKept, q
  <2>3. CopyKept(q, ag[q], U[q], D[q] \cup {x}, f)
    <3>1. Rests(ag[q], U[q], D[q] \cup {x}, "M")
      BY <1>1, <1>5, <1>6, AnswerSent
    <3> QED BY <3>1, PlainHolder DEF CopyKept, q
  <2> QED BY <1>1, <1>3, <2>1, <2>2, <2>3, CopiesSplit, BlockParts
<1>10. EntryOK(p, f)
  <2>1. f.state \in DirStatesOf(p)
    BY BlockParts, DirStatesSplit
  <2>2. Cardinality({q}) = 1
    BY <1>1, FS_Singleton
  <2> QED BY <1>1, <2>1, <2>2 DEF EntryOK, Sole, Owned, Upgrading, q
<1>11. Handles(p, ag, U, D, src, k, f, {q}, x)
  BY <1>1, <1>6, <1>7, <1>8, <1>9, <1>10, HandlesWell DEF Fresh
<1> QED BY <1>11 DEF k, q
================================================================================
