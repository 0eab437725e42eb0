---------------------------- MODULE CoherenceTypes ----------------------------
(***************************************************************************)
(* Type correctness of the coherence simulator, for every number of        *)
(* processors the directory has room for, every set of blocks, traces of   *)
(* any length and each of the five protocols.                              *)
(*                                                                         *)
(* The work is in the directory: its handlers rebuild entries step by step *)
(* and take owners from scans of the presence bits, so that an entry stays *)
(* an entry, and a response has a processor as its target, needs the       *)
(* lemmas of the first half.                                               *)
(***************************************************************************)
EXTENDS CoherenceSystem, FiniteSetTheorems, WellFoundedInduction, TLAPS

\* TypeOK, with Q as the messages to the directory: full mode has one more
\* kind of them.
SystemTypes(Q) ==
  /\ protocol \in Protocols
  /\ left \in [Procs -> 0..TraceLen]
  /\ req \in [Procs -> Instrs \cup {NoReq}]
  /\ cpuIn \in [Procs -> Instrs \cup {NoReq}]
  /\ cacheIn \in [Procs -> BOOLEAN]
  /\ agent \in [Procs -> [Blocks -> AgentStates]]
  /\ toDir \in [Procs -> Seq(Q)]
  /\ toNode \in [Procs -> Seq(ToNodeMsg)]
  /\ queue \in Seq(Q)
  /\ entry \in [Blocks -> DirEntry]
  /\ resp \in Latch \cup {Idle}
  /\ thrown \in BOOLEAN

\* The parts of it that a directory step can change.
DirTypeOK(Q) ==
  /\ queue \in Seq(Q)
  /\ entry \in [Blocks -> DirEntry]
  /\ toNode \in [Procs -> Seq(ToNodeMsg)]
  /\ resp \in Latch \cup {Idle}
  /\ thrown \in BOOLEAN

--------------------------------------------------------------------------------
\* The stand-alone simulator's messages are those of the protocols.
LEMMA SameTypes == TypeOK <=> SystemTypes(ToDirMsg)
  BY DEF TypeOK, SystemTypes

--------------------------------------------------------------------------------
(* Presence bits.                                                           *)

\* Processor numbers are integers.
LEMMA ProcsAreInts == NumProcs \in Int /\ \A n \in Procs : n \in Int
  BY NumProcsAssumption DEF Procs

\* The presence scan that keeps the last set bit finds one if there is one.
LEMMA LastPresentType ==
  ASSUME NEW e \in DirEntry
  PROVE  LastPresent(e) \in Procs \cup {NoNode}
<1>1. CASE e.presence = {}
  BY <1>1 DEF LastPresent
<1>2. CASE e.presence # {}
  <2> DEFINE P == e.presence
             T == {NumProcs - 1 - n : n \in P}
  <2>1. P \subseteq Procs
    BY DEF DirEntry
  <2>2. T \subseteq Nat /\ T # {}
    BY <1>2, <2>1, NumProcsAssumption DEF Procs
  <2>3. \E x \in T : \A y \in T : ~ (<<y, x>> \in OpToRel(<, Nat))
    <3> HIDE DEF T
    <3> QED BY <2>2, WFMin, NatLessThanWellFounded
  <2>4. PICK x \in T : \A y \in T : ~ (y < x)
    BY <2>2, <2>3 DEF OpToRel
  <2>5. PICK n \in P : x = NumProcs - 1 - n
    BY <2>4
  <2>6. ASSUME NEW k \in P
        PROVE  k <= n
    <3>1. ~ (NumProcs - 1 - k < x)
      BY <2>4
    <3>2. k \in Int /\ n \in Int /\ NumProcs \in Int
      BY <2>1, <2>5, ProcsAreInts
    <3> QED BY <2>5, <3>1, <3>2
  <2>7. LastPresent(e) \in P
    BY <1>2, <2>5, <2>6 DEF LastPresent
  <2> QED BY <2>1, <2>7
<1> QED BY <1>1, <1>2

\* Counting a set of nodes gives an integer, as inv_ack_waiting needs.
LEMMA CountType ==
  ASSUME NEW S \in SUBSET Procs
  PROVE  Cardinality(S) \in Int
<1>1. IsFiniteSet(Procs)
  BY FS_Interval, NumProcsAssumption DEF Procs
<1>2. IsFiniteSet(S)
  BY <1>1, FS_Subset
<1> QED BY <1>2, FS_CardinalityType

\* The edits of an entry give an entry.
LEMMA EntryEdits ==
  ASSUME NEW e \in DirEntry
  PROVE  /\ \A s \in DirStates : Goto(e, s) \in DirEntry
         /\ \A s \in DirStates, n \in Procs : Await(e, s, n) \in DirEntry
         /\ \A n \in Procs : AddSharer(e, n) \in DirEntry
         /\ \A n \in Procs : AddOnce(e, n) \in DirEntry
<1>1. \A s \in DirStates : Goto(e, s) \in DirEntry
  BY DEF DirEntry, Goto
<1>2. \A s \in DirStates, n \in Procs : Await(e, s, n) \in DirEntry
  BY DEF DirEntry, Await
<1>3. ASSUME NEW n \in Procs
      PROVE  AddSharer(e, n) \in DirEntry
  <2>1. e.presence \cup {n} \in SUBSET Procs /\ e.active_sharers + 1 \in Int
    BY DEF DirEntry
  <2> QED BY <2>1 DEF DirEntry, AddSharer
<1>4. \A n \in Procs : AddOnce(e, n) \in DirEntry
  BY <1>3 DEF AddOnce
<1> QED BY <1>1, <1>2, <1>3, <1>4

\* Dropping a sharer works for whatever the owner field holds.
LEMMA DropType ==
  ASSUME NEW e \in DirEntry, NEW n
  PROVE  DropSharer(e, n) \in DirEntry
<1>1. e.presence \ {n} \in SUBSET Procs /\ e.active_sharers - 1 \in Int
  BY DEF DirEntry
<1> QED BY <1>1 DEF DirEntry, DropSharer

--------------------------------------------------------------------------------
(* What a directory step does with the message it has taken.                *)

\* Dequeue and cycle_queue leave a queue of messages.
LEMMA QueueType ==
  ASSUME NEW Q, DirTypeOK(Q), queue # <<>>
  PROVE  /\ Head(queue) \in Q
         /\ Tail(queue) \in Seq(Q)
         /\ Append(Tail(queue), Head(queue)) \in Seq(Q)
<1>1. queue \in Seq(Q)
  BY DEF DirTypeOK
<1> QED BY <1>1

\* send_Request keeps the types.
LEMMA SendType ==
  ASSUME NEW Q, DirTypeOK(Q), queue # <<>>,
         NEW b \in Blocks, NEW e \in DirEntry, NEW dsts,
         NEW kind \in AnsKinds \cup ProbeKinds,
         Send(b, e, dsts, kind)
  PROVE  DirTypeOK(Q)'
<1>1. queue' \in Seq(Q)
  BY QueueType DEF Send, Dequeue
<1>2. entry' \in [Blocks -> DirEntry]
  BY DEF DirTypeOK, Send
<1>3. toNode' \in [Procs -> Seq(ToNodeMsg)]
  <2>1. [kind |-> kind, block |-> b] \in ToNodeMsg
    BY DEF ToNodeMsg
  <2>2. \A n \in Procs : toNode[n] \in Seq(ToNodeMsg)
    BY DEF DirTypeOK
  <2>3. \A n \in Procs : Append(toNode[n], [kind |-> kind, block |-> b]) \in Seq(ToNodeMsg)
    BY <2>1, <2>2
  <2> QED BY <2>2, <2>3 DEF Send
<1>4. resp' = resp /\ thrown' = thrown
  BY DEF Send
<1> QED BY <1>1, <1>2, <1>3, <1>4 DEF DirTypeOK

\* schedule_data_response keeps the types.
LEMMA FetchType ==
  ASSUME NEW Q, DirTypeOK(Q), queue # <<>>,
         NEW b \in Blocks, NEW e \in DirEntry, NEW dst \in Procs, NEW send_E \in BOOLEAN,
         Fetch(b, e, dst, send_E)
  PROVE  DirTypeOK(Q)'
<1>1. queue' \in Seq(Q)
  BY QueueType DEF Fetch, Dequeue
<1>2. entry' \in [Blocks -> DirEntry]
  BY DEF DirTypeOK, Fetch
<1>3. resp' \in Latch
  BY DEF Fetch, Latch
<1>4. toNode' = toNode /\ thrown' = thrown
  BY DEF Fetch
<1> QED BY <1>1, <1>2, <1>3, <1>4 DEF DirTypeOK

\* A message that only changes the entry keeps the types.
LEMMA NoteType ==
  ASSUME NEW Q, DirTypeOK(Q), queue # <<>>, NEW b \in Blocks, NEW e \in DirEntry, Note(b, e)
  PROVE  DirTypeOK(Q)'
<1>1. queue' \in Seq(Q)
  BY QueueType DEF Note, Dequeue
<1>2. entry' \in [Blocks -> DirEntry]
  BY DEF DirTypeOK, Note
<1>3. toNode' = toNode /\ resp' = resp /\ thrown' = thrown
  BY DEF Note
<1> QED BY <1>1, <1>2, <1>3 DEF DirTypeOK

\* cycle_queue and a throw keep the types.
LEMMA CycleOrThrowType ==
  ASSUME NEW Q, DirTypeOK(Q), queue # <<>>, CycleQueue \/ Throw
  PROVE  DirTypeOK(Q)'
<1>1. CASE CycleQueue
  <2>1. queue' \in Seq(Q)
    BY <1>1, QueueType DEF CycleQueue
  <2> QED BY <1>1, <2>1 DEF CycleQueue, DirTypeOK
<1>2. CASE Throw
  BY <1>2 DEF Throw, DirTypeOK
<1> QED BY <1>1, <1>2

--------------------------------------------------------------------------------
(* The shared handlers.                                                     *)

\* The fields the handlers set directly.
LEMMA FieldEdits ==
  ASSUME NEW e \in DirEntry
  PROVE  /\ \A k \in Int : [e EXCEPT !.inv_ack_waiting = k] \in DirEntry
         /\ \A o \in Procs \cup {NoNode} : [e EXCEPT !.o_f_id = o] \in DirEntry
         /\ \A u \in BOOLEAN : [e EXCEPT !.getM_upgrade = u] \in DirEntry
<1>1. \A k \in Int : [e EXCEPT !.inv_ack_waiting = k] \in DirEntry
  BY DEF DirEntry
<1>2. \A o \in Procs \cup {NoNode} : [e EXCEPT !.o_f_id = o] \in DirEntry
  BY DEF DirEntry
<1>3. \A u \in BOOLEAN : [e EXCEPT !.getM_upgrade = u] \in DirEntry
  BY DEF DirEntry
<1> QED BY <1>1, <1>2, <1>3

\* The fields the handlers read, and the messages' own.
LEMMA FieldTypes ==
  ASSUME NEW e \in DirEntry, NEW m \in ToDirMsg
  PROVE  /\ m.src \in Procs /\ m.block \in Blocks
         /\ e.presence \in SUBSET Procs /\ e.req_node \in Procs
         /\ e.o_f_id \in Procs \cup {NoNode} /\ e.inv_ack_waiting \in Int
         /\ NoNode \in Procs \cup {NoNode}
  BY DEF DirEntry, ToDirMsg

\* The states the handlers go to are directory states.
LEMMA StateTypes == "M" \in DirStates /\ DirStable \subseteq DirStates
  BY DEF DirStates, DirStable

\* Acknowledgements keep the entry an entry.
LEMMA AckType ==
  ASSUME NEW e \in DirEntry, NEW m \in ToDirMsg
  PROVE  AckReceived(m, e) \in DirEntry
<1>1. DropSharer(e, m.src) \in DirEntry
  BY DropType
<1>2. DropSharer(e, m.src).inv_ack_waiting - 1 \in Int
  BY <1>1, FieldTypes DEF DirEntry
<1> QED BY <1>1, <1>2, FieldEdits DEF AckReceived

\* The kinds of the shared handlers' messages are what nodes receive.
LEMMA KindTypes ==
  {"DATA", "ACK", "REQ_INVALID", "RECALL_GOTO_I", "RECALL_GOTO_S"}
     \subseteq AnsKinds \cup ProbeKinds
  BY DEF AnsKinds, ProbeKinds

\* Recalling the block, and the hand-overs that end a recall.
LEMMA RecallTypes ==
  ASSUME NEW Q, DirTypeOK(Q), queue # <<>>,
         NEW m \in ToDirMsg, NEW e \in DirEntry, NEW s \in DirStates,
         \/ Recall(m, e, s, "RECALL_GOTO_I") \/ Recall(m, e, s, "RECALL_GOTO_S")
         \/ PassOwnership(m, e) \/ JoinSharers(m, e, s)
  PROVE  DirTypeOK(Q)'
<1>1. /\ Await(e, s, m.src) \in DirEntry
      /\ AddSharer(Goto(DropSharer(e, m.src), "M"), e.req_node) \in DirEntry
      /\ AddSharer(Goto(e, s), e.req_node) \in DirEntry
  BY EntryEdits, DropType, FieldTypes, StateTypes
<1> QED BY <1>1, SendType, KindTypes, FieldTypes DEF Recall, PassOwnership, JoinSharers

\* Invalidating the other sharers.
LEMMA InvalidateTypes ==
  ASSUME NEW Q, DirTypeOK(Q), queue # <<>>,
         NEW m \in ToDirMsg, NEW e \in DirEntry, NEW s \in DirStates,
         NEW victims \in SUBSET Procs, Invalidate(m, e, s, victims)
  PROVE  DirTypeOK(Q)'
<1>1. [Await(e, s, m.src) EXCEPT !.inv_ack_waiting = Cardinality(victims)] \in DirEntry
  BY EntryEdits, FieldEdits, FieldTypes, CountType
<1> QED BY <1>1, SendType, KindTypes, FieldTypes DEF Invalidate

\* Invalidating the sharers around an owner or forwarder.
LEMMA InvalidateAroundTypes ==
  ASSUME NEW Q, DirTypeOK(Q), queue # <<>>,
         NEW m \in ToDirMsg, NEW e \in DirEntry, NEW s \in DirStates,
         InvalidateAround(m, e, s)
  PROVE  DirTypeOK(Q)'
<1> DEFINE sharers == e.presence \ {m.src, e.o_f_id}
<1>1. CASE sharers # {}
  <2>1. Invalidate(m, e, s, sharers)
    BY <1>1 DEF InvalidateAround
  <2>2. sharers \in SUBSET Procs
    BY FieldTypes
  <2> QED BY <2>1, <2>2, InvalidateTypes
<1>2. CASE sharers = {}
  <2> DEFINE a == Await(e, s, m.src)
             zero == 0
  <2>1. a \in DirEntry /\ zero \in Int
    BY EntryEdits, FieldTypes
  <2> HIDE DEF a, zero
  <2>2. [a EXCEPT !.inv_ack_waiting = zero] \in DirEntry
    BY <2>1, FieldEdits
  <2> USE DEF a, zero
  <2> QED BY <1>2, <2>2, SendType, KindTypes, FieldTypes DEF InvalidateAround
<1> QED BY <1>1, <1>2

\* Collecting acknowledgements.
LEMMA InvAckTypes ==
  ASSUME NEW Q, DirTypeOK(Q), queue # <<>>, NEW m \in ToDirMsg, NEW e \in DirEntry,
         InvAckThenGrant(m, e) \/ InvAckThenRecall(m, e)
  PROVE  DirTypeOK(Q)'
<1> DEFINE e1 == AckReceived(m, e)
<1>1. /\ e1 \in DirEntry /\ Goto(e1, "M") \in DirEntry
      /\ AddSharer(Goto(e1, "M"), e.req_node) \in DirEntry
  BY AckType, EntryEdits, FieldTypes, StateTypes
<1>2. /\ e.req_node \in Procs /\ m.block \in Blocks /\ FALSE \in BOOLEAN
      /\ e.inv_ack_waiting \in Int
  BY FieldTypes
<1>3. CASE InvAckThenGrant(m, e)
  <2>1. \/ Throw
        \/ Note(m.block, e1)
        \/ Send(m.block, Goto(e1, "M"), {e.req_node}, "ACK")
        \/ Fetch(m.block, AddSharer(Goto(e1, "M"), e.req_node), e.req_node, FALSE)
    BY <1>2, <1>3 DEF InvAckThenGrant
  <2> QED BY <1>1, <1>2, <2>1, SendType, FetchType, NoteType, CycleOrThrowType, KindTypes
<1>4. CASE InvAckThenRecall(m, e)
  <2>1. \/ Throw
        \/ Note(m.block, e1)
        \/ Send(m.block, Goto(e1, "M"), {e.req_node}, "ACK")
        \/ Send(m.block, e1, {e.o_f_id}, "RECALL_GOTO_I")
    BY <1>2, <1>4 DEF InvAckThenRecall
  <2> QED BY <1>1, <1>2, <2>1, SendType, NoteType, CycleOrThrowType, KindTypes
<1> QED BY <1>3, <1>4

\* The owner has given the block up.
LEMMA OwnerGoneTypes ==
  ASSUME NEW Q, DirTypeOK(Q), queue # <<>>, NEW m \in ToDirMsg, NEW e \in DirEntry, OwnerGone(m, e)
  PROVE  DirTypeOK(Q)'
<1> DEFINE e1 == [DropSharer(Goto(e, "M"), e.o_f_id) EXCEPT !.o_f_id = NoNode]
<1>1. e1 \in DirEntry
  BY EntryEdits, DropType, FieldEdits, FieldTypes, StateTypes
<1>2. AddSharer(e1, e.req_node) \in DirEntry
  <2> HIDE DEF e1
  <2> QED BY <1>1, EntryEdits, FieldTypes
<1>3. \/ Send(m.block, e1, {e.req_node}, "ACK")
      \/ Send(m.block, AddSharer(e1, e.req_node), {e.req_node}, "DATA")
  BY DEF OwnerGone
<1> QED BY <1>1, <1>2, <1>3, SendType, KindTypes, FieldTypes

\* Recalling a copy, from the holder or from the owner the entry names.
LEMMA CopyTypes ==
  ASSUME NEW Q, DirTypeOK(Q), queue # <<>>,
         NEW m \in ToDirMsg, NEW e \in DirEntry, NEW s \in DirStates,
         RecallCopy(m, e, s) \/ CopyFromOwner(m, e, s)
  PROVE  DirTypeOK(Q)'
<1> DEFINE o == IF e.presence = {} THEN e.o_f_id ELSE LastPresent(e)
           a == Await(e, s, m.src)
<1>1. o \in Procs \cup {NoNode} /\ a \in DirEntry
  BY LastPresentType, EntryEdits, FieldTypes
<1>2. [a EXCEPT !.o_f_id = o] \in DirEntry
  <2> HIDE DEF o, a
  <2> QED BY <1>1, FieldEdits
<1>3. \/ Send(m.block, [Await(e, s, m.src) EXCEPT !.o_f_id = o], {LastPresent(e)},
              "RECALL_GOTO_S")
      \/ Send(m.block, Await(e, s, m.src), {e.o_f_id}, "RECALL_GOTO_S")
      \/ Throw
  BY DEF RecallCopy, CopyFromOwner
<1> QED BY <1>1, <1>2, <1>3, SendType, CycleOrThrowType, KindTypes, FieldTypes

--------------------------------------------------------------------------------
(* The directory's tick, protocol by protocol.                              *)

\* Answers that need memory, and grants that do not.
LEMMA GrantTypes ==
  ASSUME NEW Q, DirTypeOK(Q), queue # <<>>,
         NEW m \in ToDirMsg, NEW e \in DirEntry, NEW s \in DirStates,
         NEW send_E \in BOOLEAN,
         \/ Fetch(m.block, e, m.src, send_E)
         \/ Fetch(m.block, AddSharer(e, m.src), m.src, send_E)
         \/ Fetch(m.block, AddSharer(Goto(e, s), m.src), m.src, send_E)
         \/ Fetch(m.block, AddOnce(e, m.src), m.src, send_E)
         \/ Fetch(m.block, AddOnce(Goto(e, s), m.src), m.src, send_E)
         \/ Send(m.block, Goto(e, s), {m.src}, "ACK")
  PROVE  DirTypeOK(Q)'
<1>1. /\ Goto(e, s) \in DirEntry /\ AddSharer(e, m.src) \in DirEntry
      /\ AddSharer(Goto(e, s), m.src) \in DirEntry
      /\ AddOnce(e, m.src) \in DirEntry
      /\ AddOnce(Goto(e, s), m.src) \in DirEntry
  BY EntryEdits, FieldTypes
<1> QED BY <1>1, FetchType, SendType, KindTypes, FieldTypes

\* The message at the head is about a block of the directory.
LEMMA HeadTypes ==
  ASSUME NEW Q, DirTypeOK(Q), queue # <<>>, Head(queue) \in ToDirMsg
  PROVE  /\ Head(queue) \in ToDirMsg
         /\ Head(queue).block \in Blocks
         /\ entry[Head(queue).block] \in DirEntry
  BY DEF DirTypeOK, ToDirMsg

\* MI_tick keeps the types.
LEMMA MITypes ==
  ASSUME NEW Q, DirTypeOK(Q), queue # <<>>, Head(queue) \in ToDirMsg,
         MITick(Head(queue))
  PROVE  DirTypeOK(Q)'
<1> DEFINE m == Head(queue)
           e == entry[m.block]
<1>1. m \in ToDirMsg /\ e \in DirEntry
  BY HeadTypes
<1>2. "M" \in DirStates /\ "MM" \in DirStates /\ FALSE \in BOOLEAN
  BY DEF DirStates
<1>3. \/ Fetch(m.block, AddSharer(Goto(e, "M"), m.src), m.src, FALSE)
      \/ Recall(m, e, "MM", "RECALL_GOTO_I")
      \/ PassOwnership(m, e)
      \/ CycleQueue \/ Throw
  BY DEF MITick
<1> HIDE DEF m, e
<1> QED BY <1>1, <1>2, <1>3, GrantTypes, RecallTypes, CycleOrThrowType

\* MSI_tick keeps the types.
LEMMA MSITypes ==
  ASSUME NEW Q, DirTypeOK(Q), queue # <<>>, Head(queue) \in ToDirMsg,
         MSITick(Head(queue))
  PROVE  DirTypeOK(Q)'
<1> DEFINE m == Head(queue)
           e == entry[m.block]
<1>1. m \in ToDirMsg /\ e \in DirEntry
  BY HeadTypes
<1>2. {"S", "M", "MM", "MS", "SM"} \subseteq DirStates /\ FALSE \in BOOLEAN
  BY DEF DirStates
<1>3. \/ Fetch(m.block, AddOnce(Goto(e, "M"), m.src), m.src, FALSE)
      \/ Fetch(m.block, AddOnce(Goto(e, "S"), m.src), m.src, FALSE)
      \/ Fetch(m.block, AddOnce(e, m.src), m.src, FALSE)
      \/ Send(m.block, Await(e, "MM", m.src), {FirstPresent(e)}, "RECALL_GOTO_I")
      \/ Send(m.block, Await(e, "MS", m.src), {FirstPresent(e)}, "RECALL_GOTO_S")
      \/ JoinSharers(m, e, "S")
      \/ MSIPassOn(m, e) \/ MSIUpgrade(m, e) \/ MSIInvAck(m, e)
      \/ CycleQueue \/ Throw
  BY DEF MSITick
<1> HIDE DEF m, e
<1>4. CASE \/ Send(m.block, Await(e, "MM", m.src), {FirstPresent(e)}, "RECALL_GOTO_I")
           \/ Send(m.block, Await(e, "MS", m.src), {FirstPresent(e)}, "RECALL_GOTO_S")
  <2>1. Await(e, "MM", m.src) \in DirEntry /\ Await(e, "MS", m.src) \in DirEntry
    BY <1>1, <1>2, EntryEdits, FieldTypes
  <2> QED BY <1>1, <1>4, <2>1, SendType, KindTypes, FieldTypes
<1>5. CASE MSIPassOn(m, e)
  <2> DEFINE e1 == IF e.presence = {} THEN e ELSE DropSharer(e, FirstPresent(e))
  <2>1. e1 \in DirEntry
    BY <1>1, DropType
  <2> HIDE DEF e1
  <2>2. AddSharer(Goto(e1, "M"), e.req_node) \in DirEntry
    BY <1>1, <1>2, <2>1, EntryEdits, FieldTypes
  <2>3. Send(m.block, AddSharer(Goto(e1, "M"), e.req_node), {e.req_node}, "DATA")
    BY <1>5 DEF MSIPassOn, e1
  <2> QED BY <1>1, <2>2, <2>3, SendType, KindTypes, FieldTypes
<1>6. CASE MSIUpgrade(m, e)
  <2> DEFINE others == e.presence \ {m.src}
             a == Await(e, "SM", m.src)
             c == [a EXCEPT !.inv_ack_waiting = Cardinality(others)]
             u == m.src \in e.presence
  <2>1. others \in SUBSET Procs /\ a \in DirEntry /\ Goto(e, "M") \in DirEntry
    BY <1>1, <1>2, EntryEdits, FieldTypes
  <2>2. c \in DirEntry
    <3> HIDE DEF a, others
    <3> QED BY <2>1, CountType, FieldEdits
  <2>3. [c EXCEPT !.getM_upgrade = u] \in DirEntry
    <3>1. u \in BOOLEAN
      OBVIOUS
    <3> HIDE DEF c, u
    <3> QED BY <2>2, <3>1, FieldEdits
  <2>4. \/ Send(m.block, Goto(e, "M"), {m.src}, "ACK")
        \/ Send(m.block, [c EXCEPT !.getM_upgrade = u], others, "REQ_INVALID")
    BY <1>6 DEF MSIUpgrade
  <2> HIDE DEF u, c, others
  <2> QED BY <1>1, <2>1, <2>3, <2>4, SendType, KindTypes, FieldTypes
<1>7. CASE MSIInvAck(m, e)
  <2> DEFINE e1 == AckReceived(m, e)
  <2>1. e1 \in DirEntry
    BY <1>1, AckType
  <2>2. Goto(e1, "M") \in DirEntry /\ AddSharer(Goto(e1, "M"), e.req_node) \in DirEntry
    <3> HIDE DEF e1
    <3> QED BY <1>1, <1>2, <2>1, EntryEdits, FieldTypes
  <2>3. \/ Note(m.block, e1)
        \/ Send(m.block, Goto(e1, "M"), {e.req_node}, "ACK")
        \/ Fetch(m.block, AddSharer(Goto(e1, "M"), e.req_node), e.req_node, FALSE)
    BY <1>7 DEF MSIInvAck, AckReceived
  <2> HIDE DEF e1
  <2> QED BY <1>1, <1>2, <2>1, <2>2, <2>3, NoteType, SendType, FetchType, KindTypes, FieldTypes
<1> QED BY <1>1, <1>2, <1>3, <1>4, <1>5, <1>6, <1>7, GrantTypes, RecallTypes, CycleOrThrowType

\* MESI_tick keeps the types.
LEMMA MESITypes ==
  ASSUME NEW Q, DirTypeOK(Q), queue # <<>>, Head(queue) \in ToDirMsg,
         MESITick(Head(queue))
  PROVE  DirTypeOK(Q)'
<1> DEFINE m == Head(queue)
           e == entry[m.block]
           others == e.presence \ {m.src}
<1>1. m \in ToDirMsg /\ e \in DirEntry
  BY HeadTypes
<1>2. {"S", "E", "M", "MM", "MS", "EM", "ES", "SM"} \subseteq DirStates
  BY DEF DirStates
<1>3. \/ Fetch(m.block, AddSharer(Goto(e, "M"), m.src), m.src, FALSE)
      \/ Fetch(m.block, AddSharer(Goto(e, "E"), m.src), m.src, TRUE)
      \/ Fetch(m.block, AddSharer(e, m.src), m.src, FALSE)
      \/ Send(m.block, Goto(e, "M"), {m.src}, "ACK")
      \/ Recall(m, e, "MM", "RECALL_GOTO_I") \/ Recall(m, e, "MS", "RECALL_GOTO_S")
      \/ Recall(m, e, "EM", "RECALL_GOTO_I") \/ Recall(m, e, "ES", "RECALL_GOTO_S")
      \/ PassOwnership(m, e) \/ JoinSharers(m, e, "S")
      \/ Invalidate(m, e, "SM", others)
      \/ InvAckThenGrant(m, e)
      \/ CycleQueue \/ Throw
  BY DEF MESITick
<1>4. others \in SUBSET Procs /\ TRUE \in BOOLEAN /\ FALSE \in BOOLEAN
  BY <1>1, FieldTypes
<1> HIDE DEF m, e, others
<1> QED BY <1>1, <1>2, <1>3, <1>4, GrantTypes, RecallTypes, InvalidateTypes, InvAckTypes,
           CycleOrThrowType

\* MOSI_tick keeps the types.
LEMMA MOSITypes ==
  ASSUME NEW Q, DirTypeOK(Q), queue # <<>>, Head(queue) \in ToDirMsg,
         MOSITick(Head(queue))
  PROVE  DirTypeOK(Q)'
<1> DEFINE m == Head(queue)
           e == entry[m.block]
           others == e.presence \ {m.src}
<1>1. m \in ToDirMsg /\ e \in DirEntry
  BY HeadTypes
<1>2. {"S", "O", "M", "MM", "MO", "SM", "OM", "OO"} \subseteq DirStates
  BY DEF DirStates
<1>3. \/ Fetch(m.block, AddSharer(Goto(e, "M"), m.src), m.src, FALSE)
      \/ Fetch(m.block, AddSharer(Goto(e, "S"), m.src), m.src, FALSE)
      \/ Fetch(m.block, AddSharer(e, m.src), m.src, FALSE)
      \/ Recall(m, e, "MM", "RECALL_GOTO_I")
      \/ RecallCopy(m, e, "MO") \/ CopyFromOwner(m, e, "OO")
      \/ PassOwnership(m, e) \/ JoinSharers(m, e, "O")
      \/ MOSIUpgrade(m, e) \/ InvalidateAround(m, e, "OM")
      \/ InvAckThenGrant(m, e) \/ InvAckThenRecall(m, e) \/ OwnerGone(m, e)
      \/ CycleQueue \/ Throw
  BY DEF MOSITick
<1>4. others \in SUBSET Procs /\ FALSE \in BOOLEAN
  BY <1>1, FieldTypes
<1>5. CASE MOSIUpgrade(m, e)
  <2> DEFINE a == Goto(e, "M")
  <2>1. a \in DirEntry /\ 0 \in Int
    BY <1>1, <1>2, EntryEdits
  <2>2. [a EXCEPT !.inv_ack_waiting = 0] \in DirEntry
    <3> HIDE DEF a
    <3> QED BY <2>1, FieldEdits
  <2>3. \/ Send(m.block, [a EXCEPT !.inv_ack_waiting = 0], {m.src}, "ACK")
        \/ Invalidate(m, e, "SM", others)
    BY <1>5 DEF MOSIUpgrade
  <2> HIDE DEF m, e, others, a
  <2> QED BY <1>1, <1>2, <1>4, <2>2, <2>3, SendType, InvalidateTypes, KindTypes, FieldTypes
<1> HIDE DEF m, e, others
<1> QED BY <1>1, <1>2, <1>3, <1>4, <1>5, GrantTypes, RecallTypes, CopyTypes,
           InvalidateAroundTypes, InvAckTypes, OwnerGoneTypes, CycleOrThrowType

\* MOESIF_tick keeps the types.
LEMMA MOESIFTypes ==
  ASSUME NEW Q, DirTypeOK(Q), queue # <<>>, Head(queue) \in ToDirMsg,
         MOESIFTick(Head(queue))
  PROVE  DirTypeOK(Q)'
<1> DEFINE m == Head(queue)
           e == entry[m.block]
           others == e.presence \ {m.src}
           sharers == e.presence \ {m.src, e.o_f_id}
<1>1. m \in ToDirMsg /\ e \in DirEntry
  BY HeadTypes
<1>2. {"S", "E", "M", "MM", "MO", "EM", "EF", "FM", "FF", "OM", "OO", "SM", "O", "F"}
        \subseteq DirStates
  BY DEF DirStates
<1>3. \/ Fetch(m.block, AddSharer(Goto(e, "M"), m.src), m.src, FALSE)
      \/ Fetch(m.block, AddSharer(Goto(e, "E"), m.src), m.src, TRUE)
      \/ Fetch(m.block, AddOnce(e, m.src), m.src, FALSE)
      \/ Send(m.block, Goto(e, "M"), {m.src}, "ACK")
      \/ Recall(m, e, "MM", "RECALL_GOTO_I") \/ Recall(m, e, "EM", "RECALL_GOTO_I")
      \/ RecallCopy(m, e, "MO") \/ RecallCopy(m, e, "EF")
      \/ CopyFromOwner(m, e, "FF") \/ CopyFromOwner(m, e, "OO")
      \/ PassOwnership(m, e) \/ JoinSharers(m, e, "O") \/ JoinSharers(m, e, "F")
      \/ MOESIFUpgrade(m, e)
      \/ InvalidateAround(m, e, "FM") \/ InvalidateAround(m, e, "OM")
      \/ Invalidate(m, e, "FM", others) \/ Invalidate(m, e, "OM", sharers)
      \/ InvAckThenGrant(m, e) \/ InvAckThenRecall(m, e) \/ OwnerGone(m, e)
      \/ CycleQueue \/ Throw
  BY DEF MOESIFTick
<1>4. /\ others \in SUBSET Procs /\ sharers \in SUBSET Procs
      /\ TRUE \in BOOLEAN /\ FALSE \in BOOLEAN
  BY <1>1, FieldTypes
<1>5. CASE MOESIFUpgrade(m, e)
  <2> DEFINE a == AddOnce(Await(e, "M", m.src), m.src)
  <2>1. a \in DirEntry /\ 0 \in Int
    <3>1. Await(e, "M", m.src) \in DirEntry /\ m.src \in Procs
      BY <1>1, <1>2, EntryEdits, FieldTypes
    <3> QED BY <3>1, EntryEdits
  <2>2. [a EXCEPT !.inv_ack_waiting = 0] \in DirEntry
    <3> HIDE DEF a
    <3> QED BY <2>1, FieldEdits
  <2>3. \/ Send(m.block, [a EXCEPT !.inv_ack_waiting = 0], {m.src}, "ACK")
        \/ Invalidate(m, e, "SM", others)
    BY <1>5 DEF MOESIFUpgrade
  <2> HIDE DEF m, e, others, a
  <2> QED BY <1>1, <1>2, <1>4, <2>2, <2>3, SendType, InvalidateTypes, KindTypes, FieldTypes
<1> HIDE DEF m, e, others, sharers
<1> QED BY <1>1, <1>2, <1>3, <1>4, <1>5, GrantTypes, RecallTypes, CopyTypes, InvalidateTypes,
           InvalidateAroundTypes, InvAckTypes, OwnerGoneTypes, CycleOrThrowType

\* The directory's tick keeps the types, whichever the protocol.
LEMMA DirTickTypes ==
  ASSUME NEW Q, SystemTypes(Q), DirTick, Head(queue) \in ToDirMsg
  PROVE  SystemTypes(Q)'
<1>1. DirTypeOK(Q)
  BY DEF SystemTypes, DirTypeOK
<1>2. DirTypeOK(Q)'
  BY <1>1, MITypes, MSITypes, MESITypes, MOSITypes, MOESIFTypes DEF DirTick
<1>3. UNCHANGED <<protocol, left, req, cpuIn, cacheIn, agent, toDir>>
  BY DEF DirTick
<1> QED BY <1>2, <1>3 DEF SystemTypes, DirTypeOK

\* A message that reaches the directory joins the queue.
LEMMA ArriveTypes ==
  ASSUME NEW Q, SystemTypes(Q), NEW n \in Procs, DirArrive(n)
  PROVE  SystemTypes(Q)'
<1>1. toDir[n] \in Seq(Q) /\ toDir[n] # <<>>
  BY DEF DirArrive, SystemTypes
<1>2. Head(toDir[n]) \in Q /\ Tail(toDir[n]) \in Seq(Q)
  BY <1>1
<1>3. queue' \in Seq(Q)
  BY <1>2 DEF DirArrive, SystemTypes
<1>4. toDir' \in [Procs -> Seq(Q)]
  BY <1>2 DEF DirArrive, SystemTypes
<1> QED BY <1>3, <1>4 DEF DirArrive, SystemTypes

\* The latched response is a message for a node.
LEMMA RespondTypes ==
  ASSUME NEW Q, SystemTypes(Q), DirRespond
  PROVE  SystemTypes(Q)'
<1> DEFINE msg == [kind |-> IF resp.send_E THEN "DATA_E" ELSE "DATA",
                   block |-> resp.block]
<1>1. resp \in Latch
  BY DEF DirRespond, SystemTypes, Idle
<1>2. msg \in ToNodeMsg /\ resp.target \in Procs
  BY <1>1 DEF Latch, ToNodeMsg, AnsKinds
<1>3. Append(toNode[resp.target], msg) \in Seq(ToNodeMsg)
  <2> HIDE DEF msg
  <2> QED BY <1>2 DEF SystemTypes
<1>4. toNode' = [toNode EXCEPT ![resp.target] = Append(toNode[resp.target], msg)]
  BY DEF DirRespond
<1>5. toNode' \in [Procs -> Seq(ToNodeMsg)]
  <2> HIDE DEF msg
  <2> QED BY <1>3, <1>4 DEF SystemTypes
<1> QED BY <1>5 DEF DirRespond, SystemTypes

--------------------------------------------------------------------------------
(* The agents.                                                              *)

\* Rows that only send what the directory knows and go to agent states.
SoundRows(rows) ==
  \A r \in rows : /\ r.to \in AgentStates
                  /\ r.send \in {"DATA_proc", "DATA", "INVACK"} \cup ReqKinds

\* The agent tables of the chosen protocol have such rows.
LEMMA RowTypes ==
  ASSUME protocol \in Protocols
  PROVE  SoundRows(ProcRows) /\ SoundRows(NtwkRows)
<1> USE DEF SoundRows, Row, AgentStates, ReqKinds
<1>1. SoundRows(MIProc) /\ SoundRows(MINtwk)
  BY DEF MIProc, MINtwk
<1>2. SoundRows(MSIProc) /\ SoundRows(MSINtwk)
  BY DEF MSIProc, MSINtwk
<1>3. SoundRows(MESIProc) /\ SoundRows(MESINtwk)
  BY DEF MESIProc, MESINtwk
<1>4. SoundRows(MOSIProc) /\ SoundRows(MOSINtwk)
  BY DEF MOSIProc, MOSINtwk
<1>5. SoundRows(MOESIFProc) /\ SoundRows(MOESIFNtwk)
  BY DEF MOESIFProc, MOESIFNtwk, MOESIFUpgrading
<1>6. protocol \in {"MI", "MSI", "MESI", "MOSI", "MOESIF"}
  BY ProtocolsAssumption
<1> HIDE DEF SoundRows, Row, AgentStates, ReqKinds
<1> QED BY <1>1, <1>2, <1>3, <1>4, <1>5, <1>6 DEF ProcRows, NtwkRows

\* An agent's step keeps its state, the response slots and the channels to
\* the directory of their types.
LEMMA AgentTypes ==
  ASSUME NEW Q, ToDirMsg \subseteq Q, SystemTypes(Q),
         NEW n \in Procs, NEW b \in Blocks, NEW on, NEW rows, SoundRows(rows),
         AgentStep(n, b, on, rows)
  PROVE  /\ agent' \in [Procs -> [Blocks -> AgentStates]]
         /\ toDir' \in [Procs -> Seq(Q)]
         /\ cacheIn' \in [Procs -> BOOLEAN]
         /\ thrown' \in BOOLEAN
<1>1. CASE \E r \in rows : /\ Emit(n, b, r.send)
                           /\ agent' = [agent EXCEPT ![n][b] = r.to]
                           /\ UNCHANGED thrown
  <2>1. PICK r \in rows : /\ Emit(n, b, r.send)
                          /\ agent' = [agent EXCEPT ![n][b] = r.to]
                          /\ UNCHANGED thrown
    BY <1>1
  <2>2. agent' \in [Procs -> [Blocks -> AgentStates]]
    BY <2>1 DEF SoundRows, SystemTypes
  <2>3. CASE r.send = "DATA_proc"
    BY <2>1, <2>2, <2>3 DEF Emit, SystemTypes
  <2>4. CASE r.send # "DATA_proc"
    <3>1. [kind |-> r.send, src |-> n, block |-> b] \in ToDirMsg
      BY <2>4 DEF SoundRows, ToDirMsg
    <3>2. Append(toDir[n], [kind |-> r.send, src |-> n, block |-> b]) \in Seq(Q)
      BY <3>1 DEF SystemTypes
    <3>3. toDir' \in [Procs -> Seq(Q)]
      BY <2>1, <2>4, <3>2 DEF Emit, SystemTypes
    <3> QED BY <2>1, <2>2, <2>4, <3>3 DEF Emit, SystemTypes
  <2> QED BY <2>3, <2>4
<1>2. CASE UNCHANGED <<agent, toDir, cacheIn>> /\ thrown' = TRUE
  BY <1>2 DEF SystemTypes
<1> QED BY <1>1, <1>2 DEF AgentStep

\* Both halves of the cache's tick keep the types.
LEMMA CacheTypes ==
  ASSUME NEW Q, ToDirMsg \subseteq Q, SystemTypes(Q), NEW n \in Procs,
         CacheProc(n, ProcRows) \/ CacheNtwk(n, NtwkRows)
  PROVE  SystemTypes(Q)'
<1>1. CASE CacheProc(n, ProcRows)
  <2>1. cpuIn[n] \in Instrs /\ cpuIn' \in [Procs -> Instrs \cup {NoReq}]
    BY <1>1 DEF CacheProc, SystemTypes
  <2>2. cpuIn[n].block \in Blocks
    BY <2>1 DEF Instrs
  <2>3. AgentStep(n, cpuIn[n].block, cpuIn[n].op, ProcRows)
    BY <1>1 DEF CacheProc
  <2>4. UNCHANGED <<protocol, left, req, toNode, queue, entry, resp>>
    BY <1>1 DEF CacheProc
  <2> QED BY <2>1, <2>2, <2>3, <2>4, AgentTypes, RowTypes DEF SystemTypes
<1>2. CASE CacheNtwk(n, NtwkRows)
  <2>1. toNode[n] \in Seq(ToNodeMsg) /\ toNode[n] # <<>>
    BY <1>2 DEF CacheNtwk, SystemTypes
  <2>2. Head(toNode[n]) \in ToNodeMsg /\ Tail(toNode[n]) \in Seq(ToNodeMsg)
    BY <2>1
  <2>3. toNode' \in [Procs -> Seq(ToNodeMsg)]
    BY <1>2, <2>2 DEF CacheNtwk, SystemTypes
  <2>4. Head(toNode[n]).block \in Blocks
    BY <2>2 DEF ToNodeMsg
  <2>5. AgentStep(n, Head(toNode[n]).block, Head(toNode[n]).kind, NtwkRows)
    BY <1>2 DEF CacheNtwk
  <2>6. UNCHANGED <<protocol, left, req, cpuIn, queue, entry, resp>>
    BY <1>2 DEF CacheNtwk
  <2> QED BY <2>3, <2>4, <2>5, <2>6, AgentTypes, RowTypes DEF SystemTypes
<1> QED BY <1>1, <1>2

\* The run begins with values of the right types.
LEMMA InitTypes ==
  ASSUME SystemInit
  PROVE  TypeOK
<1>1. NewEntry \in DirEntry
  <2>1. 0 \in Procs
    BY NumProcsAssumption DEF Procs
  <2> QED BY <2>1 DEF NewEntry, DirEntry, DirStates
<1>2. "I" \in AgentStates /\ <<>> \in Seq(ToDirMsg) /\ <<>> \in Seq(ToNodeMsg)
  BY DEF AgentStates
<1> QED BY <1>1, <1>2 DEF SystemInit, Init, TypeOK

--------------------------------------------------------------------------------
\* Every variable keeps its type for every number of cores, blocks and
\* instructions and in every protocol: the queue and the channels carry only
\* messages the tables know, inv_ack_waiting and active_sharers stay counts,
\* and no response is latched for a node that does not exist.
THEOREM TypeCorrect == Spec => []TypeOK
<1>1. SystemInit => TypeOK
  BY InitTypes
<1>2. TypeOK /\ [Next]_vars => TypeOK'
  <2> SUFFICES ASSUME TypeOK, [Next]_vars PROVE TypeOK'
    OBVIOUS
  <2>1. ASSUME NEW n \in Procs, CpuTick(n)
        PROVE  TypeOK'
    <3>1. left' \in [Procs -> 0..TraceLen]
      <4>1. left[n] \in 0..TraceLen
        BY DEF TypeOK
      <4>2. left[n] > 0 => left[n] - 1 \in 0..TraceLen
        BY <4>1, TraceLenAssumption
      <4> QED BY <2>1, <4>2 DEF CpuTick, TypeOK
    <3>2. /\ req' \in [Procs -> Instrs \cup {NoReq}]
          /\ cpuIn' \in [Procs -> Instrs \cup {NoReq}]
          /\ cacheIn' \in [Procs -> BOOLEAN]
      BY <2>1, ZenonT(30) DEF CpuTick, TypeOK
    <3>3. UNCHANGED <<protocol, agent, toDir, toNode, queue, entry, resp, thrown>>
      BY <2>1 DEF CpuTick
    <3> QED BY <3>1, <3>2, <3>3 DEF TypeOK
  <2>2. SystemTypes(ToDirMsg) /\ ToDirMsg \subseteq ToDirMsg
    BY SameTypes
  <2>3. ASSUME NEW n \in Procs, CacheProc(n, ProcRows) \/ CacheNtwk(n, NtwkRows)
        PROVE  SystemTypes(ToDirMsg)'
    BY <2>2, <2>3, CacheTypes
  <2>4. ASSUME NEW n \in Procs, DirArrive(n)
        PROVE  SystemTypes(ToDirMsg)'
    BY <2>2, <2>4, ArriveTypes
  <2>5. CASE DirTick
    <3>1. Head(queue) \in ToDirMsg
      BY <2>5 DEF DirTick, TypeOK
    <3>2. SystemTypes(ToDirMsg)'
      BY <2>2, <2>5, <3>1, DirTickTypes
    <3> QED BY <3>2 DEF TypeOK, SystemTypes
  <2>6. CASE DirRespond
    <3>1. SystemTypes(ToDirMsg)'
      BY <2>2, <2>6, RespondTypes
    <3> QED BY <3>1 DEF TypeOK, SystemTypes
  <2>7. CASE UNCHANGED vars
    BY <2>7 DEF vars, TypeOK
  <2>8. SystemTypes(ToDirMsg)' => TypeOK'
    BY DEF TypeOK, SystemTypes
  <2> QED BY <2>1, <2>3, <2>4, <2>5, <2>6, <2>7, <2>8 DEF Next, Finished
<1> QED BY <1>1, <1>2, PTL DEF Spec
================================================================================
