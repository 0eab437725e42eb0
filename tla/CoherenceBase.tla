----------------------------- MODULE CoherenceBase -----------------------------
(***************************************************************************)
(* The parts of src/coherence that the five protocols share: the one-      *)
(* request-at-a-time trace CPU, the cache that hands its two input slots   *)
(* to the per-block agents, the network as one FIFO channel per direction  *)
(* between a node and the directory, and the directory controller with its *)
(* request queue and its single memory-response latch.                     *)
(*                                                                         *)
(* One step is one call of the code's tick that does something; which node *)
(* ticks next is left open, so the cycle-exact schedule of the simulator   *)
(* is one of the schedules checked.  The *_next half of a slot or queue    *)
(* and the half read by the consumer are one variable.                     *)
(***************************************************************************)
EXTENDS Integers, Sequences, FiniteSets

CONSTANTS NumProcs,   \* settings.num_procs
          Blocks,     \* block ids
          TraceLen    \* bound on a processor's trace (instrs_.size())

\* presence[] has kMaxSharers = 16 places, and main rejects a run without cores.
ASSUME NumProcsAssumption == NumProcs \in 1..16
ASSUME TraceLenAssumption == TraceLen \in Nat

VARIABLES
  protocol,   \* settings.protocol, fixed for a run
  left,       \* left[n]: instructions of n's trace not yet issued
  req,        \* req[n]: the instruction n waits for (outstanding_), or NoReq
  cpuIn,      \* cpuIn[n]: what sits in the cpu_in slot of n's cache, or NoReq
  cacheIn,    \* cacheIn[n]: a response sits in n's cache_in slot
  agent,      \* agent[n][b]: state_ of n's agent for b
  toDir,      \* toDir[n]: messages on the way from n to the directory
  toNode,     \* toNode[n]: messages on the way from the directory to n
  queue,      \* request_queue followed by request_next
  entry,      \* entry[b]: the directory's DirEntry
  resp,       \* the latch of schedule_data_response
  thrown      \* an agent or the directory threw; the run is over

vars == <<protocol, left, req, cpuIn, cacheIn, agent, toDir, toNode, queue,
          entry, resp, thrown>>

Procs   == 0 .. NumProcs - 1
NoNode  == -1                      \* static_cast<NodeId>(-1)
Instrs  == [op : {"LOAD", "STORE"}, block : Blocks]
NoReq   == [op |-> "NONE"]

ReqKinds   == {"GETS", "GETM", "GETX"}                    \* node to directory
AnsKinds   == {"DATA", "DATA_E", "ACK"}                   \* directory to node
ProbeKinds == {"REQ_INVALID", "RECALL_GOTO_I", "RECALL_GOTO_S"}
ToDirMsg   == [kind : ReqKinds \cup {"DATA", "INVACK"}, src : Procs, block : Blocks]
ToNodeMsg  == [kind : AnsKinds \cup ProbeKinds, block : Blocks]

AgentStates == {"I", "S", "E", "M", "O", "F", "IS", "IM", "SM", "EM", "OM", "FM"}
DirStates   == {"I", "S", "E", "M", "O", "F", "SM", "MS", "MM", "MO", "OO", "OM",
                "ES", "EM", "EF", "FF", "FM"}
DirStable   == {"I", "S", "E", "M", "O", "F"}

DirEntry == [state : DirStates, presence : SUBSET Procs, active_sharers : Int,
             req_node : Procs, o_f_id : Procs \cup {NoNode},
             inv_ack_waiting : Int, getM_upgrade : BOOLEAN]

NewEntry == [state |-> "I", presence |-> {}, active_sharers |-> 0, req_node |-> 0,
             o_f_id |-> 0, inv_ack_waiting |-> 0, getM_upgrade |-> FALSE]

Idle == [busy |-> FALSE]
Latch == [busy : {TRUE}, target : Procs, block : Blocks, send_E : BOOLEAN]

--------------------------------------------------------------------------------
(* The trace CPU (FiciCpu).                                                 *)

\* Fault: the CPU does not stop at the end of its trace.
CpuTickPastEnd(n) ==
  /\ ~thrown
  /\ cacheIn[n] \/ req[n] = NoReq
  /\ left[n] > -1
  /\ cacheIn' = [cacheIn EXCEPT ![n] = FALSE]
  /\ \E i \in Instrs : /\ req' = [req EXCEPT ![n] = i]
                       /\ cpuIn' = [cpuIn EXCEPT ![n] = i]
  /\ left' = [left EXCEPT ![n] = @ - 1]
  /\ UNCHANGED <<protocol, agent, toDir, toNode, queue, entry, resp, thrown>>

\* One tick: take the response, if there is one, and issue the next
\* instruction of the trace.  A tick with nothing to do is no step.
CpuTick(n) ==
  /\ ~thrown
  /\ cacheIn[n] \/ (req[n] = NoReq /\ left[n] > 0)
  /\ cacheIn' = [cacheIn EXCEPT ![n] = FALSE]
  /\ \/ /\ left[n] = 0
        /\ req' = [req EXCEPT ![n] = NoReq]
        /\ UNCHANGED <<left, cpuIn>>
     \/ /\ left[n] > 0
        /\ \E i \in Instrs : /\ req' = [req EXCEPT ![n] = i]
                             /\ cpuIn' = [cpuIn EXCEPT ![n] = i]
        /\ left' = [left EXCEPT ![n] = @ - 1]
  /\ UNCHANGED <<protocol, agent, toDir, toNode, queue, entry, resp, thrown>>

CpuDone(n) == left[n] = 0 /\ req[n] = NoReq
AllDone    == \A n \in Procs : CpuDone(n)

\* The main loop leaves as soon as every CPU is done.
Finished == AllDone /\ ~thrown /\ UNCHANGED vars

--------------------------------------------------------------------------------
(* Agents and caches.  A protocol gives its agents as sets of rows: in      *)
(* state from, on message on, emit send and go to state to.                 *)

Row(from, on, send, to) == [from |-> from, on |-> on, send |-> send, to |-> to]

\* send_DATA_proc overwrites the CPU's response slot; every other send goes
\* to the directory.
Emit(n, b, send) ==
  IF send = "DATA_proc"
  THEN /\ cacheIn' = [cacheIn EXCEPT ![n] = TRUE]
       /\ UNCHANGED toDir
  ELSE /\ toDir' = [toDir EXCEPT ![n] =
                      Append(@, [kind |-> send, src |-> n, block |-> b])]
       /\ UNCHANGED cacheIn

\* Agent n of block b sees message on; without a row for it, bad_msg throws.
AgentStep(n, b, on, rows) ==
  LET matching == {r \in rows : r.from = agent[n][b] /\ r.on = on} IN
  \/ /\ \E r \in matching : /\ Emit(n, b, r.send)
                            /\ agent' = [agent EXCEPT ![n][b] = r.to]
     /\ UNCHANGED thrown
  \/ /\ matching = {}
     /\ thrown' = TRUE
     /\ UNCHANGED <<agent, toDir, cacheIn>>

\* Cache::tick, CPU half.
CacheProc(n, rows) ==
  /\ ~thrown
  /\ cpuIn[n] # NoReq
  /\ cpuIn' = [cpuIn EXCEPT ![n] = NoReq]
  /\ AgentStep(n, cpuIn[n].block, cpuIn[n].op, rows)
  /\ UNCHANGED <<protocol, left, req, toNode, queue, entry, resp>>

\* Cache::tick, network half: at most one message per tick, in channel order.
CacheNtwk(n, rows) ==
  /\ ~thrown
  /\ toNode[n] # <<>>
  /\ toNode' = [toNode EXCEPT ![n] = Tail(@)]
  /\ AgentStep(n, Head(toNode[n]).block, Head(toNode[n]).kind, rows)
  /\ UNCHANGED <<protocol, left, req, cpuIn, queue, entry, resp>>

--------------------------------------------------------------------------------
(* The directory controller.                                                *)

\* A message of n reaches the directory node.
DirArrive(n) ==
  /\ ~thrown
  /\ toDir[n] # <<>>
  /\ queue' = Append(queue, Head(toDir[n]))
  /\ toDir' = [toDir EXCEPT ![n] = Tail(@)]
  /\ UNCHANGED <<protocol, left, req, cpuIn, cacheIn, agent, toNode, entry, resp,
                 thrown>>

Goto(e, s)    == [e EXCEPT !.state = s]
Await(e, s, n) == [e EXCEPT !.state = s, !.req_node = n]
AddSharer(e, n) == [e EXCEPT !.presence = @ \cup {n}, !.active_sharers = @ + 1]
\* Fault: the presence bit goes, the count stays.
DropSharerUncounted(e, n) == [e EXCEPT !.presence = @ \ {n}]
DropSharer(e, n) == [e EXCEPT !.presence = @ \ {n}, !.active_sharers = @ - 1]
AddOnce(e, n) == IF n \in e.presence THEN e ELSE AddSharer(e, n)

\* The owner scans: MSI stops at the first set presence bit, the others keep
\* the last.
FirstPresent(e) == IF e.presence = {} THEN 0
                   ELSE CHOOSE n \in e.presence : \A k \in e.presence : n <= k
LastPresent(e)  == IF e.presence = {} THEN NoNode
                   ELSE CHOOSE n \in e.presence : \A k \in e.presence : k <= n

Dequeue == queue' = Tail(queue)

\* send_Request of one kind to every node of dsts.
Send(b, e, dsts, kind) ==
  /\ Dequeue
  /\ entry' = [entry EXCEPT ![b] = e]
  /\ toNode' = [n \in Procs |-> IF n \in dsts
                                THEN Append(toNode[n], [kind |-> kind, block |-> b])
                                ELSE toNode[n]]
  /\ UNCHANGED <<resp, thrown>>

\* Fault: send_E, once set, is not cleared again.
FetchAlwaysE(b, e, dst, send_E) ==
  /\ Dequeue
  /\ entry' = [entry EXCEPT ![b] = e]
  /\ resp' = [busy |-> TRUE, target |-> dst, block |-> b, send_E |-> dst # NoNode]
  /\ UNCHANGED <<toNode, thrown>>

\* schedule_data_response: latch the response; the directory handles no
\* further message until it has left.
Fetch(b, e, dst, send_E) ==
  /\ Dequeue
  /\ entry' = [entry EXCEPT ![b] = e]
  /\ resp' = [busy |-> TRUE, target |-> dst, block |-> b, send_E |-> send_E]
  /\ UNCHANGED <<toNode, thrown>>

\* The message only changes the directory's own entry.
Note(b, e) ==
  /\ Dequeue
  /\ entry' = [entry EXCEPT ![b] = e]
  /\ UNCHANGED <<toNode, resp, thrown>>

\* Fault: a request for a block in transit is dropped.
CycleDropsRequest ==
  /\ queue' = Tail(queue)
  /\ UNCHANGED <<entry, toNode, resp, thrown>>

\* cycle_queue: the block is in transit, retry the message later.
CycleQueue ==
  /\ queue' = Append(Tail(queue), Head(queue))
  /\ UNCHANGED <<entry, toNode, resp, thrown>>

Throw ==
  /\ thrown' = TRUE
  /\ UNCHANGED <<queue, entry, toNode, resp>>

\* The memory (or LLS) latency has passed: the latched response leaves.
DirRespond ==
  /\ ~thrown
  /\ resp.busy
  /\ LET msg == [kind |-> IF resp.send_E THEN "DATA_E" ELSE "DATA",
                 block |-> resp.block]
     IN toNode' = [toNode EXCEPT ![resp.target] = Append(@, msg)]
  /\ resp' = Idle
  /\ UNCHANGED <<protocol, left, req, cpuIn, cacheIn, agent, toDir, queue, entry,
                 thrown>>

--------------------------------------------------------------------------------
(* Directory handlers that several protocols share.                         *)

\* Recall the block from its owner on behalf of the requester.
Recall(m, e, s, kind) == Send(m.block, Await(e, s, m.src), {LastPresent(e)}, kind)

\* The old owner gave the block up: it goes straight on to the requester.
PassOwnership(m, e) ==
  Send(m.block, AddSharer(Goto(DropSharer(e, m.src), "M"), e.req_node),
       {e.req_node}, "DATA")

\* The old owner keeps a copy: the requester joins it.
JoinSharers(m, e, s) ==
  Send(m.block, AddSharer(Goto(e, s), e.req_node), {e.req_node}, "DATA")

\* Fault: the requester is counted among those who will acknowledge.
InvalidateCountsRequester(m, e, s, victims) ==
  Send(m.block, [Await(e, s, m.src) EXCEPT !.inv_ack_waiting = Cardinality(e.presence)],
       victims, "REQ_INVALID")

\* Invalidate the nodes of victims for the requester, and wait for them.
Invalidate(m, e, s, victims) ==
  Send(m.block, [Await(e, s, m.src) EXCEPT !.inv_ack_waiting = Cardinality(victims)],
       victims, "REQ_INVALID")

AckReceived(m, e) == [DropSharer(e, m.src) EXCEPT !.inv_ack_waiting = @ - 1]

\* Fault: the first acknowledgement is taken for the last.
InvAckGrantsEarly(m, e) ==
  LET e1 == AckReceived(m, e) IN
  CASE e.inv_ack_waiting < 1 -> Throw
    [] e.inv_ack_waiting >= 1 /\ e.req_node \in e1.presence ->
         Send(m.block, Goto(e1, "M"), {e.req_node}, "ACK")
    [] OTHER -> Fetch(m.block, AddSharer(Goto(e1, "M"), e.req_node), e.req_node, FALSE)

\* (SM, INVACK): the last one grants M, from memory unless the requester
\* still has its copy; one nobody waits for throws.
InvAckThenGrant(m, e) ==
  LET e1 == AckReceived(m, e) IN
  CASE e.inv_ack_waiting < 1 -> Throw
    [] e.inv_ack_waiting > 1 -> Note(m.block, e1)
    [] e.inv_ack_waiting = 1 /\ e.req_node \in e1.presence ->
         Send(m.block, Goto(e1, "M"), {e.req_node}, "ACK")
    [] OTHER -> Fetch(m.block, AddSharer(Goto(e1, "M"), e.req_node), e.req_node, FALSE)

\* GETM on a block with an owner or forwarder: first the plain sharers go,
\* then the owner; without plain sharers the owner is recalled at once.
InvalidateAround(m, e, s) ==
  LET sharers == e.presence \ {m.src, e.o_f_id} IN
  IF sharers # {}
  THEN Invalidate(m, e, s, sharers)
  ELSE Send(m.block, [Await(e, s, m.src) EXCEPT !.inv_ack_waiting = 0],
            {e.o_f_id}, "RECALL_GOTO_I")

\* (OM or FM, INVACK): the last one grants M to an owner that is alone, and
\* otherwise recalls the owner.
InvAckThenRecall(m, e) ==
  LET e1 == AckReceived(m, e) IN
  CASE e.inv_ack_waiting < 1 -> Throw
    [] e.inv_ack_waiting > 1 -> Note(m.block, e1)
    [] e.inv_ack_waiting = 1 /\ e1.active_sharers = 1 /\ e.req_node = e.o_f_id ->
         Send(m.block, Goto(e1, "M"), {e.req_node}, "ACK")
    [] OTHER -> Send(m.block, e1, {e.o_f_id}, "RECALL_GOTO_I")

\* (OM or FM, DATA): the owner has gone, the requester becomes M.
OwnerGone(m, e) ==
  LET e1 == [DropSharer(Goto(e, "M"), e.o_f_id) EXCEPT !.o_f_id = NoNode] IN
  IF e.req_node \in e1.presence
  THEN Send(m.block, e1, {e.req_node}, "ACK")
  ELSE Send(m.block, AddSharer(e1, e.req_node), {e.req_node}, "DATA")

\* Fault: the recalled owner is not remembered.
RecallCopyForgets(m, e, s) ==
  Send(m.block, Await(e, s, m.src), {LastPresent(e)}, "RECALL_GOTO_S")

\* GETS on a block with one holder: remember it as owner and recall a copy.
RecallCopy(m, e, s) ==
  LET o == IF e.presence = {} THEN e.o_f_id ELSE LastPresent(e) IN
  Send(m.block, [Await(e, s, m.src) EXCEPT !.o_f_id = o], {LastPresent(e)},
       "RECALL_GOTO_S")

\* GETS on a block with an owner: recall a copy; the owner itself asking throws.
CopyFromOwner(m, e, s) ==
  IF e.o_f_id = m.src
  THEN Throw
  ELSE Send(m.block, Await(e, s, m.src), {e.o_f_id}, "RECALL_GOTO_S")

--------------------------------------------------------------------------------
Init ==
  /\ left \in [Procs -> 0..TraceLen]
  /\ req = [n \in Procs |-> NoReq]
  /\ cpuIn = [n \in Procs |-> NoReq]
  /\ cacheIn = [n \in Procs |-> FALSE]
  /\ agent = [n \in Procs |-> [b \in Blocks |-> "I"]]
  /\ toDir = [n \in Procs |-> <<>>]
  /\ toNode = [n \in Procs |-> <<>>]
  /\ queue = <<>>
  /\ entry = [b \in Blocks |-> NewEntry]
  /\ resp = Idle
  /\ thrown = FALSE
================================================================================
