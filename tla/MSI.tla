---------------------------------- MODULE MSI ----------------------------------
(***************************************************************************)
(* The MSI protocol.  getM_upgrade remembers whether the requester that    *)
(* waits for the invalidations held a copy when its GETM was taken.        *)
(***************************************************************************)
EXTENDS CoherenceBase

\* Fault: a store hits on a shared copy.
MSIProcStoresShared ==
  { Row("I", "LOAD",  "GETS",      "IS"),
    Row("I", "STORE", "GETM",      "IM"),
    Row("S", "LOAD",  "DATA_proc", "S"),
    Row("S", "STORE", "DATA_proc", "S"),
    Row("M", "LOAD",  "DATA_proc", "M"),
    Row("M", "STORE", "DATA_proc", "M") }

MSIProc ==
  { Row("I", "LOAD",  "GETS",      "IS"),
    Row("I", "STORE", "GETM",      "IM"),
    Row("S", "LOAD",  "DATA_proc", "S"),
    Row("S", "STORE", "GETM",      "SM"),
    Row("M", "LOAD",  "DATA_proc", "M"),
    Row("M", "STORE", "DATA_proc", "M") }

\* Fault: an upgrade is not expected to lose the race for the block.
MSINtwkNoRace ==
  { Row("S",  "REQ_INVALID",   "INVACK",    "I"),
    Row("M",  "RECALL_GOTO_I", "DATA",      "I"),
    Row("M",  "RECALL_GOTO_S", "DATA",      "S"),
    Row("IS", "DATA",          "DATA_proc", "S"),
    Row("IM", "DATA",          "DATA_proc", "M"),
    Row("SM", "ACK",           "DATA_proc", "M"),
    Row("SM", "DATA",          "DATA_proc", "M") }

MSINtwk ==
  { Row("S",  "REQ_INVALID",   "INVACK",    "I"),
    Row("M",  "RECALL_GOTO_I", "DATA",      "I"),
    Row("M",  "RECALL_GOTO_S", "DATA",      "S"),
    Row("IS", "DATA",          "DATA_proc", "S"),
    Row("IM", "DATA",          "DATA_proc", "M"),
    Row("SM", "REQ_INVALID",   "INVACK",    "IM"),
    Row("SM", "ACK",           "DATA_proc", "M"),
    Row("SM", "DATA",          "DATA_proc", "M") }

MSITransient == {"SM", "MM", "MS"}
MSIHandled ==
  ({"I", "M", "S"} \X {"GETM", "GETS"}) \cup (MSITransient \X {"GETM", "GETS"})
  \cup { <<"MM", "DATA">>, <<"MS", "DATA">>, <<"SM", "INVACK">> }

\* Fault: an upgrade that needs no invalidation still waits for one.
MSIUpgradeWaits(m, e) ==
  LET others == e.presence \ {m.src} IN
  Send(m.block,
       [Await(e, "SM", m.src) EXCEPT !.inv_ack_waiting = Cardinality(others),
                                     !.getM_upgrade = m.src \in e.presence],
       others, "REQ_INVALID")

\* (S, GETM): invalidate the other sharers; without any, grant at once.
MSIUpgrade(m, e) ==
  LET others == e.presence \ {m.src} IN
  IF others = {}
  THEN Send(m.block, Goto(e, "M"), {m.src}, "ACK")
  ELSE Send(m.block,
            [Await(e, "SM", m.src) EXCEPT !.inv_ack_waiting = Cardinality(others),
                                          !.getM_upgrade = m.src \in e.presence],
            others, "REQ_INVALID")

\* (SM, INVACK): the last one answers the waiting requester.
MSIInvAck(m, e) ==
  LET e1 == [DropSharer(e, m.src) EXCEPT !.inv_ack_waiting = @ - 1] IN
  CASE e1.inv_ack_waiting # 0 -> Note(m.block, e1)
    [] e1.inv_ack_waiting = 0 /\ e.getM_upgrade ->
         Send(m.block, Goto(e1, "M"), {e.req_node}, "ACK")
    [] OTHER -> Fetch(m.block, AddSharer(Goto(e1, "M"), e.req_node), e.req_node, FALSE)

\* (MM, DATA): the first present node is taken for the old owner.
MSIPassOn(m, e) ==
  LET e1 == IF e.presence = {} THEN e ELSE DropSharer(e, FirstPresent(e)) IN
  Send(m.block, AddSharer(Goto(e1, "M"), e.req_node), {e.req_node}, "DATA")

\* MSI_tick on the message m at the head of the queue.
MSITick(m) ==
  LET b == m.block
      e == entry[b]
      on(s, k) == e.state = s /\ m.kind = k
  IN
  \/ on("I", "GETM")   /\ Fetch(b, AddOnce(Goto(e, "M"), m.src), m.src, FALSE)
  \/ on("I", "GETS")   /\ Fetch(b, AddOnce(Goto(e, "S"), m.src), m.src, FALSE)
  \/ on("M", "GETM")   /\ Send(b, Await(e, "MM", m.src), {FirstPresent(e)}, "RECALL_GOTO_I")
  \/ on("M", "GETS")   /\ Send(b, Await(e, "MS", m.src), {FirstPresent(e)}, "RECALL_GOTO_S")
  \/ on("MM", "DATA")  /\ MSIPassOn(m, e)
  \/ on("MS", "DATA")  /\ JoinSharers(m, e, "S")
  \/ on("S", "GETM")   /\ MSIUpgrade(m, e)
  \/ on("S", "GETS")   /\ Fetch(b, AddOnce(e, m.src), m.src, FALSE)
  \/ on("SM", "INVACK") /\ MSIInvAck(m, e)
  \/ e.state \in MSITransient /\ m.kind \in {"GETM", "GETS"} /\ CycleQueue
  \/ <<e.state, m.kind>> \notin MSIHandled /\ Throw
================================================================================
