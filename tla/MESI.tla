--------------------------------- MODULE MESI ---------------------------------
(***************************************************************************)
(* The MESI protocol: a load of an uncached block gets it exclusive (E),   *)
(* and a store to an exclusive block asks for the upgrade with GETX.       *)
(***************************************************************************)
EXTENDS CoherenceBase

MESIProc ==
  { Row("I", "LOAD",  "GETS",      "IS"),
    Row("I", "STORE", "GETM",      "IM"),
    Row("S", "LOAD",  "DATA_proc", "S"),
    Row("S", "STORE", "GETM",      "SM"),
    Row("E", "LOAD",  "DATA_proc", "E"),
    Row("E", "STORE", "GETX",      "EM"),
    Row("M", "LOAD",  "DATA_proc", "M"),
    Row("M", "STORE", "DATA_proc", "M") }

MESINtwk ==
  { Row("S",  "REQ_INVALID",   "INVACK",    "I"),
    Row("E",  "RECALL_GOTO_I", "DATA",      "I"),
    Row("E",  "RECALL_GOTO_S", "DATA",      "S"),
    Row("M",  "RECALL_GOTO_I", "DATA",      "I"),
    Row("M",  "RECALL_GOTO_S", "DATA",      "S"),
    Row("IS", "DATA",          "DATA_proc", "S"),
    Row("IS", "DATA_E",        "DATA_proc", "E"),
    Row("IM", "DATA",          "DATA_proc", "M"),
    Row("SM", "REQ_INVALID",   "INVACK",    "IM"),
    Row("SM", "ACK",           "DATA_proc", "M"),
    Row("SM", "DATA",          "DATA_proc", "M"),
    Row("EM", "RECALL_GOTO_I", "DATA",      "IM"),
    Row("EM", "RECALL_GOTO_S", "DATA",      "SM"),
    Row("EM", "ACK",           "DATA_proc", "M"),
    Row("EM", "DATA",          "DATA_proc", "M") }

MESITransient == {"SM", "MM", "MS", "EM", "ES"}
MESIHandled ==
  (({"I", "M", "E", "S"} \cup MESITransient) \X ReqKinds)
  \cup ({"MM", "MS", "ES", "EM"} \X {"DATA"}) \cup { <<"SM", "INVACK">> }

\* MESI_tick on the message m at the head of the queue.  (S, GETM) waits for
\* invalidation acknowledgements even when it asked nobody for one.
MESITick(m) ==
  LET b == m.block
      e == entry[b]
      on(s, K) == e.state = s /\ m.kind \in K
  IN
  \/ on("I", {"GETM", "GETX"}) /\ Fetch(b, AddSharer(Goto(e, "M"), m.src), m.src, FALSE)
  \/ on("I", {"GETS"})         /\ Fetch(b, AddSharer(Goto(e, "E"), m.src), m.src, TRUE)
  \/ on("M", {"GETM", "GETX"}) /\ Recall(m, e, "MM", "RECALL_GOTO_I")
  \/ on("M", {"GETS"})         /\ Recall(m, e, "MS", "RECALL_GOTO_S")
  \/ on("E", {"GETM"})         /\ Recall(m, e, "EM", "RECALL_GOTO_I")
  \/ on("E", {"GETS"})         /\ Recall(m, e, "ES", "RECALL_GOTO_S")
  \/ on("E", {"GETX"})         /\ Send(b, Goto(e, "M"), {m.src}, "ACK")
  \/ (on("MM", {"DATA"}) \/ on("EM", {"DATA"})) /\ PassOwnership(m, e)
  \/ (on("MS", {"DATA"}) \/ on("ES", {"DATA"})) /\ JoinSharers(m, e, "S")
  \/ on("S", {"GETM", "GETX"}) /\ Invalidate(m, e, "SM", e.presence \ {m.src})
  \/ on("S", {"GETS"})         /\ Fetch(b, AddSharer(e, m.src), m.src, FALSE)
  \/ on("SM", {"INVACK"})      /\ InvAckThenGrant(m, e)
  \/ e.state \in MESITransient /\ m.kind \in ReqKinds /\ CycleQueue
  \/ <<e.state, m.kind>> \notin MESIHandled /\ Throw
===============================================================================
