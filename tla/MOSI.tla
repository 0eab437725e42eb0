--------------------------------- MODULE MOSI ---------------------------------
(***************************************************************************)
(* The MOSI protocol: a modified block that is read elsewhere stays with   *)
(* its owner (O), which o_f_id names; GETS is answered through the owner.  *)
(***************************************************************************)
EXTENDS CoherenceBase

MOSIProc ==
  { Row("I", "LOAD",  "GETS",      "IS"),
    Row("I", "STORE", "GETM",      "IM"),
    Row("S", "LOAD",  "DATA_proc", "S"),
    Row("S", "STORE", "GETM",      "SM"),
    Row("M", "LOAD",  "DATA_proc", "M"),
    Row("M", "STORE", "DATA_proc", "M"),
    Row("O", "LOAD",  "DATA_proc", "O"),
    Row("O", "STORE", "GETM",      "OM") }

MOSINtwk ==
  { Row("S",  "REQ_INVALID",   "INVACK",    "I"),
    Row("M",  "RECALL_GOTO_I", "DATA",      "I"),
    Row("M",  "RECALL_GOTO_S", "DATA",      "O"),
    Row("O",  "RECALL_GOTO_I", "DATA",      "I"),
    Row("O",  "RECALL_GOTO_S", "DATA",      "O"),
    Row("IS", "DATA",          "DATA_proc", "S"),
    Row("IM", "DATA",          "DATA_proc", "M"),
    Row("SM", "REQ_INVALID",   "INVACK",    "IM"),
    Row("SM", "ACK",           "DATA_proc", "M"),
    Row("SM", "DATA",          "DATA_proc", "M"),
    Row("OM", "RECALL_GOTO_S", "DATA",      "OM"),
    Row("OM", "RECALL_GOTO_I", "DATA",      "IM"),
    Row("OM", "ACK",           "DATA_proc", "M") }

MOSITransient == {"SM", "MM", "MO", "OM", "OO"}
MOSIHandled ==
  (({"I", "M", "S", "O"} \cup MOSITransient) \X {"GETM", "GETS"})
  \cup ({"MO", "MM", "OM", "OO"} \X {"DATA"}) \cup ({"SM", "OM"} \X {"INVACK"})

\* (S, GETM): without other sharers the requester is granted M at once.
MOSIUpgrade(m, e) ==
  LET others == e.presence \ {m.src} IN
  IF others = {}
  THEN Send(m.block, [Goto(e, "M") EXCEPT !.inv_ack_waiting = 0], {m.src}, "ACK")
  ELSE Invalidate(m, e, "SM", others)

\* MOSI_tick on the message m at the head of the queue.
MOSITick(m) ==
  LET b == m.block
      e == entry[b]
      on(s, k) == e.state = s /\ m.kind = k
  IN
  \/ on("I", "GETM")    /\ Fetch(b, AddSharer(Goto(e, "M"), m.src), m.src, FALSE)
  \/ on("I", "GETS")    /\ Fetch(b, AddSharer(Goto(e, "S"), m.src), m.src, FALSE)
  \/ on("M", "GETM")    /\ Recall(m, e, "MM", "RECALL_GOTO_I")
  \/ on("M", "GETS")    /\ RecallCopy(m, e, "MO")
  \/ on("MO", "DATA")   /\ JoinSharers(m, e, "O")
  \/ on("MM", "DATA")   /\ PassOwnership(m, e)
  \/ on("S", "GETM")    /\ MOSIUpgrade(m, e)
  \/ on("S", "GETS")    /\ Fetch(b, AddSharer(e, m.src), m.src, FALSE)
  \/ on("SM", "INVACK") /\ InvAckThenGrant(m, e)
  \/ on("O", "GETM")    /\ InvalidateAround(m, e, "OM")
  \/ on("O", "GETS")    /\ CopyFromOwner(m, e, "OO")
  \/ on("OM", "INVACK") /\ InvAckThenRecall(m, e)
  \/ on("OM", "DATA")   /\ OwnerGone(m, e)
  \/ on("OO", "DATA")   /\ JoinSharers(m, e, "O")
  \/ e.state \in MOSITransient /\ m.kind \in {"GETM", "GETS"} /\ CycleQueue
  \/ <<e.state, m.kind>> \notin MOSIHandled /\ Throw
===============================================================================
