-------------------------------- MODULE MOESIF --------------------------------
(***************************************************************************)
(* The MOESIF protocol: MESI's exclusive state and GETX, MOSI's owner for  *)
(* dirty blocks, and a forwarder (F) that answers for clean ones.  o_f_id  *)
(* names the owner or the forwarder.                                       *)
(***************************************************************************)
EXTENDS CoherenceBase

MOESIFProc ==
  { Row("I", "LOAD",  "GETS",      "IS"),
    Row("I", "STORE", "GETM",      "IM"),
    Row("S", "LOAD",  "DATA_proc", "S"),
    Row("S", "STORE", "GETM",      "SM"),
    Row("E", "LOAD",  "DATA_proc", "E"),
    Row("E", "STORE", "GETX",      "EM"),
    Row("M", "LOAD",  "DATA_proc", "M"),
    Row("M", "STORE", "DATA_proc", "M"),
    Row("F", "LOAD",  "DATA_proc", "F"),
    Row("F", "STORE", "GETM",      "FM"),
    Row("O", "LOAD",  "DATA_proc", "O"),
    Row("O", "STORE", "GETM",      "OM") }

\* The upgrading states that answer a recall with the line they still hold:
\* RECALL_GOTO_S leaves them in the state second, RECALL_GOTO_I in IM.
MOESIFUpgrading == { <<"EM", "FM">>, <<"FM", "FM">>, <<"OM", "OM">> }

MOESIFNtwk ==
  { Row("S",  "REQ_INVALID",   "INVACK",    "I"),
    Row("E",  "RECALL_GOTO_I", "DATA",      "I"),
    Row("E",  "RECALL_GOTO_S", "DATA",      "F"),
    Row("M",  "RECALL_GOTO_I", "DATA",      "I"),
    Row("M",  "RECALL_GOTO_S", "DATA",      "O"),
    Row("F",  "RECALL_GOTO_I", "DATA",      "I"),
    Row("F",  "RECALL_GOTO_S", "DATA",      "F"),
    Row("O",  "RECALL_GOTO_I", "DATA",      "I"),
    Row("O",  "RECALL_GOTO_S", "DATA",      "O"),
    Row("IS", "DATA",          "DATA_proc", "S"),
    Row("IS", "DATA_E",        "DATA_proc", "E"),
    Row("IM", "DATA",          "DATA_proc", "M"),
    Row("SM", "REQ_INVALID",   "INVACK",    "IM"),
    Row("SM", "ACK",           "DATA_proc", "M"),
    Row("SM", "DATA",          "DATA_proc", "M") }
  \cup UNION { { Row(u[1], "RECALL_GOTO_I", "DATA",      "IM"),
                 Row(u[1], "RECALL_GOTO_S", "DATA",      u[2]),
                 Row(u[1], "ACK",           "DATA_proc", "M"),
                 Row(u[1], "DATA",          "DATA_proc", "M") } : u \in MOESIFUpgrading }

MOESIFTransient == {"MM", "MO", "EM", "EF", "FM", "FF", "OM", "OO", "SM"}
MOESIFHandled ==
  ((DirStable \cup MOESIFTransient) \X ReqKinds)
  \cup ((MOESIFTransient \ {"SM"}) \X {"DATA"}) \cup ({"SM", "FM", "OM"} \X {"INVACK"})

\* (S, GETM or GETX): S is reached only through a writeback; without other
\* sharers the requester is granted M at once.
MOESIFUpgrade(m, e) ==
  LET others == e.presence \ {m.src} IN
  IF others = {}
  THEN Send(m.block,
            [AddOnce(Await(e, "M", m.src), m.src) EXCEPT !.inv_ack_waiting = 0],
            {m.src}, "ACK")
  ELSE Invalidate(m, e, "SM", others)

\* MOESIF_tick on the message m at the head of the queue.  GETX on F or O
\* recalls nobody itself: it relies on a sharer to acknowledge.
MOESIFTick(m) ==
  LET b == m.block
      e == entry[b]
      on(s, K) == e.state = s /\ m.kind \in K
  IN
  \/ on("I", {"GETM", "GETX"}) /\ Fetch(b, AddSharer(Goto(e, "M"), m.src), m.src, FALSE)
  \/ on("I", {"GETS"})         /\ Fetch(b, AddSharer(Goto(e, "E"), m.src), m.src, TRUE)
  \/ on("S", {"GETS"})         /\ Fetch(b, AddOnce(e, m.src), m.src, FALSE)
  \/ on("S", {"GETM", "GETX"}) /\ MOESIFUpgrade(m, e)
  \/ on("SM", {"INVACK"})      /\ InvAckThenGrant(m, e)
  \/ on("M", {"GETM", "GETX"}) /\ Recall(m, e, "MM", "RECALL_GOTO_I")
  \/ on("M", {"GETS"})         /\ RecallCopy(m, e, "MO")
  \/ on("E", {"GETM"})         /\ Recall(m, e, "EM", "RECALL_GOTO_I")
  \/ on("E", {"GETS"})         /\ RecallCopy(m, e, "EF")
  \/ on("E", {"GETX"})         /\ Send(b, Goto(e, "M"), {m.src}, "ACK")
  \/ (on("MM", {"DATA"}) \/ on("EM", {"DATA"})) /\ PassOwnership(m, e)
  \/ (on("MO", {"DATA"}) \/ on("OO", {"DATA"})) /\ JoinSharers(m, e, "O")
  \/ (on("EF", {"DATA"}) \/ on("FF", {"DATA"})) /\ JoinSharers(m, e, "F")
  \/ on("F", {"GETM"})         /\ InvalidateAround(m, e, "FM")
  \/ on("F", {"GETS"})         /\ CopyFromOwner(m, e, "FF")
  \/ on("F", {"GETX"})         /\ Invalidate(m, e, "FM", e.presence \ {m.src})
  \/ on("O", {"GETM"})         /\ InvalidateAround(m, e, "OM")
  \/ on("O", {"GETS"})         /\ CopyFromOwner(m, e, "OO")
  \/ on("O", {"GETX"})         /\ Invalidate(m, e, "OM", e.presence \ {m.src, e.o_f_id})
  \/ e.state \in {"FM", "OM"} /\ m.kind = "INVACK" /\ InvAckThenRecall(m, e)
  \/ e.state \in {"FM", "OM"} /\ m.kind = "DATA"   /\ OwnerGone(m, e)
  \/ e.state \in MOESIFTransient /\ m.kind \in ReqKinds /\ CycleQueue
  \/ <<e.state, m.kind>> \notin MOESIFHandled /\ Throw
===============================================================================
