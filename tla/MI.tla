---------------------------------- MODULE MI ----------------------------------
(***************************************************************************)
(* The MI protocol: one holder per block, loads and stores alike ask for   *)
(* ownership.                                                              *)
(***************************************************************************)
EXTENDS CoherenceBase

MIProc ==
  { Row("I", "LOAD",  "GETM",      "IM"),
    Row("I", "STORE", "GETM",      "IM"),
    Row("M", "LOAD",  "DATA_proc", "M"),
    Row("M", "STORE", "DATA_proc", "M") }

MINtwk ==
  { Row("M",  "RECALL_GOTO_I", "DATA",      "I"),
    Row("IM", "DATA",          "DATA_proc", "M") }

MIHandled == { <<"I", "GETM">>, <<"M", "GETM">>, <<"MM", "DATA">>, <<"MM", "GETM">> }

\* MI_tick on the message m at the head of the queue.
MITick(m) ==
  LET b == m.block
      e == entry[b]
      on(s, k) == e.state = s /\ m.kind = k
  IN
  \/ on("I", "GETM")  /\ Fetch(b, AddSharer(Goto(e, "M"), m.src), m.src, FALSE)
  \/ on("M", "GETM")  /\ Recall(m, e, "MM", "RECALL_GOTO_I")
  \/ on("MM", "DATA") /\ PassOwnership(m, e)
  \/ on("MM", "GETM") /\ CycleQueue
  \/ <<e.state, m.kind>> \notin MIHandled /\ Throw
===============================================================================
