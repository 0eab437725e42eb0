--------------------------- MODULE CoherenceSystem ---------------------------
(***************************************************************************)
(* The stand-alone coherence simulator (--mode coherence): NumProcs trace  *)
(* CPUs with their caches, one directory, and one of the five protocols,   *)
(* chosen at start-up by settings.protocol.                                *)
(***************************************************************************)
EXTENDS MI, MSI, MESI, MOSI, MOESIF

CONSTANT Protocols     \* the protocols a run may choose
ASSUME ProtocolsAssumption ==
  Protocols \subseteq {"MI", "MSI", "MESI", "MOSI", "MOESIF"}

\* make_agent_factory: the agent tables of the chosen protocol.
ProcRows == CASE protocol = "MI" -> MIProc     [] protocol = "MSI" -> MSIProc
              [] protocol = "MESI" -> MESIProc [] protocol = "MOSI" -> MOSIProc
              [] protocol = "MOESIF" -> MOESIFProc
NtwkRows == CASE protocol = "MI" -> MINtwk     [] protocol = "MSI" -> MSINtwk
              [] protocol = "MESI" -> MESINtwk [] protocol = "MOSI" -> MOSINtwk
              [] protocol = "MOESIF" -> MOESIFNtwk

\* Fault: the directory keeps taking messages during a memory response.
DirTickIgnoresLatch ==
  /\ ~thrown
  /\ queue # <<>>
  /\ \/ protocol = "MI"     /\ MITick(Head(queue))
     \/ protocol = "MSI"    /\ MSITick(Head(queue))
     \/ protocol = "MESI"   /\ MESITick(Head(queue))
     \/ protocol = "MOSI"   /\ MOSITick(Head(queue))
     \/ protocol = "MOESIF" /\ MOESIFTick(Head(queue))
  /\ UNCHANGED <<protocol, left, req, cpuIn, cacheIn, agent, toDir>>

\* DirectoryController::tick, the half that takes a message: nothing is taken
\* while a memory response is outstanding.
DirTick ==
  /\ ~thrown
  /\ ~resp.busy
  /\ queue # <<>>
  /\ \/ protocol = "MI"     /\ MITick(Head(queue))
     \/ protocol = "MSI"    /\ MSITick(Head(queue))
     \/ protocol = "MESI"   /\ MESITick(Head(queue))
     \/ protocol = "MOSI"   /\ MOSITick(Head(queue))
     \/ protocol = "MOESIF" /\ MOESIFTick(Head(queue))
  /\ UNCHANGED <<protocol, left, req, cpuIn, cacheIn, agent, toDir>>

SystemInit == Init /\ protocol \in Protocols

Next ==
  \/ \E n \in Procs : \/ CpuTick(n)
                      \/ CacheProc(n, ProcRows)
                      \/ CacheNtwk(n, NtwkRows)
                      \/ DirArrive(n)
  \/ DirTick
  \/ DirRespond
  \/ Finished

Spec == SystemInit /\ [][Next]_vars

\* The main loop ticks every node in every cycle, and the ring delivers what
\* it accepted.
Fairness ==
  /\ \A n \in Procs : /\ WF_vars(CpuTick(n))
                      /\ WF_vars(CacheProc(n, ProcRows))
                      /\ WF_vars(CacheNtwk(n, NtwkRows))
                      /\ WF_vars(DirArrive(n))
  /\ WF_vars(DirTick)
  /\ WF_vars(DirRespond)

FairSpec == Spec /\ Fairness
--------------------------------------------------------------------------------
TypeOK ==
  /\ protocol \in Protocols
  /\ left \in [Procs -> 0..TraceLen]
  /\ req \in [Procs -> Instrs \cup {NoReq}]
  /\ cpuIn \in [Procs -> Instrs \cup {NoReq}]
  /\ cacheIn \in [Procs -> BOOLEAN]
  /\ agent \in [Procs -> [Blocks -> AgentStates]]
  /\ toDir \in [Procs -> Seq(ToDirMsg)]
  /\ toNode \in [Procs -> Seq(ToNodeMsg)]
  /\ queue \in Seq(ToDirMsg)
  /\ entry \in [Blocks -> DirEntry]
  /\ resp \in Latch \cup {Idle}
  /\ thrown \in BOOLEAN

\* What an agent state lets its processor do with the block, in the levels of
\* CoherentMemory.
Level(s) == CASE s \in {"I", "IS", "IM"} -> 0
              [] s \in {"S", "SM", "F", "FM", "O", "OM"} -> 1
              [] s \in {"E", "EM"} -> 2
              [] s = "M" -> 3

\* Single writer or many readers: while one agent may write a block, or knows
\* itself its only holder, no other agent has any access to it.  Grants,
\* recalls and invalidations of agents and directory interleave to keep it.
SWMR ==
  \A b \in Blocks, n, k \in Procs :
    n # k /\ Level(agent[n][b]) >= 2 => Level(agent[k][b]) = 0

\* No agent and no directory tick ever meets a (state, message) pair it throws
\* on, although requests, recalls and answers cross in the network.
NoThrow == ~thrown

\* The directory never loses a holder: every copy, even one whose recall or
\* invalidation is on its way, has its presence bit; active_sharers counts the
\* bits through all the increments and decrements of the handlers.
PresenceSound ==
  \A b \in Blocks :
    /\ entry[b].active_sharers = Cardinality(entry[b].presence)
    /\ \A n \in Procs : Level(agent[n][b]) >= 1 => n \in entry[b].presence
    /\ entry[b].state \in {"S", "SM", "O", "OO", "F", "FF"} =>
         \A n \in Procs : Level(agent[n][b]) <= 1

\* How many messages of a sequence satisfy the test.
CountMsgs(s, Test(_)) == Cardinality({i \in DOMAIN s : Test(s[i])})
CountBool(P) == IF P THEN 1 ELSE 0

\* Where the outstanding request of n is: in its cache's slot, on the way to
\* the directory, in its queue, waiting in an entry in transit, in the memory
\* latch, answered on the way back, or in the CPU's response slot.
Whereabouts(n) ==
  LET asks(m) == m.kind \in ReqKinds
      asksN(m) == m.kind \in ReqKinds /\ m.src = n
      answers(m) == m.kind \in AnsKinds
  IN CountBool(cpuIn[n] # NoReq) + CountMsgs(toDir[n], asks) + CountMsgs(queue, asksN)
     + Cardinality({b \in Blocks : entry[b].state \notin DirStable
                                   /\ entry[b].req_node = n})
     + CountBool(resp.busy /\ resp.target = n)
     + CountMsgs(toNode[n], answers) + CountBool(cacheIn[n])

\* A request is in exactly one place until its CPU has taken the answer: it is
\* never lost on a cycled queue or an overwritten slot, and never answered
\* twice.
RequestConserved ==
  \A n \in Procs : Whereabouts(n) = CountBool(req[n] # NoReq)

\* The messages about b of the given kinds on the way down to the nodes, and
\* on the way up to the directory or in its queue.
InFlightFor(b, downKinds, upKinds) ==
  LET places(chan, kinds) ==
        UNION { { <<n, i>> : i \in { j \in DOMAIN chan[n] :
                                       chan[n][j].kind \in kinds /\ chan[n][j].block = b } }
                : n \in Procs }
      up(m) == m.kind \in upKinds /\ m.block = b
  IN Cardinality(places(toNode, downKinds)) + Cardinality(places(toDir, upKinds))
     + CountMsgs(queue, up)

\* Every acknowledgement the directory still counts on is under way, as the
\* invalidation or as its answer, and nothing else is; a block in transit
\* waits for exactly one recalled line, unless it still collects
\* acknowledgements.
HandshakeAccounted ==
  \A b \in Blocks :
    LET e == entry[b] IN
    /\ InFlightFor(b, {"REQ_INVALID"}, {"INVACK"}) = e.inv_ack_waiting
    /\ InFlightFor(b, {"RECALL_GOTO_I", "RECALL_GOTO_S"}, {"DATA"}) =
         CountBool(e.state \notin DirStable \cup {"SM"} /\ e.inv_ack_waiting = 0)

\* When the last CPU is done nothing is in flight, no block is in transit, and
\* the directory knows exactly who holds what: its state is the one the
\* holders' states call for, and o_f_id names the owner or forwarder.
Settled(b) ==
  LET holders == {n \in Procs : Level(agent[n][b]) > 0}
      e == entry[b]
  IN /\ e.state \in DirStable
     /\ e.presence = holders
     /\ CASE e.state = "I" -> holders = {}
          [] e.state = "S" -> \A n \in holders : agent[n][b] = "S"
          [] e.state \in {"O", "F"} ->
               /\ agent[e.o_f_id][b] = e.state
               /\ \A n \in holders \ {e.o_f_id} : agent[n][b] = "S"
          [] OTHER -> \A n \in holders : agent[n][b] = e.state

SettledWhenDone ==
  AllDone => /\ queue = <<>> /\ ~resp.busy
             /\ \A n \in Procs : toDir[n] = <<>> /\ toNode[n] = <<>>
             /\ \A b \in Blocks : Settled(b)

\* The protocols implement the memory without messages: a CPU's request is
\* answered only at a level that permits it, and only answers raise levels.
MemLevel   == [n \in Procs |-> [b \in Blocks |-> Level(agent[n][b])]]
MemPending == [n \in Procs |-> IF cacheIn[n] THEN NoReq ELSE req[n]]
Memory == INSTANCE CoherentMemory WITH
  Proc <- Procs, Block <- Blocks, level <- MemLevel, pending <- MemPending
ImplementsMemory == Memory!Spec

\* Every CPU gets through its trace: no request waits forever behind a queue
\* that is cycled over and over or behind a lost acknowledgement.
EveryTraceCompletes == <>AllDone
================================================================================
