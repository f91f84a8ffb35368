------------------------- MODULE AutomationRunsProofs -------------------------
(***************************************************************************)
(* Proofs about AutomationRuns, for any published graphs and any limits.    *)
(*                                                                          *)
(* Part 1 assumes nothing of the timing: types, and consent before a tool   *)
(* that asks.  Part 2 assumes OneDelivery and shows what then holds over    *)
(* crashes, retries of the queue, cancellations and answers: no node acts   *)
(* twice, a retry only starts what has not acted, a cancelled run is still, *)
(* and a run that is over keeps its status.                                 *)
(* Part 3 proves of the compiler's order that every node stands behind its  *)
(* sources, and from it that the runner always finds its next node.         *)
(***************************************************************************)
EXTENDS AutomationRuns, WellFoundedInduction, FiniteSetTheorems, TLAPS

(* What the steps need to know of a graph that was published.                *)
GraphOK ==
  /\ IsFiniteSet(Nodes) /\ Nodes \subseteq Nat \ {0}
  /\ graph.asks \subseteq OfType(graph, "tool")
  /\ graph.retried \subseteq graph.reads
  /\ Len(graph.order) \in Nat

AgentPcs == { "agent_write", "agent_start", "agent_wait" }
NodePcs == { "node", "act" } \cup AgentPcs
(* Wherever a state of the run is held - the row, a delivery, a request - the *)
(* nodes it lists as approved were approved by a user.                       *)
ConsentIsKept ==
  /\ row.st.approved \subseteq consent
  /\ \A s \in Slots : /\ runner[s].rec.st.approved \subseteq consent
                      /\ runner[s].st.approved \subseteq consent
  /\ cancel.rec.st.approved \subseteq consent
  /\ \A u \in Responders : /\ answer[u].rec.st.approved \subseteq consent
                           /\ answer[u].pc = "write" => /\ answer[u].decision # "none"
                                                       /\ answer[u].rec.st.pending.answer = "pending"
  /\ \A s \in Slots : /\ runner[s].pc \in AgentPcs => graph.type[runner[s].node] = "agent"
                      /\ runner[s].pc \in NodePcs => runner[s].node \in Nodes
  /\ ActsWithConsent

Typed == GraphOK /\ AutomationTypeOK /\ ConsentIsKept

-------------------------------------------------------------------------------
LEMMA LeastExists ==
  ASSUME NEW S \in SUBSET Nat, S # {}
  PROVE  Min(S) \in S /\ \A y \in S : Min(S) <= y
<1> DEFINE R == OpToRel(<, Nat)
<1>1. IsWellFoundedOn(R, Nat)
  BY NatLessThanWellFounded
<1>2. \A x, y \in Nat : x < y => << x, y >> \in R
  <2> TAKE x, y \in Nat
  <2> HAVE x < y
  <2>1. R = { ss \in Nat \X Nat : ss[1] < ss[2] }
    BY Zenon DEF OpToRel
  <2>2. QED
    BY <2>1
<1> HIDE DEF R
<1>3. PICK x \in S : \A y \in S : ~(<<y, x>> \in R)
  BY <1>1, WFMin
<1>4. ASSUME NEW y \in S PROVE x <= y
  <2>1. ~(<< y, x >> \in R)
    BY <1>3
  <2>2. x \in Nat /\ y \in Nat
    OBVIOUS
  <2>3. ~(y < x)
    BY <1>2, <2>1, <2>2
  <2>4. QED
    BY <2>2, <2>3
<1>5. QED
  BY <1>4 DEF Min

PortNames == { "default", "error", "true", "false", "approved", "rejected" }

LEMMA PatchTypes ==
  ASSUME NEW st \in States, NEW n \in Nodes \cup {0}, NEW status \in NodeStatuses, NEW ports \in SUBSET PortNames
  PROVE  /\ Patch(st, n, status, ports) \in States
         /\ Patch(st, n, status, ports).nodes = [st.nodes EXCEPT ![n] = status]
         /\ Patch(st, n, status, ports).approved = st.approved
         /\ Patch(st, n, status, ports).pending \in { st.pending, NoPending }
BY DEF Patch, States, NodeStatuses, Settled, NoPending, PortNames

LEMMA RunnerMoves ==
  ASSUME runner \in [Slots -> Runners], NEW s \in Slots, NEW r \in Runners, Go(s, r)
  PROVE  /\ runner' \in [Slots -> Runners] /\ runner'[s] = r
         /\ \A t \in Slots \ {s} : runner'[t] = runner[t]
BY DEF Go

LEMMA RowIsSaved ==
  ASSUME NEW rec \in Rows, NEW st \in States,
         NEW status \in { "none", "queued", "running", "waiting_approval" } \cup Over,
         Save(rec, st, status)
  PROVE  row' \in Rows /\ row'.status = status /\ row'.st = st
BY DEF Save, Rows

LEMMA RetriedTypes ==
  ASSUME NEW job \in JobStates
  PROVE  Retried(job) \in JobStates
<1>1. RetryLimit \in Nat
  BY QueueLimits
<1>2. QED
  BY <1>1 DEF Retried, JobStates, Over

LEMMA InterruptedTypes ==
  ASSUME NEW st \in States
  PROVE  /\ FailInterrupted(st) \in States /\ FailInterrupted(st).approved = st.approved
         /\ FailInterrupted(st).pending = st.pending
         /\ \A n \in Nodes : FailInterrupted(st).nodes[n] # "running"
                              /\ (FailInterrupted(st).nodes[n] \in { "pending", "waiting_approval" }
                                    => FailInterrupted(st).nodes[n] = st.nodes[n])
<1> DEFINE f == [n \in Nodes |-> IF st.nodes[n] = "running" THEN "failed" ELSE st.nodes[n]]
<1>1. f \in [Nodes -> NodeStatuses]
  BY DEF States, NodeStatuses, Settled
<1>2. FailInterrupted(st) = [st EXCEPT !.nodes = f, !.agent = FALSE]
  BY DEF FailInterrupted
<1>3. \A n \in Nodes : f[n] # "running" /\ (f[n] \in { "pending", "waiting_approval" } => f[n] = st.nodes[n])
  OBVIOUS
<1> HIDE DEF f
<1>4. /\ FailInterrupted(st) \in States /\ FailInterrupted(st).approved = st.approved
      /\ FailInterrupted(st).nodes = f /\ FailInterrupted(st).pending = st.pending
  BY <1>1, <1>2 DEF States
<1>5. QED
  BY <1>3, <1>4

LEMMA CancelledTypes ==
  ASSUME NEW st \in States
  PROVE  /\ CancelledState(st) \in States /\ CancelledState(st).approved = st.approved
         /\ CancelledState(st).pending = NoPending
         /\ \A n \in Nodes : CancelledState(st).nodes[n] \in Settled
<1> DEFINE f == [n \in Nodes |-> IF st.nodes[n] \in Settled THEN st.nodes[n] ELSE "cancelled"]
<1>1. f \in [Nodes -> NodeStatuses]
  BY DEF States, NodeStatuses, Settled
<1>2. CancelledState(st) = [st EXCEPT !.nodes = f, !.pending = NoPending]
  BY DEF CancelledState
<1>3. \A n \in Nodes : f[n] \in Settled
  BY DEF Settled
<1> HIDE DEF f
<1>4. /\ CancelledState(st) \in States /\ CancelledState(st).approved = st.approved
      /\ CancelledState(st).nodes = f /\ CancelledState(st).pending = NoPending
  BY <1>1, <1>2 DEF States
<1>5. QED
  BY <1>3, <1>4

LEMMA PcTypes ==
  /\ { "orchestrate", "enter", "loop", "node", "act", "agent_write", "agent_start", "agent_wait",
       "write", "paused", "complete", "finish" } \subseteq RunnerPcs
  /\ { "idle", "authorize", "failing", "refused", "fail_write", "returned", "threw", "stuck" } \subseteq RunnerPcs
BY DEF RunnerPcs, Executing

LEMMA GoPc ==
  ASSUME NEW r \in Runners, NEW pc \in RunnerPcs
  PROVE  LET e == [r EXCEPT !.pc = pc]
         IN /\ e \in Runners /\ e.pc = pc /\ e.rec = r.rec /\ e.st = r.st /\ e.node = r.node
            /\ e.aborted = r.aborted /\ e.tracked = r.tracked /\ e.job = r.job
BY DEF Runners

LEMMA GoAborted ==
  ASSUME NEW r \in Runners
  PROVE  LET e == [r EXCEPT !.aborted = TRUE]
         IN /\ e \in Runners /\ e.pc = r.pc /\ e.rec = r.rec /\ e.st = r.st /\ e.node = r.node
            /\ e.aborted /\ e.tracked = r.tracked /\ e.job = r.job
BY DEF Runners

(* What a step does to the delivery it is about, and to the row. *)
OnlyRunner(s) == runner' \in [Slots -> Runners] /\ \A t \in Slots \ {s} : runner'[t] = runner[t]
Moves(s, pc, rec, st) ==
  /\ runner'[s].pc = pc /\ runner'[s].rec = rec /\ runner'[s].st = st
  /\ runner'[s].node = runner[s].node
  /\ runner'[s].aborted = runner[s].aborted /\ runner'[s].tracked = runner[s].tracked
Ends(s) == registry' = IF runner[s].tracked THEN "ended" ELSE registry
Wins(s) == row.status = runner[s].rec.status

LEMMA KnownTypes ==
  ASSUME Typed
  PROVE  /\ runner \in [Slots -> Runners] /\ row \in Rows /\ row.st \in States
         /\ \A s \in Slots : runner[s] \in Runners /\ runner[s].rec \in Rows /\ runner[s].st \in States
BY DEF Typed, AutomationTypeOK, Runners, Rows

LEMMA MovesOn ==
  ASSUME Typed, NEW s \in Slots, NEW pc \in RunnerPcs, Go(s, [runner[s] EXCEPT !.pc = pc])
  PROVE  OnlyRunner(s) /\ Moves(s, pc, runner[s].rec, runner[s].st)
<1>1. runner[s] \in Runners /\ runner \in [Slots -> Runners]
  BY KnownTypes
<1> DEFINE e == [runner[s] EXCEPT !.pc = pc]
<1>2. /\ e \in Runners /\ e.pc = pc /\ e.rec = runner[s].rec /\ e.st = runner[s].st /\ e.node = runner[s].node
      /\ e.aborted = runner[s].aborted /\ e.tracked = runner[s].tracked
  BY <1>1, GoPc
<1> HIDE DEF e
<1>3. runner' \in [Slots -> Runners] /\ runner'[s] = e /\ \A t \in Slots \ {s} : runner'[t] = runner[t]
  <2>1. Go(s, e)
    BY DEF e
  <2>2. QED
    BY <1>1, <1>2, <2>1, RunnerMoves
<1>4. QED
  BY <1>2, <1>3 DEF OnlyRunner, Moves

LEMMA MovesWithState ==
  ASSUME Typed, NEW s \in Slots, NEW pc \in RunnerPcs, NEW st \in States,
         Go(s, [runner[s] EXCEPT !.pc = pc, !.st = st])
  PROVE  OnlyRunner(s) /\ Moves(s, pc, runner[s].rec, st)
<1>1. runner[s] \in Runners /\ runner \in [Slots -> Runners]
  BY KnownTypes
<1> DEFINE e == [runner[s] EXCEPT !.pc = pc, !.st = st]
<1>2. /\ e \in Runners /\ e.pc = pc /\ e.rec = runner[s].rec /\ e.st = st /\ e.node = runner[s].node
      /\ e.aborted = runner[s].aborted /\ e.tracked = runner[s].tracked
  BY <1>1 DEF Runners
<1> HIDE DEF e
<1>3. runner' \in [Slots -> Runners] /\ runner'[s] = e /\ \A t \in Slots \ {s} : runner'[t] = runner[t]
  <2>1. Go(s, e)
    BY DEF e
  <2>2. QED
    BY <1>1, <1>2, <2>1, RunnerMoves
<1>4. QED
  BY <1>2, <1>3 DEF OnlyRunner, Moves

LEMMA MovesWithRow ==
  ASSUME Typed, NEW s \in Slots, NEW pc \in RunnerPcs, NEW rec \in Rows,
         Go(s, [runner[s] EXCEPT !.pc = pc, !.rec = rec])
  PROVE  OnlyRunner(s) /\ Moves(s, pc, rec, runner[s].st)
<1>1. runner[s] \in Runners /\ runner \in [Slots -> Runners]
  BY KnownTypes
<1> DEFINE e == [runner[s] EXCEPT !.pc = pc, !.rec = rec]
<1>2. /\ e \in Runners /\ e.pc = pc /\ e.rec = rec /\ e.st = runner[s].st /\ e.node = runner[s].node
      /\ e.aborted = runner[s].aborted /\ e.tracked = runner[s].tracked
  BY <1>1 DEF Runners
<1> HIDE DEF e
<1>3. runner' \in [Slots -> Runners] /\ runner'[s] = e /\ \A t \in Slots \ {s} : runner'[t] = runner[t]
  <2>1. Go(s, e)
    BY DEF e
  <2>2. QED
    BY <1>1, <1>2, <2>1, RunnerMoves
<1>4. QED
  BY <1>2, <1>3 DEF OnlyRunner, Moves

LEMMA SetsStay ==
  ASSUME graph' = graph
  PROVE  Nodes' = Nodes /\ States' = States /\ Rows' = Rows /\ Runners' = Runners
BY DEF Nodes, NodesOf, States, Rows, Runners

LEMMA IdleTypes ==
  /\ Fresh(graph) \in States /\ NoRow(graph) \in Rows /\ Idle(graph) \in Runners
  /\ Fresh(graph).approved = {} /\ NoRow(graph).st = Fresh(graph)
  /\ Idle(graph).pc = "idle" /\ Idle(graph).rec = NoRow(graph) /\ Idle(graph).st = Fresh(graph)
<1>1. Fresh(graph) \in States /\ Fresh(graph).approved = {}
  BY DEF Fresh, States, NodeStatuses, NoPending, Nodes, NodesOf
<1>2. NoRow(graph) \in Rows /\ NoRow(graph).st = Fresh(graph)
  BY <1>1 DEF NoRow, Rows
<1>3. /\ Idle(graph) \in Runners /\ Idle(graph).pc = "idle"
      /\ Idle(graph).rec = NoRow(graph) /\ Idle(graph).st = Fresh(graph)
  BY <1>1, <1>2 DEF Idle, Runners, RunnerPcs
<1>4. QED
  BY <1>1, <1>2, <1>3

LEMMA NodeCompletes ==
  ASSUME Typed, NEW s \in Slots, NEW ports \in SUBSET PortNames, Complete(s, ports)
  PROVE  /\ OnlyRunner(s) /\ Moves(s, "write", runner[s].rec, runner'[s].st)
         /\ runner'[s].st.nodes = [runner[s].st.nodes EXCEPT ![runner[s].node] = "completed"]
         /\ runner'[s].st.approved = runner[s].st.approved
         /\ runner'[s].st.pending \in { runner[s].st.pending, NoPending }
<1> DEFINE n == runner[s].node
           p == Patch(runner[s].st, n, "completed", ports)
           st == [p EXCEPT !.agent = FALSE]
<1>1. runner[s].st \in States /\ n \in Nodes \cup {0} /\ "completed" \in NodeStatuses
  BY KnownTypes DEF Runners, NodeStatuses, Settled
<1>2. /\ p \in States /\ p.nodes = [runner[s].st.nodes EXCEPT ![n] = "completed"]
      /\ p.approved = runner[s].st.approved /\ p.pending \in { runner[s].st.pending, NoPending }
  <2> HIDE DEF n
  <2>1. QED
    BY <1>1, PatchTypes
<1> HIDE DEF p
<1>3. st \in States /\ st.nodes = p.nodes /\ st.approved = p.approved /\ st.pending = p.pending
  BY <1>2 DEF States
<1>4. Go(s, [runner[s] EXCEPT !.pc = "write", !.st = st])
  BY DEF Complete, p
<1> HIDE DEF st
<1>5. OnlyRunner(s) /\ Moves(s, "write", runner[s].rec, st)
  BY <1>3, <1>4, MovesWithState, PcTypes
<1>6. QED
  BY <1>2, <1>3, <1>5 DEF Moves

LEMMA NodePauses ==
  ASSUME Typed, NEW s \in Slots, Pause(s), runner[s].node \in Nodes
  PROVE  /\ OnlyRunner(s) /\ Moves(s, "write", runner[s].rec, runner'[s].st)
         /\ runner'[s].st.nodes = [runner[s].st.nodes EXCEPT ![runner[s].node] = "waiting_approval"]
         /\ runner'[s].st.approved = runner[s].st.approved
         /\ runner'[s].st.pending = [node |-> runner[s].node, answer |-> "pending"]
<1> DEFINE n == runner[s].node
           st == [runner[s].st EXCEPT !.nodes[n] = "waiting_approval",
                                      !.pending = [node |-> n, answer |-> "pending"]]
<1>1. runner[s].st \in States /\ n \in Nodes
  BY KnownTypes
<1>2. /\ st \in States /\ st.nodes = [runner[s].st.nodes EXCEPT ![n] = "waiting_approval"]
      /\ st.approved = runner[s].st.approved /\ st.pending = [node |-> n, answer |-> "pending"]
  BY <1>1 DEF States, NodeStatuses
<1>3. Go(s, [runner[s] EXCEPT !.pc = "write", !.st = st])
  BY DEF Pause
<1> HIDE DEF st
<1>4. OnlyRunner(s) /\ Moves(s, "write", runner[s].rec, st)
  BY <1>2, <1>3, MovesWithState, PcTypes
<1>5. QED
  BY <1>2, <1>4 DEF Moves

NodeIsFailed(s, st) ==
  /\ st.nodes = [runner[s].st.nodes EXCEPT ![runner[s].node] = "failed"]
  /\ st.approved = runner[s].st.approved /\ st.pending = runner[s].st.pending

LEMMA NodeThrows ==
  ASSUME Typed, NEW s \in Slots, NodeFails(s)
  PROVE  /\ OnlyRunner(s) /\ row' \in Rows
         /\ \/ /\ Moves(s, "write", runner[s].rec, runner'[s].st) /\ NodeIsFailed(s, runner'[s].st)
               /\ row' = row /\ registry' = registry
            \/ /\ Moves(s, "failing", runner[s].rec, runner[s].st) /\ Ends(s)
               /\ \/ row' = row
                  \/ Wins(s) /\ row'.status = "failed" /\ NodeIsFailed(s, row'.st)
<1> DEFINE n == runner[s].node
           p == Patch(runner[s].st, n, "failed", IF HasErrorPort(n) THEN { "error" } ELSE {})
           st == [p EXCEPT !.agent = FALSE]
<1>1. /\ runner[s].st \in States /\ runner[s].rec \in Rows /\ row \in Rows
      /\ n \in Nodes \cup {0} /\ "failed" \in NodeStatuses
  BY KnownTypes DEF Runners, NodeStatuses, Settled
<1>2. (IF HasErrorPort(n) THEN { "error" } ELSE {}) \in SUBSET PortNames
  BY DEF PortNames
<1>3. p \in States /\ p.nodes = [runner[s].st.nodes EXCEPT ![n] = "failed"] /\ p.approved = runner[s].st.approved
  <2> HIDE DEF n
  <2>1. QED
    BY <1>1, <1>2, PatchTypes
<1>4. p.pending = runner[s].st.pending
  BY <1>1 DEF Patch, States
<1> HIDE DEF p
<1>5. st \in States /\ st.nodes = p.nodes /\ st.approved = p.approved /\ st.pending = p.pending
  BY <1>3 DEF States
<1>6. NodeIsFailed(s, st)
  BY <1>3, <1>4, <1>5 DEF NodeIsFailed
<1>7. CASE HasErrorPort(n)
  <2>1. Go(s, [runner[s] EXCEPT !.pc = "write", !.st = st]) /\ row' = row /\ registry' = registry
    BY <1>7 DEF NodeFails, p
  <2> HIDE DEF st
  <2>2. OnlyRunner(s) /\ Moves(s, "write", runner[s].rec, st)
    BY <1>5, <2>1, MovesWithState, PcTypes
  <2>3. QED
    BY <1>1, <1>6, <2>1, <2>2 DEF Moves
<1>8. CASE ~HasErrorPort(n)
  <2>1. /\ Go(s, [runner[s] EXCEPT !.pc = "failing"]) /\ Ends(s)
        /\ \/ row' = row
           \/ Wins(s) /\ Save(runner[s].rec, st, "failed")
    BY <1>8 DEF NodeFails, p, Throw, Leave, Unchanged, Ends, Wins
  <2> HIDE DEF st
  <2>2. OnlyRunner(s) /\ Moves(s, "failing", runner[s].rec, runner[s].st)
    BY <2>1, MovesOn, PcTypes
  <2>3. "failed" \in { "none", "queued", "running", "waiting_approval" } \cup Over
    BY DEF Over
  <2>4. Save(runner[s].rec, st, "failed") => row' \in Rows /\ row'.status = "failed" /\ row'.st = st
    BY <1>1, <1>5, <2>3, RowIsSaved
  <2>5. QED
    BY <1>1, <1>6, <2>1, <2>2, <2>4
<1>9. QED
  BY <1>7, <1>8

LEMMA EnterMoves ==
  ASSUME Typed, NEW s \in Slots, Enter(s)
  PROVE  /\ OnlyRunner(s) /\ row' \in Rows
         /\ \/ /\ runner[s].pc = "enter" /\ Wins(s) /\ row'.status = "running" /\ row'.st = runner[s].st
               /\ registry' = registry /\ Moves(s, "loop", runner[s].rec, runner[s].st)
            \/ /\ runner[s].pc = "enter"
               /\ ~Wins(s) /\ row' = row /\ Ends(s) /\ Moves(s, "failing", runner[s].rec, runner[s].st)
<1>0. /\ runner[s] \in Runners /\ runner[s].rec \in Rows /\ runner[s].st \in States
      /\ row \in Rows /\ row.st \in States
  BY KnownTypes
<1>1. \/ /\ Go(s, [runner[s] EXCEPT !.pc = "loop"]) /\ Save(runner[s].rec, runner[s].st, "running")
         /\ row.status = runner[s].rec.status
         /\ registry' = registry /\ runner[s].pc = "enter"
      \/ /\ Go(s, [runner[s] EXCEPT !.pc = "failing"]) /\ Ends(s)
         /\ row.status # runner[s].rec.status /\ row' = row
         /\ runner[s].pc = "enter"
  BY DEF Enter, Ends, Leave, Throw, Return, Unchanged, At
<1>2. CASE /\ Go(s, [runner[s] EXCEPT !.pc = "loop"]) /\ Save(runner[s].rec, runner[s].st, "running")
           /\ row.status = runner[s].rec.status
           /\ registry' = registry /\ runner[s].pc = "enter"
  <2>1. runner[s].st \in States
    BY <1>0
  <2>2. "running" \in { "none", "queued", "running", "waiting_approval" } \cup Over
    BY DEF Over
  <2>3. row' \in Rows /\ row'.status = "running" /\ row'.st = runner[s].st
    BY <1>0, <2>1, <2>2, <1>2, RowIsSaved
  <2>4. QED
    BY <2>1, <2>3, <1>2, MovesOn, PcTypes DEF Wins
<1>3. CASE /\ Go(s, [runner[s] EXCEPT !.pc = "failing"]) /\ Ends(s)
           /\ row.status # runner[s].rec.status /\ row' = row
           /\ runner[s].pc = "enter"
  BY <1>0, <1>3, MovesOn, PcTypes DEF Wins
<1>4. QED
  BY <1>1, <1>2, <1>3

LEMMA StartNodeMoves ==
  ASSUME Typed, NEW s \in Slots, StartNode(s)
  PROVE  /\ OnlyRunner(s) /\ row' \in Rows
         /\ \/ /\ runner[s].pc = "node" /\ Wins(s)
               /\ row'.status = "running" /\ row'.st = [runner[s].st EXCEPT !.nodes[runner[s].node] = "running"]
               /\ registry' = registry
               /\ Moves(s, "act", runner[s].rec, [runner[s].st EXCEPT !.nodes[runner[s].node] = "running"])
            \/ /\ runner[s].pc = "node"
               /\ ~Wins(s) /\ row' = row /\ Ends(s) /\ Moves(s, "failing", runner[s].rec, runner[s].st)
<1>0. /\ runner[s] \in Runners /\ runner[s].rec \in Rows /\ runner[s].st \in States
      /\ row \in Rows /\ row.st \in States
  BY KnownTypes
<1>1. \/ /\ Go(s, [runner[s] EXCEPT !.pc = "act", !.st = [runner[s].st EXCEPT !.nodes[runner[s].node] = "running"]])
         /\ Save(runner[s].rec, [runner[s].st EXCEPT !.nodes[runner[s].node] = "running"], "running")
         /\ row.status = runner[s].rec.status
         /\ registry' = registry /\ runner[s].pc = "node"
      \/ /\ Go(s, [runner[s] EXCEPT !.pc = "failing"]) /\ Ends(s)
         /\ row.status # runner[s].rec.status /\ row' = row
         /\ runner[s].pc = "node"
  BY DEF StartNode, Ends, Leave, Throw, Return, Unchanged, At
<1>2. CASE /\ Go(s, [runner[s] EXCEPT !.pc = "act", !.st = [runner[s].st EXCEPT !.nodes[runner[s].node] = "running"]])
           /\ Save(runner[s].rec, [runner[s].st EXCEPT !.nodes[runner[s].node] = "running"], "running")
           /\ row.status = runner[s].rec.status
           /\ registry' = registry /\ runner[s].pc = "node"
  <2>1. [runner[s].st EXCEPT !.nodes[runner[s].node] = "running"] \in States
    BY <1>0 DEF States, NodeStatuses
  <2>2. "running" \in { "none", "queued", "running", "waiting_approval" } \cup Over
    BY DEF Over
  <2>3. row' \in Rows /\ row'.status = "running" /\ row'.st = [runner[s].st EXCEPT !.nodes[runner[s].node] = "running"]
    BY <1>0, <2>1, <2>2, <1>2, RowIsSaved
  <2>4. QED
    BY <2>1, <2>3, <1>2, MovesWithState, PcTypes DEF Wins
<1>3. CASE /\ Go(s, [runner[s] EXCEPT !.pc = "failing"]) /\ Ends(s)
           /\ row.status # runner[s].rec.status /\ row' = row
           /\ runner[s].pc = "node"
  BY <1>0, <1>3, MovesOn, PcTypes DEF Wins
<1>4. QED
  BY <1>1, <1>2, <1>3

LEMMA PausedMoves ==
  ASSUME Typed, NEW s \in Slots, Paused(s)
  PROVE  /\ OnlyRunner(s) /\ row' \in Rows
         /\ \/ /\ runner[s].pc = "paused" /\ row' = row /\ Ends(s)
               /\ Moves(s, "returned", runner[s].rec, runner[s].st)
<1>1. Go(s, [runner[s] EXCEPT !.pc = "returned"]) /\ Ends(s) /\ row' = row /\ runner[s].pc = "paused"
  BY DEF Paused, Leave, Throw, Return, Ends, At, durable, requests, history, Rest
<1>2. QED
  BY <1>1, KnownTypes, MovesOn, PcTypes

LEMMA CompleteOrchMoves ==
  ASSUME Typed, NEW s \in Slots, CompleteOrch(s)
  PROVE  /\ OnlyRunner(s) /\ row' \in Rows
         /\ \/ /\ runner[s].pc = "complete" /\ row' = row /\ registry' = registry
               /\ Moves(s, "finish", runner[s].rec, runner[s].st)
<1>1. Go(s, [runner[s] EXCEPT !.pc = "finish"]) /\ registry' = registry /\ row' = row /\ runner[s].pc = "complete"
  BY DEF CompleteOrch, Leave, Throw, Return, Ends, At, durable, requests, history, Rest
<1>2. QED
  BY <1>1, KnownTypes, MovesOn, PcTypes

LEMMA LoopAbortedMoves ==
  ASSUME Typed, NEW s \in Slots, LoopAborted(s)
  PROVE  /\ OnlyRunner(s) /\ row' \in Rows
         /\ \/ /\ runner[s].pc = "loop" /\ row' = row /\ Ends(s)
               /\ Moves(s, "failing", runner[s].rec, runner[s].st)
<1>1. Go(s, [runner[s] EXCEPT !.pc = "failing"]) /\ Ends(s) /\ row' = row /\ runner[s].pc = "loop"
  BY DEF LoopAborted, Leave, Throw, Return, Ends, At, durable, requests, history, Rest
<1>2. QED
  BY <1>1, KnownTypes, MovesOn, PcTypes

LEMMA LoopCancelledMoves ==
  ASSUME Typed, NEW s \in Slots, LoopCancelled(s)
  PROVE  /\ OnlyRunner(s) /\ row' \in Rows
         /\ \/ /\ runner[s].pc = "loop" /\ row' = row /\ Ends(s)
               /\ Moves(s, "returned", runner[s].rec, runner[s].st)
<1>1. Go(s, [runner[s] EXCEPT !.pc = "returned"]) /\ Ends(s) /\ row' = row /\ runner[s].pc = "loop"
  BY DEF LoopCancelled, Leave, Throw, Return, Ends, At, durable, requests, history, Rest
<1>2. QED
  BY <1>1, KnownTypes, MovesOn, PcTypes

LEMMA OrchestrateMoves ==
  ASSUME Typed, NEW s \in Slots, Orchestrate(s)
  PROVE  /\ OnlyRunner(s) /\ row' \in Rows
         /\ \/ /\ runner[s].pc = "orchestrate" /\ row' = row /\ registry' = registry
               /\ Moves(s, "enter", runner[s].rec, runner'[s].st)
               /\ runner'[s].st.nodes = runner[s].st.nodes /\ runner'[s].st.pending = runner[s].st.pending
               /\ runner'[s].st.approved = runner[s].st.approved
<1>1. runner[s] \in Runners /\ runner[s].st \in States /\ runner \in [Slots -> Runners] /\ row \in Rows
  BY KnownTypes
<1>2. runner[s].pc = "orchestrate" /\ row' = row /\ registry' = registry
  BY DEF Orchestrate, requests, history
<1>3. CASE runner[s].st.orch # 0
  <2>1. Go(s, [runner[s] EXCEPT !.pc = "enter"])
    BY <1>3 DEF Orchestrate
  <2>2. QED
    BY <1>1, <1>2, <2>1, MovesOn, PcTypes DEF Moves
<1>4. CASE runner[s].st.orch = 0
  <2>1. PICK o \in OrchIds : Go(s, [runner[s] EXCEPT !.pc = "enter", !.st.orch = o])
    BY <1>4 DEF Orchestrate
  <2> DEFINE st == [runner[s].st EXCEPT !.orch = o]
  <2>2. /\ st \in States /\ st.nodes = runner[s].st.nodes
        /\ st.pending = runner[s].st.pending /\ st.approved = runner[s].st.approved
    BY <1>1 DEF States
  <2>3. [runner[s] EXCEPT !.pc = "enter", !.st.orch = o] = [runner[s] EXCEPT !.pc = "enter", !.st = st]
    BY <1>1 DEF Runners
  <2>4. Go(s, [runner[s] EXCEPT !.pc = "enter", !.st = st])
    BY <2>1, <2>3
  <2> HIDE DEF st
  <2>5. OnlyRunner(s) /\ Moves(s, "enter", runner[s].rec, st)
    BY <2>2, <2>4, MovesWithState, PcTypes
  <2>6. QED
    BY <1>1, <1>2, <2>2, <2>5 DEF Moves
<1>5. QED
  BY <1>3, <1>4

LEMMA AgentWrittenMoves ==
  ASSUME Typed, NEW s \in Slots, AgentWritten(s)
  PROVE  /\ OnlyRunner(s) /\ row' \in Rows
         /\ \/ /\ runner[s].pc = "agent_write" /\ Wins(s) /\ row'.status = "running" /\ row'.st = runner[s].st
               /\ registry' = registry /\ Moves(s, "agent_start", runner[s].rec, runner[s].st)
            \/ /\ runner[s].pc = "agent_write" /\ ~Wins(s) /\ NodeFails(s)
<1>0. /\ runner[s] \in Runners /\ runner[s].rec \in Rows /\ runner[s].st \in States
      /\ row \in Rows /\ row.st \in States
  BY KnownTypes
<1>1. \/ /\ Go(s, [runner[s] EXCEPT !.pc = "agent_start"]) /\ Save(runner[s].rec, runner[s].st, "running")
         /\ row.status = runner[s].rec.status
         /\ registry' = registry /\ runner[s].pc = "agent_write"
      \/ /\ runner[s].pc = "agent_write" /\ row.status # runner[s].rec.status /\ NodeFails(s)
  BY DEF AgentWritten, Leave, Throw, Return, Unchanged, At
<1>2. CASE /\ Go(s, [runner[s] EXCEPT !.pc = "agent_start"])
           /\ Save(runner[s].rec, runner[s].st, "running")
           /\ row.status = runner[s].rec.status
           /\ registry' = registry /\ runner[s].pc = "agent_write"
  <2>1. runner[s].st \in States
    BY <1>0
  <2>2. "running" \in { "none", "queued", "running", "waiting_approval" } \cup Over
    BY DEF Over
  <2>3. row' \in Rows /\ row'.status = "running" /\ row'.st = runner[s].st
    BY <1>0, <2>1, <2>2, <1>2, RowIsSaved
  <2>4. QED
    BY <2>1, <2>3, <1>2, MovesOn, PcTypes DEF Wins
<1>3. CASE /\ runner[s].pc = "agent_write" /\ row.status # runner[s].rec.status /\ NodeFails(s)
  BY <1>3, NodeThrows DEF Wins
<1>4. QED
  BY <1>1, <1>2, <1>3

LEMMA ActAgentMoves ==
  ASSUME Typed, NEW s \in Slots, ActAgent(s)
  PROVE  /\ OnlyRunner(s) /\ row' \in Rows
         /\ \/ /\ runner[s].pc = "act" /\ graph.type[runner[s].node] = "agent" /\ row' = row /\ registry' = registry
               /\ Moves(s, "agent_write", runner[s].rec, runner'[s].st)
               /\ runner'[s].st.nodes = runner[s].st.nodes /\ runner'[s].st.pending = runner[s].st.pending
               /\ runner'[s].st.approved = runner[s].st.approved
            \/ /\ runner[s].pc = "act" /\ graph.type[runner[s].node] = "agent" /\ NodeFails(s)
<1>1. runner[s] \in Runners /\ runner[s].st \in States /\ row \in Rows
  BY KnownTypes
<1>2. runner[s].pc = "act" /\ graph.type[runner[s].node] = "agent"
  BY DEF ActAgent
<1>3. CASE NodeFails(s)
  BY <1>2, <1>3, NodeThrows
<1>4. CASE Go(s, [runner[s] EXCEPT !.pc = "agent_write", !.st.agent = TRUE]) /\ row' = row /\ registry' = registry
  <2> DEFINE st == [runner[s].st EXCEPT !.agent = TRUE]
  <2>1. /\ st \in States /\ st.nodes = runner[s].st.nodes
        /\ st.pending = runner[s].st.pending /\ st.approved = runner[s].st.approved
    BY <1>1 DEF States
  <2>2. [runner[s] EXCEPT !.pc = "agent_write", !.st.agent = TRUE] = [runner[s] EXCEPT !.pc = "agent_write", !.st = st]
    BY <1>1 DEF Runners
  <2>3. Go(s, [runner[s] EXCEPT !.pc = "agent_write", !.st = st])
    BY <1>4, <2>2
  <2> HIDE DEF st
  <2>4. OnlyRunner(s) /\ Moves(s, "agent_write", runner[s].rec, st)
    BY <2>1, <2>3, MovesWithState, PcTypes
  <2>5. QED
    BY <1>1, <1>2, <1>4, <2>1, <2>4 DEF Moves
<1>5. QED
  BY <1>3, <1>4 DEF ActAgent

LEMMA StartAgentMoves ==
  ASSUME Typed, NEW s \in Slots, StartAgent(s)
  PROVE  /\ OnlyRunner(s) /\ row' \in Rows
         /\ \/ /\ runner[s].pc = "agent_start" /\ ~runner[s].aborted /\ row' = row /\ registry' = registry
               /\ agentRun' = "active" /\ acted' = [acted EXCEPT ![runner[s].node] = @ + 1]
               /\ Moves(s, "agent_wait", runner[s].rec, runner[s].st)
            \/ /\ runner[s].pc = "agent_start" /\ NodeFails(s) /\ agentRun' = agentRun /\ acted' = acted
<1>0. /\ runner[s] \in Runners /\ runner[s].rec \in Rows /\ runner[s].st \in States
      /\ row \in Rows /\ row.st \in States
  BY KnownTypes
<1>1. \/ /\ Go(s, [runner[s] EXCEPT !.pc = "agent_wait"]) /\ row' = row /\ registry' = registry
         /\ runner[s].pc = "agent_start" /\ ~runner[s].aborted
         /\ agentRun' = "active" /\ acted' = [acted EXCEPT ![runner[s].node] = @ + 1]
      \/ /\ runner[s].pc = "agent_start" /\ NodeFails(s)
         /\ agentRun' = agentRun /\ acted' = acted
  BY DEF StartAgent, Leave, Throw, Return, Unchanged, At
<1>2. CASE /\ Go(s, [runner[s] EXCEPT !.pc = "agent_wait"]) /\ row' = row /\ registry' = registry
           /\ runner[s].pc = "agent_start" /\ ~runner[s].aborted
           /\ agentRun' = "active" /\ acted' = [acted EXCEPT ![runner[s].node] = @ + 1]
  BY <1>0, <1>2, MovesOn, PcTypes
<1>3. CASE /\ runner[s].pc = "agent_start" /\ NodeFails(s)
           /\ agentRun' = agentRun /\ acted' = acted
  BY <1>3, NodeThrows
<1>4. QED
  BY <1>1, <1>2, <1>3

LEMMA AgentEndsMoves ==
  ASSUME Typed, NEW s \in Slots, AgentEnds(s)
  PROVE  /\ OnlyRunner(s) /\ row' \in Rows
         /\ \/ /\ runner[s].pc = "agent_wait" /\ agentRun' # "active" /\ NodeFails(s)
            \/ /\ runner[s].pc = "agent_wait" /\ agentRun' = "ended" /\ row' = row /\ registry' = registry
               /\ Complete(s, { "default" })
<1>0. /\ runner[s] \in Runners /\ runner[s].rec \in Rows /\ runner[s].st \in States
      /\ row \in Rows /\ row.st \in States
  BY KnownTypes
<1>1. \/ /\ runner[s].pc = "agent_wait" /\ agentRun' # "active" /\ NodeFails(s)
      \/ /\ runner[s].pc = "agent_wait" /\ agentRun' = "ended"
         /\ row' = row /\ registry' = registry /\ Complete(s, { "default" })
  BY DEF AgentEnds, Leave, Throw, Return, Unchanged, At
<1>2. CASE /\ runner[s].pc = "agent_wait" /\ agentRun' # "active" /\ NodeFails(s)
  BY <1>2, NodeThrows
<1>3. CASE /\ runner[s].pc = "agent_wait" /\ agentRun' = "ended"
           /\ row' = row /\ registry' = registry /\ Complete(s, { "default" })
  <2>1. { "default" } \in SUBSET PortNames
    BY DEF PortNames
  <2>2. QED
    BY <1>0, <2>1, <1>3, NodeCompletes
<1>4. QED
  BY <1>1, <1>2, <1>3

LEMMA WriteMoves ==
  ASSUME Typed, NEW s \in Slots, Write(s)
  PROVE  /\ OnlyRunner(s) /\ row' \in Rows
         /\ \/ /\ runner[s].pc = "write" /\ Wins(s) /\ row'.status = "running"
               /\ row'.st = runner[s].st /\ registry' = registry
               /\ Moves(s, "loop", runner[s].rec, runner[s].st)
            \/ /\ runner[s].pc = "write" /\ Wins(s) /\ row'.status = "waiting_approval"
               /\ row'.st = runner[s].st /\ registry' = registry
               /\ Moves(s, "paused", runner[s].rec, runner[s].st)
            \/ /\ runner[s].pc = "write"
               /\ ~Wins(s) /\ row' = row /\ Ends(s) /\ Moves(s, "failing", runner[s].rec, runner[s].st)
<1>0. /\ runner[s] \in Runners /\ runner[s].rec \in Rows /\ runner[s].st \in States
      /\ row \in Rows /\ row.st \in States
  BY KnownTypes
<1>1. \/ /\ Go(s, [runner[s] EXCEPT !.pc = "loop"]) /\ Save(runner[s].rec, runner[s].st, "running")
         /\ row.status = runner[s].rec.status
         /\ registry' = registry /\ runner[s].pc = "write"
      \/ /\ Go(s, [runner[s] EXCEPT !.pc = "paused"])
         /\ Save(runner[s].rec, runner[s].st, "waiting_approval")
         /\ row.status = runner[s].rec.status
         /\ registry' = registry /\ runner[s].pc = "write"
      \/ /\ Go(s, [runner[s] EXCEPT !.pc = "failing"]) /\ Ends(s)
         /\ row.status # runner[s].rec.status /\ row' = row
         /\ runner[s].pc = "write"
  BY DEF Write, Ends, Leave, Throw, Return, Unchanged, At
<1>2. CASE /\ Go(s, [runner[s] EXCEPT !.pc = "loop"]) /\ Save(runner[s].rec, runner[s].st, "running")
           /\ row.status = runner[s].rec.status
           /\ registry' = registry /\ runner[s].pc = "write"
  <2>1. runner[s].st \in States
    BY <1>0
  <2>2. "running" \in { "none", "queued", "running", "waiting_approval" } \cup Over
    BY DEF Over
  <2>3. row' \in Rows /\ row'.status = "running" /\ row'.st = runner[s].st
    BY <1>0, <2>1, <2>2, <1>2, RowIsSaved
  <2>4. QED
    BY <2>1, <2>3, <1>2, MovesOn, PcTypes DEF Wins
<1>3. CASE /\ Go(s, [runner[s] EXCEPT !.pc = "paused"])
           /\ Save(runner[s].rec, runner[s].st, "waiting_approval")
           /\ row.status = runner[s].rec.status
           /\ registry' = registry /\ runner[s].pc = "write"
  <2>1. runner[s].st \in States
    BY <1>0
  <2>2. "waiting_approval" \in { "none", "queued", "running", "waiting_approval" } \cup Over
    BY DEF Over
  <2>3. row' \in Rows /\ row'.status = "waiting_approval" /\ row'.st = runner[s].st
    BY <1>0, <2>1, <2>2, <1>3, RowIsSaved
  <2>4. QED
    BY <2>1, <2>3, <1>3, MovesOn, PcTypes DEF Wins
<1>4. CASE /\ Go(s, [runner[s] EXCEPT !.pc = "failing"]) /\ Ends(s)
           /\ row.status # runner[s].rec.status /\ row' = row
           /\ runner[s].pc = "write"
  BY <1>0, <1>4, MovesOn, PcTypes DEF Wins
<1>5. QED
  BY <1>1, <1>2, <1>3, <1>4

LEMMA CompleteRowMoves ==
  ASSUME Typed, NEW s \in Slots, CompleteRow(s)
  PROVE  /\ OnlyRunner(s) /\ row' \in Rows
         /\ \/ /\ runner[s].pc = "finish" /\ Wins(s) /\ row'.status = "completed" /\ Ends(s)
               /\ row'.st = [runner[s].st EXCEPT !.pending = NoPending]
               /\ Moves(s, "returned", runner[s].rec, runner[s].st)
            \/ /\ runner[s].pc = "finish"
               /\ ~Wins(s) /\ row' = row /\ Ends(s) /\ Moves(s, "failing", runner[s].rec, runner[s].st)
<1>0. /\ runner[s] \in Runners /\ runner[s].rec \in Rows /\ runner[s].st \in States
      /\ row \in Rows /\ row.st \in States
  BY KnownTypes
<1>1. \/ /\ Go(s, [runner[s] EXCEPT !.pc = "returned"])
         /\ Save(runner[s].rec, [runner[s].st EXCEPT !.pending = NoPending], "completed")
         /\ row.status = runner[s].rec.status
         /\ Ends(s) /\ runner[s].pc = "finish"
      \/ /\ Go(s, [runner[s] EXCEPT !.pc = "failing"]) /\ Ends(s)
         /\ row.status # runner[s].rec.status /\ row' = row
         /\ runner[s].pc = "finish"
  BY DEF CompleteRow, Ends, Leave, Throw, Return, Unchanged, At
<1>2. CASE /\ Go(s, [runner[s] EXCEPT !.pc = "returned"])
           /\ Save(runner[s].rec, [runner[s].st EXCEPT !.pending = NoPending], "completed")
           /\ row.status = runner[s].rec.status
           /\ Ends(s) /\ runner[s].pc = "finish"
  <2>1. [runner[s].st EXCEPT !.pending = NoPending] \in States
    BY <1>0 DEF States, NoPending
  <2>2. "completed" \in { "none", "queued", "running", "waiting_approval" } \cup Over
    BY DEF Over
  <2>3. row' \in Rows /\ row'.status = "completed" /\ row'.st = [runner[s].st EXCEPT !.pending = NoPending]
    BY <1>0, <2>1, <2>2, <1>2, RowIsSaved
  <2>4. QED
    BY <2>1, <2>3, <1>2, MovesOn, PcTypes DEF Wins
<1>3. CASE /\ Go(s, [runner[s] EXCEPT !.pc = "failing"]) /\ Ends(s)
           /\ row.status # runner[s].rec.status /\ row' = row
           /\ runner[s].pc = "finish"
  BY <1>0, <1>3, MovesOn, PcTypes DEF Wins
<1>4. QED
  BY <1>1, <1>2, <1>3

LEMMA FailReadsMoves ==
  ASSUME Typed, NEW s \in Slots, FailReads(s)
  PROVE  /\ OnlyRunner(s) /\ row' \in Rows
         /\ \/ /\ runner[s].pc \in { "failing", "refused", "stuck" } /\ row' = row /\ registry' = registry
               /\ Moves(s, "threw", runner[s].rec, runner[s].st)
            \/ /\ runner[s].pc \in { "failing", "refused", "stuck" } /\ row' = row
               /\ registry' = registry /\ row.status \notin { "none", "cancelled", "completed" }
               /\ Moves(s, "fail_write", row, runner[s].st)
<1>0. /\ runner[s] \in Runners /\ runner[s].rec \in Rows /\ runner[s].st \in States
      /\ row \in Rows /\ row.st \in States
  BY KnownTypes
<1>1. \/ /\ Go(s, [runner[s] EXCEPT !.pc = "threw"])
         /\ runner[s].pc \in { "failing", "refused", "stuck" } /\ row' = row /\ registry' = registry
      \/ /\ Go(s, [runner[s] EXCEPT !.pc = "fail_write", !.rec = row])
         /\ runner[s].pc \in { "failing", "refused", "stuck" } /\ row' = row /\ registry' = registry
         /\ row.status \notin { "none", "cancelled", "completed" }
  BY DEF FailReads, Rest, history, requests, Leave, Throw, Return, Unchanged, At
<1>2. CASE /\ Go(s, [runner[s] EXCEPT !.pc = "threw"])
           /\ runner[s].pc \in { "failing", "refused", "stuck" } /\ row' = row /\ registry' = registry
  BY <1>0, <1>2, MovesOn, PcTypes
<1>3. CASE /\ Go(s, [runner[s] EXCEPT !.pc = "fail_write", !.rec = row])
           /\ runner[s].pc \in { "failing", "refused", "stuck" } /\ row' = row /\ registry' = registry
           /\ row.status \notin { "none", "cancelled", "completed" }
  BY <1>0, <1>3, MovesWithRow, PcTypes
<1>4. QED
  BY <1>1, <1>2, <1>3

LEMMA FailWritesMoves ==
  ASSUME Typed, NEW s \in Slots, FailWrites(s)
  PROVE  /\ OnlyRunner(s) /\ row' \in Rows
         /\ \/ /\ runner[s].pc = "fail_write" /\ registry' = registry /\ row' = row
               /\ Moves(s, "threw", runner[s].rec, runner[s].st)
            \/ /\ runner[s].pc = "fail_write" /\ registry' = registry /\ Wins(s)
               /\ row'.status = "failed" /\ row'.st = runner[s].rec.st
               /\ Moves(s, "threw", runner[s].rec, runner[s].st)
<1>0. /\ runner[s] \in Runners /\ runner[s].rec \in Rows /\ runner[s].st \in States
      /\ row \in Rows /\ row.st \in States
  BY KnownTypes
<1>1. \/ /\ Go(s, [runner[s] EXCEPT !.pc = "threw"]) /\ row' = row
         /\ runner[s].pc = "fail_write" /\ registry' = registry
      \/ /\ Go(s, [runner[s] EXCEPT !.pc = "threw"]) /\ Save(runner[s].rec, runner[s].rec.st, "failed")
         /\ row.status = runner[s].rec.status
         /\ runner[s].pc = "fail_write" /\ registry' = registry
  BY DEF FailWrites, Rest, history, requests, Leave, Throw, Return, Unchanged, At
<1>2. CASE /\ Go(s, [runner[s] EXCEPT !.pc = "threw"]) /\ row' = row
           /\ runner[s].pc = "fail_write" /\ registry' = registry
  BY <1>0, <1>2, MovesOn, PcTypes
<1>3. CASE /\ Go(s, [runner[s] EXCEPT !.pc = "threw"]) /\ Save(runner[s].rec, runner[s].rec.st, "failed")
           /\ row.status = runner[s].rec.status
           /\ runner[s].pc = "fail_write" /\ registry' = registry
  <2>1. runner[s].rec.st \in States
    BY <1>0 DEF Rows
  <2>2. "failed" \in { "none", "queued", "running", "waiting_approval" } \cup Over
    BY DEF Over
  <2>3. row' \in Rows /\ row'.status = "failed" /\ row'.st = runner[s].rec.st
    BY <1>0, <2>1, <2>2, <1>3, RowIsSaved
  <2>4. QED
    BY <2>1, <2>3, <1>3, MovesOn, PcTypes DEF Wins
<1>4. QED
  BY <1>1, <1>2, <1>3

LEMMA MovesAnew ==
  ASSUME Typed, NEW s \in Slots, NEW r \in Runners, Go(s, r)
  PROVE  OnlyRunner(s) /\ runner'[s] = r
BY KnownTypes, RunnerMoves DEF OnlyRunner

LEMMA FinishMoves ==
  ASSUME Typed, NEW s \in Slots, Finish(s)
  PROVE  /\ OnlyRunner(s) /\ row' = row /\ registry' = registry
         /\ runner[s].pc \in { "returned", "threw" } /\ runner'[s] = Idle(graph)
<1>1. /\ Go(s, Idle(graph)) /\ row' = row /\ registry' = registry
      /\ runner[s].pc \in { "returned", "threw" }
  BY DEF Finish
<1>2. QED
  BY <1>1, IdleTypes, MovesAnew

LEMMA TimesOutMoves ==
  ASSUME Typed, NEW s \in Slots, TimesOut(s)
  PROVE  /\ OnlyRunner(s) /\ row' = row /\ registry' = registry
         /\ runner[s].pc \in Executing /\ runner'[s].pc = runner[s].pc
         /\ runner'[s].rec = runner[s].rec /\ runner'[s].st = runner[s].st
         /\ runner'[s].node = runner[s].node
         /\ runner'[s].aborted /\ runner'[s].tracked = runner[s].tracked
<1> DEFINE e == [runner[s] EXCEPT !.aborted = TRUE]
<1>1. runner[s] \in Runners
  BY KnownTypes
<1>2. /\ e \in Runners /\ e.pc = runner[s].pc /\ e.rec = runner[s].rec /\ e.st = runner[s].st
      /\ e.node = runner[s].node /\ e.aborted /\ e.tracked = runner[s].tracked
  BY <1>1, GoAborted
<1>3. Go(s, e) /\ row' = row /\ registry' = registry /\ runner[s].pc \in Executing
  BY DEF TimesOut
<1> HIDE DEF e
<1>4. QED
  BY <1>2, <1>3, MovesAnew

LEMMA AuthorizeMoves ==
  ASSUME Typed, NEW s \in Slots, Authorize(s)
  PROVE  /\ OnlyRunner(s) /\ row' \in Rows /\ runner[s].pc = "authorize"
         /\ \/ /\ runner'[s].pc \in { "failing", "refused" } /\ row' = row /\ registry' = registry
               /\ runner'[s].tracked = runner[s].tracked
            \/ /\ runner'[s].pc = "failing" /\ registry = "none" /\ registry' = "ended"
               /\ runner'[s].tracked = runner[s].tracked
               /\ \/ row' = row
                  \/ /\ row.status = "running" /\ row'.status = "running"
                     /\ row'.st = FailInterrupted(runner[s].rec.st)
            \/ /\ runner'[s].pc = "orchestrate" /\ runner'[s].tracked
               /\ registry = "none" /\ registry' = "running" /\ row' = row
         /\ runner'[s].rec = runner[s].rec /\ runner'[s].st = runner[s].st
         /\ runner'[s].node = runner[s].node /\ runner'[s].aborted = runner[s].aborted
<1>0. /\ runner[s] \in Runners /\ runner[s].rec \in Rows /\ runner[s].rec.st \in States /\ row \in Rows
      /\ FailInterrupted(runner[s].rec.st) \in States
  <2>1. runner[s] \in Runners /\ runner[s].rec \in Rows /\ runner[s].rec.st \in States /\ row \in Rows
    BY KnownTypes DEF Rows
  <2>2. QED
    BY <2>1, InterruptedTypes
<1>1. runner[s].pc = "authorize"
  BY DEF Authorize
<1>2. CASE Go(s, [runner[s] EXCEPT !.pc = "failing"]) /\ registry' = registry /\ row' = row
  <2>1. OnlyRunner(s) /\ Moves(s, "failing", runner[s].rec, runner[s].st)
    BY <1>2, MovesOn, PcTypes
  <2>2. QED
    BY <1>0, <1>1, <1>2, <2>1 DEF Moves
<1>3. CASE Go(s, [runner[s] EXCEPT !.pc = "refused"]) /\ registry' = registry /\ row' = row
  <2>1. OnlyRunner(s) /\ Moves(s, "refused", runner[s].rec, runner[s].st)
    BY <1>3, MovesOn, PcTypes
  <2>2. QED
    BY <1>0, <1>1, <1>3, <2>1 DEF Moves
<1>4. CASE /\ Go(s, [runner[s] EXCEPT !.pc = "failing"]) /\ registry = "none" /\ registry' = "ended"
           /\ IF Unchanged("running")
              THEN Save(runner[s].rec, FailInterrupted(runner[s].rec.st), "running") ELSE row' = row
  <2>1. OnlyRunner(s) /\ Moves(s, "failing", runner[s].rec, runner[s].st)
    BY <1>4, MovesOn, PcTypes
  <2>2. "running" \in { "none", "queued", "running", "waiting_approval" } \cup Over
    OBVIOUS
  <2>3. \/ row' = row
        \/ /\ row.status = "running" /\ row'.status = "running" /\ row' \in Rows
           /\ row'.st = FailInterrupted(runner[s].rec.st)
    <3>1. CASE Unchanged("running")
      <4>1. Save(runner[s].rec, FailInterrupted(runner[s].rec.st), "running")
        BY <1>4, <3>1
      <4>2. row' \in Rows /\ row'.status = "running" /\ row'.st = FailInterrupted(runner[s].rec.st)
        BY <1>0, <2>2, <4>1, RowIsSaved
      <4>3. QED
        BY <3>1, <4>2 DEF Unchanged
    <3>2. CASE ~Unchanged("running")
      BY <1>4, <3>2
    <3>3. QED
      BY <3>1, <3>2
  <2>4. QED
    BY <1>0, <1>1, <1>4, <2>1, <2>3 DEF Moves
<1>5. CASE /\ Go(s, [runner[s] EXCEPT !.pc = "orchestrate", !.tracked = TRUE])
           /\ registry = "none" /\ registry' = "running" /\ row' = row
  <2> DEFINE e == [runner[s] EXCEPT !.pc = "orchestrate", !.tracked = TRUE]
  <2>1. /\ e \in Runners /\ e.pc = "orchestrate" /\ e.rec = runner[s].rec /\ e.st = runner[s].st
        /\ e.node = runner[s].node /\ e.aborted = runner[s].aborted /\ e.tracked
    BY <1>0, PcTypes DEF Runners
  <2>2. Go(s, e)
    BY <1>5
  <2> HIDE DEF e
  <2>3. QED
    BY <1>0, <1>1, <1>5, <2>1, <2>2, MovesAnew
<1>6. QED
  BY <1>2, <1>3, <1>4, <1>5 DEF Authorize, Refuses

LEMMA NextIsPending ==
  ASSUME Typed, NEW st, HasNext(graph, st)
  PROVE  NextNode(graph, st) \in Nodes /\ st.nodes[NextNode(graph, st)] = "pending"
<1>1. Candidates(graph, st) \in SUBSET Nat
  BY DEF Typed, GraphOK, Candidates
<1>2. Min(Candidates(graph, st)) \in Candidates(graph, st)
  BY <1>1, LeastExists DEF HasNext
<1>3. QED
  BY <1>2 DEF NextNode, Candidates, Nodes

(* What the code throws an error for, at the end of findNextNode. *)
LeftBehind(st) ==
  /\ st.pending.answer # "pending" /\ ~HasNext(graph, st)
  /\ \E n \in Nodes : st.nodes[n] \notin Settled

LEMMA LoopNextMoves ==
  ASSUME Typed, NEW s \in Slots, LoopNext(s)
  PROVE  /\ OnlyRunner(s) /\ row' = row /\ runner[s].pc = "loop"
         /\ ~runner[s].aborted /\ row.status # "cancelled"
         /\ runner'[s].aborted = runner[s].aborted /\ runner'[s].tracked = runner[s].tracked
         /\ \/ runner'[s].pc \in { "returned", "stuck" } /\ Ends(s) /\ runner'[s].st = runner[s].st
               /\ runner'[s].rec = runner[s].rec
               /\ (runner'[s].pc = "stuck" => LeftBehind(row.st))
            \/ /\ registry' = registry /\ runner'[s].rec = row /\ runner'[s].st.approved = row.st.approved
               /\ row.st.pending.answer # "pending"
               /\ \/ /\ runner'[s].pc = "node" /\ runner'[s].node \in Nodes /\ runner'[s].st = row.st
                     /\ row.st.nodes[runner'[s].node] = "pending"
                  \/ /\ runner'[s].pc = "write" /\ runner'[s].st.pending \in { row.st.pending, NoPending }
                     /\ \E n \in Nodes : runner'[s].st.nodes = [row.st.nodes EXCEPT ![n] = "skipped"]
                  \/ runner'[s].pc = "complete" /\ runner'[s].st = row.st
<1> DEFINE node == NextNode(graph, row.st)
           read == [runner[s] EXCEPT !.rec = row, !.st = row.st]
<1>0. runner[s] \in Runners /\ row \in Rows /\ row.st \in States
  BY KnownTypes
<1>1. /\ read \in Runners /\ read.rec = row /\ read.st = row.st
      /\ read.aborted = runner[s].aborted /\ read.tracked = runner[s].tracked
  BY <1>0 DEF Runners
<1>2. row' = row /\ runner[s].pc = "loop" /\ ~runner[s].aborted /\ row.status # "cancelled"
  BY DEF LoopNext, durable
<1>3. CASE Return(s) \/ (LeftBehind(row.st) /\ Leave(s, "stuck"))
  <2>1. \/ Go(s, [runner[s] EXCEPT !.pc = "returned"]) /\ Ends(s)
        \/ LeftBehind(row.st) /\ Go(s, [runner[s] EXCEPT !.pc = "stuck"]) /\ Ends(s)
    BY <1>3 DEF Return, Leave, Ends
  <2>2. /\ OnlyRunner(s) /\ Ends(s)
        /\ \E pc \in { "returned", "stuck" } : /\ Moves(s, pc, runner[s].rec, runner[s].st)
                                               /\ pc = "stuck" => LeftBehind(row.st)
    BY <2>1, MovesOn, PcTypes
  <2>3. /\ runner'[s].pc \in { "returned", "stuck" } /\ runner'[s].st = runner[s].st
        /\ runner'[s].rec = runner[s].rec
        /\ runner'[s].pc = "stuck" => LeftBehind(row.st)
        /\ runner'[s].aborted = runner[s].aborted /\ runner'[s].tracked = runner[s].tracked
    <3>1. PICK pc \in { "returned", "stuck" } : /\ Moves(s, pc, runner[s].rec, runner[s].st)
                                                /\ pc = "stuck" => LeftBehind(row.st)
      BY <2>2
    <3>2. QED
      BY <3>1 DEF Moves
  <2>4. QED
    BY <1>2, <2>2, <2>3
<1>4. CASE /\ row.st.pending.answer # "pending" /\ HasNext(graph, row.st) /\ registry' = registry
           /\ Go(s, [read EXCEPT !.pc = "node", !.node = node])
  <2> DEFINE e == [read EXCEPT !.pc = "node", !.node = node]
  <2>1. node \in Nodes /\ row.st.nodes[node] = "pending"
    BY <1>4, NextIsPending
  <2> HIDE DEF read, node
  <2>2. /\ e \in Runners /\ e.pc = "node" /\ e.node = node /\ e.rec = read.rec /\ e.st = read.st
        /\ e.aborted = read.aborted /\ e.tracked = read.tracked
    BY <1>1, <2>1, PcTypes DEF Runners
  <2>3. Go(s, e)
    BY <1>4
  <2> HIDE DEF e
  <2>4. OnlyRunner(s) /\ runner'[s] = e
    BY <2>2, <2>3, MovesAnew
  <2>5. QED
    BY <1>1, <1>2, <1>4, <2>1, <2>2, <2>4
<1>5. CASE /\ row.st.pending.answer # "pending" /\ HasNext(graph, row.st) /\ registry' = registry
           /\ Go(s, [read EXCEPT !.pc = "write", !.st = Patch(row.st, node, "skipped", {})])
  <2> DEFINE st == Patch(row.st, node, "skipped", {})
             e == [read EXCEPT !.pc = "write", !.st = st]
  <2>1. node \in Nodes
    BY <1>5, NextIsPending
  <2> HIDE DEF read, node
  <2>2. /\ st \in States /\ st.nodes = [row.st.nodes EXCEPT ![node] = "skipped"]
        /\ st.approved = row.st.approved /\ st.pending \in { row.st.pending, NoPending }
    <3>1. "skipped" \in NodeStatuses /\ {} \in SUBSET PortNames
      BY DEF NodeStatuses, Settled
    <3>2. QED
      BY <1>0, <2>1, <3>1, PatchTypes
  <2> HIDE DEF st
  <2>3. /\ e \in Runners /\ e.pc = "write" /\ e.rec = read.rec /\ e.st = st
        /\ e.aborted = read.aborted /\ e.tracked = read.tracked
    BY <1>1, <2>2, PcTypes DEF Runners
  <2>4. Go(s, e)
    BY <1>5 DEF st
  <2> HIDE DEF e
  <2>5. OnlyRunner(s) /\ runner'[s] = e
    BY <2>3, <2>4, MovesAnew
  <2>6. QED
    BY <1>1, <1>2, <1>5, <2>1, <2>2, <2>3, <2>5
<1>6. CASE row.st.pending.answer # "pending" /\ registry' = registry /\ Go(s, [read EXCEPT !.pc = "complete"])
  <2> DEFINE e == [read EXCEPT !.pc = "complete"]
  <2> HIDE DEF read
  <2>1. /\ e \in Runners /\ e.pc = "complete" /\ e.rec = read.rec /\ e.st = read.st
        /\ e.aborted = read.aborted /\ e.tracked = read.tracked
    BY <1>1, GoPc, PcTypes
  <2>2. Go(s, e)
    BY <1>6
  <2> HIDE DEF e
  <2>3. OnlyRunner(s) /\ runner'[s] = e
    BY <2>1, <2>2, MovesAnew
  <2>4. QED
    BY <1>1, <1>2, <1>6, <2>1, <2>3
<1>7. QED
  BY <1>3, <1>4, <1>5, <1>6 DEF LoopNext, LeftBehind

LEMMA DeliverMoves ==
  ASSUME Typed, NEW s \in Slots, Deliver(s)
  PROVE  /\ OnlyRunner(s) /\ row' \in Rows /\ runner[s].pc = "idle" /\ registry' = registry
         /\ SlowAnswers \/ \A u \in Responders : answer[u].pc # "write"
         /\ \/ row' = row
            \/ row.status = "none" /\ row'.status = "queued" /\ row'.st = Fresh(graph)
         /\ \/ /\ runner'[s].pc \in { "returned", "threw" }
               /\ runner'[s].rec = NoRow(graph) /\ runner'[s].st = Fresh(graph)
            \/ /\ runner'[s].pc = "authorize" /\ runner'[s].rec = row' /\ runner'[s].st = row'.st
               /\ row'.status \in { "queued", "running" }
         /\ ~runner'[s].aborted /\ ~runner'[s].tracked
<1>0. row \in Rows /\ row.st \in States
  BY KnownTypes
<1>1. /\ runner[s].pc = "idle" /\ registry' = registry
      /\ SlowAnswers \/ \A u \in Responders : answer[u].pc # "write"
  BY DEF Deliver
<1>2. PICK j \in Jobs :
        \/ \E pc \in { "returned", "threw" } :
             Go(s, [Idle(graph) EXCEPT !.pc = pc, !.job = j]) /\ row' = row
        \/ /\ \/ row' = row
              \/ row.status = "none" /\ row' = [NoRow(graph) EXCEPT !.status = "queued", !.job = j]
           /\ Accept(s, j, row')
  BY DEF Deliver, Accept
<1>3. /\ row' \in Rows /\ row'.st \in States
      /\ \/ row' = row
         \/ row.status = "none" /\ row'.status = "queued" /\ row'.st = Fresh(graph)
  <2>1. LET q == [NoRow(graph) EXCEPT !.status = "queued", !.job = j]
        IN q \in Rows /\ q.status = "queued" /\ q.st = Fresh(graph)
    BY IdleTypes DEF Rows
  <2>2. row' = row \/ (row.status = "none" /\ row' = [NoRow(graph) EXCEPT !.status = "queued", !.job = j])
    BY <1>2
  <2>3. QED
    BY <1>0, <2>1, <2>2, IdleTypes
<1>4. ASSUME NEW pc \in { "returned", "threw" }, Go(s, [Idle(graph) EXCEPT !.pc = pc, !.job = j])
      PROVE  /\ OnlyRunner(s) /\ runner'[s].pc = pc /\ runner'[s].rec = NoRow(graph) /\ runner'[s].st = Fresh(graph)
             /\ ~runner'[s].aborted /\ ~runner'[s].tracked
  <2> DEFINE e == [Idle(graph) EXCEPT !.pc = pc, !.job = j]
  <2>1. pc \in RunnerPcs /\ Idle(graph).aborted = FALSE /\ Idle(graph).tracked = FALSE
    BY PcTypes DEF Idle
  <2>2. /\ e \in Runners /\ e.pc = pc /\ e.rec = NoRow(graph) /\ e.st = Fresh(graph)
        /\ ~e.aborted /\ ~e.tracked
    BY <2>1, IdleTypes DEF Runners
  <2>3. Go(s, e)
    BY <1>4
  <2> HIDE DEF e
  <2>4. QED
    BY <2>2, <2>3, MovesAnew
<1>5. ASSUME Go(s, [Idle(graph) EXCEPT !.pc = "authorize", !.job = j, !.rec = row', !.st = row'.st])
      PROVE  /\ OnlyRunner(s) /\ runner'[s].pc = "authorize" /\ runner'[s].rec = row' /\ runner'[s].st = row'.st
             /\ ~runner'[s].aborted /\ ~runner'[s].tracked
  <2> DEFINE e == [Idle(graph) EXCEPT !.pc = "authorize", !.job = j, !.rec = row', !.st = row'.st]
  <2>1. Idle(graph).aborted = FALSE /\ Idle(graph).tracked = FALSE
    BY DEF Idle
  <2>2. /\ e \in Runners /\ e.pc = "authorize" /\ e.rec = row' /\ e.st = row'.st
        /\ ~e.aborted /\ ~e.tracked
    BY <1>3, <2>1, IdleTypes, PcTypes DEF Runners
  <2>3. Go(s, e)
    BY <1>5
  <2> HIDE DEF e
  <2>4. QED
    BY <2>2, <2>3, MovesAnew
<1>6. CASE \E pc \in { "returned", "threw" } :
             Go(s, [Idle(graph) EXCEPT !.pc = pc, !.job = j]) /\ row' = row
  BY <1>1, <1>3, <1>4, <1>6
<1>7. CASE Accept(s, j, row')
  <2>1. \/ Go(s, [Idle(graph) EXCEPT !.pc = "returned", !.job = j])
        \/ Go(s, [Idle(graph) EXCEPT !.pc = "threw", !.job = j])
        \/ /\ Go(s, [Idle(graph) EXCEPT !.pc = "authorize", !.job = j, !.rec = row', !.st = row'.st])
           /\ row'.status \in { "queued", "running" }
    BY <1>7 DEF Accept
  <2>2. QED
    BY <1>1, <1>3, <1>4, <1>5, <2>1
<1>8. QED
  BY <1>2, <1>6, <1>7

LEMMA ActPureMoves ==
  ASSUME Typed, NEW s \in Slots, ActPure(s)
  PROVE  /\ runner[s].pc = "act"
         /\ \/ row' = row /\ registry' = registry /\ \E ports \in SUBSET PortNames : Complete(s, ports)
            \/ NodeFails(s)
<1>1. AllowedPorts("condition") \subseteq PortNames
  BY DEF AllowedPorts, PortNames
<1>2. \A port \in AllowedPorts("condition") : { port } \in SUBSET PortNames
  BY <1>1
<1>3. ({ "default" } \ { p \in { "default" } : graph.type[runner[s].node] = "output" }) \in SUBSET PortNames
  BY DEF PortNames
<1>4. QED
  BY <1>2, <1>3 DEF ActPure

LEMMA ActApprovalMoves ==
  ASSUME Typed, NEW s \in Slots, ActApproval(s)
  PROVE  /\ runner[s].pc = "act" /\ row' = row /\ registry' = registry
         /\ \/ \E ports \in SUBSET PortNames : Complete(s, ports)
            \/ Pause(s)
<1>1. \A a \in { "approved", "rejected" } : { a } \in SUBSET PortNames
  BY DEF PortNames
<1>2. QED
  BY <1>1 DEF ActApproval

LEMMA ActToolMoves ==
  ASSUME Typed, NEW s \in Slots, ActTool(s)
  PROVE  /\ runner[s].pc = "act" /\ graph.type[runner[s].node] = "tool"
         /\ \/ NodeFails(s) /\ acted' = acted
            \/ Pause(s) /\ row' = row /\ registry' = registry /\ acted' = acted
            \/ /\ ~NeedsConsent(runner[s]) /\ ~runner[s].aborted
               /\ acted' = [acted EXCEPT ![runner[s].node] = @ + 1]
               /\ \/ /\ row' = row /\ registry' = registry
                     /\ \E ports \in SUBSET PortNames : Complete(s, ports)
                  \/ NodeFails(s)
            \/ UNCHANGED << runner, row, registry, acted >>
<1>1. { "default" } \in SUBSET PortNames
  BY DEF PortNames
<1>2. FailsAndTriesAgain(runner[s].node) => acted' = acted
  BY DEF FailsAndTriesAgain, Typed, GraphOK
<1>3. QED
  BY <1>1, <1>2 DEF ActTool, StartsTool

-------------------------------------------------------------------------------
(* Types and consent, over the steps of a delivery *)

LEMMA KnownConsent ==
  ASSUME Typed
  PROVE  /\ row.st.approved \subseteq consent
         /\ \A s \in Slots : /\ runner[s].rec.st.approved \subseteq consent
                             /\ runner[s].st.approved \subseteq consent
                             /\ runner[s].pc \in AgentPcs => graph.type[runner[s].node] = "agent"
                             /\ runner[s].pc \in NodePcs => runner[s].node \in Nodes
BY DEF Typed, ConsentIsKept

Keeps(s) ==
  /\ OnlyRunner(s) /\ row' \in Rows /\ row'.st.approved \subseteq consent
  /\ runner'[s].rec.st.approved \subseteq consent /\ runner'[s].st.approved \subseteq consent
  /\ runner'[s].pc \in AgentPcs => graph.type[runner'[s].node] = "agent"
  /\ runner'[s].pc \in NodePcs => runner'[s].node \in Nodes

LEMMA NodeKeeps ==
  ASSUME Typed, NEW s \in Slots
  PROVE  /\ NodeFails(s) => Keeps(s)
         /\ Pause(s) /\ row' = row /\ runner[s].node \in Nodes => Keeps(s)
         /\ \A ports \in SUBSET PortNames : Complete(s, ports) /\ row' = row => Keeps(s)
<1>1. NodeFails(s) => Keeps(s)
  BY NodeThrows, KnownConsent DEF Keeps, Moves, NodeIsFailed, AgentPcs, NodePcs
<1>2. Pause(s) /\ row' = row /\ runner[s].node \in Nodes => Keeps(s)
  BY NodePauses, KnownConsent, KnownTypes DEF Keeps, Moves, AgentPcs, NodePcs
<1>3. ASSUME NEW ports \in SUBSET PortNames, Complete(s, ports), row' = row PROVE Keeps(s)
  BY <1>3, NodeCompletes, KnownConsent, KnownTypes DEF Keeps, Moves, AgentPcs, NodePcs
<1>4. QED
  BY <1>1, <1>2, <1>3

LEMMA OtherFieldsStay ==
  ASSUME NEW st \in States, NEW n \in Nodes \cup {0}
  PROVE  /\ LET e == [st EXCEPT !.nodes[n] = "running"]
            IN /\ e \in States /\ e.nodes = [st.nodes EXCEPT ![n] = "running"]
               /\ e.approved = st.approved /\ e.pending = st.pending
         /\ LET e == [st EXCEPT !.pending = NoPending]
            IN e \in States /\ e.nodes = st.nodes /\ e.approved = st.approved /\ e.pending = NoPending
BY DEF States, NodeStatuses, NoPending

LEMMA RunsKeep ==
  ASSUME Typed, NEW s \in Slots, Runs(s) \/ TimesOut(s)
  PROVE  Keeps(s)
<1>0. /\ runner[s].st \in States /\ row.st \in States /\ row \in Rows /\ runner[s].rec.st \in States
      /\ runner[s].node \in Nodes \cup {0}
  BY KnownTypes DEF Rows, Runners
<1>1. CASE Deliver(s)
  BY <1>1, DeliverMoves, KnownConsent, IdleTypes, KnownTypes DEF Keeps, AgentPcs, NodePcs
<1>2. CASE Finish(s)
  BY <1>2, FinishMoves, KnownConsent, IdleTypes, KnownTypes DEF Keeps, AgentPcs, NodePcs
<1>3. CASE Authorize(s)
  BY <1>3, AuthorizeMoves, KnownConsent, InterruptedTypes, <1>0 DEF Keeps, AgentPcs, NodePcs
<1>4. CASE Orchestrate(s)
  BY <1>4, OrchestrateMoves, KnownConsent, <1>0 DEF Keeps, Moves, AgentPcs, NodePcs
<1>5. CASE Enter(s)
  BY <1>5, EnterMoves, KnownConsent, <1>0 DEF Keeps, Moves, AgentPcs, NodePcs
<1>6. CASE LoopAborted(s)
  BY <1>6, LoopAbortedMoves, KnownConsent, <1>0 DEF Keeps, Moves, AgentPcs, NodePcs
<1>7. CASE LoopCancelled(s)
  BY <1>7, LoopCancelledMoves, KnownConsent, <1>0 DEF Keeps, Moves, AgentPcs, NodePcs
<1>8. CASE LoopNext(s)
  BY <1>8, LoopNextMoves, KnownConsent, KnownTypes, <1>0 DEF Keeps, AgentPcs, NodePcs
<1>9. CASE StartNode(s)
  <2> DEFINE st == [runner[s].st EXCEPT !.nodes[runner[s].node] = "running"]
  <2>1. st.approved = runner[s].st.approved
    BY <1>0, OtherFieldsStay
  <2>2. /\ OnlyRunner(s) /\ row' \in Rows /\ (row' = row \/ row'.st = st)
        /\ runner'[s].rec = runner[s].rec
        /\ (runner'[s].st = st \/ runner'[s].st = runner[s].st)
        /\ (runner'[s].pc \in NodePcs => runner'[s].pc = "act" /\ runner'[s].node \in Nodes)
    BY <1>9, StartNodeMoves, KnownConsent DEF Moves, AgentPcs, NodePcs
  <2> HIDE DEF st
  <2>3. QED
    BY <2>1, <2>2, KnownConsent DEF Keeps, AgentPcs, NodePcs
<1>10. CASE ActPure(s)
  BY <1>10, ActPureMoves, NodeKeeps
<1>11. CASE ActApproval(s)
  BY <1>11, ActApprovalMoves, NodeKeeps, KnownConsent DEF NodePcs
<1>12. CASE ActTool(s)
  <2>1. CASE UNCHANGED << runner, row, registry, acted >>
    BY <2>1, KnownTypes, KnownConsent DEF Keeps, OnlyRunner, Typed, AutomationTypeOK
  <2>2. QED
    BY <1>12, <2>1, ActToolMoves, NodeKeeps, KnownConsent DEF NodePcs
<1>13. CASE ActAgent(s)
  BY <1>13, ActAgentMoves, NodeKeeps, KnownConsent DEF Keeps, Moves, AgentPcs, NodePcs
<1>14. CASE AgentWritten(s)
  BY <1>14, AgentWrittenMoves, NodeKeeps, KnownConsent DEF Keeps, Moves, AgentPcs, NodePcs
<1>15. CASE StartAgent(s)
  BY <1>15, StartAgentMoves, NodeKeeps, KnownConsent DEF Keeps, Moves, AgentPcs, NodePcs
<1>16. CASE AgentEnds(s)
  BY <1>16, AgentEndsMoves, NodeKeeps DEF PortNames
<1>17. CASE Write(s)
  BY <1>17, WriteMoves, KnownConsent, <1>0 DEF Keeps, Moves, AgentPcs, NodePcs
<1>18. CASE Paused(s)
  BY <1>18, PausedMoves, KnownConsent, <1>0 DEF Keeps, Moves, AgentPcs, NodePcs
<1>19. CASE CompleteOrch(s)
  BY <1>19, CompleteOrchMoves, KnownConsent, <1>0 DEF Keeps, Moves, AgentPcs, NodePcs
<1>20. CASE CompleteRow(s)
  <2> DEFINE st == [runner[s].st EXCEPT !.pending = NoPending]
  <2>1. st.approved = runner[s].st.approved
    BY <1>0, OtherFieldsStay
  <2>2. /\ OnlyRunner(s) /\ row' \in Rows /\ (row' = row \/ row'.st = st)
        /\ runner'[s].rec = runner[s].rec
        /\ (runner'[s].st = st \/ runner'[s].st = runner[s].st)
        /\ (runner'[s].pc \in NodePcs => runner'[s].pc = "act" /\ runner'[s].node \in Nodes)
    BY <1>20, CompleteRowMoves DEF Moves, AgentPcs, NodePcs
  <2> HIDE DEF st
  <2>3. QED
    BY <2>1, <2>2, KnownConsent DEF Keeps, AgentPcs, NodePcs
<1>21. CASE FailReads(s)
  BY <1>21, FailReadsMoves, KnownConsent, <1>0 DEF Keeps, Moves, AgentPcs, NodePcs
<1>22. CASE FailWrites(s)
  BY <1>22, FailWritesMoves, KnownConsent, <1>0 DEF Keeps, Moves, AgentPcs, NodePcs
<1>23. CASE TimesOut(s)
  BY <1>23, TimesOutMoves, KnownConsent, KnownTypes, <1>0 DEF Keeps, AgentPcs, NodePcs
<1>24. QED
  BY <1>1, <1>2, <1>3, <1>4, <1>5, <1>6, <1>7, <1>8, <1>9, <1>10, <1>11, <1>12, <1>13, <1>14, <1>15,
       <1>16, <1>17, <1>18, <1>19, <1>20, <1>21, <1>22, <1>23 DEF Runs

Bystands ==
  /\ graph' = graph /\ trigger' = trigger /\ consent' = consent /\ crashes' = crashes
  /\ cancel' = cancel /\ answer' = answer /\ sending' = sending /\ boot' = boot /\ phase' = phase

LEMMA RunsBystand ==
  ASSUME NEW s \in Slots, Runs(s) \/ TimesOut(s)
  PROVE  Bystands
<1>1. CASE Deliver(s)
  BY <1>1 DEF Deliver, Bystands, durable, requests, history, Rest
<1>2. CASE Finish(s)
  BY <1>2 DEF Finish, Bystands, durable, requests, history, Rest
<1>3. CASE Authorize(s)
  BY <1>3 DEF Authorize, Bystands, durable, requests, history, Rest
<1>4. CASE Orchestrate(s)
  BY <1>4 DEF Orchestrate, Bystands, durable, requests, history, Rest
<1>5. CASE Enter(s)
  BY <1>5 DEF Enter, Bystands, durable, requests, history, Rest
<1>6. CASE LoopAborted(s)
  BY <1>6 DEF LoopAborted, Bystands, durable, requests, history, Rest
<1>7. CASE LoopCancelled(s)
  BY <1>7 DEF LoopCancelled, Bystands, durable, requests, history, Rest
<1>8. CASE LoopNext(s)
  BY <1>8 DEF LoopNext, Bystands, durable, requests, history, Rest
<1>9. CASE StartNode(s)
  BY <1>9 DEF StartNode, Bystands, durable, requests, history, Rest
<1>10. CASE ActPure(s)
  BY <1>10 DEF ActPure, Bystands, durable, requests, history, Rest
<1>11. CASE ActApproval(s)
  BY <1>11 DEF ActApproval, Bystands, durable, requests, history, Rest
<1>12. CASE ActTool(s)
  BY <1>12 DEF ActTool, Bystands, durable, requests, history, Rest
<1>13. CASE ActAgent(s)
  BY <1>13 DEF ActAgent, Bystands, durable, requests, history, Rest
<1>14. CASE AgentWritten(s)
  BY <1>14 DEF AgentWritten, Bystands, durable, requests, history, Rest
<1>15. CASE StartAgent(s)
  BY <1>15 DEF StartAgent, Bystands, durable, requests, history, Rest
<1>16. CASE AgentEnds(s)
  BY <1>16 DEF AgentEnds, Bystands, durable, requests, history, Rest
<1>17. CASE Write(s)
  BY <1>17 DEF Write, Bystands, durable, requests, history, Rest
<1>18. CASE Paused(s)
  BY <1>18 DEF Paused, Bystands, durable, requests, history, Rest
<1>19. CASE CompleteOrch(s)
  BY <1>19 DEF CompleteOrch, Bystands, durable, requests, history, Rest
<1>20. CASE CompleteRow(s)
  BY <1>20 DEF CompleteRow, Bystands, durable, requests, history, Rest
<1>21. CASE FailReads(s)
  BY <1>21 DEF FailReads, Bystands, durable, requests, history, Rest
<1>22. CASE FailWrites(s)
  BY <1>22 DEF FailWrites, Bystands, durable, requests, history, Rest
<1>23. CASE TimesOut(s)
  BY <1>23 DEF TimesOut, Bystands, durable, requests, history, Rest
<1>24. QED
  BY <1>1, <1>2, <1>3, <1>4, <1>5, <1>6, <1>7, <1>8, <1>9, <1>10, <1>11, <1>12, <1>13, <1>14, <1>15,
       <1>16, <1>17, <1>18, <1>19, <1>20, <1>21, <1>22, <1>23 DEF Runs

ServicesTypeOK ==
  /\ task \in TaskStatuses
  /\ orchs \in [OrchIds -> { "none", "running", "waiting_approval" } \cup Over]
  /\ agentRun \in AgentStatuses
  /\ jobs \in [Jobs -> JobStates]
  /\ worker \in Slots \cup {0}
  /\ registry \in { "none", "running", "cancelled", "ended" }
  /\ acted \in [Nodes -> Nat]

LEMMA JobPatches ==
  ASSUME jobs \in [Jobs -> JobStates], NEW j
  PROVE  /\ [jobs EXCEPT ![j] = Retried(@)] \in [Jobs -> JobStates]
         /\ \A x \in { "none", "created", "active" } \cup Over : [jobs EXCEPT ![j].state = x] \in [Jobs -> JobStates]
<1>1. \A i \in Jobs : Retried(jobs[i]) \in JobStates
  BY RetriedTypes
<1>2. \A x \in { "none", "created", "active" } \cup Over : \A i \in Jobs : [jobs[i] EXCEPT !.state = x] \in JobStates
  BY DEF JobStates
<1>3. QED
  BY <1>1, <1>2

LEMMA EndsTypes ==
  ASSUME ServicesTypeOK
  PROVE  /\ EndAgent => agentRun' \in AgentStatuses
         /\ \A o : \A x \in Over : EndOrch(o, x) => orchs' \in [OrchIds -> { "none", "running", "waiting_approval" } \cup Over]
BY DEF ServicesTypeOK, EndAgent, EndOrch, Over, AgentStatuses

LEMMA RunsServe ==
  ASSUME Typed, NEW s \in Slots, Runs(s) \/ TimesOut(s)
  PROVE  ServicesTypeOK'
<1>0. ServicesTypeOK /\ Nodes' = Nodes
  <2>1. ServicesTypeOK
    BY DEF Typed, AutomationTypeOK, ServicesTypeOK
  <2>2. QED
    BY <2>1, RunsBystand, SetsStay DEF Bystands
<1>1. CASE Deliver(s)
  <2>1. jobs' \in [Jobs -> JobStates]
    <3>1. \E j \in Jobs : jobs' = [jobs EXCEPT ![j].state = "active"]
      BY <1>1 DEF Deliver
    <3>2. \A j \in Jobs : [jobs EXCEPT ![j].state = "active"] \in [Jobs -> JobStates]
      BY <1>0, JobPatches DEF ServicesTypeOK
    <3>3. QED
      BY <3>1, <3>2
  <2>2. task' \in TaskStatuses /\ worker' \in Slots \cup {0}
    <3>1. task' \in { task, "missed" } /\ worker' = s
      BY <1>1 DEF Deliver
    <3>2. QED
      BY <1>0, <3>1 DEF ServicesTypeOK, TaskStatuses
  <2>3. UNCHANGED << orchs, agentRun, registry, acted >>
    BY <1>1 DEF Deliver, history
  <2>4. QED
    BY <1>0, <2>1, <2>2, <2>3 DEF ServicesTypeOK
<1>2. CASE Finish(s)
  <2>1. jobs' \in [Jobs -> JobStates]
    <3> DEFINE j == runner[s].job
    <3>1. \/ jobs' = jobs
          \/ jobs' = [jobs EXCEPT ![j] = Retried(@)]
          \/ jobs' = [jobs EXCEPT ![j].state = "completed"]
      BY <1>2 DEF Finish
    <3>2. "completed" \in { "none", "created", "active" } \cup Over
      BY DEF Over
    <3> HIDE DEF j
    <3>3. QED
      BY <1>0, <3>1, <3>2, JobPatches DEF ServicesTypeOK
  <2>2. task' \in TaskStatuses /\ worker' \in Slots \cup {0}
    BY <1>0, <1>2 DEF Finish, ServicesTypeOK, TaskStatuses
  <2>3. UNCHANGED << orchs, agentRun, registry, acted >>
    BY <1>2 DEF Finish, history
  <2>4. QED
    BY <1>0, <2>1, <2>2, <2>3 DEF ServicesTypeOK
<1>3. CASE Authorize(s)
  BY <1>0, <1>3 DEF Authorize, ServicesTypeOK, Throw, Return, Leave, NodeFails, durable, history, Rest
<1>4. CASE Orchestrate(s)
  BY <1>0, <1>4 DEF Orchestrate, ServicesTypeOK, Throw, Return, Leave, NodeFails, durable, history, Rest
<1>5. CASE Enter(s)
  BY <1>0, <1>5 DEF Enter, ServicesTypeOK, Throw, Return, Leave, NodeFails, durable, history, Rest
<1>6. CASE LoopAborted(s)
  BY <1>0, <1>6 DEF LoopAborted, ServicesTypeOK, Throw, Return, Leave, NodeFails, durable, history, Rest
<1>7. CASE LoopCancelled(s)
  BY <1>0, <1>7, EndsTypes DEF LoopCancelled, ServicesTypeOK, Throw, Return, Leave, NodeFails,
       durable, history, Rest, Over
<1>8. CASE LoopNext(s)
  BY <1>0, <1>8 DEF LoopNext, ServicesTypeOK, Throw, Return, Leave, NodeFails, durable, history, Rest
<1>9. CASE StartNode(s)
  BY <1>0, <1>9 DEF StartNode, ServicesTypeOK, Throw, Return, Leave, NodeFails, durable, history, Rest
<1>10. CASE ActPure(s)
  BY <1>0, <1>10 DEF ActPure, ServicesTypeOK, Throw, Return, Leave, NodeFails, durable, history, Rest
<1>11. CASE ActApproval(s)
  BY <1>0, <1>11 DEF ActApproval, ServicesTypeOK, Throw, Return, Leave, NodeFails, durable, history,
       Rest
<1>12. CASE ActTool(s)
  <2>1. acted' = acted \/ acted' = [acted EXCEPT ![runner[s].node] = @ + 1]
    BY <1>12, ActToolMoves
  <2>2. registry' = registry \/ registry' = "ended"
    BY <1>12 DEF ActTool, Throw, Leave, NodeFails
  <2>3. UNCHANGED << task, orchs, agentRun, jobs, worker >>
    BY <1>12 DEF ActTool, Rest
  <2>4. QED
    BY <1>0, <2>1, <2>2, <2>3 DEF ServicesTypeOK
<1>13. CASE ActAgent(s)
  BY <1>0, <1>13 DEF ActAgent, ServicesTypeOK, Throw, Return, Leave, NodeFails, durable, history, Rest
<1>14. CASE AgentWritten(s)
  BY <1>0, <1>14 DEF AgentWritten, ServicesTypeOK, Throw, Return, Leave, NodeFails, durable, history,
       Rest
<1>15. CASE StartAgent(s)
  BY <1>0, <1>15 DEF StartAgent, ServicesTypeOK, Throw, Return, Leave, NodeFails, durable, history, Rest,
       AgentStatuses
<1>16. CASE AgentEnds(s)
  BY <1>0, <1>16 DEF AgentEnds, ServicesTypeOK, Throw, Return, Leave, NodeFails, durable, history, Rest,
       AgentStatuses
<1>17. CASE Write(s)
  BY <1>0, <1>17 DEF Write, ServicesTypeOK, Throw, Return, Leave, NodeFails, durable, history, Rest
<1>18. CASE Paused(s)
  BY <1>0, <1>18 DEF Paused, ServicesTypeOK, Throw, Return, Leave, NodeFails, durable, history, Rest,
       Over
<1>19. CASE CompleteOrch(s)
  BY <1>0, <1>19 DEF CompleteOrch, ServicesTypeOK, Throw, Return, Leave, NodeFails, durable, history,
       Rest, Over
<1>20. CASE CompleteRow(s)
  BY <1>0, <1>20 DEF CompleteRow, ServicesTypeOK, Throw, Return, Leave, NodeFails, durable, history,
       Rest
<1>21. CASE FailReads(s)
  BY <1>0, <1>21, EndsTypes DEF FailReads, ServicesTypeOK, Throw, Return, Leave, NodeFails, durable,
       history, Rest, Over
<1>22. CASE FailWrites(s)
  BY <1>0, <1>22 DEF FailWrites, ServicesTypeOK, Throw, Return, Leave, NodeFails, durable, history, Rest
<1>23. CASE TimesOut(s)
  BY <1>0, <1>23 DEF TimesOut, ServicesTypeOK, Throw, Return, Leave, NodeFails, durable, history, Rest
<1>24. QED
  BY <1>1, <1>2, <1>3, <1>4, <1>5, <1>6, <1>7, <1>8, <1>9, <1>10, <1>11, <1>12, <1>13, <1>14, <1>15,
       <1>16, <1>17, <1>18, <1>19, <1>20, <1>21, <1>22, <1>23 DEF Runs

(* A node that asks acts only when the state of its delivery lists it as     *)
(* approved, and an agent never asks.                                        *)
LEMMA RunsActWithConsent ==
  ASSUME Typed, NEW s \in Slots, Runs(s) \/ TimesOut(s)
  PROVE  ActsWithConsent'
<1>0. /\ ActsWithConsent /\ acted \in [Nodes -> Nat] /\ graph' = graph /\ consent' = consent
      /\ graph.asks \subseteq OfType(graph, "tool")
      /\ runner[s].pc \in AgentPcs => graph.type[runner[s].node] = "agent"
      /\ runner[s].st.approved \subseteq consent
  BY RunsBystand, KnownConsent DEF Typed, ConsentIsKept, AutomationTypeOK, GraphOK, Bystands
<1>1. CASE ActTool(s)
  <2>1. acted' = acted \/ (acted' = [acted EXCEPT ![runner[s].node] = @ + 1] /\ ~NeedsConsent(runner[s]))
    BY <1>1, ActToolMoves
  <2>2. ~NeedsConsent(runner[s]) /\ runner[s].node \in graph.asks => runner[s].node \in consent
    BY <1>0 DEF NeedsConsent
  <2>3. \A n \in graph.asks : n \in Nodes
    BY <1>0 DEF OfType, Nodes
  <2>4. QED
    BY <1>0, <2>1, <2>2, <2>3 DEF ActsWithConsent
<1>2. CASE StartAgent(s)
  <2>1. acted' = acted \/ (acted' = [acted EXCEPT ![runner[s].node] = @ + 1] /\ runner[s].pc = "agent_start")
    BY <1>2, StartAgentMoves
  <2>2. runner[s].pc = "agent_start" => runner[s].node \notin graph.asks
    BY <1>0 DEF AgentPcs, OfType
  <2>3. \A n \in graph.asks : n \in Nodes
    BY <1>0 DEF OfType, Nodes
  <2>4. QED
    BY <1>0, <2>1, <2>2, <2>3 DEF ActsWithConsent
<1>3. CASE ~ActTool(s) /\ ~StartAgent(s)
  <2>1. acted' = acted
    <3>1. CASE Deliver(s)
      BY <3>1 DEF Deliver, history
    <3>2. CASE Finish(s)
      BY <3>2 DEF Finish, history
    <3>3. CASE Authorize(s)
      BY <3>3 DEF Authorize, history
    <3>4. CASE Orchestrate(s)
      BY <3>4 DEF Orchestrate, history
    <3>5. CASE Enter(s)
      BY <3>5 DEF Enter, history
    <3>6. CASE LoopAborted(s)
      BY <3>6 DEF LoopAborted, history
    <3>7. CASE LoopCancelled(s)
      BY <3>7 DEF LoopCancelled, history
    <3>8. CASE LoopNext(s)
      BY <3>8 DEF LoopNext, history
    <3>9. CASE StartNode(s)
      BY <3>9 DEF StartNode, history
    <3>10. CASE ActPure(s)
      BY <3>10 DEF ActPure, history
    <3>11. CASE ActApproval(s)
      BY <3>11 DEF ActApproval, history
    <3>12. CASE ActAgent(s)
      BY <3>12 DEF ActAgent, history
    <3>13. CASE AgentWritten(s)
      BY <3>13 DEF AgentWritten, history
    <3>14. CASE AgentEnds(s)
      BY <3>14 DEF AgentEnds, history
    <3>15. CASE Write(s)
      BY <3>15 DEF Write, history
    <3>16. CASE Paused(s)
      BY <3>16 DEF Paused, history
    <3>17. CASE CompleteOrch(s)
      BY <3>17 DEF CompleteOrch, history
    <3>18. CASE CompleteRow(s)
      BY <3>18 DEF CompleteRow, history
    <3>19. CASE FailReads(s)
      BY <3>19 DEF FailReads, history
    <3>20. CASE FailWrites(s)
      BY <3>20 DEF FailWrites, history
    <3>21. CASE TimesOut(s)
      BY <3>21 DEF TimesOut, history
    <3>22. QED
      BY <1>3, <3>1, <3>2, <3>3, <3>4, <3>5, <3>6, <3>7, <3>8, <3>9, <3>10, <3>11, <3>12, <3>13,
           <3>14, <3>15, <3>16, <3>17, <3>18, <3>19, <3>20, <3>21 DEF Runs
  <2>2. QED
    BY <1>0, <2>1 DEF ActsWithConsent
<1>4. QED
  BY <1>1, <1>2, <1>3

LEMMA RunsKeepTyped ==
  ASSUME Typed, NEW s \in Slots, Runs(s) \/ TimesOut(s)
  PROVE  Typed'
<1>1. Keeps(s) /\ Bystands /\ ServicesTypeOK' /\ ActsWithConsent'
  BY RunsKeep, RunsBystand, RunsServe, RunsActWithConsent
<1>2. /\ Nodes' = Nodes /\ Rows' = Rows /\ Runners' = Runners /\ GraphOK'
  BY <1>1, SetsStay DEF Bystands, Typed, GraphOK
<1>3. AutomationTypeOK'
  BY <1>1, <1>2 DEF Typed, AutomationTypeOK, ServicesTypeOK, Bystands, Keeps, OnlyRunner
<1>4. ConsentIsKept'
  <2>1. /\ \A t \in Slots : /\ runner'[t].rec.st.approved \subseteq consent
                            /\ runner'[t].st.approved \subseteq consent
        /\ \A t \in Slots : /\ runner'[t].pc \in AgentPcs => graph.type[runner'[t].node] = "agent"
                            /\ runner'[t].pc \in NodePcs => runner'[t].node \in Nodes
        /\ row'.st.approved \subseteq consent
    BY <1>1, KnownConsent DEF Keeps, OnlyRunner
  <2>2. QED
    BY <1>1, <1>2, <2>1 DEF Typed, ConsentIsKept, Bystands
<1>5. QED
  BY <1>2, <1>3, <1>4 DEF Typed

-------------------------------------------------------------------------------
(* Types and consent, over the requests and the process *)

LEMMA AnsweredTypes ==
  ASSUME Typed, NEW old \in States, NEW d \in { "approved", "rejected" }, old.pending.node \in Nodes
  PROVE  /\ Answered(old, d) \in States
         /\ Answered(old, d).approved \in { old.approved, old.approved \cup { old.pending.node } }
         /\ d = "rejected" => Answered(old, d).approved = old.approved
         /\ \/ Answered(old, d).nodes = [old.nodes EXCEPT ![old.pending.node] = "failed"]
            \/ Answered(old, d).nodes = [old.nodes EXCEPT ![old.pending.node] = "pending"]
         /\ Answered(old, d).pending.answer \in { "none", d }
<1> DEFINE n == old.pending.node
           ports == IF HasErrorPort(n) THEN { "error" } ELSE {}
           p == Patch(old, n, "failed", ports)
<1>1. /\ p \in States /\ p.approved = old.approved
      /\ p.pending = old.pending /\ p.nodes = [old.nodes EXCEPT ![n] = "failed"]
  <2>1. ports \in SUBSET PortNames /\ "failed" \in NodeStatuses
    BY DEF PortNames, NodeStatuses, Settled
  <2> HIDE DEF n, ports
  <2>2. n \in Nodes /\ n \in Nodes \cup {0} /\ old \in States
    BY DEF n
  <2>3. p \in States /\ p.approved = old.approved
    <3>1. p \in States
      BY <2>1, <2>2, PatchTypes, Zenon
    <3>2. p.approved = old.approved
      BY <2>2 DEF Patch, States
    <3>3. QED
      BY <3>1, <3>2
  <2>4. p.pending = old.pending /\ p.nodes = [old.nodes EXCEPT ![n] = "failed"]
    BY <2>2 DEF Patch, States
  <2>5. QED
    BY <2>3, <2>4
<1> HIDE DEF p
<1> DEFINE q == IF HasErrorPort(n) THEN NoPending ELSE [p.pending EXCEPT !.answer = d]
           f == [old.nodes EXCEPT ![n] = "pending"]
           a == IF graph.type[n] = "tool" THEN old.approved \cup { n } ELSE old.approved
           k == [old.pending EXCEPT !.answer = d]
<1>2. /\ k \in { NoPending } \cup [ node : Nodes, answer : { "pending", "approved", "rejected" } ]
      /\ k.answer = d
  BY DEF States, NoPending
<1>3. /\ q \in { NoPending } \cup [ node : Nodes, answer : { "pending", "approved", "rejected" } ]
      /\ q.answer \in { "none", d }
      /\ f \in [Nodes -> NodeStatuses] /\ a \in SUBSET Nodes
      /\ a \in { old.approved, old.approved \cup { n } }
      /\ graph.type[n] # "tool" => a = old.approved
  BY <1>1, <1>2 DEF States, NodeStatuses, NoPending
<1>4. Answered(old, d) = IF d = "rejected" /\ graph.type[n] = "tool" THEN [p EXCEPT !.pending = q]
                        ELSE [old EXCEPT !.nodes = f, !.pending = k, !.approved = a]
  BY <1>1 DEF Answered, States, p
<1> HIDE DEF q, a, k
<1>5. CASE d = "rejected" /\ graph.type[n] = "tool"
  <2> DEFINE e == [p EXCEPT !.pending = q]
  <2>1. e \in States /\ e.approved = p.approved /\ e.nodes = p.nodes /\ e.pending = q
    BY <1>1, <1>3 DEF States
  <2>2. Answered(old, d) = e
    BY <1>4, <1>5
  <2> HIDE DEF e
  <2>3. QED
    BY <1>1, <1>3, <1>5, <2>1, <2>2
<1>6. CASE ~(d = "rejected" /\ graph.type[n] = "tool")
  <2> DEFINE e == [old EXCEPT !.nodes = f, !.pending = k, !.approved = a]
  <2>1. e \in States /\ e.approved = a /\ e.nodes = f /\ e.pending = k
    BY <1>2, <1>3 DEF States
  <2>2. Answered(old, d) = e
    BY <1>4, <1>6
  <2> HIDE DEF e
  <2>3. QED
    BY <1>2, <1>3, <1>6, <2>1, <2>2
<1>7. QED
  BY <1>5, <1>6

LEMMA NewJobIsAJob ==
  ASSUME Typed, NewJobs # {}
  PROVE  Min(NewJobs) \in Jobs
<1>1. NewJobs \in SUBSET Nat /\ NewJobs \subseteq Jobs
  BY QueueLimits DEF NewJobs, Jobs
<1>2. QED
  BY <1>1, LeastExists

LEMMA AnswerKeepsTyped ==
  ASSUME Typed, NEW u \in Responders, AnswerWrite(u)
  PROVE  Typed'
<1> DEFINE rec == answer[u].rec
           old == rec.st
           st == Answered(old, answer[u].decision)
           n == old.pending.node
<1>0. /\ graph' = graph /\ Nodes' = Nodes /\ Rows' = Rows /\ Runners' = Runners /\ GraphOK'
  BY SetsStay DEF AnswerWrite, Typed, GraphOK
<1>1. /\ rec \in Rows /\ old \in States /\ old.approved \subseteq consent
      /\ answer[u].decision \in { "approved", "rejected" } /\ n \in Nodes /\ consent \subseteq Nodes
  BY DEF Typed, AutomationTypeOK, ConsentIsKept, AnswerWrite, Rows, States, NoPending
<1>2. /\ st \in States
      /\ st.approved \in { old.approved, old.approved \cup { n } }
      /\ answer[u].decision = "rejected" => st.approved = old.approved
  <2> HIDE DEF old
  <2>1. QED
    BY <1>1, AnsweredTypes
<1>3. answer' = [answer EXCEPT ![u] = [answer[u] EXCEPT !.pc = "idle", !.rec = NoRow(graph), !.decision = "none"]]
  BY DEF AnswerWrite
<1>4. /\ answer' \in [Responders -> [ pc : { "idle", "write" }, rec : Rows,
                                      decision : { "none", "approved", "rejected" } ]]
      /\ answer'[u].pc = "idle" /\ answer'[u].rec.st.approved = {}
      /\ \A v \in Responders \ {u} : answer'[v] = answer[v]
  BY <1>3, IdleTypes DEF Typed, AutomationTypeOK
<1>5. \/ row' = row /\ sending' = sending /\ consent' = consent
      \/ /\ answer[u].decision = "rejected" /\ Save(rec, st, "failed")
         /\ sending' = sending /\ consent' = consent
      \/ /\ NewJobs # {} /\ Save([rec EXCEPT !.job = Min(NewJobs)], st, "queued")
         /\ sending' = sending \cup { Min(NewJobs) }
         /\ consent' = IF answer[u].decision = "approved" THEN consent \cup { n } ELSE consent
  BY DEF AnswerWrite, EndsRun
<1> HIDE DEF st, n
<1>6. /\ row' \in Rows /\ sending' \subseteq Jobs /\ consent' \subseteq Nodes /\ consent \subseteq consent'
      /\ row'.st.approved \subseteq consent'
  <2>1. CASE row' = row /\ sending' = sending /\ consent' = consent
    BY <1>1, <2>1, KnownConsent DEF Typed, AutomationTypeOK
  <2>2. CASE /\ answer[u].decision = "rejected" /\ Save(rec, st, "failed")
             /\ sending' = sending /\ consent' = consent
    <3>1. row' \in Rows /\ row'.st = st
      BY <1>1, <1>2, <2>2, RowIsSaved DEF Over
    <3>2. QED
      BY <1>1, <1>2, <2>2, <3>1 DEF Typed, AutomationTypeOK
  <2>3. CASE /\ NewJobs # {} /\ Save([rec EXCEPT !.job = Min(NewJobs)], st, "queued")
             /\ sending' = sending \cup { Min(NewJobs) }
             /\ consent' = IF answer[u].decision = "approved" THEN consent \cup { n } ELSE consent
    <3>1. Min(NewJobs) \in Jobs
      BY <2>3, NewJobIsAJob
    <3>2. [rec EXCEPT !.job = Min(NewJobs)] \in Rows
      BY <1>1, <3>1 DEF Rows
    <3>3. row' \in Rows /\ row'.st = st
      BY <1>2, <2>3, <3>2, RowIsSaved
    <3>4. QED
      BY <1>1, <1>2, <2>3, <3>1, <3>3 DEF Typed, AutomationTypeOK
  <2>4. QED
    BY <1>5, <2>1, <2>2, <2>3
<1>7. AutomationTypeOK'
  <2>1. UNCHANGED << task, orchs, jobs, agentRun, worker, runner, registry, cancel, phase, boot, acted, crashes >>
    BY DEF AnswerWrite
  <2>2. QED
    BY <1>0, <1>4, <1>6, <2>1 DEF Typed, AutomationTypeOK
<1>8. ConsentIsKept'
  <2>1. UNCHANGED << runner, cancel, acted >>
    BY DEF AnswerWrite
  <2>2. /\ \A s \in Slots : /\ runner'[s].rec.st.approved \subseteq consent'
                            /\ runner'[s].st.approved \subseteq consent'
        /\ cancel'.rec.st.approved \subseteq consent'
    BY <1>6, <2>1 DEF Typed, ConsentIsKept
  <2>3. \A v \in Responders : /\ answer'[v].rec.st.approved \subseteq consent'
                              /\ answer'[v].pc = "write" => /\ answer'[v].decision # "none"
                                                            /\ answer'[v].rec.st.pending.answer = "pending"
    BY <1>4, <1>6 DEF Typed, ConsentIsKept
  <2>4. ActsWithConsent'
    BY <1>0, <1>6, <2>1 DEF Typed, ConsentIsKept, ActsWithConsent
  <2>5. QED
    BY <1>0, <1>6, <2>1, <2>2, <2>3, <2>4 DEF Typed, ConsentIsKept
<1>9. QED
  BY <1>0, <1>7, <1>8 DEF Typed

LEMMA CancelKeepsTyped ==
  ASSUME Typed, CancelRead \/ CancelJob \/ CancelRuns \/ CancelWrite \/ CancelAbort
  PROVE  Typed'
<1>0. /\ graph' = graph /\ Nodes' = Nodes /\ Rows' = Rows /\ Runners' = Runners /\ GraphOK'
  BY SetsStay DEF CancelRead, CancelJob, CancelRuns, CancelWrite, CancelAbort, Typed, GraphOK
<1>1. /\ row' \in Rows /\ row'.st.approved \subseteq consent
  <2>1. CASE row' = row
    BY <2>1, KnownTypes, KnownConsent
  <2>2. CASE Save(cancel.rec, CancelledState(cancel.rec.st), "cancelled")
    <3>1. cancel.rec \in Rows /\ cancel.rec.st \in States /\ cancel.rec.st.approved \subseteq consent
      BY DEF Typed, AutomationTypeOK, ConsentIsKept, Rows
    <3>2. /\ CancelledState(cancel.rec.st) \in States
          /\ CancelledState(cancel.rec.st).approved = cancel.rec.st.approved
      BY <3>1, CancelledTypes
    <3>3. QED
      BY <2>2, <3>1, <3>2, RowIsSaved DEF Over
  <2>3. QED
    BY <2>1, <2>2 DEF CancelRead, CancelJob, CancelRuns, CancelWrite, CancelAbort, durable
<1>2. /\ cancel' \in [pc : { "idle", "job", "runs", "write", "abort" }, rec : Rows]
      /\ cancel'.rec.st.approved \subseteq consent
  BY KnownTypes, KnownConsent, IdleTypes
     DEF CancelRead, CancelJob, CancelRuns, CancelWrite, CancelAbort, NoCancel, Typed, AutomationTypeOK, ConsentIsKept
<1>3. /\ runner' \in [Slots -> Runners]
      /\ \A s \in Slots : /\ runner'[s].pc = runner[s].pc /\ runner'[s].rec = runner[s].rec
                          /\ runner'[s].st = runner[s].st /\ runner'[s].node = runner[s].node
  <2>1. CASE runner' = runner
    BY <2>1, KnownTypes
  <2>2. CASE runner' = [s \in Slots |-> IF runner[s].tracked /\ runner[s].pc \in Executing
                                        THEN [runner[s] EXCEPT !.aborted = TRUE] ELSE runner[s]]
    BY <2>2, KnownTypes, GoAborted
  <2>3. QED
    BY <2>1, <2>2 DEF CancelRead, CancelJob, CancelRuns, CancelWrite, CancelAbort
<1>4. ServicesTypeOK'
  <2>0. ServicesTypeOK
    BY DEF Typed, AutomationTypeOK, ServicesTypeOK
  <2>1. jobs' \in [Jobs -> JobStates]
    <3>1. CASE jobs' = jobs
      BY <2>0, <3>1 DEF ServicesTypeOK
    <3>2. CASE jobs' = [jobs EXCEPT ![cancel.rec.job].state = IF IsLive(cancel.rec.job) THEN "cancelled" ELSE @]
      <4>1. jobs' = [jobs EXCEPT ![cancel.rec.job].state = "cancelled"] \/ jobs' = jobs
        BY <2>0, <3>2 DEF ServicesTypeOK, JobStates
      <4>2. "cancelled" \in { "none", "created", "active" } \cup Over
        BY DEF Over
      <4>3. QED
        BY <2>0, <4>1, <4>2, JobPatches DEF ServicesTypeOK
    <3>3. QED
      BY <3>1, <3>2 DEF CancelRead, CancelJob, CancelRuns, CancelWrite, CancelAbort, durable
  <2>2. agentRun' \in AgentStatuses
    BY <2>0, EndsTypes DEF CancelRead, CancelJob, CancelRuns, CancelWrite, CancelAbort, ServicesTypeOK
  <2>3. orchs' \in [OrchIds -> { "none", "running", "waiting_approval" } \cup Over]
    BY <2>0, EndsTypes DEF CancelRead, CancelJob, CancelRuns, CancelWrite, CancelAbort,
         ServicesTypeOK, durable, Over
  <2>4. registry' \in { "none", "running", "cancelled", "ended" } /\ UNCHANGED << task, worker, acted >>
    BY <2>0 DEF CancelRead, CancelJob, CancelRuns, CancelWrite, CancelAbort, ServicesTypeOK, durable,
         history
  <2>5. QED
    BY <1>0, <2>0, <2>1, <2>2, <2>3, <2>4 DEF ServicesTypeOK
<1>5. UNCHANGED << answer, sending, boot, phase, acted, consent, crashes >>
  BY DEF CancelRead, CancelJob, CancelRuns, CancelWrite, CancelAbort, history
<1>6. AutomationTypeOK'
  BY <1>0, <1>1, <1>2, <1>3, <1>4, <1>5 DEF Typed, AutomationTypeOK, ServicesTypeOK
<1>7. ConsentIsKept'
  BY <1>0, <1>1, <1>2, <1>3, <1>5 DEF Typed, ConsentIsKept, ActsWithConsent
<1>8. QED
  BY <1>0, <1>6, <1>7 DEF Typed

LEMMA QueueKeepsTyped ==
  ASSUME Typed, Forget \/ Reconcile \/ \E j \in Jobs : Send(j) \/ Expire(j)
  PROVE  Typed'
<1>0. /\ graph' = graph /\ Nodes' = Nodes /\ Rows' = Rows /\ Runners' = Runners /\ GraphOK'
      /\ ServicesTypeOK
  BY SetsStay DEF Forget, Reconcile, Send, Expire, Rest, Typed, GraphOK, AutomationTypeOK,
       ServicesTypeOK
<1>1. row' \in Rows /\ row'.st = row.st
  <2>1. row' = row \/ row' = [row EXCEPT !.status = "failed"]
    BY DEF Forget, Reconcile, Send, Expire, Rest, Dispatch, FailQueued, durable
  <2>2. row \in Rows
    BY KnownTypes
  <2>3. QED
    BY <2>1, <2>2 DEF Rows, Over
<1>2. jobs' \in [Jobs -> JobStates]
  <2>1. \/ jobs' = jobs
        \/ \E j \in Jobs \cup {0} : \/ jobs' = [jobs EXCEPT ![j] = Retried(@)]
                                    \/ jobs' = [jobs EXCEPT ![j].state = IF @ = "none" THEN "created" ELSE @]
    BY DEF Forget, Reconcile, Send, Expire, Rest, Dispatch, Enqueue, durable, Typed, AutomationTypeOK
  <2>2. ASSUME NEW j \in Jobs \cup {0}, jobs' = [jobs EXCEPT ![j].state = IF @ = "none" THEN "created" ELSE @]
        PROVE  jobs' = [jobs EXCEPT ![j].state = "created"] \/ jobs' = jobs
    BY <1>0, <2>2 DEF ServicesTypeOK, JobStates
  <2>3. jobs \in [Jobs -> JobStates]
    BY <1>0 DEF ServicesTypeOK
  <2>4. PICK j \in Jobs \cup {0} : \/ jobs' = jobs
                                 \/ jobs' = [jobs EXCEPT ![j] = Retried(@)]
                                 \/ jobs' = [jobs EXCEPT ![j].state = "created"]
    BY <2>1, <2>2
  <2>5. QED
    BY <2>3, <2>4, JobPatches
<1>3. ServicesTypeOK'
  <2>1. UNCHANGED << task, orchs, agentRun, acted >> /\ worker' \in { worker, 0 }
        /\ registry' \in { registry, "none" }
    BY DEF Forget, Reconcile, Send, Expire, Rest, durable, history
  <2>2. QED
    BY <1>0, <1>2, <2>1 DEF ServicesTypeOK
<1>4. /\ UNCHANGED << runner, cancel, answer, acted, consent, crashes >> /\ sending' \subseteq sending
      /\ boot' \in { boot, 0 } /\ phase' \in { phase, "scheduling" }
  BY DEF Forget, Reconcile, Send, Expire, Rest, requests, durable, history
<1>5. AutomationTypeOK'
  BY <1>0, <1>1, <1>3, <1>4 DEF Typed, AutomationTypeOK, ServicesTypeOK
<1>6. ConsentIsKept'
  BY <1>0, <1>1, <1>4 DEF Typed, ConsentIsKept, ActsWithConsent
<1>7. QED
  BY <1>0, <1>5, <1>6 DEF Typed

LEMMA ScheduleKeepsTyped ==
  ASSUME Typed, ChangeDefinition \/ ReconcileSchedules
  PROVE  Typed'
<1>0. /\ graph' = graph /\ Nodes' = Nodes /\ Rows' = Rows /\ Runners' = Runners /\ GraphOK'
      /\ ServicesTypeOK
      /\ UNCHANGED << row, orchs, agentRun, worker, runner, registry, cancel, answer, sending, boot,
                      acted, consent, crashes >>
  BY SetsStay DEF ChangeDefinition, ReconcileSchedules, requests, history, Typed, GraphOK,
       AutomationTypeOK, ServicesTypeOK
<1>1. jobs' \in [Jobs -> JobStates]
  <2>1. jobs' = jobs \/ jobs' = [jobs EXCEPT ![1].state = IF IsLive(1) THEN "cancelled" ELSE @]
    BY DEF ChangeDefinition, ReconcileSchedules, CancelScheduledJob
  <2>2. jobs' = jobs \/ jobs' = [jobs EXCEPT ![1].state = "cancelled"]
    BY <1>0, <2>1 DEF ServicesTypeOK, JobStates
  <2>3. "cancelled" \in { "none", "created", "active" } \cup Over
    BY DEF Over
  <2>4. QED
    BY <1>0, <2>2, <2>3, JobPatches DEF ServicesTypeOK
<1>2. task' \in TaskStatuses /\ phase' \in { phase, "up" }
  BY <1>0 DEF ChangeDefinition, DisableDefinition, PublishDefinition, ReconcileSchedules,
       ServicesTypeOK, TaskStatuses
<1>3. AutomationTypeOK'
  BY <1>0, <1>1, <1>2 DEF Typed, AutomationTypeOK
<1>4. ConsentIsKept'
  BY <1>0 DEF Typed, ConsentIsKept, ActsWithConsent
<1>5. QED
  BY <1>0, <1>3, <1>4 DEF Typed

LEMMA ProcessKeepsTyped ==
  ASSUME Typed, \/ Crash \/ Boot
                \/ \E u \in Responders : \E d \in { "approved", "rejected" } : AnswerRead(u, d)
  PROVE  Typed'
<1>0. /\ graph' = graph /\ Nodes' = Nodes /\ Rows' = Rows /\ Runners' = Runners /\ GraphOK'
      /\ UNCHANGED << row, task, orchs, jobs, acted, consent >>
  BY SetsStay DEF Crash, Boot, AnswerRead, durable, history, Typed, GraphOK
<1>1. CASE Crash
  <2>1. AutomationTypeOK'
    <3>1. crashes' \in 0..MaxCrashes
      BY <1>1, QueueLimits DEF Crash, Typed, AutomationTypeOK
    <3>2. /\ runner' \in [Slots -> Runners] /\ cancel'.rec = NoRow(graph)
          /\ cancel' \in [pc : { "idle", "job", "runs", "write", "abort" }, rec : Rows]
          /\ answer' \in [Responders -> [ pc : { "idle", "write" }, rec : Rows,
                                          decision : { "none", "approved", "rejected" } ]]
      BY <1>1, IdleTypes DEF Crash, NoCancel
    <3>3. /\ worker' = 0 /\ registry' = "none" /\ agentRun' \in { agentRun, "ended" }
          /\ sending' = {} /\ boot' = 0 /\ phase' = "down"
      BY <1>1 DEF Crash
    <3>4. QED
      BY <1>0, <3>1, <3>2, <3>3 DEF Typed, AutomationTypeOK, AgentStatuses
  <2>2. ConsentIsKept'
    BY <1>0, <1>1, IdleTypes DEF Crash, NoCancel, Typed, ConsentIsKept, ActsWithConsent, AgentPcs,
         NodePcs
  <2>3. QED
    BY <1>0, <2>1, <2>2 DEF Typed
<1>2. CASE Boot
  <2>1. row.job \in Jobs \cup {0}
    BY KnownTypes DEF Rows
  <2>2. AutomationTypeOK'
    BY <1>0, <1>2, <2>1 DEF Boot, Typed, AutomationTypeOK, history
  <2>3. ConsentIsKept'
    BY <1>0, <1>2 DEF Boot, Typed, ConsentIsKept, ActsWithConsent
  <2>4. QED
    BY <1>0, <2>2, <2>3 DEF Typed
<1>3. ASSUME NEW u \in Responders, NEW d \in { "approved", "rejected" }, AnswerRead(u, d)
      PROVE  Typed'
  <2>1. AutomationTypeOK'
    BY <1>0, <1>3 DEF AnswerRead, Typed, AutomationTypeOK, history
  <2>2. ConsentIsKept'
    BY <1>0, <1>3 DEF AnswerRead, Typed, ConsentIsKept, AutomationTypeOK, ActsWithConsent
  <2>3. QED
    BY <1>0, <2>1, <2>2 DEF Typed
<1>4. QED
  BY <1>1, <1>2, <1>3

LEMMA StepsKeepTyped ==
  ASSUME Typed, [NextAutomation]_autVars
  PROVE  Typed'
<1>1. CASE \E s \in Slots : Runs(s) \/ TimesOut(s)
  BY <1>1, RunsKeepTyped
<1>2. CASE \E j \in Jobs : Expire(j)
  BY <1>2, QueueKeepsTyped
<1>3. CASE Forget \/ Reconcile
  BY <1>3, QueueKeepsTyped
<1>4. CASE Crash \/ Boot
  BY <1>4, ProcessKeepsTyped
<1>5. CASE Requests
  BY <1>5, QueueKeepsTyped, ProcessKeepsTyped, CancelKeepsTyped, AnswerKeepsTyped DEF Requests
<1>6. CASE ChangeDefinition \/ ReconcileSchedules
  BY <1>6, ScheduleKeepsTyped
<1>7. CASE UNCHANGED autVars
  <2>1. /\ UNCHANGED << graph, row, task, orchs, jobs, agentRun, worker, runner, registry, cancel, answer, sending,
                         boot, phase, acted, consent, crashes >>
        /\ Nodes' = Nodes /\ Rows' = Rows /\ Runners' = Runners /\ GraphOK'
    BY <1>7, SetsStay DEF autVars, durable, requests, history, Typed, GraphOK
  <2>2. QED
    BY <2>1 DEF Typed, AutomationTypeOK, ConsentIsKept, ActsWithConsent
<1>8. QED
  BY <1>1, <1>2, <1>3, <1>4, <1>5, <1>6, <1>7 DEF NextAutomation

LEMMA InitIsTyped ==
  ASSUME InitAutomation
  PROVE  Typed
<1>1. PICK g \in Graphs : ValidGraph(g) /\ graph = Compiled(g)
  BY DEF InitAutomation
<1>2. /\ graph.type = g.type /\ graph.asks = g.asks /\ graph.order = TopologicalOrder(g)
      /\ graph.retried = g.retried /\ graph.reads = g.reads /\ Nodes = NodesOf(g)
  BY <1>1 DEF Compiled, Nodes, NodesOf
<1>3. GraphOK
  <2>1. IsFiniteSet(Nodes) /\ Nodes \subseteq Nat \ {0}
    BY <1>2, GraphsAreFinite
  <2>2. Len(graph.order) \in Nat
    BY <1>1, <1>2, <2>1, FS_CardinalityType DEF ValidGraph
  <2>3. graph.asks \subseteq OfType(graph, "tool")
    BY <1>2, GraphsAreFinite DEF OfType, NodesOf
  <2>4. graph.retried \subseteq graph.reads
    BY <1>1, <1>2 DEF ValidGraph
  <2>5. QED
    BY <2>1, <2>2, <2>3, <2>4 DEF GraphOK
<1>4. row \in Rows /\ row.st = Fresh(graph)
  <2>1. 1 \in Jobs
    BY QueueLimits DEF Jobs
  <2>2. QED
    BY <2>1, IdleTypes DEF InitAutomation, Rows
<1>5. jobs \in [Jobs -> JobStates] /\ sending \subseteq Jobs
  <2>1. 1 \in Jobs /\ RetryLimit \in Nat
    BY QueueLimits DEF Jobs
  <2>2. QED
    BY <2>1 DEF InitAutomation, JobStates
<1>6. AutomationTypeOK
  <2>1. /\ runner \in [Slots -> Runners] /\ cancel \in [pc : { "idle", "job", "runs", "write", "abort" }, rec : Rows]
        /\ answer \in [Responders -> [ pc : { "idle", "write" }, rec : Rows,
                                       decision : { "none", "approved", "rejected" } ]]
    BY IdleTypes DEF InitAutomation
  <2>2. crashes \in 0..MaxCrashes
    BY QueueLimits DEF InitAutomation
  <2>3. QED
    BY <1>4, <1>5, <2>1, <2>2 DEF InitAutomation, AutomationTypeOK, TaskStatuses, AgentStatuses
<1>7. ConsentIsKept
  BY <1>3, <1>4, IdleTypes DEF InitAutomation, ConsentIsKept, ActsWithConsent, AgentPcs, NodePcs,
       GraphOK, OfType, Nodes
<1>8. QED
  BY <1>3, <1>6, <1>7 DEF Typed

(* The row, the jobs, the deliveries and the requests keep their types, for  *)
(* any graphs, any limits of the queue, and handlers that outlive their job. *)
THEOREM AutomationTypes == SpecAutomation => []AutomationTypeOK
<1>1. Typed => AutomationTypeOK
  BY DEF Typed
<1>2. QED
  BY <1>1, InitIsTyped, StepsKeepTyped, PTL DEF SpecAutomation

(* No tool that asks for approval acts before a user approved its node:      *)
(* executeNode of automationRunner.ts and respondApproval of                 *)
(* scheduledTaskService.ts, over crashes, retries and stale writers.         *)
THEOREM ToolsActWithConsent == SpecAutomation => []ActsWithConsent
<1>1. Typed => ActsWithConsent
  BY DEF Typed, ConsentIsKept
<1>2. QED
  BY <1>1, InitIsTyped, StepsKeepTyped, PTL DEF SpecAutomation

-------------------------------------------------------------------------------
(* With one delivery at a time - handlers end before their job expires, and  *)
(* an answer is written before the queue delivers again - a run is sound.    *)
OneDelivery == ~LongRuns /\ ~SlowAnswers

Working == Executing \ { "orchestrate", "enter", "paused" }
Resting == { "idle", "paused", "returned", "threw" }
Acting == { "act", "agent_write", "agent_start" }

(* What the deliveries and the cancellation expect of the row when they      *)
(* write it, and what it is meanwhile.                                       *)
WritersExpect ==
  LET r == runner[1]
  IN /\ r.pc \in Working => row.status \in { "running", "cancelled" }
     /\ r.pc \in Working \ { "loop" } => r.rec.status = "running"
     /\ r.pc \in { "authorize", "orchestrate", "enter" } => r.rec.status \in { "queued", "running" }
     /\ r.pc = "fail_write" => r.rec.status \notin { "none", "cancelled", "completed" }
     /\ row.status = "waiting_approval" => r.pc \in Resting
     /\ cancel.pc \in { "job", "runs", "write" } => cancel.rec.status \in { "queued", "running", "waiting_approval" }
     /\ row.status = "cancelled" => cancel.pc \in { "idle", "abort" }
     /\ cancel.pc = "abort" => row.status = "cancelled"

(* A cancellation reaches the delivery at work and the run of its agent.     *)
CancelReaches ==
  LET r == runner[1]
  IN /\ r.pc \in Executing => r.tracked /\ registry \in { "running", "cancelled" }
     /\ registry = "cancelled" => row.status = "cancelled" /\ (r.pc \in Executing => r.aborted)
     /\ row.status = "cancelled" /\ cancel.pc = "idle" /\ r.pc \in Working => r.aborted
     /\ agentRun = "active" => r.pc = "agent_wait" /\ registry # "cancelled"
     /\ row.status = "cancelled" /\ cancel.pc = "idle" => agentRun # "active"

(* A state that may still be written never offers a node that has acted.     *)
Clean(st) ==
  /\ \A n \in Nodes : st.nodes[n] \in { "pending", "waiting_approval" } => acted[n] = 0
  /\ st.pending.answer = "pending" => acted[st.pending.node] = 0
StatesAreClean ==
  LET r == runner[1]
  IN /\ Clean(row.st)
     /\ row.status = "none" => \A n \in Nodes : acted[n] = 0
     /\ r.pc \in Executing \cup { "authorize" } => Clean(r.st)
     /\ r.pc \in { "authorize", "fail_write" } => Clean(r.rec.st)
     /\ \A u \in Responders : answer[u].pc = "write" => Clean(answer[u].rec.st) /\ r.pc \in Resting
     /\ r.pc \in Acting \cup { "node" } => acted[r.node] = 0 /\ r.st.pending.answer # "pending"
     /\ r.pc \in Acting => /\ r.st.nodes[r.node] = "running"
                           /\ row.st.nodes[r.node] \notin { "pending", "waiting_approval" }
                           /\ row.st.pending.answer # "pending"
     /\ ActsOnce

Sound == OneDelivery /\ Typed /\ WritersExpect /\ CancelReaches /\ StatesAreClean

LEMMA OneSlot ==
  ASSUME OneDelivery
  PROVE  1 \in Slots /\ \A s \in Slots : s = 1
BY DEF OneDelivery, Slots

LEMMA OthersDoNotAct ==
  ASSUME NEW s \in Slots, Runs(s) \/ TimesOut(s)
  PROVE  /\ ActTool(s) \/ StartAgent(s) \/ acted' = acted
         /\ agentRun' # "active" \/ agentRun' = agentRun \/ runner[s].pc = "agent_start"
<1>1. CASE Deliver(s)
  BY <1>1 DEF Deliver, EndAgent, durable, history, Rest
<1>2. CASE Finish(s)
  BY <1>2 DEF Finish, EndAgent, durable, history, Rest
<1>3. CASE Authorize(s)
  BY <1>3 DEF Authorize, EndAgent, durable, history, Rest
<1>4. CASE Orchestrate(s)
  BY <1>4 DEF Orchestrate, EndAgent, durable, history, Rest
<1>5. CASE Enter(s)
  BY <1>5 DEF Enter, EndAgent, durable, history, Rest
<1>6. CASE LoopAborted(s)
  BY <1>6 DEF LoopAborted, EndAgent, durable, history, Rest
<1>7. CASE LoopCancelled(s)
  BY <1>7 DEF LoopCancelled, EndAgent, durable, history, Rest
<1>8. CASE LoopNext(s)
  BY <1>8 DEF LoopNext, EndAgent, durable, history, Rest
<1>9. CASE StartNode(s)
  BY <1>9 DEF StartNode, EndAgent, durable, history, Rest
<1>10. CASE ActPure(s)
  BY <1>10 DEF ActPure, EndAgent, durable, history, Rest
<1>11. CASE ActApproval(s)
  BY <1>11 DEF ActApproval, EndAgent, durable, history, Rest
<1>12. CASE ActTool(s)
  BY <1>12 DEF ActTool, EndAgent, durable, history, Rest
<1>13. CASE ActAgent(s)
  BY <1>13 DEF ActAgent, EndAgent, durable, history, Rest
<1>14. CASE AgentWritten(s)
  BY <1>14 DEF AgentWritten, EndAgent, durable, history, Rest
<1>15. CASE StartAgent(s)
  <2>1. runner[s].pc = "agent_start"
    BY <1>15 DEF StartAgent
  <2>2. QED
    BY <1>15, <2>1
<1>16. CASE AgentEnds(s)
  BY <1>16 DEF AgentEnds, EndAgent, durable, history, Rest
<1>17. CASE Write(s)
  BY <1>17 DEF Write, EndAgent, durable, history, Rest
<1>18. CASE Paused(s)
  BY <1>18 DEF Paused, EndAgent, durable, history, Rest
<1>19. CASE CompleteOrch(s)
  BY <1>19 DEF CompleteOrch, EndAgent, durable, history, Rest
<1>20. CASE CompleteRow(s)
  BY <1>20 DEF CompleteRow, EndAgent, durable, history, Rest
<1>21. CASE FailReads(s)
  BY <1>21 DEF FailReads, EndAgent, durable, history, Rest
<1>22. CASE FailWrites(s)
  BY <1>22 DEF FailWrites, EndAgent, durable, history, Rest
<1>23. CASE TimesOut(s)
  BY <1>23 DEF TimesOut, EndAgent, durable, history, Rest
<1>24. QED
  BY <1>1, <1>2, <1>3, <1>4, <1>5, <1>6, <1>7, <1>8, <1>9, <1>10, <1>11, <1>12, <1>13, <1>14, <1>15,
       <1>16, <1>17, <1>18, <1>19, <1>20, <1>21, <1>22, <1>23 DEF Runs

LEMMA NodeOutcome ==
  ASSUME Typed, NEW s \in Slots
  PROVE  /\ (\E ports \in SUBSET PortNames : Complete(s, ports)) => Moves(s, "write", runner[s].rec, runner'[s].st)
         /\ Pause(s) /\ runner[s].node \in Nodes => Moves(s, "write", runner[s].rec, runner'[s].st)
         /\ NodeFails(s) =>
              \/ Moves(s, "write", runner[s].rec, runner'[s].st) /\ row' = row /\ registry' = registry
              \/ /\ Moves(s, "failing", runner[s].rec, runner[s].st) /\ Ends(s)
                 /\ row' = row \/ (Wins(s) /\ row'.status = "failed")
<1>1. (\E ports \in SUBSET PortNames : Complete(s, ports)) => Moves(s, "write", runner[s].rec, runner'[s].st)
  BY NodeCompletes
<1>2. Pause(s) /\ runner[s].node \in Nodes => Moves(s, "write", runner[s].rec, runner'[s].st)
  BY NodePauses
<1>3. NodeFails(s) =>
        \/ Moves(s, "write", runner[s].rec, runner'[s].st) /\ row' = row /\ registry' = registry
        \/ /\ Moves(s, "failing", runner[s].rec, runner[s].st) /\ Ends(s)
           /\ row' = row \/ (Wins(s) /\ row'.status = "failed")
  BY NodeThrows
<1>4. QED
  BY <1>1, <1>2, <1>3

LEMMA RunsExpect ==
  ASSUME Sound, Runs(1) \/ TimesOut(1)
  PROVE  WritersExpect' /\ (row.status \in Over => row'.status = row.status)
<1>0. /\ Typed /\ 1 \in Slots /\ WritersExpect /\ cancel' = cancel /\ StatesAreClean
      /\ runner[1].pc \in NodePcs => runner[1].node \in Nodes
  BY OneSlot, RunsBystand, KnownConsent DEF Sound, Bystands
<1>1. CASE Deliver(1)
  BY <1>0, <1>1, DeliverMoves DEF WritersExpect, Working, Executing, Resting, Over
<1>2. CASE Finish(1)
  BY <1>0, <1>2, FinishMoves, IdleTypes DEF WritersExpect, Working, Executing, Resting, Over
<1>3. CASE Authorize(1)
  BY <1>0, <1>3, AuthorizeMoves DEF WritersExpect, Working, Executing, Resting, Over
<1>4. CASE Orchestrate(1)
  BY <1>0, <1>4, OrchestrateMoves DEF WritersExpect, Working, Executing, Resting, Over, Moves, Wins
<1>5. CASE Enter(1)
  BY <1>0, <1>5, EnterMoves DEF WritersExpect, Working, Executing, Resting, Over, Moves, Wins
<1>6. CASE LoopAborted(1)
  BY <1>0, <1>6, LoopAbortedMoves DEF WritersExpect, Working, Executing, Resting, Over, Moves, Wins
<1>7. CASE LoopCancelled(1)
  BY <1>0, <1>7, LoopCancelledMoves DEF WritersExpect, Working, Executing, Resting, Over, Moves, Wins
<1>8. CASE LoopNext(1)
  BY <1>0, <1>8, LoopNextMoves DEF WritersExpect, Working, Executing, Resting, Over
<1>9. CASE StartNode(1)
  BY <1>0, <1>9, StartNodeMoves DEF WritersExpect, Working, Executing, Resting, Over, Moves, Wins
<1>10. CASE ActPure(1)
  BY <1>0, <1>10, ActPureMoves, NodeOutcome DEF WritersExpect, Working, Executing, Resting, Over,
       Moves, Wins, NodePcs
<1>11. CASE ActApproval(1)
  BY <1>0, <1>11, ActApprovalMoves, NodeOutcome DEF WritersExpect, Working, Executing, Resting, Over,
       Moves, Wins, NodePcs
<1>12. CASE ActTool(1)
  BY <1>0, <1>12, ActToolMoves, NodeOutcome DEF WritersExpect, Working, Executing, Resting, Over,
       Moves, Wins, NodePcs
<1>13. CASE ActAgent(1)
  BY <1>0, <1>13, ActAgentMoves, NodeOutcome DEF WritersExpect, Working, Executing, Resting, Over,
       Moves, Wins, NodePcs
<1>14. CASE AgentWritten(1)
  BY <1>0, <1>14, AgentWrittenMoves, NodeOutcome DEF WritersExpect, Working, Executing, Resting,
       Over, Moves, Wins, NodePcs
<1>15. CASE StartAgent(1)
  BY <1>0, <1>15, StartAgentMoves, NodeOutcome DEF WritersExpect, Working, Executing, Resting, Over,
       Moves, Wins, NodePcs
<1>16. CASE AgentEnds(1)
  BY <1>0, <1>16, AgentEndsMoves, NodeOutcome DEF WritersExpect, Working, Executing, Resting, Over,
       Moves, Wins, NodePcs, PortNames
<1>17. CASE Write(1)
  BY <1>0, <1>17, WriteMoves DEF WritersExpect, Working, Executing, Resting, Over, Moves, Wins
<1>18. CASE Paused(1)
  BY <1>0, <1>18, PausedMoves DEF WritersExpect, Working, Executing, Resting, Over, Moves, Wins
<1>19. CASE CompleteOrch(1)
  BY <1>0, <1>19, CompleteOrchMoves DEF WritersExpect, Working, Executing, Resting, Over, Moves, Wins
<1>20. CASE CompleteRow(1)
  BY <1>0, <1>20, CompleteRowMoves DEF WritersExpect, Working, Executing, Resting, Over, Moves, Wins
<1>21. CASE FailReads(1)
  BY <1>0, <1>21, FailReadsMoves DEF WritersExpect, Working, Executing, Resting, Over, Moves, Wins
<1>22. CASE FailWrites(1)
  BY <1>0, <1>22, FailWritesMoves DEF WritersExpect, Working, Executing, Resting, Over, Moves, Wins
<1>23. CASE TimesOut(1)
  BY <1>0, <1>23, TimesOutMoves DEF WritersExpect, Working, Executing, Resting, Over
<1>24. QED
  BY <1>1, <1>2, <1>3, <1>4, <1>5, <1>6, <1>7, <1>8, <1>9, <1>10, <1>11, <1>12, <1>13, <1>14, <1>15,
       <1>16, <1>17, <1>18, <1>19, <1>20, <1>21, <1>22, <1>23 DEF Runs

LEMMA RunsAreReached ==
  ASSUME Sound, Runs(1) \/ TimesOut(1)
  PROVE  CancelReaches'
<1>0. /\ Typed /\ 1 \in Slots /\ WritersExpect /\ CancelReaches /\ cancel' = cancel
      /\ runner[1].pc \in NodePcs => runner[1].node \in Nodes
      /\ agentRun' # "active" \/ agentRun' = agentRun \/ runner[1].pc = "agent_start"
  BY OneSlot, RunsBystand, KnownConsent, OthersDoNotAct DEF Sound, Bystands
<1>99. /\ WritersExpect'
       /\ row.status \in Over => row'.status = row.status
  BY RunsExpect
<1>1. CASE Deliver(1)
  BY <1>0, <1>99, <1>1, DeliverMoves DEF WritersExpect, CancelReaches, Working, Executing, Over, Ends
<1>2. CASE Finish(1)
  BY <1>0, <1>99, <1>2, FinishMoves, IdleTypes DEF WritersExpect, CancelReaches, Working, Executing,
       Over, Ends
<1>3. CASE Authorize(1)
  BY <1>0, <1>99, <1>3, AuthorizeMoves DEF WritersExpect, CancelReaches, Working, Executing, Over, Ends
<1>4. CASE Orchestrate(1)
  BY <1>0, <1>99, <1>4, OrchestrateMoves DEF WritersExpect, CancelReaches, Working, Executing, Over,
       Moves, Wins, Ends
<1>5. CASE Enter(1)
  BY <1>0, <1>99, <1>5, EnterMoves DEF WritersExpect, CancelReaches, Working, Executing, Over, Moves,
       Wins, Ends
<1>6. CASE LoopAborted(1)
  BY <1>0, <1>99, <1>6, LoopAbortedMoves DEF WritersExpect, CancelReaches, Working, Executing, Over,
       Moves, Wins, Ends
<1>7. CASE LoopCancelled(1)
  BY <1>0, <1>99, <1>7, LoopCancelledMoves DEF WritersExpect, CancelReaches, Working, Executing,
       Over, Moves, Wins, Ends
<1>8. CASE LoopNext(1)
  BY <1>0, <1>99, <1>8, LoopNextMoves DEF WritersExpect, CancelReaches, Working, Executing, Over, Ends
<1>9. CASE StartNode(1)
  BY <1>0, <1>99, <1>9, StartNodeMoves DEF WritersExpect, CancelReaches, Working, Executing, Over,
       Moves, Wins, Ends
<1>10. CASE ActPure(1)
  BY <1>0, <1>99, <1>10, ActPureMoves, NodeOutcome DEF WritersExpect, CancelReaches, Working,
       Executing, Over, Moves, Wins, NodePcs, Ends
<1>11. CASE ActApproval(1)
  BY <1>0, <1>99, <1>11, ActApprovalMoves, NodeOutcome DEF WritersExpect, CancelReaches, Working,
       Executing, Over, Moves, Wins, NodePcs, Ends
<1>12. CASE ActTool(1)
  BY <1>0, <1>99, <1>12, ActToolMoves, NodeOutcome DEF WritersExpect, CancelReaches, Working,
       Executing, Over, Moves, Wins, NodePcs, Ends
<1>13. CASE ActAgent(1)
  BY <1>0, <1>99, <1>13, ActAgentMoves, NodeOutcome DEF WritersExpect, CancelReaches, Working,
       Executing, Over, Moves, Wins, NodePcs, Ends
<1>14. CASE AgentWritten(1)
  BY <1>0, <1>99, <1>14, AgentWrittenMoves, NodeOutcome DEF WritersExpect, CancelReaches, Working,
       Executing, Over, Moves, Wins, NodePcs, Ends
<1>15. CASE StartAgent(1)
  BY <1>0, <1>99, <1>15, StartAgentMoves, NodeOutcome DEF WritersExpect, CancelReaches, Working,
       Executing, Over, Moves, Wins, NodePcs, Ends
<1>16. CASE AgentEnds(1)
  BY <1>0, <1>99, <1>16, AgentEndsMoves, NodeOutcome DEF WritersExpect, CancelReaches, Working,
       Executing, Over, Moves, Wins, NodePcs, Ends, PortNames
<1>17. CASE Write(1)
  BY <1>0, <1>99, <1>17, WriteMoves DEF WritersExpect, CancelReaches, Working, Executing, Over,
       Moves, Wins, Ends
<1>18. CASE Paused(1)
  BY <1>0, <1>99, <1>18, PausedMoves DEF WritersExpect, CancelReaches, Working, Executing, Over,
       Moves, Wins, Ends
<1>19. CASE CompleteOrch(1)
  BY <1>0, <1>99, <1>19, CompleteOrchMoves DEF WritersExpect, CancelReaches, Working, Executing,
       Over, Moves, Wins, Ends
<1>20. CASE CompleteRow(1)
  BY <1>0, <1>99, <1>20, CompleteRowMoves DEF WritersExpect, CancelReaches, Working, Executing, Over,
       Moves, Wins, Ends
<1>21. CASE FailReads(1)
  BY <1>0, <1>99, <1>21, FailReadsMoves DEF WritersExpect, CancelReaches, Working, Executing, Over,
       Moves, Wins, Ends
<1>22. CASE FailWrites(1)
  BY <1>0, <1>99, <1>22, FailWritesMoves DEF WritersExpect, CancelReaches, Working, Executing, Over,
       Moves, Wins, Ends
<1>23. CASE TimesOut(1)
  <2>1. agentRun' = agentRun
    BY <1>23 DEF TimesOut
  <2>2. QED
    BY <1>0, <1>99, <1>23, <2>1, TimesOutMoves DEF WritersExpect, CancelReaches, Working, Executing,
         Over, Ends
<1>24. QED
  BY <1>1, <1>2, <1>3, <1>4, <1>5, <1>6, <1>7, <1>8, <1>9, <1>10, <1>11, <1>12, <1>13, <1>14, <1>15,
       <1>16, <1>17, <1>18, <1>19, <1>20, <1>21, <1>22, <1>23 DEF Runs

(* Clean only looks at the statuses of the nodes and at the question asked.  *)
LEMMA CleanStates ==
  ASSUME Typed
  PROVE  /\ \A st, to : Clean(st) /\ to.nodes = st.nodes /\ to.pending \in { st.pending, NoPending } => Clean(to)
         /\ \A st \in States : \A to, n, x : Clean(st) /\ to.nodes = [st.nodes EXCEPT ![n] = x]
                 /\ x \notin { "pending", "waiting_approval" } /\ to.pending \in { st.pending, NoPending } => Clean(to)
         /\ \A st \in States : \A to : Clean(st) /\ to = FailInterrupted(st) => Clean(to)
         /\ \A st \in States : Clean(CancelledState(st))
<1>1. ASSUME NEW st, NEW to, Clean(st), to.nodes = st.nodes, to.pending \in { st.pending, NoPending }
      PROVE  Clean(to)
  BY <1>1 DEF Clean, NoPending
<1>2. ASSUME NEW st \in States, NEW to, NEW n, NEW x, Clean(st), to.nodes = [st.nodes EXCEPT ![n] = x],
             x \notin { "pending", "waiting_approval" }, to.pending \in { st.pending, NoPending }
      PROVE  Clean(to)
  BY <1>2 DEF Clean, NoPending, States
<1>3. ASSUME NEW st \in States, Clean(st)
      PROVE  Clean(FailInterrupted(st))
  BY <1>3, InterruptedTypes DEF Clean
<1>4. ASSUME NEW st \in States
      PROVE  Clean(CancelledState(st))
  BY <1>4, CancelledTypes DEF Clean, NoPending, Settled
<1>5. QED
  BY <1>1, <1>2, <1>3, <1>4

LEMMA SettledIsClean ==
  ASSUME Typed, NEW st \in States, Clean(st), NEW to, NEW n, NEW x, to.nodes = [st.nodes EXCEPT ![n] = x],
         x \notin { "pending", "waiting_approval" }, to.pending \in { st.pending, NoPending }
  PROVE  Clean(to)
BY CleanStates

LEMMA FreshIsClean ==
  ASSUME \A n \in Nodes : acted[n] = 0
  PROVE  Clean(Fresh(graph))
BY DEF Clean, Fresh, Nodes, NoPending

LEMMA KnownClean ==
  ASSUME Sound
  PROVE  /\ Typed /\ 1 \in Slots /\ WritersExpect /\ StatesAreClean
         /\ row \in Rows /\ row.st \in States /\ runner[1] \in Runners /\ runner[1].st \in States
         /\ runner[1].rec.st \in States /\ runner[1].node \in Nodes \cup {0}
         /\ runner[1].pc \in NodePcs => runner[1].node \in Nodes
BY OneSlot, KnownTypes, KnownConsent DEF Sound, Rows, Runners

(* What a step in which nothing acts leaves behind.                          *)
CleanStep ==
  /\ Clean(row'.st)
  /\ row'.status = "none" => \A n \in Nodes : acted[n] = 0
  /\ runner'[1].pc \in Executing \cup { "authorize" } => Clean(runner'[1].st)
  /\ runner'[1].pc \in { "authorize", "fail_write" } => Clean(runner'[1].rec.st)
  /\ \A u \in Responders : answer[u].pc = "write" => runner'[1].pc \in Resting
  /\ runner'[1].pc \in Acting \cup { "node" } => acted[runner'[1].node] = 0 /\ runner'[1].st.pending.answer # "pending"
  /\ runner'[1].pc \in Acting => /\ runner'[1].st.nodes[runner'[1].node] = "running"
                                 /\ row'.st.nodes[runner'[1].node] \notin { "pending", "waiting_approval" }
                                 /\ row'.st.pending.answer # "pending"

LEMMA CleanStepIsClean ==
  ASSUME StatesAreClean, CleanStep, Nodes' = Nodes, acted' = acted, answer' = answer
  PROVE  StatesAreClean'
BY DEF StatesAreClean, CleanStep, Clean, ActsOnce

LEMMA NodeIsClean ==
  ASSUME Sound, Clean(runner[1].st)
  PROVE  /\ NodeFails(1) =>
              \/ /\ Moves(1, "write", runner[1].rec, runner'[1].st) /\ row' = row
                 /\ Clean(runner'[1].st)
              \/ /\ Moves(1, "failing", runner[1].rec, runner[1].st)
                 /\ row' = row \/ (row'.status = "failed" /\ Clean(row'.st))
         /\ \A ports \in SUBSET PortNames : Complete(1, ports) =>
              Moves(1, "write", runner[1].rec, runner'[1].st) /\ Clean(runner'[1].st)
         /\ Pause(1) /\ runner[1].node \in Nodes /\ acted[runner[1].node] = 0 =>
              Moves(1, "write", runner[1].rec, runner'[1].st) /\ Clean(runner'[1].st)
<1> USE KnownClean
<1>1. ASSUME NEW to, NodeIsFailed(1, to) PROVE Clean(to)
  <2>1. to.nodes = [runner[1].st.nodes EXCEPT ![runner[1].node] = "failed"] /\ to.pending = runner[1].st.pending
    BY <1>1 DEF NodeIsFailed
  <2>2. QED
    BY <2>1, SettledIsClean
<1>2. NodeFails(1) =>
        \/ /\ Moves(1, "write", runner[1].rec, runner'[1].st) /\ row' = row
           /\ Clean(runner'[1].st)
        \/ /\ Moves(1, "failing", runner[1].rec, runner[1].st)
           /\ row' = row \/ (row'.status = "failed" /\ Clean(row'.st))
  BY <1>1, NodeThrows
<1>3. ASSUME NEW ports \in SUBSET PortNames, Complete(1, ports)
      PROVE  Moves(1, "write", runner[1].rec, runner'[1].st) /\ Clean(runner'[1].st)
  <2>1. /\ Moves(1, "write", runner[1].rec, runner'[1].st)
        /\ runner'[1].st.nodes = [runner[1].st.nodes EXCEPT ![runner[1].node] = "completed"]
        /\ runner'[1].st.pending \in { runner[1].st.pending, NoPending }
    BY <1>3, NodeCompletes
  <2> DEFINE to == runner'[1].st
  <2>2. /\ to.nodes = [runner[1].st.nodes EXCEPT ![runner[1].node] = "completed"]
        /\ to.pending \in { runner[1].st.pending, NoPending }
    BY <2>1
  <2> HIDE DEF to
  <2>3. Clean(to)
    BY <2>2 DEF Clean, NoPending, States
  <2>4. QED
    BY <2>1, <2>3 DEF to
<1>4. Pause(1) /\ runner[1].node \in Nodes /\ acted[runner[1].node] = 0 =>
        Moves(1, "write", runner[1].rec, runner'[1].st) /\ Clean(runner'[1].st)
  <2> SUFFICES ASSUME Pause(1), runner[1].node \in Nodes, acted[runner[1].node] = 0
               PROVE  Moves(1, "write", runner[1].rec, runner'[1].st) /\ Clean(runner'[1].st)
    OBVIOUS
  <2>1. /\ Moves(1, "write", runner[1].rec, runner'[1].st)
        /\ runner'[1].st.nodes = [runner[1].st.nodes EXCEPT ![runner[1].node] = "waiting_approval"]
        /\ runner'[1].st.pending = [node |-> runner[1].node, answer |-> "pending"]
    BY NodePauses
  <2>2. QED
    BY <2>1 DEF Clean, States
<1>5. QED
  BY <1>2, <1>3, <1>4

LEMMA RunsStepClean ==
  ASSUME Sound, Runs(1) \/ TimesOut(1), acted' = acted
  PROVE  CleanStep
<1> USE KnownClean
<1>1. CASE Deliver(1)
  <2>1. row' = row \/ (row.status = "none" /\ row'.st = Fresh(graph) /\ row'.status = "queued")
    BY <1>1, DeliverMoves
  <2>2. Clean(row'.st)
    BY <2>1, FreshIsClean DEF StatesAreClean
  <2>3. OneDelivery /\ \A u \in Responders : answer[u].pc # "write"
    BY <1>1, DeliverMoves DEF Sound, OneDelivery
  <2>4. QED
    BY <1>1, <2>1, <2>2, <2>3, DeliverMoves DEF StatesAreClean, CleanStep, WritersExpect, Working,
         Executing, Resting, Acting
<1>2. CASE Finish(1)
  BY <1>2, FinishMoves, IdleTypes DEF StatesAreClean, CleanStep, WritersExpect, Working, Executing,
       Resting, Acting
<1>3. CASE Authorize(1)
  BY <1>3, AuthorizeMoves, CleanStates DEF StatesAreClean, CleanStep, WritersExpect, Working,
       Executing, Resting, Acting
<1>4. CASE Orchestrate(1)
  BY <1>4, OrchestrateMoves, CleanStates DEF StatesAreClean, CleanStep, WritersExpect, Working,
       Executing, Resting, Acting, Moves
<1>5. CASE Enter(1)
  BY <1>5, EnterMoves DEF StatesAreClean, CleanStep, WritersExpect, Working, Executing, Resting,
       Acting, Moves
<1>6. CASE LoopAborted(1)
  BY <1>6, LoopAbortedMoves DEF StatesAreClean, CleanStep, WritersExpect, Working, Executing,
       Resting, Acting, Moves
<1>7. CASE LoopCancelled(1)
  BY <1>7, LoopCancelledMoves DEF StatesAreClean, CleanStep, WritersExpect, Working, Executing,
       Resting, Acting, Moves
<1>8. CASE LoopNext(1)
  <2>1. ASSUME NEW n \in Nodes, runner'[1].st.nodes = [row.st.nodes EXCEPT ![n] = "skipped"],
               runner'[1].st.pending \in { row.st.pending, NoPending }
        PROVE  Clean(runner'[1].st)
    BY <2>1, SettledIsClean DEF StatesAreClean
  <2>2. /\ row' = row /\ runner[1].pc = "loop" /\ runner'[1].pc \in { "returned", "stuck", "node", "write", "complete" }
        /\ runner'[1].pc = "node" => /\ runner'[1].st = row.st /\ runner'[1].node \in Nodes
                                     /\ row.st.nodes[runner'[1].node] = "pending" /\ row.st.pending.answer # "pending"
        /\ runner'[1].pc = "complete" => runner'[1].st = row.st
    BY <1>8, LoopNextMoves
  <2>3. runner'[1].pc = "write" => Clean(runner'[1].st)
    BY <1>8, <2>1, LoopNextMoves
  <2>4. QED
    BY <2>2, <2>3 DEF StatesAreClean, CleanStep, WritersExpect, Working, Executing, Resting, Acting,
         Clean
<1>9. CASE StartNode(1)
  <2> DEFINE st == [runner[1].st EXCEPT !.nodes[runner[1].node] = "running"]
  <2>1. st.nodes = [runner[1].st.nodes EXCEPT ![runner[1].node] = "running"] /\ st.pending = runner[1].st.pending
    BY OtherFieldsStay
  <2>2. /\ runner[1].pc = "node" /\ runner'[1].node = runner[1].node
        /\ \/ runner'[1].pc = "act" /\ row'.st = st /\ runner'[1].st = st /\ row'.status = "running"
           \/ runner'[1].pc = "failing" /\ row' = row
    BY <1>9, StartNodeMoves DEF Moves
  <2> HIDE DEF st
  <2>3. Clean(runner[1].st) => Clean(st)
    BY <2>1, SettledIsClean
  <2>4. runner[1].node \in Nodes => st.nodes[runner[1].node] = "running"
    BY <2>1 DEF States
  <2>5. QED
    BY <2>1, <2>2, <2>3, <2>4 DEF StatesAreClean, CleanStep, WritersExpect, Working, Executing,
         Resting, Acting, NodePcs
<1>10. CASE ActPure(1)
  BY <1>10, ActPureMoves, NodeIsClean DEF StatesAreClean, CleanStep, WritersExpect, Working,
       Executing, Resting, Acting, Moves, NodePcs, AgentPcs
<1>11. CASE ActApproval(1)
  BY <1>11, ActApprovalMoves, NodeIsClean DEF StatesAreClean, CleanStep, WritersExpect, Working,
       Executing, Resting, Acting, Moves, NodePcs, AgentPcs
<1>12. CASE ActTool(1)
  BY <1>12, ActToolMoves, NodeIsClean DEF StatesAreClean, CleanStep, WritersExpect, Working,
       Executing, Resting, Acting, Moves, NodePcs, AgentPcs
<1>13. CASE ActAgent(1)
  <2>1. ASSUME runner'[1].st.nodes = runner[1].st.nodes, runner'[1].st.pending = runner[1].st.pending,
               Clean(runner[1].st)
        PROVE  Clean(runner'[1].st)
    BY <2>1, CleanStates
  <2>0. runner[1].pc = "act" /\ Clean(runner[1].st)
    BY <1>13, ActAgentMoves DEF StatesAreClean, Executing
  <2>2. CASE NodeFails(1)
    BY <2>0, <2>2, NodeIsClean DEF StatesAreClean, CleanStep, WritersExpect, Working, Executing,
         Resting, Acting, Moves, NodePcs, AgentPcs
  <2>3. CASE /\ row' = row /\ Moves(1, "agent_write", runner[1].rec, runner'[1].st)
             /\ runner'[1].st.nodes = runner[1].st.nodes /\ runner'[1].st.pending = runner[1].st.pending
             /\ runner[1].pc = "act"
    BY <2>1, <2>3 DEF StatesAreClean, CleanStep, WritersExpect, Working, Executing, Resting, Acting,
         Moves
  <2>4. QED
    BY <1>13, <2>2, <2>3, ActAgentMoves
<1>14. CASE AgentWritten(1)
  BY <1>14, AgentWrittenMoves, NodeIsClean DEF StatesAreClean, CleanStep, WritersExpect, Working,
       Executing, Resting, Acting, Moves, NodePcs, AgentPcs
<1>15. CASE StartAgent(1)
  BY <1>15, StartAgentMoves, NodeIsClean DEF StatesAreClean, CleanStep, WritersExpect, Working,
       Executing, Resting, Acting, Moves, NodePcs, AgentPcs
<1>16. CASE AgentEnds(1)
  BY <1>16, AgentEndsMoves, NodeIsClean DEF StatesAreClean, CleanStep, WritersExpect, Working,
       Executing, Resting, Acting, Moves, NodePcs, AgentPcs, PortNames
<1>17. CASE Write(1)
  BY <1>17, WriteMoves DEF StatesAreClean, CleanStep, WritersExpect, Working, Executing, Resting,
       Acting, Moves
<1>18. CASE Paused(1)
  BY <1>18, PausedMoves DEF StatesAreClean, CleanStep, WritersExpect, Working, Executing, Resting,
       Acting, Moves
<1>19. CASE CompleteOrch(1)
  BY <1>19, CompleteOrchMoves DEF StatesAreClean, CleanStep, WritersExpect, Working, Executing,
       Resting, Acting, Moves
<1>20. CASE CompleteRow(1)
  <2> DEFINE st == [runner[1].st EXCEPT !.pending = NoPending]
  <2>1. st.nodes = runner[1].st.nodes /\ st.pending = NoPending
    BY OtherFieldsStay
  <2>2. /\ runner[1].pc = "finish" /\ runner'[1].pc \in { "returned", "failing" }
        /\ row' = row \/ (row'.st = st /\ row'.status = "completed")
        /\ runner'[1].pc = "failing" => row.status # runner[1].rec.status
    BY <1>20, CompleteRowMoves DEF Moves, Wins
  <2> HIDE DEF st
  <2>3. Clean(runner[1].st) => Clean(st)
    BY <2>1, CleanStates
  <2>4. QED
    BY <2>1, <2>2, <2>3 DEF StatesAreClean, CleanStep, WritersExpect, Working, Executing, Resting,
         Acting
<1>21. CASE FailReads(1)
  BY <1>21, FailReadsMoves DEF StatesAreClean, CleanStep, WritersExpect, Working, Executing, Resting,
       Acting, Moves
<1>22. CASE FailWrites(1)
  BY <1>22, FailWritesMoves DEF StatesAreClean, CleanStep, WritersExpect, Working, Executing,
       Resting, Acting, Moves
<1>23. CASE TimesOut(1)
  BY <1>23, TimesOutMoves DEF StatesAreClean, CleanStep, WritersExpect, Working, Executing, Resting,
       Acting
<1>24. QED
  BY <1>1, <1>2, <1>3, <1>4, <1>5, <1>6, <1>7, <1>8, <1>9, <1>10, <1>11, <1>12, <1>13, <1>14, <1>15,
       <1>16, <1>17, <1>18, <1>19, <1>20, <1>21, <1>22, <1>23 DEF Runs

(* The step in which a node acts leaves it running, and nowhere pending.     *)
LEMMA ActingIsClean ==
  ASSUME Sound, runner[1].pc \in Acting, acted' = [acted EXCEPT ![runner[1].node] = @ + 1],
         Nodes' = Nodes, answer' = answer, row'.status # "none",
         runner'[1].pc \in { "write", "failing", "agent_wait" },
         row' = row \/ (Clean(row'.st) /\ row'.st.nodes[runner[1].node] = "failed" /\ row'.st.pending = runner[1].st.pending),
         runner'[1].pc \in Executing => /\ Clean(runner'[1].st)
                                        /\ runner'[1].st.nodes[runner[1].node] \notin { "pending", "waiting_approval" }
                                        /\ runner'[1].st.pending.answer # "pending"
  PROVE  StatesAreClean'
<1> DEFINE k == runner[1].node
<1>0. /\ k \in Nodes /\ acted[k] = 0 /\ acted \in [Nodes -> Nat] /\ StatesAreClean /\ ActsOnce
      /\ \A u \in Responders : answer[u].pc # "write"
      /\ row.st.nodes[k] \notin { "pending", "waiting_approval" } /\ row.st.pending.answer # "pending"
      /\ runner[1].st.pending.answer # "pending" /\ Clean(row.st)
  BY KnownClean DEF Acting, NodePcs, AgentPcs, StatesAreClean, Typed, AutomationTypeOK, Resting
<1>1. acted' \in [Nodes -> Nat] /\ acted'[k] = 1 /\ \A n \in Nodes \ {k} : acted'[n] = acted[n]
  BY <1>0
<1>2. ActsOnce'
  BY <1>0, <1>1 DEF ActsOnce
<1> HIDE DEF k
<1>3. ASSUME NEW st, Clean(st), st.nodes[k] \notin { "pending", "waiting_approval" }, st.pending.answer # "pending"
      PROVE  \A n \in Nodes : st.nodes[n] \in { "pending", "waiting_approval" } => acted'[n] = 0
  BY <1>1, <1>3 DEF Clean
<1>4. Clean(row.st)' /\ row'.st.pending.answer # "pending"
  <2>1. /\ Clean(row'.st) /\ row'.st.nodes[k] \notin { "pending", "waiting_approval" }
        /\ row'.st.pending.answer # "pending"
    BY <1>0 DEF k
  <2> DEFINE st == row'.st
  <2>2. /\ Clean(st) /\ st.nodes[k] \notin { "pending", "waiting_approval" }
        /\ st.pending.answer # "pending"
    BY <2>1
  <2> HIDE DEF st
  <2>3. \A n \in Nodes : st.nodes[n] \in { "pending", "waiting_approval" } => acted'[n] = 0
    BY <1>3, <2>2
  <2>4. QED
    BY <2>2, <2>3 DEF Clean, st
<1>5. runner'[1].pc \in Executing => Clean(runner[1].st)'
  <2> SUFFICES ASSUME runner'[1].pc \in Executing PROVE Clean(runner[1].st)'
    OBVIOUS
  <2> DEFINE st == runner'[1].st
  <2>2. /\ Clean(st) /\ st.nodes[k] \notin { "pending", "waiting_approval" }
        /\ st.pending.answer # "pending"
    BY DEF k
  <2> HIDE DEF st
  <2>3. \A n \in Nodes : st.nodes[n] \in { "pending", "waiting_approval" } => acted'[n] = 0
    BY <1>3, <2>2
  <2>4. QED
    BY <2>2, <2>3 DEF Clean, st
<1>6. /\ runner'[1].pc \notin Acting \cup { "node", "authorize", "fail_write" }
      /\ \A u \in Responders : answer'[u].pc # "write"
  BY <1>0 DEF Acting
<1>7. QED
  BY <1>2, <1>4, <1>5, <1>6 DEF StatesAreClean

LEMMA RunsStayClean ==
  ASSUME Sound, Runs(1) \/ TimesOut(1)
  PROVE  StatesAreClean'
<1> USE KnownClean
<1>0. Nodes' = Nodes /\ answer' = answer /\ runner[1].st.nodes \in [Nodes -> NodeStatuses]
  BY RunsBystand, SetsStay DEF Bystands, States
<1>1. CASE acted' = acted
  BY <1>0, <1>1, CleanStepIsClean, RunsStepClean
<1>2. ASSUME acted' # acted, ActTool(1)
      PROVE  StatesAreClean'
  <2>1. /\ runner[1].pc = "act" /\ acted' = [acted EXCEPT ![runner[1].node] = @ + 1]
        /\ \/ row' = row /\ \E ports \in SUBSET PortNames : Complete(1, ports)
           \/ NodeFails(1)
    BY <1>2, ActToolMoves
  <2>2. /\ runner[1].node \in Nodes /\ Clean(runner[1].st) /\ runner[1].st.pending.answer # "pending"
        /\ row.status # "none"
    BY <2>1 DEF NodePcs, StatesAreClean, Acting, Executing, WritersExpect, Working
  <2>3. /\ row' = row \/ (Clean(row'.st) /\ row'.status = "failed" /\ NodeIsFailed(1, row'.st))
        /\ runner'[1].pc \in { "write", "failing" }
        /\ runner'[1].pc = "write" =>
             /\ Clean(runner'[1].st) /\ runner'[1].st.pending \in { runner[1].st.pending, NoPending }
             /\ \/ runner'[1].st.nodes = [runner[1].st.nodes EXCEPT ![runner[1].node] = "completed"]
                \/ runner'[1].st.nodes = [runner[1].st.nodes EXCEPT ![runner[1].node] = "failed"]
    <3>1. CASE NodeFails(1)
      BY <2>2, <3>1, NodeIsClean, NodeThrows DEF Moves, NodeIsFailed
    <3>2. ASSUME NEW ports \in SUBSET PortNames, Complete(1, ports), row' = row
          PROVE  /\ runner'[1].pc = "write" /\ Clean(runner'[1].st)
                 /\ runner'[1].st.pending \in { runner[1].st.pending, NoPending }
                 /\ runner'[1].st.nodes = [runner[1].st.nodes EXCEPT ![runner[1].node] = "completed"]
      BY <2>2, <3>2, NodeIsClean, NodeCompletes DEF Moves
    <3>3. QED
      BY <2>1, <3>1, <3>2
  <2>4. row' = row \/ (/\ Clean(row'.st) /\ row'.status # "none" /\ row'.st.nodes[runner[1].node] = "failed"
                       /\ row'.st.pending = runner[1].st.pending)
    BY <1>0, <2>2, <2>3 DEF NodeIsFailed
  <2>5. runner'[1].pc \in Executing => /\ Clean(runner'[1].st)
                                       /\ runner'[1].st.nodes[runner[1].node] \notin { "pending", "waiting_approval" }
                                       /\ runner'[1].st.pending.answer # "pending"
    BY <1>0, <2>2, <2>3 DEF Executing, NoPending
  <2>6. row'.status # "none" /\ runner[1].pc \in Acting
    BY <2>1, <2>2, <2>4 DEF Acting
  <2>7. QED
    BY <1>0, <2>1, <2>3, <2>4, <2>5, <2>6, ActingIsClean
<1>3. ASSUME acted' # acted, StartAgent(1)
      PROVE  StatesAreClean'
  <2>1. /\ runner[1].pc = "agent_start" /\ acted' = [acted EXCEPT ![runner[1].node] = @ + 1] /\ row' = row
        /\ runner'[1].pc = "agent_wait" /\ runner'[1].st = runner[1].st
    BY <1>3, StartAgentMoves DEF Moves
  <2>2. /\ Clean(runner[1].st) /\ runner[1].st.pending.answer # "pending"
        /\ runner[1].st.nodes[runner[1].node] = "running" /\ row.status # "none"
    BY <2>1 DEF StatesAreClean, Acting, Executing, WritersExpect, Working
  <2>3. QED
    BY <1>0, <2>1, <2>2, ActingIsClean DEF Acting
<1>4. QED
  BY <1>1, <1>2, <1>3, OthersDoNotAct

-------------------------------------------------------------------------------
(* Soundness, over the requests and the process *)

Sounder ==
  /\ WritersExpect' /\ CancelReaches' /\ StatesAreClean' /\ acted' = acted
  /\ row.status \in Over => row'.status = row.status

LEMMA KnownSound ==
  ASSUME Sound
  PROVE  Typed /\ WritersExpect /\ CancelReaches /\ StatesAreClean /\ 1 \in Slots
BY KnownClean DEF Sound

LEMMA CancelIsSound ==
  ASSUME Sound, CancelRead \/ CancelJob \/ CancelRuns \/ CancelWrite \/ CancelAbort
  PROVE  Sounder
<1> USE KnownSound
<1>0. /\ Nodes' = Nodes /\ acted' = acted /\ answer' = answer
      /\ runner'[1].pc = runner[1].pc /\ runner'[1].rec = runner[1].rec
      /\ runner'[1].st = runner[1].st /\ runner'[1].node = runner[1].node
      /\ runner'[1].tracked = runner[1].tracked /\ (runner[1].aborted => runner'[1].aborted)
      /\ CancelAbort \/ (runner'[1] = runner[1] /\ registry' = registry)
  <2>1. /\ graph' = graph /\ acted' = acted /\ answer' = answer
        /\ CancelAbort \/ (runner' = runner /\ registry' = registry)
        /\ \/ runner' = runner
           \/ runner' = [s \in Slots |-> IF runner[s].tracked /\ runner[s].pc \in Executing
                                         THEN [runner[s] EXCEPT !.aborted = TRUE] ELSE runner[s]]
    BY DEF CancelRead, CancelJob, CancelRuns, CancelWrite, CancelAbort, history
  <2>2. runner[1] \in Runners
    BY KnownTypes
  <2>3. QED
    BY <2>1, <2>2, SetsStay, GoAborted
<1>1. \/ row' = row
      \/ /\ cancel.pc = "write" /\ row.status = cancel.rec.status /\ row'.status = "cancelled"
         /\ row'.st = CancelledState(cancel.rec.st) /\ cancel'.pc = "abort"
  <2>1. CASE CancelWrite
    <3>1. cancel \in [pc : { "idle", "job", "runs", "write", "abort" }, rec : Rows]
      BY DEF Typed, AutomationTypeOK
    <3> DEFINE st == CancelledState(cancel.rec.st)
    <3>2. /\ cancel.pc = "write"
          /\ \/ row.status = cancel.rec.status /\ cancel' = [cancel EXCEPT !.pc = "abort"]
                /\ row' = [status |-> "cancelled", job |-> cancel.rec.job, st |-> st]
             \/ row' = row
      BY <2>1 DEF CancelWrite, Save, Unchanged
    <3> HIDE DEF st
    <3>3. \/ row' = row
          \/ cancel.pc = "write" /\ row.status = cancel.rec.status /\ row'.status = "cancelled"
             /\ row'.st = st /\ cancel'.pc = "abort"
      BY <3>1, <3>2
    <3>4. QED
      BY <3>3 DEF st
  <2>2. CASE ~CancelWrite
    BY <2>2 DEF CancelRead, CancelJob, CancelRuns, CancelAbort, durable
  <2>3. QED
    BY <2>1, <2>2
<1>2. /\ \/ cancel.pc = "idle" /\ cancel'.pc = "job" /\ cancel'.rec = row
            /\ row.status \in { "queued", "running", "waiting_approval" } /\ row' = row
         \/ cancel.pc = "job" /\ cancel'.pc = "runs" /\ cancel'.rec = cancel.rec /\ row' = row
         \/ cancel.pc = "runs" /\ cancel'.pc = "write" /\ cancel'.rec = cancel.rec /\ row' = row
         \/ cancel.pc = "write" /\ cancel'.pc = "abort"
            /\ row'.status = "cancelled" /\ row.status = cancel.rec.status
         \/ cancel.pc = "write" /\ cancel'.pc = "idle" /\ row' = row /\ row.status # cancel.rec.status
         \/ cancel.pc = "abort" /\ cancel'.pc = "idle" /\ CancelAbort /\ row' = row
      /\ agentRun' # "active" \/ agentRun' = agentRun
  <2>1. cancel \in [pc : { "idle", "job", "runs", "write", "abort" }, rec : Rows]
    BY DEF Typed, AutomationTypeOK
  <2>2. QED
    BY <2>1 DEF CancelRead, CancelJob, CancelRuns, CancelWrite, CancelAbort, durable, Save,
         Unchanged, NoCancel, EndAgent
<1>3. WritersExpect' /\ (row.status \in Over => row'.status = row.status)
  BY <1>0, <1>2 DEF WritersExpect, Working, Executing, Over
<1>4. CancelReaches'
  <2>1. CASE ~CancelAbort
    BY <1>0, <1>2, <1>3, <2>1 DEF CancelReaches, WritersExpect, Over
  <2>2. CASE CancelAbort /\ registry = "running"
    <3>1. /\ registry' = "cancelled" /\ row' = row /\ row.status = "cancelled"
          /\ runner[1].tracked /\ runner[1].pc \in Executing => runner'[1].aborted
          /\ runner[1].pc = "agent_wait" => agentRun' # "active"
      <4>1. runner[1] \in Runners
        BY KnownTypes
      <4>2. QED
        BY <2>2, <4>1, GoAborted DEF CancelAbort, WritersExpect, durable, At, EndAgent
    <3>2. agentRun' # "active"
      BY <1>2, <2>2, <3>1 DEF CancelReaches
    <3>3. runner[1].pc \in Executing => runner'[1].aborted
      BY <3>1 DEF CancelReaches
    <3>4. runner[1].pc \in Executing => runner[1].tracked
      BY DEF CancelReaches
    <3>5. /\ row'.status = "cancelled" /\ registry' = "cancelled"
          /\ runner'[1].pc = runner[1].pc /\ runner'[1].tracked = runner[1].tracked
      BY <1>0, <3>1
    <3>6. QED
      BY <3>2, <3>3, <3>4, <3>5 DEF CancelReaches, Working
  <2>3. CASE CancelAbort /\ registry # "running"
    <3>1. UNCHANGED << registry, runner, agentRun, row >>
      BY <2>3 DEF CancelAbort, durable
    <3>2. /\ row.status = "cancelled"
          /\ runner[1].pc \in Executing => runner[1].aborted /\ registry = "cancelled"
      BY <2>3 DEF CancelAbort, WritersExpect, CancelReaches
    <3>3. agentRun # "active"
      BY <3>2 DEF CancelReaches, Executing
    <3>4. /\ runner'[1].pc = runner[1].pc /\ runner'[1].tracked = runner[1].tracked
          /\ runner'[1].aborted = runner[1].aborted
      BY <3>1
    <3>5. registry' = registry /\ agentRun' = agentRun /\ row' = row
      BY <3>1
    <3>6. QED
      BY <3>2, <3>3, <3>4, <3>5 DEF CancelReaches, Working
  <2>4. QED
    BY <2>1, <2>2, <2>3
<1>5. StatesAreClean'
  <2>1. CASE row' = row
    BY <1>0, <2>1 DEF StatesAreClean, Clean, ActsOnce
  <2>2. CASE row'.status = "cancelled" /\ row'.st = CancelledState(cancel.rec.st)
    <3> DEFINE st == CancelledState(cancel.rec.st)
    <3>1. cancel.rec.st \in States
      BY DEF Typed, AutomationTypeOK, Rows
    <3>2. Clean(st) /\ st.pending.answer = "none" /\ \A n \in Nodes : st.nodes[n] \notin { "pending", "waiting_approval" }
      BY <3>1, CleanStates, CancelledTypes DEF NoPending, Settled
    <3> HIDE DEF st
    <3>3. runner[1].pc \in Acting => runner[1].node \in Nodes
      BY KnownClean DEF Acting, NodePcs, AgentPcs
    <3>4. row'.st = st
      BY <2>2 DEF st
    <3>5. QED
      BY <1>0, <2>2, <3>2, <3>3, <3>4 DEF StatesAreClean, Clean, ActsOnce
  <2>3. QED
    BY <1>1, <2>1, <2>2
<1>6. QED
  BY <1>0, <1>3, <1>4, <1>5 DEF Sounder

LEMMA AnsweringIsSound ==
  ASSUME Sound, \E u \in Responders : \/ AnswerWrite(u)
                                      \/ \E d \in { "approved", "rejected" } : AnswerRead(u, d)
  PROVE  Sounder
<1> USE KnownSound
<1>0. /\ Nodes' = Nodes /\ acted' = acted /\ UNCHANGED << runner, registry, agentRun, cancel >>
  BY SetsStay DEF AnswerWrite, AnswerRead, history
<1>1. ASSUME NEW u \in Responders, NEW d \in { "approved", "rejected" }, AnswerRead(u, d)
      PROVE  Sounder
  <2>1. /\ row' = row /\ row.status = "waiting_approval" /\ row.st.pending.answer = "pending"
        /\ \A v \in Responders : answer'[v] = answer[v] \/ answer'[v].rec = row
    BY <1>1 DEF AnswerRead, durable, Typed, AutomationTypeOK
  <2>2. WritersExpect' /\ CancelReaches'
    BY <1>0, <2>1 DEF WritersExpect, CancelReaches
  <2>3. StatesAreClean'
    BY <1>0, <2>1 DEF StatesAreClean, WritersExpect, Clean, ActsOnce
  <2>4. QED
    BY <1>0, <2>1, <2>2, <2>3 DEF Sounder
<1>2. ASSUME NEW u \in Responders, AnswerWrite(u)
      PROVE  Sounder
  <2> DEFINE old == answer[u].rec.st
             st == Answered(old, answer[u].decision)
             n == old.pending.node
  <2>1. \A v \in Responders : answer'[v] = answer[v] \/ answer'[v].pc = "idle"
    BY <1>2 DEF AnswerWrite, Typed, AutomationTypeOK
  <2>2. CASE row' = row
    <3>1. WritersExpect' /\ CancelReaches'
      BY <1>0, <2>2 DEF WritersExpect, CancelReaches
    <3>2. StatesAreClean'
      BY <1>0, <2>1, <2>2 DEF StatesAreClean, Clean, ActsOnce
    <3>3. QED
      BY <1>0, <2>2, <3>1, <3>2 DEF Sounder
  <2>3. CASE row.status = "waiting_approval" /\ row'.status \in { "failed", "queued" } /\ row'.st = st
    <3>1. /\ old \in States /\ n \in Nodes /\ answer[u].decision \in { "approved", "rejected" }
          /\ Clean(old) /\ acted[n] = 0
      <4>1. answer[u].pc = "write"
        BY <1>2 DEF AnswerWrite
      <4>2. QED
        BY <4>1 DEF Typed, AutomationTypeOK, ConsentIsKept, Rows, States, NoPending, StatesAreClean,
             Clean
    <3>2. /\ st.nodes = [old.nodes EXCEPT ![n] = "failed"] \/ st.nodes = [old.nodes EXCEPT ![n] = "pending"]
          /\ st.pending.answer \in { "none", answer[u].decision }
      <4> HIDE DEF old
      <4>1. QED
        BY <3>1, AnsweredTypes DEF n
    <3> HIDE DEF st
    <3>3. Clean(st) /\ st.pending.answer # "pending"
      BY <3>1, <3>2 DEF Clean, States
    <3>4. runner[1].pc \in Resting
      BY <2>3 DEF WritersExpect
    <3>5. WritersExpect' /\ CancelReaches'
      BY <1>0, <2>3, <3>4 DEF WritersExpect, CancelReaches, Resting, Working, Executing
    <3>6. Clean(row.st)'
      BY <1>0, <2>3, <3>3 DEF Clean
    <3>7. StatesAreClean'
      BY <1>0, <2>1, <2>3, <3>4, <3>6 DEF StatesAreClean, Clean, ActsOnce, Resting, Acting
    <3>8. QED
      BY <1>0, <2>3, <3>5, <3>7 DEF Sounder, Over
  <2>4. QED
    BY <1>2, <2>2, <2>3 DEF AnswerWrite, Save, Unchanged
<1>3. QED
  BY <1>1, <1>2

LEMMA QueueIsSound ==
  ASSUME Sound, \/ Forget \/ Reconcile \/ ChangeDefinition \/ ReconcileSchedules
                \/ \E j \in Jobs : Send(j) \/ Expire(j)
  PROVE  Sounder
<1> USE KnownSound
<1>1. /\ Nodes' = Nodes /\ acted' = acted /\ UNCHANGED << runner, agentRun, cancel, answer >>
      /\ registry' = registry \/ (registry = "ended" /\ registry' = "none")
      /\ row' = row \/ (row.status = "queued" /\ row' = [row EXCEPT !.status = "failed"])
  BY SetsStay DEF Forget, Reconcile, ChangeDefinition, ReconcileSchedules, Send, Expire, Rest,
       Dispatch, FailQueued, durable, requests, history
<1>2. row' = row \/ (row.status = "queued" /\ row'.status = "failed" /\ row'.st = row.st)
  BY <1>1, KnownTypes DEF Rows
<1>3. WritersExpect' /\ CancelReaches'
  BY <1>1, <1>2 DEF WritersExpect, CancelReaches
<1>4. StatesAreClean'
  BY <1>1, <1>2 DEF StatesAreClean, Clean, ActsOnce
<1>5. QED
  BY <1>1, <1>2, <1>3, <1>4 DEF Sounder, Over

LEMMA ProcessIsSound ==
  ASSUME Sound, Crash \/ Boot
  PROVE  Sounder
<1> USE KnownSound
<1>0. Nodes' = Nodes /\ acted' = acted /\ row' = row
  BY SetsStay DEF Crash, Boot, durable, history
<1>1. CASE Crash
  <2>1. /\ runner'[1].pc = "idle" /\ registry' = "none" /\ agentRun' # "active" /\ cancel'.pc = "idle"
        /\ \A u \in Responders : answer'[u].pc = "idle"
    BY <1>1, IdleTypes DEF Crash, NoCancel
  <2>2. WritersExpect' /\ CancelReaches'
    BY <1>0, <2>1 DEF WritersExpect, CancelReaches, Working, Executing, Resting
  <2>3. StatesAreClean'
    BY <1>0, <2>1 DEF StatesAreClean, Clean, ActsOnce, Executing, Acting
  <2>4. QED
    BY <1>0, <2>2, <2>3 DEF Sounder
<1>2. CASE Boot
  <2>1. UNCHANGED << runner, registry, agentRun, cancel, answer >>
    BY <1>2 DEF Boot
  <2>2. QED
    BY <1>0, <2>1 DEF Sounder, WritersExpect, CancelReaches, StatesAreClean, Clean, ActsOnce
<1>3. QED
  BY <1>1, <1>2

LEMMA InitIsSound ==
  ASSUME OneDelivery, InitAutomation
  PROVE  Sound
<1>1. Typed /\ 1 \in Slots
  BY InitIsTyped, OneSlot
<1>2. \A n \in Nodes : acted[n] = 0
  <2>1. acted = [n \in Nodes |-> 0]
    BY DEF InitAutomation
  <2>2. QED
    BY <2>1
<1>3. Clean(Fresh(graph))
  BY <1>2, FreshIsClean
<1>4. /\ runner[1].pc = "idle" /\ registry = "none" /\ agentRun = "none" /\ cancel.pc = "idle"
      /\ \A u \in Responders : answer[u].pc = "idle"
  BY <1>1, IdleTypes DEF InitAutomation
<1>5. row.status \in { "none", "queued" } /\ row.st = Fresh(graph)
  <2>1. NoRow(graph).status = "none" /\ NoRow(graph).st = Fresh(graph)
    BY DEF NoRow
  <2>2. NoRow(graph) \in Rows
    BY IdleTypes
  <2>3. QED
    BY <2>1, <2>2 DEF InitAutomation, Rows
<1>6. WritersExpect /\ CancelReaches
  BY <1>4, <1>5 DEF WritersExpect, CancelReaches, Working, Executing, Resting
<1>7. StatesAreClean
  BY <1>2, <1>3, <1>4, <1>5 DEF StatesAreClean, Executing, Acting, ActsOnce
<1>8. QED
  BY <1>1, <1>6, <1>7 DEF Sound

(* What a step of the system keeps: soundness, the end of a run, and rest    *)
(* after a cancellation.                                                     *)
LEMMA StepsStaySound ==
  ASSUME Sound, [NextAutomation]_autVars
  PROVE  /\ Sound' /\ (row.status \in Over => row'.status = row.status)
         /\ row.status = "cancelled" /\ cancel.pc = "idle" => acted' = acted
<1>1. Typed' /\ OneDelivery' /\ \A s \in Slots : s = 1
  BY StepsKeepTyped, OneSlot DEF Sound, OneDelivery
<1>2. CASE Runs(1) \/ TimesOut(1)
  <2>1. /\ WritersExpect' /\ CancelReaches' /\ StatesAreClean'
        /\ row.status \in Over => row'.status = row.status
    BY <1>2, RunsExpect, RunsAreReached, RunsStayClean
  <2>2. ASSUME row.status = "cancelled", cancel.pc = "idle"
        PROVE  acted' = acted
    <3>1. runner[1].pc \in Working => runner[1].aborted
      BY <2>2 DEF Sound, CancelReaches
    <3>2. CASE ActTool(1)
      BY <3>1, <3>2 DEF ActTool, At, Working, Executing
    <3>3. CASE StartAgent(1)
      BY <3>1, <3>3 DEF StartAgent, At, Working, Executing
    <3>4. 1 \in Slots
      BY OneSlot DEF Sound
    <3>5. QED
      BY <1>2, <3>2, <3>3, <3>4, OthersDoNotAct
  <2>3. QED
    BY <1>1, <2>1, <2>2 DEF Sound
<1>3. ASSUME Sounder
      PROVE  /\ Sound' /\ (row.status \in Over => row'.status = row.status)
             /\ acted' = acted
  BY <1>1, <1>3 DEF Sound, Sounder
<1>4. CASE \/ Requests \/ Forget \/ ChangeDefinition \/ Crash \/ Boot \/ Reconcile
           \/ ReconcileSchedules \/ \E j \in Jobs : Expire(j)
  <2>1. Sounder
    BY <1>4, CancelIsSound, AnsweringIsSound, QueueIsSound, ProcessIsSound DEF Requests
  <2>2. QED
    BY <1>3, <2>1
<1>5. CASE UNCHANGED autVars
  <2>1. /\ UNCHANGED << row, runner, registry, agentRun, cancel, answer, acted >> /\ Nodes' = Nodes
    BY <1>5, SetsStay DEF autVars, durable, requests, history
  <2>2. QED
    BY <1>1, <2>1 DEF Sound, WritersExpect, CancelReaches, StatesAreClean, Clean, ActsOnce
<1>6. QED
  BY <1>1, <1>2, <1>4, <1>5 DEF NextAutomation

LEMMA RunsAreSound ==
  ASSUME OneDelivery
  PROVE  SpecAutomation => []Sound
<1>1. InitAutomation => Sound
  BY InitIsSound
<1>2. Sound /\ [NextAutomation]_autVars => Sound'
  BY StepsStaySound
<1>3. QED
  BY <1>1, <1>2, PTL DEF SpecAutomation

-------------------------------------------------------------------------------
(* When no job outlives its delivery and no answer is slow:                  *)

(* the tool or agent of a node is started at most once, over any crashes,    *)
(* retries of the queue, cancellations and answers;                          *)
THEOREM NodesActOnce ==
  ASSUME OneDelivery
  PROVE  SpecAutomation => []ActsOnce
<1>1. Sound => ActsOnce
  BY DEF Sound, StatesAreClean
<1>2. SpecAutomation => []Sound
  BY RunsAreSound
<1>3. QED
  BY <1>1, <1>2, PTL

(* a node the row still lists as pending has not acted, which is what a      *)
(* retry that goes on from the row relies on;                                *)
THEOREM PendingNodesAreUntouched ==
  ASSUME OneDelivery
  PROVE  SpecAutomation => []PendingIsUntouched
<1>1. Sound => PendingIsUntouched
  BY DEF Sound, StatesAreClean, Clean, PendingIsUntouched
<1>2. SpecAutomation => []Sound
  BY RunsAreSound
<1>3. QED
  BY <1>1, <1>2, PTL

(* once a cancellation is answered the run of the agent is not at work;      *)
THEOREM CancellationStopsTheAgent ==
  ASSUME OneDelivery
  PROVE  SpecAutomation => []CancelStopsTheAgent
<1>1. Sound => CancelStopsTheAgent
  BY DEF Sound, CancelReaches, CancelStopsTheAgent
<1>2. SpecAutomation => []Sound
  BY RunsAreSound
<1>3. QED
  BY <1>1, <1>2, PTL

(* and no node acts any more;                                                *)
THEOREM CancellationIsTheEnd ==
  ASSUME OneDelivery
  PROVE  SpecAutomation => NothingActsAfterCancel
<1>1. Sound /\ [NextAutomation]_autVars =>
        [row.status = "cancelled" /\ cancel.pc = "idle" => acted' = acted]_autVars
  BY StepsStaySound
<1>2. SpecAutomation => []Sound
  BY RunsAreSound
<1>3. QED
  BY <1>1, <1>2, PTL DEF SpecAutomation, NothingActsAfterCancel

(* a run that is over keeps its status, whoever read it earlier and writes   *)
(* it late.                                                                  *)
THEOREM EndsAreFinal ==
  ASSUME OneDelivery
  PROVE  SpecAutomation => OverIsFinal
<1>1. Sound /\ [NextAutomation]_autVars => [row.status \in Over => row'.status = row.status]_autVars
  BY StepsStaySound
<1>2. SpecAutomation => []Sound
  BY RunsAreSound
<1>3. QED
  BY <1>1, <1>2, PTL DEF SpecAutomation, OverIsFinal

-------------------------------------------------------------------------------
(* The compiler's order.  Extended is one step of Kahn's algorithm, Orders   *)
(* the functions that make m of them; induction over the steps shows that    *)
(* the order lists no node twice and each behind its sources.                *)

(* Induction up to a bound, over a set of numbers. *)
LEMMA CountsUp ==
  ASSUME NEW m \in Nat, NEW S, 0 \in S, \A k \in 0..m : k < m /\ k \in S => k + 1 \in S
  PROVE  0..m \subseteq S
<1> DEFINE Missed == (0..m) \ S
<1> SUFFICES ASSUME Missed # {} PROVE FALSE
  OBVIOUS
<1>1. Missed \in SUBSET Nat
  OBVIOUS
<1> DEFINE k == Min(Missed)
<1>2. k \in Missed /\ \A y \in Missed : k <= y
  <2> HIDE DEF Missed
  <2>1. QED
    BY <1>1, LeastExists
<1> HIDE DEF k
<1>3. k \in 0..m /\ k \notin S /\ k # 0
  BY <1>2
<1>4. k - 1 \in 0..m /\ k - 1 < m /\ k - 1 \notin Missed
  BY <1>2, <1>3
<1>5. k - 1 \in S
  BY <1>4
<1>6. QED
  BY <1>3, <1>4, <1>5

Extended(g, before) ==
  LET ready == ReadyNodes(g, { before[i] : i \in 1..Len(before) })
  IN IF ready = {} THEN before ELSE Append(before, Min(ready))
Orders(g, m) == { f \in [0..m -> Seq(NodesOf(g))] :
   \A k \in 0..m : f[k] = IF k = 0 THEN << >> ELSE Extended(g, f[k - 1]) }

(* Each step of Kahn's algorithm goes on from the order so far. *)
LEMMA ExtendedTypes ==
  ASSUME NEW g, NodesOf(g) \subseteq Nat \ {0}, NEW before \in Seq(NodesOf(g))
  PROVE  Extended(g, before) \in Seq(NodesOf(g))
<1> DEFINE ready == ReadyNodes(g, { before[i] : i \in 1..Len(before) })
<1>1. ready \subseteq NodesOf(g)
  BY DEF ReadyNodes
<1>2. ready # {} => Min(ready) \in ready
  <2>1. ready \in SUBSET Nat
    BY <1>1
  <2> HIDE DEF ready
  <2>2. QED
    BY <2>1, LeastExists
<1>3. Extended(g, before) = IF ready = {} THEN before ELSE Append(before, Min(ready))
  BY DEF Extended
<1> HIDE DEF ready
<1>4. QED
  BY <1>1, <1>2, <1>3

LEMMA OrdersExist ==
  ASSUME NEW g, NodesOf(g) \subseteq Nat \ {0}, NEW m \in Nat
  PROVE  Orders(g, m) # {}
<1> DEFINE S == { k \in Nat : Orders(g, k) # {} }
<1>1. 0 \in S
  <2> DEFINE f == [k \in 0..0 |-> << >>]
  <2>1. f \in [0..0 -> Seq(NodesOf(g))] /\ \A k \in 0..0 : k = 0 /\ f[k] = << >>
    OBVIOUS
  <2> HIDE DEF f
  <2>2. f \in Orders(g, 0)
    BY <2>1 DEF Orders
  <2>3. QED
    BY <2>2
<1>2. ASSUME NEW n \in 0..m, n < m, n \in S PROVE n + 1 \in S
  <2>1. PICK f : f \in Orders(g, n)
    BY <1>2
  <2>2. /\ f \in [0..n -> Seq(NodesOf(g))]
        /\ \A k \in 0..n : f[k] = IF k = 0 THEN << >> ELSE Extended(g, f[k - 1])
    BY <2>1 DEF Orders
  <2> DEFINE h == [k \in 0..(n + 1) |-> IF k = n + 1 THEN Extended(g, f[n]) ELSE f[k]]
  <2>3. Extended(g, f[n]) \in Seq(NodesOf(g))
    BY <2>2, ExtendedTypes
  <2>4. h \in [0..(n + 1) -> Seq(NodesOf(g))]
    <3>1. \A k \in 0..(n + 1) : k # n + 1 => k \in 0..n
      OBVIOUS
    <3>2. QED
      BY <2>2, <2>3, <3>1
  <2>5. ASSUME NEW k \in 0..(n + 1)
        PROVE  h[k] = IF k = 0 THEN << >> ELSE Extended(g, h[k - 1])
    <3>1. CASE k = n + 1
      <4>1. h[k] = Extended(g, f[n]) /\ k - 1 = n /\ n \in 0..(n + 1) /\ k # 0 /\ n # n + 1
        BY <3>1
      <4>2. h[k - 1] = f[n]
        BY <4>1
      <4>3. QED
        BY <4>1, <4>2
    <3>2. CASE k # n + 1
      <4>1. k \in 0..n /\ h[k] = f[k]
        BY <3>2
      <4>2. k # 0 => k - 1 \in 0..n /\ k - 1 # n + 1 /\ k - 1 \in 0..(n + 1)
        BY <4>1
      <4>3. k # 0 => h[k - 1] = f[k - 1]
        BY <4>2
      <4> HIDE DEF h
      <4>4. QED
        BY <2>2, <4>1, <4>3
    <3>3. QED
      BY <3>1, <3>2
  <2> HIDE DEF h
  <2>6. h \in Orders(g, n + 1)
    BY <2>4, <2>5 DEF Orders
  <2>7. QED
    BY <2>6
<1> HIDE DEF S
<1>3. m \in S
  BY <1>1, <1>2, CountsUp
<1>4. QED
  BY <1>3 DEF S

LEMMA OrderUnfolds ==
  ASSUME NEW g, IsFiniteSet(NodesOf(g)), NodesOf(g) \subseteq Nat \ {0}
  PROVE  \E f \in Orders(g, Cardinality(NodesOf(g))) :
           TopologicalOrder(g) = f[Cardinality(NodesOf(g))]
<1> DEFINE N == Cardinality(NodesOf(g))
<1>1. N \in Nat
  BY FS_CardinalityType
<1> DEFINE order[k \in 0..Cardinality(NodesOf(g))] ==
        IF k = 0 THEN << >>
        ELSE LET before == order[k - 1]
                 ready == ReadyNodes(g, { before[i] : i \in 1..Len(before) })
             IN IF ready = {} THEN before ELSE Append(before, Min(ready))
<1>2. TopologicalOrder(g) = order[N]
  BY DEF TopologicalOrder
<1>3. PICK f : f \in Orders(g, N)
  BY <1>1, OrdersExist
<1>4. f = [k \in 0..N |-> IF k = 0 THEN << >> ELSE Extended(g, f[k - 1])]
  BY <1>3, Zenon DEF Orders
<1>5. order = [k \in 0..N |-> IF k = 0 THEN << >> ELSE Extended(g, order[k - 1])]
  BY <1>4, Zenon DEF Extended
<1> HIDE DEF order
<1> SUFFICES order \in Orders(g, N)
  BY <1>2
<1> DEFINE S == { k \in Nat : k <= N => order[k] \in Seq(NodesOf(g)) }
<1>6. 0 \in S
  <2>1. order[0] = << >>
    BY <1>1, <1>5
  <2>2. << >> \in Seq(NodesOf(g))
    OBVIOUS
  <2>3. QED
    BY <2>1, <2>2
<1>7. ASSUME NEW k \in 0..N, k < N, k \in S PROVE k + 1 \in S
  <2>1. k + 1 \in 0..N /\ k + 1 # 0 /\ (k + 1) - 1 = k
    BY <1>1, <1>7
  <2>2. order[k + 1] = Extended(g, order[k])
    BY <1>5, <2>1
  <2>3. order[k] \in Seq(NodesOf(g))
    BY <1>7, <1>1
  <2>4. QED
    BY <2>2, <2>3, ExtendedTypes
<1>8. 0..N \subseteq S
  <2> HIDE DEF S, N
  <2>1. QED
    BY <1>1, <1>6, <1>7, CountsUp
<1>9. \A k \in 0..N : order[k] \in Seq(NodesOf(g))
  BY <1>1, <1>8
<1> QED
  BY <1>5, <1>9 DEF Orders

(* No node twice, and the sources of a node before it. *)
Arranged(g, q) ==
  /\ q \in Seq(NodesOf(g))
  /\ \A i, j \in 1..Len(q) : q[i] = q[j] => i = j
  /\ \A i \in 1..Len(q) : \A e \in Incoming(g, q[i]) : \E j \in 1..Len(q) : j < i /\ q[j] = e[1]

LEMMA ExtendedIsArranged ==
  ASSUME NEW g, NodesOf(g) \subseteq Nat \ {0}, NEW q, Arranged(g, q)
  PROVE  Arranged(g, Extended(g, q))
<1> DEFINE placed == { q[i] : i \in 1..Len(q) }
           ready == ReadyNodes(g, placed)
           n == Min(ready)
<1>1. CASE ready = {}
  <2>1. Extended(g, q) = q
    BY <1>1 DEF Extended
  <2>2. QED
    BY <2>1
<1>2. CASE ready # {}
  <2>1. n \in ready
    <3>1. ready \in SUBSET Nat
      BY DEF ReadyNodes
    <3> HIDE DEF ready
    <3>2. QED
      BY <1>2, <3>1, LeastExists
  <2>2. n \in NodesOf(g) /\ n \notin placed /\ \A e \in Incoming(g, n) : e[1] \in placed
    BY <2>1 DEF ReadyNodes
  <2>3. Extended(g, q) = Append(q, n)
    BY <1>2 DEF Extended
  <2> HIDE DEF n, ready
  <2>4. q \in Seq(NodesOf(g)) /\ Len(q) \in Nat
    BY DEF Arranged
  <2> DEFINE a == Append(q, n)
  <2>5. /\ a \in Seq(NodesOf(g)) /\ Len(a) = Len(q) + 1 /\ a[Len(q) + 1] = n
        /\ \A i \in 1..Len(q) : a[i] = q[i]
    BY <2>2, <2>4
  <2> HIDE DEF a
  <2>6. \A i, j \in 1..Len(a) : a[i] = a[j] => i = j
    <3> SUFFICES ASSUME NEW i \in 1..Len(a), NEW j \in 1..Len(a), a[i] = a[j] PROVE i = j
      OBVIOUS
    <3>1. (i \in 1..Len(q) \/ i = Len(q) + 1) /\ (j \in 1..Len(q) \/ j = Len(q) + 1)
      BY <2>4, <2>5
    <3>2. \A k \in 1..Len(q) : a[k] \in placed
      BY <2>5
    <3> HIDE DEF placed
    <3>3. QED
      BY <2>2, <2>5, <3>1, <3>2 DEF Arranged
  <2>7. \A i \in 1..Len(a) : \A e \in Incoming(g, a[i]) :
          \E j \in 1..Len(a) : j < i /\ a[j] = e[1]
    <3> SUFFICES ASSUME NEW i \in 1..Len(a), NEW e \in Incoming(g, a[i])
                 PROVE  \E j \in 1..Len(a) : j < i /\ a[j] = e[1]
      OBVIOUS
    <3>1. CASE i = Len(q) + 1
      <4>1. PICK j \in 1..Len(q) : q[j] = e[1]
        BY <2>2, <2>5, <3>1
      <4>2. j \in 1..Len(a) /\ j < i /\ a[j] = e[1]
        BY <2>4, <2>5, <3>1, <4>1
      <4>3. QED
        BY <4>2
    <3>2. CASE i # Len(q) + 1
      <4>1. i \in 1..Len(q) /\ a[i] = q[i]
        BY <2>4, <2>5, <3>2
      <4>2. PICK j \in 1..Len(q) : j < i /\ q[j] = e[1]
        BY <4>1 DEF Arranged
      <4>3. j \in 1..Len(a) /\ a[j] = e[1]
        BY <2>4, <2>5, <4>2
      <4>4. QED
        BY <4>2, <4>3
    <3>3. QED
      BY <3>1, <3>2
  <2>8. QED
    BY <2>3, <2>5, <2>6, <2>7 DEF Arranged, a
<1>3. QED
  BY <1>1, <1>2

(* The compiler's order of a graph it accepts lists every node once, each    *)
(* behind its sources.                                                       *)
THEOREM OrderIsTopological ==
  ASSUME NEW g, IsFiniteSet(NodesOf(g)), NodesOf(g) \subseteq Nat \ {0}, ValidGraph(g)
  PROVE  /\ Arranged(g, TopologicalOrder(g))
         /\ \A n \in NodesOf(g) : \E i \in 1..Len(TopologicalOrder(g)) : TopologicalOrder(g)[i] = n
<1> DEFINE N == Cardinality(NodesOf(g))
<1>1. N \in Nat
  BY FS_CardinalityType
<1>2. PICK f \in Orders(g, N) : TopologicalOrder(g) = f[N]
  BY OrderUnfolds
<1> DEFINE S == { k \in Nat : k <= N => Arranged(g, f[k]) }
<1>3. 0 \in S
  <2>1. f[0] = << >>
    BY <1>1 DEF Orders
  <2>2. Arranged(g, << >>)
    BY DEF Arranged
  <2>3. QED
    BY <2>1, <2>2
<1>4. ASSUME NEW k \in 0..N, k < N, k \in S PROVE k + 1 \in S
  <2>1. k + 1 \in 0..N /\ k + 1 # 0 /\ (k + 1) - 1 = k
    BY <1>1, <1>4
  <2>2. f[k + 1] = Extended(g, f[k])
    BY <2>1 DEF Orders
  <2>3. Arranged(g, f[k])
    BY <1>4, <1>1
  <2>4. QED
    BY <2>2, <2>3, ExtendedIsArranged
<1>5. N \in S
  <2> HIDE DEF S, N
  <2>1. QED
    BY <1>1, <1>3, <1>4, CountsUp
<1>6. Arranged(g, TopologicalOrder(g))
  BY <1>1, <1>2, <1>5
<1> DEFINE q == TopologicalOrder(g)
<1>7. Len(q) = N /\ q \in Seq(NodesOf(g))
  BY <1>6 DEF Arranged, ValidGraph
<1>8. q \in Injection(1..N, NodesOf(g))
  BY <1>6, <1>7 DEF Injection, IsInjective, Arranged
<1>9. IsFiniteSet(1..N) /\ Cardinality(1..N) = N
  BY <1>1, FS_Interval
<1> HIDE DEF q
<1>10. q \in Surjection(1..N, NodesOf(g))
  BY <1>8, <1>9, FS_Injection
<1>11. \A n \in NodesOf(g) : \E i \in 1..Len(q) : q[i] = n
  BY <1>7, <1>10 DEF Surjection
<1>12. QED
  BY <1>6, <1>11 DEF q

-------------------------------------------------------------------------------
(* The loop of the runner is never stuck.  A node the runner meets before it *)
(* decides is pending or settled; a node that runs or waits for its answer   *)
(* is the one at hand.  The order then offers its first node that is not     *)
(* settled.                                                                  *)

OrderOK == /\ Arranged(graph, graph.order)
           /\ \A n \in Nodes : \E i \in 1..Len(graph.order) : graph.order[i] = n

Quiet == { "pending" } \cup Settled
Decided(st) == \A n \in Nodes : st.nodes[n] \in Quiet
NobodyWaits(st) == \A n \in Nodes : st.nodes[n] # "waiting_approval"
DecidedOrAsked(st) ==
  \A n \in Nodes : st.nodes[n] \in Quiet \/ (st.pending.answer = "pending" /\ st.pending.node = n)
DecidedBut(st, m) ==
  /\ \A n \in Nodes \ {m} : st.nodes[n] \in Quiet
  /\ st.nodes[m] # "waiting_approval"
  /\ st.pending.answer # "pending"

NodesAreDecided ==
  LET r == runner[1]
  IN /\ row.status \in { "none", "queued" } => Decided(row.st)
     /\ row.status = "running" => NobodyWaits(row.st)
     /\ row.status = "running" /\ r.pc = "loop" => DecidedOrAsked(row.st)
     /\ row.status = "waiting_approval" => DecidedOrAsked(row.st)
     /\ r.pc = "authorize" => /\ r.rec.status = "queued" => Decided(r.rec.st)
                              /\ r.rec.status = "running" => NobodyWaits(r.rec.st)
                              /\ r.st = r.rec.st
     /\ r.pc \in { "orchestrate", "enter", "node" } => Decided(r.st)
     /\ r.pc \in Acting \cup { "agent_wait" } => DecidedBut(r.st, r.node)
     /\ r.pc = "write" => DecidedOrAsked(r.st)
     /\ r.pc = "write" /\ r.st.pending.answer # "pending" => Decided(r.st)
     /\ \A u \in Responders : answer[u].pc = "write" => DecidedOrAsked(answer[u].rec.st)
     /\ r.pc # "stuck"

Advancing == Sound /\ OrderOK /\ NodesAreDecided

(* The first node of the order that is not settled has settled sources.      *)
LEMMA FirstIsNext ==
  ASSUME OrderOK, NEW st, Decided(st), NEW n \in Nodes, st.nodes[n] \notin Settled
  PROVE  HasNext(graph, st)
<1> DEFINE q == graph.order
           Open == { i \in 1..Len(q) : st.nodes[q[i]] \notin Settled }
           i == Min(Open)
<1>1. q \in Seq(Nodes) /\ Len(q) \in Nat
  BY DEF OrderOK, Arranged, Nodes
<1>2. i \in Open /\ \A j \in Open : i <= j
  <2>1. Open \in SUBSET Nat
    BY <1>1
  <2>2. Open # {}
    BY DEF OrderOK
  <2> HIDE DEF Open
  <2>3. QED
    BY <2>1, <2>2, LeastExists
<1> HIDE DEF i
<1>3. i \in 1..Len(q) /\ q[i] \in Nodes /\ st.nodes[q[i]] = "pending"
  BY <1>1, <1>2 DEF Decided, Quiet
<1>4. SourcesSettled(graph, st, q[i])
  <2> SUFFICES ASSUME NEW e \in Incoming(graph, q[i]) PROVE st.nodes[e[1]] \in Settled
    BY DEF SourcesSettled
  <2>1. PICK j \in 1..Len(q) : j < i /\ q[j] = e[1]
    BY <1>3 DEF OrderOK, Arranged
  <2>2. j \notin Open
    BY <1>1, <1>2, <1>3, <2>1
  <2>3. QED
    BY <2>1, <2>2
<1>5. i \in Candidates(graph, st)
  BY <1>3, <1>4 DEF Candidates, Nodes
<1>6. QED
  BY <1>5 DEF HasNext

LEMMA NothingIsLeftBehind ==
  ASSUME OrderOK, NEW st, DecidedOrAsked(st)
  PROVE  ~LeftBehind(st)
<1> SUFFICES ASSUME LeftBehind(st) PROVE FALSE
  OBVIOUS
<1>1. Decided(st)
  BY DEF LeftBehind, DecidedOrAsked, Decided
<1>2. PICK n \in Nodes : st.nodes[n] \notin Settled
  BY DEF LeftBehind
<1>3. QED
  BY <1>1, <1>2, FirstIsNext DEF LeftBehind

(* The order of a published graph is the compiler's. *)
LEMMA InitIsArranged ==
  ASSUME InitAutomation
  PROVE  OrderOK
<1>1. PICK g \in Graphs : ValidGraph(g) /\ graph = Compiled(g)
  BY DEF InitAutomation
<1>2. /\ graph.order = TopologicalOrder(g) /\ NodesOf(graph) = NodesOf(g) /\ Nodes = NodesOf(g)
      /\ \A n : Incoming(graph, n) = Incoming(g, n)
  BY <1>1 DEF Compiled, Nodes, NodesOf, Incoming
<1>3. IsFiniteSet(NodesOf(g)) /\ NodesOf(g) \subseteq Nat \ {0}
  BY GraphsAreFinite
<1>4. /\ Arranged(g, TopologicalOrder(g))
      /\ \A n \in NodesOf(g) : \E i \in 1..Len(TopologicalOrder(g)) : TopologicalOrder(g)[i] = n
  BY <1>1, <1>3, OrderIsTopological
<1>5. QED
  BY <1>2, <1>4 DEF OrderOK, Arranged

LEMMA KnownDecided ==
  ASSUME Advancing
  PROVE  /\ Sound /\ Typed /\ OrderOK /\ NodesAreDecided /\ WritersExpect /\ StatesAreClean /\ 1 \in Slots
         /\ row \in Rows /\ row.st \in States /\ runner[1] \in Runners /\ runner[1].st \in States
         /\ runner[1].rec.st \in States
         /\ runner[1].pc \in NodePcs => runner[1].node \in Nodes
BY KnownClean DEF Advancing

(* What a step of the delivery leaves behind.                                *)
DecidedStep ==
  LET r == runner'[1]
  IN /\ row'.status \in { "none", "queued" } => Decided(row'.st)
     /\ row'.status = "running" => NobodyWaits(row'.st)
     /\ row'.status = "running" /\ r.pc = "loop" => DecidedOrAsked(row'.st)
     /\ row'.status = "waiting_approval" => DecidedOrAsked(row'.st)
     /\ r.pc = "authorize" => /\ r.rec.status = "queued" => Decided(r.rec.st)
                              /\ r.rec.status = "running" => NobodyWaits(r.rec.st)
                              /\ r.st = r.rec.st
     /\ r.pc \in { "orchestrate", "enter", "node" } => Decided(r.st)
     /\ r.pc \in Acting \cup { "agent_wait" } => DecidedBut(r.st, r.node)
     /\ r.pc = "write" => DecidedOrAsked(r.st)
     /\ r.pc = "write" /\ r.st.pending.answer # "pending" => Decided(r.st)
     /\ r.pc # "stuck"

LEMMA DecidedStepIsDecided ==
  ASSUME DecidedStep, Nodes' = Nodes,
         \A u \in Responders : answer'[u].pc = "write" => DecidedOrAsked(answer'[u].rec.st)
  PROVE  NodesAreDecided'
BY DEF NodesAreDecided, DecidedStep, Decided, NobodyWaits, DecidedOrAsked, DecidedBut

LEMMA DecidedStates ==
  /\ \A st : Decided(st) => NobodyWaits(st) /\ DecidedOrAsked(st)
  /\ \A st, to : Decided(st) /\ to.nodes = st.nodes => Decided(to)
  /\ \A st, m : DecidedBut(st, m) => NobodyWaits(st)
  /\ \A st, to, m : DecidedBut(st, m) /\ to.nodes = st.nodes /\ to.pending = st.pending => DecidedBut(to, m)
  /\ \A st : DecidedOrAsked(st) /\ st.pending.answer # "pending" => Decided(st)
BY DEF Decided, NobodyWaits, DecidedOrAsked, DecidedBut, Quiet, Settled

LEMMA NodeIsDecided ==
  ASSUME Advancing, runner[1].pc \in Acting \cup { "agent_wait" }
  PROVE  /\ NodeFails(1) =>
              \/ runner'[1].pc = "write" /\ row' = row /\ Decided(runner'[1].st)
              \/ runner'[1].pc = "failing" /\ (row' = row \/ row'.status = "failed")
         /\ \A ports \in SUBSET PortNames : Complete(1, ports) =>
              runner'[1].pc = "write" /\ Decided(runner'[1].st)
         /\ Pause(1) => runner'[1].pc = "write" /\ DecidedOrAsked(runner'[1].st)
                          /\ runner'[1].st.pending.answer = "pending"
<1> USE KnownDecided
<1> DEFINE k == runner[1].node
           st == runner[1].st
<1>1. k \in Nodes /\ DecidedBut(st, k) /\ st.nodes \in [Nodes -> NodeStatuses]
  BY DEF NodesAreDecided, Acting, NodePcs, AgentPcs, States
<1>2. ASSUME NEW to, NEW x \in Settled, to.nodes = [st.nodes EXCEPT ![k] = x]
      PROVE  Decided(to)
  <2> HIDE DEF k, st
  <2>1. QED
    BY <1>1, <1>2 DEF Decided, DecidedBut, Quiet
<1>3. "failed" \in Settled /\ "completed" \in Settled
  BY DEF Settled
<1>4. ASSUME NodeFails(1)
      PROVE  \/ runner'[1].pc = "write" /\ row' = row /\ Decided(runner'[1].st)
             \/ runner'[1].pc = "failing" /\ (row' = row \/ row'.status = "failed")
  BY <1>2, <1>3, <1>4, NodeThrows DEF Moves, NodeIsFailed
<1>5. ASSUME NEW ports \in SUBSET PortNames, Complete(1, ports)
      PROVE  runner'[1].pc = "write" /\ Decided(runner'[1].st)
  BY <1>2, <1>3, <1>5, NodeCompletes DEF Moves
<1>6. ASSUME Pause(1)
      PROVE  /\ runner'[1].pc = "write" /\ DecidedOrAsked(runner'[1].st)
             /\ runner'[1].st.pending.answer = "pending"
  <2> DEFINE to == runner'[1].st
  <2>1. /\ runner'[1].pc = "write" /\ to.nodes = [st.nodes EXCEPT ![k] = "waiting_approval"]
        /\ to.pending = [node |-> k, answer |-> "pending"]
    BY <1>1, <1>6, NodePauses DEF Moves
  <2> HIDE DEF to, k, st
  <2>2. DecidedOrAsked(to) /\ to.pending.answer = "pending"
    BY <1>1, <2>1 DEF DecidedOrAsked, DecidedBut
  <2>3. QED
    BY <2>1, <2>2 DEF to
<1>7. QED
  BY <1>4, <1>5, <1>6

LEMMA RunsDecide ==
  ASSUME Advancing, Runs(1) \/ TimesOut(1)
  PROVE  DecidedStep
<1> USE KnownDecided
<1>1. CASE Deliver(1)
  <2>1. Decided(Fresh(graph))
    BY DEF Decided, Fresh, Quiet, Nodes
  <2>2. QED
    BY <1>1, <2>1, DeliverMoves, DecidedStates DEF NodesAreDecided, DecidedStep, Acting
<1>2. CASE Finish(1)
  BY <1>2, FinishMoves, IdleTypes DEF NodesAreDecided, DecidedStep, Acting
<1>3. CASE Authorize(1)
  <2> DEFINE r == runner[1]
  <2>1. /\ r.pc = "authorize" /\ r.rec.status \in { "queued", "running" } /\ r.st = r.rec.st
        /\ r.rec.status = "queued" => Decided(r.rec.st)
        /\ r.rec.status = "running" => NobodyWaits(r.rec.st)
    BY <1>3 DEF Authorize, NodesAreDecided, WritersExpect
  <2>2. registry = "none" /\ registry' = "running" => ~Interrupted(r)
    BY <1>3 DEF Authorize
  <2>3. ~Interrupted(r) => Decided(r.st)
    BY <2>1 DEF Interrupted, Running, Decided, NobodyWaits, Quiet, States, NodeStatuses
  <2>4. row' = row \/ (Interrupted(r) /\ row'.status = "running" /\ row'.st = FailInterrupted(r.rec.st))
    BY <1>3 DEF Authorize, Save, Unchanged
  <2>5. Interrupted(r) => NobodyWaits(FailInterrupted(r.rec.st))
    BY <2>1, InterruptedTypes DEF Interrupted, NobodyWaits
  <2>6. /\ runner'[1].pc \in { "failing", "refused", "orchestrate" } /\ runner'[1].st = r.st
        /\ runner'[1].pc = "orchestrate" => registry = "none" /\ registry' = "running"
    BY <1>3, AuthorizeMoves
  <2> HIDE DEF r
  <2>7. QED
    BY <2>2, <2>3, <2>4, <2>5, <2>6 DEF NodesAreDecided, DecidedStep, Acting
<1>4. CASE Orchestrate(1)
  BY <1>4, OrchestrateMoves, DecidedStates DEF NodesAreDecided, DecidedStep, Acting, Moves
<1>5. CASE Enter(1)
  BY <1>5, EnterMoves, DecidedStates DEF NodesAreDecided, DecidedStep, Acting, Moves
<1>6. CASE LoopAborted(1)
  BY <1>6, LoopAbortedMoves DEF NodesAreDecided, DecidedStep, Acting, Moves
<1>7. CASE LoopCancelled(1)
  BY <1>7, LoopCancelledMoves DEF NodesAreDecided, DecidedStep, Acting, Moves
<1>8. CASE LoopNext(1)
  <2>1. row' = row /\ runner[1].pc = "loop" /\ row.status # "cancelled"
    BY <1>8, LoopNextMoves
  <2>2. DecidedOrAsked(row.st)
    BY <2>1 DEF NodesAreDecided, WritersExpect, Working, Executing
  <2>3. ~LeftBehind(row.st)
    BY <2>2, NothingIsLeftBehind
  <2>4. row.st.pending.answer # "pending" => Decided(row.st)
    BY <2>2, DecidedStates
  <2>5. ASSUME NEW n \in Nodes, runner'[1].st.nodes = [row.st.nodes EXCEPT ![n] = "skipped"],
               Decided(row.st)
        PROVE  Decided(runner'[1].st)
    BY <2>5 DEF Decided, Quiet, Settled, States
  <2>6. /\ runner'[1].pc \in { "returned", "node", "write", "complete" }
        /\ runner'[1].pc = "node" => runner'[1].st = row.st /\ row.st.pending.answer # "pending"
        /\ runner'[1].pc = "write" =>
             /\ row.st.pending.answer # "pending"
             /\ \E n \in Nodes : runner'[1].st.nodes = [row.st.nodes EXCEPT ![n] = "skipped"]
    BY <1>8, <2>3, LoopNextMoves
  <2>7. runner'[1].pc \in { "node", "write" } => Decided(runner'[1].st)
    BY <2>4, <2>5, <2>6
  <2>8. QED
    BY <2>1, <2>6, <2>7, DecidedStates DEF NodesAreDecided, DecidedStep, Acting
<1>9. CASE StartNode(1)
  <2> DEFINE k == runner[1].node
             to == [runner[1].st EXCEPT !.nodes[k] = "running"]
  <2>1. runner[1].pc = "node"
    BY <1>9, StartNodeMoves
  <2>2. Decided(runner[1].st) /\ runner[1].st.pending.answer # "pending" /\ k \in Nodes
    BY <2>1 DEF NodesAreDecided, StatesAreClean, NodePcs
  <2>3. DecidedBut(to, k)
    <3>1. to.nodes = [runner[1].st.nodes EXCEPT ![k] = "running"] /\ to.pending = runner[1].st.pending
      BY DEF States
    <3> HIDE DEF to, k
    <3>2. QED
      BY <2>2, <3>1 DEF Decided, DecidedBut, Quiet, States
  <2>4. /\ \/ row'.status = "running" /\ row'.st = to
           \/ row' = row
        /\ runner'[1].pc \in { "act", "failing" } /\ runner'[1].node = k
        /\ runner'[1].pc = "act" => runner'[1].st = to
    BY <1>9, StartNodeMoves DEF Moves
  <2> HIDE DEF to, k
  <2>5. QED
    BY <2>3, <2>4, DecidedStates DEF NodesAreDecided, DecidedStep, Acting
<1>10. CASE ActPure(1)
  BY <1>10, ActPureMoves, NodeIsDecided, DecidedStates DEF NodesAreDecided, DecidedStep, Acting
<1>11. CASE ActApproval(1)
  BY <1>11, ActApprovalMoves, NodeIsDecided, DecidedStates DEF NodesAreDecided, DecidedStep, Acting
<1>12. CASE ActTool(1)
  BY <1>12, ActToolMoves, NodeIsDecided, DecidedStates DEF NodesAreDecided, DecidedStep, Acting
<1>13. CASE ActAgent(1)
  <2>1. runner[1].pc = "act" /\ DecidedBut(runner[1].st, runner[1].node)
    BY <1>13, ActAgentMoves DEF NodesAreDecided, Acting
  <2>2. CASE NodeFails(1)
    BY <2>1, <2>2, NodeIsDecided, DecidedStates DEF NodesAreDecided, DecidedStep, Acting
  <2>3. CASE /\ row' = row /\ Moves(1, "agent_write", runner[1].rec, runner'[1].st)
             /\ runner'[1].st.nodes = runner[1].st.nodes /\ runner'[1].st.pending = runner[1].st.pending
    <3>1. DecidedBut(runner'[1].st, runner'[1].node) /\ runner'[1].pc = "agent_write"
      BY <2>1, <2>3, DecidedStates DEF Moves
    <3>2. QED
      BY <2>3, <3>1 DEF NodesAreDecided, DecidedStep, Acting
  <2>4. QED
    BY <1>13, <2>2, <2>3, ActAgentMoves
<1>14. CASE AgentWritten(1)
  BY <1>14, AgentWrittenMoves, NodeIsDecided, DecidedStates DEF NodesAreDecided, DecidedStep, Acting, Moves
<1>15. CASE StartAgent(1)
  BY <1>15, StartAgentMoves, NodeIsDecided, DecidedStates DEF NodesAreDecided, DecidedStep, Acting, Moves
<1>16. CASE AgentEnds(1)
  BY <1>16, AgentEndsMoves, NodeIsDecided, DecidedStates
     DEF NodesAreDecided, DecidedStep, Acting, PortNames
<1>17. CASE Write(1)
  <2>1. /\ runner[1].pc = "write" /\ DecidedOrAsked(runner[1].st)
        /\ runner[1].st.pending.answer # "pending" => Decided(runner[1].st)
    BY <1>17, WriteMoves DEF NodesAreDecided
  <2>2. Wins(1) => row'.status = IF runner[1].st.pending.answer = "pending" THEN "waiting_approval" ELSE "running"
    BY <1>17 DEF Write, Wins, Save, Unchanged
  <2>3. QED
    BY <1>17, <2>1, <2>2, WriteMoves, DecidedStates DEF NodesAreDecided, DecidedStep, Acting, Moves
<1>18. CASE Paused(1)
  BY <1>18, PausedMoves DEF NodesAreDecided, DecidedStep, Acting, Moves
<1>19. CASE CompleteOrch(1)
  BY <1>19, CompleteOrchMoves DEF NodesAreDecided, DecidedStep, Acting, Moves
<1>20. CASE CompleteRow(1)
  BY <1>20, CompleteRowMoves DEF NodesAreDecided, DecidedStep, Acting, Moves
<1>21. CASE FailReads(1)
  BY <1>21, FailReadsMoves DEF NodesAreDecided, DecidedStep, Acting, Moves
<1>22. CASE FailWrites(1)
  BY <1>22, FailWritesMoves DEF NodesAreDecided, DecidedStep, Acting, Moves
<1>23. CASE TimesOut(1)
  BY <1>23, TimesOutMoves DEF NodesAreDecided, DecidedStep, Acting
<1>24. QED
  BY <1>1, <1>2, <1>3, <1>4, <1>5, <1>6, <1>7, <1>8, <1>9, <1>10, <1>11, <1>12, <1>13, <1>14, <1>15,
       <1>16, <1>17, <1>18, <1>19, <1>20, <1>21, <1>22, <1>23 DEF Runs

(* The requests, the queue and the process.                                  *)
LEMMA CancelDecides ==
  ASSUME Advancing, CancelRead \/ CancelJob \/ CancelRuns \/ CancelWrite \/ CancelAbort
  PROVE  NodesAreDecided'
<1> USE KnownDecided
<1>0. /\ Nodes' = Nodes /\ answer' = answer
      /\ runner'[1].pc = runner[1].pc /\ runner'[1].rec = runner[1].rec
      /\ runner'[1].st = runner[1].st /\ runner'[1].node = runner[1].node
  <2>1. /\ graph' = graph /\ answer' = answer
        /\ \/ runner' = runner
           \/ runner' = [s \in Slots |-> IF runner[s].tracked /\ runner[s].pc \in Executing
                                         THEN [runner[s] EXCEPT !.aborted = TRUE] ELSE runner[s]]
    BY DEF CancelRead, CancelJob, CancelRuns, CancelWrite, CancelAbort
  <2>2. QED
    BY <2>1, SetsStay, GoAborted
<1>1. row' = row \/ row'.status = "cancelled"
  BY DEF CancelRead, CancelJob, CancelRuns, CancelWrite, CancelAbort, Save, durable
<1>2. DecidedStep
  BY <1>0, <1>1 DEF NodesAreDecided, DecidedStep
<1>3. QED
  BY <1>0, <1>2, DecidedStepIsDecided DEF NodesAreDecided

LEMMA AnswerDecides ==
  ASSUME Advancing, NEW u \in Responders,
         AnswerWrite(u) \/ \E d \in { "approved", "rejected" } : AnswerRead(u, d)
  PROVE  NodesAreDecided'
<1> USE KnownDecided
<1>0. Nodes' = Nodes /\ runner' = runner
  BY SetsStay DEF AnswerWrite, AnswerRead
<1>1. ASSUME NEW d \in { "approved", "rejected" }, AnswerRead(u, d)
      PROVE  NodesAreDecided'
  <2>1. /\ row' = row /\ row.status = "waiting_approval"
        /\ \A v \in Responders : answer'[v] = answer[v] \/ answer'[v].rec = row
    BY <1>1 DEF AnswerRead, durable, Typed, AutomationTypeOK
  <2>2. DecidedStep
    BY <1>0, <2>1 DEF NodesAreDecided, DecidedStep
  <2>3. \A v \in Responders : answer'[v].pc = "write" => DecidedOrAsked(answer'[v].rec.st)
    BY <2>1 DEF NodesAreDecided
  <2>4. QED
    BY <1>0, <2>2, <2>3, DecidedStepIsDecided
<1>2. ASSUME AnswerWrite(u)
      PROVE  NodesAreDecided'
  <2> DEFINE old == answer[u].rec.st
             d == answer[u].decision
             st == Answered(old, d)
             n == old.pending.node
  <2>1. \A v \in Responders : answer'[v] = answer[v] \/ answer'[v].pc = "idle"
    BY <1>2 DEF AnswerWrite, Typed, AutomationTypeOK
  <2>2. row' = row \/ (row.status = "waiting_approval" /\ row'.status \in { "failed", "queued" } /\ row'.st = st)
    BY <1>2 DEF AnswerWrite, Save, Unchanged
  <2>3. old \in States /\ n \in Nodes /\ d \in { "approved", "rejected" } /\ DecidedOrAsked(old)
    <3>1. answer[u].pc = "write"
      BY <1>2 DEF AnswerWrite
    <3>2. QED
      BY <3>1 DEF Typed, AutomationTypeOK, ConsentIsKept, Rows, States, NoPending, NodesAreDecided
  <2>4. st.nodes = [old.nodes EXCEPT ![n] = "failed"] \/ st.nodes = [old.nodes EXCEPT ![n] = "pending"]
    <3> HIDE DEF old, d
    <3>1. QED
      BY <2>3, AnsweredTypes DEF n
  <2> HIDE DEF st, old, d
  <2>5. Decided(st)
    BY <2>3, <2>4 DEF Decided, DecidedOrAsked, Quiet, Settled, States
  <2>6. row' # row => runner[1].pc \in Resting
    BY <2>2 DEF WritersExpect
  <2>7. DecidedStep
    BY <1>0, <2>2, <2>5, <2>6 DEF NodesAreDecided, DecidedStep, Resting
  <2>8. QED
    BY <1>0, <2>1, <2>7, DecidedStepIsDecided DEF NodesAreDecided
<1>3. QED
  BY <1>1, <1>2

LEMMA HousekeepingDecides ==
  ASSUME Advancing, \/ Forget \/ ChangeDefinition \/ Crash \/ Boot \/ Reconcile
                    \/ ReconcileSchedules \/ \E j \in Jobs : Send(j) \/ Expire(j)
  PROVE  NodesAreDecided'
<1> USE KnownDecided
<1>1. CASE Crash
  <2>1. /\ runner'[1].pc = "idle" /\ row' = row /\ Nodes' = Nodes
        /\ \A u \in Responders : answer'[u].pc = "idle"
    BY <1>1, IdleTypes, SetsStay DEF Crash, durable
  <2>2. DecidedStep
    BY <2>1 DEF NodesAreDecided, DecidedStep, Acting
  <2>3. QED
    BY <2>1, <2>2, DecidedStepIsDecided
<1>2. CASE ~Crash
  <2>1. /\ Nodes' = Nodes /\ UNCHANGED << runner, answer >>
        /\ row' = row \/ (row.status = "queued" /\ row' = [row EXCEPT !.status = "failed"])
    BY <1>2, SetsStay DEF Forget, Reconcile, ChangeDefinition, ReconcileSchedules, Boot, Send, Expire,
         Rest, Dispatch, FailQueued, durable, requests
  <2>2. row' = row \/ row'.status = "failed"
    BY <2>1 DEF Rows
  <2>3. DecidedStep
    BY <2>1, <2>2 DEF NodesAreDecided, DecidedStep
  <2>4. QED
    BY <2>1, <2>3, DecidedStepIsDecided DEF NodesAreDecided
<1>3. QED
  BY <1>1, <1>2

LEMMA GraphStays ==
  ASSUME Advancing, [NextAutomation]_autVars
  PROVE  graph' = graph
<1>1. ASSUME NEW s \in Slots, Runs(s) \/ TimesOut(s) PROVE graph' = graph
  BY <1>1, RunsBystand DEF Bystands
<1>2. CASE Requests
  BY <1>2 DEF Requests, CancelRead, CancelJob, CancelRuns, CancelWrite, CancelAbort, AnswerWrite,
       AnswerRead, Send
<1>3. CASE \/ Forget \/ ChangeDefinition \/ Crash \/ Boot \/ Reconcile \/ ReconcileSchedules
           \/ \E j \in Jobs : Expire(j)
  BY <1>3 DEF Forget, ChangeDefinition, Crash, Boot, Reconcile, ReconcileSchedules, Expire, Rest
<1>4. CASE UNCHANGED autVars
  BY <1>4 DEF autVars
<1>5. QED
  BY <1>1, <1>2, <1>3, <1>4 DEF NextAutomation

LEMMA StepsAdvance ==
  ASSUME Advancing, [NextAutomation]_autVars
  PROVE  Advancing'
<1> USE KnownDecided
<1>1. Sound' /\ graph' = graph
  BY StepsStaySound, GraphStays
<1>2. OrderOK'
  BY <1>1 DEF OrderOK, Arranged, Incoming, Nodes, NodesOf
<1>3. CASE Runs(1) \/ TimesOut(1)
  <2>1. answer' = answer /\ Nodes' = Nodes
    BY <1>3, RunsBystand, SetsStay DEF Bystands
  <2>2. QED
    BY <1>1, <1>2, <1>3, <2>1, RunsDecide, DecidedStepIsDecided DEF Advancing, NodesAreDecided
<1>4. CASE Requests
  BY <1>1, <1>2, <1>4, CancelDecides, AnswerDecides, HousekeepingDecides DEF Requests, Advancing
<1>5. CASE \/ Forget \/ ChangeDefinition \/ Crash \/ Boot \/ Reconcile \/ ReconcileSchedules
           \/ \E j \in Jobs : Expire(j)
  BY <1>1, <1>2, <1>5, HousekeepingDecides DEF Advancing
<1>6. CASE UNCHANGED autVars
  <2>1. UNCHANGED << row, runner, answer >> /\ Nodes' = Nodes
    BY <1>6, SetsStay DEF autVars, durable, requests
  <2>2. NodesAreDecided'
    BY <2>1 DEF NodesAreDecided, Decided, NobodyWaits, DecidedOrAsked, DecidedBut
  <2>3. QED
    BY <1>1, <1>2, <2>2 DEF Advancing
<1>7. \A s \in Slots : s = 1
  BY OneSlot DEF Sound
<1>8. QED
  BY <1>3, <1>4, <1>5, <1>6, <1>7 DEF NextAutomation

LEMMA InitAdvances ==
  ASSUME OneDelivery, InitAutomation
  PROVE  Advancing
<1>1. Sound /\ OrderOK /\ Typed /\ 1 \in Slots
  BY InitIsSound, InitIsArranged, OneSlot DEF Sound
<1>2. runner[1].pc = "idle" /\ \A u \in Responders : answer[u].pc = "idle"
  BY <1>1, IdleTypes DEF InitAutomation
<1>3. row.status \in { "none", "queued" } /\ row.st = Fresh(graph)
  BY IdleTypes DEF InitAutomation, NoRow
<1>4. Decided(Fresh(graph))
  BY DEF Decided, Fresh, Quiet, Nodes
<1>5. NodesAreDecided
  BY <1>2, <1>3, <1>4 DEF NodesAreDecided, Acting
<1>6. QED
  BY <1>1, <1>5 DEF Advancing

(* the runner's loop never meets undecided nodes it cannot choose from,      *)
(* whatever was skipped, failed, answered or interrupted: the error at the   *)
(* end of findNextNode is not reached.                                       *)
THEOREM LoopsAreNeverStuck ==
  ASSUME OneDelivery
  PROVE  SpecAutomation => []NeverStuck
<1>1. InitAutomation => Advancing
  BY InitAdvances
<1>2. Advancing /\ [NextAutomation]_autVars => Advancing'
  BY StepsAdvance
<1>3. Advancing => NeverStuck
  BY OneSlot DEF Advancing, Sound, NodesAreDecided, NeverStuck
<1>4. QED
  BY <1>1, <1>2, <1>3, PTL DEF SpecAutomation
===============================================================================
