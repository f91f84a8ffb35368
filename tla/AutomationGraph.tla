--------------------------- MODULE AutomationGraph ---------------------------
(***************************************************************************)
(* What the compiler of automations accepts and the order it computes       *)
(*   apps/server/src/automations/automationCompiler.ts                      *)
(* and how the runner picks the next node from it                           *)
(*   apps/server/src/automations/automationRunner.ts   findNextNode         *)
(*                                                                          *)
(* A graph is a record of its nodes' types and its edges, each a source, a  *)
(* port and a target.  Node ids are numbers, which sort() orders; the port  *)
(* "success" is the port "default" by its other name.  asks are its tools    *)
(* that need an approval, reads those that only read, retried the nodes     *)
(* with more than one attempt.  Bindings, arguments and schemas of the      *)
(* nodes are left out.                                                      *)
(***************************************************************************)
EXTENDS Naturals, Sequences, FiniteSets, FiniteSetsExt

NodesOf(g) == DOMAIN g.type
OfType(g, t) == { n \in NodesOf(g) : g.type[n] = t }
Outgoing(g, n) == { e \in g.edges : e[1] = n }
Incoming(g, n) == { e \in g.edges : e[3] = n }
OnPort(g, n, port) == { e \in Outgoing(g, n) : e[2] = port }

AllowedPorts(t) ==
  CASE t = "condition" -> { "true", "false" }
    [] t = "approval" -> { "approved", "rejected" }
    [] t \in { "tool", "agent" } -> { "default", "error" }
    [] OTHER -> { "default" }
RequiredPorts(t) ==
  IF t \in { "condition", "approval", "trigger" } THEN AllowedPorts(t) ELSE {}

(* Kahn's algorithm: of the nodes whose sources are all placed, the least.   *)
ReadyNodes(g, placed) ==
  { n \in NodesOf(g) \ placed : \A e \in Incoming(g, n) : e[1] \in placed }
TopologicalOrder(g) ==
  LET order[k \in 0..Cardinality(NodesOf(g))] ==
        IF k = 0 THEN << >>
        ELSE LET before == order[k - 1]
                 ready == ReadyNodes(g, { before[i] : i \in 1..Len(before) })
             IN IF ready = {} THEN before ELSE Append(before, Min(ready))
  IN order[Cardinality(NodesOf(g))]

Reachable(g) ==
  LET within[k \in 0..Cardinality(NodesOf(g))] ==
        IF k = 0 THEN OfType(g, "trigger")
        ELSE within[k - 1] \cup { e[3] : e \in { f \in g.edges : f[1] \in within[k - 1] } }
  IN within[Cardinality(NodesOf(g))]

ValidGraph(g) ==
  /\ Cardinality(OfType(g, "trigger")) = 1
  /\ OfType(g, "output") # {}
  /\ \A e \in g.edges : /\ { e[1], e[3] } \subseteq NodesOf(g)
                        /\ e[1] # e[3]
                        /\ e[2] \in AllowedPorts(g.type[e[1]])
  /\ \A n \in NodesOf(g) :
       /\ (g.type[n] = "output") = (Outgoing(g, n) = {})
       /\ \A port \in RequiredPorts(g.type[n]) : Cardinality(OnPort(g, n, port)) = 1
       /\ g.type[n] \in { "tool", "agent" } => /\ OnPort(g, n, "default") # {}
                                               /\ Cardinality(OnPort(g, n, "error")) <= 1
  /\ g.retried \subseteq g.reads
  /\ Len(TopologicalOrder(g)) = Cardinality(NodesOf(g))
  /\ Reachable(g) = NodesOf(g)

(* compile: a graph with the order of its nodes *)
Compiled(g) ==
  [type |-> g.type, edges |-> g.edges, asks |-> g.asks, reads |-> g.reads,
   retried |-> g.retried, order |-> TopologicalOrder(g)]

-------------------------------------------------------------------------------
(* findNextNode: g is compiled, st.nodes is the status of every node and     *)
(* st.ports the ports its result selected.                                   *)
SettledUnlessSkipped == { "completed", "failed", "cancelled" }
Settled == { "completed", "skipped", "failed", "cancelled" }

SourcesSettled(g, st, n) == \A e \in Incoming(g, n) : st.nodes[e[1]] \in Settled
IsActive(g, st, n) ==
  Incoming(g, n) = {} \/ \E e \in Incoming(g, n) : e[2] \in st.ports[e[1]]

(* the places of the order where a pending node may be decided; an id the    *)
(* graph does not have is an error                                           *)
Candidates(g, st) ==
  { i \in 1..Len(g.order) : /\ g.order[i] \in NodesOf(g)
                            /\ st.nodes[g.order[i]] = "pending"
                            /\ SourcesSettled(g, st, g.order[i]) }
HasNext(g, st) == Candidates(g, st) # {}
NextNode(g, st) == g.order[Min(Candidates(g, st))]
===============================================================================
