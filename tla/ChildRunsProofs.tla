-------------------------- MODULE ChildRunsProofs --------------------------
(***************************************************************************)
(* Proofs about ChildRuns, for any finite sets of children and messages,     *)
(* any agents, any budget and any number of crashes: the root budget counts  *)
(* the rows it limits, a child is driven by one task at a time, a running    *)
(* child has one, and what is recorded as delivered was an input of its      *)
(* receiver.                                                                 *)
(***************************************************************************)
EXTENDS ChildRuns, FiniteSetTheorems, WellFoundedInduction, TLAPS

(* The operand of each step of a control call.                               *)
OpsAreWellFormed ==
  /\ \A a \in Agents :
       /\ op[a].pc = "creating" => op[a].call \in SpawnCalls
       /\ op[a].pc \in { "created", "appending", "appended", "steering", "marking",
                         "cancelling" } =>
            op[a].child \in Children /\ Exists(op[a].child)
       /\ op[a].pc \in { "appending", "appended", "steering", "marking" } =>
            op[a].msg \in Messages
       /\ op[a].pc = "appending" => msgTo[op[a].msg] \in { None, op[a].child }
       /\ op[a].pc \in { "appended", "steering", "marking" } =>
            msgTo[op[a].msg] = op[a].child
       /\ op[a].pc = "marking" => op[a].msg \in steered[op[a].child]
  /\ \A a, b \in Agents : op[a].msg = op[b].msg /\ op[a].msg \in Messages => a = b

(* A task has a row; a decision is accepted for a child without a task; a    *)
(* process that is down does nothing.                                        *)
TasksAreWellFormed ==
  /\ \A c \in Children : Active(c) => Exists(c)
  /\ \A c \in Children : launching[c] => Exists(c) /\ ~Active(c)
  /\ ~up => /\ \A c \in Children : ~Active(c) /\ ~launching[c]
            /\ \A a \in Agents : op[a].pc = "idle"

(* A running child is inside its task, before the write that ends it.        *)
RunningIsInside ==
  \A c \in Children :
    status[c] = "running" => ~up \/ exec[c].pc \notin { "off", "closing", "settled" }

(* A message has a receiver from its first write on; what a task has listed  *)
(* is addressed to its child, and the one it has steered is the first.       *)
DeliveriesAreAddressed ==
  /\ \A m \in Messages : msgTo[m] = None <=> msgStatus[m] = "absent"
  /\ \A c \in Children :
       /\ exec[c].deliver \subseteq To(c)
       /\ exec[c].pc \in { "delivering", "delivered" } => exec[c].deliver # {}
       /\ exec[c].pc = "delivered" => NextToDeliver(c) \in steered[c]

ChildInv ==
  /\ ChildTypeOK
  /\ OpsAreWellFormed
  /\ TasksAreWellFormed
  /\ RunningIsInside
  /\ DeliveriesAreAddressed
  /\ DeliveredWasSteered
  /\ BudgetMatchesRows

-------------------------------------------------------------------------------
(* The budget. *)

ActiveRows == { c \in Children : status[c] \in BudgetActive }
Rows == { c \in Children : Exists(c) }

LEMMA RowsAreFinite ==
  /\ IsFiniteSet(ActiveRows) /\ IsFiniteSet(Rows) /\ IsFiniteSet(Orphans)
  /\ Cardinality(ActiveRows) \in Nat /\ Cardinality(Rows) \in Nat
<1>1. ActiveRows \in SUBSET Children /\ Rows \in SUBSET Children /\ Orphans \in SUBSET Children
  BY DEF ActiveRows, Rows, Orphans
<1>2. IsFiniteSet(ActiveRows) /\ IsFiniteSet(Rows) /\ IsFiniteSet(Orphans)
  BY <1>1, FS_Subset, IdsAreFinite
<1> QED
  BY <1>2, FS_CardinalityType

(* One row takes another status, and the counter moves with it. *)
LEMMA StatusIsCounted ==
  ASSUME ChildTypeOK, BudgetMatchesRows, NEW c \in Children, NEW s \in ChildStatus,
         Exists(c), s # "absent", SetStatus(c, s)
  PROVE  /\ status' = [status EXCEPT ![c] = s]
         /\ status' \in [Children -> ChildStatus]
         /\ totalChildren' \in Nat /\ activeChildren' \in Nat
         /\ \A d \in Children : Exists(d)' <=> Exists(d)
         /\ BudgetMatchesRows'
<1>1. /\ status' = [status EXCEPT ![c] = s] /\ status \in [Children -> ChildStatus]
      /\ activeChildren' = activeChildren + Delta(status[c], s)
      /\ totalChildren' = totalChildren
      /\ Delta(status[c], s) = 1 => activeChildren < MaxConcurrent
  BY DEF SetStatus, MaySetStatus, ChildTypeOK
<1>2. \A d \in Children : Exists(d)' <=> Exists(d)
  BY <1>1 DEF Exists
<1>3. { d \in Children : Exists(d)' } = Rows
  BY <1>2 DEF Rows
<1>4. activeChildren = Cardinality(ActiveRows) /\ activeChildren =< MaxConcurrent
      /\ totalChildren = Cardinality(Rows) /\ totalChildren =< MaxTotal
  BY DEF BudgetMatchesRows, ActiveRows, Rows
<1>5. activeChildren' = Cardinality({ d \in Children : status'[d] \in BudgetActive })
      /\ activeChildren' \in Nat /\ activeChildren' =< MaxConcurrent
  <2> DEFINE After == { d \in Children : status'[d] \in BudgetActive }
  <2>1. CASE status[c] \notin BudgetActive /\ s \in BudgetActive
    <3>1. After = ActiveRows \cup { c } /\ c \notin ActiveRows
      BY <1>1, <2>1 DEF ActiveRows
    <3>2. Cardinality(After) = Cardinality(ActiveRows) + 1
      BY <3>1, FS_AddElement, RowsAreFinite
    <3>3. activeChildren' = activeChildren + 1 /\ activeChildren < MaxConcurrent
      BY <1>1, <2>1 DEF Delta
    <3> QED
      BY <1>4, <3>2, <3>3, RowsAreFinite, BudgetLimits
  <2>2. CASE status[c] \in BudgetActive /\ s \notin BudgetActive
    <3>1. After = ActiveRows \ { c } /\ c \in ActiveRows
      BY <1>1, <2>2 DEF ActiveRows
    <3>2. IsFiniteSet(After) /\ Cardinality(After) = Cardinality(ActiveRows) - 1
      BY <3>1, FS_RemoveElement, RowsAreFinite
    <3>3. Cardinality(After) \in Nat
      BY <3>2, FS_CardinalityType
    <3>4. activeChildren' = activeChildren - 1
      BY <1>1, <1>4, <2>2, RowsAreFinite DEF Delta
    <3> QED
      BY <1>4, <3>2, <3>3, <3>4, RowsAreFinite, BudgetLimits
  <2>3. CASE status[c] \in BudgetActive <=> s \in BudgetActive
    <3>1. After = ActiveRows
      BY <1>1, <2>3 DEF ActiveRows
    <3>2. activeChildren' = activeChildren
      BY <1>1, <1>4, <2>3, RowsAreFinite DEF Delta
    <3> QED
      BY <1>4, <3>1, <3>2, RowsAreFinite
  <2> QED
    BY <2>1, <2>2, <2>3
<1>6. totalChildren' \in Nat
  BY <1>1 DEF ChildTypeOK
<1>7. BudgetMatchesRows'
  BY <1>1, <1>3, <1>4, <1>5 DEF BudgetMatchesRows
<1>8. status' \in [Children -> ChildStatus]
  BY <1>1
<1> QED
  BY <1>1, <1>2, <1>5, <1>6, <1>7, <1>8

LEMMA InsertIsCounted ==
  ASSUME ChildTypeOK, BudgetMatchesRows, NEW c \in Children, NEW s \in SpawnCalls,
         InsertChild(c, s)
  PROVE  /\ status' = [status EXCEPT ![c] = "queued"]
         /\ status[c] = "absent"
         /\ status' \in [Children -> ChildStatus]
         /\ spawnCall' \in [Children -> SpawnCalls \cup { None }]
         /\ totalChildren' \in Nat /\ activeChildren' \in Nat
         /\ BudgetMatchesRows'
<1>1. /\ status' = [status EXCEPT ![c] = "queued"] /\ status[c] = "absent"
      /\ totalChildren' = totalChildren + 1 /\ activeChildren' = activeChildren + 1
      /\ totalChildren < MaxTotal /\ activeChildren < MaxConcurrent
      /\ spawnCall' = [spawnCall EXCEPT ![c] = s]
  BY DEF InsertChild, SpawnCapacity
<1>2. status \in [Children -> ChildStatus] /\ spawnCall \in [Children -> SpawnCalls \cup { None }]
      /\ totalChildren \in Nat /\ activeChildren \in Nat /\ "queued" \in ChildStatus
  BY DEF ChildTypeOK, ChildStatus, BudgetActive
<1>3. { d \in Children : status'[d] \in BudgetActive } = ActiveRows \cup { c } /\ c \notin ActiveRows
  BY <1>1, <1>2 DEF ActiveRows, BudgetActive
<1>4. { d \in Children : Exists(d)' } = Rows \cup { c } /\ c \notin Rows
  BY <1>1, <1>2 DEF Rows, Exists
<1>5. /\ Cardinality(ActiveRows \cup { c }) = Cardinality(ActiveRows) + 1
      /\ Cardinality(Rows \cup { c }) = Cardinality(Rows) + 1
  BY <1>3, <1>4, FS_AddElement, RowsAreFinite
<1>6. activeChildren = Cardinality(ActiveRows) /\ totalChildren = Cardinality(Rows)
  BY DEF BudgetMatchesRows, ActiveRows, Rows
<1>7. /\ activeChildren + 1 =< MaxConcurrent /\ totalChildren + 1 =< MaxTotal
  BY <1>1, <1>2, BudgetLimits
<1>8. BudgetMatchesRows'
  BY <1>1, <1>3, <1>4, <1>5, <1>6, <1>7 DEF BudgetMatchesRows
<1> QED
  BY <1>1, <1>2, <1>8

(* Recovery takes every orphan out of the count. *)
LEMMA RecoveryIsCounted ==
  ASSUME ChildTypeOK, BudgetMatchesRows, NEW r \in SUBSET Orphans, Recover(r),
         totalChildren' = totalChildren
  PROVE  /\ status' \in [Children -> ChildStatus]
         /\ \A c \in Children : Exists(c)' <=> Exists(c)
         /\ \A c \in Children : status'[c] # "running"
         /\ activeChildren' \in Nat
         /\ BudgetMatchesRows'
<1>1. status' = RecoveredAs(r) /\ status \in [Children -> ChildStatus]
      /\ activeChildren' = activeChildren - Cardinality(Orphans)
  BY DEF Recover, ChildTypeOK
<1>2. \A c \in Children :
        status'[c] = IF c \in Orphans
                     THEN IF c \in r THEN "requires_action" ELSE "interrupted"
                     ELSE status[c]
  BY <1>1 DEF RecoveredAs
<1>3. status' \in [Children -> ChildStatus]
  BY <1>1, <1>2 DEF RecoveredAs, ChildStatus, Terminal
<1>4. \A c \in Children : (Exists(c)' <=> Exists(c)) /\ status'[c] # "running"
  BY <1>2 DEF Exists, Orphans
<1>5. { c \in Children : Exists(c)' } = Rows
  BY <1>4 DEF Rows
<1>6. { c \in Children : status'[c] \in BudgetActive } = ActiveRows \ Orphans
      /\ Orphans \subseteq ActiveRows
  BY <1>2 DEF ActiveRows, Orphans, BudgetActive
<1>7. Cardinality(ActiveRows \ Orphans) = Cardinality(ActiveRows) - Cardinality(Orphans)
  <2>1. ActiveRows \cap Orphans = Orphans
    BY <1>6
  <2> QED
    BY <2>1, FS_Difference, RowsAreFinite
<1>8. Cardinality(ActiveRows \ Orphans) \in Nat /\ Cardinality(Orphans) \in Nat
  <2>1. IsFiniteSet(ActiveRows \ Orphans)
    BY RowsAreFinite, FS_Difference
  <2> QED
    BY <2>1, RowsAreFinite, FS_CardinalityType
<1>9. activeChildren = Cardinality(ActiveRows) /\ totalChildren = Cardinality(Rows)
      /\ activeChildren =< MaxConcurrent /\ totalChildren =< MaxTotal
  BY DEF BudgetMatchesRows, ActiveRows, Rows
<1>10. activeChildren' = Cardinality(ActiveRows \ Orphans) /\ activeChildren' =< MaxConcurrent
  BY <1>1, <1>7, <1>8, <1>9, RowsAreFinite, BudgetLimits
<1>11. BudgetMatchesRows'
  BY <1>5, <1>6, <1>9, <1>10 DEF BudgetMatchesRows
<1> QED
  BY <1>3, <1>4, <1>8, <1>10, <1>11

-------------------------------------------------------------------------------
(* What a step does to a task and to a control call. *)

LEMMA TaskMoves ==
  ASSUME exec \in [Children -> ChildTasks], NEW c \in Children, NEW pc \in ExecPc,
         Goto(c, pc)
  PROVE  /\ exec' \in [Children -> ChildTasks]
         /\ \A d \in Children : d # c => exec'[d] = exec[d]
         /\ exec'[c].pc = pc /\ exec'[c].deliver = exec[c].deliver
         /\ exec'[c].run = exec[c].run /\ exec'[c].accepting = exec[c].accepting
<1>1. exec[c] \in ChildTasks
  OBVIOUS
<1>2. [exec[c] EXCEPT !.pc = pc] \in ChildTasks
  BY <1>1 DEF ChildTasks
<1>3. exec' = [exec EXCEPT ![c] = [exec[c] EXCEPT !.pc = pc]]
  BY DEF Goto
<1> QED
  BY <1>1, <1>2, <1>3 DEF ChildTasks

LEMMA TaskFinishes ==
  ASSUME exec \in [Children -> ChildTasks], NEW c \in Children, Finish(c)
  PROVE  /\ exec' \in [Children -> ChildTasks]
         /\ \A d \in Children : d # c => exec'[d] = exec[d]
         /\ exec'[c].pc = "closing" /\ exec'[c].deliver = exec[c].deliver
<1>1. exec[c] \in ChildTasks
  OBVIOUS
<1>2. [exec[c] EXCEPT !.pc = "closing", !.aborted = FALSE] \in ChildTasks
  BY <1>1 DEF ChildTasks, ExecPc
<1>3. exec' = [exec EXCEPT ![c] = [exec[c] EXCEPT !.pc = "closing", !.aborted = FALSE]]
  BY DEF Finish
<1> QED
  BY <1>1, <1>2, <1>3 DEF ChildTasks

LEMMA OffIsATask == Off \in ChildTasks /\ Off.pc = "off" /\ Off.deliver = {}
BY DEF Off, ChildTasks, ExecPc, ChildStatus

LEMMA IdleIsACall ==
  Idle \in ControlCalls /\ Idle.pc = "idle" /\ Idle.msg = None /\ Idle.child = None
BY DEF Idle, ControlCalls, OpPc

(* A task that has just been started. *)
Starts(c) ==
  /\ exec' \in [Children -> ChildTasks]
  /\ \A d \in Children : d # c => exec'[d] = exec[d]
  /\ exec'[c].pc = "starting" /\ exec'[c].deliver = {}

LEMMA TaskStarts ==
  ASSUME exec \in [Children -> ChildTasks], NEW c \in Children, NEW reports \in BOOLEAN,
         NEW run \in BOOLEAN,
         exec' = [exec EXCEPT ![c] = [Off EXCEPT !.pc = "starting", !.reports = reports,
                                                 !.run = run]]
  PROVE  Starts(c)
<1> DEFINE e == [Off EXCEPT !.pc = "starting", !.reports = reports, !.run = run]
<1>1. e \in ChildTasks /\ e.pc = "starting" /\ e.deliver = {}
  BY DEF Off, ChildTasks, ExecPc, ChildStatus
<1> HIDE DEF e
<1>2. exec' = [exec EXCEPT ![c] = e]
  BY DEF e
<1> QED
  BY <1>1, <1>2 DEF Starts

LEMMA StartOrRefused ==
  ASSUME exec \in [Children -> ChildTasks],
         registry \in [Children -> { "none", "running", "retained" }],
         NEW c \in Children, StartOrRefuse(c)
  PROVE  /\ registry' \in [Children -> { "none", "running", "retained" }]
         /\ exec' = exec \/ (~IsActive(c) /\ Starts(c))
<1>1. CASE MayStart(c)
  <2>1. /\ exec' = [exec EXCEPT ![c] = [Off EXCEPT !.pc = "starting", !.reports = TRUE,
                                                   !.run = TRUE]]
        /\ registry' = [registry EXCEPT ![c] = "running"]
    BY <1>1 DEF StartOrRefuse, Start
  <2> QED
    BY <1>1, <2>1, TaskStarts DEF MayStart
<1>2. CASE ~MayStart(c)
  BY <1>2 DEF StartOrRefuse
<1> QED
  BY <1>1, <1>2

(* A control call takes the record o. *)
LEMMA CallMoves ==
  ASSUME op \in [Agents -> ControlCalls], NEW a \in Agents, NEW o \in ControlCalls,
         op' = [op EXCEPT ![a] = o]
  PROVE  /\ op' \in [Agents -> ControlCalls]
         /\ op'[a] = o /\ \A b \in Agents : b # a => op'[b] = op[b]
OBVIOUS

LEMMA CallGoesOn ==
  ASSUME op \in [Agents -> ControlCalls], NEW a \in Agents, NEW pc \in OpPc,
         op' = [op EXCEPT ![a].pc = pc]
  PROVE  /\ op' \in [Agents -> ControlCalls]
         /\ op'[a].pc = pc /\ op'[a].msg = op[a].msg /\ op'[a].child = op[a].child
         /\ op'[a].call = op[a].call
         /\ \A b \in Agents : b # a => op'[b] = op[b]
<1>1. op[a] \in ControlCalls
  OBVIOUS
<1>2. [op[a] EXCEPT !.pc = pc] \in ControlCalls
  BY <1>1 DEF ControlCalls
<1>3. op' = [op EXCEPT ![a] = [op[a] EXCEPT !.pc = pc]]
  OBVIOUS
<1> QED
  BY <1>1, <1>2, <1>3 DEF ControlCalls

-------------------------------------------------------------------------------
(* Rows, counters and types. *)

Counted == BudgetMatchesRows' /\ \A c \in Children : Exists(c) => Exists(c)'

LEMMA SameRowsAreCounted ==
  ASSUME BudgetMatchesRows, UNCHANGED budget
  PROVE  Counted
BY DEF budget, BudgetMatchesRows, Counted, Exists

RowsOK ==
  /\ status' \in [Children -> ChildStatus]
  /\ spawnCall' \in [Children -> SpawnCalls \cup { None }]
  /\ totalChildren' \in Nat /\ activeChildren' \in Nat

MailOK ==
  /\ msgStatus' \in [Messages -> { "absent", "queued", "delivered", "checkpointed" }]
  /\ msgTo' \in [Messages -> Children \cup { None }]
  /\ msgSequence' \in [Messages -> Nat]
  /\ steered' \in [Children -> SUBSET Messages]

ProcessOK ==
  /\ up' \in BOOLEAN
  /\ registry' \in [Children -> { "none", "running", "retained" }]
  /\ launching' \in [Children -> BOOLEAN]
  /\ exec' \in [Children -> ChildTasks]
  /\ op' \in [Agents -> ControlCalls]
  /\ crashes' \in 0..MaxCrashes
  /\ completion' \in [Children -> Terminal \cup { None }]

LEMMA AgentsAreTyped ==
  ASSUME ChildTypeOK, OpsAreWellFormed, BudgetMatchesRows, NEW a \in Agents, AgentStep(a)
  PROVE  Counted /\ RowsOK /\ MailOK /\ ProcessOK
<1>1. /\ exec \in [Children -> ChildTasks] /\ op \in [Agents -> ControlCalls]
      /\ registry \in [Children -> { "none", "running", "retained" }]
      /\ op[a] \in ControlCalls
  BY DEF ChildTypeOK
<1>2. Idle \in ControlCalls
  BY IdleIsACall
<1>3. ASSUME NEW s \in SpawnCalls, SpawnRequest(a, s) PROVE Counted /\ RowsOK /\ MailOK /\ ProcessOK
  <2>1. [Idle EXCEPT !.pc = "creating", !.call = s] \in ControlCalls
    BY DEF Idle, ControlCalls, OpPc
  <2>2. UNCHANGED budget /\ op' \in [Agents -> ControlCalls]
    BY <1>1, <1>3, <2>1, CallMoves DEF SpawnRequest
  <2> QED
    BY <1>3, <2>2, SameRowsAreCounted
       DEF SpawnRequest, ChildTypeOK, RowsOK, MailOK, ProcessOK, budget, mail
<1>4. CASE CreateChild(a)
  <2>1. ASSUME NEW c \in Children, InsertChild(c, op[a].call),
               op' = [op EXCEPT ![a].pc = "created", ![a].child = c]
        PROVE  Counted /\ RowsOK /\ op' \in [Agents -> ControlCalls]
    <3>1. op[a].call \in SpawnCalls
      BY <1>4 DEF CreateChild, OpsAreWellFormed
    <3>2. RowsOK /\ BudgetMatchesRows' /\ status' = [status EXCEPT ![c] = "queued"]
      BY <2>1, <3>1, InsertIsCounted DEF RowsOK
    <3>3. Counted
      BY <3>2 DEF Counted, Exists, ChildTypeOK
    <3>4. [op[a] EXCEPT !.pc = "created", !.child = c] \in ControlCalls
      BY <1>1 DEF ControlCalls, OpPc
    <3>5. op' = [op EXCEPT ![a] = [op[a] EXCEPT !.pc = "created", !.child = c]]
      BY <2>1
    <3>6. op' \in [Agents -> ControlCalls]
      BY <1>1, <3>4, <3>5
    <3> QED
      BY <3>2, <3>3, <3>6
  <2>2. ASSUME op' = [op EXCEPT ![a] = Idle], UNCHANGED << spawnCall, budget >>
        PROVE  Counted /\ RowsOK /\ op' \in [Agents -> ControlCalls]
    <3>1. op' \in [Agents -> ControlCalls]
      BY <1>1, <1>2, <2>2
    <3>2. Counted
      BY <2>2, SameRowsAreCounted
    <3>3. RowsOK
      BY <2>2 DEF RowsOK, ChildTypeOK, budget
    <3> QED
      BY <3>1, <3>2, <3>3
  <2>3. MailOK /\ (op' \in [Agents -> ControlCalls] => ProcessOK)
    BY <1>4 DEF CreateChild, ChildTypeOK, MailOK, ProcessOK, mail
  <2> QED
    BY <1>4, <2>1, <2>2, <2>3 DEF CreateChild
<1>5. CASE StartSpawned(a)
  <2>1. op[a].child \in Children /\ StartOrRefuse(op[a].child)
    BY <1>5 DEF StartSpawned, OpsAreWellFormed
  <2>2. exec' \in [Children -> ChildTasks]
        /\ registry' \in [Children -> { "none", "running", "retained" }]
    BY <1>1, <2>1, StartOrRefused DEF Starts
  <2>3. op' \in [Agents -> ControlCalls]
    BY <1>1, <1>2, <1>5 DEF StartSpawned
  <2> QED
    BY <1>5, <2>2, <2>3, SameRowsAreCounted
       DEF StartSpawned, ChildTypeOK, RowsOK, MailOK, ProcessOK, budget, mail
<1>6. CASE CallFails(a)
  <2>1. op' \in [Agents -> ControlCalls]
    BY <1>1, <1>2, <1>6 DEF CallFails
  <2> QED
    BY <1>6, <2>1, SameRowsAreCounted
       DEF CallFails, ChildTypeOK, RowsOK, MailOK, ProcessOK, budget, mail
<1>7. ASSUME NEW m \in Messages, NEW c \in Children, NEW t \in BOOLEAN, SendRequest(a, m, c, t)
      PROVE Counted /\ RowsOK /\ MailOK /\ ProcessOK
  <2>1. [Idle EXCEPT !.pc = "appending", !.child = c, !.msg = m, !.trigger = t] \in ControlCalls
    BY DEF Idle, ControlCalls, OpPc
  <2>2. op' \in [Agents -> ControlCalls]
    BY <1>1, <1>7, <2>1 DEF SendRequest
  <2> QED
    BY <1>7, <2>2, SameRowsAreCounted
       DEF SendRequest, ChildTypeOK, RowsOK, MailOK, ProcessOK, budget, mail
<1>8. CASE AppendMessage(a)
  <2>1. op[a].msg \in Messages /\ op[a].child \in Children
    BY <1>8 DEF AppendMessage, OpsAreWellFormed
  <2>2. NextSequence(op[a].child) \in Nat
    <3>1. To(op[a].child) \in SUBSET Messages
      BY DEF To
    <3>2. Cardinality(To(op[a].child)) \in Nat
      BY <3>1, IdsAreFinite, FS_Subset, FS_CardinalityType
    <3> QED
      BY <3>2 DEF NextSequence
  <2>3. MailOK
    BY <1>8, <2>1, <2>2 DEF AppendMessage, ChildTypeOK, MailOK, mail
  <2>4. op' \in [Agents -> ControlCalls]
    <3>1. CASE op' = [op EXCEPT ![a] = Idle]
      BY <1>1, <1>2, <3>1
    <3>2. CASE op' = [op EXCEPT ![a].pc = "appended"]
      BY <1>1, <3>2, CallGoesOn DEF OpPc
    <3> QED
      BY <1>8, <3>1, <3>2 DEF AppendMessage
  <2> QED
    BY <1>8, <2>3, <2>4, SameRowsAreCounted DEF AppendMessage, ChildTypeOK, RowsOK, ProcessOK, budget
<1>9. CASE Trigger(a)
  <2>1. op[a].child \in Children
    BY <1>9 DEF Trigger, OpsAreWellFormed
  <2>2. exec' \in [Children -> ChildTasks]
        /\ registry' \in [Children -> { "none", "running", "retained" }]
    BY <1>1, <1>9, <2>1, StartOrRefused DEF Trigger, Starts
  <2>3. op' \in [Agents -> ControlCalls]
    <3>1. CASE op' = [op EXCEPT ![a] = Idle]
      BY <1>1, <1>2, <3>1
    <3>2. CASE op' = [op EXCEPT ![a].pc = "steering"]
      BY <1>1, <3>2, CallGoesOn DEF OpPc
    <3> QED
      BY <1>9, <3>1, <3>2 DEF Trigger
  <2> QED
    BY <1>9, <2>2, <2>3, SameRowsAreCounted
       DEF Trigger, ChildTypeOK, RowsOK, MailOK, ProcessOK, budget, mail
<1>10. CASE Steer(a)
  <2>1. op[a].msg \in Messages /\ op[a].child \in Children
    BY <1>10 DEF Steer, OpsAreWellFormed
  <2>2. op' \in [Agents -> ControlCalls]
    BY <1>1, <1>10, CallGoesOn DEF Steer, OpPc
  <2>3. steered' \in [Children -> SUBSET Messages]
    BY <1>10, <2>1 DEF Steer, ChildTypeOK
  <2> QED
    BY <1>10, <2>2, <2>3, SameRowsAreCounted
       DEF Steer, ChildTypeOK, RowsOK, MailOK, ProcessOK, budget, mail
<1>11. CASE MarkSteered(a)
  <2>1. op' \in [Agents -> ControlCalls]
    BY <1>1, <1>2, <1>11 DEF MarkSteered
  <2> QED
    BY <1>11, <2>1, SameRowsAreCounted
       DEF MarkSteered, MarkMessageDelivered, ChildTypeOK, RowsOK, MailOK, ProcessOK, budget, mail
<1>12. ASSUME NEW c \in Children, InterruptRequest(a, c)
       PROVE Counted /\ RowsOK /\ MailOK /\ ProcessOK
  <2>1. [Idle EXCEPT !.pc = "cancelling", !.child = c] \in ControlCalls
    BY DEF Idle, ControlCalls, OpPc
  <2>2. op' \in [Agents -> ControlCalls]
    BY <1>1, <1>12, <2>1 DEF InterruptRequest
  <2>3. exec' \in [Children -> ChildTasks]
    <3>1. exec[c] \in ChildTasks /\ [exec[c] EXCEPT !.aborted = TRUE] \in ChildTasks
      BY <1>1 DEF ChildTasks
    <3>2. exec' = exec \/ exec' = [exec EXCEPT ![c] = [exec[c] EXCEPT !.aborted = TRUE]]
      BY <1>12 DEF InterruptRequest
    <3> QED
      BY <1>1, <3>1, <3>2
  <2> QED
    BY <1>12, <2>2, <2>3, SameRowsAreCounted
       DEF InterruptRequest, ChildTypeOK, RowsOK, MailOK, ProcessOK, budget, mail
<1>13. CASE CancelChild(a)
  <2>1. op[a].child \in Children /\ Exists(op[a].child) /\ SetStatus(op[a].child, "cancelled")
    BY <1>13 DEF CancelChild, OpsAreWellFormed
  <2>2. Counted /\ RowsOK
    BY <1>13, <2>1, StatusIsCounted DEF Counted, RowsOK, CancelChild, ChildTypeOK, ChildStatus, Terminal
  <2>3. op' \in [Agents -> ControlCalls]
    BY <1>1, <1>2, <1>13 DEF CancelChild
  <2> QED
    BY <1>13, <2>2, <2>3 DEF CancelChild, ChildTypeOK, MailOK, ProcessOK, mail
<1> QED
  BY <1>3, <1>4, <1>5, <1>6, <1>7, <1>8, <1>9, <1>10, <1>11, <1>12, <1>13 DEF AgentStep

(* There is a first message among those left to deliver. *)
LEMMA NextIsListed ==
  ASSUME ChildTypeOK, DeliveriesAreAddressed, NEW c \in Children,
         exec[c].pc \in { "delivering", "delivered" }
  PROVE  NextToDeliver(c) \in exec[c].deliver
<1> DEFINE Left == exec[c].deliver
           Numbers == { msgSequence[m] : m \in Left }
<1>1. Left # {} /\ Left \subseteq Messages
  BY DEF DeliveriesAreAddressed, ChildTypeOK, ChildTasks
<1>2. Numbers # {} /\ Numbers \subseteq Nat
  BY <1>1 DEF ChildTypeOK
<1> HIDE DEF Numbers
<1>3. PICK n \in Numbers : \A k \in Numbers : <<k, n>> \notin OpToRel(<, Nat)
  BY <1>2, WFMin, NatLessThanWellFounded, Zenon
<1>4. \A k \in Numbers : ~(k < n)
  BY <1>2, <1>3, Zenon DEF OpToRel
<1>5. \A k \in Numbers : n =< k
  BY <1>2, <1>4
<1>6. PICK m \in Left : \A l \in Left : msgSequence[m] =< msgSequence[l]
  BY <1>5 DEF Numbers
<1> QED
  BY <1>6 DEF NextToDeliver

LEMMA TasksAreTyped ==
  ASSUME ChildTypeOK, TasksAreWellFormed, DeliveriesAreAddressed, BudgetMatchesRows,
          NEW c \in Children, TaskStep(c)
  PROVE  Counted /\ RowsOK /\ MailOK /\ ProcessOK
<1>1. /\ exec \in [Children -> ChildTasks] /\ exec[c] \in ChildTasks
      /\ registry \in [Children -> { "none", "running", "retained" }]
      /\ status \in [Children -> ChildStatus]
  BY DEF ChildTypeOK
<1>2. { "running", "waiting_approval", "clarification_needed", "completed", "failed", "cancelled" }
        \subseteq ChildStatus
  BY DEF ChildStatus, BudgetActive, Terminal
<1>3. exec[c].pc # "off" => Exists(c)
  BY DEF TasksAreWellFormed, Active
<1>4. CASE EnterRunning(c)
  <2>1. exec' \in [Children -> ChildTasks]
    BY <1>1, <1>4, TaskMoves DEF EnterRunning, ExecPc
  <2>2. Counted /\ RowsOK
    <3>1. CASE SetStatus(c, "running")
      BY <1>2, <1>3, <1>4, <3>1, StatusIsCounted
         DEF EnterRunning, Counted, RowsOK, ChildTypeOK
    <3>2. CASE UNCHANGED budget
      BY <1>4, <3>2, SameRowsAreCounted DEF EnterRunning, RowsOK, ChildTypeOK, budget
    <3> QED
      BY <1>4, <3>1, <3>2 DEF EnterRunning
  <2> QED
    BY <1>4, <2>1, <2>2 DEF EnterRunning, ChildTypeOK, MailOK, ProcessOK, mail
<1>5. CASE OpenSteering(c)
  <2> DEFINE e == [exec[c] EXCEPT !.pc = IF status[c] # "running" THEN "failing"
                                         ELSE IF exec[c].run THEN "listing" ELSE "working",
                                  !.accepting = (status[c] = "running")]
  <2>1. PICK pc \in { "failing", "listing", "working" }, b \in BOOLEAN :
          e = [exec[c] EXCEPT !.pc = pc, !.accepting = b]
    OBVIOUS
  <2>2. e \in ChildTasks
    BY <1>1, <2>1 DEF ChildTasks, ExecPc
  <2>3. exec' = [exec EXCEPT ![c] = e]
    BY <1>5 DEF OpenSteering
  <2> HIDE DEF e
  <2>4. exec' \in [Children -> ChildTasks]
    BY <1>1, <2>2, <2>3
  <2> QED
    BY <1>5, <2>4, SameRowsAreCounted
       DEF OpenSteering, ChildTypeOK, RowsOK, MailOK, ProcessOK, budget, mail
<1>6. CASE ListQueued(c)
  <2>1. Queued(c) \in SUBSET Messages
    BY DEF Queued, To
  <2>2. PICK pc \in { "working", "delivering" } :
          exec' = [exec EXCEPT ![c] = [exec[c] EXCEPT !.pc = pc, !.deliver = Queued(c)]]
    BY <1>6 DEF ListQueued, DeliveringOrWorking
  <2>3. [exec[c] EXCEPT !.pc = pc, !.deliver = Queued(c)] \in ChildTasks
    BY <1>1, <2>1 DEF ChildTasks, ExecPc
  <2>4. exec' \in [Children -> ChildTasks]
    BY <1>1, <2>2, <2>3
  <2> QED
    BY <1>6, <2>4, SameRowsAreCounted
       DEF ListQueued, ChildTypeOK, RowsOK, MailOK, ProcessOK, budget, mail
<1>7. CASE DeliverNext(c)
  <2>1. CASE CanSteer(c, NextToDeliver(c))
    <3>1. /\ steered' = [steered EXCEPT ![c] = steered[c] \cup { NextToDeliver(c) }]
          /\ exec' = [exec EXCEPT ![c] = [exec[c] EXCEPT !.pc = "delivered"]]
      BY <1>7, <2>1 DEF DeliverNext
    <3>2. exec' \in [Children -> ChildTasks]
      <4>1. [exec[c] EXCEPT !.pc = "delivered"] \in ChildTasks
        BY <1>1 DEF ChildTasks, ExecPc
      <4> QED
        BY <1>1, <3>1, <4>1
    <3>3. NextToDeliver(c) \in Messages
      <4>1. exec[c].deliver \subseteq Messages
        BY <1>1 DEF ChildTasks
      <4> QED
        BY <4>1, <1>7, NextIsListed DEF DeliverNext, DeliveriesAreAddressed
    <3>4. steered' \in [Children -> SUBSET Messages]
      BY <3>1, <3>3 DEF ChildTypeOK
    <3> QED
      BY <1>7, <3>2, <3>4, SameRowsAreCounted
         DEF DeliverNext, ChildTypeOK, RowsOK, MailOK, ProcessOK, budget, mail
  <2>2. CASE ~CanSteer(c, NextToDeliver(c))
    <3>1. /\ steered' = steered
          /\ exec' = [exec EXCEPT ![c] = [exec[c] EXCEPT !.pc = "failing", !.deliver = {}]]
      BY <1>7, <2>2 DEF DeliverNext
    <3>2. [exec[c] EXCEPT !.pc = "failing", !.deliver = {}] \in ChildTasks
      BY <1>1 DEF ChildTasks, ExecPc
    <3>3. exec' \in [Children -> ChildTasks]
      BY <1>1, <3>1, <3>2
    <3> QED
      BY <1>7, <3>1, <3>3, SameRowsAreCounted
         DEF DeliverNext, ChildTypeOK, RowsOK, MailOK, ProcessOK, budget, mail
  <2> QED
    BY <2>1, <2>2
<1>8. CASE MarkDelivered(c)
  <2>1. PICK pc \in { "working", "delivering" } :
          exec' = [exec EXCEPT ![c] = [exec[c] EXCEPT !.pc = pc,
                                         !.deliver = exec[c].deliver \ { NextToDeliver(c) }]]
    BY <1>8 DEF MarkDelivered, DeliveringOrWorking
  <2>2. [exec[c] EXCEPT !.pc = pc, !.deliver = exec[c].deliver \ { NextToDeliver(c) }]
          \in ChildTasks
    BY <1>1 DEF ChildTasks, ExecPc
  <2>3. exec' \in [Children -> ChildTasks]
    BY <1>1, <2>1, <2>2
  <2> QED
    BY <1>8, <2>3, SameRowsAreCounted
       DEF MarkDelivered, MarkMessageDelivered, ChildTypeOK, RowsOK, MailOK, ProcessOK, budget, mail
<1>9. CASE Ask(c) \/ Complete(c) \/ Fail(c)
  <2>1. PICK s \in { "waiting_approval", "clarification_needed", "completed", "failed",
                      "cancelled" } : SetStatus(c, s)
    BY <1>9 DEF Ask, Complete, Fail
  <2>2. Exists(c) /\ Finish(c)
    BY <1>3, <1>9 DEF Ask, Complete, Fail
  <2>3. Counted /\ RowsOK
    BY <1>2, <1>9, <2>1, <2>2, StatusIsCounted
       DEF Ask, Complete, Fail, Counted, RowsOK, ChildTypeOK
  <2>4. exec' \in [Children -> ChildTasks]
    BY <1>1, <2>2, TaskFinishes
  <2> QED
    BY <1>9, <2>3, <2>4 DEF Ask, Complete, Fail, ChildTypeOK, MailOK, ProcessOK, mail
<1>10. CASE Answer(c)
  <2>1. PICK pc \in { "acking", "completing" } :
          exec' = [exec EXCEPT ![c] = [exec[c] EXCEPT !.pc = pc, !.accepting = FALSE]]
    BY <1>10 DEF Answer
  <2>2. [exec[c] EXCEPT !.pc = pc, !.accepting = FALSE] \in ChildTasks
    BY <1>1 DEF ChildTasks, ExecPc
  <2>3. exec' \in [Children -> ChildTasks]
    BY <1>1, <2>1, <2>2
  <2> QED
    BY <1>10, <2>3, SameRowsAreCounted
       DEF Answer, ChildTypeOK, RowsOK, MailOK, ProcessOK, budget, mail
<1>11. CASE CheckpointDelivered(c)
  <2>1. exec' \in [Children -> ChildTasks]
    BY <1>1, <1>11, TaskMoves DEF CheckpointDelivered, ExecPc
  <2> QED
    BY <1>11, <2>1, SameRowsAreCounted
       DEF CheckpointDelivered, ChildTypeOK, RowsOK, MailOK, ProcessOK, budget
<1>12. CASE Fault(c)
  <2>1. exec' = [exec EXCEPT ![c] = [exec[c] EXCEPT !.pc = "failing", !.deliver = {}]]
    BY <1>12 DEF Fault
  <2>2. [exec[c] EXCEPT !.pc = "failing", !.deliver = {}] \in ChildTasks
    BY <1>1 DEF ChildTasks, ExecPc
  <2>3. exec' \in [Children -> ChildTasks]
    BY <1>1, <2>1, <2>2
  <2> QED
    BY <1>12, <2>3, SameRowsAreCounted
       DEF Fault, ChildTypeOK, RowsOK, MailOK, ProcessOK, budget, mail
<1>13. CASE Settle(c)
  <2>1. exec' = [exec EXCEPT ![c] = [exec[c] EXCEPT !.pc = "settled", !.accepting = FALSE,
                                                    !.saw = status[c]]]
    BY <1>13 DEF Settle
  <2>2. [exec[c] EXCEPT !.pc = "settled", !.accepting = FALSE, !.saw = status[c]] \in ChildTasks
    BY <1>1 DEF ChildTasks, ExecPc
  <2>3. exec' \in [Children -> ChildTasks]
    BY <1>1, <2>1, <2>2
  <2>4. registry' \in [Children -> { "none", "running", "retained" }]
    BY <1>1, <1>13 DEF Settle
  <2> QED
    BY <1>13, <2>3, <2>4, SameRowsAreCounted
       DEF Settle, ChildTypeOK, RowsOK, MailOK, ProcessOK, budget, mail
<1>14. CASE TaskEnds(c)
  <2>1. exec' \in [Children -> ChildTasks]
    BY <1>1, <1>14, OffIsATask DEF TaskEnds
  <2>2. completion' \in [Children -> Terminal \cup { None }]
    BY <1>14 DEF TaskEnds, ChildTypeOK
  <2> QED
    BY <1>14, <2>1, <2>2, SameRowsAreCounted
       DEF TaskEnds, ChildTypeOK, RowsOK, MailOK, ProcessOK, budget, mail
<1> QED
  BY <1>4, <1>5, <1>6, <1>7, <1>8, <1>9, <1>10, <1>11, <1>12, <1>13, <1>14 DEF TaskStep

LEMMA UsersAreTyped ==
  ASSUME ChildTypeOK, TasksAreWellFormed, BudgetMatchesRows, NEW c \in Children, UserStep(c)
  PROVE  Counted /\ RowsOK /\ MailOK /\ ProcessOK
<1>1. /\ exec \in [Children -> ChildTasks]
      /\ registry \in [Children -> { "none", "running", "retained" }]
  BY DEF ChildTypeOK
<1>2. ASSUME NEW reports \in BOOLEAN, Resume(c, reports)
      PROVE  Counted /\ RowsOK /\ MailOK /\ ProcessOK
  <2>1. exec' \in [Children -> ChildTasks]
    BY <1>1, <1>2, TaskStarts DEF Resume, Start, Starts
  <2>2. registry' \in [Children -> { "none", "running", "retained" }]
    BY <1>1, <1>2 DEF Resume, Start
  <2> QED
    BY <1>2, <2>1, <2>2, SameRowsAreCounted
       DEF Resume, ChildTypeOK, RowsOK, MailOK, ProcessOK, budget, mail
<1>3. CASE AcceptDecision(c)
  BY <1>3, SameRowsAreCounted
     DEF AcceptDecision, ChildTypeOK, RowsOK, MailOK, ProcessOK, budget, mail
<1>4. CASE DecisionQueued(c)
  <2>1. launching' \in [Children -> BOOLEAN]
    BY <1>4 DEF DecisionQueued, ChildTypeOK
  <2>2. ASSUME SetStatus(c, "queued"), exec' = [exec EXCEPT ![c] = [Off EXCEPT !.pc = "starting"]]
        PROVE  Counted /\ RowsOK /\ exec' \in [Children -> ChildTasks]
    <3>1. [Off EXCEPT !.pc = "starting"] \in ChildTasks
      BY DEF Off, ChildTasks, ExecPc, ChildStatus
    <3>2. exec' \in [Children -> ChildTasks]
      BY <1>1, <2>2, <3>1
    <3>3. Exists(c) /\ "queued" \in ChildStatus
      BY <1>4 DEF DecisionQueued, TasksAreWellFormed, ChildStatus, BudgetActive
    <3>4. Counted /\ RowsOK
      BY <1>4, <2>2, <3>3, StatusIsCounted DEF DecisionQueued, Counted, RowsOK, ChildTypeOK
    <3> QED
      BY <3>2, <3>4
  <2>3. ASSUME UNCHANGED << budget, exec >>
        PROVE  Counted /\ RowsOK /\ exec' \in [Children -> ChildTasks]
    BY <1>1, <1>4, <2>3, SameRowsAreCounted DEF DecisionQueued, RowsOK, ChildTypeOK, budget
  <2>4. Counted /\ RowsOK /\ exec' \in [Children -> ChildTasks]
    BY <1>4, <2>2, <2>3 DEF DecisionQueued
  <2> QED
    BY <1>4, <2>1, <2>4 DEF DecisionQueued, ChildTypeOK, MailOK, ProcessOK, mail
<1>5. CASE RetentionExpires(c)
  BY <1>5, SameRowsAreCounted
     DEF RetentionExpires, ChildTypeOK, RowsOK, MailOK, ProcessOK, budget, mail
<1> QED
  BY <1>2, <1>3, <1>4, <1>5 DEF UserStep

LEMMA ProcessesAreTyped ==
  ASSUME ChildTypeOK, BudgetMatchesRows, Crash \/ Boot
  PROVE  Counted /\ RowsOK /\ MailOK /\ ProcessOK
<1>1. CASE Crash
  <2>1. exec' \in [Children -> ChildTasks] /\ op' \in [Agents -> ControlCalls]
    BY <1>1, OffIsATask, IdleIsACall DEF Crash
  <2>2. crashes' \in 0..MaxCrashes
    BY <1>1, BudgetLimits DEF Crash, ChildTypeOK
  <2> QED
    BY <1>1, <2>1, <2>2, SameRowsAreCounted
       DEF Crash, ChildTypeOK, RowsOK, MailOK, ProcessOK, budget, mail
<1>2. CASE Boot
  <2>1. PICK r \in SUBSET Orphans : Recover(r)
    BY <1>2 DEF Boot
  <2>2. Counted /\ RowsOK
    BY <1>2, <2>1, RecoveryIsCounted DEF Boot, Counted, RowsOK, ChildTypeOK
  <2>3. completion' \in [Children -> Terminal \cup { None }]
    BY <1>2 DEF Boot, ChildTypeOK
  <2> QED
    BY <1>2, <2>2, <2>3 DEF Boot, ChildTypeOK, MailOK, ProcessOK, mail
<1> QED
  BY <1>1, <1>2

-------------------------------------------------------------------------------
(* Control calls. *)

(* What no step takes back: rows, receivers and inputs. *)
Grows ==
  /\ \A c \in Children : Exists(c) => Exists(c)'
  /\ \A c \in Children : steered[c] \subseteq steered'[c]

CallOK(a) ==
  /\ op[a].pc = "creating" => op[a].call \in SpawnCalls
  /\ op[a].pc \in { "created", "appending", "appended", "steering", "marking",
                    "cancelling" } =>
       op[a].child \in Children /\ Exists(op[a].child)
  /\ op[a].pc \in { "appending", "appended", "steering", "marking" } =>
       op[a].msg \in Messages
  /\ op[a].pc = "appending" => msgTo[op[a].msg] \in { None, op[a].child }
  /\ op[a].pc \in { "appended", "steering", "marking" } =>
       msgTo[op[a].msg] = op[a].child
  /\ op[a].pc = "marking" => op[a].msg \in steered[op[a].child]

LEMMA OpsAreCalls ==
  ASSUME OpsAreWellFormed, NEW a \in Agents
  PROVE  CallOK(a)
BY DEF OpsAreWellFormed, CallOK

LEMMA OtherCallsStay ==
  ASSUME ChildTypeOK, OpsAreWellFormed, Grows, NEW b \in Agents, op'[b] = op[b],
         op[b].msg \in Messages => msgTo'[op[b].msg] = msgTo[op[b].msg]
  PROVE  CallOK(b)'
BY OpsAreCalls DEF CallOK, Grows

LEMMA CallsStay ==
  ASSUME ChildTypeOK, OpsAreWellFormed, Grows, op' = op, msgTo' = msgTo
  PROVE  OpsAreWellFormed'
BY DEF OpsAreWellFormed, Grows

LEMMA CallEnds ==
  ASSUME ChildTypeOK, OpsAreWellFormed, Grows, msgTo' = msgTo, NEW a \in Agents,
         op' = [op EXCEPT ![a] = Idle]
  PROVE  OpsAreWellFormed'
<1>1. op \in [Agents -> ControlCalls] /\ Idle \in ControlCalls
  BY IdleIsACall DEF ChildTypeOK
<1>2. op'[a] = Idle /\ \A b \in Agents : b # a => op'[b] = op[b]
  BY <1>1, CallMoves
<1>3. CallOK(a)'
  BY <1>2, IdleIsACall DEF CallOK
<1>4. \A b \in Agents : b # a => CallOK(b)'
  BY <1>2, OtherCallsStay
<1>5. \A b, d \in Agents : op'[b].msg = op'[d].msg /\ op'[b].msg \in Messages => b = d
  BY <1>2, IdleIsACall, NoneIsNobody DEF OpsAreWellFormed
<1> QED
  BY <1>3, <1>4, <1>5 DEF OpsAreWellFormed, CallOK

(* The call of a goes on with the same child and message. *)
LEMMA CallAdvances ==
  ASSUME ChildTypeOK, OpsAreWellFormed, Grows, NEW a \in Agents, CallOK(a)',
         \A b \in Agents : b # a => op'[b] = op[b],
         op'[a].msg = op[a].msg \/ op'[a].msg = None
           \/ \A b \in Agents : op[b].msg # op'[a].msg,
         \A b \in Agents : b # a /\ op[b].msg \in Messages =>
           msgTo'[op[b].msg] = msgTo[op[b].msg]
  PROVE  OpsAreWellFormed'
<1>1. \A b \in Agents : b # a => CallOK(b)'
  BY OtherCallsStay
<1>2. \A b, d \in Agents : op'[b].msg = op'[d].msg /\ op'[b].msg \in Messages => b = d
  BY NoneIsNobody DEF OpsAreWellFormed
<1> QED
  BY <1>1, <1>2 DEF OpsAreWellFormed, CallOK

LEMMA AgentsKeepOps ==
  ASSUME ChildTypeOK, OpsAreWellFormed, TasksAreWellFormed, DeliveriesAreAddressed, Counted,
         NEW a \in Agents, AgentStep(a)
  PROVE  OpsAreWellFormed'
<1>1. op \in [Agents -> ControlCalls] /\ op[a] \in ControlCalls
  BY DEF ChildTypeOK
<1>2. CallOK(a)
  BY OpsAreCalls
<1>3. steered' = steered => Grows
  BY DEF Grows, Counted
<1>4. ASSUME NEW s \in SpawnCalls, SpawnRequest(a, s) PROVE OpsAreWellFormed'
  <2> DEFINE o == [Idle EXCEPT !.pc = "creating", !.call = s]
  <2>1. o \in ControlCalls /\ o.pc = "creating" /\ o.call = s /\ o.msg = None
    BY DEF Idle, ControlCalls, OpPc
  <2>2. op' = [op EXCEPT ![a] = o]
    BY <1>4 DEF SpawnRequest
  <2> HIDE DEF o
  <2>3. op'[a] = o /\ \A b \in Agents : b # a => op'[b] = op[b]
    BY <1>1, <2>1, <2>2
  <2>4. CallOK(a)'
    BY <2>1, <2>3 DEF CallOK
  <2>5. Grows /\ msgTo' = msgTo
    BY <1>3, <1>4 DEF SpawnRequest, mail
  <2> QED
    BY <2>1, <2>3, <2>4, <2>5, CallAdvances
<1>5. CASE CreateChild(a)
  <2>1. Grows /\ msgTo' = msgTo
    BY <1>3, <1>5 DEF CreateChild, mail
  <2>2. ASSUME NEW c \in Children, InsertChild(c, op[a].call),
               op' = [op EXCEPT ![a].pc = "created", ![a].child = c]
        PROVE  OpsAreWellFormed'
    <3>1. op' = [op EXCEPT ![a] = [op[a] EXCEPT !.pc = "created", !.child = c]]
      BY <2>2
    <3>2. [op[a] EXCEPT !.pc = "created", !.child = c] \in ControlCalls
      BY <1>1 DEF ControlCalls, OpPc
    <3>3. /\ op'[a].pc = "created" /\ op'[a].child = c /\ op'[a].msg = op[a].msg
          /\ \A b \in Agents : b # a => op'[b] = op[b]
      BY <1>1, <3>1, <3>2 DEF ControlCalls
    <3>4. Exists(c)'
      BY <2>2 DEF InsertChild, Exists, ChildTypeOK
    <3>5. CallOK(a)'
      BY <3>3, <3>4 DEF CallOK
    <3> QED
      BY <2>1, <3>3, <3>5, CallAdvances
  <2>3. CASE op' = [op EXCEPT ![a] = Idle]
    BY <2>1, <2>3, CallEnds
  <2> QED
    BY <1>5, <2>2, <2>3 DEF CreateChild
<1>6. CASE StartSpawned(a) \/ CallFails(a) \/ MarkSteered(a) \/ CancelChild(a)
  <2>1. op' = [op EXCEPT ![a] = Idle] /\ msgTo' = msgTo /\ steered' = steered
    BY <1>6 DEF StartSpawned, CallFails, MarkSteered, MarkMessageDelivered, CancelChild, mail
  <2> QED
    BY <1>3, <2>1, CallEnds
<1>7. ASSUME NEW m \in Messages, NEW c \in Children, NEW t \in BOOLEAN, SendRequest(a, m, c, t)
      PROVE OpsAreWellFormed'
  <2> DEFINE o == [Idle EXCEPT !.pc = "appending", !.child = c, !.msg = m, !.trigger = t]
  <2>1. o \in ControlCalls /\ o.pc = "appending" /\ o.child = c /\ o.msg = m
    BY DEF Idle, ControlCalls, OpPc
  <2>2. op' = [op EXCEPT ![a] = o]
    BY <1>7 DEF SendRequest
  <2> HIDE DEF o
  <2>3. op'[a] = o /\ \A b \in Agents : b # a => op'[b] = op[b]
    BY <1>1, <2>1, <2>2
  <2>4. Grows /\ msgTo' = msgTo
    BY <1>3, <1>7 DEF SendRequest, mail
  <2>5. Exists(c)' /\ msgTo[m] \in { None, c } /\ \A b \in Agents : op[b].msg # m
    BY <1>7, <2>4 DEF SendRequest, Grows
  <2>6. CallOK(a)'
    BY <2>1, <2>3, <2>4, <2>5 DEF CallOK
  <2> QED
    BY <2>1, <2>3, <2>4, <2>5, <2>6, CallAdvances
<1>8. CASE AppendMessage(a)
  <2>1. /\ op[a].msg \in Messages /\ op[a].child \in Children /\ Exists(op[a].child)
        /\ msgTo[op[a].msg] \in { None, op[a].child }
    BY <1>2, <1>8 DEF CallOK, AppendMessage
  <2>2. msgTo' = IF msgStatus[op[a].msg] = "absent"
                 THEN [msgTo EXCEPT ![op[a].msg] = op[a].child] ELSE msgTo
    BY <1>8 DEF AppendMessage, mail
  <2>3. msgTo'[op[a].msg] = op[a].child
        /\ \A m \in Messages : m # op[a].msg => msgTo'[m] = msgTo[m]
    BY <2>1, <2>2 DEF ChildTypeOK, DeliveriesAreAddressed
  <2>4. Grows
    BY <1>3, <1>8 DEF AppendMessage
  <2>5. CASE op' = [op EXCEPT ![a] = Idle]
    <3>1. op'[a] = Idle /\ \A b \in Agents : b # a => op'[b] = op[b]
      BY <1>1, <2>5, IdleIsACall, CallMoves
    <3>2. CallOK(a)' /\ op'[a].msg = None
      BY <3>1, IdleIsACall DEF CallOK
    <3>3. \A b \in Agents : b # a /\ op[b].msg \in Messages => op[b].msg # op[a].msg
      BY <2>1 DEF OpsAreWellFormed
    <3> QED
      BY <2>3, <2>4, <3>1, <3>2, <3>3, CallAdvances
  <2>6. CASE op' = [op EXCEPT ![a].pc = "appended"]
    <3>1. /\ op'[a].pc = "appended" /\ op'[a].msg = op[a].msg /\ op'[a].child = op[a].child
          /\ \A b \in Agents : b # a => op'[b] = op[b]
      BY <1>1, <2>6, CallGoesOn DEF OpPc
    <3>2. CallOK(a)'
      BY <2>1, <2>3, <2>4, <3>1 DEF CallOK, Grows
    <3>3. \A b \in Agents : b # a /\ op[b].msg \in Messages => op[b].msg # op[a].msg
      BY <2>1 DEF OpsAreWellFormed
    <3> QED
      BY <2>3, <2>4, <3>1, <3>2, <3>3, CallAdvances
  <2> QED
    BY <1>8, <2>5, <2>6 DEF AppendMessage
<1>9. CASE Trigger(a)
  <2>1. Grows /\ msgTo' = msgTo
    BY <1>3, <1>9 DEF Trigger, mail
  <2>2. CASE op' = [op EXCEPT ![a] = Idle]
    BY <2>1, <2>2, CallEnds
  <2>3. CASE op' = [op EXCEPT ![a].pc = "steering"]
    <3>1. /\ op'[a].pc = "steering" /\ op'[a].msg = op[a].msg /\ op'[a].child = op[a].child
          /\ \A b \in Agents : b # a => op'[b] = op[b]
      BY <1>1, <2>3, CallGoesOn DEF OpPc
    <3>2. CallOK(a)'
      BY <1>2, <1>9, <2>1, <3>1 DEF CallOK, Grows, Trigger
    <3> QED
      BY <2>1, <3>1, <3>2, CallAdvances
  <2> QED
    BY <1>9, <2>2, <2>3 DEF Trigger
<1>10. CASE Steer(a)
  <2>1. /\ op[a].msg \in Messages /\ op[a].child \in Children /\ Exists(op[a].child)
        /\ msgTo[op[a].msg] = op[a].child
    BY <1>2, <1>10 DEF CallOK, Steer
  <2>2. /\ steered' = [steered EXCEPT ![op[a].child] = steered[op[a].child] \cup { op[a].msg }]
        /\ msgTo' = msgTo
    BY <1>10 DEF Steer, mail
  <2>3. Grows /\ op[a].msg \in steered'[op[a].child]
    BY <2>1, <2>2 DEF Grows, Counted, ChildTypeOK
  <2>4. /\ op'[a].pc = "marking" /\ op'[a].msg = op[a].msg /\ op'[a].child = op[a].child
        /\ \A b \in Agents : b # a => op'[b] = op[b]
    BY <1>1, <1>10, CallGoesOn DEF OpPc, Steer
  <2>5. CallOK(a)'
    BY <2>1, <2>2, <2>3, <2>4 DEF CallOK, Grows
  <2> QED
    BY <2>2, <2>3, <2>4, <2>5, CallAdvances
<1>11. ASSUME NEW c \in Children, InterruptRequest(a, c) PROVE OpsAreWellFormed'
  <2> DEFINE o == [Idle EXCEPT !.pc = "cancelling", !.child = c]
  <2>1. o \in ControlCalls /\ o.pc = "cancelling" /\ o.child = c /\ o.msg = None
    BY DEF Idle, ControlCalls, OpPc
  <2>2. op' = [op EXCEPT ![a] = o]
    BY <1>11 DEF InterruptRequest
  <2> HIDE DEF o
  <2>3. op'[a] = o /\ \A b \in Agents : b # a => op'[b] = op[b]
    BY <1>1, <2>1, <2>2
  <2>4. Grows /\ msgTo' = msgTo
    BY <1>3, <1>11 DEF InterruptRequest, mail
  <2>5. Exists(c)'
    BY <1>11, <2>4 DEF InterruptRequest, TasksAreWellFormed, Grows, Exists
  <2>6. CallOK(a)'
    BY <2>1, <2>3, <2>5 DEF CallOK
  <2> QED
    BY <2>1, <2>3, <2>4, <2>6, CallAdvances
<1> QED
  BY <1>4, <1>5, <1>6, <1>7, <1>8, <1>9, <1>10, <1>11 DEF AgentStep

LEMMA OthersKeepOps ==
  ASSUME ChildTypeOK, OpsAreWellFormed, Counted,
         \/ \E c \in Children : TaskStep(c) \/ UserStep(c)
         \/ Crash \/ Boot
  PROVE  OpsAreWellFormed'
<1>1. CASE Crash
  <2>1. \A a \in Agents : op'[a] = Idle
    BY <1>1 DEF Crash
  <2> QED
    BY <2>1, IdleIsACall, NoneIsNobody DEF OpsAreWellFormed
<1>2. ASSUME NEW c \in Children, DeliverNext(c) PROVE OpsAreWellFormed'
  <2>1. op' = op /\ msgTo' = msgTo
    BY <1>2 DEF DeliverNext, mail
  <2>2. Grows
    BY <1>2 DEF DeliverNext, Grows, Counted, ChildTypeOK
  <2> QED
    BY <2>1, <2>2, CallsStay
<1>3. ASSUME NEW c \in Children, TaskStep(c), ~DeliverNext(c) PROVE OpsAreWellFormed'
  <2>1. op' = op /\ msgTo' = msgTo /\ steered' = steered
    BY <1>3 DEF TaskStep, EnterRunning, OpenSteering, ListQueued, MarkDelivered,
       MarkMessageDelivered, Ask, Answer, CheckpointDelivered, Complete, Fault, Fail, Settle,
       TaskEnds, mail
  <2> QED
    BY <2>1, CallsStay DEF Grows, Counted
<1>4. ASSUME NEW c \in Children, UserStep(c) PROVE OpsAreWellFormed'
  <2>1. op' = op /\ msgTo' = msgTo /\ steered' = steered
    BY <1>4 DEF UserStep, Resume, AcceptDecision, DecisionQueued, RetentionExpires, mail
  <2> QED
    BY <2>1, CallsStay DEF Grows, Counted
<1>5. CASE Boot
  <2>1. op' = op /\ msgTo' = msgTo /\ steered' = steered
    BY <1>5 DEF Boot, mail
  <2> QED
    BY <2>1, CallsStay DEF Grows, Counted
<1> QED
  BY <1>1, <1>2, <1>3, <1>4, <1>5

-------------------------------------------------------------------------------
(* Tasks. *)

(* What an agent can do to the tasks: start one that nothing else drives.    *)
AgentEffect ==
  /\ up /\ up' /\ launching' = launching
  /\ \A c \in Children : status'[c] = "running" => status[c] = "running"
  /\ \A c \in Children :
       exec'[c].pc = exec[c].pc \/ (exec'[c].pc = "starting" /\ Exists(c) /\ ~IsActive(c))

LEMMA AgentsStartTasks ==
  ASSUME ChildTypeOK, OpsAreWellFormed, TasksAreWellFormed, NEW a \in Agents, AgentStep(a)
  PROVE  AgentEffect
<1>1. /\ exec \in [Children -> ChildTasks] /\ status \in [Children -> ChildStatus]
      /\ registry \in [Children -> { "none", "running", "retained" }] /\ up \in BOOLEAN
  BY DEF ChildTypeOK
<1>2. op[a].pc # "idle" => up
  BY DEF TasksAreWellFormed
<1>3. up /\ up' /\ launching' = launching
  <2>1. ASSUME NEW s \in SpawnCalls, SpawnRequest(a, s) PROVE up /\ up' /\ launching' = launching
    BY <2>1 DEF SpawnRequest
  <2>4. ASSUME NEW m \in Messages, NEW c \in Children, NEW t \in BOOLEAN, SendRequest(a, m, c, t)
        PROVE  up /\ up' /\ launching' = launching
    BY <2>4 DEF SendRequest
  <2>5. ASSUME NEW c \in Children, InterruptRequest(a, c)
        PROVE  up /\ up' /\ launching' = launching
    BY <2>5 DEF InterruptRequest
  <2>2. CASE CreateChild(a) \/ StartSpawned(a) \/ CallFails(a) \/ AppendMessage(a)
    BY <1>2, <2>2 DEF CreateChild, StartSpawned, CallFails, AppendMessage
  <2>3. CASE Trigger(a) \/ Steer(a) \/ MarkSteered(a) \/ CancelChild(a)
    BY <1>2, <2>3 DEF Trigger, Steer, MarkSteered, CancelChild
  <2> QED
    BY <2>1, <2>2, <2>3, <2>4, <2>5 DEF AgentStep
<1>4. CASE StartSpawned(a) \/ Trigger(a)
  <2>1. op[a].child \in Children /\ Exists(op[a].child) /\ status' = status
    BY <1>4 DEF StartSpawned, Trigger, OpsAreWellFormed, budget
  <2>2. exec' = exec \/ StartOrRefuse(op[a].child)
    BY <1>4 DEF StartSpawned, Trigger
  <2>3. exec' = exec \/ (~IsActive(op[a].child) /\ Starts(op[a].child))
    BY <1>1, <2>1, <2>2, StartOrRefused
  <2>4. \A c \in Children :
          exec'[c].pc = exec[c].pc \/ (exec'[c].pc = "starting" /\ Exists(c) /\ ~IsActive(c))
    BY <2>1, <2>3 DEF Starts
  <2> QED
    BY <1>3, <2>1, <2>4 DEF AgentEffect
<1>5. CASE CreateChild(a)
  <2>1. exec' = exec
    BY <1>5 DEF CreateChild
  <2>2. \A c \in Children : status'[c] = "running" => status[c] = "running"
    BY <1>1, <1>5 DEF CreateChild, InsertChild, budget
  <2> QED
    BY <1>3, <2>1, <2>2 DEF AgentEffect
<1>6. CASE CancelChild(a)
  <2>1. exec' = exec /\ status' = [status EXCEPT ![op[a].child] = "cancelled"]
    BY <1>6 DEF CancelChild, SetStatus
  <2>2. \A c \in Children : status'[c] = "running" => status[c] = "running"
    BY <1>1, <2>1
  <2> QED
    BY <1>3, <2>1, <2>2 DEF AgentEffect
<1>7. ASSUME NEW c \in Children, InterruptRequest(a, c) PROVE AgentEffect
  <2>1. exec' = exec \/ exec' = [exec EXCEPT ![c] = [exec[c] EXCEPT !.aborted = TRUE]]
    BY <1>7 DEF InterruptRequest
  <2>2. exec[c] \in ChildTasks
    BY <1>1
  <2>3. [exec[c] EXCEPT !.aborted = TRUE].pc = exec[c].pc
    BY <2>2 DEF ChildTasks
  <2>4. \A d \in Children : exec'[d].pc = exec[d].pc
    BY <1>1, <2>1, <2>3
  <2> QED
    BY <1>3, <1>7, <2>4 DEF AgentEffect, InterruptRequest, budget
<1>8. CASE exec' = exec /\ status' = status
  BY <1>3, <1>8 DEF AgentEffect
<1>9. CASE \/ CallFails(a) \/ AppendMessage(a) \/ Steer(a) \/ MarkSteered(a)
           \/ \E s \in SpawnCalls : SpawnRequest(a, s)
           \/ \E m \in Messages, c \in Children, t \in BOOLEAN : SendRequest(a, m, c, t)
  BY <1>8, <1>9 DEF CallFails, AppendMessage, Steer, MarkSteered, SpawnRequest, SendRequest, budget
<1> QED
  BY <1>4, <1>5, <1>6, <1>7, <1>9 DEF AgentStep

(* What a task does: it goes on, and says running only while it is inside.   *)
TaskEffect(c) ==
  /\ up' = up /\ launching' = launching /\ op' = op
  /\ exec[c].pc # "off"
  /\ exec'[c].pc # "starting"
  /\ \A d \in Children : d # c => exec'[d] = exec[d] /\ status'[d] = status[d]
  /\ status'[c] = "running" => status[c] = "running" \/ exec'[c].pc = "opening"
  /\ exec'[c].pc \in { "off", "closing", "settled" } =>
       status'[c] # "running" \/ exec[c].pc \in { "off", "closing", "settled" }

LEMMA TasksGoOn ==
  ASSUME ChildTypeOK, DeliveriesAreAddressed, NEW c \in Children, TaskStep(c)
  PROVE  TaskEffect(c)
<1>1. /\ exec \in [Children -> ChildTasks] /\ exec[c] \in ChildTasks
      /\ status \in [Children -> ChildStatus]
  BY DEF ChildTypeOK
<1>2. /\ up' = up /\ launching' = launching /\ op' = op /\ exec[c].pc # "off"
  BY DEF TaskStep, EnterRunning, OpenSteering, ListQueued, DeliverNext, MarkDelivered, Ask,
     Answer, CheckpointDelivered, Complete, Fault, Fail, Settle, TaskEnds
<1>3. CASE EnterRunning(c)
  <2>1. PICK pc \in { "opening", "failing" } :
          /\ Goto(c, pc)
          /\ \/ status' = [status EXCEPT ![c] = "running"] /\ pc = "opening"
             \/ status' = status
    BY <1>3 DEF EnterRunning, SetStatus, budget
  <2>2. /\ \A d \in Children : d # c => exec'[d] = exec[d]
        /\ exec'[c].pc = pc
    BY <1>1, <2>1, TaskMoves DEF ExecPc
  <2> QED
    BY <1>1, <1>2, <2>1, <2>2 DEF TaskEffect
<1>4. CASE Ask(c) \/ Complete(c) \/ Fail(c)
  <2>1. PICK s \in { "waiting_approval", "clarification_needed", "completed", "failed",
                      "cancelled" } : status' = [status EXCEPT ![c] = s]
    BY <1>4 DEF Ask, Complete, Fail, SetStatus
  <2>2. /\ \A d \in Children : d # c => exec'[d] = exec[d]
        /\ exec'[c].pc = "closing"
    BY <1>1, <1>4, TaskFinishes DEF Ask, Complete, Fail
  <2> QED
    BY <1>1, <1>2, <2>1, <2>2 DEF TaskEffect
<1>5. CASE Settle(c)
  <2>1. exec' = [exec EXCEPT ![c] = [exec[c] EXCEPT !.pc = "settled", !.accepting = FALSE,
                                                    !.saw = status[c]]]
        /\ status' = status /\ exec[c].pc = "closing"
    BY <1>5 DEF Settle, budget
  <2>2. [exec[c] EXCEPT !.pc = "settled", !.accepting = FALSE, !.saw = status[c]].pc = "settled"
    BY <1>1 DEF ChildTasks
  <2>3. exec'[c].pc = "settled" /\ \A d \in Children : d # c => exec'[d] = exec[d]
    BY <1>1, <2>1, <2>2
  <2> QED
    BY <1>2, <2>1, <2>3 DEF TaskEffect
<1>6. CASE TaskEnds(c)
  <2>1. exec' = [exec EXCEPT ![c] = Off] /\ status' = status /\ exec[c].pc = "settled"
    BY <1>6 DEF TaskEnds, budget
  <2>2. exec'[c].pc = "off" /\ \A d \in Children : d # c => exec'[d] = exec[d]
    BY <1>1, <2>1, OffIsATask
  <2> QED
    BY <1>2, <2>1, <2>2 DEF TaskEffect
<1>7. ASSUME status' = status,
             NEW e \in ChildTasks, exec' = [exec EXCEPT ![c] = e],
             e.pc \notin { "off", "starting", "closing", "settled" }
      PROVE  TaskEffect(c)
  <2>1. exec'[c] = e /\ \A d \in Children : d # c => exec'[d] = exec[d]
    BY <1>1, <1>7
  <2> QED
    BY <1>2, <1>7, <2>1 DEF TaskEffect
<1>8. CASE OpenSteering(c)
  <2> DEFINE e == [exec[c] EXCEPT !.pc = IF status[c] # "running" THEN "failing"
                                         ELSE IF exec[c].run THEN "listing" ELSE "working",
                                  !.accepting = (status[c] = "running")]
  <2>1. PICK pc \in { "failing", "listing", "working" }, b \in BOOLEAN :
          e = [exec[c] EXCEPT !.pc = pc, !.accepting = b]
    OBVIOUS
  <2>2. e \in ChildTasks /\ e.pc = pc
    BY <1>1, <2>1 DEF ChildTasks, ExecPc
  <2>3. exec' = [exec EXCEPT ![c] = e] /\ status' = status
    BY <1>8 DEF OpenSteering, budget
  <2> HIDE DEF e
  <2> QED
    BY <1>7, <2>2, <2>3
<1>9. CASE ListQueued(c)
  <2>1. PICK pc \in { "working", "delivering" } :
          exec' = [exec EXCEPT ![c] = [exec[c] EXCEPT !.pc = pc, !.deliver = Queued(c)]]
    BY <1>9 DEF ListQueued, DeliveringOrWorking
  <2>2. Queued(c) \in SUBSET Messages
    BY DEF Queued, To
  <2> DEFINE e == [exec[c] EXCEPT !.pc = pc, !.deliver = Queued(c)]
  <2>3. e \in ChildTasks /\ e.pc = pc
    BY <1>1, <2>2 DEF ChildTasks, ExecPc
  <2>4. status' = status
    BY <1>9 DEF ListQueued, budget
  <2> HIDE DEF e
  <2>5. exec' = [exec EXCEPT ![c] = e]
    BY <2>1 DEF e
  <2> QED
    BY <1>7, <2>3, <2>4, <2>5
<1>10. CASE MarkDelivered(c)
  <2>1. PICK pc \in { "working", "delivering" } :
          exec' = [exec EXCEPT ![c] = [exec[c] EXCEPT !.pc = pc,
                                         !.deliver = exec[c].deliver \ { NextToDeliver(c) }]]
    BY <1>10 DEF MarkDelivered, DeliveringOrWorking
  <2> DEFINE e == [exec[c] EXCEPT !.pc = pc, !.deliver = exec[c].deliver \ { NextToDeliver(c) }]
  <2>2. e \in ChildTasks /\ e.pc = pc
    BY <1>1 DEF ChildTasks, ExecPc
  <2>3. status' = status
    BY <1>10 DEF MarkDelivered, budget
  <2> HIDE DEF e
  <2>4. exec' = [exec EXCEPT ![c] = e]
    BY <2>1 DEF e
  <2> QED
    BY <1>7, <2>2, <2>3, <2>4
<1>11. ASSUME NEW pc \in ExecPc, Goto(c, pc), status' = status,
              pc \notin { "off", "starting", "closing", "settled" }
       PROVE  TaskEffect(c)
  <2>1. [exec[c] EXCEPT !.pc = pc] \in ChildTasks /\ [exec[c] EXCEPT !.pc = pc].pc = pc
    BY <1>1 DEF ChildTasks
  <2>2. exec' = [exec EXCEPT ![c] = [exec[c] EXCEPT !.pc = pc]]
    BY <1>11 DEF Goto
  <2> QED
    BY <1>7, <1>11, <2>1, <2>2
<1>12. ASSUME status' = status,
              exec' = [exec EXCEPT ![c] = [exec[c] EXCEPT !.pc = "failing", !.deliver = {}]]
       PROVE  TaskEffect(c)
  <2> DEFINE e == [exec[c] EXCEPT !.pc = "failing", !.deliver = {}]
  <2>1. e \in ChildTasks /\ e.pc = "failing"
    BY <1>1 DEF ChildTasks, ExecPc
  <2> HIDE DEF e
  <2>2. exec' = [exec EXCEPT ![c] = e]
    BY <1>12 DEF e
  <2> QED
    BY <1>7, <1>12, <2>1, <2>2
<1>13. CASE Fault(c)
  BY <1>12, <1>13 DEF Fault, budget
<1>14. CASE DeliverNext(c)
  <2>1. status' = status
    BY <1>14 DEF DeliverNext, budget
  <2>2. Goto(c, "delivered")
        \/ exec' = [exec EXCEPT ![c] = [exec[c] EXCEPT !.pc = "failing", !.deliver = {}]]
    BY <1>14 DEF DeliverNext, Goto
  <2> QED
    BY <1>11, <1>12, <2>1, <2>2 DEF ExecPc
<1>15. CASE CheckpointDelivered(c)
  BY <1>11, <1>15 DEF CheckpointDelivered, ExecPc, budget
<1>16. CASE Answer(c)
  <2>1. PICK pc \in { "acking", "completing" } :
          exec' = [exec EXCEPT ![c] = [exec[c] EXCEPT !.pc = pc, !.accepting = FALSE]]
    BY <1>16 DEF Answer
  <2> DEFINE e == [exec[c] EXCEPT !.pc = pc, !.accepting = FALSE]
  <2>2. e \in ChildTasks /\ e.pc = pc
    BY <1>1 DEF ChildTasks, ExecPc
  <2>3. status' = status
    BY <1>16 DEF Answer, budget
  <2> HIDE DEF e
  <2>4. exec' = [exec EXCEPT ![c] = e]
    BY <2>1 DEF e
  <2> QED
    BY <1>7, <2>2, <2>3, <2>4
<1> QED
  BY <1>3, <1>4, <1>5, <1>6, <1>8, <1>9, <1>10, <1>13, <1>14, <1>15, <1>16 DEF TaskStep

(* The user resumes a child or accepts its decision. *)
UserEffect(c) ==
  /\ up /\ up' /\ op' = op
  /\ \A d \in Children : d # c =>
       exec'[d] = exec[d] /\ status'[d] = status[d] /\ launching'[d] = launching[d]
  /\ status'[c] = "running" => status[c] = "running"
  /\ \/ exec'[c] = exec[c] /\ (launching'[c] => Exists(c) /\ ~Active(c))
     \/ exec'[c].pc = "starting" /\ ~Active(c) /\ Exists(c) /\ ~launching'[c]

LEMMA UsersStartTasks ==
  ASSUME ChildTypeOK, TasksAreWellFormed, NEW c \in Children, UserStep(c)
  PROVE  UserEffect(c) \/ UNCHANGED << up, op, exec, status, launching >>
<1>1. /\ exec \in [Children -> ChildTasks] /\ status \in [Children -> ChildStatus]
      /\ launching \in [Children -> BOOLEAN] /\ up \in BOOLEAN
  BY DEF ChildTypeOK
<1>2. ASSUME NEW reports \in BOOLEAN, Resume(c, reports) PROVE UserEffect(c)
  <2>1. Starts(c)
    BY <1>1, <1>2, TaskStarts DEF Resume, Start
  <2> QED
    BY <1>2, <2>1 DEF Resume, MayStart, IsActive, Starts, UserEffect, Exists, budget
<1>3. CASE AcceptDecision(c)
  BY <1>1, <1>3 DEF AcceptDecision, UserEffect, IsActive, Exists, budget
<1>4. CASE DecisionQueued(c)
  <2>1. up /\ ~Active(c) /\ Exists(c)
    BY <1>4 DEF DecisionQueued, TasksAreWellFormed
  <2>2. launching'[c] = FALSE /\ \A d \in Children : d # c => launching'[d] = launching[d]
    BY <1>1, <1>4 DEF DecisionQueued
  <2>3. ASSUME SetStatus(c, "queued"), exec' = [exec EXCEPT ![c] = [Off EXCEPT !.pc = "starting"]]
        PROVE  UserEffect(c)
    <3>1. [Off EXCEPT !.pc = "starting"].pc = "starting"
      BY DEF Off
    <3>2. exec'[c].pc = "starting" /\ \A d \in Children : d # c => exec'[d] = exec[d]
      BY <1>1, <2>3, <3>1
    <3>3. status' = [status EXCEPT ![c] = "queued"]
      BY <2>3 DEF SetStatus
    <3> QED
      BY <1>1, <1>4, <2>1, <2>2, <3>2, <3>3 DEF DecisionQueued, UserEffect
  <2>4. ASSUME UNCHANGED << budget, exec >> PROVE UserEffect(c)
    BY <1>4, <2>1, <2>2, <2>4 DEF DecisionQueued, UserEffect, budget
  <2> QED
    BY <1>4, <2>3, <2>4 DEF DecisionQueued
<1>5. CASE RetentionExpires(c)
  BY <1>5 DEF RetentionExpires, budget
<1> QED
  BY <1>2, <1>3, <1>4, <1>5 DEF UserStep

LEMMA TasksStayWellFormed ==
  ASSUME ChildTypeOK, OpsAreWellFormed, TasksAreWellFormed, RunningIsInside,
         DeliveriesAreAddressed, BudgetMatchesRows, Counted, NextChildren
  PROVE  TasksAreWellFormed' /\ RunningIsInside'
<1>1. exec \in [Children -> ChildTasks] /\ up \in BOOLEAN
  BY DEF ChildTypeOK
<1>2. ASSUME NEW a \in Agents, AgentStep(a) PROVE TasksAreWellFormed' /\ RunningIsInside'
  <2>1. AgentEffect
    BY <1>2, AgentsStartTasks
  <2> QED
    BY <2>1 DEF AgentEffect, TasksAreWellFormed, RunningIsInside, Active, IsActive, Counted
<1>3. ASSUME NEW c \in Children, TaskStep(c) PROVE TasksAreWellFormed' /\ RunningIsInside'
  <2>1. TaskEffect(c)
    BY <1>3, TasksGoOn
  <2>2. up /\ ~launching[c] /\ Exists(c)'
    BY <2>1 DEF TaskEffect, TasksAreWellFormed, Active, Counted
  <2>3. TasksAreWellFormed'
    BY <2>1, <2>2 DEF TaskEffect, TasksAreWellFormed, Active, Counted
  <2>4. RunningIsInside'
    BY <2>1, <2>2 DEF TaskEffect, RunningIsInside
  <2> QED
    BY <2>3, <2>4
<1>4. ASSUME NEW c \in Children, UserStep(c) PROVE TasksAreWellFormed' /\ RunningIsInside'
  <2>1. CASE UserEffect(c)
    <3>1. TasksAreWellFormed'
      BY <2>1 DEF UserEffect, TasksAreWellFormed, Active, Counted
    <3>2. RunningIsInside'
      BY <2>1 DEF UserEffect, RunningIsInside, Active
    <3> QED
      BY <3>1, <3>2
  <2>2. CASE UNCHANGED << up, op, exec, status, launching >>
    BY <2>2 DEF TasksAreWellFormed, RunningIsInside, Active, Exists
  <2> QED
    BY <1>4, <2>1, <2>2, UsersStartTasks
<1>5. CASE Crash
  <2>1. /\ up' = FALSE /\ \A c \in Children : exec'[c].pc = "off" /\ launching'[c] = FALSE
        /\ \A a \in Agents : op'[a].pc = "idle"
    BY <1>5, OffIsATask, IdleIsACall DEF Crash
  <2> QED
    BY <2>1 DEF TasksAreWellFormed, RunningIsInside, Active
<1>6. CASE Boot
  <2>1. PICK r \in SUBSET Orphans : Recover(r)
    BY <1>6 DEF Boot
  <2>2. \A c \in Children : status'[c] # "running"
    BY <1>6, <2>1, RecoveryIsCounted DEF Boot
  <2>3. exec' = exec /\ launching' = launching /\ op' = op /\ up' = TRUE /\ ~up
    BY <1>6 DEF Boot
  <2> QED
    BY <2>2, <2>3 DEF TasksAreWellFormed, RunningIsInside, Active, Counted
<1> QED
  BY <1>2, <1>3, <1>4, <1>5, <1>6 DEF NextChildren

-------------------------------------------------------------------------------
(* Messages. *)

(* A message keeps its receiver and its number, and becomes delivered only   *)
(* when it is an input of the receiver.                                      *)
MailEffect ==
  /\ \A m \in Messages : msgTo[m] # None =>
       msgTo'[m] = msgTo[m] /\ msgSequence'[m] = msgSequence[m]
  /\ \A m \in Messages : msgTo'[m] = None <=> msgStatus'[m] = "absent"
  /\ \A m \in Messages : msgStatus'[m] \in { "delivered", "checkpointed" } =>
       \/ msgStatus[m] \in { "delivered", "checkpointed" }
       \/ msgTo[m] \in Children /\ m \in steered[msgTo[m]]

DeliveryOK(c) ==
  /\ exec[c].deliver \subseteq To(c)
  /\ exec[c].pc \in { "delivering", "delivered" } => exec[c].deliver # {}
  /\ exec[c].pc = "delivered" => NextToDeliver(c) \in steered[c]

DeliveryKept(c) ==
  \/ /\ exec'[c].deliver = exec[c].deliver
     /\ exec'[c].pc \in { "delivering", "delivered" } => exec'[c].pc = exec[c].pc
  \/ exec'[c].deliver = {} /\ exec'[c].pc \notin { "delivering", "delivered" }

LEMMA ReceiversStay ==
  ASSUME ChildTypeOK, MailEffect, NEW c \in Children
  PROVE  To(c) \subseteq To(c)'
BY NoneIsNobody DEF MailEffect, To, ChildTypeOK

LEMMA SameMail ==
  ASSUME DeliveriesAreAddressed, UNCHANGED mail
  PROVE  MailEffect
BY DEF DeliveriesAreAddressed, MailEffect, mail

(* The first of the messages left is the first after the step too. *)
LEMMA FirstStays ==
  ASSUME ChildTypeOK, DeliveriesAreAddressed, MailEffect, NEW c \in Children,
         exec'[c].deliver = exec[c].deliver
  PROVE  NextToDeliver(c)' = NextToDeliver(c)
<1> DEFINE Left == exec[c].deliver
<1>1. \A m \in Left : msgSequence'[m] = msgSequence[m]
  BY NoneIsNobody DEF DeliveriesAreAddressed, MailEffect, To
<1>2. \A m \in Left : (\A n \in Left : msgSequence[m] =< msgSequence[n])
                        <=> (\A n \in Left : msgSequence'[m] =< msgSequence'[n])
  BY <1>1
<1> QED
  BY <1>2, Zenon DEF NextToDeliver

LEMMA KeptDelivery ==
  ASSUME ChildTypeOK, DeliveriesAreAddressed, MailEffect, Grows, NEW c \in Children,
         DeliveryKept(c)
  PROVE  DeliveryOK(c)'
<1>1. CASE exec'[c].deliver = {} /\ exec'[c].pc \notin { "delivering", "delivered" }
  BY <1>1 DEF DeliveryOK
<1>2. CASE /\ exec'[c].deliver = exec[c].deliver
           /\ exec'[c].pc \in { "delivering", "delivered" } => exec'[c].pc = exec[c].pc
  <2>1. NextToDeliver(c)' = NextToDeliver(c)
    BY <1>2, FirstStays
  <2>2. exec'[c].deliver \subseteq To(c)'
    BY <1>2, ReceiversStay DEF DeliveriesAreAddressed
  <2> QED
    BY <1>2, <2>1, <2>2 DEF DeliveryOK, DeliveriesAreAddressed, Grows
<1> QED
  BY <1>1, <1>2 DEF DeliveryKept

LEMMA AgentsWriteMail ==
  ASSUME ChildTypeOK, OpsAreWellFormed, DeliveriesAreAddressed, Counted, NEW a \in Agents,
         AgentStep(a)
  PROVE  MailEffect /\ Grows
<1>1. CallOK(a)
  BY OpsAreCalls
<1>2. steered' = steered => Grows
  BY DEF Grows, Counted
<1>3. CASE AppendMessage(a)
  <2>1. op[a].msg \in Messages /\ op[a].child \in Children /\ steered' = steered
    BY <1>1, <1>3 DEF CallOK, AppendMessage
  <2>2. CASE msgStatus[op[a].msg] = "absent"
    <3>1. /\ msgStatus' = [msgStatus EXCEPT ![op[a].msg] = "queued"]
          /\ msgTo' = [msgTo EXCEPT ![op[a].msg] = op[a].child]
          /\ msgSequence' = [msgSequence EXCEPT ![op[a].msg] = NextSequence(op[a].child)]
      BY <1>3, <2>2 DEF AppendMessage
    <3>2. msgTo[op[a].msg] = None /\ op[a].child # None
      BY <2>1, <2>2, NoneIsNobody DEF DeliveriesAreAddressed
    <3>3. \A m \in Messages : m # op[a].msg =>
            msgTo'[m] = msgTo[m] /\ msgSequence'[m] = msgSequence[m] /\ msgStatus'[m] = msgStatus[m]
      BY <3>1 DEF ChildTypeOK
    <3>4. msgTo'[op[a].msg] = op[a].child /\ msgStatus'[op[a].msg] = "queued"
      BY <2>1, <3>1 DEF ChildTypeOK
    <3> QED
      BY <1>2, <2>1, <3>2, <3>3, <3>4 DEF MailEffect, DeliveriesAreAddressed
  <2>3. CASE msgStatus[op[a].msg] # "absent"
    BY <1>2, <1>3, <2>1, <2>3, SameMail DEF AppendMessage
  <2> QED
    BY <2>2, <2>3
<1>4. CASE MarkSteered(a)
  <2>1. /\ op[a].msg \in Messages /\ op[a].child \in Children
        /\ msgTo[op[a].msg] = op[a].child /\ op[a].msg \in steered[op[a].child]
    BY <1>1, <1>4 DEF CallOK, MarkSteered
  <2>2. /\ msgStatus' = IF msgStatus[op[a].msg] = "queued"
                        THEN [msgStatus EXCEPT ![op[a].msg] = "delivered"] ELSE msgStatus
        /\ msgTo' = msgTo /\ msgSequence' = msgSequence /\ steered' = steered
    BY <1>4 DEF MarkSteered, MarkMessageDelivered
  <2>3. \A m \in Messages : msgStatus'[m] = msgStatus[m]
          \/ (m = op[a].msg /\ msgStatus[m] = "queued" /\ msgStatus'[m] = "delivered")
    BY <2>2 DEF ChildTypeOK
  <2> QED
    BY <1>2, <2>1, <2>2, <2>3 DEF MailEffect, DeliveriesAreAddressed
<1>5. CASE Steer(a)
  <2>1. /\ op[a].msg \in Messages /\ op[a].child \in Children
        /\ steered' = [steered EXCEPT ![op[a].child] = steered[op[a].child] \cup { op[a].msg }]
    BY <1>1, <1>5 DEF CallOK, Steer
  <2>2. Grows
    BY <2>1 DEF Grows, Counted, ChildTypeOK
  <2> QED
    BY <1>5, <2>2, SameMail DEF Steer
<1>6. CASE UNCHANGED << mail, steered >>
  BY <1>2, <1>6, SameMail
<1>7. ASSUME NEW s \in SpawnCalls, SpawnRequest(a, s) PROVE UNCHANGED << mail, steered >>
  BY <1>7 DEF SpawnRequest
<1>8. ASSUME NEW m \in Messages, NEW c \in Children, NEW t \in BOOLEAN, SendRequest(a, m, c, t)
      PROVE  UNCHANGED << mail, steered >>
  BY <1>8 DEF SendRequest
<1>9. ASSUME NEW c \in Children, InterruptRequest(a, c) PROVE UNCHANGED << mail, steered >>
  BY <1>9 DEF InterruptRequest
<1>10. CASE CreateChild(a) \/ StartSpawned(a) \/ CallFails(a) \/ Trigger(a) \/ CancelChild(a)
  BY <1>6, <1>10 DEF CreateChild, StartSpawned, CallFails, Trigger, CancelChild
<1> QED
  BY <1>3, <1>4, <1>5, <1>6, <1>7, <1>8, <1>9, <1>10 DEF AgentStep

LEMMA AgentsKeepDeliveries ==
  ASSUME ChildTypeOK, OpsAreWellFormed, NEW a \in Agents, AgentStep(a)
  PROVE  \A c \in Children : DeliveryKept(c)
<1>1. /\ exec \in [Children -> ChildTasks]
      /\ registry \in [Children -> { "none", "running", "retained" }]
  BY DEF ChildTypeOK
<1>2. CASE exec' = exec
  BY <1>2 DEF DeliveryKept
<1>3. CASE StartSpawned(a) \/ Trigger(a)
  <2>1. op[a].child \in Children /\ (exec' = exec \/ StartOrRefuse(op[a].child))
    BY <1>3 DEF StartSpawned, Trigger, OpsAreWellFormed
  <2>2. exec' = exec \/ Starts(op[a].child)
    BY <1>1, <2>1, StartOrRefused
  <2> QED
    BY <2>2 DEF Starts, DeliveryKept
<1>4. ASSUME NEW c \in Children, InterruptRequest(a, c)
      PROVE  \A d \in Children : DeliveryKept(d)
  <2>1. exec' = exec \/ exec' = [exec EXCEPT ![c] = [exec[c] EXCEPT !.aborted = TRUE]]
    BY <1>4 DEF InterruptRequest
  <2>2. exec[c] \in ChildTasks
    BY <1>1
  <2>3. /\ [exec[c] EXCEPT !.aborted = TRUE].pc = exec[c].pc
        /\ [exec[c] EXCEPT !.aborted = TRUE].deliver = exec[c].deliver
    BY <2>2 DEF ChildTasks
  <2>4. \A d \in Children : exec'[d].pc = exec[d].pc /\ exec'[d].deliver = exec[d].deliver
    BY <1>1, <2>1, <2>3
  <2> QED
    BY <2>4 DEF DeliveryKept
<1>5. ASSUME NEW s \in SpawnCalls, SpawnRequest(a, s) PROVE exec' = exec
  BY <1>5 DEF SpawnRequest
<1>6. ASSUME NEW m \in Messages, NEW c \in Children, NEW t \in BOOLEAN, SendRequest(a, m, c, t)
      PROVE  exec' = exec
  BY <1>6 DEF SendRequest
<1>7. CASE \/ CreateChild(a) \/ CallFails(a) \/ AppendMessage(a) \/ Steer(a) \/ MarkSteered(a)
           \/ CancelChild(a)
  BY <1>2, <1>7 DEF CreateChild, CallFails, AppendMessage, Steer, MarkSteered, CancelChild
<1> QED
  BY <1>2, <1>3, <1>4, <1>5, <1>6, <1>7 DEF AgentStep

LEMMA TasksWriteMail ==
  ASSUME ChildTypeOK, DeliveriesAreAddressed, Counted, NEW c \in Children, TaskStep(c)
  PROVE  MailEffect /\ Grows
<1>1. steered' = steered => Grows
  BY DEF Grows, Counted
<1>2. CASE DeliverNext(c)
  <2>1. steered' = steered \/ steered' = [steered EXCEPT ![c] = steered[c] \cup { NextToDeliver(c) }]
    BY <1>2 DEF DeliverNext
  <2>2. Grows
    BY <2>1 DEF Grows, Counted, ChildTypeOK
  <2> QED
    BY <1>2, <2>2, SameMail DEF DeliverNext
<1>3. CASE MarkDelivered(c)
  <2>1. NextToDeliver(c) \in exec[c].deliver /\ NextToDeliver(c) \in steered[c]
    BY <1>3, NextIsListed DEF MarkDelivered, DeliveriesAreAddressed
  <2>2. NextToDeliver(c) \in To(c)
    BY <2>1 DEF DeliveriesAreAddressed
  <2>3. /\ msgStatus' = IF msgStatus[NextToDeliver(c)] = "queued"
                        THEN [msgStatus EXCEPT ![NextToDeliver(c)] = "delivered"] ELSE msgStatus
        /\ msgTo' = msgTo /\ msgSequence' = msgSequence /\ steered' = steered
    BY <1>3 DEF MarkDelivered, MarkMessageDelivered
  <2>4. \A m \in Messages : msgStatus'[m] = msgStatus[m]
          \/ (m = NextToDeliver(c) /\ msgStatus[m] = "queued" /\ msgStatus'[m] = "delivered")
    BY <2>3 DEF ChildTypeOK
  <2> QED
    BY <1>1, <2>1, <2>2, <2>3, <2>4 DEF MailEffect, DeliveriesAreAddressed, To
<1>4. CASE CheckpointDelivered(c)
  <2>1. /\ \A m \in Messages : msgStatus'[m] = msgStatus[m]
             \/ (msgStatus[m] = "delivered" /\ msgStatus'[m] = "checkpointed")
        /\ msgTo' = msgTo /\ msgSequence' = msgSequence /\ steered' = steered
    BY <1>4 DEF CheckpointDelivered
  <2> QED
    BY <1>1, <2>1 DEF MailEffect, DeliveriesAreAddressed
<1>5. CASE UNCHANGED << mail, steered >>
  BY <1>1, <1>5, SameMail
<1>6. CASE EnterRunning(c) \/ OpenSteering(c) \/ ListQueued(c) \/ Ask(c) \/ Answer(c)
           \/ Complete(c) \/ Fault(c) \/ Fail(c) \/ Settle(c) \/ TaskEnds(c)
  BY <1>5, <1>6 DEF EnterRunning, OpenSteering, ListQueued, Ask, Answer, Complete, Fault, Fail,
     Settle, TaskEnds
<1> QED
  BY <1>2, <1>3, <1>4, <1>5, <1>6 DEF TaskStep

LEMMA TasksDeliverInTurn ==
  ASSUME ChildTypeOK, DeliveriesAreAddressed, Counted, MailEffect, Grows,
         NEW c \in Children, TaskStep(c)
  PROVE  DeliveryOK(c)'
<1>1. exec \in [Children -> ChildTasks] /\ exec[c] \in ChildTasks
  BY DEF ChildTypeOK
<1>2. CASE DeliveryKept(c)
  BY <1>2, KeptDelivery
<1>3. CASE ListQueued(c)
  <2>1. PICK pc \in { "working", "delivering" } :
          /\ exec' = [exec EXCEPT ![c] = [exec[c] EXCEPT !.pc = pc, !.deliver = Queued(c)]]
          /\ pc = "delivering" => Queued(c) # {}
    BY <1>3 DEF ListQueued, DeliveringOrWorking
  <2>2. /\ [exec[c] EXCEPT !.pc = pc, !.deliver = Queued(c)].pc = pc
        /\ [exec[c] EXCEPT !.pc = pc, !.deliver = Queued(c)].deliver = Queued(c)
    BY <1>1 DEF ChildTasks
  <2>3. exec'[c].pc = pc /\ exec'[c].deliver = Queued(c)
    BY <1>1, <2>1, <2>2
  <2>4. Queued(c) \subseteq To(c)'
    BY ReceiversStay DEF Queued
  <2> QED
    BY <2>1, <2>3, <2>4 DEF DeliveryOK
<1>4. CASE DeliverNext(c)
  <2>1. CASE CanSteer(c, NextToDeliver(c))
    <3>1. /\ steered' = [steered EXCEPT ![c] = steered[c] \cup { NextToDeliver(c) }]
          /\ exec' = [exec EXCEPT ![c] = [exec[c] EXCEPT !.pc = "delivered"]]
          /\ exec[c].pc = "delivering"
      BY <1>4, <2>1 DEF DeliverNext
    <3>2. /\ [exec[c] EXCEPT !.pc = "delivered"].pc = "delivered"
          /\ [exec[c] EXCEPT !.pc = "delivered"].deliver = exec[c].deliver
      BY <1>1 DEF ChildTasks
    <3>3. exec'[c].pc = "delivered" /\ exec'[c].deliver = exec[c].deliver
      BY <1>1, <3>1, <3>2
    <3>4. NextToDeliver(c)' = NextToDeliver(c)
      BY <3>3, FirstStays
    <3>5. NextToDeliver(c) \in steered'[c]
      BY <3>1 DEF ChildTypeOK
    <3>6. exec'[c].deliver \subseteq To(c)' /\ exec'[c].deliver # {}
      BY <3>1, <3>3, ReceiversStay DEF DeliveriesAreAddressed
    <3> QED
      BY <3>4, <3>5, <3>6 DEF DeliveryOK
  <2>2. CASE ~CanSteer(c, NextToDeliver(c))
    <3>1. exec' = [exec EXCEPT ![c] = [exec[c] EXCEPT !.pc = "failing", !.deliver = {}]]
      BY <1>4, <2>2 DEF DeliverNext
    <3>2. /\ [exec[c] EXCEPT !.pc = "failing", !.deliver = {}].pc = "failing"
          /\ [exec[c] EXCEPT !.pc = "failing", !.deliver = {}].deliver = {}
      BY <1>1 DEF ChildTasks
    <3>3. exec'[c].pc = "failing" /\ exec'[c].deliver = {}
      BY <1>1, <3>1, <3>2
    <3> QED
      BY <3>3 DEF DeliveryOK
  <2> QED
    BY <2>1, <2>2
<1>5. CASE MarkDelivered(c)
  <2> DEFINE left == exec[c].deliver \ { NextToDeliver(c) }
  <2>1. PICK pc \in { "working", "delivering" } :
          /\ exec' = [exec EXCEPT ![c] = [exec[c] EXCEPT !.pc = pc, !.deliver = left]]
          /\ pc = "delivering" => left # {}
    BY <1>5 DEF MarkDelivered, DeliveringOrWorking
  <2>2. /\ [exec[c] EXCEPT !.pc = pc, !.deliver = left].pc = pc
        /\ [exec[c] EXCEPT !.pc = pc, !.deliver = left].deliver = left
    BY <1>1 DEF ChildTasks
  <2>3. exec'[c].pc = pc /\ exec'[c].deliver = left
    BY <1>1, <2>1, <2>2
  <2>4. left \subseteq To(c)'
    BY ReceiversStay DEF DeliveriesAreAddressed
  <2> QED
    BY <2>1, <2>3, <2>4 DEF DeliveryOK
<1>6. CASE Fault(c)
  <2>1. exec' = [exec EXCEPT ![c] = [exec[c] EXCEPT !.pc = "failing", !.deliver = {}]]
    BY <1>6 DEF Fault
  <2>2. /\ [exec[c] EXCEPT !.pc = "failing", !.deliver = {}].pc = "failing"
        /\ [exec[c] EXCEPT !.pc = "failing", !.deliver = {}].deliver = {}
    BY <1>1 DEF ChildTasks
  <2>3. exec'[c].pc = "failing" /\ exec'[c].deliver = {}
    BY <1>1, <2>1, <2>2
  <2> QED
    BY <2>3 DEF DeliveryOK
<1>7. CASE EnterRunning(c) \/ CheckpointDelivered(c)
  <2>1. PICK pc \in { "opening", "failing", "completing" } : Goto(c, pc)
    BY <1>7 DEF EnterRunning, CheckpointDelivered
  <2>2. exec'[c].pc = pc /\ exec'[c].deliver = exec[c].deliver
    BY <1>1, <2>1, TaskMoves DEF ExecPc
  <2> QED
    BY <1>2, <2>2 DEF DeliveryKept
<1>8. CASE Ask(c) \/ Complete(c) \/ Fail(c)
  <2>1. exec'[c].pc = "closing" /\ exec'[c].deliver = exec[c].deliver
    BY <1>1, <1>8, TaskFinishes DEF Ask, Complete, Fail
  <2> QED
    BY <1>2, <2>1 DEF DeliveryKept
<1>9. CASE TaskEnds(c)
  <2>1. exec'[c].pc = "off" /\ exec'[c].deliver = {}
    BY <1>1, <1>9, OffIsATask DEF TaskEnds
  <2> QED
    BY <1>2, <2>1 DEF DeliveryKept
<1>10. CASE Settle(c)
  <2>1. exec' = [exec EXCEPT ![c] = [exec[c] EXCEPT !.pc = "settled", !.accepting = FALSE,
                                                    !.saw = status[c]]]
    BY <1>10 DEF Settle
  <2> DEFINE e == [exec[c] EXCEPT !.pc = "settled", !.accepting = FALSE, !.saw = status[c]]
  <2>2. e.pc = "settled" /\ e.deliver = exec[c].deliver
    BY <1>1 DEF ChildTasks
  <2> HIDE DEF e
  <2>3. exec' = [exec EXCEPT ![c] = e]
    BY <2>1 DEF e
  <2>4. exec'[c].pc = "settled" /\ exec'[c].deliver = exec[c].deliver
    BY <1>1, <2>2, <2>3
  <2> QED
    BY <1>2, <2>4 DEF DeliveryKept
<1>11. CASE OpenSteering(c) \/ Answer(c)
  <2>1. PICK pc \in { "failing", "listing", "working", "acking", "completing" }, b \in BOOLEAN :
          exec' = [exec EXCEPT ![c] = [exec[c] EXCEPT !.pc = pc, !.accepting = b]]
    <3>1. CASE OpenSteering(c)
      <4>1. exec' = [exec EXCEPT ![c] = [exec[c] EXCEPT
              !.pc = IF status[c] # "running" THEN "failing"
                     ELSE IF exec[c].run THEN "listing" ELSE "working",
              !.accepting = (status[c] = "running")]]
        BY <3>1 DEF OpenSteering
      <4> QED
        BY <4>1
    <3>2. CASE Answer(c)
      BY <3>2 DEF Answer
    <3> QED
      BY <1>11, <3>1, <3>2
  <2>2. /\ [exec[c] EXCEPT !.pc = pc, !.accepting = b].pc = pc
        /\ [exec[c] EXCEPT !.pc = pc, !.accepting = b].deliver = exec[c].deliver
    BY <1>1 DEF ChildTasks
  <2>3. exec'[c].pc = pc /\ exec'[c].deliver = exec[c].deliver
    BY <1>1, <2>1, <2>2
  <2> QED
    BY <1>2, <2>3 DEF DeliveryKept
<1> QED
  BY <1>3, <1>4, <1>5, <1>6, <1>7, <1>8, <1>9, <1>10, <1>11 DEF TaskStep

LEMMA MessagesStayAddressed ==
  ASSUME ChildTypeOK, OpsAreWellFormed, DeliveriesAreAddressed, DeliveredWasSteered,
         TasksAreWellFormed, BudgetMatchesRows, Counted, NextChildren
  PROVE  DeliveriesAreAddressed' /\ DeliveredWasSteered'
<1>1. ASSUME MailEffect, Grows, \A c \in Children : DeliveryOK(c)'
      PROVE  DeliveriesAreAddressed' /\ DeliveredWasSteered'
  <2>1. DeliveriesAreAddressed'
    BY <1>1 DEF MailEffect, DeliveryOK, DeliveriesAreAddressed
  <2>2. ASSUME NEW m \in Messages, msgStatus'[m] \in { "delivered", "checkpointed" }
        PROVE  m \in steered'[msgTo'[m]]
    <3>1. msgTo[m] \in Children /\ m \in steered[msgTo[m]]
      BY <1>1, <2>2 DEF MailEffect, DeliveriesAreAddressed, DeliveredWasSteered, ChildTypeOK
    <3>2. msgTo'[m] = msgTo[m]
      BY <1>1, <3>1, NoneIsNobody DEF MailEffect
    <3> QED
      BY <1>1, <3>1, <3>2 DEF Grows
  <2> QED
    BY <2>1, <2>2 DEF DeliveredWasSteered
<1>2. ASSUME UNCHANGED << mail, steered >>, \A c \in Children : DeliveryKept(c)
      PROVE  DeliveriesAreAddressed' /\ DeliveredWasSteered'
  <2>1. MailEffect /\ Grows
    BY <1>2, SameMail DEF Grows, Counted
  <2> QED
    BY <1>1, <1>2, <2>1, KeptDelivery
<1>3. ASSUME NEW a \in Agents, AgentStep(a) PROVE DeliveriesAreAddressed' /\ DeliveredWasSteered'
  BY <1>1, <1>3, AgentsWriteMail, AgentsKeepDeliveries, KeptDelivery
<1>4. ASSUME NEW c \in Children, TaskStep(c) PROVE DeliveriesAreAddressed' /\ DeliveredWasSteered'
  <2>1. MailEffect /\ Grows
    BY <1>4, TasksWriteMail
  <2>2. DeliveryOK(c)'
    BY <1>4, <2>1, TasksDeliverInTurn
  <2>3. \A d \in Children : d # c => DeliveryKept(d)
    BY <1>4, TasksGoOn DEF TaskEffect, DeliveryKept
  <2> QED
    BY <1>1, <2>1, <2>2, <2>3, KeptDelivery
<1>5. ASSUME NEW c \in Children, UserStep(c) PROVE DeliveriesAreAddressed' /\ DeliveredWasSteered'
  <2>1. UNCHANGED << mail, steered >>
    BY <1>5 DEF UserStep, Resume, AcceptDecision, DecisionQueued, RetentionExpires
  <2>2. exec' = exec \/ Starts(c)
    <3>1. exec \in [Children -> ChildTasks]
      BY DEF ChildTypeOK
    <3>2. ASSUME NEW reports \in BOOLEAN, Resume(c, reports) PROVE Starts(c)
      BY <3>1, <3>2, TaskStarts DEF Resume, Start
    <3>3. CASE DecisionQueued(c)
      <4> DEFINE e == [Off EXCEPT !.pc = "starting"]
      <4>1. e \in ChildTasks /\ e.pc = "starting" /\ e.deliver = {}
        BY DEF Off, ChildTasks, ExecPc, ChildStatus
      <4>2. exec' = exec \/ exec' = [exec EXCEPT ![c] = e]
        BY <3>3 DEF DecisionQueued
      <4> HIDE DEF e
      <4> QED
        BY <3>1, <4>1, <4>2 DEF Starts
    <3>4. CASE AcceptDecision(c) \/ RetentionExpires(c)
      BY <3>4 DEF AcceptDecision, RetentionExpires
    <3> QED
      BY <1>5, <3>2, <3>3, <3>4 DEF UserStep
  <2> QED
    BY <1>2, <2>1, <2>2 DEF Starts, DeliveryKept
<1>6. CASE Crash
  <2>1. UNCHANGED << mail, steered >> /\ \A c \in Children : exec'[c] = Off
    BY <1>6 DEF Crash
  <2> QED
    BY <1>2, <2>1, OffIsATask DEF DeliveryKept
<1>7. CASE Boot
  <2>1. UNCHANGED << mail, steered >> /\ exec' = exec
    BY <1>7 DEF Boot
  <2> QED
    BY <1>2, <2>1 DEF DeliveryKept
<1> QED
  BY <1>3, <1>4, <1>5, <1>6, <1>7 DEF NextChildren

-------------------------------------------------------------------------------
(* The inductive invariant. *)

LEMMA InitHasChildInv == InitChildren => ChildInv
<1> SUFFICES ASSUME InitChildren PROVE ChildInv
  OBVIOUS
<1>1. /\ \A c \in Children : status[c] = "absent" /\ exec[c] = Off /\ ~launching[c]
      /\ \A a \in Agents : op[a] = Idle
      /\ \A m \in Messages : msgStatus[m] = "absent" /\ msgTo[m] = None
      /\ up /\ totalChildren = 0 /\ activeChildren = 0
  BY DEF InitChildren
<1>2. ChildTypeOK
  <2>1. exec \in [Children -> ChildTasks] /\ op \in [Agents -> ControlCalls]
    BY OffIsATask, IdleIsACall DEF InitChildren
  <2> QED
    BY <2>1, BudgetLimits DEF InitChildren, ChildTypeOK, ChildStatus
<1>3. BudgetMatchesRows
  <2>1. { c \in Children : status[c] \in BudgetActive } = {} /\ { c \in Children : Exists(c) } = {}
    BY <1>1 DEF BudgetActive, Exists
  <2>2. 0 =< MaxConcurrent /\ 0 =< MaxTotal
    BY BudgetLimits
  <2> QED
    BY <1>1, <2>1, <2>2, FS_EmptySet DEF BudgetMatchesRows
<1>4. OpsAreWellFormed
  BY <1>1, IdleIsACall, NoneIsNobody DEF OpsAreWellFormed
<1>5. TasksAreWellFormed /\ RunningIsInside
  BY <1>1, OffIsATask DEF TasksAreWellFormed, RunningIsInside, Active
<1>6. DeliveriesAreAddressed /\ DeliveredWasSteered
  BY <1>1, OffIsATask DEF DeliveriesAreAddressed, DeliveredWasSteered
<1> QED
  BY <1>2, <1>3, <1>4, <1>5, <1>6 DEF ChildInv

LEMMA NextKeepsChildInv ==
  ASSUME ChildInv, NextChildren
  PROVE  ChildInv'
<1>1. /\ ChildTypeOK /\ OpsAreWellFormed /\ TasksAreWellFormed /\ RunningIsInside
      /\ DeliveriesAreAddressed /\ DeliveredWasSteered /\ BudgetMatchesRows
  BY DEF ChildInv
<1>2. Counted /\ RowsOK /\ MailOK /\ ProcessOK
  BY <1>1, AgentsAreTyped, TasksAreTyped, UsersAreTyped, ProcessesAreTyped DEF NextChildren
<1>3. ChildTypeOK' /\ BudgetMatchesRows'
  BY <1>2 DEF Counted, RowsOK, MailOK, ProcessOK, ChildTypeOK
<1>4. OpsAreWellFormed'
  BY <1>1, <1>2, AgentsKeepOps, OthersKeepOps DEF NextChildren
<1>5. TasksAreWellFormed' /\ RunningIsInside'
  BY <1>1, <1>2, TasksStayWellFormed
<1>6. DeliveriesAreAddressed' /\ DeliveredWasSteered'
  BY <1>1, <1>2, MessagesStayAddressed
<1> QED
  BY <1>3, <1>4, <1>5, <1>6 DEF ChildInv

LEMMA StutterKeepsChildInv ==
  ASSUME ChildInv, UNCHANGED childVars
  PROVE  ChildInv'
<1>1. UNCHANGED << spawnCall, status, totalChildren, activeChildren, msgStatus, msgTo, msgSequence,
                   completion, steered, up, registry, launching, exec, op, crashes >>
  BY DEF childVars, budget, mail
<1>2. ChildTypeOK'
  BY <1>1 DEF ChildInv, ChildTypeOK
<1>3. OpsAreWellFormed' /\ TasksAreWellFormed' /\ RunningIsInside'
  BY <1>1 DEF ChildInv, OpsAreWellFormed, TasksAreWellFormed, RunningIsInside, Active, Exists
<1>4. DeliveriesAreAddressed'
  BY <1>1 DEF ChildInv, DeliveriesAreAddressed, NextToDeliver, To
<1>5. DeliveredWasSteered'
  BY <1>1 DEF ChildInv, DeliveredWasSteered
<1>6. BudgetMatchesRows'
  BY <1>1 DEF ChildInv, BudgetMatchesRows, Exists
<1> QED
  BY <1>2, <1>3, <1>4, <1>5, <1>6 DEF ChildInv

LEMMA ChildInvHolds == SpecChildren => []ChildInv
<1>1. ChildInv /\ [NextChildren]_childVars => ChildInv'
  BY NextKeepsChildInv, StutterKeepsChildInv
<1> QED
  BY <1>1, InitHasChildInv, PTL DEF SpecChildren

-------------------------------------------------------------------------------
(* The results. *)

(* Every variable keeps its shape. *)
THEOREM ChildrenAreTyped == SpecChildren => []ChildTypeOK
<1>1. ChildInv => ChildTypeOK
  BY DEF ChildInv
<1> QED
  BY <1>1, ChildInvHolds, PTL

(* adjustActiveChildBudget counts the rows, and no interleaving of spawns,   *)
(* interrupts, resumes, failures and recoveries takes it over its limits.    *)
THEOREM BudgetIsExact == SpecChildren => []BudgetMatchesRows
<1>1. ChildInv => BudgetMatchesRows
  BY DEF ChildInv
<1> QED
  BY <1>1, ChildInvHolds, PTL

(* deliverAgentMailbox and sendMessage mark a message delivered only after   *)
(* it has become an input of its receiver, whatever crashes in between.      *)
THEOREM DeliveredMessagesWereSteered == SpecChildren => []DeliveredWasSteered
<1>1. ChildInv => DeliveredWasSteered
  BY DEF ChildInv
<1> QED
  BY <1>1, ChildInvHolds, PTL

(* While the process is up, a child that is said to run has a task.          *)
THEOREM RunningChildrenAreDriven == SpecChildren => []RunningIsDriven
<1>1. ChildInv => RunningIsDriven
  BY DEF ChildInv, RunningIsInside, RunningIsDriven, Active
<1> QED
  BY <1>1, ChildInvHolds, PTL

(* Spawn, trigger, resume and approval start at most one task of a child at  *)
(* a time: what assertAvailable and launchingRunIds are for.                 *)
THEOREM OneTaskPerChild == SpecChildren => NoSecondExecutor
<1>1. ChildInv /\ [NextChildren]_childVars =>
        [\A c \in Children :
           exec'[c].pc = "starting" => exec[c].pc \in { "off", "starting" }]_childVars
  <2> SUFFICES ASSUME ChildInv, NextChildren, NEW c \in Children, exec'[c].pc = "starting"
               PROVE  exec[c].pc \in { "off", "starting" }
    OBVIOUS
  <2>1. /\ ChildTypeOK /\ OpsAreWellFormed /\ TasksAreWellFormed /\ DeliveriesAreAddressed
    BY DEF ChildInv
  <2>2. ASSUME NEW a \in Agents, AgentStep(a) PROVE exec[c].pc \in { "off", "starting" }
    BY <2>1, <2>2, AgentsStartTasks DEF AgentEffect, IsActive, Active
  <2>3. ASSUME NEW d \in Children, TaskStep(d) PROVE exec[c].pc \in { "off", "starting" }
    BY <2>1, <2>3, TasksGoOn DEF TaskEffect
  <2>4. ASSUME NEW d \in Children, UserStep(d) PROVE exec[c].pc \in { "off", "starting" }
    BY <2>1, <2>4, UsersStartTasks DEF UserEffect, Active
  <2>5. CASE Crash
    BY <2>5, OffIsATask DEF Crash
  <2>6. CASE Boot
    BY <2>6 DEF Boot
  <2> QED
    BY <2>2, <2>3, <2>4, <2>5, <2>6 DEF NextChildren
<1>2. SpecChildren => [][NextChildren]_childVars
  BY DEF SpecChildren
<1> QED
  BY <1>1, <1>2, ChildInvHolds, PTL DEF NoSecondExecutor
===========================================================================
