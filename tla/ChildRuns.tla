------------------------------ MODULE ChildRuns ------------------------------
(***************************************************************************)
(* The child runs of one root Run: who may create, start, message, resume   *)
(* and interrupt them, what drives each, and what is left after a crash.    *)
(*   apps/server/src/agent-runtime/children/ChildRunManager.ts              *)
(*   apps/server/src/store/postgres/childRunRepository.ts                   *)
(*   apps/server/src/store/postgres/runStateRepository.ts (budget)          *)
(*   apps/server/src/agent/runTaskManager.ts, runtime.ts                    *)
(*   apps/server/src/automations/backgroundTaskRegistry.ts                  *)
(*                                                                          *)
(* An agent is a run of the tree that executes a control tool; each has one *)
(* such call in progress (the tools are exclusive), and it stops wherever   *)
(* the manager awaits.  A step that reads and starts synchronously is one   *)
(* action.  Transactions and the per-run state queue are atomic.            *)
(***************************************************************************)
EXTENDS Integers, FiniteSets

CONSTANTS
  Children,      \* run ids makeId('run') can return for a child
  Agents,        \* runs of the same root that call the control tools
  SpawnCalls,    \* tool call ids of spawn_child_run
  Messages,      \* agent_message_<toolCallId>
  MaxConcurrent, \* maxConcurrentChildren of the root budget
  MaxTotal,      \* maxTotalChildren
  MaxCrashes,
  None

ASSUME BudgetLimits == MaxConcurrent \in Nat /\ MaxTotal \in Nat /\ MaxCrashes \in Nat
ASSUME IdsAreFinite == IsFiniteSet(Children) /\ IsFiniteSet(Messages)
ASSUME NoneIsNobody == None \notin Children \cup SpawnCalls \cup Messages

VARIABLES
  (* rows *)
  status,         \* "absent" until createRun commits
  spawnCall,
  totalChildren,  \* platform_root_run_budgets
  activeChildren,
  msgStatus,
  msgTo,
  msgSequence,
  completion,     \* status inside child_completion_<id>, or None
  steered,        \* messages that are inputs of the child
  (* memory of the process *)
  up,
  registry,       \* background task whose id is the run id
  launching,      \* launchingRunIds: an approval decision is being accepted
  exec,           \* the task of each child, activeTasks
  op,             \* the control call of each agent
  crashes

budget == << status, totalChildren, activeChildren >>
mail == << msgStatus, msgTo, msgSequence >>
childVars == << spawnCall, budget, mail, completion, steered, up, registry, launching, exec, op,
                crashes >>

BudgetActive == { "queued", "running", "clarification_needed", "waiting_approval" }
Terminal == { "completed", "failed", "cancelled", "requires_action" }
ChildStatus == { "absent", "interrupted" } \cup BudgetActive \cup Terminal

Off == [ pc |-> "off", reports |-> FALSE, run |-> FALSE, accepting |-> FALSE,
         aborted |-> FALSE, deliver |-> {}, saw |-> "absent" ]
Idle == [ pc |-> "idle", call |-> None, child |-> None, msg |-> None, trigger |-> FALSE ]

Active(c) == exec[c].pc # "off"                    \* activeTasks.has
IsActive(c) == Active(c) \/ launching[c]           \* activeRunIds().includes
Exists(c) == status[c] # "absent"
To(c) == { m \in Messages : msgTo[m] = c }
Queued(c) == { m \in To(c) : msgStatus[m] = "queued" }

-------------------------------------------------------------------------------
(* A change of a child's status and of the root budget in one transaction.   *)

Delta(before, after) ==
  IF before \notin BudgetActive /\ after \in BudgetActive THEN 1
  ELSE IF before \in BudgetActive /\ after \notin BudgetActive THEN -1 ELSE 0

MaySetStatus(c, s) ==
  Delta(status[c], s) = 1 => activeChildren < MaxConcurrent

SetStatusKeepingSlot(c, s) ==
  /\ MaySetStatus(c, s)
  /\ status' = [status EXCEPT ![c] = s]
  /\ UNCHANGED << totalChildren, activeChildren >>

SetStatus(c, s) ==
  /\ MaySetStatus(c, s)
  /\ status' = [status EXCEPT ![c] = s]
  /\ activeChildren' = activeChildren + Delta(status[c], s)
  /\ UNCHANGED totalChildren

InitChildren ==
  /\ status = [c \in Children |-> "absent"]
  /\ spawnCall = [c \in Children |-> None]
  /\ totalChildren = 0
  /\ activeChildren = 0
  /\ msgStatus = [m \in Messages |-> "absent"]
  /\ msgTo = [m \in Messages |-> None]
  /\ msgSequence = [m \in Messages |-> 0]
  /\ completion = [c \in Children |-> None]
  /\ steered = [c \in Children |-> {}]
  /\ up = TRUE
  /\ registry = [c \in Children |-> "none"]
  /\ launching = [c \in Children |-> FALSE]
  /\ exec = [c \in Children |-> Off]
  /\ op = [a \in Agents |-> Idle]
  /\ crashes = 0

-------------------------------------------------------------------------------
(* RunTaskManager.  assertAvailable and the registry refuse by throwing.     *)

MayStartAlways(c) == TRUE
MayStart(c) == ~IsActive(c) /\ registry[c] = "none"

Start(c, reports) ==
  /\ exec' = [exec EXCEPT ![c] = [Off EXCEPT !.pc = "starting", !.reports = reports,
                                             !.run = TRUE]]
  /\ registry' = [registry EXCEPT ![c] = "running"]

(* start throws and nothing happens: the tool call fails. *)
StartOrRefuse(c) ==
  IF MayStart(c) THEN Start(c, TRUE) ELSE UNCHANGED << exec, registry >>

-------------------------------------------------------------------------------
(* spawn *)

FoundBySpawn(s) == \E c \in Children : spawnCall[c] = s

SpawnRequest(a, s) ==
  /\ up /\ op[a].pc = "idle"
  /\ \A b \in Agents : op[b].call # s            \* a call belongs to one agent
  /\ ~FoundBySpawn(s)
  /\ op' = [op EXCEPT ![a] = [Idle EXCEPT !.pc = "creating", !.call = s]]
  /\ UNCHANGED << spawnCall, budget, mail, completion, steered, up, registry, launching, exec,
                  crashes >>

SpawnCapacity ==
  /\ totalChildren < MaxTotal
  /\ activeChildren < MaxConcurrent

(* createRunLifecycle; parent and spawn call are unique together.            *)
InsertChild(c, s) ==
  /\ status[c] = "absent"
  /\ ~FoundBySpawn(s)
  /\ SpawnCapacity
  /\ status' = [status EXCEPT ![c] = "queued"]
  /\ spawnCall' = [spawnCall EXCEPT ![c] = s]
  /\ totalChildren' = totalChildren + 1
  /\ activeChildren' = activeChildren + 1

CreateChild(a) ==
  /\ op[a].pc = "creating"
  /\ \/ \E c \in Children :
          /\ InsertChild(c, op[a].call)
          /\ op' = [op EXCEPT ![a].pc = "created", ![a].child = c]
     \/ /\ op' = [op EXCEPT ![a] = Idle]        \* it throws; the thread is deleted
        /\ UNCHANGED << spawnCall, budget >>
  /\ UNCHANGED << mail, completion, steered, up, registry, launching, exec,
                  crashes >>

StartSpawned(a) ==
  /\ op[a].pc = "created"
  /\ StartOrRefuse(op[a].child)
  /\ op' = [op EXCEPT ![a] = Idle]
  /\ UNCHANGED << spawnCall, budget, mail, completion, steered, up, launching, crashes >>

(* A query between two transactions of the call fails: what is done stays.   *)
CallFails(a) ==
  /\ op[a].pc # "idle"
  /\ op' = [op EXCEPT ![a] = Idle]
  /\ UNCHANGED << spawnCall, budget, mail, completion, steered, up, registry, launching, exec,
                  crashes >>

-------------------------------------------------------------------------------
(* sendMessage, sendInput *)

Triggerable(c) == IsActive(c) \/ status[c] \in { "queued", "interrupted" }

SendRequest(a, m, c, trigger) ==
  /\ up /\ op[a].pc = "idle"
  /\ Exists(c)
  /\ \/ msgTo[m] = None
     \/ msgTo[m] = c /\ crashes > 0               \* the call is repeated after a crash
  /\ \A b \in Agents : op[b].msg # m
  /\ trigger => Triggerable(c)
  /\ op' = [op EXCEPT ![a] = [Idle EXCEPT !.pc = "appending", !.child = c, !.msg = m,
                                          !.trigger = trigger]]
  /\ UNCHANGED << spawnCall, budget, mail, completion, steered, up, registry, launching, exec,
                  crashes >>

(* nextAgentMessageSequence of the receiver's row.                           *)
NextSequence(c) == Cardinality(To(c)) + 1

AppendMessage(a) ==
  LET m == op[a].msg
      c == op[a].child
  IN /\ op[a].pc = "appending"
     /\ IF msgStatus[m] = "absent"
        THEN /\ msgStatus' = [msgStatus EXCEPT ![m] = "queued"]
             /\ msgTo' = [msgTo EXCEPT ![m] = c]
             /\ msgSequence' = [msgSequence EXCEPT ![m] = NextSequence(c)]
        ELSE UNCHANGED mail
     /\ op' = IF op[a].trigger /\ msgStatus[m] \in { "absent", "queued" }
              THEN [op EXCEPT ![a].pc = "appended"]
              ELSE [op EXCEPT ![a] = Idle]
     /\ UNCHANGED << spawnCall, budget, completion, steered, up, registry, launching, exec, crashes >>

(* After the await the child may have been started, or have ended.           *)
Trigger(a) ==
  LET c == op[a].child
  IN /\ op[a].pc = "appended"
     /\ IF IsActive(c)
        THEN /\ op' = IF Active(c) THEN [op EXCEPT ![a].pc = "steering"]
                      ELSE [op EXCEPT ![a] = Idle]                \* steer throws
             /\ UNCHANGED << exec, registry >>
        ELSE /\ StartOrRefuse(c)
             /\ op' = [op EXCEPT ![a] = Idle]
     /\ UNCHANGED << spawnCall, budget, mail, completion, steered, up, launching, crashes >>

(* RunSteeringController.enqueue accepts, finds the input, or throws.        *)
CanSteer(c, m) == \/ exec[c].accepting /\ status[c] = "running"
                  \/ m \in steered[c]

Steer(a) ==
  LET c == op[a].child
  IN /\ op[a].pc = "steering"
     /\ CanSteer(c, op[a].msg)
     /\ steered' = [steered EXCEPT ![c] = @ \cup { op[a].msg }]
     /\ op' = [op EXCEPT ![a].pc = "marking"]
     /\ UNCHANGED << spawnCall, budget, mail, completion, up, registry, launching, exec, crashes >>

MarkMessageDelivered(m) ==
  /\ msgStatus' = IF msgStatus[m] = "queued" THEN [msgStatus EXCEPT ![m] = "delivered"]
                  ELSE msgStatus
  /\ UNCHANGED << msgTo, msgSequence >>

MarkSteered(a) ==
  /\ op[a].pc = "marking"
  /\ MarkMessageDelivered(op[a].msg)
  /\ op' = [op EXCEPT ![a] = Idle]
  /\ UNCHANGED << spawnCall, budget, completion, steered, up, registry, launching, exec, crashes >>

-------------------------------------------------------------------------------
(* interrupt and resume *)

(* From starting to closing the run has its abort controller.                *)
HasController(c) == exec[c].pc \notin { "off", "settled" }

InterruptRequest(a, c) ==
  /\ up /\ op[a].pc = "idle"
  /\ \/ /\ Active(c) /\ HasController(c)
        /\ exec' = [exec EXCEPT ![c].aborted = TRUE]
     \/ /\ ~IsActive(c) /\ status[c] \notin { "absent" } \cup Terminal
        /\ UNCHANGED exec
  /\ op' = [op EXCEPT ![a] = [Idle EXCEPT !.pc = "cancelling", !.child = c]]
  /\ UNCHANGED << spawnCall, budget, mail, completion, steered, up, registry, launching, crashes >>

(* updateRunStatus(cancelled), whatever the status is by then.               *)
CancelChild(a) ==
  /\ op[a].pc = "cancelling"
  /\ SetStatus(op[a].child, "cancelled")
  /\ op' = [op EXCEPT ![a] = Idle]
  /\ UNCHANGED << spawnCall, mail, completion, steered, up, registry, launching, exec, crashes >>

(* resume by an agent reports to the manager; the user's run:resume reports  *)
(* to the client's socket.                                                   *)
Resume(c, reports) ==
  /\ up
  /\ status[c] = "interrupted"
  /\ MayStart(c)
  /\ Start(c, reports)
  /\ UNCHANGED << spawnCall, budget, mail, completion, steered, up, launching, op, crashes >>

-------------------------------------------------------------------------------
(* respondToApproval: the user decides, and a task with an id of its own     *)
(* continues the run.                                                        *)

AcceptDecision(c) ==
  /\ up
  /\ ~IsActive(c)
  /\ status[c] = "waiting_approval"
  /\ launching' = [launching EXCEPT ![c] = TRUE]
  /\ UNCHANGED << spawnCall, budget, mail, completion, steered, up, registry, exec, op, crashes >>

DecisionQueued(c) ==
  /\ launching[c]
  /\ launching' = [launching EXCEPT ![c] = FALSE]
  /\ \/ /\ SetStatus(c, "queued")
        /\ exec' = [exec EXCEPT ![c] = [Off EXCEPT !.pc = "starting"]]
     \/ UNCHANGED << budget, exec >>              \* the decision could not be stored
  /\ UNCHANGED << spawnCall, mail, completion, steered, up, registry, op, crashes >>

-------------------------------------------------------------------------------
(* The task: runtime.run, or continueApprovalDecision when ~run.             *)

Finish(c) == exec' = [exec EXCEPT ![c].pc = "closing", ![c].aborted = FALSE]
Goto(c, pc) == exec' = [exec EXCEPT ![c].pc = pc]

EnterRunning(c) ==
  /\ exec[c].pc = "starting"
  /\ \/ /\ SetStatus(c, "running")
        /\ Goto(c, "opening")
     \/ /\ ~MaySetStatus(c, "running")
        /\ Goto(c, "failing")
        /\ UNCHANGED budget
  /\ UNCHANGED << spawnCall, mail, completion, steered, up, registry, launching, op, crashes >>

OpenSteering(c) ==
  /\ exec[c].pc = "opening"
  /\ exec' = [exec EXCEPT ![c].pc = IF status[c] # "running" THEN "failing"
                                    ELSE IF exec[c].run THEN "listing" ELSE "working",
                          ![c].accepting = (status[c] = "running")]
  /\ UNCHANGED << spawnCall, budget, mail, completion, steered, up, registry, launching, op,
                  crashes >>

DeliveringOrWorking(left) == IF left = {} THEN "working" ELSE "delivering"

ListNothing(c) ==
  /\ exec[c].pc = "listing"
  /\ Goto(c, "working")
  /\ UNCHANGED << spawnCall, budget, mail, completion, steered, up, registry, launching, op,
                  crashes >>

ListQueued(c) ==
  /\ exec[c].pc = "listing"
  /\ exec' = [exec EXCEPT ![c].pc = DeliveringOrWorking(Queued(c)),
                          ![c].deliver = Queued(c)]
  /\ UNCHANGED << spawnCall, budget, mail, completion, steered, up, registry, launching, op,
                  crashes >>

NextToDeliver(c) ==
  CHOOSE m \in exec[c].deliver :
    \A n \in exec[c].deliver : msgSequence[m] =< msgSequence[n]

DeliverWithoutEnqueue(c) ==
  LET m == NextToDeliver(c)
  IN /\ exec[c].pc = "delivering"
     /\ exec' = [exec EXCEPT ![c].pc = "delivered"]
     /\ UNCHANGED steered
     /\ UNCHANGED << spawnCall, budget, mail, completion, up, registry, launching, op, crashes >>

DeliverNext(c) ==
  LET m == NextToDeliver(c)
  IN /\ exec[c].pc = "delivering"
     /\ IF CanSteer(c, m)
        THEN /\ steered' = [steered EXCEPT ![c] = @ \cup { m }]
             /\ exec' = [exec EXCEPT ![c].pc = "delivered"]
        ELSE /\ exec' = [exec EXCEPT ![c].pc = "failing", ![c].deliver = {}]
             /\ UNCHANGED steered
     /\ UNCHANGED << spawnCall, budget, mail, completion, up, registry, launching, op, crashes >>

MarkDelivered(c) ==
  LET m == NextToDeliver(c)
  IN /\ exec[c].pc = "delivered"
     /\ MarkMessageDelivered(m)
     /\ exec' = [exec EXCEPT ![c].pc = DeliveringOrWorking(exec[c].deliver \ { m }),
                             ![c].deliver = @ \ { m }]
     /\ UNCHANGED << spawnCall, budget, completion, steered, up, registry, launching, op, crashes >>

(* execute ends in a question to the user, or in a claimed answer.           *)
Ask(c) ==
  /\ exec[c].pc = "working"
  /\ \E s \in { "waiting_approval", "clarification_needed" } : SetStatus(c, s)
  /\ Finish(c)
  /\ UNCHANGED << spawnCall, mail, completion, steered, up, registry, launching, op, crashes >>

Answer(c) ==
  /\ exec[c].pc = "working"
  /\ exec' = [exec EXCEPT ![c].pc = IF exec[c].run THEN "acking" ELSE "completing",
                          ![c].accepting = FALSE]
  /\ UNCHANGED << spawnCall, budget, mail, completion, steered, up, registry, launching, op,
                  crashes >>

CheckpointDelivered(c) ==
  /\ exec[c].pc = "acking"
  /\ msgStatus' = [m \in Messages |->
       IF m \in To(c) /\ msgStatus[m] = "delivered" THEN "checkpointed" ELSE msgStatus[m]]
  /\ Goto(c, "completing")
  /\ UNCHANGED << spawnCall, budget, msgTo, msgSequence, completion, steered, up, registry,
                  launching, op, crashes >>

Complete(c) ==
  /\ exec[c].pc = "completing"
  /\ SetStatus(c, "completed")
  /\ Finish(c)
  /\ UNCHANGED << spawnCall, mail, completion, steered, up, registry, launching, op, crashes >>

(* An error or the abort signal, anywhere before the finalizer's own write.  *)
Fault(c) ==
  /\ exec[c].pc \in { "starting", "opening", "listing", "delivering", "delivered", "working",
                      "acking", "completing" }
  /\ exec' = [exec EXCEPT ![c].pc = "failing", ![c].deliver = {}]
  /\ UNCHANGED << spawnCall, budget, mail, completion, steered, up, registry, launching, op,
                  crashes >>

Fail(c) ==
  /\ exec[c].pc = "failing"
  /\ SetStatus(c, IF exec[c].aborted THEN "cancelled" ELSE "failed")
  /\ Finish(c)
  /\ UNCHANGED << spawnCall, mail, completion, steered, up, registry, launching, op, crashes >>

(* The finally block, then the registry's record ends, and the callback reads *)
(* the run.                                                                  *)
Settle(c) ==
  /\ exec[c].pc = "closing"
  /\ registry' = IF exec[c].run THEN [registry EXCEPT ![c] = "retained"] ELSE registry
  /\ exec' = [exec EXCEPT ![c].pc = "settled", ![c].accepting = FALSE, ![c].saw = status[c]]
  /\ UNCHANGED << spawnCall, budget, mail, completion, steered, up, launching, op, crashes >>

(* onChildSettled: appendMessage with a fixed id stores once, finds the same  *)
(* message, or throws, as any query may; the task logs that and ends.        *)
TaskEnds(c) ==
  /\ exec[c].pc = "settled"
  /\ \/ /\ exec[c].reports /\ exec[c].saw \in Terminal /\ completion[c] = None
        /\ completion' = [completion EXCEPT ![c] = exec[c].saw]
     \/ UNCHANGED completion
  /\ exec' = [exec EXCEPT ![c] = Off]
  /\ UNCHANGED << spawnCall, budget, mail, steered, up, registry, launching, op, crashes >>

(* A finished record is kept for five minutes: longer than any control call. *)
RetentionExpires(c) ==
  /\ registry[c] = "retained"
  /\ \A a \in Agents : op[a].child # c
  /\ registry' = [registry EXCEPT ![c] = "none"]
  /\ UNCHANGED << spawnCall, budget, mail, completion, steered, up, launching, exec, op, crashes >>

-------------------------------------------------------------------------------
(* Crash, and the start of the next process: recoverOrphanedRuns, then       *)
(* reconcileTerminalCompletions.  Nothing else runs before both are done,    *)
(* and each of their steps can be repeated.                                  *)

Crash ==
  /\ up /\ crashes < MaxCrashes
  /\ up' = FALSE
  /\ crashes' = crashes + 1
  /\ registry' = [c \in Children |-> "none"]
  /\ launching' = [c \in Children |-> FALSE]
  /\ exec' = [c \in Children |-> Off]
  /\ op' = [a \in Agents |-> Idle]
  /\ UNCHANGED << spawnCall, budget, mail, completion, steered >>

Orphans == { c \in Children : status[c] \in { "queued", "running" } }

RecoveredAs(r) ==
  [c \in Children |-> IF c \in Orphans
                      THEN IF c \in r THEN "requires_action" ELSE "interrupted"
                      ELSE status[c]]

(* r: the orphans whose checkpoint names a call with an unknown effect.      *)
Recover(r) ==
  /\ status' = RecoveredAs(r)
  /\ activeChildren' = activeChildren - Cardinality(Orphans)

(* appendMessage throws when the stored completion says something else.      *)
CompletionConflict(c, s) == completion[c] \notin { None, s }

Boot ==
  /\ ~up
  /\ \E r \in SUBSET Orphans : Recover(r)
  /\ \A c \in Children : status'[c] \in Terminal => ~CompletionConflict(c, status'[c])
  /\ completion' = [c \in Children |->
       IF status'[c] \in Terminal THEN status'[c] ELSE completion[c]]
  /\ up' = TRUE
  /\ UNCHANGED << spawnCall, totalChildren, mail, steered, registry, launching, exec, op, crashes >>

-------------------------------------------------------------------------------
AgentStep(a) ==
  \/ \E s \in SpawnCalls : SpawnRequest(a, s)
  \/ CreateChild(a) \/ StartSpawned(a) \/ CallFails(a)
  \/ \E m \in Messages, c \in Children, t \in BOOLEAN : SendRequest(a, m, c, t)
  \/ AppendMessage(a) \/ Trigger(a) \/ Steer(a) \/ MarkSteered(a)
  \/ \E c \in Children : InterruptRequest(a, c)
  \/ CancelChild(a)

TaskStep(c) ==
  \/ EnterRunning(c) \/ OpenSteering(c) \/ ListQueued(c) \/ DeliverNext(c)
  \/ MarkDelivered(c) \/ Ask(c) \/ Answer(c)
  \/ CheckpointDelivered(c) \/ Complete(c) \/ Fault(c) \/ Fail(c)
  \/ Settle(c) \/ TaskEnds(c)

UserStep(c) ==
  \/ \E reports \in BOOLEAN : Resume(c, reports)
  \/ AcceptDecision(c) \/ DecisionQueued(c) \/ RetentionExpires(c)

NextChildren ==
  \/ \E a \in Agents : AgentStep(a)
  \/ \E c \in Children : TaskStep(c) \/ UserStep(c)
  \/ Crash \/ Boot

SpecChildren == InitChildren /\ [][NextChildren]_childVars

(* The process goes on running its tasks.  Nobody has to decide, resume or   *)
(* send, nothing has to fail, and a crashed process may stay down.           *)
FairTask(c) ==
  \/ EnterRunning(c) \/ OpenSteering(c) \/ ListQueued(c) \/ DeliverNext(c)
  \/ MarkDelivered(c) \/ Ask(c) \/ Answer(c)
  \/ CheckpointDelivered(c) \/ Complete(c) \/ Fail(c)
  \/ Settle(c) \/ TaskEnds(c)

FairChildren == SpecChildren /\ \A c \in Children : WF_childVars(FairTask(c))

-------------------------------------------------------------------------------
(* Properties.                                                               *)

ExecPc == { "off", "starting", "opening", "listing", "delivering", "delivered", "working",
            "acking", "completing", "failing", "closing", "settled" }
OpPc == { "idle", "creating", "created", "appending", "appended", "steering", "marking",
          "cancelling" }

ChildTasks == [ pc : ExecPc, reports : BOOLEAN, run : BOOLEAN, accepting : BOOLEAN,
                aborted : BOOLEAN, deliver : SUBSET Messages, saw : ChildStatus ]
ControlCalls == [ pc : OpPc, call : SpawnCalls \cup { None }, child : Children \cup { None },
                  msg : Messages \cup { None }, trigger : BOOLEAN ]

(* Every variable has its shape.                                             *)
ChildTypeOK ==
  /\ status \in [Children -> ChildStatus]
  /\ spawnCall \in [Children -> SpawnCalls \cup { None }]
  /\ totalChildren \in Nat /\ activeChildren \in Nat
  /\ msgStatus \in [Messages -> { "absent", "queued", "delivered", "checkpointed" }]
  /\ msgTo \in [Messages -> Children \cup { None }]
  /\ msgSequence \in [Messages -> Nat]
  /\ completion \in [Children -> Terminal \cup { None }]
  /\ steered \in [Children -> SUBSET Messages]
  /\ up \in BOOLEAN
  /\ registry \in [Children -> { "none", "running", "retained" }]
  /\ launching \in [Children -> BOOLEAN]
  /\ exec \in [Children -> ChildTasks]
  /\ op \in [Agents -> ControlCalls]
  /\ crashes \in 0..MaxCrashes

(* The counters of the root budget tell the truth about the child rows, and  *)
(* never exceed the limits, through starts, interrupts, resumes, failures    *)
(* and recovery (runStateRepository.ts adjustActiveChildBudget).             *)
BudgetMatchesRows ==
  /\ activeChildren = Cardinality({ c \in Children : status[c] \in BudgetActive })
  /\ totalChildren = Cardinality({ c \in Children : Exists(c) })
  /\ activeChildren =< MaxConcurrent
  /\ totalChildren =< MaxTotal

(* A message recorded as delivered is an input of its receiver: the two are  *)
(* written in separate transactions, by an agent or by the starting run, and *)
(* a crash may fall in between (deliverAgentMailbox, sendMessage).           *)
DeliveredWasSteered ==
  \A m \in Messages :
    msgStatus[m] \in { "delivered", "checkpointed" } => m \in steered[msgTo[m]]

(* While the server is up, a child that is said to run has a task.           *)
RunningIsDriven ==
  up => \A c \in Children : status[c] = "running" => Active(c)

(* Spawn, a trigger message, a resume and an approval may all want to start  *)
(* a child; none starts a second task beside one that has not ended.         *)
NoSecondExecutor ==
  [][\A c \in Children :
       exec'[c].pc = "starting" => exec[c].pc \in { "off", "starting" }]_childVars

(* A message that waits when its receiver starts as a run is delivered, or   *)
(* the child ends, or the process dies.                                      *)
WaitingMessageIsDelivered ==
  \A m \in Messages, c \in Children :
    (m \in Queued(c) /\ exec[c].run /\ exec[c].pc = "starting")
      ~> (msgStatus[m] # "queued" \/ status[c] \in Terminal \/ ~up)

(* When a process stops, the completions already published agree with the    *)
(* children's final status, so that the next process's reconcile accepts     *)
(* them ("reconciles terminal completion idempotently").                     *)
ReconcileAgrees ==
  ~up => \A c \in Children : status[c] \in Terminal => ~CompletionConflict(c, status[c])

=============================================================================
