------------------------------ MODULE ToolCalls ------------------------------
(***************************************************************************)
(* What happens to the tool calls of one Run between the model asking for   *)
(* them and their results being inside a saved SDK checkpoint:              *)
(*                                                                          *)
(*   apps/server/src/agent/agentsToolBridge.ts        what the SDK invokes  *)
(*   apps/server/src/agent/toolExecutionCoordinator.ts      one execution   *)
(*   apps/server/src/agent-runtime/tools/ToolInvocationLedger.ts            *)
(*   apps/server/src/agent-runtime/tools/ToolEffectCommitter.ts             *)
(*   apps/server/src/agent-runtime/approvals/ApprovalService.ts             *)
(*   apps/server/src/agent/runtimeSdkExecutor.ts       checkpoints          *)
(*   apps/server/src/agent/runtimeTranscriptProjector.ts  tool outputs      *)
(*   apps/server/src/store/postgres/toolInvocationRepository.ts,            *)
(*     toolResultCommitRepository.ts, approvalRepository.ts,                *)
(*     runCheckpointRepository.ts                       the transactions    *)
(*                                                                          *)
(* The calls of one model response run as tasks of one process, side by     *)
(* side; a step ends where a task awaits.  The process may die anywhere.    *)
(* A run that fails or is cancelled does not stop the tasks it started.     *)
(* The mailbox of user inputs is in RunMailbox and RunExecutor.             *)
(***************************************************************************)
EXTENDS ToolGate, FiniteSets

CONSTANTS
  Gated,        \* calls whose action the approval policy asks the user about
  MaxRestarts   \* bound of the model: how often the process dies

ASSUME GatedAreCalls == Gated \subseteq Calls
ASSUME MaxRestartsIsNatural == MaxRestarts \in Nat

VARIABLES
  (* durable: platform_tool_invocations, one function per column *)
  invocationStatus,
  terminalOutcome,
  (* platform_tool_result_commits *)
  committed,
  (* platform_approval_records *)
  approvalStatus,
  approvalDecision,
  sessionScope,        \* the calls approved with scope 'session'
  (* platform_runs *)
  runStatus,
  pendingToolCallIds,
  recoveryStatus,
  stateApprovals,      \* state.approvals that are pending, by call
  checkpoint,          \* the saved SDK RunState
  (* the executor, in the process *)
  phase,
  turnEnd,             \* why the executor saves or stops
  sdk,                 \* the RunState in memory
  terminalIds,         \* checkpointTerminalCallIds() as read
  outputs,             \* tool outputs the transcript projector has not handled
  aborted,
  pc,                  \* where the task of each call is
  (* history *)
  effects,             \* how often the tool has acted, per call
  restarts

invocation == << invocationStatus, terminalOutcome >>
approval == << approvalStatus, approvalDecision, sessionScope >>
run == << runStatus, recoveryStatus, stateApprovals, checkpoint >>
executor == << phase, turnEnd, sdk, terminalIds, outputs, aborted >>
history == << effects, restarts >>
callVars == << gate, invocation, committed, approval, run, pendingToolCallIds,
               executor, pc, history >>

Terminal == { "succeeded", "failed", "rejected" }
NoCalls == [saved |-> FALSE, open |-> {}, done |-> {}]

InitCalls ==
  /\ InitGate
  /\ invocationStatus = [c \in Calls |-> "absent"]
  /\ terminalOutcome = [c \in Calls |-> "none"]
  /\ committed = {}
  /\ approvalStatus = [c \in Calls |-> "absent"]
  /\ approvalDecision = [c \in Calls |-> "none"]
  /\ sessionScope = {}
  /\ runStatus = "running" /\ recoveryStatus = "clean"
  /\ pendingToolCallIds = {} /\ stateApprovals = {}
  /\ checkpoint = NoCalls
  /\ phase = "reading" /\ turnEnd = "request"
  /\ sdk = NoCalls /\ terminalIds = {} /\ outputs = {} /\ aborted = FALSE
  /\ pc = [c \in Calls |-> "idle"]
  /\ effects = [c \in Calls |-> 0]
  /\ restarts = 0

Goto(c, p) == pc' = [pc EXCEPT ![c] = p]
UnknownOr(s, pending) == IF pending = {} THEN s ELSE "requires_action"

-------------------------------------------------------------------------------
(* Transactions.  Each locks its row and checks the version read just before *)
(* by its caller; only one task ever works on a call, so the check passes    *)
(* when the status does.                                                     *)

PrepareInvocation(c) ==
  /\ invocationStatus' = [invocationStatus EXCEPT ![c] = IF @ = "absent" THEN "prepared" ELSE @]
  /\ UNCHANGED terminalOutcome

StartWithoutPending(c) ==
  /\ invocationStatus[c] = "prepared"
  /\ invocationStatus' = [invocationStatus EXCEPT ![c] = "running"]
  /\ recoveryStatus' = "requires_action"
  /\ UNCHANGED << terminalOutcome, pendingToolCallIds >>

StartInvocation(c) ==
  /\ invocationStatus[c] = "prepared"
  /\ invocationStatus' = [invocationStatus EXCEPT ![c] = "running"]
  /\ pendingToolCallIds' = pendingToolCallIds \cup {c}
  /\ recoveryStatus' = "requires_action"
  /\ UNCHANGED terminalOutcome

TerminateInvocation(c, outcome) ==
  /\ invocationStatus[c] \in IF outcome = "rejected" THEN { "prepared", "running" }
                                                     ELSE { "running" }
  /\ invocationStatus' = [invocationStatus EXCEPT ![c] = outcome]
  /\ terminalOutcome' = [terminalOutcome EXCEPT ![c] = outcome]

ConsumeNothing(c) == UNCHANGED approvalStatus
ConsumeApproval(c) ==
  IF c \in Gated
  THEN /\ approvalStatus[c] \in { "resolved", "consumed" }
       /\ approvalDecision[c] = "approved"
       /\ approvalStatus' = [approvalStatus EXCEPT ![c] = "consumed"]
  ELSE UNCHANGED approvalStatus

-------------------------------------------------------------------------------
(* The executor. *)

(* Sent with every request but the first of a segment, and at its end, once  *)
(* the stream's events are handled; a baseline before the first request.     *)
ReadTerminalCallIds ==
  /\ phase = "reading"
  /\ turnEnd # "request" => outputs = {}
  /\ terminalIds' = { c \in Calls : invocationStatus[c] \in Terminal }
  /\ phase' = "saving"
  /\ UNCHANGED << gate, invocation, committed, approval, run, pendingToolCallIds,
                  turnEnd, sdk, outputs, aborted, pc, history >>

StillPending == pendingToolCallIds \ terminalIds

SaveAgentsSdkCheckpoint ==
  /\ phase = "saving"
  /\ invocationStatus' = [c \in Calls |-> IF c \in terminalIds THEN "checkpointed"
                                                               ELSE invocationStatus[c]]
  /\ pendingToolCallIds' = StillPending
  /\ recoveryStatus' = UnknownOr("clean", StillPending)
  /\ checkpoint' = [sdk EXCEPT !.saved = TRUE]
  /\ terminalIds' = {}
  /\ phase' = IF turnEnd = "request" THEN "model" ELSE "stopping"
  /\ UNCHANGED << gate, terminalOutcome, committed, approval, runStatus, stateApprovals,
                  turnEnd, sdk, outputs, aborted, pc, history >>

(* The response asks for new calls, whose ids the provider makes, or none.   *)
ModelResponds(asked) ==
  /\ phase = "model"
  /\ ~aborted
  /\ \A c \in asked : invocationStatus[c] = "absent"
  /\ sdk' = [sdk EXCEPT !.open = asked]
  /\ phase' = IF asked = {} THEN "reading" ELSE "tools"
  /\ turnEnd' = IF asked = {} THEN "final" ELSE turnEnd
  /\ pc' = [c \in Calls |-> IF c \in asked THEN "called" ELSE pc[c]]
  /\ UNCHANGED << gate, invocation, committed, approval, run, pendingToolCallIds,
                  terminalIds, outputs, aborted, history >>

(* The SDK awaits all calls of the response.  Those that need a decision     *)
(* stay open.                                                                *)
TurnEnds ==
  LET returned == { c \in sdk.open : pc[c] = "returned" }
      awaiting == { c \in sdk.open : pc[c] = "awaits" }
  IN  /\ phase = "tools"
      /\ sdk.open = returned \cup awaiting
      /\ sdk' = [sdk EXCEPT !.open = awaiting, !.done = @ \cup returned]
      /\ outputs' = outputs \cup returned
      /\ phase' = "reading"
      /\ turnEnd' = IF awaiting = {} THEN "request" ELSE "approval"
      /\ UNCHANGED << gate, invocation, committed, approval, run, pendingToolCallIds,
                      terminalIds, aborted, pc, history >>

(* markSdkToolCallTerminal, for each output the stream yields.  A call whose *)
(* execution never reached the ledger is started here, and then succeeds:    *)
(* the SDK's output says "completed".                                        *)
MarkStarted(c) ==
  /\ c \in outputs
  /\ StartInvocation(c)
  /\ ConsumeApproval(c)
  /\ UNCHANGED << gate, committed, approvalDecision, sessionScope, runStatus, stateApprovals,
                  checkpoint, executor, pc, history >>

MarkTerminal(c) ==
  /\ c \in outputs
  /\ IF terminalOutcome[c] # "none" \/ invocationStatus[c] = "absent"
     THEN UNCHANGED invocation
     ELSE TerminateInvocation(c, "succeeded")
  /\ outputs' = outputs \ {c}
  /\ UNCHANGED << gate, committed, approval, run, pendingToolCallIds, phase, turnEnd, sdk,
                  terminalIds, aborted, pc, history >>

(* complete(), or the updates of a run that waits for a decision.            *)
StopRun ==
  /\ phase = "stopping"
  /\ runStatus' = CASE turnEnd = "approval" -> "waiting_approval"
                    [] turnEnd = "final" -> "completed"
                    [] turnEnd = "failed" -> "failed"
                    [] turnEnd = "cancelled" -> "cancelled"
  /\ recoveryStatus' = IF turnEnd = "approval" THEN "requires_action" ELSE "clean"
  /\ stateApprovals' = IF turnEnd = "approval" THEN sdk.open ELSE stateApprovals
  /\ phase' = "off"
  /\ outputs' = {}
  /\ UNCHANGED << gate, invocation, committed, approval, pendingToolCallIds, checkpoint,
                  turnEnd, sdk, terminalIds, aborted, pc, history >>

Cancel ==
  /\ phase \notin { "off", "stopping" }
  /\ ~aborted
  /\ aborted' = TRUE
  /\ runStatus' = "cancelled"
  /\ recoveryStatus' = "clean"
  /\ UNCHANGED << gate, invocation, committed, approval, pendingToolCallIds, stateApprovals,
                  checkpoint, phase, turnEnd, sdk, terminalIds, outputs, pc, history >>

SeeAbort ==
  /\ aborted
  /\ phase \in { "model", "tools" }
  /\ phase' = "stopping"
  /\ turnEnd' = "cancelled"
  /\ UNCHANGED << gate, invocation, committed, approval, run, pendingToolCallIds, sdk,
                  terminalIds, outputs, aborted, pc, history >>

(* An error that errorFunction throws on fails the run, not the other calls. *)
FailRun ==
  IF phase = "tools"
  THEN phase' = "stopping" /\ turnEnd' = "failed"
  ELSE UNCHANGED << phase, turnEnd >>

-------------------------------------------------------------------------------
(* The task of a call. *)

InheritedApproval == sessionScope # {}

(* A new record is approved at once when the session has approved the same   *)
(* action; here the gated calls are all the same action.                     *)
NewApproval(c) ==
  /\ approvalStatus[c] = "absent"
  /\ approvalStatus' = [approvalStatus EXCEPT ![c] = IF InheritedApproval THEN "resolved"
                                                                          ELSE "pending"]
  /\ approvalDecision' = [approvalDecision EXCEPT ![c] = IF InheritedApproval THEN "approved"
                                                                               ELSE "none"]
  /\ Goto(c, IF InheritedApproval THEN "ready" ELSE "awaits")
  /\ UNCHANGED << phase, turnEnd >>

StoredApproval(c) ==
  /\ approvalStatus[c] # "absent"
  /\ UNCHANGED << approvalStatus, approvalDecision >>
  /\ \/ /\ approvalStatus[c] = "pending"
        /\ Goto(c, "awaits") /\ UNCHANGED << phase, turnEnd >>
     \/ /\ approvalDecision[c] = "approved"
        /\ Goto(c, "ready") /\ UNCHANGED << phase, turnEnd >>
     \/ /\ approvalDecision[c] = "rejected"
        /\ Goto(c, "returned") /\ FailRun

(* needsApproval: the ledger row first, then the decision.  execute prepares  *)
(* again and finds the row.                                                  *)
NeedsApproval(c) ==
  /\ pc[c] = "called"
  /\ PrepareInvocation(c)
  /\ IF c \in Gated
     THEN NewApproval(c) \/ StoredApproval(c)
     ELSE /\ Goto(c, "ready")
          /\ UNCHANGED << approvalStatus, approvalDecision, phase, turnEnd >>
  /\ UNCHANGED << gate, committed, sessionScope, run, pendingToolCallIds, sdk, terminalIds,
                  outputs, aborted, history >>

EnterGate(c) ==
  /\ pc[c] = "ready"
  /\ Acquire(c)
  /\ Goto(c, "queued")
  /\ UNCHANGED << invocation, committed, approval, run, pendingToolCallIds, executor, history >>

(* In the gate the authorization is asserted and the signal looked at, both  *)
(* before execute's try.                                                     *)
Refused(c) ==
  /\ pc[c] = "queued" /\ lease[c] = "held"
  /\ Goto(c, "failing")
  /\ UNCHANGED << gate, invocation, committed, approval, run, pendingToolCallIds, executor,
                  history >>

DecideExecution(c) ==
  /\ pc[c] = "queued" /\ lease[c] = "held"
  /\ ~aborted
  /\ ConsumeApproval(c)
  /\ Goto(c, "decided")
  /\ UNCHANGED << gate, invocation, committed, approvalDecision, sessionScope, run,
                  pendingToolCallIds, executor, history >>

(* ledger.start returns a running record as it is. *)
StartCall(c) ==
  /\ pc[c] = "decided"
  /\ IF invocationStatus[c] = "running"
     THEN UNCHANGED << invocation, pendingToolCallIds, recoveryStatus >>
     ELSE StartInvocation(c)
  /\ Goto(c, "started")
  /\ UNCHANGED << gate, committed, approval, runStatus, stateApprovals, checkpoint, executor,
                  history >>

RunTool(c) ==
  /\ pc[c] = "started"
  /\ effects' = [effects EXCEPT ![c] = @ + 1]
  /\ Goto(c, "ran")
  /\ UNCHANGED << gate, invocation, committed, approval, run, pendingToolCallIds, executor,
                  restarts >>

(* One transaction: the claim of the result, the run's values and artifacts, *)
(* the terminal ledger row.                                                  *)
CommitEffect(c) ==
  /\ pc[c] = "ran"
  /\ invocationStatus[c] = "running"
  /\ c \notin committed
  /\ committed' = committed \cup {c}
  /\ TerminateInvocation(c, "succeeded")
  /\ recoveryStatus' = UnknownOr("clean", pendingToolCallIds)
  /\ Goto(c, "leaving")
  /\ UNCHANGED << gate, approval, runStatus, stateApprovals, checkpoint, pendingToolCallIds,
                  executor, history >>

(* A step of the try throws: a policy, the claim of a workflow step, the     *)
(* tool (before or after it acted), or the commit.                           *)
ThrowInTry(c) ==
  /\ pc[c] \in { "queued", "decided", "started", "ran" }
  /\ lease[c] = "held"
  /\ Goto(c, "catching")
  /\ UNCHANGED << gate, invocation, committed, approval, run, pendingToolCallIds, executor,
                  history >>

CatchOutcomeAlwaysRejected(c) == "rejected"
CatchOutcome(c) == IF invocationStatus[c] = "prepared" THEN "rejected" ELSE "failed"

SettleInCatch(c) ==
  /\ pc[c] = "catching"
  /\ IF terminalOutcome[c] = "none"
     THEN TerminateInvocation(c, CatchOutcome(c))
     ELSE UNCHANGED invocation
  /\ Goto(c, "failing")
  /\ UNCHANGED << gate, committed, approval, run, pendingToolCallIds, executor, history >>

(* The settlement throws too: it becomes a warning. *)
SettlementFails(c) ==
  /\ pc[c] = "catching"
  /\ Goto(c, "failing")
  /\ UNCHANGED << gate, invocation, committed, approval, run, pendingToolCallIds, executor,
                  history >>

(* The error becomes text for the model, or fails the run.                   *)
LeaveGate(c) ==
  /\ pc[c] \in { "leaving", "failing" }
  /\ Release(c)
  /\ Goto(c, "returned")
  /\ \/ UNCHANGED << phase, turnEnd >>
     \/ pc[c] = "failing" /\ FailRun
  /\ UNCHANGED << invocation, committed, approval, run, pendingToolCallIds, sdk, terminalIds,
                  outputs, aborted, history >>

(* continueApprovalDecision of a rejection: the ledger, then the record; the *)
(* SDK then writes the call's output itself.                                 *)
RejectCall(c) ==
  /\ pc[c] = "refusing"
  /\ IF terminalOutcome[c] = "rejected"
     THEN UNCHANGED invocation
     ELSE TerminateInvocation(c, "rejected")
  /\ Goto(c, "rejecting")
  /\ UNCHANGED << gate, committed, approval, run, pendingToolCallIds, executor, history >>

ConsumeRejection(c) ==
  /\ pc[c] = "rejecting"
  /\ approvalStatus' = [approvalStatus EXCEPT ![c] = "consumed"]
  /\ Goto(c, "returned")
  /\ UNCHANGED << gate, invocation, committed, approvalDecision, sessionScope, run,
                  pendingToolCallIds, executor, history >>

-------------------------------------------------------------------------------
(* The user. *)

(* The record is resolved, the run set running, its checkpoint restored and  *)
(* the calls left open looked at again.  How the command gets here, and what *)
(* a crash on the way does, is in RunExecutor.                               *)
Decide(c, decision, scope) ==
  /\ runStatus = "waiting_approval" /\ phase = "off"
  /\ c \in stateApprovals
  /\ approvalStatus[c] = "pending"
  /\ approvalStatus' = [approvalStatus EXCEPT ![c] = "resolved"]
  /\ approvalDecision' = [approvalDecision EXCEPT ![c] = decision]
  /\ sessionScope' = IF decision = "approved" /\ scope = "session" THEN sessionScope \cup {c}
                                                                    ELSE sessionScope
  /\ stateApprovals' = stateApprovals \ {c}
  /\ runStatus' = "running" /\ recoveryStatus' = "clean"
  /\ phase' = "tools" /\ turnEnd' = "request" /\ aborted' = FALSE
  /\ sdk' = checkpoint
  /\ pc' = [d \in Calls |-> IF d \in checkpoint.open
                            THEN IF d = c /\ decision = "rejected" THEN "refusing" ELSE "called"
                            ELSE "idle"]
  /\ UNCHANGED << gate, invocation, committed, checkpoint, pendingToolCallIds, terminalIds,
                  outputs, history >>

ResumableLikeARetry ==
  /\ runStatus \in { "interrupted", "requires_action" }
  /\ stateApprovals = {}
  /\ checkpoint.saved

Resumable ==
  /\ runStatus = "interrupted" /\ recoveryStatus = "interrupted"
  /\ stateApprovals = {}
  /\ pendingToolCallIds = {}
  /\ checkpoint.saved

Resume ==
  /\ Resumable /\ phase = "off"
  /\ runStatus' = "running" /\ recoveryStatus' = "clean"
  /\ sdk' = checkpoint
  /\ phase' = IF checkpoint.open = {} THEN "reading" ELSE "tools"
  /\ turnEnd' = "request"
  /\ pc' = [c \in Calls |-> IF c \in checkpoint.open THEN "called" ELSE "idle"]
  /\ UNCHANGED << gate, invocation, committed, approval, stateApprovals, checkpoint,
                  pendingToolCallIds, terminalIds, outputs, aborted, history >>

-------------------------------------------------------------------------------
UnknownCallsReported == recoveryStatus = "requires_action" \/ pendingToolCallIds # {}

(* The process dies; recoverOrphanedRuns runs before the next one serves.    *)
Restart ==
  /\ restarts < MaxRestarts
  /\ restarts' = restarts + 1
  /\ ResetGate
  /\ IF runStatus = "running"
     THEN /\ runStatus' = IF UnknownCallsReported THEN "requires_action" ELSE "interrupted"
          /\ recoveryStatus' = runStatus'
     ELSE UNCHANGED << runStatus, recoveryStatus >>
  /\ phase' = "off" /\ turnEnd' = "request" /\ sdk' = NoCalls
  /\ terminalIds' = {} /\ outputs' = {} /\ aborted' = FALSE
  /\ pc' = [c \in Calls |-> "idle"]
  /\ UNCHANGED << invocation, committed, approval, stateApprovals, checkpoint,
                  pendingToolCallIds, effects >>

CallStep(c) ==
  \/ NeedsApproval(c) \/ EnterGate(c) \/ Refused(c)
  \/ DecideExecution(c) \/ StartCall(c) \/ RunTool(c) \/ CommitEffect(c)
  \/ ThrowInTry(c) \/ SettleInCatch(c) \/ SettlementFails(c) \/ LeaveGate(c)
  \/ RejectCall(c) \/ ConsumeRejection(c)

ExecutorStep ==
  \/ ReadTerminalCallIds \/ SaveAgentsSdkCheckpoint \/ TurnEnds \/ StopRun \/ SeeAbort
  \/ \E c \in Calls : MarkStarted(c) \/ MarkTerminal(c)

NextCalls ==
  \/ ExecutorStep
  \/ \E asked \in SUBSET Calls : ModelResponds(asked)
  \/ \E c \in Calls : CallStep(c)
  \/ \E c \in Calls, d \in { "approved", "rejected" }, s \in { "exact_call", "session" } :
       Decide(c, d, s)
  \/ Cancel \/ Resume \/ Restart

SpecCalls == InitCalls /\ [][NextCalls]_callVars

-------------------------------------------------------------------------------
(* Properties. *)

CallPcs == { "idle", "called", "awaits", "ready", "queued", "decided",
             "started", "ran", "catching", "failing", "leaving", "refusing", "rejecting",
             "returned" }

CallColumnsOK ==
  /\ invocationStatus \in [Calls -> { "absent", "prepared", "running", "checkpointed" } \cup Terminal]
  /\ terminalOutcome \in [Calls -> Terminal \cup { "none" }]
  /\ committed \subseteq Calls
  /\ approvalStatus \in [Calls -> { "absent", "pending", "resolved", "consumed" }]
  /\ approvalDecision \in [Calls -> { "none", "approved", "rejected" }]
  /\ sessionScope \subseteq Calls
  /\ runStatus \in { "running", "waiting_approval", "completed", "failed", "cancelled",
                     "interrupted", "requires_action" }
  /\ recoveryStatus \in { "clean", "interrupted", "requires_action" }
  /\ pendingToolCallIds \subseteq Calls /\ stateApprovals \subseteq Calls
  /\ checkpoint \in [saved : BOOLEAN, open : SUBSET Calls, done : SUBSET Calls]
  /\ phase \in { "off", "reading", "saving", "model", "tools", "stopping" }
  /\ turnEnd \in { "request", "approval", "final", "failed", "cancelled" }
  /\ sdk \in [saved : BOOLEAN, open : SUBSET Calls, done : SUBSET Calls]
  /\ terminalIds \subseteq Calls /\ outputs \subseteq Calls /\ aborted \in BOOLEAN
  /\ pc \in [Calls -> CallPcs]
  /\ effects \in [Calls -> Nat]
  /\ restarts \in 0..MaxRestarts

CallsTypeOK == GateTypeOK /\ CallColumnsOK

(* A tool acts at most once per call, whatever is retried, resumed or        *)
(* decided around it and wherever the process dies.                          *)
EffectAtMostOnce == \A c \in Calls : effects[c] <= 1

(* A run that can be continued from its checkpoint has, in that checkpoint,  *)
(* the result of every call that acted: the model is never sent back to a    *)
(* point before something it already did.                                    *)
ResumeForgetsNoEffect ==
  Resumable => \A c \in Calls : effects[c] > 0 => c \in checkpoint.done

(* A gated call acts only on an approval that is its own or the session's,   *)
(* and that is used up before it acts; one the user rejected never acts.     *)
NoEffectWithoutApproval ==
  \A c \in Gated :
    effects[c] > 0 => approvalStatus[c] = "consumed" /\ approvalDecision[c] = "approved"

(* The ledger tells what happened: a call recorded as rejected did not act,  *)
(* one whose result is committed did and is recorded as succeeded.           *)
LedgerTellsWhatHappened ==
  \A c \in Calls :
    /\ terminalOutcome[c] = "rejected" => effects[c] = 0
    /\ c \in committed => effects[c] = 1 /\ terminalOutcome[c] = "succeeded"
    /\ invocationStatus[c] \in { "absent", "prepared" } => effects[c] = 0

(* The pending list is cleared of a call only by the checkpoint that holds   *)
(* its result, and an outcome once recorded stays.                           *)
PendingClearedByResult ==
  [][\A c \in Calls :
       /\ c \in pendingToolCallIds /\ c \notin pendingToolCallIds' => c \in checkpoint'.done
       /\ terminalOutcome[c] # "none" => terminalOutcome'[c] = terminalOutcome[c]]_callVars
===============================================================================
