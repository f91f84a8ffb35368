------------------------------ MODULE RunExecutor ------------------------------
(***************************************************************************)
(* One Run as a single server process drives it: the commands that start,   *)
(* resume, approve, steer and cancel it, the SDK executor that shows its    *)
(* inputs to the model, RunSteeringController between the two, and crash    *)
(* and restart of the process.  The durable mailbox below is RunMailbox;    *)
(* every step here is one of its transactions or leaves it alone.           *)
(*                                                                          *)
(*   apps/server/src/agent/runtimeSdkExecutor.ts     execute                *)
(*   apps/server/src/agent/runtime.ts                run, cancel, approvals *)
(*   apps/server/src/agent/runtimeAssembly.ts        captureModelRequest    *)
(*   apps/server/src/agent/runSteeringController.ts                         *)
(*   apps/server/src/agent/runTaskManager.ts, runResumePolicy.ts            *)
(*   apps/server/src/agent/toolExecutionCoordinator.ts  its model revision  *)
(*   apps/server/src/agent-runtime/sdk/AgentsSdkCheckpointService.ts        *)
(*   apps/server/src/agent-runtime/children/ChildRunManager.ts  resume      *)
(*                                                                          *)
(* A step ends where the code awaits a transaction, so that commands, the   *)
(* cancel command and a crash fall between any two transactions.            *)
(***************************************************************************)
EXTENDS RunMailbox

CONSTANTS
  Calls,       \* tool calls of the model that need the user's approval
  ChildRun,    \* whether another run controls this one: run_kind = 'child'
  MaxRepairs,  \* MAX_TERMINAL_REPAIR_ATTEMPTS
  MaxCrashes   \* bound of the model: how often the process dies

ASSUME ChildRunIsBoolean == ChildRun \in BOOLEAN
ASSUME NoneIsNoCall == None \notin Calls
ASSUME BoundsAreNaturals == MaxRepairs \in Nat /\ MaxCrashes \in Nat

VARIABLES
  (* durable *)
  objectiveRevision,  \* AgentState.objectiveRevision
  checkpoint,         \* the saved SDK envelope and what its RunState holds
  approvals,          \* AgentState.approvals and their records, by tool call
  pendingToolCalls,   \* pendingToolCallIds is not empty
  (* the process *)
  up,
  accepting,          \* RunSteeringController.acceptingRuns has the run
  exec,               \* the executor's local state; exec.pc = "off" without one
  crashes

durable == << objectiveRevision, checkpoint, approvals, pendingToolCalls >>
process == << up, accepting, crashes >>
vars == << mailboxVars, durable, process, exec >>

(* inputCursor is the envelope's, revision the StepContext's; through is the *)
(* last input inside the RunState, interruptions its open approvals,         *)
(* finished whether its last step is a final output.                         *)
NoCheckpoint == [ saved |-> FALSE, inputCursor |-> 0, revision |-> 1, through |-> 0,
                  interruptions |-> {}, finished |-> FALSE ]

(* pendingLease is pendingInputLeaseId, boundRevision the coordinator's model *)
(* input revision, contextRevision that of latestCheckpointContext, candidate *)
(* candidateObjectiveRevision.  through, interruptions and finished describe  *)
(* the RunState in memory, answered the revision its final output answers;    *)
(* approved: the call just decided is approved and still to execute.          *)
NoExecutor ==
  [ pc |-> "off", mode |-> "fresh", call |-> None, approved |-> FALSE,
    aborted |-> FALSE, pendingLease |-> None, boundRevision |-> 1,
    contextRevision |-> 1, through |-> 0, interruptions |-> {},
    finished |-> FALSE, answered |-> 0, candidate |-> 0, repairs |-> 0,
    outcome |-> "none" ]

Registered == exec.pc \notin { "off", "accepted" }  \* abortControllers has the run
Goto(p) == exec' = [exec EXCEPT !.pc = p]
Fail == Goto("failing")

InitExecutor ==
  /\ InitMailbox
  /\ objectiveRevision = 1
  /\ checkpoint = NoCheckpoint
  /\ approvals = [c \in Calls |-> "none"]
  /\ pendingToolCalls = FALSE
  /\ up = TRUE
  /\ accepting = FALSE
  /\ exec = NoExecutor
  /\ crashes = 0

-------------------------------------------------------------------------------
(* Commands. *)

Undecided == { c \in Calls : approvals[c] = "pending" }

(* RunTaskManager.start of a run just created: none of its calls was ever    *)
(* asked about, unlike a run a decision put back to queued.                  *)
JustCreated == status = "queued" /\ \A c \in Calls : approvals[c] = "none"

StartRun ==
  /\ up /\ exec.pc = "off"
  /\ JustCreated
  /\ exec' = [NoExecutor EXCEPT !.pc = "starting"]
  /\ UNCHANGED << mailboxVars, durable, process >>

(* assertRunCheckpointResumable, then startDetachedIfIdle. *)
Resumable ==
  /\ status = "interrupted"
  /\ Undecided = {}
  /\ ~pendingToolCalls
  /\ checkpoint.saved

ResumeRun ==
  /\ up /\ exec.pc = "off"
  /\ Resumable
  /\ exec' = [NoExecutor EXCEPT !.pc = "starting", !.mode = "resume"]
  /\ UNCHANGED << mailboxVars, durable, process >>

(* ChildRunManager.resume, and sendMessage with a trigger turn, whose message *)
(* run then enqueues while it opens: neither looks at the checkpoint.        *)
ResumeChildRun ==
  /\ up /\ exec.pc = "off"
  /\ ChildRun
  /\ status = "interrupted"
  /\ exec' = [NoExecutor EXCEPT !.pc = "starting", !.mode = "resume"]
  /\ UNCHANGED << mailboxVars, durable, process >>

(* ChildRunManager.interrupt of a child nobody drives. *)
InterruptIdleChild ==
  /\ up /\ exec.pc = "off"
  /\ ChildRun
  /\ status \notin { "completed", "failed", "cancelled", "requires_action" }
  /\ SaveRunStatus("cancelled")
  /\ UNCHANGED << durable, process, exec >>

(* respondDecision and acceptApprovalDecision up to the queued status. *)
DecisionAllowedWheneverPending == TRUE
DecisionAllowed == status \in { "waiting_approval", "queued" }

DecideApproval(c) ==
  /\ up /\ exec.pc = "off"
  /\ approvals[c] = "pending"
  /\ DecisionAllowed
  /\ approvals' = [approvals EXCEPT ![c] = "resolved"]
  /\ \E granted \in BOOLEAN :
       exec' = [NoExecutor EXCEPT !.pc = "accepted", !.mode = "approval",
                                  !.call = c, !.approved = granted]
  /\ UNCHANGED << mailboxVars, objectiveRevision, checkpoint, pendingToolCalls, process >>

QueueContinuation ==
  /\ exec.pc = "accepted"
  /\ SaveRunStatus("queued")
  /\ Goto("starting")
  /\ UNCHANGED << durable, process >>

(* RunTaskManager.steer.  synced: the objective revision follows in a        *)
(* transaction of its own, which can fail after the input is stored.         *)
EnqueueSyncingFirst(i) ==
  /\ up /\ Registered
  /\ accepting
  /\ objectiveRevision' = nextInputSequence + 1
  /\ EnqueueRunInput(i) \/ UNCHANGED mailboxVars
  /\ UNCHANGED << checkpoint, approvals, pendingToolCalls, process, exec >>

Enqueue(i) ==
  /\ up /\ Registered
  /\ accepting
  /\ EnqueueRunInput(i)
  /\ \E synced \in BOOLEAN :
       objectiveRevision' = IF synced THEN nextInputSequence' ELSE objectiveRevision
  /\ UNCHANGED << checkpoint, approvals, pendingToolCalls, process, exec >>

Cancel ==
  /\ up /\ Registered
  /\ SaveRunStatus("cancelled")
  /\ exec' = [exec EXCEPT !.aborted = TRUE]
  /\ UNCHANGED << durable, process >>

-------------------------------------------------------------------------------
(* run and continueApprovalDecision up to execute. *)

Begin ==
  /\ exec.pc = "starting"
  /\ SaveRunStatus("running")
  /\ Goto("opening")
  /\ UNCHANGED << durable, process >>

OpenRequeue ==
  /\ exec.pc = "opening"
  /\ exec.mode # "fresh"
  /\ status = "running"
  /\ RequeueLeasedRunInputs
  /\ UNCHANGED << durable, process, exec >>

(* The rest of RunSteeringController.open. *)
MayOpen ==
  /\ status = "running"
  /\ ~LeaseActive \/ (exec.mode # "fresh" /\ BatchIncluded)

Open ==
  /\ exec.pc = "opening"
  /\ MayOpen
  /\ objectiveRevision' = nextInputSequence
  /\ accepting' = (terminalObjectiveRevision = 0)
  /\ Goto("assembling")
  /\ UNCHANGED << mailboxVars, checkpoint, approvals, pendingToolCalls, up, crashes >>

(* assertEnvelopeCompatibility and the StepContext check of restore. *)
RestoreAccepts ==
  /\ checkpoint.saved
  /\ checkpoint.inputCursor = checkpointInputCursor
  /\ checkpoint.revision = checkpoint.inputCursor + 1

(* bindModelInputObjectiveRevision: a new coordinator starts at the revision  *)
(* of the run's state and throws when adopt or the replay binds a lower one.  *)
Adopts == exec.mode # "fresh" /\ checkpoint.saved
MayBind ==
  /\ Adopts => checkpoint.revision >= objectiveRevision
  /\ BatchIncluded => activeInputLeaseTo + 1 >= objectiveRevision

MayAssembleWithoutBinding ==
  /\ exec.mode = "resume" => checkpoint.saved \/ BatchIncluded
  /\ exec.mode = "approval" => checkpoint.saved /\ exec.call \in checkpoint.interruptions
  /\ Adopts => RestoreAccepts

MayAssemble == MayAssembleWithoutBinding /\ MayBind

Restored ==
  IF ~Adopts THEN [exec EXCEPT !.boundRevision = objectiveRevision]
  ELSE [exec EXCEPT !.boundRevision = checkpoint.revision,
                    !.contextRevision = checkpoint.revision,
                    !.through = checkpoint.through,
                    !.interruptions = checkpoint.interruptions \ {exec.call},
                    !.finished = checkpoint.finished,
                    !.answered = checkpoint.revision]

(* stageInput / appendSegmentInput: the RunState gets the lease's inputs and *)
(* its next step is a model request.                                         *)
StageButKeepTheOldRevision(e, l, to) ==
  [e EXCEPT !.pc = "segment", !.pendingLease = l, !.through = to, !.finished = FALSE]

Stage(e, l, to) ==
  [e EXCEPT !.pc = "segment", !.pendingLease = l, !.through = to,
            !.boundRevision = to + 1, !.finished = FALSE]

(* Assembly reads the active ModelRequest; execute stages its inputs again.  *)
Assemble ==
  /\ exec.pc = "assembling"
  /\ MayAssemble
  /\ exec' = IF BatchIncluded
             THEN Stage(Restored, activeInputLeaseId, activeInputLeaseTo)
             ELSE [Restored EXCEPT !.pc = "loop"]
  /\ UNCHANGED << mailboxVars, durable, process >>

-------------------------------------------------------------------------------
(* execute *)

(* consumePendingWithRevision, at the top of the loop and in the model input *)
(* filter of later requests, where a lease rotates the segment.              *)
ConsumeSome(l) ==
  /\ exec.pc \in { "loop", "rotating" }
  /\ LeaseRunInputs(l)
  /\ objectiveRevision' = nextInputSequence
  /\ exec' = Stage(exec, l, nextInputSequence - 1)
  /\ UNCHANGED << checkpoint, approvals, pendingToolCalls, process >>

NothingToLeaseButQueued == ~LeaseActive
NothingToLease == ~LeaseActive /\ QueuedRows = {}

ConsumeNothing ==
  /\ exec.pc \in { "loop", "rotating" }
  /\ NothingToLease
  /\ objectiveRevision' = nextInputSequence
  /\ exec' = [exec EXCEPT !.pc = IF @ = "loop" THEN "segment" ELSE "followup",
                          !.boundRevision = checkpointInputCursor + 1]
  /\ UNCHANGED << mailboxVars, checkpoint, approvals, pendingToolCalls, process >>

(* AgentsSdkCheckpointService.persist with the executor's lease, and         *)
(* saveAgentsSdkCheckpoint.  context is the StepContext it is given.         *)
MayPersist ==
  IF exec.pendingLease = None
  THEN ~LeaseActive
  ELSE activeInputLeaseId = exec.pendingLease /\ BatchIncluded

Persist(context) ==
  /\ IF exec.pendingLease = None
     THEN ~LeaseActive /\ UNCHANGED mailboxVars
     ELSE AckCheckpoint(exec.pendingLease)
  /\ checkpoint' = [ saved |-> TRUE, inputCursor |-> checkpointInputCursor',
                     revision |-> context, through |-> exec.through,
                     interruptions |-> exec.interruptions, finished |-> exec.finished ]
  /\ pendingToolCalls' = FALSE

(* An approved call of the restored RunState executes before any request.    *)
RunApprovedCall ==
  /\ exec.pc = "segment"
  /\ exec.approved
  /\ pendingToolCalls' = TRUE
  /\ exec' = [exec EXCEPT !.approved = FALSE]
  /\ UNCHANGED << mailboxVars, objectiveRevision, checkpoint, approvals, process >>

(* The Runner returns without a model request: the RunState is finished, or  *)
(* still waits for another approval.                                         *)
ReturnAtOnce ==
  /\ exec.pc = "segment"
  /\ ~exec.approved
  /\ exec.finished \/ exec.interruptions # {}
  /\ Goto("ended")
  /\ UNCHANGED << mailboxVars, durable, process >>

StaleCapture == exec.contextRevision
CapturedRevision == exec.boundRevision

(* captureModelRequest up to the StepContext; without a lease the first      *)
(* request of a segment saves a baseline checkpoint first.                   *)
CaptureContext ==
  /\ exec.pc \in { "segment", "followup" }
  /\ ~exec.approved /\ ~exec.finished /\ exec.interruptions = {}
  /\ IF exec.pc = "segment" /\ exec.pendingLease = None
     THEN Persist(CapturedRevision)
     ELSE UNCHANGED << mailboxVars, checkpoint, pendingToolCalls >>
  /\ exec' = [exec EXCEPT !.pc = "requesting", !.contextRevision = CapturedRevision]
  /\ UNCHANGED << objectiveRevision, approvals, process >>

(* ModelRequestJournal: commit of a new request, or replay of the active one. *)
RequestAllowed == status = "running" /\ terminalObjectiveRevision = 0

CommitRequest(r) ==
  /\ exec.pc = "requesting"
  /\ CommitModelRequest(r)
  /\ Goto("streaming")
  /\ UNCHANGED << durable, process >>

CommitRequestWithoutInput ==
  /\ exec.pc = "requesting"
  /\ ~LeaseActive
  /\ RequestAllowed
  /\ Goto("streaming")
  /\ UNCHANGED << mailboxVars, durable, process >>

ReplayRequest ==
  /\ exec.pc = "requesting"
  /\ BatchIncluded
  /\ Goto("streaming")
  /\ UNCHANGED << mailboxVars, durable, process >>

(* The model answers with tool calls, calls that need approval, or text.     *)
CallTools ==
  /\ exec.pc = "streaming"
  /\ pendingToolCalls' = TRUE
  /\ Goto("tools")
  /\ UNCHANGED << mailboxVars, objectiveRevision, checkpoint, approvals, process >>

AskApproval(asked) ==
  /\ exec.pc = "streaming"
  /\ asked # {}
  /\ \A c \in asked : approvals[c] = "none"
  /\ exec' = [exec EXCEPT !.pc = "ended", !.interruptions = asked]
  /\ UNCHANGED << mailboxVars, durable, process >>

AnswerFinally ==
  /\ exec.pc = "streaming"
  /\ exec' = [exec EXCEPT !.pc = "ended", !.finished = TRUE, !.answered = exec.contextRevision]
  /\ UNCHANGED << mailboxVars, durable, process >>

(* checkpointCurrentState gives up the lease it acknowledged. *)
PersistedKeepingTheLease(p) == [exec EXCEPT !.pc = p]
Persisted(p) == [exec EXCEPT !.pc = p, !.pendingLease = None]

(* callModelInputFilter before a later request: the tool results are saved.  *)
CheckpointTools ==
  /\ exec.pc = "tools"
  /\ Persist(exec.contextRevision)
  /\ exec' = Persisted("rotating")
  /\ UNCHANGED << objectiveRevision, approvals, process >>

(* The segment ended: checkpoint it, unless the signal is aborted. *)
CheckpointEnd ==
  /\ exec.pc = "ended"
  /\ ~exec.aborted
  /\ Persist(exec.contextRevision)
  /\ exec' = Persisted(IF exec.interruptions = {} THEN "candidate" ELSE "interrupted")
  /\ UNCHANGED << objectiveRevision, approvals, process >>

(* RuntimeApprovalPersistence.persist: the approvals, then the status. *)
SaveApprovals ==
  /\ exec.pc = "interrupted"
  /\ \A c \in exec.interruptions : approvals[c] # "consumed"
  /\ approvals' = [c \in Calls |-> IF c \in exec.interruptions /\ approvals[c] = "none"
                                  THEN "pending" ELSE approvals[c]]
  /\ Goto("suspending")
  /\ UNCHANGED << mailboxVars, objectiveRevision, checkpoint, pendingToolCalls, process >>

Suspend ==
  /\ exec.pc = "suspending"
  /\ SaveRunStatus("waiting_approval")
  /\ exec' = [exec EXCEPT !.pc = "returned", !.outcome = "waiting_approval"]
  /\ UNCHANGED << durable, process >>

-------------------------------------------------------------------------------
(* The terminal candidate. *)

RevisionMatches(revision) ==
  /\ nextInputSequence = revision
  /\ ~LeaseActive
  /\ terminalObjectiveRevision = 0
  /\ checkpointInputCursor + 1 = revision

(* modelInputRevisionSnapshot; a snapshot without state supersedes.          *)
ReadCandidate ==
  /\ exec.pc = "candidate"
  /\ objectiveRevision' = nextInputSequence
  /\ LET revision == checkpointInputCursor + 1
     IN  exec' = [exec EXCEPT
           !.pc = IF RevisionMatches(revision) THEN "deciding" ELSE "superseded",
           !.candidate = revision,
           !.repairs = IF revision = exec.candidate THEN @ ELSE 0]
  /\ UNCHANGED << mailboxVars, checkpoint, approvals, pendingToolCalls, process >>

(* evaluateTerminalDeliveryCandidate asks for a repair: a fresh segment.     *)
Repair ==
  /\ exec.pc = "deciding"
  /\ exec.repairs < MaxRepairs
  /\ exec' = [exec EXCEPT !.pc = "loop", !.finished = FALSE, !.repairs = @ + 1]
  /\ UNCHANGED << mailboxVars, durable, process >>

(* tryClaimTerminal, whichever outcome the terminal policy decided on.       *)
Outcomes == { "completed", "clarification_needed", "rejected" }

ClaimOutcome(outcome) ==
  /\ exec.pc = "deciding"
  /\ objectiveRevision' = nextInputSequence
  /\ RevisionMatches(exec.candidate)
  /\ TryClaimTerminalInput(exec.candidate)
  /\ accepting' = FALSE
  /\ exec' = [exec EXCEPT !.pc = "claimed", !.outcome = outcome]
  /\ UNCHANGED << checkpoint, approvals, pendingToolCalls, up, crashes >>

LoseClaim ==
  /\ exec.pc = "deciding"
  /\ ~(RevisionMatches(exec.candidate) /\ status = "running")
  /\ objectiveRevision' = nextInputSequence
  /\ Goto("superseded")
  /\ UNCHANGED << mailboxVars, checkpoint, approvals, pendingToolCalls, process >>

(* supersedeAssistantCandidate, then a fresh segment over the same session.  *)
SupersedeAndReadAgain ==
  /\ exec.pc = "superseded"
  /\ ~pendingToolCalls
  /\ Goto("candidate")
  /\ UNCHANGED << mailboxVars, durable, process >>

Supersede ==
  /\ exec.pc = "superseded"
  /\ ~pendingToolCalls
  /\ exec' = [exec EXCEPT !.pc = "loop", !.finished = FALSE]
  /\ UNCHANGED << mailboxVars, durable, process >>

(* persistCleanCheckpoint guards the completed answer. *)
FinishExecute ==
  /\ exec.pc = "claimed"
  /\ exec.outcome # "rejected"
  /\ exec.outcome = "completed" => ~pendingToolCalls
  /\ IF exec.outcome = "clarification_needed"
     THEN SaveRunStatus("clarification_needed")
     ELSE UNCHANGED mailboxVars
  /\ Goto("returned")
  /\ UNCHANGED << durable, process >>

-------------------------------------------------------------------------------
(* run and continueApprovalDecision after execute. *)

(* continueApprovalDecision consumes the approval it continued, in the state *)
(* execute left: not in the one read before, which misses what it asked.     *)
ConsumedInTheStateReadBefore ==
  [c \in Calls |-> IF c = exec.call THEN "consumed"
                   ELSE IF c \in exec.interruptions THEN "none" ELSE approvals[c]]
ConsumedApproval == [c \in Calls |-> IF c = exec.call THEN "consumed" ELSE approvals[c]]

ConsumeApproval ==
  /\ exec.pc = "returned"
  /\ approvals' = ConsumedApproval
  /\ Goto(IF exec.outcome = "completed" THEN "completing" ELSE "closing")
  /\ UNCHANGED << mailboxVars, objectiveRevision, checkpoint, pendingToolCalls, process >>

(* TurnFinalizer.complete; long-term memory is extracted before the close.   *)
Complete ==
  /\ exec.pc = "completing"
  /\ SaveRunStatus("completed")
  /\ Goto("closing")
  /\ UNCHANGED << durable, process >>

(* The catch block: TurnFinalizer.fail or cancel. *)
FinishFailed ==
  /\ exec.pc = "failing"
  /\ SaveRunStatus(IF exec.aborted THEN "cancelled" ELSE "failed")
  /\ Goto("closing")
  /\ UNCHANGED << durable, process >>

Close ==
  /\ exec.pc = "closing"
  /\ accepting' = FALSE
  /\ exec' = NoExecutor
  /\ UNCHANGED << mailboxVars, durable, up, crashes >>

(* The checks that throw, one line per place. *)
Refused ==
  \/ exec.pc = "opening" /\ ~MayOpen /\ ~(exec.mode # "fresh" /\ status = "running")
  \/ exec.pc = "assembling" /\ ~MayAssemble
  \/ exec.pc \in { "loop", "rotating" } /\ LeaseActive
  \/ exec.pc = "requesting" /\ ~BatchIncluded /\ ~RequestAllowed
  \/ exec.pc \in { "tools", "ended" } /\ ~MayPersist
  \/ exec.pc = "ended" /\ exec.aborted
  \/ exec.pc = "interrupted" /\ \E c \in exec.interruptions : approvals[c] = "consumed"
  \/ exec.pc = "superseded" /\ pendingToolCalls
  \/ exec.pc = "claimed" /\ exec.outcome = "rejected"
  \/ exec.pc = "claimed" /\ exec.outcome = "completed" /\ pendingToolCalls

Refuse ==
  /\ Refused
  /\ Fail
  /\ UNCHANGED << mailboxVars, durable, process >>

(* A model, tool, hook or database call throws, or notices the abort signal. *)
Fault ==
  /\ up /\ exec.pc \notin { "off", "accepted", "failing", "closing" }
  /\ Fail
  /\ UNCHANGED << mailboxVars, durable, process >>

(* Queueing or launching the continuation, or a read it makes before it      *)
(* registers the run, throws: the decision is stored, no executor starts.    *)
DropContinuation ==
  /\ up /\ exec.pc = "accepted"
  /\ UNCHANGED mailboxVars \/ SaveRunStatus("queued")
  /\ exec' = NoExecutor
  /\ UNCHANGED << durable, process >>

-------------------------------------------------------------------------------
(* The process. *)

Crash ==
  /\ up
  /\ crashes < MaxCrashes
  /\ up' = FALSE
  /\ crashes' = crashes + 1
  /\ accepting' = FALSE
  /\ exec' = NoExecutor
  /\ UNCHANGED << mailboxVars, durable >>

(* RunStore.recoverOrphanedRuns at startup. *)
Orphaned == status \in { "queued", "running" }
RecoveryStatus == IF pendingToolCalls THEN "requires_action" ELSE "interrupted"

RestartFreeingTheLease ==
  /\ ~up
  /\ up' = TRUE
  /\ ClearLease
  /\ status' = IF Orphaned THEN RecoveryStatus ELSE status
  /\ UNCHANGED << nextInputSequence, checkpointInputCursor, terminalObjectiveRevision,
                  inputColumns, requestInputs >>
  /\ UNCHANGED << durable, accepting, crashes, exec >>

Restart ==
  /\ ~up
  /\ up' = TRUE
  /\ IF Orphaned THEN SaveRunStatus(RecoveryStatus) ELSE UNCHANGED mailboxVars
  /\ UNCHANGED << durable, accepting, crashes, exec >>

Executor ==
  \/ QueueContinuation \/ Begin \/ OpenRequeue \/ Open \/ Assemble
  \/ \E l \in LeaseIds : ConsumeSome(l)
  \/ ConsumeNothing \/ RunApprovedCall \/ ReturnAtOnce \/ CaptureContext
  \/ \E r \in RequestIds : CommitRequest(r)
  \/ CommitRequestWithoutInput \/ ReplayRequest
  \/ CallTools \/ (\E asked \in SUBSET Calls : AskApproval(asked)) \/ AnswerFinally
  \/ CheckpointTools \/ CheckpointEnd \/ SaveApprovals \/ Suspend
  \/ ReadCandidate \/ Repair \/ (\E o \in Outcomes : ClaimOutcome(o)) \/ LoseClaim
  \/ Supersede \/ FinishExecute \/ ConsumeApproval \/ Complete \/ FinishFailed \/ Close
  \/ Refuse

Environment ==
  \/ StartRun \/ ResumeRun \/ ResumeChildRun \/ InterruptIdleChild \/ (\E c \in Calls : DecideApproval(c))
  \/ (\E i \in Inputs : Enqueue(i))
  \/ Cancel \/ Fault \/ DropContinuation \/ Crash

NextExecutor == Executor \/ Environment \/ Restart

SpecExecutor == InitExecutor /\ [][NextExecutor]_vars

(* The event loop runs the executor's continuations, the supervisor restarts *)
(* the process, and a Runner ends: it answers or asks before maxTurns, or    *)
(* throws.  Nobody owes a command, and no call owes a failure.               *)
FairExecutor ==
  /\ SpecExecutor
  /\ WF_vars(Executor)
  /\ WF_vars(Restart)
  /\ SF_vars(AnswerFinally)
-------------------------------------------------------------------------------
(* Properties. *)

Pcs == { "off", "accepted", "starting", "opening", "assembling", "loop", "segment",
         "requesting", "streaming", "tools", "rotating", "followup", "ended",
         "interrupted", "suspending", "candidate", "deciding", "superseded", "claimed",
         "returned", "completing", "failing", "closing" }

SavedCheckpoints == [ saved : BOOLEAN, inputCursor : Nat, revision : Nat, through : Nat,
                      interruptions : SUBSET Calls, finished : BOOLEAN ]

ExecutorLocals == [ pc : Pcs, mode : { "fresh", "resume", "approval" },
                    call : Calls \cup {None}, approved : BOOLEAN, aborted : BOOLEAN,
                    pendingLease : LeaseIds \cup {None}, boundRevision : Nat,
                    contextRevision : Nat, through : Nat, interruptions : SUBSET Calls,
                    finished : BOOLEAN, answered : Nat, candidate : Nat, repairs : Nat,
                    outcome : Outcomes \cup { "none", "waiting_approval" } ]

ExecutorTypeOK ==
  /\ objectiveRevision \in Nat
  /\ checkpoint \in SavedCheckpoints
  /\ approvals \in [Calls -> { "none", "pending", "resolved", "consumed" }]
  /\ pendingToolCalls \in BOOLEAN
  /\ up \in BOOLEAN /\ accepting \in BOOLEAN
  /\ exec \in ExecutorLocals
  /\ crashes \in 0..MaxCrashes

(* Where execute is past replayIncludedInputs and not yet unwinding. *)
Executing == exec.pc \in
  { "loop", "segment", "requesting", "streaming", "tools", "rotating", "followup",
    "ended", "interrupted", "suspending", "candidate", "deciding", "superseded", "claimed" }

(* Whatever was saved last can be restored, after any crash: the envelope's  *)
(* cursor is the mailbox's, its StepContext is bound to the revision that    *)
(* follows it, and its RunState holds the inputs up to it, each once.        *)
CheckpointIsRestorable ==
  IF checkpoint.saved
  THEN RestoreAccepts /\ checkpoint.through = checkpointInputCursor
  ELSE checkpointInputCursor = 0

(* The executor and the database agree on the lease: the RunState in memory  *)
(* holds every input up to the end of the lease it will acknowledge, or up   *)
(* to the checkpoint cursor when it has none, so that no rotation,           *)
(* supersede, requeue or replay shows an input twice or skips one.           *)
ExecutorHoldsTheLease ==
  Executing =>
    IF exec.pendingLease = None
    THEN ~LeaseActive /\ exec.through = checkpointInputCursor
    ELSE activeInputLeaseId = exec.pendingLease /\ exec.through = activeInputLeaseTo

(* The model never works under a revision other than that of the inputs it   *)
(* is shown: tool calls and candidates are attributed to the right objective.*)
RequestIsBoundToItsInputs ==
  exec.pc \in { "requesting", "streaming", "tools" } =>
    /\ exec.contextRevision = exec.through + 1
    /\ exec.boundRevision = exec.contextRevision

(* A terminal outcome answers every input the run ever accepted: the claimed *)
(* answer was produced by a request that was shown all of them.  A run is    *)
(* not completed without such a claim.                                       *)
AnswerCoversEveryInput ==
  /\ exec.pc \in { "claimed", "completing" } =>
       /\ exec.finished
       /\ exec.answered = terminalObjectiveRevision
       /\ exec.answered = nextInputSequence
  /\ status \in { "completed", "clarification_needed" } => terminalObjectiveRevision # 0

(* synchronizeObjectiveRevision never finds the state ahead of the mailbox,  *)
(* wherever an enqueue was cut between its two transactions.                 *)
ObjectiveNotAheadOfMailbox == objectiveRevision <= nextInputSequence

(* Every step of the executor, the commands and the recovery is a legal      *)
(* transaction of the mailbox, or leaves it alone.                           *)
DrivesTheMailbox == SpecMailbox

(* No executor starts over a side effect of unknown result: a tool call that *)
(* started and is not inside the saved checkpoint stops the run, whichever   *)
(* way a crash, a resume or another open decision would start it again.      *)
NoReplayOfUnknownEffects ==
  [][exec.pc = "off" /\ exec'.pc # "off" => ~pendingToolCalls]_vars

(* A waiting run keeps the approval of every call its checkpoint is open on: *)
(* consuming one decision never loses another the continuation asked for.    *)
OpenCallHasItsApproval ==
  status = "waiting_approval" =>
    \A c \in checkpoint.interruptions : approvals[c] \in { "pending", "resolved" }

(* An executor does not run forever: every run command ends in an outcome,   *)
(* an interruption or a failure, and unregisters the run.                    *)
ExecutorEnds == (exec.pc # "off") ~> (exec.pc = "off")

(* An accepted input is not forgotten: it gets inside a checkpoint, or the   *)
(* run stops for a reason its status shows; it is never left behind by a     *)
(* completed run, by a clarification or by an executor that goes on.         *)
Stopped ==
  \/ status \in { "waiting_approval", "interrupted", "requires_action", "failed",
                   "cancelled" }
  \/ status = "queued" /\ exec.pc = "off"
InputIsDeliveredOrRunStops ==
  \A i \in Inputs : inputStatus[i] = "queued" ~> inputStatus[i] = "checkpointed" \/ Stopped

-------------------------------------------------------------------------------
(* Statements of the repository that the code does not keep. *)

(* "Retry with a new run, a terminal run is not rewritten"                   *)
(* (runResumePolicy.ts:57).  Cancel only needs a registered executor.        *)
TerminalStatus == { "completed", "failed", "cancelled" }
TerminalStatusIsFinal == [][(status \in TerminalStatus) => UNCHANGED status]_vars

(* The check of saveAgentsSdkCheckpoint (runCheckpointRepository.ts:212):    *)
(* a segment that ended normally has bound its leased inputs to a request.   *)
AckFindsIncludedInputs == exec.pc = "ended" /\ ~exec.aborted => MayPersist

(* "included is replayed exactly, also when there is no old checkpoint yet"  *)
(* (refactor plan, WP-05 evidence; runtime.ts:184): an interrupted run with  *)
(* an included batch and nothing open can be resumed.                        *)
IncludedReplayNeedsNoCheckpoint ==
  status = "interrupted" /\ BatchIncluded /\ Undecided = {} /\ ~pendingToolCalls =>
    Resumable

(* "included replays the same inputs by the durable identity of the lease"    *)
(* (runSteeringController.ts:137): a compatible checkpoint restores, whatever *)
(* inputs wait behind it.                                                    *)
UndeliveredInputsAreRestorable ==
  exec.pc = "assembling" /\ MayAssembleWithoutBinding => MayAssemble

(* "A claim whose ACK was lost is recognised by a new controller" (refactor  *)
(* plan, WP-05 evidence): no candidate is superseded once a claim is stored. *)
ClaimIsRecognised == exec.pc = "superseded" => terminalObjectiveRevision = 0

(* "An open decision must go through the decision/approval flow, not the     *)
(* generic resume" (runResumePolicy.ts:32): then that flow takes it.         *)
OpenDecisionCanBeTaken ==
  up /\ exec.pc = "off" /\ Undecided # {} /\ status = "interrupted" => DecisionAllowed

(* "waiting_approval: handle the approval through run:respond-decision"      *)
(* (runResumePolicy.ts:54), "the same decision can safely be retried"        *)
(* (runtime.ts:341): a run that waits for its decisions has one to take.     *)
WaitingRunHasADecision ==
  up /\ exec.pc = "off" /\ DecisionAllowed /\ ~JustCreated => Undecided # {}
===============================================================================
