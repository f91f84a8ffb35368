--------------------------- MODULE RunExecutorProofs ---------------------------
(***************************************************************************)
(* Proofs about RunExecutor, for any inputs, leases, requests, tool calls    *)
(* and bounds.  The executor is first shown to drive the mailbox by its      *)
(* transactions only, which carries every theorem of RunMailboxProofs over;  *)
(* then its types, and that it agrees with the database on the lease.        *)
(***************************************************************************)
EXTENDS RunExecutor, RunMailboxProofs

-------------------------------------------------------------------------------
(* Every step is a transaction of the mailbox, or leaves it alone. *)

Drives == NextMailbox \/ UNCHANGED mailboxVars

LEMMA StatusDrives ==
  ASSUME NEW s \in RunStatus, SaveRunStatus(s)
  PROVE  Drives
BY DEF Drives, NextMailbox

LEMMA PersistDrives ==
  ASSUME NEW context, MailboxInv, Persist(context)
  PROVE  Drives
<1>1. CASE exec.pendingLease = None
  BY <1>1 DEF Persist, Drives
<1>2. CASE exec.pendingLease # None
  <2>1. AckCheckpoint(exec.pendingLease)
    BY <1>2 DEF Persist
  <2>2. exec.pendingLease \in LeaseIds
    BY <1>2, <2>1 DEF AckCheckpoint, MailboxInv, TypeOK
  <2> QED
    BY <2>1, <2>2 DEF Drives, NextMailbox
<1> QED
  BY <1>1, <1>2

LEMMA CommandDrives ==
  ASSUME MailboxInv, Environment
  PROVE  Drives
<1> USE DEF Drives
<1>1. ASSUME NEW i \in Inputs, Enqueue(i) PROVE Drives
  BY <1>1 DEF Enqueue, NextMailbox
<1>2. CASE Cancel \/ InterruptIdleChild
  BY <1>2, StatusDrives DEF Cancel, InterruptIdleChild, RunStatus
<1>3. CASE DropContinuation
  BY <1>3, StatusDrives DEF DropContinuation, RunStatus
<1>4. CASE \/ StartRun \/ ResumeRun \/ ResumeChildRun \/ Fault \/ Crash
           \/ \E c \in Calls : DecideApproval(c)
  BY <1>4 DEF StartRun, ResumeRun, ResumeChildRun, Fault, Crash, DecideApproval
<1> QED
  BY <1>1, <1>2, <1>3, <1>4 DEF Environment

LEMMA ExecutorDrives ==
  ASSUME MailboxInv, Executor
  PROVE  Drives
<1>1. CASE QueueContinuation \/ Begin \/ Suspend \/ Complete \/ FinishFailed \/ FinishExecute
  BY <1>1, StatusDrives DEF QueueContinuation, Begin, Suspend, Complete, FinishFailed,
     FinishExecute, RunStatus, Drives
<1>2. CASE OpenRequeue
  BY <1>2 DEF OpenRequeue, Drives, NextMailbox
<1>3. ASSUME NEW l \in LeaseIds, ConsumeSome(l) PROVE Drives
  BY <1>3 DEF ConsumeSome, Drives, NextMailbox
<1>4. ASSUME NEW r \in RequestIds, CommitRequest(r) PROVE Drives
  BY <1>4 DEF CommitRequest, Drives, NextMailbox
<1>5. CASE CaptureContext \/ CheckpointTools \/ CheckpointEnd
  BY <1>5, PersistDrives DEF CaptureContext, CheckpointTools, CheckpointEnd, Drives
<1>6. ASSUME NEW o \in Outcomes, ClaimOutcome(o) PROVE Drives
  <2>1. TryClaimTerminalInput(exec.candidate) /\ nextInputSequence = exec.candidate
    BY <1>6 DEF ClaimOutcome, RevisionMatches
  <2>2. exec.candidate \in 1..nextInputSequence
    BY <2>1 DEF MailboxInv, TypeOK
  <2> QED
    BY <2>1, <2>2 DEF Drives, NextMailbox
<1>7. CASE \/ Open \/ Assemble \/ ConsumeNothing \/ RunApprovedCall \/ ReturnAtOnce
           \/ CommitRequestWithoutInput \/ ReplayRequest \/ CallTools
           \/ \E asked \in SUBSET Calls : AskApproval(asked)
  BY <1>7 DEF Open, Assemble, ConsumeNothing, RunApprovedCall, ReturnAtOnce,
     CommitRequestWithoutInput, ReplayRequest, CallTools, AskApproval, Drives
<1>8. CASE \/ AnswerFinally \/ SaveApprovals \/ ReadCandidate \/ Repair \/ LoseClaim
           \/ Supersede \/ ConsumeApproval \/ Close \/ Refuse
  BY <1>8 DEF AnswerFinally, SaveApprovals, ReadCandidate, Repair, LoseClaim, Supersede,
     ConsumeApproval, Close, Refuse, Drives
<1> QED
  BY <1>1, <1>2, <1>3, <1>4, <1>5, <1>6, <1>7, <1>8 DEF Executor

LEMMA StepDrives ==
  ASSUME MailboxInv, [NextExecutor]_vars
  PROVE  MailboxStep
<1>1. CASE Restart
  BY <1>1, StatusDrives DEF Restart, RecoveryStatus, RunStatus, Drives, MailboxStep
<1>2. CASE UNCHANGED vars
  BY <1>2 DEF vars, MailboxStep
<1> QED
  BY <1>1, <1>2, CommandDrives, ExecutorDrives DEF NextExecutor, Drives, MailboxStep

(* Commands, executor, crashes and recovery only ever act on the mailbox     *)
(* through its transactions, each with arguments it accepts: RunExecutor     *)
(* implements RunMailbox.                                                    *)
THEOREM ExecutorDrivesTheMailbox == SpecExecutor => DrivesTheMailbox
<1>1. InitExecutor => InitMailbox
  BY DEF InitExecutor
<1>2. MailboxInv /\ [NextExecutor]_vars => MailboxStep /\ MailboxInv'
  BY StepDrives, StepKeepsInv
<1> QED
  BY <1>1, <1>2, InitHasInv, PTL DEF SpecExecutor, DrivesTheMailbox, SpecMailbox, MailboxStep

(* So every invariant of the mailbox holds of a run under its executor, its  *)
(* commands and its crashes.                                                 *)
THEOREM ExecutorKeepsMailbox == SpecExecutor => []MailboxInv
BY ExecutorDrivesTheMailbox, MailboxInvariant, PTL DEF DrivesTheMailbox

-------------------------------------------------------------------------------
(* Types. *)

ExecutorStep == [NextExecutor]_vars

(* A stuttering step and a restart keep every type; the lemmas below are     *)
(* about the other steps, one kind of state at a time.                       *)
Moves == Executor \/ Environment

LEMMA InitHasTypes == InitExecutor => ExecutorTypeOK
<1> SUFFICES ASSUME InitExecutor PROVE ExecutorTypeOK
  OBVIOUS
<1> USE DEF InitExecutor
<1>1. exec \in ExecutorLocals
  BY DEF NoExecutor, ExecutorLocals, Pcs, Outcomes
<1>2. checkpoint \in SavedCheckpoints
  BY DEF NoCheckpoint, SavedCheckpoints
<1>3. objectiveRevision \in Nat /\ crashes \in 0..MaxCrashes
  BY BoundsAreNaturals
<1>4. approvals \in [Calls -> { "none", "pending", "resolved", "consumed" }]
  OBVIOUS
<1>5. pendingToolCalls \in BOOLEAN /\ up \in BOOLEAN /\ accepting \in BOOLEAN
  OBVIOUS
<1> QED
  BY <1>1, <1>2, <1>3, <1>4, <1>5 DEF ExecutorTypeOK

LEMMA FlagsStayBoolean ==
  ASSUME ExecutorTypeOK, Moves
  PROVE  up' \in BOOLEAN /\ accepting' \in BOOLEAN /\ pendingToolCalls' \in BOOLEAN
<1> USE DEF ExecutorTypeOK, durable, process
<1>1. CASE Environment
  BY <1>1 DEF Environment, StartRun, ResumeRun, ResumeChildRun, InterruptIdleChild,
     DecideApproval, Enqueue, Cancel, Fault, DropContinuation, Crash
<1>2. CASE Executor
  BY <1>2 DEF Executor, QueueContinuation, Begin, OpenRequeue, Open, Assemble, ConsumeSome,
     ConsumeNothing, RunApprovedCall, ReturnAtOnce, CaptureContext, Persist, CommitRequest,
     CommitRequestWithoutInput, ReplayRequest, CallTools, AskApproval, AnswerFinally,
     CheckpointTools, CheckpointEnd, SaveApprovals, Suspend, ReadCandidate, Repair,
     ClaimOutcome, LoseClaim, Supersede, FinishExecute, ConsumeApproval, Complete,
     FinishFailed, Close, Refuse
<1> QED
  BY <1>1, <1>2 DEF Moves

LEMMA CountersStayNatural ==
  ASSUME ExecutorTypeOK, TypeOK, TypeOK', Moves
  PROVE  objectiveRevision' \in Nat /\ crashes' \in 0..MaxCrashes
<1> USE DEF ExecutorTypeOK, TypeOK, durable, process
<1>1. CASE Environment /\ ~Crash
  BY <1>1 DEF Environment, StartRun, ResumeRun, ResumeChildRun, InterruptIdleChild,
     DecideApproval, Enqueue, Cancel, Fault, DropContinuation
<1>2. CASE Crash
  BY <1>2, BoundsAreNaturals DEF Crash
<1>3. CASE Executor
  BY <1>3 DEF Executor, QueueContinuation, Begin, OpenRequeue, Open, Assemble, ConsumeSome,
     ConsumeNothing, RunApprovedCall, ReturnAtOnce, CaptureContext, CommitRequest,
     CommitRequestWithoutInput, ReplayRequest, CallTools, AskApproval, AnswerFinally,
     CheckpointTools, CheckpointEnd, SaveApprovals, Suspend, ReadCandidate, Repair,
     ClaimOutcome, LoseClaim, Supersede, FinishExecute, ConsumeApproval, Complete,
     FinishFailed, Close, Refuse
<1> QED
  BY <1>1, <1>2, <1>3 DEF Moves

LEMMA ApprovalsStayTyped ==
  ASSUME ExecutorTypeOK, Moves
  PROVE  approvals' \in [Calls -> { "none", "pending", "resolved", "consumed" }]
<1> USE DEF ExecutorTypeOK, durable
<1>1. CASE Environment
  BY <1>1 DEF Environment, StartRun, ResumeRun, ResumeChildRun, InterruptIdleChild,
     DecideApproval, Enqueue, Cancel, Fault, DropContinuation, Crash
<1>2. CASE SaveApprovals
  BY <1>2 DEF SaveApprovals
<1>3. CASE ConsumeApproval
  BY <1>3 DEF ConsumeApproval, ConsumedApproval
<1>4. CASE Executor /\ ~SaveApprovals /\ ~ConsumeApproval
  BY <1>4 DEF Executor, QueueContinuation, Begin, OpenRequeue, Open, Assemble, ConsumeSome,
     ConsumeNothing, RunApprovedCall, ReturnAtOnce, CaptureContext, CommitRequest,
     CommitRequestWithoutInput, ReplayRequest, CallTools, AskApproval, AnswerFinally,
     CheckpointTools, CheckpointEnd, Suspend, ReadCandidate, Repair, ClaimOutcome,
     LoseClaim, Supersede, FinishExecute, Complete, FinishFailed, Close, Refuse
<1> QED
  BY <1>1, <1>2, <1>3, <1>4 DEF Moves

LEMMA PersistedIsTyped ==
  ASSUME ExecutorTypeOK, TypeOK', NEW context \in Nat, Persist(context)
  PROVE  checkpoint' \in SavedCheckpoints
BY DEF Persist, SavedCheckpoints, ExecutorTypeOK, ExecutorLocals, TypeOK

LEMMA CheckpointStaysTyped ==
  ASSUME ExecutorTypeOK, TypeOK', Moves
  PROVE  checkpoint' \in SavedCheckpoints
<1> USE DEF ExecutorTypeOK, durable
<1>1. CASE Environment
  BY <1>1 DEF Environment, StartRun, ResumeRun, ResumeChildRun, InterruptIdleChild,
     DecideApproval, Enqueue, Cancel, Fault, DropContinuation, Crash
<1>2. CASE CaptureContext \/ CheckpointTools \/ CheckpointEnd
  <2>1. exec.boundRevision \in Nat /\ exec.contextRevision \in Nat
    BY DEF ExecutorLocals
  <2> QED
    BY <1>2, <2>1, PersistedIsTyped DEF CaptureContext, CheckpointTools, CheckpointEnd,
       CapturedRevision
<1>3. CASE Executor /\ ~(CaptureContext \/ CheckpointTools \/ CheckpointEnd)
  BY <1>3 DEF Executor, QueueContinuation, Begin, OpenRequeue, Open, Assemble, ConsumeSome,
     ConsumeNothing, RunApprovedCall, ReturnAtOnce, CommitRequest,
     CommitRequestWithoutInput, ReplayRequest, CallTools, AskApproval, AnswerFinally,
     SaveApprovals, Suspend, ReadCandidate, Repair, ClaimOutcome, LoseClaim, Supersede,
     FinishExecute, ConsumeApproval, Complete, FinishFailed, Close, Refuse
<1> QED
  BY <1>1, <1>2, <1>3 DEF Moves

-------------------------------------------------------------------------------
(* The locals of the executor. *)

LEMMA NoExecutorIsTyped == NoExecutor \in ExecutorLocals
BY DEF NoExecutor, ExecutorLocals, Pcs, Outcomes

LEMMA StagedIsTyped ==
  ASSUME NEW e \in ExecutorLocals, NEW l \in LeaseIds \cup {None}, NEW to \in Nat
  PROVE  Stage(e, l, to) \in ExecutorLocals
<1>1. to + 1 \in Nat
  OBVIOUS
<1> QED
  BY <1>1 DEF Stage, ExecutorLocals, Pcs

LEMMA CommandKeepsLocals ==
  ASSUME ExecutorTypeOK, Environment
  PROVE  exec' \in ExecutorLocals
<1> USE DEF ExecutorTypeOK, ExecutorLocals, Pcs
<1>1. CASE StartRun
  BY <1>1, NoExecutorIsTyped DEF StartRun
<1>2. CASE ResumeRun
  BY <1>2, NoExecutorIsTyped DEF ResumeRun
<1>7. CASE ResumeChildRun
  BY <1>7, NoExecutorIsTyped DEF ResumeChildRun
<1>3. ASSUME NEW c \in Calls, DecideApproval(c) PROVE exec' \in ExecutorLocals
  <2>1. PICK granted \in BOOLEAN :
          exec' = [NoExecutor EXCEPT !.pc = "accepted", !.mode = "approval",
                                     !.call = c, !.approved = granted]
    BY <1>3 DEF DecideApproval
  <2> QED
    BY <2>1, NoExecutorIsTyped
<1>4. CASE (\E i \in Inputs : Enqueue(i)) \/ DropContinuation \/ Crash
  BY <1>4, NoExecutorIsTyped DEF Enqueue, DropContinuation, Crash
<1>5. CASE Cancel \/ InterruptIdleChild
  BY <1>5 DEF Cancel, InterruptIdleChild
<1>6. CASE Fault
  BY <1>6 DEF Fault, Fail, Goto
<1> QED
  BY <1>1, <1>2, <1>3, <1>4, <1>5, <1>6, <1>7 DEF Environment

LEMMA OpeningKeepsLocals ==
  ASSUME ExecutorTypeOK, TypeOK,
         QueueContinuation \/ Begin \/ OpenRequeue \/ Open \/ Assemble
  PROVE  exec' \in ExecutorLocals
<1> USE DEF ExecutorTypeOK, ExecutorLocals, Pcs, Goto
<1>1. CASE QueueContinuation \/ Begin \/ OpenRequeue \/ Open
  BY <1>1 DEF QueueContinuation, Begin, OpenRequeue, Open
<1>2. CASE Assemble
  <2>1. Restored \in ExecutorLocals
    BY DEF Restored, SavedCheckpoints, Adopts
  <2>2. Stage(Restored, activeInputLeaseId, activeInputLeaseTo) \in ExecutorLocals
    BY <2>1, StagedIsTyped DEF TypeOK
  <2>3. [Restored EXCEPT !.pc = "loop"] \in ExecutorLocals
    BY <2>1
  <2> QED
    BY <1>2, <2>2, <2>3 DEF Assemble
<1> QED
  BY <1>1, <1>2

LEMMA SegmentKeepsLocals ==
  ASSUME ExecutorTypeOK, TypeOK,
         \/ \E l \in LeaseIds : ConsumeSome(l)
         \/ ConsumeNothing \/ RunApprovedCall \/ ReturnAtOnce \/ CaptureContext
         \/ \E r \in RequestIds : CommitRequest(r)
         \/ CommitRequestWithoutInput \/ ReplayRequest \/ CallTools
         \/ (\E asked \in SUBSET Calls : AskApproval(asked)) \/ AnswerFinally
         \/ CheckpointTools \/ CheckpointEnd
  PROVE  exec' \in ExecutorLocals
<1>1. ASSUME NEW l \in LeaseIds, ConsumeSome(l) PROVE exec' \in ExecutorLocals
  <2>1. nextInputSequence - 1 \in Nat
    BY DEF TypeOK
  <2> QED
    BY <1>1, <2>1, StagedIsTyped DEF ConsumeSome, ExecutorTypeOK
<1>2. CASE ConsumeNothing
  <2>1. checkpointInputCursor + 1 \in Nat
    BY DEF TypeOK
  <2>2. PICK n \in Nat, p \in { "segment", "followup" } :
          exec' = [exec EXCEPT !.pc = p, !.boundRevision = n]
    BY <1>2, <2>1 DEF ConsumeNothing
  <2> QED
    BY <2>2 DEF ExecutorTypeOK, ExecutorLocals, Pcs
<1> USE DEF ExecutorTypeOK, ExecutorLocals, Pcs, Goto
<1>3. CASE RunApprovedCall
  BY <1>3 DEF RunApprovedCall
<1>11. CASE ReturnAtOnce
  BY <1>11 DEF ReturnAtOnce
<1>4. CASE CaptureContext
  BY <1>4 DEF CaptureContext, CapturedRevision
<1>5. CASE CommitRequestWithoutInput \/ ReplayRequest \/ CallTools
  BY <1>5 DEF CommitRequestWithoutInput, ReplayRequest, CallTools
<1>6. CASE AnswerFinally
  BY <1>6 DEF AnswerFinally
<1>7. ASSUME NEW r \in RequestIds, CommitRequest(r) PROVE exec' \in ExecutorLocals
  BY <1>7 DEF CommitRequest
<1>8. ASSUME NEW asked \in SUBSET Calls, AskApproval(asked) PROVE exec' \in ExecutorLocals
  BY <1>8 DEF AskApproval
<1>9. CASE CheckpointTools
  BY <1>9 DEF CheckpointTools, Persisted
<1>10. CASE CheckpointEnd
  BY <1>10 DEF CheckpointEnd, Persisted
<1> QED
  BY <1>1, <1>2, <1>3, <1>4, <1>5, <1>6, <1>7, <1>8, <1>9, <1>10, <1>11

LEMMA EndingKeepsLocals ==
  ASSUME ExecutorTypeOK, TypeOK,
         \/ SaveApprovals \/ Suspend \/ ReadCandidate \/ Repair
         \/ (\E o \in Outcomes : ClaimOutcome(o)) \/ LoseClaim
         \/ Supersede \/ FinishExecute \/ ConsumeApproval \/ Complete \/ FinishFailed
         \/ Close \/ Refuse
  PROVE  exec' \in ExecutorLocals
<1>1. exec \in ExecutorLocals
  BY DEF ExecutorTypeOK
<1>2. CASE ReadCandidate
  <2>1. checkpointInputCursor + 1 \in Nat /\ exec.repairs \in Nat
    BY <1>1 DEF TypeOK, ExecutorLocals
  <2>2. PICK p \in { "deciding", "superseded" }, revision \in Nat, n \in Nat :
          exec' = [exec EXCEPT !.pc = p, !.candidate = revision, !.repairs = n]
    BY <1>2, <2>1 DEF ReadCandidate
  <2> QED
    BY <1>1, <2>2 DEF ExecutorLocals, Pcs
<1>3. CASE Repair
  <2>1. exec.repairs + 1 \in Nat
    BY <1>1 DEF ExecutorLocals
  <2>2. PICK n \in Nat : exec' = [exec EXCEPT !.pc = "loop", !.finished = FALSE, !.repairs = n]
    BY <1>3, <2>1 DEF Repair
  <2> QED
    BY <1>1, <2>2 DEF ExecutorLocals, Pcs
<1> USE <1>1 DEF ExecutorLocals, Pcs, Outcomes, Goto
<1>4. CASE SaveApprovals \/ FinishExecute \/ ConsumeApproval \/ Complete \/ FinishFailed
  BY <1>4 DEF SaveApprovals, FinishExecute, ConsumeApproval, Complete, FinishFailed
<1>5. CASE Suspend
  BY <1>5 DEF Suspend
<1>6. ASSUME NEW o \in Outcomes, ClaimOutcome(o) PROVE exec' \in ExecutorLocals
  BY <1>6 DEF ClaimOutcome
<1>7. CASE LoseClaim \/ Refuse
  BY <1>7 DEF LoseClaim, Refuse, Fail
<1>8. CASE Supersede
  BY <1>8 DEF Supersede
<1>9. CASE Close
  BY <1>9, NoExecutorIsTyped DEF Close
<1> QED
  BY <1>2, <1>3, <1>4, <1>5, <1>6, <1>7, <1>8, <1>9

LEMMA StepKeepsTypes ==
  ASSUME MailboxInv, ExecutorTypeOK, ExecutorStep
  PROVE  ExecutorTypeOK'
<1>1. MailboxInv'
  BY StepDrives, StepKeepsInv DEF ExecutorStep
<1>2. CASE Restart
  BY <1>2 DEF Restart, ExecutorTypeOK, durable
<1>3. CASE UNCHANGED vars
  BY <1>3 DEF vars, ExecutorTypeOK, durable, process
<1>4. CASE Moves
  <2>1. TypeOK /\ TypeOK'
    BY <1>1 DEF MailboxInv
  <2>2. exec' \in ExecutorLocals
    BY <1>4, <2>1, CommandKeepsLocals, OpeningKeepsLocals, SegmentKeepsLocals,
       EndingKeepsLocals DEF Moves, Executor
  <2> QED
    BY <1>4, <2>1, <2>2, FlagsStayBoolean, CountersStayNatural, ApprovalsStayTyped,
       CheckpointStaysTyped DEF ExecutorTypeOK
<1> QED
  BY <1>2, <1>3, <1>4 DEF ExecutorStep, NextExecutor, Moves

(* The executor's locals, the saved checkpoint and the approvals stay in     *)
(* their types through any interleaving of commands, steps and crashes.      *)
THEOREM ExecutorTypeCorrect == SpecExecutor => []ExecutorTypeOK
BY InitHasTypes, StepKeepsTypes, ExecutorKeepsMailbox, PTL DEF SpecExecutor, ExecutorStep

-------------------------------------------------------------------------------
(* The executor and the database agree on the lease.  The invariant that     *)
(* proves it also follows a run from its creation to the loop of execute,    *)
(* where nothing is staged yet, and says what the saved RunState holds.      *)

SavedStateHoldsThePrefix ==
  IF checkpoint.saved
  THEN checkpoint.through = checkpointInputCursor
  ELSE checkpointInputCursor = 0

NothingStagedYet ==
  exec.pc \in { "accepted", "starting", "opening", "assembling" } =>
    exec.pendingLease = None /\ exec.through = 0

Untouched == checkpointInputCursor = 0 /\ ~LeaseActive

FreshRunIsUntouched ==
  exec.pc \in { "starting", "opening", "assembling" } /\ exec.mode = "fresh" => Untouched

AssemblesSettledLease == exec.pc = "assembling" => ~LeaseActive \/ BatchIncluded

AcceptedCallIsDecided ==
  exec.pc = "accepted" =>
    exec.mode = "approval" /\ exec.call \in Calls /\ approvals[exec.call] # "none"

CreatedRunIsUntouched ==
  JustCreated => exec.pc \in { "off", "starting", "failing" } /\ Untouched

HoldInv ==
  /\ ExecutorHoldsTheLease
  /\ SavedStateHoldsThePrefix
  /\ NothingStagedYet
  /\ FreshRunIsUntouched
  /\ AssemblesSettledLease
  /\ AcceptedCallIsDecided
  /\ CreatedRunIsUntouched

(* The invariant at the start, and under each group of steps.                *)
LEMMA InitHolds == InitExecutor => HoldInv
BY DEF InitExecutor, InitMailbox, HoldInv, NoExecutor,
   NoCheckpoint, ExecutorHoldsTheLease, Executing, SavedStateHoldsThePrefix,
   NothingStagedYet, FreshRunIsUntouched, Untouched, AssemblesSettledLease, AcceptedCallIsDecided,
   CreatedRunIsUntouched, LeaseActive

LEMMA CommandHolds ==
  ASSUME TypeOK, ExecutorTypeOK, HoldInv, Environment
  PROVE  HoldInv'
<1> USE DEF HoldInv, ExecutorHoldsTheLease, Executing, SavedStateHoldsThePrefix,
     NothingStagedYet, FreshRunIsUntouched, Untouched, AssemblesSettledLease,
     AcceptedCallIsDecided, CreatedRunIsUntouched, JustCreated, LeaseActive, BatchIncluded,
     ActiveRows, RowsOfLease, mailboxVars, runColumns, inputColumns, durable, ExecutorTypeOK,
     ExecutorLocals, NoExecutor
<1>1. CASE StartRun
  BY <1>1 DEF StartRun
<1>2. CASE ResumeRun
  BY <1>2 DEF ResumeRun, Resumable
<1>9. CASE ResumeChildRun
  BY <1>9 DEF ResumeChildRun
<1>3. ASSUME NEW c \in Calls, DecideApproval(c) PROVE HoldInv'
  BY <1>3 DEF DecideApproval
<1>4. ASSUME NEW i \in Inputs, Enqueue(i) PROVE HoldInv'
  BY <1>4 DEF Enqueue, EnqueueRunInput, MayEnqueue
<1>5. CASE Cancel \/ InterruptIdleChild
  BY <1>5 DEF Cancel, InterruptIdleChild, SaveRunStatus
<1>6. CASE Fault
  BY <1>6 DEF Fault, Fail, Goto
<1>7. CASE DropContinuation
  BY <1>7 DEF DropContinuation, SaveRunStatus
<1>8. CASE Crash
  BY <1>8 DEF Crash
<1> QED
  BY <1>1, <1>2, <1>3, <1>4, <1>5, <1>6, <1>7, <1>8, <1>9 DEF Environment

LEMMA OpeningHolds ==
  ASSUME TypeOK, ExecutorTypeOK, HoldInv,
         QueueContinuation \/ Begin \/ OpenRequeue \/ Open \/ Assemble
  PROVE  HoldInv'
<1> USE DEF HoldInv, ExecutorHoldsTheLease, Executing, SavedStateHoldsThePrefix,
     NothingStagedYet, FreshRunIsUntouched, Untouched, AssemblesSettledLease,
     AcceptedCallIsDecided, CreatedRunIsUntouched, JustCreated, LeaseActive, BatchIncluded,
     ActiveRows, RowsOfLease, mailboxVars, runColumns, inputColumns, durable, ExecutorTypeOK,
     ExecutorLocals, Goto
<1>1. CASE QueueContinuation
  BY <1>1 DEF QueueContinuation, SaveRunStatus
<1>2. CASE Begin
  BY <1>2 DEF Begin, SaveRunStatus
<1>3. CASE OpenRequeue
  BY <1>3 DEF OpenRequeue, RequeueLeasedRunInputs, RequeueRows, ClearLease
<1>4. CASE Open
  BY <1>4 DEF Open, MayOpen
<1>5. CASE Assemble
  BY <1>5 DEF Assemble, MayAssemble, MayAssembleWithoutBinding, Adopts, Restored, Stage,
     SavedCheckpoints
<1> QED
  BY <1>1, <1>2, <1>3, <1>4, <1>5

(* The steps that move a lease or a checkpoint. *)
LEMMA PersistHolds ==
  ASSUME TypeOK, ExecutorTypeOK, HoldInv, NEW context, Persist(context),
         exec.pc \in { "segment", "followup", "tools", "ended" }
  PROVE  /\ ~LeaseActive' /\ exec.through = checkpointInputCursor'
         /\ checkpoint'.saved /\ checkpoint'.through = checkpointInputCursor'
         /\ status' = status
BY DEF HoldInv, ExecutorHoldsTheLease, Executing, Persist, AckCheckpoint, AckedPrefix,
   ClearLease, LeaseActive, mailboxVars, runColumns

LEMMA SegmentHolds ==
  ASSUME TypeOK, ExecutorTypeOK, HoldInv,
         \/ \E l \in LeaseIds : ConsumeSome(l)
         \/ ConsumeNothing \/ RunApprovedCall \/ ReturnAtOnce \/ CaptureContext
         \/ \E r \in RequestIds : CommitRequest(r)
         \/ CommitRequestWithoutInput \/ ReplayRequest \/ CallTools
         \/ (\E asked \in SUBSET Calls : AskApproval(asked)) \/ AnswerFinally
         \/ CheckpointTools \/ CheckpointEnd
  PROVE  HoldInv'
<1> USE DEF HoldInv, ExecutorHoldsTheLease, Executing, SavedStateHoldsThePrefix,
     NothingStagedYet, FreshRunIsUntouched, Untouched, AssemblesSettledLease,
     AcceptedCallIsDecided, CreatedRunIsUntouched, JustCreated, LeaseActive,
     mailboxVars, runColumns, durable, ExecutorTypeOK, ExecutorLocals, Goto
<1>1. ASSUME NEW l \in LeaseIds, ConsumeSome(l) PROVE HoldInv'
  BY <1>1, NoneIsNoId DEF ConsumeSome, LeaseRunInputs, Stage
<1>2. CASE ConsumeNothing \/ RunApprovedCall \/ ReturnAtOnce
  BY <1>2 DEF ConsumeNothing, RunApprovedCall, ReturnAtOnce
<1>3. CASE CaptureContext
  BY <1>3, PersistHolds DEF CaptureContext, Persist
<1>4. ASSUME NEW r \in RequestIds, CommitRequest(r) PROVE HoldInv'
  BY <1>4 DEF CommitRequest, CommitModelRequest
<1>5. CASE CommitRequestWithoutInput \/ ReplayRequest \/ CallTools \/ AnswerFinally
  BY <1>5 DEF CommitRequestWithoutInput, ReplayRequest, CallTools, AnswerFinally
<1>6. ASSUME NEW asked \in SUBSET Calls, AskApproval(asked) PROVE HoldInv'
  BY <1>6 DEF AskApproval
<1>7. CASE CheckpointTools
  BY <1>7, PersistHolds DEF CheckpointTools, Persisted
<1>8. CASE CheckpointEnd
  BY <1>8, PersistHolds DEF CheckpointEnd, Persisted
<1> QED
  BY <1>1, <1>2, <1>3, <1>4, <1>5, <1>6, <1>7, <1>8

LEMMA EndingHolds ==
  ASSUME TypeOK, ExecutorTypeOK, HoldInv,
         \/ SaveApprovals \/ Suspend \/ ReadCandidate \/ Repair
         \/ (\E o \in Outcomes : ClaimOutcome(o)) \/ LoseClaim
         \/ Supersede \/ FinishExecute \/ ConsumeApproval \/ Complete \/ FinishFailed
         \/ Close \/ Refuse
  PROVE  HoldInv'
<1> USE DEF HoldInv, ExecutorHoldsTheLease, Executing, SavedStateHoldsThePrefix,
     NothingStagedYet, FreshRunIsUntouched, Untouched, AssemblesSettledLease,
     AcceptedCallIsDecided, CreatedRunIsUntouched, JustCreated, LeaseActive,
     mailboxVars, runColumns, durable, ExecutorTypeOK, ExecutorLocals, Goto, SaveRunStatus
<1>1. CASE SaveApprovals
  <2>1. JustCreated' => JustCreated
    BY <1>1 DEF SaveApprovals
  <2> QED
    BY <1>1, <2>1 DEF SaveApprovals
<1>8. CASE Suspend
  BY <1>8 DEF Suspend
<1>2. CASE ReadCandidate \/ Repair \/ LoseClaim \/ Supersede
  BY <1>2 DEF ReadCandidate, Repair, LoseClaim, Supersede
<1>3. ASSUME NEW o \in Outcomes, ClaimOutcome(o) PROVE HoldInv'
  BY <1>3 DEF ClaimOutcome, TryClaimTerminalInput
<1>4. CASE FinishExecute \/ Complete \/ FinishFailed
  BY <1>4 DEF FinishExecute, Complete, FinishFailed
<1>5. CASE ConsumeApproval
  BY <1>5 DEF ConsumeApproval, ConsumedApproval
<1>6. CASE Close
  BY <1>6 DEF Close, NoExecutor
<1>7. CASE Refuse
  BY <1>7 DEF Refuse, Refused, Fail
<1> QED
  BY <1>1, <1>2, <1>3, <1>4, <1>5, <1>6, <1>7, <1>8

LEMMA StepHolds ==
  ASSUME MailboxInv, ExecutorTypeOK, HoldInv, ExecutorStep
  PROVE  HoldInv'
<1>1. TypeOK
  BY DEF MailboxInv
<1>2. CASE Restart
  BY <1>2 DEF Restart, Orphaned, RecoveryStatus, SaveRunStatus, HoldInv,
     ExecutorHoldsTheLease, Executing, SavedStateHoldsThePrefix, NothingStagedYet,
     FreshRunIsUntouched, Untouched, AssemblesSettledLease, AcceptedCallIsDecided,
     CreatedRunIsUntouched, JustCreated, LeaseActive, BatchIncluded, ActiveRows,
     RowsOfLease, mailboxVars, runColumns, inputColumns, durable
<1>3. CASE UNCHANGED vars
  BY <1>3 DEF vars, HoldInv, ExecutorHoldsTheLease, Executing, SavedStateHoldsThePrefix,
     NothingStagedYet, FreshRunIsUntouched, Untouched, AssemblesSettledLease,
     AcceptedCallIsDecided, CreatedRunIsUntouched, JustCreated, LeaseActive, BatchIncluded,
     ActiveRows, RowsOfLease, mailboxVars, runColumns, inputColumns, durable
<1> QED
  BY <1>1, <1>2, <1>3, CommandHolds, OpeningHolds, SegmentHolds, EndingHolds
     DEF ExecutorStep, NextExecutor, Executor

(* At every await of execute, after any crashes, resumes and approvals, the  *)
(* RunState in memory holds exactly the inputs up to the end of the lease    *)
(* the executor will acknowledge, and that lease is the one the database     *)
(* has; without one it holds the inputs of the checkpoint.                   *)
THEOREM LeaseHeldByExecutor == SpecExecutor => []ExecutorHoldsTheLease
<1>1. SpecExecutor => []HoldInv
  BY InitHolds, StepHolds, ExecutorKeepsMailbox, ExecutorTypeCorrect, PTL
     DEF SpecExecutor, ExecutorStep
<1> QED
  BY <1>1, PTL DEF HoldInv

-------------------------------------------------------------------------------
(* The objective revision. *)

LEMMA SequenceGrows ==
  ASSUME TypeOK, MailboxStep
  PROVE  nextInputSequence' \in Nat /\ nextInputSequence <= nextInputSequence'
BY DEF TypeOK, MailboxStep, NextMailbox, EnqueueRunInput, LeaseRunInputs,
   RequeueLeasedRunInputs, RequeueRows, CommitModelRequest, AckCheckpoint,
   TryClaimTerminalInput, SaveRunStatus, mailboxVars

LEMMA RevisionFollows ==
  ASSUME ExecutorStep
  PROVE  objectiveRevision' \in { objectiveRevision, nextInputSequence, nextInputSequence' }
<1> USE DEF durable
<1>1. CASE Environment \/ Restart \/ UNCHANGED vars
  BY <1>1 DEF Environment, StartRun, ResumeRun, ResumeChildRun, InterruptIdleChild,
     DecideApproval, Enqueue, Cancel, Fault, DropContinuation, Crash, Restart, vars
<1>2. CASE Executor
  BY <1>2 DEF Executor, QueueContinuation, Begin, OpenRequeue, Open, Assemble, ConsumeSome,
     ConsumeNothing, RunApprovedCall, ReturnAtOnce, CaptureContext, CommitRequest,
     CommitRequestWithoutInput, ReplayRequest, CallTools, AskApproval, AnswerFinally,
     CheckpointTools, CheckpointEnd, SaveApprovals, Suspend, ReadCandidate, Repair,
     ClaimOutcome, LoseClaim, Supersede, FinishExecute, ConsumeApproval, Complete,
     FinishFailed, Close, Refuse
<1> QED
  BY <1>1, <1>2 DEF ExecutorStep, NextExecutor

(* The exception of synchronizeObjectiveRevision is never thrown: wherever   *)
(* an enqueue, a crash or a failed write falls, the revision in the state    *)
(* never passes the one the mailbox has.                                     *)
THEOREM ObjectiveNeverAhead == SpecExecutor => []ObjectiveNotAheadOfMailbox
<1>1. InitExecutor => ObjectiveNotAheadOfMailbox
  BY DEF InitExecutor, InitMailbox, ObjectiveNotAheadOfMailbox
<1>2. MailboxInv /\ ExecutorTypeOK /\ ObjectiveNotAheadOfMailbox /\ ExecutorStep =>
        ObjectiveNotAheadOfMailbox'
  <2> SUFFICES ASSUME MailboxInv, ExecutorTypeOK, ObjectiveNotAheadOfMailbox, ExecutorStep
               PROVE  ObjectiveNotAheadOfMailbox'
    OBVIOUS
  <2>1. MailboxStep /\ TypeOK
    BY StepDrives DEF ExecutorStep, MailboxInv
  <2>2. nextInputSequence \in Nat /\ objectiveRevision \in Nat
    BY <2>1 DEF TypeOK, ExecutorTypeOK
  <2> QED
    BY <2>1, <2>2, SequenceGrows, RevisionFollows DEF ObjectiveNotAheadOfMailbox
<1> QED
  BY <1>1, <1>2, ExecutorKeepsMailbox, ExecutorTypeCorrect, PTL DEF SpecExecutor, ExecutorStep

-------------------------------------------------------------------------------
(* Side effects of unknown result.  pendingToolCalls is only set between the *)
(* start of a segment and its checkpoint, where the status is running or     *)
(* cancelled, and every status a command starts from excludes it; the resume *)
(* of a child run looks at nothing but its status.                           *)

Working == Executing \/ exec.pc \in { "opening", "assembling" }
Startable == status \in { "queued", "waiting_approval", "interrupted" }

EffectsInv ==
  /\ Startable => ~pendingToolCalls
  /\ exec.pc \in { "accepted", "starting", "interrupted", "suspending" } => ~pendingToolCalls
  /\ Working => ~Startable
  /\ ~up => exec.pc = "off"

LEMMA StepKeepsEffects ==
  ASSUME MailboxInv, ExecutorTypeOK, EffectsInv, ExecutorStep
  PROVE  EffectsInv'
<1> USE DEF EffectsInv, Working, Executing, Startable, ExecutorTypeOK, ExecutorLocals,
            durable, process, Goto, SaveRunStatus, mailboxVars, NoExecutor
<1>1. CASE StartRun \/ ResumeRun \/ ResumeChildRun \/ (\E c \in Calls : DecideApproval(c))
  <2>1. CASE StartRun
    BY <2>1 DEF StartRun, JustCreated
  <2>2. CASE ResumeRun
    BY <2>2 DEF ResumeRun, Resumable
  <2>4. CASE ResumeChildRun
    BY <2>4 DEF ResumeChildRun
  <2>3. ASSUME NEW c \in Calls, DecideApproval(c) PROVE EffectsInv'
    <3>1. /\ Startable /\ ~pendingToolCalls
          /\ pendingToolCalls' = pendingToolCalls /\ status' = status
      BY <2>3 DEF DecideApproval, DecisionAllowed
    <3>2. exec'.pc = "accepted" /\ up' = up /\ up
      BY <2>3 DEF DecideApproval
    <3> QED
      BY <3>1, <3>2
  <2> QED
    BY <1>1, <2>1, <2>2, <2>3, <2>4
<1>2. CASE (\E i \in Inputs : Enqueue(i)) \/ Cancel \/ InterruptIdleChild \/ Fault
  BY <1>2 DEF Enqueue, EnqueueRunInput, Cancel, InterruptIdleChild, Fault, Fail
<1>3. CASE DropContinuation \/ Crash \/ Restart
  <2>1. CASE DropContinuation \/ Crash
    BY <2>1 DEF DropContinuation, Crash
  <2>2. CASE Restart
    BY <2>2 DEF Restart, Orphaned, RecoveryStatus
  <2> QED
    BY <1>3, <2>1, <2>2
<1>4. CASE QueueContinuation \/ Begin \/ OpenRequeue \/ Open
  <2>1. CASE QueueContinuation \/ Begin
    BY <2>1 DEF QueueContinuation, Begin
  <2>2. CASE OpenRequeue
    BY <2>2 DEF OpenRequeue, RequeueLeasedRunInputs, RequeueRows
  <2>3. CASE Open
    BY <2>3 DEF Open
  <2> QED
    BY <1>4, <2>1, <2>2, <2>3
<1>5. CASE Assemble
  BY <1>5 DEF Assemble, Restored, Stage
<1>6. ASSUME NEW l \in LeaseIds, ConsumeSome(l) PROVE EffectsInv'
  BY <1>6 DEF ConsumeSome, LeaseRunInputs, Stage
<1>7. CASE ConsumeNothing \/ RunApprovedCall \/ ReturnAtOnce
  BY <1>7 DEF ConsumeNothing, RunApprovedCall, ReturnAtOnce
<1>8. CASE CaptureContext \/ CheckpointTools \/ CheckpointEnd
  <2>1. CASE CaptureContext
    <3>1. /\ status' = status
          /\ pendingToolCalls' \in { pendingToolCalls, FALSE }
      BY <2>1 DEF CaptureContext, Persist, AckCheckpoint
    <3>2. exec'.pc = "requesting" /\ Working /\ up' = up
      BY <2>1 DEF CaptureContext
    <3> QED
      BY <3>1, <3>2
  <2>2. CASE CheckpointTools \/ CheckpointEnd
    <3>1. status' = status /\ pendingToolCalls' = FALSE
      BY <2>2 DEF CheckpointTools, CheckpointEnd, Persist, AckCheckpoint
    <3>2. exec'.pc \in { "rotating", "candidate", "interrupted" } /\ Working /\ up' = up
      BY <2>2 DEF CheckpointTools, CheckpointEnd, Persisted
    <3> QED
      BY <3>1, <3>2
  <2> QED
    BY <1>8, <2>1, <2>2
<1>9. ASSUME NEW r \in RequestIds, CommitRequest(r) PROVE EffectsInv'
  BY <1>9 DEF CommitRequest, CommitModelRequest
<1>10. CASE CommitRequestWithoutInput \/ ReplayRequest \/ CallTools
  BY <1>10 DEF CommitRequestWithoutInput, ReplayRequest, CallTools
<1>11. CASE AnswerFinally \/ \E asked \in SUBSET Calls : AskApproval(asked)
  BY <1>11 DEF AnswerFinally, AskApproval
<1>12. CASE SaveApprovals \/ Suspend
  <2>1. CASE SaveApprovals
    BY <2>1 DEF SaveApprovals
  <2>2. CASE Suspend
    <3>1. exec'.pc = "returned" /\ ~pendingToolCalls' /\ status' = "waiting_approval"
      BY <2>2 DEF Suspend
    <3>2. exec.pc = "suspending" /\ up' = up
      BY <2>2 DEF Suspend
    <3> QED
      BY <3>1, <3>2
  <2> QED
    BY <1>12, <2>1, <2>2
<1>13. CASE ReadCandidate \/ Repair \/ LoseClaim \/ Supersede
  BY <1>13 DEF ReadCandidate, Repair, LoseClaim, Supersede
<1>14. ASSUME NEW o \in Outcomes, ClaimOutcome(o) PROVE EffectsInv'
  BY <1>14 DEF ClaimOutcome, TryClaimTerminalInput
<1>15. CASE FinishExecute \/ Complete \/ FinishFailed
  BY <1>15 DEF FinishExecute, Complete, FinishFailed
<1>16. CASE ConsumeApproval \/ Close \/ Refuse
  BY <1>16 DEF ConsumeApproval, Close, Refuse, Refused, Fail
<1>17. CASE UNCHANGED vars
  BY <1>17 DEF vars
<1> QED
  BY <1>1, <1>2, <1>3, <1>4, <1>5, <1>6, <1>7, <1>8, <1>9, <1>10, <1>11, <1>12, <1>13,
     <1>14, <1>15, <1>16, <1>17 DEF ExecutorStep, NextExecutor, Environment, Executor

(* No command starts an executor over a tool call whose result is unknown,   *)
(* after any crash and with any decisions still open.                        *)
THEOREM UnknownEffectsStopTheRun == SpecExecutor => NoReplayOfUnknownEffects
<1>1. InitExecutor => EffectsInv
  BY DEF InitExecutor, EffectsInv, Working, Executing, NoExecutor
<1>2. EffectsInv /\ ExecutorTypeOK /\ ExecutorStep =>
        [exec.pc = "off" /\ exec'.pc # "off" => ~pendingToolCalls]_vars
  <2> SUFFICES ASSUME EffectsInv, ExecutorTypeOK, NextExecutor, exec.pc = "off", exec'.pc # "off"
               PROVE  ~pendingToolCalls
    BY DEF ExecutorStep
  <2>1. CASE StartRun \/ ResumeRun \/ ResumeChildRun \/ (\E c \in Calls : DecideApproval(c))
    BY <2>1 DEF EffectsInv, Startable, StartRun, JustCreated, ResumeRun, Resumable,
       ResumeChildRun, DecideApproval, DecisionAllowed
  <2>2. CASE Restart \/ Crash
    BY <2>2 DEF Restart, Crash, NoExecutor
  <2>3. CASE (\E i \in Inputs : Enqueue(i)) \/ Cancel \/ InterruptIdleChild \/ Fault
        \/ DropContinuation
    BY <2>3 DEF Enqueue, Cancel, InterruptIdleChild, Registered, Fault, DropContinuation
  <2>4. CASE Executor
    BY <2>4 DEF Executor, QueueContinuation, Begin, OpenRequeue, Open, Assemble, ConsumeSome,
       ConsumeNothing, RunApprovedCall, ReturnAtOnce, CaptureContext, CommitRequest,
       CommitRequestWithoutInput, ReplayRequest, CallTools, AskApproval, AnswerFinally,
       CheckpointTools, CheckpointEnd, SaveApprovals, Suspend, ReadCandidate, Repair,
       ClaimOutcome, LoseClaim, Supersede, FinishExecute, ConsumeApproval, Complete,
       FinishFailed, Close, Refuse, Refused
  <2> QED
    BY <2>1, <2>2, <2>3, <2>4 DEF NextExecutor, Environment
<1> QED
  BY <1>1, <1>2, StepKeepsEffects, ExecutorKeepsMailbox, ExecutorTypeCorrect, PTL
     DEF SpecExecutor, ExecutorStep, NoReplayOfUnknownEffects

-------------------------------------------------------------------------------
(* The revision a request and a checkpoint are bound to.  While a segment    *)
(* works, the coordinator's revision is the one of the inputs it shows; the  *)
(* context of a checkpoint is one behind only over a lease just taken, which *)
(* no checkpoint acknowledges.                                               *)

Starting == exec.pc \in { "accepted", "starting", "opening", "assembling" }
Requesting == exec.pc \in { "requesting", "streaming", "tools", "rotating", "followup" }
Deciding == exec.pc \in { "candidate", "deciding", "superseded" }

ContextFits ==
  \/ exec.contextRevision = exec.through + 1
  \/ exec.pendingLease # None /\ ~BatchIncluded

BoundInv ==
  /\ Starting => exec.finished = FALSE /\ exec.interruptions = {}
  /\ Requesting => exec.finished = FALSE /\ exec.interruptions = {}
  /\ Deciding => exec.interruptions = {}
  /\ exec.pc = "assembling" /\ LeaseActive => activeInputLeaseTo < objectiveRevision
  /\ exec.pc \in { "segment", "followup", "requesting", "streaming", "tools" } =>
       exec.boundRevision = exec.through + 1
  /\ exec.pc \in { "requesting", "streaming", "tools" } =>
       exec.contextRevision = exec.boundRevision
  /\ exec.pc = "loop" /\ (exec.finished \/ exec.interruptions # {}) =>
       exec.contextRevision = exec.through + 1
  /\ exec.pc = "segment" /\ (exec.finished \/ exec.interruptions # {}) => ContextFits
  /\ exec.pc = "ended" => ContextFits

LEMMA InitIsBound == InitExecutor => BoundInv
BY DEF InitExecutor, BoundInv, Starting, Requesting, Deciding, NoExecutor

(* A lease can only be acknowledged once its batch is included. *)
LEMMA PersistFits ==
  ASSUME ContextFits, NEW context, Persist(context)
  PROVE  exec.contextRevision = exec.through + 1
BY DEF ContextFits, Persist, AckCheckpoint, BatchIncluded, ActiveRows, RowsOfLease, LeaseActive

LEMMA CommandKeepsBound ==
  ASSUME TypeOK, ExecutorTypeOK, BoundInv, RowsAreWellFormed,
         ObjectiveNotAheadOfMailbox, Environment
  PROVE  BoundInv'
<1> USE DEF BoundInv, Starting, Requesting, Deciding
<1>0. exec \in ExecutorLocals
  BY DEF ExecutorTypeOK
<1>1. CASE StartRun \/ ResumeRun \/ ResumeChildRun \/ Crash \/ DropContinuation
  <2>1. /\ exec'.pc \in { "starting", "off" } /\ exec'.finished = FALSE
        /\ exec'.interruptions = {}
    <3>1. CASE StartRun
      BY <3>1 DEF StartRun, NoExecutor
    <3>2. CASE ResumeRun
      BY <3>2 DEF ResumeRun, NoExecutor
    <3>3. CASE ResumeChildRun
      BY <3>3 DEF ResumeChildRun, NoExecutor
    <3>4. CASE Crash
      BY <3>4 DEF Crash, NoExecutor
    <3>5. CASE DropContinuation
      BY <3>5 DEF DropContinuation, NoExecutor
    <3> QED
      BY <1>1, <3>1, <3>2, <3>3, <3>4, <3>5
  <2> QED
    BY <2>1
<1>2. ASSUME NEW c \in Calls, DecideApproval(c) PROVE BoundInv'
  <2>1. /\ exec'.pc = "accepted" /\ exec'.finished = FALSE /\ exec'.interruptions = {}
    BY <1>2 DEF DecideApproval, NoExecutor
  <2> QED
    BY <2>1
<1>3. ASSUME NEW i \in Inputs, Enqueue(i) PROVE BoundInv'
  <2>1. nextInputSequence \in Nat /\ nextInputSequence' = nextInputSequence + 1
        /\ activeInputLeaseTo \in Nat /\ objectiveRevision \in Nat
    BY <1>3 DEF Enqueue, EnqueueRunInput, TypeOK, ExecutorTypeOK
  <2>2. LeaseActive' = LeaseActive /\ exec' = exec /\ activeInputLeaseTo' = activeInputLeaseTo
    BY <1>3 DEF Enqueue, EnqueueRunInput, runColumns, LeaseActive
  <2>3. BatchIncluded' => BatchIncluded
    <3>1. inputStatus' = [inputStatus EXCEPT ![i] = "queued"] /\ inputLeaseId' = inputLeaseId
          /\ activeInputLeaseId' = activeInputLeaseId /\ inputStatus[i] = "absent"
      BY <1>3 DEF Enqueue, EnqueueRunInput, MayEnqueue, runColumns
    <3>2. inputStatus \in [Inputs -> DeliveryStatus]
      BY DEF TypeOK
    <3>3. \A j \in Inputs : j \in ActiveRows => j # i /\ j \in ActiveRows' /\
                                inputStatus'[j] = inputStatus[j]
      BY <3>1, <3>2 DEF ActiveRows, RowsOfLease
    <3> QED
      BY <3>3, <2>2 DEF BatchIncluded, ActiveRows, RowsOfLease
  <2>4. objectiveRevision' \in { objectiveRevision, nextInputSequence + 1 }
    BY <1>3, <2>1 DEF Enqueue
  <2>5. exec.pc = "assembling" /\ LeaseActive => activeInputLeaseTo < objectiveRevision'
    <3>1. exec.pc = "assembling" /\ LeaseActive => activeInputLeaseTo < objectiveRevision
      OBVIOUS
    <3>2. objectiveRevision < nextInputSequence + 1
      BY <2>1 DEF ObjectiveNotAheadOfMailbox
    <3> QED
      BY <2>1, <2>4, <3>1, <3>2
  <2> QED
    BY <2>2, <2>3, <2>5 DEF ContextFits
<1>4. CASE Cancel
  <2>1. /\ exec' = [exec EXCEPT !.aborted = TRUE] /\ objectiveRevision' = objectiveRevision
        /\ activeInputLeaseTo' = activeInputLeaseTo
        /\ LeaseActive' = LeaseActive /\ BatchIncluded' = BatchIncluded
    BY <1>4 DEF Cancel, SaveRunStatus, BatchIncluded, ActiveRows, RowsOfLease, inputColumns,
       runColumns, LeaseActive, durable
  <2> QED
    BY <1>0, <2>1 DEF ContextFits, ExecutorLocals
<1>5. CASE InterruptIdleChild
  BY <1>5 DEF InterruptIdleChild, process
<1>6. CASE Fault
  BY <1>0, <1>6 DEF Fault, Fail, Goto, ExecutorLocals
<1> QED
  BY <1>1, <1>2, <1>3, <1>4, <1>5, <1>6 DEF Environment


LEMMA OpeningKeepsBound ==
  ASSUME TypeOK, ExecutorTypeOK, HoldInv, LeaseIsTheWindowAboveTheCursor, BoundInv,
         QueueContinuation \/ Begin \/ OpenRequeue \/ Open \/ Assemble
  PROVE  BoundInv'
<1> USE DEF BoundInv, Starting, Requesting, Deciding, LeaseActive, runColumns, durable, Goto
<1>1. exec \in ExecutorLocals
  BY DEF ExecutorTypeOK
<1>2. CASE QueueContinuation \/ Begin \/ OpenRequeue
  BY <1>1, <1>2 DEF QueueContinuation, Begin, OpenRequeue, SaveRunStatus, ExecutorLocals
<1>3. CASE Open
  <2>1. LeaseActive => activeInputLeaseTo < nextInputSequence
    BY DEF LeaseIsTheWindowAboveTheCursor, TypeOK
  <2> QED
    BY <1>1, <1>3, <2>1 DEF Open, ExecutorLocals, mailboxVars
<1>4. CASE Assemble
  <2>1. exec.pc = "assembling" /\ exec.finished = FALSE /\ exec.interruptions = {}
        /\ exec.through = 0
    BY <1>4 DEF Assemble, HoldInv, NothingStagedYet
  <2>2. CASE Adopts
    <3>1. checkpoint.revision = checkpointInputCursor + 1
          /\ checkpoint.through = checkpointInputCursor
          /\ checkpoint.revision >= objectiveRevision
      BY <1>4, <2>2 DEF Assemble, MayAssemble, MayAssembleWithoutBinding, MayBind, RestoreAccepts,
         HoldInv, SavedStateHoldsThePrefix
    <3>2. ~BatchIncluded
      BY <2>1, <3>1 DEF BatchIncluded, LeaseIsTheWindowAboveTheCursor, TypeOK, ExecutorTypeOK
    <3>3. /\ exec'.pc = "loop" /\ exec'.contextRevision = checkpoint.revision
          /\ exec'.through = checkpoint.through
      BY <1>1, <1>4, <2>2, <3>2 DEF Assemble, Restored, ExecutorLocals
    <3> QED
      BY <3>1, <3>3
  <2>3. CASE ~Adopts /\ BatchIncluded
    <3>1. /\ exec'.pc = "segment" /\ exec'.finished = FALSE
          /\ exec'.interruptions = exec.interruptions
          /\ exec'.through = activeInputLeaseTo /\ exec'.boundRevision = activeInputLeaseTo + 1
      BY <1>1, <1>4, <2>3 DEF Assemble, Restored, Stage, ExecutorLocals
    <3> QED
      BY <2>1, <3>1
  <2>4. CASE ~Adopts /\ ~BatchIncluded
    <3>1. /\ exec'.pc = "loop" /\ exec'.finished = exec.finished
          /\ exec'.interruptions = exec.interruptions
      BY <1>1, <1>4, <2>4 DEF Assemble, Restored, ExecutorLocals
    <3> QED
      BY <2>1, <3>1
  <2> QED
    BY <2>2, <2>3, <2>4
<1> QED
  BY <1>2, <1>3, <1>4

LEMMA SegmentKeepsBound ==
  ASSUME TypeOK, ExecutorTypeOK, HoldInv, RowsAreWellFormed, BoundInv,
         \/ \E l \in LeaseIds : ConsumeSome(l)
         \/ ConsumeNothing \/ RunApprovedCall \/ ReturnAtOnce \/ CaptureContext
         \/ \E r \in RequestIds : CommitRequest(r)
         \/ CommitRequestWithoutInput \/ ReplayRequest \/ CallTools
         \/ (\E asked \in SUBSET Calls : AskApproval(asked)) \/ AnswerFinally
         \/ CheckpointTools \/ CheckpointEnd
  PROVE  BoundInv'
<1> USE DEF BoundInv, Starting, Requesting, Deciding, Goto
<1>1. exec \in ExecutorLocals
  BY DEF ExecutorTypeOK
<1>2. ASSUME NEW l \in LeaseIds, ConsumeSome(l) PROVE BoundInv'
  <2>1. exec' = [exec EXCEPT !.pc = "segment", !.pendingLease = l,
                   !.through = nextInputSequence - 1,
                   !.boundRevision = nextInputSequence - 1 + 1, !.finished = FALSE]
    BY <1>2 DEF ConsumeSome, Stage
  <2>2. /\ exec'.pc = "segment" /\ exec'.pendingLease = l
        /\ exec'.through = nextInputSequence - 1
        /\ exec'.boundRevision = nextInputSequence - 1 + 1
    BY <1>1, <2>1 DEF ExecutorLocals
  <2>3. PICK i \in QueuedRows : TRUE
    BY <1>2 DEF ConsumeSome, LeaseRunInputs
  <2>4. i \in ActiveRows' /\ inputStatus'[i] = "leased"
    BY <1>2, <2>3 DEF ConsumeSome, LeaseRunInputs, MoveRows, ActiveRows, RowsOfLease, QueuedRows
  <2>5. exec'.pendingLease # None /\ ~BatchIncluded'
    BY <2>2, <2>4, NoneIsNoId DEF BatchIncluded
  <2> QED
    BY <2>2, <2>5 DEF ContextFits
<1>3. CASE ConsumeNothing
  <2>1. exec.through = checkpointInputCursor
    BY <1>3 DEF ConsumeNothing, NothingToLease, LeaseActive, HoldInv, ExecutorHoldsTheLease,
       Executing
  <2>2. exec' = [exec EXCEPT !.pc = IF exec.pc = "loop" THEN "segment" ELSE "followup",
                             !.boundRevision = checkpointInputCursor + 1]
    BY <1>3 DEF ConsumeNothing
  <2> QED
    BY <1>1, <1>3, <2>1, <2>2 DEF ConsumeNothing, ContextFits, ExecutorLocals
<1>4. CASE RunApprovedCall \/ ReturnAtOnce
  BY <1>1, <1>4 DEF RunApprovedCall, ReturnAtOnce, ContextFits, ExecutorLocals, mailboxVars,
     runColumns, inputColumns, BatchIncluded, LeaseActive, ActiveRows, RowsOfLease
<1>5. CASE CaptureContext
  BY <1>1, <1>5 DEF CaptureContext, CapturedRevision, ExecutorLocals
<1>6. ASSUME NEW r \in RequestIds, CommitRequest(r) PROVE BoundInv'
  BY <1>1, <1>6 DEF CommitRequest, ExecutorLocals
<1>7. CASE CommitRequestWithoutInput \/ ReplayRequest \/ CallTools
  BY <1>1, <1>7 DEF CommitRequestWithoutInput, ReplayRequest, CallTools, ExecutorLocals
<1>8. ASSUME NEW asked \in SUBSET Calls, AskApproval(asked) PROVE BoundInv'
  BY <1>1, <1>8 DEF AskApproval, ExecutorLocals, ContextFits
<1>9. CASE AnswerFinally
  BY <1>1, <1>9 DEF AnswerFinally, ExecutorLocals, ContextFits
<1>10. CASE CheckpointTools \/ CheckpointEnd
  BY <1>1, <1>10 DEF CheckpointTools, CheckpointEnd, Persisted, ExecutorLocals
<1> QED
  BY <1>2, <1>3, <1>4, <1>5, <1>6, <1>7, <1>8, <1>9, <1>10

LEMMA EndingKeepsBound ==
  ASSUME TypeOK, ExecutorTypeOK, BoundInv,
         \/ SaveApprovals \/ Suspend \/ ReadCandidate \/ Repair
         \/ (\E o \in Outcomes : ClaimOutcome(o)) \/ LoseClaim
         \/ Supersede \/ FinishExecute \/ ConsumeApproval \/ Complete \/ FinishFailed
         \/ Close \/ Refuse
  PROVE  BoundInv'
<1> USE DEF BoundInv, Starting, Requesting, Deciding, Goto
<1>1. exec \in ExecutorLocals
  BY DEF ExecutorTypeOK
<1>2. CASE SaveApprovals \/ FinishExecute \/ ConsumeApproval \/ Complete \/ FinishFailed
  BY <1>1, <1>2 DEF SaveApprovals, FinishExecute, ConsumeApproval, Complete, FinishFailed,
     ExecutorLocals
<1>3. CASE Suspend \/ Repair \/ LoseClaim \/ Supersede
  BY <1>1, <1>3 DEF Suspend, Repair, LoseClaim, Supersede, ExecutorLocals
<1>4. CASE ReadCandidate
  <2>1. exec.pc = "candidate" /\ exec'.pc \in { "deciding", "superseded" }
        /\ exec'.interruptions = exec.interruptions
    BY <1>1, <1>4 DEF ReadCandidate, ExecutorLocals
  <2> QED
    BY <2>1
<1>5. ASSUME NEW o \in Outcomes, ClaimOutcome(o) PROVE BoundInv'
  BY <1>1, <1>5 DEF ClaimOutcome, ExecutorLocals
<1>6. CASE Close \/ Refuse
  BY <1>1, <1>6 DEF Close, Refuse, Fail, NoExecutor, ExecutorLocals
<1> QED
  BY <1>2, <1>3, <1>4, <1>5, <1>6

LEMMA StepKeepsBound ==
  ASSUME MailboxInv, ExecutorTypeOK, HoldInv, BoundInv, EffectsInv,
         ObjectiveNotAheadOfMailbox, ExecutorStep
  PROVE  BoundInv'
<1>1. TypeOK /\ RowsAreWellFormed /\ LeaseIsTheWindowAboveTheCursor
  BY DEF MailboxInv
<1>2. CASE Restart
  BY <1>2 DEF Restart, EffectsInv, BoundInv, Starting, Requesting, Deciding
<1>3. CASE UNCHANGED vars
  BY <1>3 DEF vars, BoundInv, Starting, Requesting, Deciding, ContextFits, LeaseActive,
     BatchIncluded, ActiveRows, RowsOfLease, mailboxVars, runColumns, inputColumns, durable
<1> QED
  BY <1>1, <1>2, <1>3, CommandKeepsBound, OpeningKeepsBound, SegmentKeepsBound,
     EndingKeepsBound DEF ExecutorStep, NextExecutor, Executor


LEMMA BoundAlways == SpecExecutor => [](BoundInv /\ HoldInv /\ EffectsInv)
<1>1. SpecExecutor => []HoldInv
  BY InitHolds, StepHolds, ExecutorKeepsMailbox, ExecutorTypeCorrect, PTL
     DEF SpecExecutor, ExecutorStep
<1>2. InitExecutor => EffectsInv
  BY DEF InitExecutor, EffectsInv, Working, Executing, NoExecutor
<1>3. SpecExecutor => []EffectsInv
  BY <1>2, StepKeepsEffects, ExecutorKeepsMailbox, ExecutorTypeCorrect, PTL
     DEF SpecExecutor, ExecutorStep
<1> QED
  BY <1>1, <1>3, InitIsBound, StepKeepsBound, ObjectiveNeverAhead, ExecutorKeepsMailbox,
     ExecutorTypeCorrect, PTL DEF SpecExecutor, ExecutorStep

(* Tool calls and candidates are attributed to the objective they were made  *)
(* under: whatever rotates, supersedes, restores or requeues, a request is   *)
(* bound to the revision that follows the last input it shows.               *)
THEOREM RequestsAreBound == SpecExecutor => []RequestIsBoundToItsInputs
<1>1. BoundInv => RequestIsBoundToItsInputs
  BY DEF BoundInv, RequestIsBoundToItsInputs
<1> QED
  BY <1>1, BoundAlways, PTL

-------------------------------------------------------------------------------
(* Only Persist writes a checkpoint, and it moves the cursor with it. *)

LEMMA PersistRestorable ==
  ASSUME TypeOK, ExecutorTypeOK, HoldInv, NEW context, Persist(context),
         exec.pc \in { "segment", "followup", "tools", "ended" },
         context = exec.through + 1
  PROVE  CheckpointIsRestorable'
<1>1. /\ exec.through = checkpointInputCursor'
      /\ checkpoint'.saved /\ checkpoint'.through = checkpointInputCursor'
  BY PersistHolds
<1>2. checkpoint'.inputCursor = checkpointInputCursor' /\ checkpoint'.revision = context
  BY DEF Persist
<1> QED
  BY <1>1, <1>2 DEF CheckpointIsRestorable, RestoreAccepts

LEMMA OtherStepsKeepTheCheckpoint ==
  ASSUME ExecutorStep, ~CaptureContext, ~CheckpointTools, ~CheckpointEnd
  PROVE  UNCHANGED << checkpoint, checkpointInputCursor >>
<1> USE DEF durable, mailboxVars, runColumns, SaveRunStatus
<1>1. CASE Environment \/ Restart \/ UNCHANGED vars
  <2>1. CASE StartRun \/ ResumeRun \/ ResumeChildRun \/ InterruptIdleChild
        \/ (\E c \in Calls : DecideApproval(c)) \/ Cancel
    BY <2>1 DEF StartRun, ResumeRun, ResumeChildRun, InterruptIdleChild, DecideApproval, Cancel
  <2>2. CASE (\E i \in Inputs : Enqueue(i)) \/ Fault \/ DropContinuation \/ Crash
    BY <2>2 DEF Enqueue, EnqueueRunInput, Fault, DropContinuation, Crash
  <2>3. CASE Restart \/ UNCHANGED vars
    BY <2>3 DEF Restart, vars
  <2> QED
    BY <1>1, <2>1, <2>2, <2>3 DEF Environment
<1>2. CASE QueueContinuation \/ Begin \/ OpenRequeue \/ Open \/ Assemble
  BY <1>2 DEF QueueContinuation, Begin, OpenRequeue, Open, Assemble, RequeueLeasedRunInputs,
     RequeueRows
<1>3. CASE \/ \E l \in LeaseIds : ConsumeSome(l)
           \/ ConsumeNothing \/ RunApprovedCall \/ ReturnAtOnce
           \/ \E r \in RequestIds : CommitRequest(r)
           \/ CommitRequestWithoutInput \/ ReplayRequest \/ CallTools
           \/ (\E asked \in SUBSET Calls : AskApproval(asked)) \/ AnswerFinally
  BY <1>3 DEF ConsumeSome, LeaseRunInputs, ConsumeNothing, RunApprovedCall, ReturnAtOnce,
     CommitRequest, CommitModelRequest, CommitRequestWithoutInput, ReplayRequest, CallTools,
     AskApproval, AnswerFinally
<1>4. CASE \/ SaveApprovals \/ Suspend \/ ReadCandidate \/ Repair
           \/ (\E o \in Outcomes : ClaimOutcome(o)) \/ LoseClaim
           \/ Supersede \/ FinishExecute \/ ConsumeApproval \/ Complete \/ FinishFailed
           \/ Close \/ Refuse
  BY <1>4 DEF SaveApprovals, Suspend, ReadCandidate, Repair, ClaimOutcome,
     TryClaimTerminalInput, LoseClaim, Supersede, FinishExecute, ConsumeApproval, Complete,
     FinishFailed, Close, Refuse
<1> QED
  BY <1>1, <1>2, <1>3, <1>4 DEF ExecutorStep, NextExecutor, Executor

LEMMA StepKeepsCheckpointRestorable ==
  ASSUME MailboxInv, ExecutorTypeOK, HoldInv, BoundInv, CheckpointIsRestorable, ExecutorStep
  PROVE  CheckpointIsRestorable'
<1>1. TypeOK
  BY DEF MailboxInv
<1>2. CASE CaptureContext
  <2>1. CASE exec.pc = "segment" /\ exec.pendingLease = None
    BY <1>1, <1>2, <2>1, PersistRestorable DEF CaptureContext, CapturedRevision, BoundInv
  <2>2. CASE ~(exec.pc = "segment" /\ exec.pendingLease = None)
    BY <1>2, <2>2 DEF CaptureContext, CheckpointIsRestorable, RestoreAccepts, mailboxVars,
       runColumns
  <2> QED
    BY <2>1, <2>2
<1>3. CASE CheckpointTools
  BY <1>1, <1>3, PersistRestorable DEF CheckpointTools, BoundInv
<1>4. CASE CheckpointEnd
  BY <1>1, <1>4, PersistRestorable, PersistFits DEF CheckpointEnd, BoundInv
<1>5. CASE ~CaptureContext /\ ~CheckpointTools /\ ~CheckpointEnd
  BY <1>5, OtherStepsKeepTheCheckpoint DEF CheckpointIsRestorable, RestoreAccepts
<1> QED
  BY <1>2, <1>3, <1>4, <1>5

(* A crash at any await leaves a checkpoint that restore accepts, over the   *)
(* inputs up to the mailbox's cursor.                                        *)
THEOREM CheckpointAlwaysRestorable == SpecExecutor => []CheckpointIsRestorable
<1>1. InitExecutor => CheckpointIsRestorable
  BY DEF InitExecutor, InitMailbox, NoCheckpoint, CheckpointIsRestorable
<1> QED
  BY <1>1, StepKeepsCheckpointRestorable, BoundAlways, ExecutorKeepsMailbox,
     ExecutorTypeCorrect, PTL DEF SpecExecutor, ExecutorStep

-------------------------------------------------------------------------------
(* What a terminal outcome answers. *)

(* A final output answers the revision of the inputs its RunState holds.     *)
AnswerInv ==
  /\ exec.pc \in { "loop", "segment" } /\ exec.finished => exec.answered = exec.through + 1
  /\ exec.pc = "ended" /\ exec.interruptions = {} =>
       exec.finished /\ exec.answered = exec.through + 1
  /\ exec.pc \in { "candidate", "deciding" } =>
       exec.finished /\ exec.answered = exec.through + 1
  /\ (\/ exec.pc \in { "claimed", "completing" }
      \/ exec.pc = "returned" /\ exec.outcome = "completed") =>
       /\ exec.finished
       /\ exec.answered = terminalObjectiveRevision
       /\ exec.answered = nextInputSequence
  /\ status \in { "completed", "clarification_needed" } => terminalObjectiveRevision # 0

LEMMA InitAnswers == InitExecutor => AnswerInv
BY DEF InitExecutor, InitMailbox, AnswerInv, NoExecutor

LEMMA CommandKeepsAnswer ==
  ASSUME TypeOK, ExecutorTypeOK, AnswerInv, ClaimCoversEveryInput, Environment
  PROVE  AnswerInv'
<1> USE DEF AnswerInv
<1>1. exec \in ExecutorLocals
  BY DEF ExecutorTypeOK
<1>2. CASE StartRun \/ ResumeRun \/ ResumeChildRun
  BY <1>2 DEF StartRun, ResumeRun, ResumeChildRun, NoExecutor, mailboxVars
<1>3. ASSUME NEW c \in Calls, DecideApproval(c) PROVE AnswerInv'
  BY <1>3 DEF DecideApproval, NoExecutor, mailboxVars
<1>4. ASSUME NEW i \in Inputs, Enqueue(i) PROVE AnswerInv'
  <2>1. terminalObjectiveRevision = 0 /\ exec' = exec /\ status' = status
        /\ terminalObjectiveRevision' = terminalObjectiveRevision
    BY <1>4 DEF Enqueue, EnqueueRunInput, MayEnqueue
  <2>2. nextInputSequence # 0
    BY DEF TypeOK
  <2> QED
    BY <2>1, <2>2
<1>5. CASE Cancel
  <2>1. exec' = [exec EXCEPT !.aborted = TRUE] /\ status' = "cancelled"
        /\ terminalObjectiveRevision' = terminalObjectiveRevision
        /\ nextInputSequence' = nextInputSequence
    BY <1>5 DEF Cancel, SaveRunStatus
  <2> QED
    BY <1>1, <2>1 DEF ExecutorLocals
<1>6. CASE InterruptIdleChild \/ DropContinuation \/ Crash
  <2>1. /\ exec'.pc = "off"
        /\ status' \in { status, "cancelled", "queued" }
        /\ terminalObjectiveRevision' = terminalObjectiveRevision
    BY <1>6 DEF InterruptIdleChild, DropContinuation, Crash, SaveRunStatus, NoExecutor,
       mailboxVars
  <2> QED
    BY <2>1
<1>7. CASE Fault
  BY <1>1, <1>7 DEF Fault, Fail, Goto, ExecutorLocals, mailboxVars
<1> QED
  BY <1>2, <1>3, <1>4, <1>5, <1>6, <1>7 DEF Environment

LEMMA OpeningKeepsAnswer ==
  ASSUME TypeOK, ExecutorTypeOK, HoldInv, BoundInv, AnswerInv,
         QueueContinuation \/ Begin \/ OpenRequeue \/ Open \/ Assemble
  PROVE  AnswerInv'
<1> USE DEF AnswerInv, Goto
<1>1. exec \in ExecutorLocals
  BY DEF ExecutorTypeOK
<1>2. CASE QueueContinuation \/ Begin \/ OpenRequeue \/ Open
  BY <1>1, <1>2 DEF QueueContinuation, Begin, OpenRequeue, RequeueLeasedRunInputs, RequeueRows,
     Open, SaveRunStatus, ExecutorLocals, mailboxVars
<1>3. CASE Assemble
  <2>1. exec.pc = "assembling" /\ exec.finished = FALSE
    BY <1>3 DEF Assemble, BoundInv, Starting
  <2>2. status' = status /\ terminalObjectiveRevision' = terminalObjectiveRevision
    BY <1>3 DEF Assemble, mailboxVars
  <2>3. CASE BatchIncluded
    <3>1. exec'.pc = "segment" /\ exec'.finished = FALSE
      BY <1>1, <1>3, <2>3 DEF Assemble, Restored, Stage, ExecutorLocals
    <3> QED
      BY <2>2, <3>1
  <2>4. CASE ~BatchIncluded /\ Adopts
    <3>1. /\ exec'.pc = "loop" /\ exec'.answered = checkpoint.revision
          /\ exec'.through = checkpoint.through
      BY <1>1, <1>3, <2>4 DEF Assemble, Restored, ExecutorLocals
    <3>2. checkpoint.revision = checkpoint.through + 1
      BY <1>3, <2>4 DEF Assemble, MayAssemble, MayAssembleWithoutBinding, RestoreAccepts, HoldInv,
         SavedStateHoldsThePrefix
    <3> QED
      BY <2>2, <3>1, <3>2
  <2>5. CASE ~BatchIncluded /\ ~Adopts
    <3>1. exec'.pc = "loop" /\ exec'.finished = exec.finished
      BY <1>1, <1>3, <2>5 DEF Assemble, Restored, ExecutorLocals
    <3> QED
      BY <2>1, <2>2, <3>1
  <2> QED
    BY <2>3, <2>4, <2>5
<1> QED
  BY <1>2, <1>3

LEMMA SegmentKeepsAnswer ==
  ASSUME TypeOK, ExecutorTypeOK, HoldInv, BoundInv, AnswerInv,
         \/ \E l \in LeaseIds : ConsumeSome(l)
         \/ ConsumeNothing \/ RunApprovedCall \/ ReturnAtOnce \/ CaptureContext
         \/ \E r \in RequestIds : CommitRequest(r)
         \/ CommitRequestWithoutInput \/ ReplayRequest \/ CallTools
         \/ (\E asked \in SUBSET Calls : AskApproval(asked)) \/ AnswerFinally
         \/ CheckpointTools \/ CheckpointEnd
  PROVE  AnswerInv'
<1> USE DEF AnswerInv, Goto
<1>1. exec \in ExecutorLocals
  BY DEF ExecutorTypeOK
<1>2. ASSUME NEW l \in LeaseIds, ConsumeSome(l) PROVE AnswerInv'
  BY <1>1, <1>2 DEF ConsumeSome, LeaseRunInputs, Stage, ExecutorLocals
<1>3. CASE ConsumeNothing
  <2>1. exec' = [exec EXCEPT !.pc = IF exec.pc = "loop" THEN "segment" ELSE "followup",
                             !.boundRevision = checkpointInputCursor + 1]
    BY <1>3 DEF ConsumeNothing
  <2> QED
    BY <1>1, <1>3, <2>1 DEF ConsumeNothing, ExecutorLocals, mailboxVars
<1>4. CASE RunApprovedCall \/ ReturnAtOnce
  BY <1>1, <1>4 DEF RunApprovedCall, ReturnAtOnce, ExecutorLocals, mailboxVars
<1>5. CASE CaptureContext \/ CheckpointTools
  <2>1. /\ exec'.pc \in { "requesting", "rotating" } /\ status' = status
        /\ terminalObjectiveRevision' = terminalObjectiveRevision
    BY <1>1, <1>5 DEF CaptureContext, CheckpointTools, Persist, AckCheckpoint, Persisted,
       ExecutorLocals, mailboxVars
  <2> QED
    BY <2>1
<1>6. ASSUME NEW r \in RequestIds, CommitRequest(r) PROVE AnswerInv'
  BY <1>1, <1>6 DEF CommitRequest, CommitModelRequest, ExecutorLocals
<1>7. CASE CommitRequestWithoutInput \/ ReplayRequest \/ CallTools
  BY <1>1, <1>7 DEF CommitRequestWithoutInput, ReplayRequest, CallTools, ExecutorLocals,
     mailboxVars
<1>8. ASSUME NEW asked \in SUBSET Calls, AskApproval(asked) PROVE AnswerInv'
  BY <1>1, <1>8 DEF AskApproval, ExecutorLocals, mailboxVars
<1>9. CASE AnswerFinally
  <2>1. exec.contextRevision = exec.through + 1
    BY <1>9 DEF AnswerFinally, BoundInv
  <2> QED
    BY <1>1, <1>9, <2>1 DEF AnswerFinally, ExecutorLocals, mailboxVars
<1>10. CASE CheckpointEnd
  <2>1. /\ status' = status /\ terminalObjectiveRevision' = terminalObjectiveRevision
    BY <1>10 DEF CheckpointEnd, Persist, AckCheckpoint, mailboxVars
  <2>2. /\ exec.pc = "ended"
        /\ exec'.pc = IF exec.interruptions = {} THEN "candidate" ELSE "interrupted"
        /\ exec'.finished = exec.finished /\ exec'.answered = exec.answered
        /\ exec'.through = exec.through
    BY <1>1, <1>10 DEF CheckpointEnd, Persisted, ExecutorLocals
  <2> QED
    BY <2>1, <2>2
<1> QED
  BY <1>2, <1>3, <1>4, <1>5, <1>6, <1>7, <1>8, <1>9, <1>10

LEMMA EndingKeepsAnswer ==
  ASSUME TypeOK, ExecutorTypeOK, HoldInv, AnswerInv,
         \/ SaveApprovals \/ Suspend \/ ReadCandidate \/ Repair
         \/ (\E o \in Outcomes : ClaimOutcome(o)) \/ LoseClaim
         \/ Supersede \/ FinishExecute \/ ConsumeApproval \/ Complete \/ FinishFailed
         \/ Close \/ Refuse
  PROVE  AnswerInv'
<1> USE DEF AnswerInv, Goto
<1>1. exec \in ExecutorLocals
  BY DEF ExecutorTypeOK
<1>2. CASE SaveApprovals \/ Repair \/ LoseClaim \/ Supersede
  BY <1>1, <1>2 DEF SaveApprovals, Repair, LoseClaim, Supersede, ExecutorLocals, mailboxVars
<1>3. CASE Suspend
  BY <1>1, <1>3 DEF Suspend, SaveRunStatus, ExecutorLocals
<1>4. CASE ReadCandidate
  <2>1. /\ exec.pc = "candidate" /\ exec'.pc \in { "deciding", "superseded" }
        /\ exec'.finished = exec.finished /\ exec'.answered = exec.answered
        /\ exec'.through = exec.through
    BY <1>1, <1>4 DEF ReadCandidate, ExecutorLocals
  <2>2. status' = status /\ terminalObjectiveRevision' = terminalObjectiveRevision
    BY <1>4 DEF ReadCandidate, mailboxVars
  <2> QED
    BY <2>1, <2>2
<1>5. ASSUME NEW o \in Outcomes, ClaimOutcome(o) PROVE AnswerInv'
  <2>1. /\ nextInputSequence = exec.candidate /\ ~LeaseActive
        /\ checkpointInputCursor + 1 = exec.candidate
    BY <1>5 DEF ClaimOutcome, RevisionMatches
  <2>2. exec.through = checkpointInputCursor
    BY <1>5, <2>1 DEF ClaimOutcome, HoldInv, ExecutorHoldsTheLease, Executing, LeaseActive
  <2>3. /\ terminalObjectiveRevision' = exec.candidate /\ status' = "running"
        /\ nextInputSequence' = nextInputSequence
    BY <1>5 DEF ClaimOutcome, TryClaimTerminalInput, MayClaim, MayClaimIgnoringTheCursor
  <2>4. /\ exec.pc = "deciding" /\ exec'.pc = "claimed"
        /\ exec'.finished = exec.finished /\ exec'.answered = exec.answered
    BY <1>1, <1>5 DEF ClaimOutcome, ExecutorLocals
  <2> QED
    BY <2>1, <2>2, <2>3, <2>4
<1>6. CASE FinishExecute \/ ConsumeApproval \/ Complete
  <2>1. nextInputSequence # 0
    BY DEF TypeOK
  <2>2. CASE FinishExecute
    BY <1>1, <2>1, <2>2 DEF FinishExecute, SaveRunStatus, ExecutorLocals, mailboxVars
  <2>3. CASE ConsumeApproval
    BY <1>1, <2>3 DEF ConsumeApproval, ExecutorLocals, mailboxVars
  <2>4. CASE Complete
    BY <1>1, <2>1, <2>4 DEF Complete, SaveRunStatus, ExecutorLocals
  <2> QED
    BY <1>6, <2>2, <2>3, <2>4
<1>7. CASE FinishFailed \/ Close \/ Refuse
  <2>1. /\ exec'.pc \in { "closing", "off", "failing" }
        /\ status' \in { status, "cancelled", "failed" }
        /\ terminalObjectiveRevision' = terminalObjectiveRevision
    BY <1>1, <1>7 DEF FinishFailed, Close, Refuse, Fail, SaveRunStatus, NoExecutor,
       ExecutorLocals, mailboxVars
  <2> QED
    BY <2>1
<1> QED
  BY <1>2, <1>3, <1>4, <1>5, <1>6, <1>7

LEMMA StepKeepsAnswer ==
  ASSUME MailboxInv, ExecutorTypeOK, HoldInv, BoundInv, EffectsInv, AnswerInv, ExecutorStep
  PROVE  AnswerInv'
<1>1. TypeOK /\ ClaimCoversEveryInput
  BY DEF MailboxInv
<1>2. CASE Restart
  <2>1. exec.pc = "off" /\ exec' = exec
    BY <1>2 DEF Restart, EffectsInv
  <2>2. /\ terminalObjectiveRevision' = terminalObjectiveRevision
        /\ status' \in { status, "requires_action", "interrupted" }
    BY <1>2 DEF Restart, RecoveryStatus, SaveRunStatus, mailboxVars
  <2> QED
    BY <2>1, <2>2 DEF AnswerInv
<1>3. CASE UNCHANGED vars
  BY <1>3 DEF vars, AnswerInv, mailboxVars
<1> QED
  BY <1>1, <1>2, <1>3, CommandKeepsAnswer, OpeningKeepsAnswer, SegmentKeepsAnswer,
     EndingKeepsAnswer DEF ExecutorStep, NextExecutor, Executor

(* The claimed answer comes from a request that was shown every input the    *)
(* run ever accepted, whatever was superseded, restored or lost before.      *)
THEOREM AnswersCoverEveryInput == SpecExecutor => []AnswerCoversEveryInput
<1>1. AnswerInv => AnswerCoversEveryInput
  BY DEF AnswerInv, AnswerCoversEveryInput
<1> QED
  BY <1>1, InitAnswers, StepKeepsAnswer, BoundAlways, ExecutorKeepsMailbox,
     ExecutorTypeCorrect, PTL DEF SpecExecutor, ExecutorStep


-------------------------------------------------------------------------------
(* The approvals of a waiting run. *)

(* The call a continuation executes is not among those left open.            *)
OpenInv ==
  /\ exec.pc # "off" /\ exec.call \in Calls => approvals[exec.call] # "none"
  /\ Executing => exec.call \notin exec.interruptions
  /\ exec.pc \in { "interrupted", "suspending" } =>
       checkpoint.interruptions = exec.interruptions
  /\ exec.pc = "suspending" =>
       \A c \in exec.interruptions : approvals[c] \in { "pending", "resolved" }
  /\ exec.pc = "returned" /\ status = "waiting_approval" =>
       exec.call \notin checkpoint.interruptions
  /\ OpenCallHasItsApproval

LEMMA InitIsOpen == InitExecutor => OpenInv
BY DEF InitExecutor, InitMailbox, OpenInv, NoExecutor, Executing, OpenCallHasItsApproval

(* No step puts an approval back to none. *)
LEMMA CommandKeepsOpen ==
  ASSUME ExecutorTypeOK, OpenInv, Environment
  PROVE  OpenInv'
<1> USE DEF OpenInv, OpenCallHasItsApproval, Executing
<1>1. exec \in ExecutorLocals /\ approvals \in [Calls -> { "none", "pending", "resolved", "consumed" }]
  BY DEF ExecutorTypeOK
<1>2. CASE StartRun \/ ResumeRun \/ ResumeChildRun
  <2>1. /\ exec'.pc = "starting" /\ exec'.call = None
        /\ UNCHANGED << status, approvals, checkpoint >>
    <3>1. CASE StartRun
      BY <3>1 DEF StartRun, NoExecutor, mailboxVars, durable
    <3>2. CASE ResumeRun
      BY <3>2 DEF ResumeRun, NoExecutor, mailboxVars, durable
    <3>3. CASE ResumeChildRun
      BY <3>3 DEF ResumeChildRun, NoExecutor, mailboxVars, durable
    <3> QED
      BY <1>2, <3>1, <3>2, <3>3
  <2> QED
    BY <2>1, NoneIsNoCall
<1>3. ASSUME NEW c \in Calls, DecideApproval(c) PROVE OpenInv'
  <2>1. /\ exec'.pc = "accepted" /\ exec'.call = c
        /\ approvals' = [approvals EXCEPT ![c] = "resolved"]
        /\ UNCHANGED << status, checkpoint >>
    BY <1>3 DEF DecideApproval, NoExecutor, mailboxVars
  <2> QED
    BY <1>1, <2>1
<1>4. CASE \E i \in Inputs : Enqueue(i)
  <2>1. UNCHANGED << status, exec, approvals, checkpoint >>
    BY <1>4 DEF Enqueue, EnqueueRunInput
  <2> QED
    BY <2>1
<1>5. CASE Cancel
  BY <1>1, <1>5 DEF Cancel, SaveRunStatus, ExecutorLocals, durable
<1>6. CASE InterruptIdleChild \/ DropContinuation \/ Crash
  <2>1. /\ exec'.pc = "off" /\ status' \in { status, "cancelled", "queued" }
        /\ UNCHANGED << approvals, checkpoint >>
    BY <1>6 DEF InterruptIdleChild, DropContinuation, Crash, SaveRunStatus, NoExecutor,
       mailboxVars, durable
  <2> QED
    BY <2>1
<1>7. CASE Fault
  BY <1>1, <1>7 DEF Fault, Fail, Goto, ExecutorLocals, mailboxVars, durable
<1> QED
  BY <1>2, <1>3, <1>4, <1>5, <1>6, <1>7 DEF Environment

LEMMA OpeningKeepsOpen ==
  ASSUME ExecutorTypeOK, BoundInv, OpenInv,
         QueueContinuation \/ Begin \/ OpenRequeue \/ Open \/ Assemble
  PROVE  OpenInv'
<1> USE DEF OpenInv, OpenCallHasItsApproval, Executing, Goto
<1>1. exec \in ExecutorLocals
  BY DEF ExecutorTypeOK
<1>2. CASE QueueContinuation
  BY <1>1, <1>2 DEF QueueContinuation, SaveRunStatus, ExecutorLocals, mailboxVars, durable
<1>3. CASE Begin
  BY <1>1, <1>3 DEF Begin, SaveRunStatus, ExecutorLocals, mailboxVars, durable
<1>4. CASE OpenRequeue
  BY <1>1, <1>4 DEF OpenRequeue, RequeueLeasedRunInputs, RequeueRows, SaveRunStatus,
     ExecutorLocals, mailboxVars, durable
<1>5. CASE Open
  BY <1>1, <1>5 DEF Open, SaveRunStatus, ExecutorLocals, mailboxVars, durable
<1>6. CASE Assemble
  <2>1. exec.pc = "assembling" /\ exec.interruptions = {}
        /\ UNCHANGED << status, approvals, checkpoint >>
    BY <1>6 DEF Assemble, BoundInv, Starting, mailboxVars, durable
  <2>2. /\ exec'.pc \in { "loop", "segment" } /\ exec'.call = exec.call
        /\ exec'.interruptions = IF Adopts THEN checkpoint.interruptions \ { exec.call }
                                          ELSE exec.interruptions
    BY <1>1, <1>6 DEF Assemble, Restored, Stage, ExecutorLocals
  <2> QED
    BY <2>1, <2>2
<1> QED
  BY <1>2, <1>3, <1>4, <1>5, <1>6

LEMMA SegmentKeepsOpen ==
  ASSUME ExecutorTypeOK, EffectsInv, OpenInv,
         \/ \E l \in LeaseIds : ConsumeSome(l)
         \/ ConsumeNothing \/ RunApprovedCall \/ ReturnAtOnce \/ CaptureContext
         \/ \E r \in RequestIds : CommitRequest(r)
         \/ CommitRequestWithoutInput \/ ReplayRequest \/ CallTools
         \/ (\E asked \in SUBSET Calls : AskApproval(asked)) \/ AnswerFinally
         \/ CheckpointTools \/ CheckpointEnd
  PROVE  OpenInv'
<1> USE DEF OpenInv, OpenCallHasItsApproval, Executing, Goto
<1>1. exec \in ExecutorLocals
  BY DEF ExecutorTypeOK
<1>2. ASSUME NEW l \in LeaseIds, ConsumeSome(l) PROVE OpenInv'
  BY <1>1, <1>2 DEF ConsumeSome, LeaseRunInputs, Stage, ExecutorLocals
<1>3. CASE ConsumeNothing
  <2>1. exec' = [exec EXCEPT !.pc = IF exec.pc = "loop" THEN "segment" ELSE "followup",
                             !.boundRevision = checkpointInputCursor + 1]
    BY <1>3 DEF ConsumeNothing
  <2> QED
    BY <1>1, <1>3, <2>1 DEF ConsumeNothing, ExecutorLocals, mailboxVars
<1>4. CASE RunApprovedCall \/ ReturnAtOnce
  <2>1. CASE RunApprovedCall
    BY <1>1, <2>1 DEF RunApprovedCall, ExecutorLocals, mailboxVars, durable
  <2>2. CASE ReturnAtOnce
    BY <1>1, <2>2 DEF ReturnAtOnce, ExecutorLocals, mailboxVars, durable
  <2> QED
    BY <1>4, <2>1, <2>2
<1>5. CASE CaptureContext \/ CheckpointTools \/ CheckpointEnd
  <2>1. status # "waiting_approval"
    BY <1>5 DEF EffectsInv, Working, Startable, CaptureContext, CheckpointTools, CheckpointEnd
  <2>2. /\ status' = status /\ approvals' = approvals
        /\ exec'.interruptions = exec.interruptions /\ exec'.call = exec.call
        /\ exec'.pc \in { "requesting", "rotating", "candidate", "interrupted" }
    BY <1>1, <1>5 DEF CaptureContext, CheckpointTools, CheckpointEnd, Persist, AckCheckpoint,
       Persisted, ExecutorLocals, mailboxVars
  <2>3. exec'.pc = "interrupted" => checkpoint'.interruptions = exec.interruptions
    <3>1. CASE CheckpointEnd
      <4>1. checkpoint'.interruptions = exec.interruptions
        BY <3>1 DEF CheckpointEnd, Persist
      <4> QED
        BY <4>1
    <3>2. CASE CaptureContext \/ CheckpointTools
      BY <1>1, <3>2 DEF CaptureContext, CheckpointTools, Persisted, ExecutorLocals
    <3> QED
      BY <1>5, <3>1, <3>2
  <2>4. exec.call \notin exec.interruptions /\ (exec.call \in Calls => approvals[exec.call] # "none")
    BY <1>5 DEF CaptureContext, CheckpointTools, CheckpointEnd
  <2> QED
    BY <2>1, <2>2, <2>3, <2>4
<1>6. ASSUME NEW r \in RequestIds, CommitRequest(r) PROVE OpenInv'
  BY <1>1, <1>6 DEF CommitRequest, CommitModelRequest, ExecutorLocals, durable
<1>7. CASE CommitRequestWithoutInput \/ ReplayRequest \/ CallTools \/ AnswerFinally
  <2>1. CASE CommitRequestWithoutInput
    BY <1>1, <2>1 DEF CommitRequestWithoutInput, ExecutorLocals, mailboxVars, durable
  <2>2. CASE ReplayRequest
    BY <1>1, <2>2 DEF ReplayRequest, ExecutorLocals, mailboxVars, durable
  <2>3. CASE CallTools
    BY <1>1, <2>3 DEF CallTools, ExecutorLocals, mailboxVars, durable
  <2>4. CASE AnswerFinally
    BY <1>1, <2>4 DEF AnswerFinally, ExecutorLocals, mailboxVars, durable
  <2> QED
    BY <1>7, <2>1, <2>2, <2>3, <2>4
<1>8. ASSUME NEW asked \in SUBSET Calls, AskApproval(asked) PROVE OpenInv'
  <2>1. exec.call \notin asked
    BY <1>8 DEF AskApproval
  <2> QED
    BY <1>1, <1>8, <2>1 DEF AskApproval, ExecutorLocals, mailboxVars, durable
<1> QED
  BY <1>2, <1>3, <1>4, <1>5, <1>6, <1>7, <1>8

LEMMA EndingKeepsOpen ==
  ASSUME ExecutorTypeOK, EffectsInv, OpenInv,
         \/ SaveApprovals \/ Suspend \/ ReadCandidate \/ Repair
         \/ (\E o \in Outcomes : ClaimOutcome(o)) \/ LoseClaim
         \/ Supersede \/ FinishExecute \/ ConsumeApproval \/ Complete \/ FinishFailed
         \/ Close \/ Refuse
  PROVE  OpenInv'
<1> USE DEF OpenInv, OpenCallHasItsApproval, Executing, Goto
<1>1. exec \in ExecutorLocals /\ approvals \in [Calls -> { "none", "pending", "resolved", "consumed" }]
  BY DEF ExecutorTypeOK
<1>2. CASE SaveApprovals
  <2>1. /\ exec.pc = "interrupted" /\ exec' = [exec EXCEPT !.pc = "suspending"]
        /\ \A c \in exec.interruptions : approvals[c] # "consumed"
        /\ approvals' = [c \in Calls |-> IF c \in exec.interruptions /\ approvals[c] = "none"
                                         THEN "pending" ELSE approvals[c]]
        /\ UNCHANGED << status, checkpoint >>
    BY <1>2 DEF SaveApprovals, mailboxVars
  <2>2. exec.interruptions \subseteq Calls
    BY <1>1 DEF ExecutorLocals
  <2>3. status # "waiting_approval"
    BY <2>1 DEF EffectsInv, Working, Startable
  <2>4. \A c \in exec.interruptions : approvals'[c] \in { "pending", "resolved" }
    BY <1>1, <2>1, <2>2
  <2>5. exec.call \in Calls => approvals'[exec.call] # "none"
    BY <1>1, <2>1
  <2>6. /\ exec'.pc = "suspending" /\ exec'.call = exec.call
        /\ exec'.interruptions = exec.interruptions
    BY <1>1, <2>1 DEF ExecutorLocals
  <2>7. exec.call \notin exec.interruptions /\ checkpoint.interruptions = exec.interruptions
    BY <2>1
  <2> QED
    BY <2>1, <2>3, <2>4, <2>5, <2>6, <2>7
<1>3. CASE Suspend
  BY <1>1, <1>3 DEF Suspend, SaveRunStatus, ExecutorLocals, durable
<1>4. CASE Repair \/ LoseClaim \/ Supersede
  <2>1. /\ exec'.pc \in { "loop", "superseded" } /\ exec.pc # "off"
        /\ exec'.interruptions = exec.interruptions /\ exec'.call = exec.call
        /\ UNCHANGED << status, approvals, checkpoint >>
        /\ Executing' => Executing
    <3>1. CASE Repair
      BY <1>1, <3>1 DEF Repair, ExecutorLocals, mailboxVars, durable
    <3>2. CASE LoseClaim
      BY <1>1, <3>2 DEF LoseClaim, ExecutorLocals, mailboxVars
    <3>3. CASE Supersede
      BY <1>1, <3>3 DEF Supersede, ExecutorLocals, mailboxVars, durable
    <3> QED
      BY <1>4, <3>1, <3>2, <3>3
  <2> QED
    BY <2>1
<1>5. CASE ReadCandidate
  <2>1. /\ exec.pc = "candidate" /\ exec'.pc \in { "deciding", "superseded" }
        /\ exec'.interruptions = exec.interruptions /\ exec'.call = exec.call
        /\ UNCHANGED << status, approvals, checkpoint >>
    BY <1>1, <1>5 DEF ReadCandidate, ExecutorLocals, mailboxVars
  <2> QED
    BY <2>1
<1>6. ASSUME NEW o \in Outcomes, ClaimOutcome(o) PROVE OpenInv'
  BY <1>1, <1>6 DEF ClaimOutcome, TryClaimTerminalInput, ExecutorLocals
<1>7. CASE FinishExecute
  <2>1. status # "waiting_approval"
    BY <1>7 DEF EffectsInv, Working, Startable, FinishExecute
  <2> QED
    BY <1>1, <1>7, <2>1 DEF FinishExecute, SaveRunStatus, ExecutorLocals, mailboxVars, durable
<1>8. CASE ConsumeApproval
  <2>1. /\ exec.pc = "returned" /\ exec' \in { [exec EXCEPT !.pc = "completing"],
                                               [exec EXCEPT !.pc = "closing"] }
        /\ approvals' = [c \in Calls |-> IF c = exec.call THEN "consumed" ELSE approvals[c]]
        /\ UNCHANGED << status, checkpoint >>
    BY <1>8 DEF ConsumeApproval, ConsumedApproval, mailboxVars
  <2>2. checkpoint.interruptions \subseteq Calls
    BY DEF ExecutorTypeOK, SavedCheckpoints
  <2>3. exec'.pc \in { "completing", "closing" } /\ exec'.call = exec.call
    BY <1>1, <2>1 DEF ExecutorLocals
  <2>4. exec.call \in Calls => approvals'[exec.call] # "none"
    BY <2>1
  <2>5. status = "waiting_approval" =>
          \A c \in checkpoint.interruptions : approvals'[c] \in { "pending", "resolved" }
    BY <2>1, <2>2
  <2> QED
    BY <2>1, <2>3, <2>4, <2>5
<1>9. CASE Complete \/ FinishFailed \/ Close \/ Refuse
  <2>1. /\ exec'.pc \in { "closing", "off", "failing" }
        /\ exec'.pc # "off" => exec'.call = exec.call /\ exec.pc # "off"
        /\ status' \in { status, "cancelled", "failed", "completed" }
        /\ UNCHANGED << approvals, checkpoint >>
    <3>1. CASE Complete
      BY <1>1, <3>1 DEF Complete, SaveRunStatus, ExecutorLocals, mailboxVars, durable
    <3>2. CASE FinishFailed
      BY <1>1, <3>2 DEF FinishFailed, SaveRunStatus, ExecutorLocals, mailboxVars, durable
    <3>3. CASE Close
      BY <1>1, <3>3 DEF Close, NoExecutor, ExecutorLocals, mailboxVars, durable
    <3>4. CASE Refuse
      BY <1>1, <3>4 DEF Refuse, Refused, Fail, ExecutorLocals, mailboxVars, durable
    <3> QED
      BY <1>9, <3>1, <3>2, <3>3, <3>4
  <2> QED
    BY <2>1
<1> QED
  BY <1>2, <1>3, <1>4, <1>5, <1>6, <1>7, <1>8, <1>9

LEMMA StepKeepsOpen ==
  ASSUME ExecutorTypeOK, BoundInv, EffectsInv, OpenInv, ExecutorStep
  PROVE  OpenInv'
<1>1. CASE Restart
  <2>1. exec.pc = "off" /\ UNCHANGED << exec, approvals, checkpoint >>
    BY <1>1 DEF Restart, EffectsInv, durable
  <2>2. status' \in { status, "requires_action", "interrupted" }
    BY <1>1 DEF Restart, RecoveryStatus, SaveRunStatus, mailboxVars
  <2> QED
    BY <2>1, <2>2 DEF OpenInv, OpenCallHasItsApproval, Executing
<1>2. CASE UNCHANGED vars
  BY <1>2 DEF vars, OpenInv, OpenCallHasItsApproval, Executing, mailboxVars, durable
<1> QED
  BY <1>1, <1>2, CommandKeepsOpen, OpeningKeepsOpen, SegmentKeepsOpen, EndingKeepsOpen
     DEF ExecutorStep, NextExecutor, Executor

(* A run never waits for a decision whose record is gone: consuming one      *)
(* decision, at any moment and after any crash, keeps every other call its   *)
(* checkpoint is open on.                                                    *)
THEOREM OpenCallsKeepTheirApprovals == SpecExecutor => []OpenCallHasItsApproval
<1>1. OpenInv => OpenCallHasItsApproval
  BY DEF OpenInv
<1> QED
  BY <1>1, InitIsOpen, StepKeepsOpen, BoundAlways, ExecutorTypeCorrect, PTL
     DEF SpecExecutor, ExecutorStep
===============================================================================
