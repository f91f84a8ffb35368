--------------------------- MODULE ToolCallsProofs ---------------------------
(***************************************************************************)
(* Proofs about ToolCalls, for any set of calls, any lanes and approval     *)
(* policy and any number of restarts: a tool acts at most once per call, a  *)
(* resumable run forgets nothing it did, nothing acts unapproved, and the   *)
(* ledger tells what happened.  The theorems at the end are about the gate   *)
(* ToolGate by itself, for any number of calls: an exclusive one is alone,  *)
(* no wake-up is lost, and nobody is overtaken.                             *)
(***************************************************************************)
EXTENDS ToolCalls, FiniteSetTheorems, WellFoundedInduction, TLAPS

(* A task that may still change the ledger or act. *)
Working == { "called", "ready", "queued", "decided", "started", "ran", "catching", "failing",
             "leaving", "refusing", "rejecting" }
NotYetStarted == { "called", "awaits", "ready", "queued", "decided", "refusing" }
Tasks == { c \in Calls : pc[c] \in Working }

(* What is known of one call. *)
LedgerIsConsistent(c) ==
  /\ invocationStatus[c] \in { "absent", "prepared", "running" } <=> terminalOutcome[c] = "none"
  /\ invocationStatus[c] \in Terminal => terminalOutcome[c] = invocationStatus[c]
  /\ invocationStatus[c] = "running" => c \in pendingToolCallIds
  /\ c \in committed => effects[c] = 1 /\ terminalOutcome[c] = "succeeded"

EffectIsRecorded(c) ==
  /\ effects[c] > 0 => c \in pendingToolCallIds \/ c \in checkpoint.done
  /\ invocationStatus[c] \in { "absent", "prepared" } \/ terminalOutcome[c] = "rejected"
       => effects[c] = 0 /\ c \notin pendingToolCallIds
  /\ effects[c] <= 1

TaskMatchesLedger(c) ==
  /\ pc[c] \in NotYetStarted => \/ invocationStatus[c] \in { "absent", "prepared" }
                                \/ terminalOutcome[c] = "rejected"
  /\ pc[c] \notin { "idle", "called", "awaits", "refusing" } => invocationStatus[c] # "absent"
  /\ pc[c] = "started" => invocationStatus[c] = "running" /\ effects[c] = 0 /\ c \notin committed
  /\ pc[c] = "ran" => invocationStatus[c] = "running" /\ effects[c] = 1 /\ c \notin committed

ApprovalComesFirst(c) ==
  c \in Gated =>
    /\ pc[c] \in { "decided", "started", "ran" } \/ effects[c] > 0
         => approvalStatus[c] = "consumed" /\ approvalDecision[c] = "approved"
    /\ pc[c] \in { "refusing", "rejecting" } => approvalDecision[c] = "rejected"

CallIsSound(c) ==
  /\ LedgerIsConsistent(c) /\ EffectIsRecorded(c) /\ TaskMatchesLedger(c)
  /\ ApprovalComesFirst(c)
  /\ approvalStatus[c] \in { "absent", "pending" } => approvalDecision[c] = "none"

(* A call in a checkpoint as open is one that waits for a decision: it acts  *)
(* later, or the pending list knows of it.                                   *)
OpenIsUnstarted(c) ==
  c \in checkpoint.open =>
    /\ c \notin pendingToolCallIds => \/ invocationStatus[c] \in { "absent", "prepared" }
                                      \/ terminalOutcome[c] = "rejected"
    /\ runStatus = "waiting_approval" => c \notin pendingToolCallIds

(* Tasks only work while their response is handled, or after their run has   *)
(* ended; a pending call of a live run is in the RunState in memory.         *)
ExecutorIsSound ==
  /\ Tasks # {} => \/ phase = "tools" /\ Tasks \subseteq sdk.open
                   \/ phase = "stopping" /\ turnEnd \in { "failed", "cancelled" }
                   \/ phase = "off" /\ runStatus \in { "failed", "cancelled" }
  /\ phase \in { "reading", "saving", "model" } => pendingToolCallIds \subseteq sdk.done
  /\ phase = "tools" => pendingToolCallIds \subseteq sdk.done \cup sdk.open
  /\ phase = "stopping" /\ turnEnd \notin { "failed", "cancelled" }
       => pendingToolCallIds \subseteq checkpoint.done
  /\ runStatus = "waiting_approval" => phase = "off" /\ pendingToolCallIds \subseteq checkpoint.done
  /\ runStatus \in { "interrupted", "requires_action" } => phase = "off"
  /\ phase # "off" => checkpoint.done \subseteq sdk.done
  /\ phase \in { "reading", "saving" } => \A c \in sdk.open : pc[c] = "awaits"
  /\ phase = "stopping" /\ turnEnd \notin { "failed", "cancelled" }
       => \A c \in checkpoint.open : pc[c] = "awaits"
  /\ phase \in { "saving", "stopping" } /\ turnEnd \in { "approval", "final" } => outputs = {}
  /\ phase = "stopping" => turnEnd # "request"
  /\ phase = "off" => outputs = {}
  /\ outputs \subseteq sdk.done
  /\ \A c \in outputs : pc[c] = "returned"
  /\ phase = "saving" => \A c \in terminalIds : terminalOutcome[c] # "none"

CallsInductive ==
  /\ CallColumnsOK
  /\ \A c \in Calls : CallIsSound(c) /\ OpenIsUnstarted(c)
  /\ ExecutorIsSound

-------------------------------------------------------------------------------
LEMMA ReadTerminalCallIdsKeeps ==
  ASSUME CallsInductive, ReadTerminalCallIds
  PROVE  CallsInductive'
<1> USE DEF ReadTerminalCallIds, invocation, approval, run, executor, history, Goto
<1>1. CallColumnsOK'
  BY DEF CallsInductive, CallColumnsOK, Terminal, CallPcs
<1>2. ASSUME NEW c \in Calls PROVE LedgerIsConsistent(c)' /\ EffectIsRecorded(c)'
  BY DEF CallsInductive, CallColumnsOK, Terminal, CallIsSound, LedgerIsConsistent,
     EffectIsRecorded, TaskMatchesLedger, ExecutorIsSound, NotYetStarted
<1>3. ASSUME NEW c \in Calls PROVE TaskMatchesLedger(c)'
  BY DEF CallsInductive, CallColumnsOK, Terminal, CallIsSound, LedgerIsConsistent,
     EffectIsRecorded, TaskMatchesLedger, OpenIsUnstarted, ExecutorIsSound, NotYetStarted
<1>4. ASSUME NEW c \in Calls
      PROVE  /\ ApprovalComesFirst(c)'
             /\ (approvalStatus[c] \in { "absent", "pending" } => approvalDecision[c] = "none")'
  BY DEF CallsInductive, CallColumnsOK, CallIsSound, ApprovalComesFirst
<1>5. ASSUME NEW c \in Calls PROVE OpenIsUnstarted(c)'
  BY DEF CallsInductive, CallColumnsOK, Terminal, CallIsSound, LedgerIsConsistent,
     EffectIsRecorded, TaskMatchesLedger, OpenIsUnstarted, ExecutorIsSound, NotYetStarted, Tasks, Working
<1>6. ExecutorIsSound'
  BY DEF CallsInductive, CallColumnsOK, Terminal, CallIsSound, LedgerIsConsistent,
     EffectIsRecorded, TaskMatchesLedger, OpenIsUnstarted, ExecutorIsSound, NotYetStarted, Tasks, Working
<1>7. QED
  BY <1>1, <1>2, <1>3, <1>4, <1>5, <1>6 DEF CallsInductive, CallIsSound

LEMMA SaveAgentsSdkCheckpointKeeps ==
  ASSUME CallsInductive, SaveAgentsSdkCheckpoint
  PROVE  CallsInductive'
<1> USE DEF SaveAgentsSdkCheckpoint, invocation, approval, run, executor, history, Goto, StillPending, UnknownOr
<1>1. CallColumnsOK'
  BY DEF CallsInductive, CallColumnsOK, Terminal, CallPcs
<1>2. ASSUME NEW c \in Calls PROVE LedgerIsConsistent(c)' /\ EffectIsRecorded(c)'
  BY DEF CallsInductive, CallColumnsOK, Terminal, CallIsSound, LedgerIsConsistent,
     EffectIsRecorded, TaskMatchesLedger, ExecutorIsSound, NotYetStarted
<1>3. ASSUME NEW c \in Calls PROVE TaskMatchesLedger(c)'
  BY DEF CallsInductive, CallColumnsOK, Terminal, CallIsSound, LedgerIsConsistent,
     EffectIsRecorded, TaskMatchesLedger, OpenIsUnstarted, ExecutorIsSound, NotYetStarted
<1>4. ASSUME NEW c \in Calls
      PROVE  /\ ApprovalComesFirst(c)'
             /\ (approvalStatus[c] \in { "absent", "pending" } => approvalDecision[c] = "none")'
  BY DEF CallsInductive, CallColumnsOK, CallIsSound, ApprovalComesFirst
<1>5. ASSUME NEW c \in Calls PROVE OpenIsUnstarted(c)'
  BY DEF CallsInductive, CallColumnsOK, Terminal, CallIsSound, LedgerIsConsistent,
     EffectIsRecorded, TaskMatchesLedger, OpenIsUnstarted, ExecutorIsSound, NotYetStarted, Tasks, Working
<1>6. ExecutorIsSound'
  BY DEF CallsInductive, CallColumnsOK, Terminal, CallIsSound, LedgerIsConsistent,
     EffectIsRecorded, TaskMatchesLedger, OpenIsUnstarted, ExecutorIsSound, NotYetStarted, Tasks, Working
<1>7. QED
  BY <1>1, <1>2, <1>3, <1>4, <1>5, <1>6 DEF CallsInductive, CallIsSound

LEMMA ModelRespondsKeeps ==
  ASSUME CallsInductive, NEW asked \in SUBSET Calls, ModelResponds(asked)
  PROVE  CallsInductive'
<1> USE DEF ModelResponds, invocation, approval, run, executor, history, Goto
<1>1. CallColumnsOK'
  BY DEF CallsInductive, CallColumnsOK, Terminal, CallPcs
<1>2. ASSUME NEW c \in Calls PROVE LedgerIsConsistent(c)' /\ EffectIsRecorded(c)'
  BY DEF CallsInductive, CallColumnsOK, Terminal, CallIsSound, LedgerIsConsistent,
     EffectIsRecorded, TaskMatchesLedger, ExecutorIsSound, NotYetStarted
<1>3. ASSUME NEW c \in Calls PROVE TaskMatchesLedger(c)'
  BY DEF CallsInductive, CallColumnsOK, Terminal, CallIsSound, LedgerIsConsistent,
     EffectIsRecorded, TaskMatchesLedger, OpenIsUnstarted, ExecutorIsSound, NotYetStarted
<1>4. ASSUME NEW c \in Calls
      PROVE  /\ ApprovalComesFirst(c)'
             /\ (approvalStatus[c] \in { "absent", "pending" } => approvalDecision[c] = "none")'
  BY DEF CallsInductive, CallColumnsOK, CallIsSound, ApprovalComesFirst
<1>5. ASSUME NEW c \in Calls PROVE OpenIsUnstarted(c)'
  BY DEF CallsInductive, CallColumnsOK, Terminal, CallIsSound, LedgerIsConsistent,
     EffectIsRecorded, TaskMatchesLedger, OpenIsUnstarted, ExecutorIsSound, NotYetStarted, Tasks, Working
<1>6. ExecutorIsSound'
  BY DEF CallsInductive, CallColumnsOK, Terminal, CallIsSound, LedgerIsConsistent,
     EffectIsRecorded, TaskMatchesLedger, OpenIsUnstarted, ExecutorIsSound, NotYetStarted, Tasks, Working
<1>7. QED
  BY <1>1, <1>2, <1>3, <1>4, <1>5, <1>6 DEF CallsInductive, CallIsSound

LEMMA TurnEndsKeeps ==
  ASSUME CallsInductive, TurnEnds
  PROVE  CallsInductive'
<1> USE DEF TurnEnds, invocation, approval, run, executor, history, Goto
<1>1. CallColumnsOK'
  BY DEF CallsInductive, CallColumnsOK, Terminal, CallPcs
<1>2. ASSUME NEW c \in Calls PROVE LedgerIsConsistent(c)' /\ EffectIsRecorded(c)'
  BY DEF CallsInductive, CallColumnsOK, Terminal, CallIsSound, LedgerIsConsistent,
     EffectIsRecorded, TaskMatchesLedger, ExecutorIsSound, NotYetStarted
<1>3. ASSUME NEW c \in Calls PROVE TaskMatchesLedger(c)'
  BY DEF CallsInductive, CallColumnsOK, Terminal, CallIsSound, LedgerIsConsistent,
     EffectIsRecorded, TaskMatchesLedger, OpenIsUnstarted, ExecutorIsSound, NotYetStarted
<1>4. ASSUME NEW c \in Calls
      PROVE  /\ ApprovalComesFirst(c)'
             /\ (approvalStatus[c] \in { "absent", "pending" } => approvalDecision[c] = "none")'
  BY DEF CallsInductive, CallColumnsOK, CallIsSound, ApprovalComesFirst
<1>5. ASSUME NEW c \in Calls PROVE OpenIsUnstarted(c)'
  BY DEF CallsInductive, CallColumnsOK, Terminal, CallIsSound, LedgerIsConsistent,
     EffectIsRecorded, TaskMatchesLedger, OpenIsUnstarted, ExecutorIsSound, NotYetStarted, Tasks, Working
<1>6. ExecutorIsSound'
  BY DEF CallsInductive, CallColumnsOK, Terminal, CallIsSound, LedgerIsConsistent,
     EffectIsRecorded, TaskMatchesLedger, OpenIsUnstarted, ExecutorIsSound, NotYetStarted, Tasks, Working
<1>7. QED
  BY <1>1, <1>2, <1>3, <1>4, <1>5, <1>6 DEF CallsInductive, CallIsSound

LEMMA MarkStartedKeeps ==
  ASSUME CallsInductive, NEW d \in Calls, MarkStarted(d)
  PROVE  CallsInductive'
<1> USE DEF MarkStarted, invocation, approval, run, executor, history, Goto, StartInvocation, ConsumeApproval
<1>1. CallColumnsOK'
  BY DEF CallsInductive, CallColumnsOK, Terminal, CallPcs
<1>2. ASSUME NEW c \in Calls PROVE LedgerIsConsistent(c)' /\ EffectIsRecorded(c)'
  BY DEF CallsInductive, CallColumnsOK, Terminal, CallIsSound, LedgerIsConsistent,
     EffectIsRecorded, TaskMatchesLedger, ExecutorIsSound, NotYetStarted
<1>3. ASSUME NEW c \in Calls PROVE TaskMatchesLedger(c)'
  BY DEF CallsInductive, CallColumnsOK, Terminal, CallIsSound, LedgerIsConsistent,
     EffectIsRecorded, TaskMatchesLedger, OpenIsUnstarted, ExecutorIsSound, NotYetStarted
<1>4. ASSUME NEW c \in Calls
      PROVE  /\ ApprovalComesFirst(c)'
             /\ (approvalStatus[c] \in { "absent", "pending" } => approvalDecision[c] = "none")'
  BY DEF CallsInductive, CallColumnsOK, CallIsSound, ApprovalComesFirst
<1>5. ASSUME NEW c \in Calls PROVE OpenIsUnstarted(c)'
  BY DEF CallsInductive, CallColumnsOK, Terminal, CallIsSound, LedgerIsConsistent,
     EffectIsRecorded, TaskMatchesLedger, OpenIsUnstarted, ExecutorIsSound, NotYetStarted, Tasks, Working
<1>6. ExecutorIsSound'
  BY DEF CallsInductive, CallColumnsOK, Terminal, CallIsSound, LedgerIsConsistent,
     EffectIsRecorded, TaskMatchesLedger, OpenIsUnstarted, ExecutorIsSound, NotYetStarted, Tasks, Working
<1>7. QED
  BY <1>1, <1>2, <1>3, <1>4, <1>5, <1>6 DEF CallsInductive, CallIsSound

LEMMA MarkTerminalKeeps ==
  ASSUME CallsInductive, NEW d \in Calls, MarkTerminal(d)
  PROVE  CallsInductive'
<1> USE DEF MarkTerminal, invocation, approval, run, executor, history, Goto, TerminateInvocation
<1>1. CallColumnsOK'
  BY DEF CallsInductive, CallColumnsOK, Terminal, CallPcs
<1>2. ASSUME NEW c \in Calls PROVE LedgerIsConsistent(c)' /\ EffectIsRecorded(c)'
  BY DEF CallsInductive, CallColumnsOK, Terminal, CallIsSound, LedgerIsConsistent,
     EffectIsRecorded, TaskMatchesLedger, ExecutorIsSound, NotYetStarted
<1>3. ASSUME NEW c \in Calls PROVE TaskMatchesLedger(c)'
  BY DEF CallsInductive, CallColumnsOK, Terminal, CallIsSound, LedgerIsConsistent,
     EffectIsRecorded, TaskMatchesLedger, OpenIsUnstarted, ExecutorIsSound, NotYetStarted
<1>4. ASSUME NEW c \in Calls
      PROVE  /\ ApprovalComesFirst(c)'
             /\ (approvalStatus[c] \in { "absent", "pending" } => approvalDecision[c] = "none")'
  BY DEF CallsInductive, CallColumnsOK, CallIsSound, ApprovalComesFirst
<1>5. ASSUME NEW c \in Calls PROVE OpenIsUnstarted(c)'
  BY DEF CallsInductive, CallColumnsOK, Terminal, CallIsSound, LedgerIsConsistent,
     EffectIsRecorded, TaskMatchesLedger, OpenIsUnstarted, ExecutorIsSound, NotYetStarted, Tasks, Working
<1>6. ExecutorIsSound'
  BY DEF CallsInductive, CallColumnsOK, Terminal, CallIsSound, LedgerIsConsistent,
     EffectIsRecorded, TaskMatchesLedger, OpenIsUnstarted, ExecutorIsSound, NotYetStarted, Tasks, Working
<1>7. QED
  BY <1>1, <1>2, <1>3, <1>4, <1>5, <1>6 DEF CallsInductive, CallIsSound

LEMMA StopRunKeeps ==
  ASSUME CallsInductive, StopRun
  PROVE  CallsInductive'
<1> USE DEF StopRun, invocation, approval, run, executor, history, Goto
<1>1. CallColumnsOK'
  BY DEF CallsInductive, CallColumnsOK, Terminal, CallPcs, ExecutorIsSound
<1>2. ASSUME NEW c \in Calls PROVE LedgerIsConsistent(c)' /\ EffectIsRecorded(c)'
  BY DEF CallsInductive, CallColumnsOK, Terminal, CallIsSound, LedgerIsConsistent,
     EffectIsRecorded, TaskMatchesLedger, ExecutorIsSound, NotYetStarted
<1>3. ASSUME NEW c \in Calls PROVE TaskMatchesLedger(c)'
  BY DEF CallsInductive, CallColumnsOK, Terminal, CallIsSound, LedgerIsConsistent,
     EffectIsRecorded, TaskMatchesLedger, OpenIsUnstarted, ExecutorIsSound, NotYetStarted
<1>4. ASSUME NEW c \in Calls
      PROVE  /\ ApprovalComesFirst(c)'
             /\ (approvalStatus[c] \in { "absent", "pending" } => approvalDecision[c] = "none")'
  BY DEF CallsInductive, CallColumnsOK, CallIsSound, ApprovalComesFirst
<1>5. ASSUME NEW c \in Calls PROVE OpenIsUnstarted(c)'
  BY DEF CallsInductive, CallColumnsOK, Terminal, CallIsSound, LedgerIsConsistent,
     EffectIsRecorded, TaskMatchesLedger, OpenIsUnstarted, ExecutorIsSound, NotYetStarted, Tasks, Working
<1>6. ExecutorIsSound'
  BY DEF CallsInductive, CallColumnsOK, Terminal, CallIsSound, LedgerIsConsistent,
     EffectIsRecorded, TaskMatchesLedger, OpenIsUnstarted, ExecutorIsSound, NotYetStarted, Tasks, Working
<1>7. QED
  BY <1>1, <1>2, <1>3, <1>4, <1>5, <1>6 DEF CallsInductive, CallIsSound

LEMMA CancelKeeps ==
  ASSUME CallsInductive, Cancel
  PROVE  CallsInductive'
<1> USE DEF Cancel, invocation, approval, run, executor, history, Goto
<1>1. CallColumnsOK'
  BY DEF CallsInductive, CallColumnsOK, Terminal, CallPcs
<1>2. ASSUME NEW c \in Calls PROVE LedgerIsConsistent(c)' /\ EffectIsRecorded(c)'
  BY DEF CallsInductive, CallColumnsOK, Terminal, CallIsSound, LedgerIsConsistent,
     EffectIsRecorded, TaskMatchesLedger, ExecutorIsSound, NotYetStarted
<1>3. ASSUME NEW c \in Calls PROVE TaskMatchesLedger(c)'
  BY DEF CallsInductive, CallColumnsOK, Terminal, CallIsSound, LedgerIsConsistent,
     EffectIsRecorded, TaskMatchesLedger, OpenIsUnstarted, ExecutorIsSound, NotYetStarted
<1>4. ASSUME NEW c \in Calls
      PROVE  /\ ApprovalComesFirst(c)'
             /\ (approvalStatus[c] \in { "absent", "pending" } => approvalDecision[c] = "none")'
  BY DEF CallsInductive, CallColumnsOK, CallIsSound, ApprovalComesFirst
<1>5. ASSUME NEW c \in Calls PROVE OpenIsUnstarted(c)'
  BY DEF CallsInductive, CallColumnsOK, Terminal, CallIsSound, LedgerIsConsistent,
     EffectIsRecorded, TaskMatchesLedger, OpenIsUnstarted, ExecutorIsSound, NotYetStarted, Tasks, Working
<1>6. ExecutorIsSound'
  BY DEF CallsInductive, CallColumnsOK, Terminal, CallIsSound, LedgerIsConsistent,
     EffectIsRecorded, TaskMatchesLedger, OpenIsUnstarted, ExecutorIsSound, NotYetStarted, Tasks, Working
<1>7. QED
  BY <1>1, <1>2, <1>3, <1>4, <1>5, <1>6 DEF CallsInductive, CallIsSound

LEMMA SeeAbortKeeps ==
  ASSUME CallsInductive, SeeAbort
  PROVE  CallsInductive'
<1> USE DEF SeeAbort, invocation, approval, run, executor, history, Goto
<1>1. CallColumnsOK'
  BY DEF CallsInductive, CallColumnsOK, Terminal, CallPcs
<1>2. ASSUME NEW c \in Calls PROVE LedgerIsConsistent(c)' /\ EffectIsRecorded(c)'
  BY DEF CallsInductive, CallColumnsOK, Terminal, CallIsSound, LedgerIsConsistent,
     EffectIsRecorded, TaskMatchesLedger, ExecutorIsSound, NotYetStarted
<1>3. ASSUME NEW c \in Calls PROVE TaskMatchesLedger(c)'
  BY DEF CallsInductive, CallColumnsOK, Terminal, CallIsSound, LedgerIsConsistent,
     EffectIsRecorded, TaskMatchesLedger, OpenIsUnstarted, ExecutorIsSound, NotYetStarted
<1>4. ASSUME NEW c \in Calls
      PROVE  /\ ApprovalComesFirst(c)'
             /\ (approvalStatus[c] \in { "absent", "pending" } => approvalDecision[c] = "none")'
  BY DEF CallsInductive, CallColumnsOK, CallIsSound, ApprovalComesFirst
<1>5. ASSUME NEW c \in Calls PROVE OpenIsUnstarted(c)'
  BY DEF CallsInductive, CallColumnsOK, Terminal, CallIsSound, LedgerIsConsistent,
     EffectIsRecorded, TaskMatchesLedger, OpenIsUnstarted, ExecutorIsSound, NotYetStarted, Tasks, Working
<1>6. ExecutorIsSound'
  BY DEF CallsInductive, CallColumnsOK, Terminal, CallIsSound, LedgerIsConsistent,
     EffectIsRecorded, TaskMatchesLedger, OpenIsUnstarted, ExecutorIsSound, NotYetStarted, Tasks, Working
<1>7. QED
  BY <1>1, <1>2, <1>3, <1>4, <1>5, <1>6 DEF CallsInductive, CallIsSound

LEMMA NeedsApprovalKeeps ==
  ASSUME CallsInductive, NEW d \in Calls, NeedsApproval(d)
  PROVE  CallsInductive'
<1> USE DEF NeedsApproval, invocation, approval, run, executor, history, Goto,
            PrepareInvocation, NewApproval, StoredApproval, InheritedApproval, FailRun
<1>1. CallColumnsOK'
  BY DEF CallsInductive, CallColumnsOK, Terminal, CallPcs
<1>2. ASSUME NEW c \in Calls PROVE LedgerIsConsistent(c)' /\ EffectIsRecorded(c)'
  BY DEF CallsInductive, CallColumnsOK, Terminal, CallIsSound, LedgerIsConsistent,
     EffectIsRecorded, TaskMatchesLedger, ExecutorIsSound, NotYetStarted
<1>3. ASSUME NEW c \in Calls PROVE TaskMatchesLedger(c)'
  BY DEF CallsInductive, CallColumnsOK, Terminal, CallIsSound, LedgerIsConsistent,
     EffectIsRecorded, TaskMatchesLedger, OpenIsUnstarted, ExecutorIsSound, NotYetStarted
<1>4. ASSUME NEW c \in Calls
      PROVE  /\ ApprovalComesFirst(c)'
             /\ (approvalStatus[c] \in { "absent", "pending" } => approvalDecision[c] = "none")'
  BY DEF CallsInductive, CallColumnsOK, CallIsSound, ApprovalComesFirst
<1>5. ASSUME NEW c \in Calls PROVE OpenIsUnstarted(c)'
  BY DEF CallsInductive, CallColumnsOK, Terminal, CallIsSound, LedgerIsConsistent,
     EffectIsRecorded, TaskMatchesLedger, OpenIsUnstarted, ExecutorIsSound, NotYetStarted, Tasks, Working
<1>6. ExecutorIsSound'
  BY DEF CallsInductive, CallColumnsOK, Terminal, CallIsSound, LedgerIsConsistent,
     EffectIsRecorded, TaskMatchesLedger, OpenIsUnstarted, ExecutorIsSound, NotYetStarted, Tasks, Working
<1>7. QED
  BY <1>1, <1>2, <1>3, <1>4, <1>5, <1>6 DEF CallsInductive, CallIsSound

LEMMA EnterGateKeeps ==
  ASSUME CallsInductive, NEW d \in Calls, EnterGate(d)
  PROVE  CallsInductive'
<1> USE DEF EnterGate, invocation, approval, run, executor, history, Goto
<1>1. CallColumnsOK'
  BY DEF CallsInductive, CallColumnsOK, Terminal, CallPcs
<1>2. ASSUME NEW c \in Calls PROVE LedgerIsConsistent(c)' /\ EffectIsRecorded(c)'
  BY DEF CallsInductive, CallColumnsOK, Terminal, CallIsSound, LedgerIsConsistent,
     EffectIsRecorded, TaskMatchesLedger, ExecutorIsSound, NotYetStarted
<1>3. ASSUME NEW c \in Calls PROVE TaskMatchesLedger(c)'
  BY DEF CallsInductive, CallColumnsOK, Terminal, CallIsSound, LedgerIsConsistent,
     EffectIsRecorded, TaskMatchesLedger, OpenIsUnstarted, ExecutorIsSound, NotYetStarted
<1>4. ASSUME NEW c \in Calls
      PROVE  /\ ApprovalComesFirst(c)'
             /\ (approvalStatus[c] \in { "absent", "pending" } => approvalDecision[c] = "none")'
  BY DEF CallsInductive, CallColumnsOK, CallIsSound, ApprovalComesFirst
<1>5. ASSUME NEW c \in Calls PROVE OpenIsUnstarted(c)'
  BY DEF CallsInductive, CallColumnsOK, Terminal, CallIsSound, LedgerIsConsistent,
     EffectIsRecorded, TaskMatchesLedger, OpenIsUnstarted, ExecutorIsSound, NotYetStarted, Tasks, Working
<1>6. ExecutorIsSound'
  BY DEF CallsInductive, CallColumnsOK, Terminal, CallIsSound, LedgerIsConsistent,
     EffectIsRecorded, TaskMatchesLedger, OpenIsUnstarted, ExecutorIsSound, NotYetStarted, Tasks, Working
<1>7. QED
  BY <1>1, <1>2, <1>3, <1>4, <1>5, <1>6 DEF CallsInductive, CallIsSound

LEMMA RefusedKeeps ==
  ASSUME CallsInductive, NEW d \in Calls, Refused(d)
  PROVE  CallsInductive'
<1> USE DEF Refused, invocation, approval, run, executor, history, Goto
<1>1. CallColumnsOK'
  BY DEF CallsInductive, CallColumnsOK, Terminal, CallPcs
<1>2. ASSUME NEW c \in Calls PROVE LedgerIsConsistent(c)' /\ EffectIsRecorded(c)'
  BY DEF CallsInductive, CallColumnsOK, Terminal, CallIsSound, LedgerIsConsistent,
     EffectIsRecorded, TaskMatchesLedger, ExecutorIsSound, NotYetStarted
<1>3. ASSUME NEW c \in Calls PROVE TaskMatchesLedger(c)'
  BY DEF CallsInductive, CallColumnsOK, Terminal, CallIsSound, LedgerIsConsistent,
     EffectIsRecorded, TaskMatchesLedger, OpenIsUnstarted, ExecutorIsSound, NotYetStarted
<1>4. ASSUME NEW c \in Calls
      PROVE  /\ ApprovalComesFirst(c)'
             /\ (approvalStatus[c] \in { "absent", "pending" } => approvalDecision[c] = "none")'
  BY DEF CallsInductive, CallColumnsOK, CallIsSound, ApprovalComesFirst
<1>5. ASSUME NEW c \in Calls PROVE OpenIsUnstarted(c)'
  BY DEF CallsInductive, CallColumnsOK, Terminal, CallIsSound, LedgerIsConsistent,
     EffectIsRecorded, TaskMatchesLedger, OpenIsUnstarted, ExecutorIsSound, NotYetStarted, Tasks, Working
<1>6. ExecutorIsSound'
  BY DEF CallsInductive, CallColumnsOK, Terminal, CallIsSound, LedgerIsConsistent,
     EffectIsRecorded, TaskMatchesLedger, OpenIsUnstarted, ExecutorIsSound, NotYetStarted, Tasks, Working
<1>7. QED
  BY <1>1, <1>2, <1>3, <1>4, <1>5, <1>6 DEF CallsInductive, CallIsSound

LEMMA DecideExecutionKeeps ==
  ASSUME CallsInductive, NEW d \in Calls, DecideExecution(d)
  PROVE  CallsInductive'
<1> USE DEF DecideExecution, invocation, approval, run, executor, history, Goto, ConsumeApproval
<1>1. CallColumnsOK'
  BY DEF CallsInductive, CallColumnsOK, Terminal, CallPcs
<1>2. ASSUME NEW c \in Calls PROVE LedgerIsConsistent(c)' /\ EffectIsRecorded(c)'
  BY DEF CallsInductive, CallColumnsOK, Terminal, CallIsSound, LedgerIsConsistent,
     EffectIsRecorded, TaskMatchesLedger, ExecutorIsSound, NotYetStarted
<1>3. ASSUME NEW c \in Calls PROVE TaskMatchesLedger(c)'
  BY DEF CallsInductive, CallColumnsOK, Terminal, CallIsSound, LedgerIsConsistent,
     EffectIsRecorded, TaskMatchesLedger, OpenIsUnstarted, ExecutorIsSound, NotYetStarted
<1>4. ASSUME NEW c \in Calls
      PROVE  /\ ApprovalComesFirst(c)'
             /\ (approvalStatus[c] \in { "absent", "pending" } => approvalDecision[c] = "none")'
  BY DEF CallsInductive, CallColumnsOK, CallIsSound, ApprovalComesFirst
<1>5. ASSUME NEW c \in Calls PROVE OpenIsUnstarted(c)'
  BY DEF CallsInductive, CallColumnsOK, Terminal, CallIsSound, LedgerIsConsistent,
     EffectIsRecorded, TaskMatchesLedger, OpenIsUnstarted, ExecutorIsSound, NotYetStarted, Tasks, Working
<1>6. ExecutorIsSound'
  BY DEF CallsInductive, CallColumnsOK, Terminal, CallIsSound, LedgerIsConsistent,
     EffectIsRecorded, TaskMatchesLedger, OpenIsUnstarted, ExecutorIsSound, NotYetStarted, Tasks, Working
<1>7. QED
  BY <1>1, <1>2, <1>3, <1>4, <1>5, <1>6 DEF CallsInductive, CallIsSound

LEMMA StartCallKeeps ==
  ASSUME CallsInductive, NEW d \in Calls, StartCall(d)
  PROVE  CallsInductive'
<1> USE DEF StartCall, invocation, approval, run, executor, history, Goto, StartInvocation
<1>1. CallColumnsOK'
  BY DEF CallsInductive, CallColumnsOK, Terminal, CallPcs
<1>2. ASSUME NEW c \in Calls PROVE LedgerIsConsistent(c)' /\ EffectIsRecorded(c)'
  BY DEF CallsInductive, CallColumnsOK, Terminal, CallIsSound, LedgerIsConsistent,
     EffectIsRecorded, TaskMatchesLedger, ExecutorIsSound, NotYetStarted
<1>3. ASSUME NEW c \in Calls PROVE TaskMatchesLedger(c)'
  BY DEF CallsInductive, CallColumnsOK, Terminal, CallIsSound, LedgerIsConsistent,
     EffectIsRecorded, TaskMatchesLedger, OpenIsUnstarted, ExecutorIsSound, NotYetStarted
<1>4. ASSUME NEW c \in Calls
      PROVE  /\ ApprovalComesFirst(c)'
             /\ (approvalStatus[c] \in { "absent", "pending" } => approvalDecision[c] = "none")'
  BY DEF CallsInductive, CallColumnsOK, CallIsSound, ApprovalComesFirst
<1>5. ASSUME NEW c \in Calls PROVE OpenIsUnstarted(c)'
  BY DEF CallsInductive, CallColumnsOK, Terminal, CallIsSound, LedgerIsConsistent,
     EffectIsRecorded, TaskMatchesLedger, OpenIsUnstarted, ExecutorIsSound, NotYetStarted, Tasks, Working
<1>6. ExecutorIsSound'
  BY DEF CallsInductive, CallColumnsOK, Terminal, CallIsSound, LedgerIsConsistent,
     EffectIsRecorded, TaskMatchesLedger, OpenIsUnstarted, ExecutorIsSound, NotYetStarted, Tasks, Working
<1>7. QED
  BY <1>1, <1>2, <1>3, <1>4, <1>5, <1>6 DEF CallsInductive, CallIsSound

LEMMA RunToolKeeps ==
  ASSUME CallsInductive, NEW d \in Calls, RunTool(d)
  PROVE  CallsInductive'
<1> USE DEF RunTool, invocation, approval, run, executor, history, Goto
<1>1. CallColumnsOK'
  BY DEF CallsInductive, CallColumnsOK, Terminal, CallPcs
<1>2. ASSUME NEW c \in Calls PROVE LedgerIsConsistent(c)' /\ EffectIsRecorded(c)'
  BY DEF CallsInductive, CallColumnsOK, Terminal, CallIsSound, LedgerIsConsistent,
     EffectIsRecorded, TaskMatchesLedger, ExecutorIsSound, NotYetStarted
<1>3. ASSUME NEW c \in Calls PROVE TaskMatchesLedger(c)'
  BY DEF CallsInductive, CallColumnsOK, Terminal, CallIsSound, LedgerIsConsistent,
     EffectIsRecorded, TaskMatchesLedger, OpenIsUnstarted, ExecutorIsSound, NotYetStarted
<1>4. ASSUME NEW c \in Calls
      PROVE  /\ ApprovalComesFirst(c)'
             /\ (approvalStatus[c] \in { "absent", "pending" } => approvalDecision[c] = "none")'
  BY DEF CallsInductive, CallColumnsOK, CallIsSound, ApprovalComesFirst
<1>5. ASSUME NEW c \in Calls PROVE OpenIsUnstarted(c)'
  BY DEF CallsInductive, CallColumnsOK, Terminal, CallIsSound, LedgerIsConsistent,
     EffectIsRecorded, TaskMatchesLedger, OpenIsUnstarted, ExecutorIsSound, NotYetStarted, Tasks, Working
<1>6. ExecutorIsSound'
  BY DEF CallsInductive, CallColumnsOK, Terminal, CallIsSound, LedgerIsConsistent,
     EffectIsRecorded, TaskMatchesLedger, OpenIsUnstarted, ExecutorIsSound, NotYetStarted, Tasks, Working
<1>7. QED
  BY <1>1, <1>2, <1>3, <1>4, <1>5, <1>6 DEF CallsInductive, CallIsSound

LEMMA CommitEffectKeeps ==
  ASSUME CallsInductive, NEW d \in Calls, CommitEffect(d)
  PROVE  CallsInductive'
<1> USE DEF CommitEffect, invocation, approval, run, executor, history, Goto, UnknownOr, TerminateInvocation
<1>1. CallColumnsOK'
  BY DEF CallsInductive, CallColumnsOK, Terminal, CallPcs
<1>2. ASSUME NEW c \in Calls PROVE LedgerIsConsistent(c)' /\ EffectIsRecorded(c)'
  BY DEF CallsInductive, CallColumnsOK, Terminal, CallIsSound, LedgerIsConsistent,
     EffectIsRecorded, TaskMatchesLedger, ExecutorIsSound, NotYetStarted
<1>3. ASSUME NEW c \in Calls PROVE TaskMatchesLedger(c)'
  BY DEF CallsInductive, CallColumnsOK, Terminal, CallIsSound, LedgerIsConsistent,
     EffectIsRecorded, TaskMatchesLedger, OpenIsUnstarted, ExecutorIsSound, NotYetStarted
<1>4. ASSUME NEW c \in Calls
      PROVE  /\ ApprovalComesFirst(c)'
             /\ (approvalStatus[c] \in { "absent", "pending" } => approvalDecision[c] = "none")'
  BY DEF CallsInductive, CallColumnsOK, CallIsSound, ApprovalComesFirst
<1>5. ASSUME NEW c \in Calls PROVE OpenIsUnstarted(c)'
  BY DEF CallsInductive, CallColumnsOK, Terminal, CallIsSound, LedgerIsConsistent,
     EffectIsRecorded, TaskMatchesLedger, OpenIsUnstarted, ExecutorIsSound, NotYetStarted, Tasks, Working
<1>6. ExecutorIsSound'
  BY DEF CallsInductive, CallColumnsOK, Terminal, CallIsSound, LedgerIsConsistent,
     EffectIsRecorded, TaskMatchesLedger, OpenIsUnstarted, ExecutorIsSound, NotYetStarted, Tasks, Working
<1>7. QED
  BY <1>1, <1>2, <1>3, <1>4, <1>5, <1>6 DEF CallsInductive, CallIsSound

LEMMA ThrowInTryKeeps ==
  ASSUME CallsInductive, NEW d \in Calls, ThrowInTry(d)
  PROVE  CallsInductive'
<1> USE DEF ThrowInTry, invocation, approval, run, executor, history, Goto
<1>1. CallColumnsOK'
  BY DEF CallsInductive, CallColumnsOK, Terminal, CallPcs
<1>2. ASSUME NEW c \in Calls PROVE LedgerIsConsistent(c)' /\ EffectIsRecorded(c)'
  BY DEF CallsInductive, CallColumnsOK, Terminal, CallIsSound, LedgerIsConsistent,
     EffectIsRecorded, TaskMatchesLedger, ExecutorIsSound, NotYetStarted
<1>3. ASSUME NEW c \in Calls PROVE TaskMatchesLedger(c)'
  BY DEF CallsInductive, CallColumnsOK, Terminal, CallIsSound, LedgerIsConsistent,
     EffectIsRecorded, TaskMatchesLedger, OpenIsUnstarted, ExecutorIsSound, NotYetStarted
<1>4. ASSUME NEW c \in Calls
      PROVE  /\ ApprovalComesFirst(c)'
             /\ (approvalStatus[c] \in { "absent", "pending" } => approvalDecision[c] = "none")'
  BY DEF CallsInductive, CallColumnsOK, CallIsSound, ApprovalComesFirst
<1>5. ASSUME NEW c \in Calls PROVE OpenIsUnstarted(c)'
  BY DEF CallsInductive, CallColumnsOK, Terminal, CallIsSound, LedgerIsConsistent,
     EffectIsRecorded, TaskMatchesLedger, OpenIsUnstarted, ExecutorIsSound, NotYetStarted, Tasks, Working
<1>6. ExecutorIsSound'
  BY DEF CallsInductive, CallColumnsOK, Terminal, CallIsSound, LedgerIsConsistent,
     EffectIsRecorded, TaskMatchesLedger, OpenIsUnstarted, ExecutorIsSound, NotYetStarted, Tasks, Working
<1>7. QED
  BY <1>1, <1>2, <1>3, <1>4, <1>5, <1>6 DEF CallsInductive, CallIsSound

LEMMA SettleInCatchKeeps ==
  ASSUME CallsInductive, NEW d \in Calls, SettleInCatch(d)
  PROVE  CallsInductive'
<1> USE DEF SettleInCatch, invocation, approval, run, executor, history, Goto, TerminateInvocation, CatchOutcome
<1>1. CallColumnsOK'
  BY DEF CallsInductive, CallColumnsOK, Terminal, CallPcs
<1>2. ASSUME NEW c \in Calls PROVE LedgerIsConsistent(c)' /\ EffectIsRecorded(c)'
  BY DEF CallsInductive, CallColumnsOK, Terminal, CallIsSound, LedgerIsConsistent,
     EffectIsRecorded, TaskMatchesLedger, ExecutorIsSound, NotYetStarted
<1>3. ASSUME NEW c \in Calls PROVE TaskMatchesLedger(c)'
  BY DEF CallsInductive, CallColumnsOK, Terminal, CallIsSound, LedgerIsConsistent,
     EffectIsRecorded, TaskMatchesLedger, OpenIsUnstarted, ExecutorIsSound, NotYetStarted
<1>4. ASSUME NEW c \in Calls
      PROVE  /\ ApprovalComesFirst(c)'
             /\ (approvalStatus[c] \in { "absent", "pending" } => approvalDecision[c] = "none")'
  BY DEF CallsInductive, CallColumnsOK, CallIsSound, ApprovalComesFirst
<1>5. ASSUME NEW c \in Calls PROVE OpenIsUnstarted(c)'
  BY DEF CallsInductive, CallColumnsOK, Terminal, CallIsSound, LedgerIsConsistent,
     EffectIsRecorded, TaskMatchesLedger, OpenIsUnstarted, ExecutorIsSound, NotYetStarted, Tasks, Working
<1>6. ExecutorIsSound'
  BY DEF CallsInductive, CallColumnsOK, Terminal, CallIsSound, LedgerIsConsistent,
     EffectIsRecorded, TaskMatchesLedger, OpenIsUnstarted, ExecutorIsSound, NotYetStarted, Tasks, Working
<1>7. QED
  BY <1>1, <1>2, <1>3, <1>4, <1>5, <1>6 DEF CallsInductive, CallIsSound

LEMMA SettlementFailsKeeps ==
  ASSUME CallsInductive, NEW d \in Calls, SettlementFails(d)
  PROVE  CallsInductive'
<1> USE DEF SettlementFails, invocation, approval, run, executor, history, Goto
<1>1. CallColumnsOK'
  BY DEF CallsInductive, CallColumnsOK, Terminal, CallPcs
<1>2. ASSUME NEW c \in Calls PROVE LedgerIsConsistent(c)' /\ EffectIsRecorded(c)'
  BY DEF CallsInductive, CallColumnsOK, Terminal, CallIsSound, LedgerIsConsistent,
     EffectIsRecorded, TaskMatchesLedger, ExecutorIsSound, NotYetStarted
<1>3. ASSUME NEW c \in Calls PROVE TaskMatchesLedger(c)'
  BY DEF CallsInductive, CallColumnsOK, Terminal, CallIsSound, LedgerIsConsistent,
     EffectIsRecorded, TaskMatchesLedger, OpenIsUnstarted, ExecutorIsSound, NotYetStarted
<1>4. ASSUME NEW c \in Calls
      PROVE  /\ ApprovalComesFirst(c)'
             /\ (approvalStatus[c] \in { "absent", "pending" } => approvalDecision[c] = "none")'
  BY DEF CallsInductive, CallColumnsOK, CallIsSound, ApprovalComesFirst
<1>5. ASSUME NEW c \in Calls PROVE OpenIsUnstarted(c)'
  BY DEF CallsInductive, CallColumnsOK, Terminal, CallIsSound, LedgerIsConsistent,
     EffectIsRecorded, TaskMatchesLedger, OpenIsUnstarted, ExecutorIsSound, NotYetStarted, Tasks, Working
<1>6. ExecutorIsSound'
  BY DEF CallsInductive, CallColumnsOK, Terminal, CallIsSound, LedgerIsConsistent,
     EffectIsRecorded, TaskMatchesLedger, OpenIsUnstarted, ExecutorIsSound, NotYetStarted, Tasks, Working
<1>7. QED
  BY <1>1, <1>2, <1>3, <1>4, <1>5, <1>6 DEF CallsInductive, CallIsSound

LEMMA LeaveGateKeeps ==
  ASSUME CallsInductive, NEW d \in Calls, LeaveGate(d)
  PROVE  CallsInductive'
<1> USE DEF LeaveGate, invocation, approval, run, executor, history, Goto, FailRun
<1>1. CallColumnsOK'
  BY DEF CallsInductive, CallColumnsOK, Terminal, CallPcs
<1>2. ASSUME NEW c \in Calls PROVE LedgerIsConsistent(c)' /\ EffectIsRecorded(c)'
  BY DEF CallsInductive, CallColumnsOK, Terminal, CallIsSound, LedgerIsConsistent,
     EffectIsRecorded, TaskMatchesLedger, ExecutorIsSound, NotYetStarted
<1>3. ASSUME NEW c \in Calls PROVE TaskMatchesLedger(c)'
  BY DEF CallsInductive, CallColumnsOK, Terminal, CallIsSound, LedgerIsConsistent,
     EffectIsRecorded, TaskMatchesLedger, OpenIsUnstarted, ExecutorIsSound, NotYetStarted
<1>4. ASSUME NEW c \in Calls
      PROVE  /\ ApprovalComesFirst(c)'
             /\ (approvalStatus[c] \in { "absent", "pending" } => approvalDecision[c] = "none")'
  BY DEF CallsInductive, CallColumnsOK, CallIsSound, ApprovalComesFirst
<1>5. ASSUME NEW c \in Calls PROVE OpenIsUnstarted(c)'
  BY DEF CallsInductive, CallColumnsOK, Terminal, CallIsSound, LedgerIsConsistent,
     EffectIsRecorded, TaskMatchesLedger, OpenIsUnstarted, ExecutorIsSound, NotYetStarted, Tasks, Working
<1>6. ExecutorIsSound'
  BY DEF CallsInductive, CallColumnsOK, Terminal, CallIsSound, LedgerIsConsistent,
     EffectIsRecorded, TaskMatchesLedger, OpenIsUnstarted, ExecutorIsSound, NotYetStarted, Tasks, Working
<1>7. QED
  BY <1>1, <1>2, <1>3, <1>4, <1>5, <1>6 DEF CallsInductive, CallIsSound

LEMMA RejectCallKeeps ==
  ASSUME CallsInductive, NEW d \in Calls, RejectCall(d)
  PROVE  CallsInductive'
<1> USE DEF RejectCall, invocation, approval, run, executor, history, Goto, TerminateInvocation
<1>1. CallColumnsOK'
  BY DEF CallsInductive, CallColumnsOK, Terminal, CallPcs
<1>2. ASSUME NEW c \in Calls PROVE LedgerIsConsistent(c)' /\ EffectIsRecorded(c)'
  BY DEF CallsInductive, CallColumnsOK, Terminal, CallIsSound, LedgerIsConsistent,
     EffectIsRecorded, TaskMatchesLedger, ExecutorIsSound, NotYetStarted
<1>3. ASSUME NEW c \in Calls PROVE TaskMatchesLedger(c)'
  BY DEF CallsInductive, CallColumnsOK, Terminal, CallIsSound, LedgerIsConsistent,
     EffectIsRecorded, TaskMatchesLedger, OpenIsUnstarted, ExecutorIsSound, NotYetStarted
<1>4. ASSUME NEW c \in Calls
      PROVE  /\ ApprovalComesFirst(c)'
             /\ (approvalStatus[c] \in { "absent", "pending" } => approvalDecision[c] = "none")'
  BY DEF CallsInductive, CallColumnsOK, CallIsSound, ApprovalComesFirst
<1>5. ASSUME NEW c \in Calls PROVE OpenIsUnstarted(c)'
  BY DEF CallsInductive, CallColumnsOK, Terminal, CallIsSound, LedgerIsConsistent,
     EffectIsRecorded, TaskMatchesLedger, OpenIsUnstarted, ExecutorIsSound, NotYetStarted, Tasks, Working
<1>6. ExecutorIsSound'
  BY DEF CallsInductive, CallColumnsOK, Terminal, CallIsSound, LedgerIsConsistent,
     EffectIsRecorded, TaskMatchesLedger, OpenIsUnstarted, ExecutorIsSound, NotYetStarted, Tasks, Working
<1>7. QED
  BY <1>1, <1>2, <1>3, <1>4, <1>5, <1>6 DEF CallsInductive, CallIsSound

LEMMA ConsumeRejectionKeeps ==
  ASSUME CallsInductive, NEW d \in Calls, ConsumeRejection(d)
  PROVE  CallsInductive'
<1> USE DEF ConsumeRejection, invocation, approval, run, executor, history, Goto
<1>1. CallColumnsOK'
  BY DEF CallsInductive, CallColumnsOK, Terminal, CallPcs
<1>2. ASSUME NEW c \in Calls PROVE LedgerIsConsistent(c)' /\ EffectIsRecorded(c)'
  BY DEF CallsInductive, CallColumnsOK, Terminal, CallIsSound, LedgerIsConsistent,
     EffectIsRecorded, TaskMatchesLedger, ExecutorIsSound, NotYetStarted
<1>3. ASSUME NEW c \in Calls PROVE TaskMatchesLedger(c)'
  BY DEF CallsInductive, CallColumnsOK, Terminal, CallIsSound, LedgerIsConsistent,
     EffectIsRecorded, TaskMatchesLedger, OpenIsUnstarted, ExecutorIsSound, NotYetStarted
<1>4. ASSUME NEW c \in Calls
      PROVE  /\ ApprovalComesFirst(c)'
             /\ (approvalStatus[c] \in { "absent", "pending" } => approvalDecision[c] = "none")'
  BY DEF CallsInductive, CallColumnsOK, CallIsSound, ApprovalComesFirst
<1>5. ASSUME NEW c \in Calls PROVE OpenIsUnstarted(c)'
  BY DEF CallsInductive, CallColumnsOK, Terminal, CallIsSound, LedgerIsConsistent,
     EffectIsRecorded, TaskMatchesLedger, OpenIsUnstarted, ExecutorIsSound, NotYetStarted, Tasks, Working
<1>6. ExecutorIsSound'
  BY DEF CallsInductive, CallColumnsOK, Terminal, CallIsSound, LedgerIsConsistent,
     EffectIsRecorded, TaskMatchesLedger, OpenIsUnstarted, ExecutorIsSound, NotYetStarted, Tasks, Working
<1>7. QED
  BY <1>1, <1>2, <1>3, <1>4, <1>5, <1>6 DEF CallsInductive, CallIsSound

LEMMA ResumeKeeps ==
  ASSUME CallsInductive, Resume
  PROVE  CallsInductive'
<1> USE DEF Resume, invocation, approval, run, executor, history, Goto, Resumable
<1>1. CallColumnsOK'
  BY DEF CallsInductive, CallColumnsOK, Terminal, CallPcs
<1>2. ASSUME NEW c \in Calls PROVE LedgerIsConsistent(c)' /\ EffectIsRecorded(c)'
  BY DEF CallsInductive, CallColumnsOK, Terminal, CallIsSound, LedgerIsConsistent,
     EffectIsRecorded, TaskMatchesLedger, ExecutorIsSound, NotYetStarted
<1>3. ASSUME NEW c \in Calls PROVE TaskMatchesLedger(c)'
  BY DEF CallsInductive, CallColumnsOK, Terminal, CallIsSound, LedgerIsConsistent,
     EffectIsRecorded, TaskMatchesLedger, OpenIsUnstarted, ExecutorIsSound, NotYetStarted
<1>4. ASSUME NEW c \in Calls
      PROVE  /\ ApprovalComesFirst(c)'
             /\ (approvalStatus[c] \in { "absent", "pending" } => approvalDecision[c] = "none")'
  BY DEF CallsInductive, CallColumnsOK, CallIsSound, ApprovalComesFirst
<1>5. ASSUME NEW c \in Calls PROVE OpenIsUnstarted(c)'
  BY DEF CallsInductive, CallColumnsOK, Terminal, CallIsSound, LedgerIsConsistent,
     EffectIsRecorded, TaskMatchesLedger, OpenIsUnstarted, ExecutorIsSound, NotYetStarted, Tasks, Working
<1>6. ExecutorIsSound'
  BY DEF CallsInductive, CallColumnsOK, Terminal, CallIsSound, LedgerIsConsistent,
     EffectIsRecorded, TaskMatchesLedger, OpenIsUnstarted, ExecutorIsSound, NotYetStarted, Tasks, Working
<1>7. QED
  BY <1>1, <1>2, <1>3, <1>4, <1>5, <1>6 DEF CallsInductive, CallIsSound

LEMMA RestartKeeps ==
  ASSUME CallsInductive, Restart
  PROVE  CallsInductive'
<1> USE DEF Restart, invocation, approval, run, executor, history, Goto, UnknownCallsReported, NoCalls
<1>1. CallColumnsOK'
  <2>1. /\ runStatus' \in { "waiting_approval", "completed", "failed", "cancelled",
                            "interrupted", "requires_action" }
        /\ recoveryStatus' \in { "clean", "interrupted", "requires_action" }
    BY DEF CallsInductive, CallColumnsOK
  <2>2. restarts' \in 0..MaxRestarts
    BY MaxRestartsIsNatural DEF CallsInductive, CallColumnsOK
  <2>3. QED
    BY <2>1, <2>2 DEF CallsInductive, CallColumnsOK, Terminal, CallPcs
<1>2. ASSUME NEW c \in Calls PROVE LedgerIsConsistent(c)' /\ EffectIsRecorded(c)'
  BY DEF CallsInductive, CallColumnsOK, Terminal, CallIsSound, LedgerIsConsistent,
     EffectIsRecorded, TaskMatchesLedger, ExecutorIsSound, NotYetStarted
<1>3. ASSUME NEW c \in Calls PROVE TaskMatchesLedger(c)'
  BY DEF CallsInductive, CallColumnsOK, Terminal, CallIsSound, LedgerIsConsistent,
     EffectIsRecorded, TaskMatchesLedger, OpenIsUnstarted, ExecutorIsSound, NotYetStarted
<1>4. ASSUME NEW c \in Calls
      PROVE  /\ ApprovalComesFirst(c)'
             /\ (approvalStatus[c] \in { "absent", "pending" } => approvalDecision[c] = "none")'
  BY DEF CallsInductive, CallColumnsOK, CallIsSound, ApprovalComesFirst
<1>5. ASSUME NEW c \in Calls PROVE OpenIsUnstarted(c)'
  BY DEF CallsInductive, CallColumnsOK, Terminal, CallIsSound, LedgerIsConsistent,
     EffectIsRecorded, TaskMatchesLedger, OpenIsUnstarted, ExecutorIsSound, NotYetStarted, Tasks, Working
<1>6. ExecutorIsSound'
  BY DEF CallsInductive, CallColumnsOK, Terminal, CallIsSound, LedgerIsConsistent,
     EffectIsRecorded, TaskMatchesLedger, OpenIsUnstarted, ExecutorIsSound, NotYetStarted, Tasks, Working
<1>7. QED
  BY <1>1, <1>2, <1>3, <1>4, <1>5, <1>6 DEF CallsInductive, CallIsSound

(* The whole handler of a decision: the calls left open are looked at again. *)
LEMMA DecideKeeps ==
  ASSUME CallsInductive, NEW d \in Calls, NEW decision \in { "approved", "rejected" },
         NEW scope \in { "exact_call", "session" }, Decide(d, decision, scope)
  PROVE  CallsInductive'
<1> USE DEF Decide, invocation, approval, run, executor, history
<1>1. CallColumnsOK'
  BY DEF CallsInductive, CallColumnsOK, Terminal, CallPcs
<1>2. ASSUME NEW c \in Calls PROVE LedgerIsConsistent(c)' /\ EffectIsRecorded(c)'
  BY DEF CallsInductive, CallColumnsOK, CallIsSound, LedgerIsConsistent, EffectIsRecorded
<1>3. ASSUME NEW c \in Calls PROVE TaskMatchesLedger(c)'
  BY DEF CallsInductive, CallColumnsOK, CallIsSound, LedgerIsConsistent, TaskMatchesLedger,
     OpenIsUnstarted, NotYetStarted
<1>4. ASSUME NEW c \in Calls
      PROVE  /\ ApprovalComesFirst(c)'
             /\ (approvalStatus[c] \in { "absent", "pending" } => approvalDecision[c] = "none")'
  BY DEF CallsInductive, CallColumnsOK, CallIsSound, ApprovalComesFirst
<1>5. ASSUME NEW c \in Calls PROVE OpenIsUnstarted(c)'
  BY DEF CallsInductive, CallColumnsOK, CallIsSound, OpenIsUnstarted
<1>6. ExecutorIsSound'
  BY DEF CallsInductive, CallColumnsOK, ExecutorIsSound, Tasks, Working
<1>7. QED
  BY <1>1, <1>2, <1>3, <1>4, <1>5, <1>6 DEF CallsInductive, CallIsSound

-------------------------------------------------------------------------------
LEMMA InitCallsIsSound == InitCalls => CallsInductive
<1> SUFFICES ASSUME InitCalls PROVE CallsInductive
  OBVIOUS
<1> USE DEF InitCalls, NoCalls
<1>1. CallColumnsOK
  <2>1. /\ terminalOutcome \in [Calls -> Terminal \cup { "none" }]
        /\ invocationStatus \in [Calls -> { "absent", "prepared", "running", "checkpointed" } \cup Terminal]
        /\ pc \in [Calls -> CallPcs]
        /\ effects \in [Calls -> Nat]
    BY DEF CallPcs
  <2>2. restarts \in 0..MaxRestarts
    BY MaxRestartsIsNatural
  <2>3. NoCalls \in [saved : BOOLEAN, open : SUBSET Calls, done : SUBSET Calls]
    OBVIOUS
  <2>4. QED
    BY <2>1, <2>2, <2>3 DEF CallColumnsOK
<1>2. ASSUME NEW c \in Calls PROVE CallIsSound(c) /\ OpenIsUnstarted(c)
  BY DEF CallIsSound, LedgerIsConsistent, EffectIsRecorded, TaskMatchesLedger,
     ApprovalComesFirst, OpenIsUnstarted, Terminal, NotYetStarted
<1>3. ExecutorIsSound
  BY DEF ExecutorIsSound, Tasks, Working
<1>4. QED
  BY <1>1, <1>2, <1>3 DEF CallsInductive

LEMMA NextCallsKeeps == CallsInductive /\ [NextCalls]_callVars => CallsInductive'
<1> SUFFICES ASSUME CallsInductive, [NextCalls]_callVars PROVE CallsInductive'
  OBVIOUS
<1>1. CASE ExecutorStep
  BY <1>1, ReadTerminalCallIdsKeeps, SaveAgentsSdkCheckpointKeeps, TurnEndsKeeps, StopRunKeeps,
     SeeAbortKeeps, MarkStartedKeeps, MarkTerminalKeeps DEF ExecutorStep
<1>2. ASSUME NEW asked \in SUBSET Calls, ModelResponds(asked) PROVE CallsInductive'
  BY <1>2, ModelRespondsKeeps
<1>3. ASSUME NEW d \in Calls, CallStep(d) PROVE CallsInductive'
  BY <1>3, NeedsApprovalKeeps, EnterGateKeeps, RefusedKeeps, DecideExecutionKeeps,
     StartCallKeeps, RunToolKeeps, CommitEffectKeeps, ThrowInTryKeeps, SettleInCatchKeeps,
     SettlementFailsKeeps, LeaveGateKeeps, RejectCallKeeps, ConsumeRejectionKeeps DEF CallStep
<1>4. CASE Cancel \/ Resume \/ Restart
  BY <1>4, CancelKeeps, ResumeKeeps, RestartKeeps
<1>5. CASE UNCHANGED callVars
  BY <1>5 DEF callVars, invocation, approval, run, executor, history, CallsInductive,
     CallColumnsOK, CallIsSound, LedgerIsConsistent, EffectIsRecorded, TaskMatchesLedger,
     ApprovalComesFirst, OpenIsUnstarted, ExecutorIsSound, Tasks
<1>6. QED
  BY <1>1, <1>2, <1>3, <1>4, <1>5, DecideKeeps DEF NextCalls

THEOREM CallsStaySound == SpecCalls => []CallsInductive
BY InitCallsIsSound, NextCallsKeeps, PTL DEF SpecCalls

(* A tool acts at most once per call.                                        *)
THEOREM EffectsHappenAtMostOnce == SpecCalls => []EffectAtMostOnce
<1>1. CallsInductive => EffectAtMostOnce
  BY DEF CallsInductive, CallIsSound, EffectIsRecorded, EffectAtMostOnce
<1>2. QED
  BY <1>1, CallsStaySound, PTL

(* What a run can be resumed from holds the result of every call that acted. *)
THEOREM NoEffectIsForgotten == SpecCalls => []ResumeForgetsNoEffect
<1>1. CallsInductive => ResumeForgetsNoEffect
  BY DEF CallsInductive, CallIsSound, EffectIsRecorded, ResumeForgetsNoEffect, Resumable
<1>2. QED
  BY <1>1, CallsStaySound, PTL

(* No gated call acts without an approval that is used up.                   *)
THEOREM ApprovalPrecedesEffect == SpecCalls => []NoEffectWithoutApproval
<1>1. CallsInductive => NoEffectWithoutApproval
  BY GatedAreCalls DEF CallsInductive, CallIsSound, ApprovalComesFirst, NoEffectWithoutApproval
<1>2. QED
  BY <1>1, CallsStaySound, PTL

(* The ledger's outcome agrees with what the tool did.                       *)
THEOREM LedgerIsTruthful == SpecCalls => []LedgerTellsWhatHappened
<1>1. CallsInductive => LedgerTellsWhatHappened
  BY DEF CallsInductive, CallIsSound, LedgerIsConsistent, EffectIsRecorded,
     LedgerTellsWhatHappened
<1>2. QED
  BY <1>1, CallsStaySound, PTL

(* Only the checkpoint with its result takes a call off the pending list,    *)
(* and an outcome stays.                                                     *)
THEOREM PendingOutlivesCrash == SpecCalls => PendingClearedByResult
<1>1. CallsInductive /\ [NextCalls]_callVars =>
        [\A c \in Calls :
           /\ c \in pendingToolCallIds /\ c \notin pendingToolCallIds' => c \in checkpoint'.done
           /\ terminalOutcome[c] # "none" => terminalOutcome'[c] = terminalOutcome[c]]_callVars
  <2> SUFFICES ASSUME CallsInductive, NextCalls, NEW c \in Calls
               PROVE  /\ c \in pendingToolCallIds /\ c \notin pendingToolCallIds'
                           => c \in checkpoint'.done
                      /\ terminalOutcome[c] # "none" => terminalOutcome'[c] = terminalOutcome[c]
    OBVIOUS
  <2> USE DEF invocation, approval, run, executor, history, CallsInductive, CallColumnsOK,
              CallIsSound, LedgerIsConsistent
  <2>1. CASE SaveAgentsSdkCheckpoint
    BY <2>1 DEF SaveAgentsSdkCheckpoint, StillPending, ExecutorIsSound
  <2>2. ASSUME NEW d \in Calls, MarkStarted(d) \/ StartCall(d)
        PROVE  pendingToolCallIds \subseteq pendingToolCallIds' /\ UNCHANGED terminalOutcome
    BY <2>2 DEF MarkStarted, StartCall, StartInvocation
  <2>3. ASSUME NEW d \in Calls, MarkTerminal(d) \/ CommitEffect(d) \/ SettleInCatch(d) \/ RejectCall(d)
        PROVE UNCHANGED pendingToolCallIds /\ (terminalOutcome[c] # "none" => terminalOutcome'[c] = terminalOutcome[c])
    BY <2>3 DEF MarkTerminal, CommitEffect, SettleInCatch, RejectCall, TerminateInvocation
  <2>4. ASSUME NEW d \in Calls,
               \/ NeedsApproval(d) \/ EnterGate(d) \/ Refused(d) \/ DecideExecution(d)
               \/ RunTool(d) \/ ThrowInTry(d) \/ SettlementFails(d) \/ LeaveGate(d)
               \/ ConsumeRejection(d)
        PROVE UNCHANGED << pendingToolCallIds, terminalOutcome >>
    BY <2>4 DEF NeedsApproval, PrepareInvocation, EnterGate, Refused, DecideExecution, RunTool,
       ThrowInTry, SettlementFails, LeaveGate, ConsumeRejection
  <2>5. CASE ReadTerminalCallIds \/ TurnEnds \/ StopRun \/ SeeAbort \/ Cancel \/ Resume \/ Restart
    BY <2>5 DEF ReadTerminalCallIds, TurnEnds, StopRun, SeeAbort, Cancel, Resume, Restart
  <2>6. ASSUME NEW asked \in SUBSET Calls, ModelResponds(asked)
        PROVE UNCHANGED << pendingToolCallIds, terminalOutcome >>
    BY <2>6 DEF ModelResponds
  <2>7. ASSUME NEW d \in Calls, NEW decision \in { "approved", "rejected" },
               NEW scope \in { "exact_call", "session" }, Decide(d, decision, scope)
        PROVE UNCHANGED << pendingToolCallIds, terminalOutcome >>
    BY <2>7 DEF Decide
  <2>8. QED
    BY <2>1, <2>2, <2>3, <2>4, <2>5, <2>6, <2>7 DEF NextCalls, ExecutorStep, CallStep
<1>2. QED
  BY <1>1, CallsStaySound, PTL DEF SpecCalls, PendingClearedByResult

-------------------------------------------------------------------------------
(* The gate of its own, for any calls and any lanes.                         *)

(* What the counters say of the calls inside, and the queue of those that    *)
(* wait, written for any values of the four fields: pump() is called with    *)
(* the fields half updated.                                                  *)
Holders(held) == { c \in Calls : held[c] = "held" }
Counts(shared, exclusive, held) ==
  /\ IsFiniteSet(Holders(held) \ Exclusive) /\ Cardinality(Holders(held) \ Exclusive) = shared
  /\ IF exclusive THEN \E x \in Exclusive : Holders(held) = {x}
                  ELSE Holders(held) \cap Exclusive = {}
Queues(q, held) ==
  /\ \A c \in Calls : held[c] = "waiting" <=> \E i \in DOMAIN q : q[i] = c
  /\ \A i, j \in DOMAIN q : q[i] = q[j] => i = j
Leases == [Calls -> { "none", "waiting", "held" }]

GateIsSound ==
  /\ GateTypeOK
  /\ Counts(activeShared, activeExclusive, lease)
  /\ Queues(waiting, lease)
  /\ waiting # << >> => Inside # {}

-------------------------------------------------------------------------------
LEMMA SharedPrefixStops ==
  ASSUME NEW q \in Seq(Calls)
  PROVE  LET n == SharedPrefix(q)
         IN /\ n \in 0..Len(q)
            /\ \A i \in 1..n : q[i] \notin Exclusive
            /\ n = Len(q) \/ q[n + 1] \in Exclusive
<1> DEFINE P(n) == /\ \A i \in 1..n : q[i] \notin Exclusive
                   /\ n = Len(q) \/ q[n + 1] \in Exclusive
<1>1. \E n \in 0..Len(q) : P(n)
  <2> DEFINE S == { n \in Nat : n < Len(q) /\ q[n + 1] \in Exclusive }
             R == OpToRel(<, Nat)
  <2>1. CASE S = {}
    <3>1. \A i \in 1..Len(q) : q[i] \notin Exclusive
      <4> TAKE i \in 1..Len(q)
      <4>1. i - 1 \in Nat /\ i - 1 < Len(q) /\ (i - 1) + 1 = i
        OBVIOUS
      <4>2. QED
        BY <2>1, <4>1
    <3>2. QED
      BY <3>1
  <2>2. CASE S # {}
    <3>1. IsWellFoundedOn(R, Nat)
      BY NatLessThanWellFounded
    <3>2. S \subseteq Nat
      OBVIOUS
    <3>3. \A x, y \in Nat : x < y => << x, y >> \in R
      <4> TAKE x, y \in Nat
      <4> HAVE x < y
      <4>1. R = { ss \in Nat \X Nat : ss[1] < ss[2] }
        BY Zenon DEF OpToRel
      <4>2. QED
        BY <4>1
    <3> HIDE DEF R
    <3>4. PICK n \in S : \A m \in S : ~(<< m, n >> \in R)
      <4> HIDE DEF S
      <4>1. QED
        BY <2>2, <3>1, <3>2, WFMin
    <3>5. \A i \in 1..n : q[i] \notin Exclusive
      <4> SUFFICES ASSUME NEW i \in 1..n, q[i] \in Exclusive
                   PROVE  FALSE
        OBVIOUS
      <4>1. i - 1 \in Nat /\ i - 1 < n /\ (i - 1) + 1 = i /\ n \in Nat /\ n < Len(q)
        BY <3>4
      <4>2. i - 1 \in S
        BY <4>1
      <4>3. QED
        BY <3>3, <3>4, <4>1, <4>2
    <3>6. n \in 0..Len(q) /\ q[n + 1] \in Exclusive
      BY <3>4
    <3>7. QED
      BY <3>5, <3>6
  <2>3. QED
    BY <2>1, <2>2
<1>2. SharedPrefix(q) = CHOOSE n \in 0..Len(q) : P(n)
  BY DEF SharedPrefix
<1> HIDE DEF P
<1>3. SharedPrefix(q) \in 0..Len(q) /\ P(SharedPrefix(q))
  BY <1>1, <1>2
<1>4. QED
  BY <1>3 DEF P

(* Who pump() lets in: nobody, the exclusive call at the head, or a run of   *)
(* shared calls.                                                             *)
LEMMA WhoIsAdmitted ==
  ASSUME NEW shared \in Nat, NEW exclusive \in BOOLEAN, NEW q \in Seq(Calls)
  PROVE  LET n == Admitted(shared, exclusive, q)
         IN /\ n \in 0..Len(q)
            /\ \/ n = 0 /\ (exclusive \/ q = << >> \/ shared # 0)
               \/ n = 1 /\ q[1] \in Exclusive /\ shared = 0 /\ ~exclusive
               \/ n > 0 /\ ~exclusive /\ \A i \in 1..n : q[i] \notin Exclusive
<1>1. CASE exclusive \/ q = << >>
  BY <1>1 DEF Admitted
<1>2. CASE ~exclusive /\ q # << >> /\ q[1] \in Exclusive
  BY <1>2 DEF Admitted
<1>3. CASE ~exclusive /\ q # << >> /\ q[1] \notin Exclusive
  <2> DEFINE n == SharedPrefix(q)
  <2>1. /\ n \in 0..Len(q) /\ \A i \in 1..n : q[i] \notin Exclusive
        /\ n = Len(q) \/ q[n + 1] \in Exclusive
    BY SharedPrefixStops
  <2>2. Admitted(shared, exclusive, q) = n
    BY <1>3 DEF Admitted
  <2> HIDE DEF n
  <2>3. n # 0
    BY <1>3, <2>1
  <2>4. QED
    BY <1>3, <2>1, <2>2, <2>3
<1>4. QED
  BY <1>1, <1>2, <1>3

LEMMA DistinctAreCounted ==
  ASSUME NEW q \in Seq(Calls), NEW n \in 0..Len(q),
         \A i, j \in DOMAIN q : q[i] = q[j] => i = j
  PROVE  IsFiniteSet({ q[i] : i \in 1..n }) /\ Cardinality({ q[i] : i \in 1..n }) = n
<1> DEFINE f == [i \in 1..n |-> q[i]]
           T == { q[i] : i \in 1..n }
<1>1. IsFiniteSet(1..n) /\ Cardinality(1..n) = n
  BY FS_Interval
<1>2. f \in Surjection(1..n, T)
  BY DEF Surjection
<1>3. f \in Injection(1..n, T)
  BY DEF Injection, IsInjective
<1>4. QED
  BY <1>1, <1>2, <1>3, FS_Surjection

-------------------------------------------------------------------------------
(* pump() keeps the counters and the queue true, and leaves nobody waiting   *)
(* for a wake-up that will not come.  It lets in a prefix of the queue.      *)
LEMMA PumpIsSound ==
  ASSUME NEW shared \in Nat, NEW exclusive \in BOOLEAN, NEW q \in Seq(Calls), NEW held \in Leases,
         Counts(shared, exclusive, held), Queues(q, held), Pump(shared, exclusive, q, held)
  PROVE  /\ GateIsSound'
         /\ \E n \in 0..Len(q) : lease' = [c \in Calls |-> IF \E i \in 1..n : q[i] = c THEN "held" ELSE held[c]]
<1> DEFINE n == Admitted(shared, exclusive, q)
           let == { q[i] : i \in 1..n }
<1>1. /\ n \in 0..Len(q)
      /\ \/ n = 0 /\ (exclusive \/ q = << >> \/ shared # 0)
         \/ n = 1 /\ q[1] \in Exclusive /\ shared = 0 /\ ~exclusive
         \/ n > 0 /\ ~exclusive /\ \A i \in 1..n : q[i] \notin Exclusive
  BY WhoIsAdmitted
<1>2. IsFiniteSet(let) /\ Cardinality(let) = n /\ let \subseteq Calls
  <2>1. \A i, j \in DOMAIN q : q[i] = q[j] => i = j
    BY DEF Queues
  <2> HIDE DEF n
  <2>2. \A i \in 1..n : q[i] \in Calls
    BY <1>1
  <2>3. QED
    BY <1>1, <2>1, <2>2, DistinctAreCounted
<1>3. /\ activeExclusive' = (exclusive \/ \E c \in let : c \in Exclusive)
      /\ activeShared' = IF let \cap Exclusive = {} THEN shared + n ELSE shared
      /\ waiting' = SubSeq(q, n + 1, Len(q))
      /\ lease' = [c \in Calls |-> IF c \in let THEN "held" ELSE held[c]]
  BY DEF Pump
<1>4. \A c : c \in let <=> \E i \in 1..n : q[i] = c
  OBVIOUS
<1>0. n \in Nat
  BY <1>1
<1> HIDE DEF n, let
<1>5. lease' \in Leases
  BY <1>3 DEF Leases
<1>6. Holders(lease') = Holders(held) \cup let
  BY <1>2, <1>3 DEF Holders
<1>7. /\ waiting' \in Seq(Calls) /\ Len(waiting') = Len(q) - n
      /\ \A i \in DOMAIN waiting' : waiting'[i] = q[n + i] /\ n + i \in DOMAIN q
  BY <1>1, <1>3
<1>8. Queues(waiting', lease')
  <2>1. \A i, j \in DOMAIN waiting' : waiting'[i] = waiting'[j] => i = j
    <3> SUFFICES ASSUME NEW i \in DOMAIN waiting', NEW j \in DOMAIN waiting', waiting'[i] = waiting'[j]
                 PROVE  i = j
      OBVIOUS
    <3>1. n + i = n + j
      BY <1>7 DEF Queues
    <3>2. QED
      BY <1>1, <1>7, <3>1
  <2>2. ASSUME NEW c \in Calls, lease'[c] = "waiting"
        PROVE  \E i \in DOMAIN waiting' : waiting'[i] = c
    <3>1. held[c] = "waiting" /\ c \notin let
      BY <1>3, <2>2
    <3>2. PICK k \in DOMAIN q : q[k] = c
      BY <3>1 DEF Queues
    <3>3. k > n /\ k \in 1..Len(q)
      BY <1>1, <1>4, <3>1, <3>2
    <3>4. k - n \in DOMAIN waiting' /\ waiting'[k - n] = q[n + (k - n)] /\ n + (k - n) = k
      BY <1>1, <1>7, <3>3
    <3>5. QED
      BY <3>2, <3>4
  <2>3. ASSUME NEW c \in Calls, NEW i \in DOMAIN waiting', waiting'[i] = c
        PROVE  lease'[c] = "waiting"
    <3>1. n + i \in DOMAIN q /\ q[n + i] = c
      BY <1>7, <2>3
    <3>2. held[c] = "waiting"
      BY <3>1 DEF Queues
    <3>3. c \notin let
      <4> SUFFICES ASSUME NEW k \in 1..n, q[k] = c
                   PROVE  FALSE
        BY <1>4
      <4>1. k \in DOMAIN q /\ k # n + i
        BY <1>1, <1>7
      <4>2. QED
        BY <3>1, <4>1 DEF Queues
    <3>4. QED
      BY <1>3, <3>2, <3>3
  <2>4. QED
    BY <2>1, <2>2, <2>3 DEF Queues
<1>9. let \cap Holders(held) = {}
  <2>1. \A c \in let : held[c] = "waiting"
    <3> TAKE c \in let
    <3>1. PICK i \in 1..n : q[i] = c
      BY <1>4
    <3>2. i \in DOMAIN q /\ c \in Calls
      BY <1>1, <1>2, <3>1
    <3>3. QED
      BY <3>1, <3>2 DEF Queues
  <2>2. QED
    BY <2>1 DEF Holders
<1>14. lease' = [c \in Calls |-> IF \E i \in 1..n : q[i] = c THEN "held" ELSE held[c]]
  BY <1>3, <1>4
<1>15. Inside' = Holders(lease')
  BY DEF Inside, Holders
<1>16. ASSUME activeShared' \in Nat, activeExclusive' \in BOOLEAN,
              Counts(activeShared', activeExclusive', lease'),
              waiting' # << >> => Holders(lease') # {}
       PROVE  GateIsSound'
  BY <1>5, <1>7, <1>8, <1>15, <1>16 DEF GateIsSound, GateTypeOK, Leases, Counts, Holders
<1>10. CASE n = 0
  <2>1. let = {}
    BY <1>4, <1>10
  <2>2. activeExclusive' = exclusive /\ activeShared' = shared /\ Holders(lease') = Holders(held)
    BY <1>3, <1>6, <1>10, <2>1
  <2>3. Counts(activeShared', activeExclusive', lease')
    BY <2>2 DEF Counts
  <2>4. waiting' # << >> => Holders(lease') # {}
    <3>1. CASE exclusive
      BY <2>2, <3>1 DEF Counts
    <3>4. CASE q = << >>
      BY <1>7, <1>10, <3>4
    <3>2. CASE shared # 0
      BY <2>2, <3>2, FS_EmptySet DEF Counts
    <3>3. QED
      BY <1>1, <1>10, <3>1, <3>2, <3>4
  <2>5. QED
    BY <1>1, <1>14, <1>16, <2>2, <2>3, <2>4
<1>11. CASE n = 1 /\ q[1] \in Exclusive /\ shared = 0 /\ ~exclusive
  <2>1. let = { q[1] } /\ q[1] \in Calls
    BY <1>2, <1>4, <1>11
  <2>2. activeExclusive' = TRUE /\ activeShared' = 0
    BY <1>3, <1>11, <2>1
  <2>3. Holders(held) = {}
    BY <1>11, FS_EmptySet DEF Counts
  <2>4. Holders(lease') = { q[1] } /\ Holders(lease') \ Exclusive = {}
    BY <1>6, <1>11, <2>1, <2>3
  <2>5. Counts(activeShared', activeExclusive', lease')
    BY <1>11, <2>2, <2>4, FS_EmptySet DEF Counts
  <2>6. QED
    BY <1>1, <1>14, <1>16, <2>2, <2>4, <2>5
<1>12. CASE n > 0 /\ ~exclusive /\ \A i \in 1..n : q[i] \notin Exclusive
  <2>1. let \cap Exclusive = {}
    BY <1>4, <1>12
  <2>2. activeExclusive' = FALSE /\ activeShared' = shared + n
    BY <1>3, <1>12, <2>1
  <2>3. Holders(lease') \ Exclusive = (Holders(held) \ Exclusive) \cup let
    BY <1>6, <2>1
  <2>4. (Holders(held) \ Exclusive) \cap let = {}
    BY <1>9
  <2>5. IsFiniteSet(Holders(lease') \ Exclusive) /\ Cardinality(Holders(lease') \ Exclusive) = shared + n
    <3>1. IsFiniteSet({}) /\ Cardinality({}) = 0
      BY FS_EmptySet
    <3>2. QED
      <4> DEFINE H == Holders(held) \ Exclusive
      <4>1. IsFiniteSet(H) /\ Cardinality(H) = shared /\ H \cap let = {}
        BY <2>4 DEF Counts
      <4> HIDE DEF H
      <4>2. /\ IsFiniteSet(H \cup let)
            /\ Cardinality(H \cup let) = Cardinality(H) + Cardinality(let) - Cardinality(H \cap let)
        BY <1>2, <4>1, FS_Union
      <4>3. IsFiniteSet(H \cup let) /\ Cardinality(H \cup let) = shared + n
        <5>1. Cardinality(H \cap let) = 0
          BY <3>1, <4>1
        <5>2. QED
          BY <1>0, <1>2, <4>1, <4>2, <5>1
      <4>4. QED
        BY <2>3, <4>3 DEF H
  <2>6. Counts(activeShared', activeExclusive', lease')
    BY <1>6, <1>12, <2>1, <2>2, <2>5 DEF Counts
  <2>7. Holders(lease') # {}
    BY <1>1, <1>4, <1>6, <1>12
  <2>8. QED
    <3>1. activeShared' \in Nat
      BY <1>0, <2>2
    <3>4. activeExclusive' \in BOOLEAN
      BY <2>2
    <3>2. GateIsSound'
      BY <1>16, <2>6, <2>7, <3>1, <3>4
    <3>3. QED
      BY <1>1, <1>14, <3>2
<1>13. QED
  BY <1>1, <1>10, <1>11, <1>12

-------------------------------------------------------------------------------
LEMMA InitIsSound == InitGate => GateIsSound
<1> SUFFICES ASSUME InitGate
             PROVE  GateIsSound
  OBVIOUS
<1>1. Holders(lease) = {} /\ Inside = {}
  BY DEF InitGate, Holders, Inside
<1>2. Counts(activeShared, activeExclusive, lease)
  BY <1>1, FS_EmptySet DEF InitGate, Counts
<1>3. GateTypeOK /\ waiting = << >> /\ \A c \in Calls : lease[c] = "none"
  <2>1. activeExclusive = FALSE /\ activeShared = 0 /\ waiting = << >> /\ lease = [c \in Calls |-> "none"]
    BY DEF InitGate
  <2>2. activeExclusive \in BOOLEAN
    BY <2>1
  <2>3. activeShared \in Nat /\ waiting \in Seq(Calls) /\ lease \in [Calls -> { "none", "waiting", "held" }]
    BY <2>1
  <2>4. QED
    BY <2>1, <2>2, <2>3 DEF GateTypeOK
<1>5. Queues(waiting, lease)
  BY <1>3 DEF Queues
<1>4. QED
  BY <1>2, <1>3, <1>5 DEF GateIsSound

LEMMA AcquireIsSound ==
  ASSUME GateIsSound, NEW c \in Calls, Acquire(c)
  PROVE  GateIsSound'
<1>1. /\ activeShared \in Nat /\ activeExclusive \in BOOLEAN /\ waiting \in Seq(Calls) /\ lease \in Leases
      /\ lease[c] = "none"
  BY DEF GateIsSound, GateTypeOK, Leases, Acquire
<1>2. CASE MayEnterAtOnce(c)
  <2>1. /\ waiting = << >> /\ waiting' = << >> /\ ~activeExclusive /\ (c \in Exclusive => activeShared = 0)
        /\ activeExclusive' = (c \in Exclusive)
        /\ activeShared' = IF c \in Exclusive THEN activeShared ELSE activeShared + 1
        /\ lease' = [lease EXCEPT ![c] = "held"]
    BY <1>2 DEF Acquire, MayEnterAtOnce, CanAcquire
  <2>2. Holders(lease') = Holders(lease) \cup {c} /\ c \notin Holders(lease)
    BY <1>1, <2>1 DEF Holders, Leases
  <2>3. Counts(activeShared', activeExclusive', lease')
    <3>1. CASE c \in Exclusive
      <4>1. Holders(lease) = {}
        BY <2>1, <3>1, FS_EmptySet DEF GateIsSound, Counts
      <4>2. Holders(lease') = {c} /\ Holders(lease') \ Exclusive = {}
        BY <2>2, <3>1, <4>1
      <4>3. QED
        BY <2>1, <3>1, <4>2, FS_EmptySet DEF Counts
    <3>2. CASE c \notin Exclusive
      <4>1. Holders(lease') \ Exclusive = (Holders(lease) \ Exclusive) \cup {c} /\ c \notin Holders(lease) \ Exclusive
        BY <2>2, <3>2
      <4>2. /\ IsFiniteSet(Holders(lease') \ Exclusive)
            /\ Cardinality(Holders(lease') \ Exclusive) = activeShared + 1
        BY <4>1, FS_AddElement DEF GateIsSound, Counts
      <4>3. QED
        BY <2>1, <2>2, <3>2, <4>2 DEF Counts, GateIsSound
    <3>3. QED
      BY <3>1, <3>2
  <2>4. Queues(waiting', lease')
    BY <1>1, <2>1 DEF GateIsSound, Queues, Leases
  <2>5. GateTypeOK'
    BY <1>1, <2>1 DEF GateTypeOK, Leases
  <2>6. QED
    BY <2>1, <2>3, <2>4, <2>5 DEF GateIsSound
<1>3. CASE ~MayEnterAtOnce(c)
  <2> DEFINE q == Append(waiting, c)
             held == [lease EXCEPT ![c] = "waiting"]
  <2>1. /\ q \in Seq(Calls) /\ held \in Leases /\ Len(q) = Len(waiting) + 1 /\ q[Len(q)] = c
        /\ \A i \in DOMAIN waiting : q[i] = waiting[i] /\ waiting[i] \in Calls
        /\ \A d \in Calls : held[d] = IF d = c THEN "waiting" ELSE lease[d]
    BY <1>1 DEF Leases
  <2>2. Pump(activeShared, activeExclusive, q, held)
    BY <1>3 DEF Acquire
  <2> HIDE DEF q, held
  <2>3. Holders(held) = Holders(lease)
    BY <1>1, <2>1 DEF Holders, Leases
  <2>4. Counts(activeShared, activeExclusive, held)
    BY <2>3 DEF Counts, GateIsSound
  <2>5. \A i \in DOMAIN waiting : waiting[i] # c
    BY <1>1 DEF GateIsSound, Queues
  <2>6. Queues(q, held)
    <3>1. DOMAIN q = DOMAIN waiting \cup { Len(q) } /\ Len(q) \notin DOMAIN waiting
      BY <1>1, <2>1
    <3>2. \A i, j \in DOMAIN q : q[i] = q[j] => i = j
      BY <2>1, <2>5, <3>1 DEF GateIsSound, Queues
    <3>3. \A d \in Calls : held[d] = "waiting" <=> \E i \in DOMAIN q : q[i] = d
      <4> TAKE d \in Calls
      <4>1. lease[d] = "waiting" <=> \E i \in DOMAIN waiting : waiting[i] = d
        BY DEF GateIsSound, Queues
      <4>2. CASE d = c
        BY <2>1, <3>1, <4>2
      <4>3. CASE d # c
        BY <2>1, <3>1, <4>1, <4>3
      <4>4. QED
        BY <4>2, <4>3
    <3>4. QED
      BY <3>2, <3>3 DEF Queues
  <2>7. QED
    BY <1>1, <2>1, <2>2, <2>4, <2>6, PumpIsSound
<1>4. QED
  BY <1>2, <1>3

LEMMA ReleaseIsSound ==
  ASSUME GateIsSound, NEW c \in Calls, Release(c)
  PROVE  GateIsSound'
<1> DEFINE held == [lease EXCEPT ![c] = "none"]
<1>1. /\ activeShared \in Nat /\ activeExclusive \in BOOLEAN /\ waiting \in Seq(Calls)
      /\ lease \in Leases /\ held \in Leases /\ lease[c] = "held"
  BY DEF GateIsSound, GateTypeOK, Leases, Release
<1>2. /\ c \in Exclusive => Pump(activeShared, FALSE, waiting, held)
      /\ c \notin Exclusive => Pump(activeShared - 1, activeExclusive, waiting, held)
  BY DEF Release
<1>3. \A d \in Calls : held[d] = IF d = c THEN "none" ELSE lease[d]
  BY <1>1 DEF Leases
<1> HIDE DEF held
<1>4. Holders(held) = Holders(lease) \ {c} /\ c \in Holders(lease)
  BY <1>1, <1>3 DEF Holders
<1>5. Queues(waiting, held)
  <2>1. \A d \in Calls : held[d] = "waiting" <=> lease[d] = "waiting"
    BY <1>1, <1>3
  <2>2. QED
    BY <2>1 DEF GateIsSound, Queues
<1>6. CASE c \in Exclusive
  <2>1. activeExclusive /\ Holders(lease) = {c}
    BY <1>4, <1>6 DEF GateIsSound, Counts
  <2>2. Holders(held) = {} /\ Holders(held) \ Exclusive = Holders(lease) \ Exclusive
    BY <1>4, <1>6, <2>1
  <2>3. Counts(activeShared, FALSE, held)
    BY <2>2 DEF GateIsSound, Counts
  <2>4. QED
    BY <1>1, <1>2, <1>5, <1>6, <2>3, PumpIsSound
<1>7. CASE c \notin Exclusive
  <2>1. ~activeExclusive
    BY <1>4, <1>7 DEF GateIsSound, Counts
  <2>2. Holders(held) \ Exclusive = (Holders(lease) \ Exclusive) \ {c} /\ c \in Holders(lease) \ Exclusive
    BY <1>4, <1>7
  <2>3. /\ IsFiniteSet(Holders(held) \ Exclusive)
        /\ Cardinality(Holders(held) \ Exclusive) = activeShared - 1
    BY <2>2, FS_RemoveElement DEF GateIsSound, Counts
  <2>4. activeShared - 1 \in Nat
    BY <1>1, <2>3, FS_CardinalityType
  <2>5. Counts(activeShared - 1, activeExclusive, held)
    BY <1>4, <2>1, <2>3 DEF GateIsSound, Counts
  <2>6. QED
    BY <1>1, <1>2, <1>5, <1>7, <2>4, <2>5, PumpIsSound
<1>8. QED
  BY <1>6, <1>7

LEMMA GateStaysSound ==
  ASSUME GateIsSound, [NextGate]_gate
  PROVE  GateIsSound'
<1>1. CASE NextGate
  BY <1>1, AcquireIsSound, ReleaseIsSound DEF NextGate
<1>2. CASE UNCHANGED gate
  BY <1>2 DEF gate, GateIsSound, GateTypeOK, Counts, Holders, Queues, Inside
<1>3. QED
  BY <1>1, <1>2

(* The counters and the queue of the gate agree with the leases, for any     *)
(* number of calls: acquire, release and pump of ToolExecutionGate.ts.       *)
THEOREM GateIsAlwaysSound == SpecGate => []GateIsSound
<1>1. InitGate => GateIsSound
  BY InitIsSound
<1>2. GateIsSound /\ [NextGate]_gate => GateIsSound'
  BY GateStaysSound
<1>3. QED
  BY <1>1, <1>2, PTL DEF SpecGate

(* A tool that writes runs alone.                                            *)
THEOREM WritersAreAlone == SpecGate => []ExclusiveIsAlone
<1>1. GateIsSound => ExclusiveIsAlone
  BY DEF GateIsSound, Counts, ExclusiveIsAlone, Inside, Holders
<1>2. QED
  BY <1>1, GateIsAlwaysSound, PTL

(* While a call waits, another one is inside and will pump when it leaves.   *)
THEOREM NoWakeUpIsLost == SpecGate => []GateIsNotStuck
<1>1. GateIsSound => GateIsNotStuck
  BY DEF GateIsSound, Queues, GateIsNotStuck
<1>2. QED
  BY <1>1, GateIsAlwaysSound, PTL

-------------------------------------------------------------------------------
Overtakes(i, c) ==
  /\ lease[c] # "held" /\ lease'[c] = "held"
  /\ \A j \in 1..i : waiting[j] # c
  /\ lease'[waiting[i]] = "waiting"

LEMMA PumpTakesTheHead ==
  ASSUME GateIsSound, NEW q \in Seq(Calls), NEW held, NEW n \in 0..Len(q),
         Len(q) >= Len(waiting), \A i \in DOMAIN waiting : q[i] = waiting[i],
         \A c \in Calls : held[c] = "held" => lease[c] = "held",
         lease' = [c \in Calls |-> IF \E i \in 1..n : q[i] = c THEN "held" ELSE held[c]],
         NEW i \in DOMAIN waiting, NEW c \in Calls
  PROVE  ~Overtakes(i, c)
<1> SUFFICES ASSUME Overtakes(i, c)
             PROVE  FALSE
  OBVIOUS
<1>1. waiting \in Seq(Calls) /\ i \in 1..Len(waiting) /\ waiting[i] \in Calls
  BY DEF GateIsSound, GateTypeOK
<1>2. PICK k \in 1..n : q[k] = c
  BY DEF Overtakes
<1>3. CASE k <= i
  <2>1. k \in DOMAIN waiting /\ k \in 1..i
    BY <1>1, <1>2, <1>3
  <2>2. QED
    BY <1>2, <2>1 DEF Overtakes
<1>4. CASE k > i
  <2>1. i \in 1..n
    BY <1>1, <1>2, <1>4
  <2>2. lease'[waiting[i]] = "held"
    BY <1>1, <2>1
  <2>3. QED
    BY <2>2 DEF Overtakes
<1>5. QED
  BY <1>1, <1>2, <1>3, <1>4

LEMMA NobodyOvertakes ==
  ASSUME GateIsSound, NextGate, NEW i \in DOMAIN waiting, NEW d \in Calls
  PROVE  ~Overtakes(i, d)
<1>0. /\ activeShared \in Nat /\ activeExclusive \in BOOLEAN /\ waiting \in Seq(Calls) /\ lease \in Leases
      /\ i \in 1..Len(waiting)
  BY DEF GateIsSound, GateTypeOK, Leases
<1>1. ASSUME NEW c \in Calls, Acquire(c)
      PROVE  ~Overtakes(i, d)
  <2> DEFINE q == Append(waiting, c)
             held == [lease EXCEPT ![c] = "waiting"]
             n == Admitted(activeShared, activeExclusive, q)
  <2>1. waiting # << >>
    BY <1>0
  <2>2. Pump(activeShared, activeExclusive, q, held)
    BY <1>1, <2>1 DEF Acquire, MayEnterAtOnce
  <2>3. /\ q \in Seq(Calls) /\ Len(q) >= Len(waiting) /\ \A j \in DOMAIN waiting : q[j] = waiting[j]
        /\ \A e \in Calls : held[e] = "held" => lease[e] = "held"
    BY <1>0 DEF Leases
  <2>4. n \in 0..Len(q)
    BY <1>0, <2>3, WhoIsAdmitted
  <2>5. lease' = [e \in Calls |-> IF \E j \in 1..n : q[j] = e THEN "held" ELSE held[e]]
    <3>1. lease' = [e \in Calls |-> IF e \in { q[j] : j \in 1..n } THEN "held" ELSE held[e]]
      BY <2>2 DEF Pump
    <3> HIDE DEF n, q, held
    <3>2. QED
      BY <3>1
  <2> HIDE DEF n, q, held
  <2>6. QED
    BY <2>3, <2>4, <2>5, PumpTakesTheHead
<1>2. ASSUME NEW c \in Calls, Release(c)
      PROVE  ~Overtakes(i, d)
  <2> DEFINE held == [lease EXCEPT ![c] = "none"]
             shared == IF c \in Exclusive THEN activeShared ELSE activeShared - 1
             exclusive == IF c \in Exclusive THEN FALSE ELSE activeExclusive
             n == Admitted(shared, exclusive, waiting)
  <2>1. Pump(shared, exclusive, waiting, held)
    BY <1>2 DEF Release
  <2>2. shared \in Nat /\ exclusive \in BOOLEAN
    <3>1. CASE c \in Exclusive
      BY <1>0, <3>1
    <3>2. CASE c \notin Exclusive
      <4>1. c \in Holders(lease) \ Exclusive
        BY <1>2, <3>2 DEF Release, Holders
      <4>2. IsFiniteSet(Holders(lease) \ Exclusive) /\ Cardinality(Holders(lease) \ Exclusive) = activeShared
        BY DEF GateIsSound, Counts
      <4>3. activeShared # 0
        BY <4>1, <4>2, FS_EmptySet
      <4>4. QED
        BY <1>0, <3>2, <4>3
    <3>3. QED
      BY <3>1, <3>2
  <2>3. \A e \in Calls : held[e] = "held" => lease[e] = "held"
    BY <1>0 DEF Leases
  <2> HIDE DEF shared, exclusive
  <2>4. n \in 0..Len(waiting)
    BY <1>0, <2>2, WhoIsAdmitted
  <2>5. lease' = [e \in Calls |-> IF \E j \in 1..n : waiting[j] = e THEN "held" ELSE held[e]]
    <3>1. lease' = [e \in Calls |-> IF e \in { waiting[j] : j \in 1..n } THEN "held" ELSE held[e]]
      BY <2>1 DEF Pump
    <3> HIDE DEF n, held
    <3>2. QED
      BY <3>1
  <2> HIDE DEF n, held
  <2>6. Len(waiting) >= Len(waiting)
    BY <1>0
  <2>7. QED
    BY <1>0, <2>3, <2>4, <2>5, <2>6, PumpTakesTheHead
<1>3. QED
  BY <1>1, <1>2 DEF NextGate

(* Whoever gets in leaves nobody behind who waited before it, so neither     *)
(* lane starves the other.                                                   *)
THEOREM TheGateIsFair == SpecGate => NoOvertaking
<1>1. GateIsSound /\ [NextGate]_gate
        => [\A i \in DOMAIN waiting, c \in Calls :
              lease[c] # "held" /\ lease'[c] = "held"
                => \/ \E j \in 1..i : waiting[j] = c
                   \/ lease'[waiting[i]] # "waiting"]_gate
  BY NobodyOvertakes DEF Overtakes
<1>2. QED
  BY <1>1, GateIsAlwaysSound, PTL DEF SpecGate, NoOvertaking
===============================================================================
