------------------------------ MODULE RunMailbox ------------------------------
(***************************************************************************)
(* The durable input mailbox of one Run: the columns of platform_run_inputs *)
(* and the input columns of platform_runs, with one action per database     *)
(* transaction of                                                           *)
(*   apps/server/src/store/postgres/runInputRepository.ts,                  *)
(*   apps/server/src/store/postgres/modelRequestRepository.ts and           *)
(*   apps/server/src/store/postgres/runCheckpointRepository.ts.             *)
(*                                                                          *)
(* Every transaction runs in the per-run mutation queue with the run row    *)
(* locked FOR UPDATE, so each is one atomic step.  A call whose checks fail *)
(* throws and rolls back, or returns what is already stored: it changes     *)
(* nothing, and is not an action.  Here any caller may issue any            *)
(* transaction at any time, with any arguments: what holds of this module   *)
(* holds whatever the executor above it does.  RunExecutor restricts the    *)
(* callers to the real ones.                                                *)
(***************************************************************************)
EXTENDS Naturals

CONSTANTS
  Inputs,      \* the idempotency keys (steeringId / messageId) callers submit
  LeaseIds,    \* ids makeId('input_lease') can return
  RequestIds,  \* ids makeId('model_request') can return
  None         \* SQL NULL in an id column

ASSUME NoneIsNoId == None \notin LeaseIds \cup RequestIds

VARIABLES
  (* platform_runs *)
  status,                     \* the run's status, written by updateStatus / complete
  nextInputSequence,          \* the sequence the next accepted input gets
  checkpointInputCursor,      \* inputs 1..cursor are inside the saved SDK checkpoint
  activeInputLeaseId,
  activeInputLeaseFrom,
  activeInputLeaseTo,
  terminalObjectiveRevision,  \* 0: no terminal claim; the claim's cursor is revision - 1
  (* platform_run_inputs, one function per column *)
  inputStatus,
  inputSequence,              \* 0 while the input is absent
  inputLeaseId,
  inputRequestId,
  (* platform_model_request_records *)
  requestInputs               \* inputEntryIds of each record; {} for none committed

runColumns == << checkpointInputCursor, activeInputLeaseId, activeInputLeaseFrom,
                 activeInputLeaseTo >>
inputColumns == << inputStatus, inputSequence, inputLeaseId, inputRequestId >>
mailboxVars == << status, nextInputSequence, runColumns, terminalObjectiveRevision,
                  inputColumns, requestInputs >>

RunStatus == { "queued", "running", "waiting_approval", "clarification_needed",
               "interrupted", "requires_action", "completed", "failed", "cancelled" }
DeliveryStatus == { "absent", "queued", "leased", "included", "checkpointed" }

-------------------------------------------------------------------------------
(* Row sets the transactions select. *)

Accepted   == { i \in Inputs : inputStatus[i] # "absent" }
QueuedRows == { i \in Inputs : /\ inputStatus[i] = "queued"
                               /\ inputSequence[i] > checkpointInputCursor }
RowsOfLease(l) == { i \in Inputs : inputLeaseId[i] = l }
ActiveRows == { i \in RowsOfLease(activeInputLeaseId) :
                  inputStatus[i] \in { "leased", "included" } }

(* assertContiguousInputPrefix / assertAckPrefix / assertContiguous: ordered *)
(* by sequence, the rows are first, first + 1, ..., last.                    *)
Contiguous(rows, first, last) ==
  /\ \A i \in rows : inputSequence[i] \in first..last
  /\ \A n \in first..last : \E i \in rows : inputSequence[i] = n
  /\ \A i, j \in rows : inputSequence[i] = inputSequence[j] => i = j

LeaseActive == activeInputLeaseId # None

MoveRows(rows, s) ==
  inputStatus' = [i \in Inputs |-> IF i \in rows THEN s ELSE inputStatus[i]]

KeepLease == UNCHANGED << activeInputLeaseId, activeInputLeaseFrom, activeInputLeaseTo >>

ClearLease ==
  /\ activeInputLeaseId' = None
  /\ activeInputLeaseFrom' = 0
  /\ activeInputLeaseTo' = 0

-------------------------------------------------------------------------------
(* Transactions.  An operator named after a mistake is the mutated form of   *)
(* the definition below it; no specification uses it.                        *)

InitMailbox ==
  /\ status = "queued"
  /\ nextInputSequence = 1
  /\ checkpointInputCursor = 0
  /\ activeInputLeaseId = None
  /\ activeInputLeaseFrom = 0
  /\ activeInputLeaseTo = 0
  /\ terminalObjectiveRevision = 0
  /\ inputStatus = [i \in Inputs |-> "absent"]
  /\ inputSequence = [i \in Inputs |-> 0]
  /\ inputLeaseId = [i \in Inputs |-> None]
  /\ inputRequestId = [i \in Inputs |-> None]
  /\ requestInputs = [r \in RequestIds |-> {}]

(* The early return for an input id already stored is the guard "absent":    *)
(* the stored row is returned, or the call throws when the content differs.  *)
MayEnqueueAfterClaim(i) ==
  /\ inputStatus[i] = "absent"
  /\ status = "running"

MayEnqueue(i) ==
  /\ inputStatus[i] = "absent"
  /\ status = "running"
  /\ terminalObjectiveRevision = 0

EnqueueRunInput(i) ==
  /\ MayEnqueue(i)
  /\ inputStatus' = [inputStatus EXCEPT ![i] = "queued"]
  /\ inputSequence' = [inputSequence EXCEPT ![i] = nextInputSequence]
  /\ nextInputSequence' = nextInputSequence + 1
  /\ UNCHANGED << status, runColumns, terminalObjectiveRevision, inputLeaseId,
                  inputRequestId, requestInputs >>

(* No status and no claim is checked; a lease id already active returns its  *)
(* rows and changes nothing.  The id is fresh: the caller made it for this   *)
(* call (runSteeringController.ts:113).                                      *)
LeaseRunInputs(l) ==
  /\ ~LeaseActive
  /\ RowsOfLease(l) = {}
  /\ QueuedRows # {}
  /\ Contiguous(QueuedRows, checkpointInputCursor + 1, nextInputSequence - 1)
  /\ activeInputLeaseId' = l
  /\ activeInputLeaseFrom' = checkpointInputCursor + 1
  /\ activeInputLeaseTo' = nextInputSequence - 1
  /\ MoveRows(QueuedRows, "leased")
  /\ inputLeaseId' = [i \in Inputs |-> IF i \in QueuedRows THEN l ELSE inputLeaseId[i]]
  /\ UNCHANGED << status, nextInputSequence, checkpointInputCursor,
                  terminalObjectiveRevision, inputSequence, inputRequestId, requestInputs >>

(* Recovery.  An included lease is kept as it is (early return): its exact   *)
(* ModelRequest is replayed instead.                                         *)
MayRequeue ==
  /\ LeaseActive
  /\ activeInputLeaseFrom = checkpointInputCursor + 1
  /\ Contiguous(ActiveRows, activeInputLeaseFrom, activeInputLeaseTo)
  /\ \A i \in ActiveRows : inputStatus[i] = "leased"

RequeueRows ==
  /\ MayRequeue
  /\ MoveRows(ActiveRows, "queued")
  /\ inputLeaseId' = [i \in Inputs |-> IF i \in ActiveRows THEN None ELSE inputLeaseId[i]]
  /\ UNCHANGED << status, nextInputSequence, checkpointInputCursor,
                  terminalObjectiveRevision, inputSequence, inputRequestId, requestInputs >>

RequeueRowsButKeepTheLease == RequeueRows /\ KeepLease
RequeueLeasedRunInputs == RequeueRows /\ ClearLease

(* A request id committed before returns its record and changes nothing; a   *)
(* request made while no lease is active records no input, which leaves the  *)
(* mailbox alone.                                                            *)
MayInclude(r) ==
  /\ status = "running"
  /\ terminalObjectiveRevision = 0
  /\ LeaseActive
  /\ requestInputs[r] = {}
  /\ Contiguous(ActiveRows, activeInputLeaseFrom, activeInputLeaseTo)
  /\ \A i \in ActiveRows : inputStatus[i] = "leased"

CommitModelRequest(r) ==
  /\ MayInclude(r)
  /\ requestInputs' = [requestInputs EXCEPT ![r] = ActiveRows]
  /\ MoveRows(ActiveRows, "included")
  /\ inputRequestId' = [i \in Inputs |-> IF i \in ActiveRows THEN r ELSE inputRequestId[i]]
  /\ UNCHANGED << status, nextInputSequence, runColumns, terminalObjectiveRevision,
                  inputSequence, inputLeaseId >>

(* saveAgentsSdkCheckpoint with a lease id.  Without one it throws while a   *)
(* lease is active and otherwise leaves the mailbox alone.                   *)
AckedPrefix == activeInputLeaseTo

AckCheckpoint(l) ==
  /\ activeInputLeaseId = l
  /\ RowsOfLease(l) # {}
  /\ activeInputLeaseFrom = checkpointInputCursor + 1
  /\ Contiguous(RowsOfLease(l), activeInputLeaseFrom, activeInputLeaseTo)
  /\ \A i \in RowsOfLease(l) : inputStatus[i] = "included"
  /\ MoveRows(RowsOfLease(l), "checkpointed")
  /\ checkpointInputCursor' = AckedPrefix
  /\ ClearLease
  /\ UNCHANGED << status, nextInputSequence, terminalObjectiveRevision, inputSequence,
                  inputLeaseId, inputRequestId, requestInputs >>

(* A claim that loses only appends terminal.candidate_superseded.            *)
MayClaimIgnoringTheCursor(revision) ==
  /\ terminalObjectiveRevision = 0
  /\ status = "running"
  /\ ~LeaseActive
  /\ nextInputSequence = revision

MayClaim(revision) ==
  /\ MayClaimIgnoringTheCursor(revision)
  /\ checkpointInputCursor + 1 = revision

TryClaimTerminalInput(revision) ==
  /\ MayClaim(revision)
  /\ terminalObjectiveRevision' = revision
  /\ UNCHANGED << status, nextInputSequence, runColumns, inputColumns, requestInputs >>

(* saveRunWithCheckpoint: the row takes the status it is given.              *)
SaveRunStatus(s) ==
  /\ status' = s
  /\ UNCHANGED << nextInputSequence, runColumns, terminalObjectiveRevision,
                  inputColumns, requestInputs >>

NextMailbox ==
  \/ \E i \in Inputs : EnqueueRunInput(i)
  \/ \E l \in LeaseIds : LeaseRunInputs(l)
  \/ RequeueLeasedRunInputs
  \/ \E r \in RequestIds : CommitModelRequest(r)
  \/ \E l \in LeaseIds : AckCheckpoint(l)
  \/ \E revision \in 1..nextInputSequence : TryClaimTerminalInput(revision)
  \/ \E s \in RunStatus : SaveRunStatus(s)

SpecMailbox == InitMailbox /\ [][NextMailbox]_mailboxVars
-------------------------------------------------------------------------------
(* Properties. *)

TypeOK ==
  /\ status \in RunStatus
  /\ nextInputSequence \in Nat \ {0}
  /\ checkpointInputCursor \in Nat
  /\ activeInputLeaseId \in LeaseIds \cup {None}
  /\ activeInputLeaseFrom \in Nat
  /\ activeInputLeaseTo \in Nat
  /\ terminalObjectiveRevision \in Nat
  /\ inputStatus \in [Inputs -> DeliveryStatus]
  /\ inputSequence \in [Inputs -> Nat]
  /\ inputLeaseId \in [Inputs -> LeaseIds \cup {None}]
  /\ inputRequestId \in [Inputs -> RequestIds \cup {None}]
  /\ requestInputs \in [RequestIds -> SUBSET Inputs]

(* The accepted inputs are numbered 1..next-1 without gap or repetition, and *)
(* the checkpoint cursor is exactly the line between inputs the saved SDK    *)
(* checkpoint holds and inputs it does not: no crash, requeue or late ack    *)
(* leaves an input below the cursor undelivered or above it acknowledged.    *)
CursorSplitsHistory ==
  /\ checkpointInputCursor < nextInputSequence
  /\ Contiguous(Accepted, 1, nextInputSequence - 1)
  /\ \A i \in Accepted :
       inputStatus[i] = "checkpointed" <=> inputSequence[i] <= checkpointInputCursor

(* The active lease owns exactly the rows of its window, which starts right  *)
(* above the cursor; they are all leased or all included; inputs accepted    *)
(* after the lease stay queued behind it.  Without a lease everything above  *)
(* the cursor is queued, so the next lease can take all of it.               *)
LeaseIsTheWindowAboveTheCursor ==
  /\ LeaseActive =>
       /\ activeInputLeaseFrom = checkpointInputCursor + 1
       /\ activeInputLeaseTo \in activeInputLeaseFrom..(nextInputSequence - 1)
       /\ \E s \in { "leased", "included" } :
            \A i \in Accepted :
              inputSequence[i] \in activeInputLeaseFrom..activeInputLeaseTo =>
                inputStatus[i] = s /\ inputLeaseId[i] = activeInputLeaseId
  /\ \A i \in Accepted :
       inputSequence[i] > (IF LeaseActive THEN activeInputLeaseTo ELSE checkpointInputCursor) =>
         inputStatus[i] = "queued"

(* The columns of a row agree (delivery_state_check in schema.sql), and a    *)
(* row that names a lease still in delivery names the active one.            *)
RowsAreWellFormed ==
  \A i \in Inputs :
    /\ inputStatus[i] = "absent" <=> inputSequence[i] = 0
    /\ inputStatus[i] \in { "absent", "queued" } <=> inputLeaseId[i] = None
    /\ inputStatus[i] \in { "leased", "included" } =>
         inputLeaseId[i] = activeInputLeaseId
    /\ inputStatus[i] = "checkpointed" => inputLeaseId[i] # activeInputLeaseId

(* A terminal claim covers every input the run ever accepted: each is inside *)
(* the saved checkpoint, none is leased, and none is accepted afterwards     *)
(* (plan 9.4: the mailbox and the terminal claim are checked at one          *)
(* serialization point).                                                     *)
ClaimCoversEveryInput ==
  terminalObjectiveRevision # 0 =>
    /\ terminalObjectiveRevision = nextInputSequence
    /\ ~LeaseActive
    /\ \A i \in Accepted : inputStatus[i] = "checkpointed"

(* An input is in the entry list of at most one committed ModelRequest, the  *)
(* one its row names; it is in one exactly when included or checkpointed.    *)
(* Crash recovery never shows the model one input in two requests.           *)
OneRequestPerInput ==
  \A i \in Inputs :
    /\ \A r \in RequestIds : i \in requestInputs[r] <=> inputRequestId[i] = r
    /\ inputStatus[i] \in { "included", "checkpointed" } <=> inputRequestId[i] # None

(* Delivery only moves forward: the one step back is from leased to queued,  *)
(* and an included input keeps its lease and its request until the           *)
(* checkpoint that holds it; an accepted input keeps its sequence.           *)
StepsForward(i) ==
  /\ inputStatus[i] # "absent" => inputSequence'[i] = inputSequence[i]
  /\ inputStatus[i] \in { "included", "checkpointed" } =>
       /\ inputStatus'[i] \in { inputStatus[i], "checkpointed" }
       /\ inputRequestId'[i] = inputRequestId[i]
       /\ inputLeaseId'[i] = inputLeaseId[i]

DeliveryMovesForward == [][\A i \in Inputs : StepsForward(i)]_mailboxVars

-------------------------------------------------------------------------------
(* Refinement: the mailbox implements InputDelivery.  A lease and a requeue  *)
(* are invisible; an input is shown when its batch becomes included.         *)

BatchIncluded == LeaseActive /\ \A i \in ActiveRows : inputStatus[i] = "included"

Delivery == INSTANCE InputDelivery WITH
  position <- inputSequence,
  count    <- nextInputSequence - 1,
  shown    <- IF BatchIncluded THEN activeInputLeaseTo ELSE checkpointInputCursor,
  acked    <- checkpointInputCursor,
  closed   <- terminalObjectiveRevision # 0

(* Every step of the mailbox is a step of InputDelivery or invisible there.  *)
DeliversInOrder == Delivery!SpecDelivery
===============================================================================
