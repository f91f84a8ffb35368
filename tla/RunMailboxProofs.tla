--------------------------- MODULE RunMailboxProofs ---------------------------
(***************************************************************************)
(* Theorems about the durable input mailbox, for any number of inputs,      *)
(* leases and requests.  The invariants are inductive together: the lease   *)
(* window argument needs the cursor argument and the row columns, and the   *)
(* terminal claim needs all of them.                                        *)
(***************************************************************************)
EXTENDS RunMailbox, TLAPS

MailboxInv ==
  /\ TypeOK
  /\ CursorSplitsHistory
  /\ LeaseIsTheWindowAboveTheCursor
  /\ ClaimCoversEveryInput
  /\ OneRequestPerInput
  /\ RowsAreWellFormed

MailboxStep == [NextMailbox]_mailboxVars

-------------------------------------------------------------------------------
(* The columns stay in their types: cursors and sequences are naturals and   *)
(* the next sequence is never 0, whatever transactions run in what order.    *)
THEOREM TypeCorrect == SpecMailbox => []TypeOK
<1>1. InitMailbox => TypeOK
  BY DEF InitMailbox, TypeOK, RunStatus, DeliveryStatus
<1>2. TypeOK /\ MailboxStep => TypeOK'
  <2> SUFFICES ASSUME TypeOK, MailboxStep PROVE TypeOK'
    OBVIOUS
  <2> USE DEF TypeOK, DeliveryStatus
  <2>1. ASSUME NEW i \in Inputs, EnqueueRunInput(i) PROVE TypeOK'
    BY <2>1 DEF EnqueueRunInput, runColumns
  <2>2. ASSUME NEW l \in LeaseIds, LeaseRunInputs(l) PROVE TypeOK'
    BY <2>2 DEF LeaseRunInputs, MoveRows
  <2>3. CASE RequeueLeasedRunInputs
    BY <2>3 DEF RequeueLeasedRunInputs, RequeueRows, ClearLease, MoveRows
  <2>4. ASSUME NEW r \in RequestIds, CommitModelRequest(r) PROVE TypeOK'
    BY <2>4 DEF CommitModelRequest, MoveRows, runColumns, ActiveRows, RowsOfLease
  <2>5. ASSUME NEW l \in LeaseIds, AckCheckpoint(l) PROVE TypeOK'
    BY <2>5 DEF AckCheckpoint, MoveRows, ClearLease, AckedPrefix
  <2>6. ASSUME NEW v \in 1..nextInputSequence, TryClaimTerminalInput(v) PROVE TypeOK'
    BY <2>6 DEF TryClaimTerminalInput, runColumns, inputColumns
  <2>7. ASSUME NEW s \in RunStatus, SaveRunStatus(s) PROVE TypeOK'
    BY <2>7 DEF SaveRunStatus, runColumns, inputColumns
  <2>8. CASE UNCHANGED mailboxVars
    BY <2>8 DEF mailboxVars, runColumns, inputColumns
  <2> QED
    BY <2>1, <2>2, <2>3, <2>4, <2>5, <2>6, <2>7, <2>8 DEF MailboxStep, NextMailbox
<1> QED
  BY <1>1, <1>2, PTL DEF SpecMailbox, MailboxStep

-------------------------------------------------------------------------------
(* The rows the lease id selects are exactly the accepted inputs of the      *)
(* window, and they are all leased or all included.                          *)
LEMMA LeaseRows ==
  ASSUME MailboxInv, LeaseActive
  PROVE  /\ RowsOfLease(activeInputLeaseId) = ActiveRows
         /\ ActiveRows = { i \in Accepted : inputSequence[i] \in
                                          activeInputLeaseFrom..activeInputLeaseTo }
         /\ ActiveRows # {}
<1> USE DEF MailboxInv, TypeOK, LeaseActive, RowsOfLease, ActiveRows, Accepted
<1>1. ASSUME NEW i \in RowsOfLease(activeInputLeaseId)
      PROVE  /\ inputStatus[i] \in { "leased", "included" }
             /\ inputSequence[i] \in activeInputLeaseFrom..activeInputLeaseTo
  BY <1>1 DEF RowsAreWellFormed, DeliveryStatus, CursorSplitsHistory,
              LeaseIsTheWindowAboveTheCursor
<1>2. ASSUME NEW i \in Accepted,
             inputSequence[i] \in activeInputLeaseFrom..activeInputLeaseTo
      PROVE  i \in ActiveRows
  BY <1>2 DEF LeaseIsTheWindowAboveTheCursor
<1>3. \E i \in Accepted : inputSequence[i] = activeInputLeaseTo
  BY DEF LeaseIsTheWindowAboveTheCursor, CursorSplitsHistory, Contiguous
<1> QED
  BY <1>1, <1>2, <1>3 DEF LeaseIsTheWindowAboveTheCursor

(* With no lease, the queued rows above the cursor are all that is above it. *)
LEMMA QueuedTail ==
  ASSUME MailboxInv, ~LeaseActive
  PROVE  QueuedRows = { i \in Accepted : inputSequence[i] > checkpointInputCursor }
BY DEF MailboxInv, TypeOK, QueuedRows, Accepted, LeaseIsTheWindowAboveTheCursor, LeaseActive

LEMMA EnqueueKeepsInv ==
  ASSUME MailboxInv, NEW i \in Inputs, EnqueueRunInput(i)
  PROVE  MailboxInv'
<1> USE DEF MailboxInv, EnqueueRunInput, MayEnqueue, runColumns, TypeOK
<1>1. TypeOK'
  BY DEF DeliveryStatus
<1>2. inputStatus[i] = "absent" /\ inputLeaseId[i] = None /\ inputSequence[i] = 0
  BY DEF RowsAreWellFormed
<1>3. Accepted' = Accepted \cup {i}
  BY DEF Accepted
<1>4. CursorSplitsHistory'
  <2>1. Contiguous(Accepted, 1, nextInputSequence - 1)'
    BY <1>3 DEF CursorSplitsHistory, Contiguous, Accepted
  <2> QED
    BY <2>1, <1>3 DEF CursorSplitsHistory, Accepted
<1>5. LeaseIsTheWindowAboveTheCursor'
  BY <1>3 DEF LeaseIsTheWindowAboveTheCursor, LeaseActive, Accepted, CursorSplitsHistory
<1>6. ClaimCoversEveryInput'
  BY DEF ClaimCoversEveryInput
<1>7. OneRequestPerInput'
  BY DEF OneRequestPerInput
<1>8. RowsAreWellFormed'
  BY <1>2 DEF RowsAreWellFormed
<1> QED
  BY <1>1, <1>4, <1>5, <1>6, <1>7, <1>8

LEMMA LeaseKeepsInv ==
  ASSUME MailboxInv, NEW l \in LeaseIds, LeaseRunInputs(l)
  PROVE  MailboxInv'
<1> USE DEF MailboxInv, LeaseRunInputs, MoveRows, TypeOK
<1>1. TypeOK'
  BY DEF DeliveryStatus
<1>2. /\ QueuedRows = { i \in Accepted : inputSequence[i] > checkpointInputCursor }
      /\ Accepted' = Accepted
      /\ checkpointInputCursor + 1 <= nextInputSequence - 1
      /\ l # None
  <2>1. QueuedRows = { i \in Accepted : inputSequence[i] > checkpointInputCursor }
    BY QueuedTail
  <2>2. Accepted' = Accepted
    BY <2>1 DEF Accepted
  <2>3. checkpointInputCursor + 1 <= nextInputSequence - 1
    BY DEF Contiguous, QueuedRows
  <2> QED
    BY <2>1, <2>2, <2>3, NoneIsNoId
<1>4. CursorSplitsHistory'
  BY <1>2 DEF CursorSplitsHistory, Contiguous, Accepted, QueuedRows
<1>5. LeaseIsTheWindowAboveTheCursor'
  <2>1. ASSUME NEW j \in Accepted, inputSequence[j] > checkpointInputCursor
        PROVE  inputStatus'[j] = "leased" /\ inputLeaseId'[j] = l
    BY <1>2, <2>1 DEF Accepted
  <2>2. \A j \in Accepted : inputSequence[j] <= nextInputSequence - 1
    BY DEF CursorSplitsHistory, Contiguous
  <2> QED
    BY <1>2, <2>1, <2>2 DEF LeaseIsTheWindowAboveTheCursor, LeaseActive, Accepted
<1>6. ClaimCoversEveryInput'
  BY DEF ClaimCoversEveryInput, QueuedRows, Accepted
<1>7. OneRequestPerInput'
  BY DEF OneRequestPerInput, QueuedRows
<1>8. RowsAreWellFormed'
  BY <1>2 DEF RowsAreWellFormed, QueuedRows, RowsOfLease, LeaseActive
<1> QED
  BY <1>1, <1>4, <1>5, <1>6, <1>7, <1>8

LEMMA RequeueKeepsInv ==
  ASSUME MailboxInv, RequeueLeasedRunInputs
  PROVE  MailboxInv'
<1> USE DEF MailboxInv, RequeueLeasedRunInputs, RequeueRows, MayRequeue, ClearLease, MoveRows, TypeOK
<1>1. TypeOK'
  BY DEF DeliveryStatus
<1>2. /\ ActiveRows = { i \in Accepted : inputSequence[i] \in
                                        activeInputLeaseFrom..activeInputLeaseTo }
      /\ Accepted' = Accepted
  BY LeaseRows DEF Accepted
<1>4. CursorSplitsHistory'
  BY <1>2 DEF CursorSplitsHistory, Contiguous, Accepted
<1>5. LeaseIsTheWindowAboveTheCursor'
  BY <1>2 DEF LeaseIsTheWindowAboveTheCursor, LeaseActive, Accepted
<1>6. ClaimCoversEveryInput'
  BY DEF ClaimCoversEveryInput
<1>7. OneRequestPerInput'
  BY DEF OneRequestPerInput
<1>8. RowsAreWellFormed'
  BY <1>2, LeaseRows DEF RowsAreWellFormed, ActiveRows, RowsOfLease, Accepted, DeliveryStatus
<1> QED
  BY <1>1, <1>4, <1>5, <1>6, <1>7, <1>8

LEMMA CommitKeepsInv ==
  ASSUME MailboxInv, NEW r \in RequestIds, CommitModelRequest(r)
  PROVE  MailboxInv'
<1> USE DEF MailboxInv, CommitModelRequest, MayInclude, MoveRows,
            runColumns, TypeOK
<1>1. TypeOK'
  BY DEF DeliveryStatus, ActiveRows, RowsOfLease
<1>2. /\ ActiveRows = { i \in Accepted : inputSequence[i] \in
                                        activeInputLeaseFrom..activeInputLeaseTo }
      /\ Accepted' = Accepted
  BY LeaseRows DEF Accepted
<1>4. CursorSplitsHistory'
  BY <1>2 DEF CursorSplitsHistory, Contiguous, Accepted
<1>5. LeaseIsTheWindowAboveTheCursor'
  <2>1. ASSUME NEW j \in Accepted,
               inputSequence[j] \in activeInputLeaseFrom..activeInputLeaseTo
        PROVE  inputStatus'[j] = "included" /\ inputLeaseId'[j] = activeInputLeaseId
    BY <1>2, <2>1, LeaseRows DEF ActiveRows, RowsOfLease
  <2>2. ASSUME NEW j \in Accepted, inputSequence[j] > activeInputLeaseTo
        PROVE  inputStatus'[j] = "queued"
    BY <1>2, <2>2 DEF LeaseIsTheWindowAboveTheCursor, Accepted
  <2> QED
    BY <1>2, <2>1, <2>2 DEF LeaseIsTheWindowAboveTheCursor, LeaseActive, Accepted
<1>6. ClaimCoversEveryInput'
  BY DEF ClaimCoversEveryInput
<1>7. OneRequestPerInput'
  <2>1. \A j \in ActiveRows : inputRequestId[j] = None
    BY DEF OneRequestPerInput, ActiveRows, RowsOfLease
  <2>2. \A j \in Inputs : inputRequestId[j] # r
    BY DEF OneRequestPerInput
  <2> QED
    BY <2>1, <2>2, NoneIsNoId DEF OneRequestPerInput, ActiveRows, RowsOfLease
<1>8. RowsAreWellFormed'
  BY <1>2, LeaseRows DEF RowsAreWellFormed, ActiveRows, RowsOfLease
<1> QED
  BY <1>1, <1>4, <1>5, <1>6, <1>7, <1>8

LEMMA AckKeepsInv ==
  ASSUME MailboxInv, NEW l \in LeaseIds, AckCheckpoint(l)
  PROVE  MailboxInv'
<1> USE DEF MailboxInv, AckCheckpoint, AckedPrefix, ClearLease, MoveRows, TypeOK
<1>0. LeaseActive
  BY NoneIsNoId DEF LeaseActive
<1>1. TypeOK'
  BY DEF DeliveryStatus
<1>2. /\ RowsOfLease(l) = { i \in Accepted : inputSequence[i] \in
                                        activeInputLeaseFrom..activeInputLeaseTo }
      /\ Accepted' = Accepted
  BY <1>0, LeaseRows DEF Accepted
<1>4. CursorSplitsHistory'
  BY <1>0, <1>2 DEF CursorSplitsHistory, Contiguous, Accepted,
                    LeaseIsTheWindowAboveTheCursor
<1>5. LeaseIsTheWindowAboveTheCursor'
  BY <1>0, <1>2 DEF LeaseIsTheWindowAboveTheCursor, LeaseActive, Accepted
<1>6. ClaimCoversEveryInput'
  BY <1>0 DEF ClaimCoversEveryInput
<1>7. OneRequestPerInput'
  BY DEF OneRequestPerInput, RowsOfLease
<1>8. RowsAreWellFormed'
  BY <1>0, <1>2, LeaseRows DEF RowsAreWellFormed, RowsOfLease, LeaseActive, DeliveryStatus
<1> QED
  BY <1>1, <1>4, <1>5, <1>6, <1>7, <1>8

LEMMA ClaimKeepsInv ==
  ASSUME MailboxInv, NEW v \in 1..nextInputSequence, TryClaimTerminalInput(v)
  PROVE  MailboxInv'
<1> USE DEF MailboxInv, TryClaimTerminalInput, MayClaim, MayClaimIgnoringTheCursor,
            runColumns, inputColumns, TypeOK
<1>1. ClaimCoversEveryInput'
  BY DEF ClaimCoversEveryInput, CursorSplitsHistory, Contiguous, Accepted, LeaseActive
<1> QED
  BY <1>1 DEF CursorSplitsHistory, Contiguous, Accepted, LeaseIsTheWindowAboveTheCursor,
              LeaseActive, OneRequestPerInput, RowsAreWellFormed

LEMMA StatusKeepsInv ==
  ASSUME MailboxInv, NEW s \in RunStatus, SaveRunStatus(s)
  PROVE  MailboxInv'
BY DEF MailboxInv, SaveRunStatus, runColumns, inputColumns, TypeOK, ClaimCoversEveryInput,
       CursorSplitsHistory, Contiguous, Accepted, LeaseIsTheWindowAboveTheCursor,
       LeaseActive, OneRequestPerInput, RowsAreWellFormed

LEMMA StutterKeepsInv ==
  ASSUME MailboxInv, UNCHANGED mailboxVars
  PROVE  MailboxInv'
BY DEF MailboxInv, mailboxVars, runColumns, inputColumns, TypeOK, ClaimCoversEveryInput,
       CursorSplitsHistory, Contiguous, Accepted, LeaseIsTheWindowAboveTheCursor,
       LeaseActive, OneRequestPerInput, RowsAreWellFormed

LEMMA InitHasInv == InitMailbox => MailboxInv
<1> SUFFICES ASSUME InitMailbox PROVE MailboxInv
  OBVIOUS
<1> USE DEF InitMailbox
<1>1. TypeOK
  BY DEF TypeOK, RunStatus, DeliveryStatus
<1>2. Accepted = {}
  BY DEF Accepted
<1>3. CursorSplitsHistory /\ LeaseIsTheWindowAboveTheCursor
  BY <1>2 DEF CursorSplitsHistory, Contiguous, LeaseIsTheWindowAboveTheCursor, LeaseActive
<1>4. ClaimCoversEveryInput
  BY DEF ClaimCoversEveryInput
<1>5. OneRequestPerInput
  BY NoneIsNoId DEF OneRequestPerInput
<1>6. RowsAreWellFormed
  BY DEF RowsAreWellFormed
<1> QED
  BY <1>1, <1>3, <1>4, <1>5, <1>6 DEF MailboxInv

-------------------------------------------------------------------------------
LEMMA StepKeepsInv ==
  ASSUME MailboxInv, MailboxStep
  PROVE  MailboxInv'
BY EnqueueKeepsInv, LeaseKeepsInv, RequeueKeepsInv, CommitKeepsInv, AckKeepsInv,
   ClaimKeepsInv, StatusKeepsInv, StutterKeepsInv DEF MailboxStep, NextMailbox

(* All the mailbox invariants hold together; alone, the claim needs the       *)
(* cursor and the window, and the window needs the rows.                     *)
THEOREM MailboxInvariant == SpecMailbox => []MailboxInv
BY InitHasInv, StepKeepsInv, PTL DEF SpecMailbox, MailboxStep

(* The checkpoint cursor separates, at every moment and for any number of    *)
(* inputs, the inputs inside the saved SDK checkpoint from those outside.    *)
THEOREM CursorCorrect == SpecMailbox => []CursorSplitsHistory
BY MailboxInvariant, PTL DEF MailboxInv

(* The active lease owns exactly the contiguous window above the cursor.     *)
THEOREM LeaseCorrect == SpecMailbox => []LeaseIsTheWindowAboveTheCursor
BY MailboxInvariant, PTL DEF MailboxInv

(* A committed terminal claim leaves no accepted input outside the saved     *)
(* checkpoint, and none is accepted after it.                                *)
THEOREM ClaimCorrect == SpecMailbox => []ClaimCoversEveryInput
BY MailboxInvariant, PTL DEF MailboxInv

(* An input is in the entry list of at most one committed ModelRequest.      *)
THEOREM DeliveredOnce == SpecMailbox => []OneRequestPerInput
BY MailboxInvariant, PTL DEF MailboxInv

(* The row columns agree: a row in delivery names the active lease.          *)
THEOREM RowsCorrect == SpecMailbox => []RowsAreWellFormed
BY MailboxInvariant, PTL DEF MailboxInv

(* No transaction takes back an inclusion or renumbers an input.             *)
THEOREM ForwardOnly == SpecMailbox => DeliveryMovesForward
<1>1. ASSUME MailboxInv, MailboxStep PROVE [\A i \in Inputs : StepsForward(i)]_mailboxVars
  <2> SUFFICES ASSUME NextMailbox, NEW i \in Inputs PROVE StepsForward(i)
    BY <1>1 DEF MailboxStep
  <2> USE <1>1 DEF MailboxInv, TypeOK, StepsForward, MoveRows
  <2>1. ASSUME NEW k \in Inputs, EnqueueRunInput(k) PROVE StepsForward(i)
    BY <2>1 DEF EnqueueRunInput, MayEnqueue
  <2>2. ASSUME NEW l \in LeaseIds, LeaseRunInputs(l) PROVE StepsForward(i)
    BY <2>2 DEF LeaseRunInputs, QueuedRows
  <2>3. CASE RequeueLeasedRunInputs
    BY <2>3 DEF RequeueLeasedRunInputs, RequeueRows, MayRequeue
  <2>4. ASSUME NEW r \in RequestIds, CommitModelRequest(r) PROVE StepsForward(i)
    BY <2>4 DEF CommitModelRequest, MayInclude
  <2>5. ASSUME NEW l \in LeaseIds, AckCheckpoint(l) PROVE StepsForward(i)
    BY <2>5 DEF AckCheckpoint
  <2>6. ASSUME NEW v \in 1..nextInputSequence, TryClaimTerminalInput(v) PROVE StepsForward(i)
    BY <2>6 DEF TryClaimTerminalInput, inputColumns
  <2>7. ASSUME NEW s \in RunStatus, SaveRunStatus(s) PROVE StepsForward(i)
    BY <2>7 DEF SaveRunStatus, inputColumns
  <2> QED
    BY <2>1, <2>2, <2>3, <2>4, <2>5, <2>6, <2>7 DEF NextMailbox
<1> QED
  BY <1>1, MailboxInvariant, PTL DEF SpecMailbox, MailboxStep, DeliveryMovesForward

-------------------------------------------------------------------------------
(* Refinement of InputDelivery. *)

(* The mailbox implements the abstract delivery protocol: one order, one     *)
(* batch at a time, shown once, acknowledged before the next, nothing        *)
(* accepted after the close.                                                 *)
THEOREM ImplementsDelivery == SpecMailbox => DeliversInOrder
<1> USE DEF Delivery!deliveryVars
<1>1. InitMailbox => Delivery!InitDelivery
  BY DEF InitMailbox, Delivery!InitDelivery, BatchIncluded, LeaseActive
<1>2. ASSUME MailboxInv, MailboxStep
      PROVE  [Delivery!NextDelivery]_(Delivery!deliveryVars)
  <2> USE <1>2 DEF MailboxInv, TypeOK
  <2>1. ASSUME NEW i \in Inputs, EnqueueRunInput(i) PROVE Delivery!Accept(i)
    <3>1. BatchIncluded' = BatchIncluded
      BY <2>1 DEF EnqueueRunInput, MayEnqueue, BatchIncluded, LeaseActive, ActiveRows,
                  RowsOfLease, runColumns
    <3> QED
      BY <2>1, <3>1 DEF EnqueueRunInput, MayEnqueue, Delivery!Accept, runColumns,
                        RowsAreWellFormed
  <2>2. ASSUME NEW l \in LeaseIds, LeaseRunInputs(l) PROVE UNCHANGED Delivery!deliveryVars
    <3>1. \E i \in QueuedRows : i \in ActiveRows' /\ inputStatus'[i] = "leased"
      BY <2>2 DEF LeaseRunInputs, MoveRows, ActiveRows, RowsOfLease, QueuedRows
    <3>2. ~BatchIncluded /\ ~BatchIncluded'
      BY <2>2, <3>1 DEF LeaseRunInputs, BatchIncluded
    <3> QED
      BY <2>2, <3>2 DEF LeaseRunInputs
  <2>3. CASE RequeueLeasedRunInputs
    <3>1. ~BatchIncluded /\ ~BatchIncluded'
      BY <2>3, LeaseRows DEF RequeueLeasedRunInputs, RequeueRows, MayRequeue, ClearLease, BatchIncluded, LeaseActive
    <3>2. UNCHANGED Delivery!deliveryVars
      BY <2>3, <3>1 DEF RequeueLeasedRunInputs, RequeueRows
    <3> QED
      BY <3>2
  <2>4. ASSUME NEW r \in RequestIds, CommitModelRequest(r)
        PROVE  Delivery!Show(activeInputLeaseTo)
    <3> USE <2>4 DEF CommitModelRequest, MayInclude, runColumns
    <3>1. ~BatchIncluded
      BY LeaseRows DEF BatchIncluded
    <3>2. BatchIncluded'
      BY DEF BatchIncluded, LeaseActive, ActiveRows, RowsOfLease, MoveRows
    <3> QED
      BY <3>1, <3>2 DEF Delivery!Show, LeaseIsTheWindowAboveTheCursor
  <2>5. ASSUME NEW l \in LeaseIds, AckCheckpoint(l) PROVE Delivery!Acknowledge
    <3> USE <2>5 DEF AckCheckpoint
    <3>1. BatchIncluded
      BY NoneIsNoId DEF BatchIncluded, LeaseActive, ActiveRows, RowsOfLease
    <3>2. ~BatchIncluded'
      BY DEF BatchIncluded, LeaseActive, ClearLease
    <3> QED
      BY <3>1, <3>2 DEF Delivery!Acknowledge, AckedPrefix, BatchIncluded,
                        LeaseIsTheWindowAboveTheCursor
  <2>6. ASSUME NEW v \in 1..nextInputSequence, TryClaimTerminalInput(v) PROVE Delivery!Close
    <3>1. ~BatchIncluded /\ ~BatchIncluded'
      BY <2>6 DEF TryClaimTerminalInput, MayClaim, MayClaimIgnoringTheCursor, BatchIncluded,
                  LeaseActive, runColumns
    <3> QED
      BY <2>6, <3>1 DEF TryClaimTerminalInput, MayClaim, MayClaimIgnoringTheCursor,
                        runColumns, inputColumns, Delivery!Close
  <2>7. ASSUME NEW s \in RunStatus, SaveRunStatus(s) PROVE UNCHANGED Delivery!deliveryVars
    BY <2>7 DEF SaveRunStatus, runColumns, inputColumns, BatchIncluded, LeaseActive,
                ActiveRows, RowsOfLease
  <2>8. CASE UNCHANGED mailboxVars
    BY <2>8 DEF mailboxVars, runColumns, inputColumns, BatchIncluded, LeaseActive,
                ActiveRows, RowsOfLease
  <2>9. ASSUME NEW r \in RequestIds, CommitModelRequest(r)
        PROVE  activeInputLeaseTo \in 1..(nextInputSequence - 1)
    BY <2>9 DEF CommitModelRequest, MayInclude,
                LeaseIsTheWindowAboveTheCursor
  <2> QED
    BY <2>1, <2>2, <2>3, <2>4, <2>5, <2>6, <2>7, <2>8, <2>9
       DEF MailboxStep, NextMailbox, Delivery!NextDelivery
<1> QED
  BY <1>1, <1>2, MailboxInvariant, PTL
     DEF SpecMailbox, MailboxStep, DeliversInOrder, Delivery!SpecDelivery
===============================================================================
