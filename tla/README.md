# MapAgents: a TLA+ verification of the run core

This directory specifies the parts of MapAgents in which ordering, crashes and
concurrency decide whether the program is correct: how a Run takes user input while it
works, checkpoints, calls tools, asks for approvals, ends and recovers; how child runs
and automations are driven; how the objects of a run survive garbage collection; how its
items reach the screen; and how the background services are started and restarted.
Paths below are relative to `src/apps/server/src/` unless they start with `src/`.

    tlc -workers 2 -config MCRunExecutor.cfg MCRunExecutor      # one run
    tlapm RunExecutorProofs.tla                                  # one proof module

`PROJECT.json` lists the components, the runs, the source lines behind every
definition, the hazards, the finding and the theorems.

## The system

MapAgents is a desktop and server platform for geographic agents. One Node process,
the *single API writer*, owns all Runs; PostgreSQL holds their rows and a
content-addressed store on disk their large objects (SDK checkpoints, model requests,
memory documents, files). A local supervisor starts this process, its infrastructure
and a Python worker, and starts them again when they die.

| Component | State | Operations | What makes it correct |
| --- | --- | --- | --- |
| Run input mailbox (`store/postgres/runInputRepository.ts`, `runCheckpointRepository.ts`, `modelRequestRepository.ts`) | rows of `platform_run_inputs`; the input columns of `platform_runs` | enqueue, lease, requeue, commit of a model request, checkpoint with ack, terminal claim | inputs are shown in order, once, none lost, none accepted after the claim |
| Run executor and steering (`agent/runtimeSdkExecutor.ts`, `runtime.ts`, `runtimeAssembly.ts`, `runSteeringController.ts`) | RunState in memory, pending lease, bound revision, `objectiveRevision` | run, continue, cancel, fail, complete; open, enqueue, replay, claim, close | what is saved can be restored; an answer covers every input it claims |
| Task manager and registry (`agent/runTaskManager.ts`, `automations/backgroundTaskRegistry.ts`) | active and launching run ids, tasks | start, respond, cancel, steer | one executor per run |
| Approvals (`agent/runtimeApprovalPersistence.ts`, `agent-runtime/approvals/`) | pending, resolved, consumed per call | ask, decide, continue, consume | no effect without a consent that is used up first |
| Tool calls (`agent-runtime/tools/`, `agent/toolExecutionCoordinator.ts`, `store/postgres/toolInvocationRepository.ts`) | gate, ledger rows, result commits, pending call ids | acquire, start, execute, commit, terminate, checkpoint | a call acts at most once and no resumed run forgets that it did |
| Child runs (`agent-runtime/children/ChildRunManager.ts`) | child rows, root budget, agent mailbox, tasks | spawn, send, interrupt, resume, publish a completion, recover | budgets are exact; messages arrive; one task per child |
| Object publication (`store/objectPublicationCoordinator.ts`, `threadStore.ts`) | readers/writer lock; objects; references | publish (put, commit), purge, collect | no committed reference dangles; nobody waits for ever |
| Automations (`automations/`) | run row, task row, jobs, registry, approvals | request, deliver, run a node, pause, answer, cancel, reconcile | no node acts twice or unasked; every run comes to rest |
| Run stream (`store/runStore.ts`, `ws/subscriptions.ts`, `src/packages/conversation-presentation`) | item rows, streams, fence, delivery slots, the client's view | write, publish, complete, subscribe, snapshot, replay | the screen agrees with the server; a closed run rests |
| Operations supervisor (`src/packages/operations-supervisor/src/supervisor.ts`) | services, attempts, one operation, the lease file | start, stop, restart, probe, restart timer, recovery of leases | no wait without an end; no process it would not find again |
| Domain journal, Goal judge, threads and transcript, memory, files, providers, GIS and map, security, desktop, console, worker | rows, files, external services, views | -- | not modelled; see the end |

**How they interact.** A client sends `run:start`, `run:steer`, `run:cancel`,
`run:resume` or `run:respond-decision` over a WebSocket. The task manager starts one
background task per run, which calls `runtime.run` or
`runtime.continueApprovalDecision`; that opens steering, restores a checkpoint and calls
`execute`, a loop of segments. A segment leases the queued inputs, lets the SDK Runner
make model requests (each recorded as a StepContext and a ModelRequest before it is
sent), executes the tool calls of a response side by side through the gate, and
checkpoints after them and at its end, which acknowledges the lease. A new input
*rotates* the segment. A final answer is a candidate: it completes the run only if a
terminal claim, taken in the mailbox, finds no newer input. Every checkpoint and model
request is an object put and a row committed inside a publish section. A tool call may
spawn, message or interrupt a child run, whose task is one more executor; a scheduled job
or a user may run an automation, whose agent node is one more run. Every item a run
writes goes through the item queue of `runStore` into a stream, and from there to the
delivery slots of each subscribed socket.

**What is hard.** A command, a cancel or a crash can fall between any two transactions;
a task works from values it read before an await; the database and the process's memory
advance in separate steps; jobs, messages and decisions are delivered at least once;
promises are shared and locks handed over in callbacks. `PROJECT.json` lists each such
place with the property that covers it, or why none does.

## Modules

| Module | Models |
| --- | --- |
| `InputDelivery` | the abstract promise of the mailbox: accept in one order, show one batch, acknowledge it, close when all is acknowledged |
| `RunMailbox` | one action per mailbox transaction; any caller, any time, any arguments |
| `RunExecutor` (EXTENDS `RunMailbox`) | commands, executor, steering, checkpoints, approvals, crash and recovery of one run; every mailbox change is an action of `RunMailbox` |
| `ObjectPublication` | the lock, the store, publishers, purges, crashes |
| `ToolGate` | acquire, release and pump of the gate that lets shared calls in together and an exclusive one alone |
| `ToolCalls` (EXTENDS `ToolGate`) | the calls of one response from the model's request to a checkpoint that holds their results |
| `ChildRuns` | the children of one root run, the agents that control them and the user |
| `AutomationGraph` | the compiler's checks and order, and `findNextNode`, as operators |
| `AutomationRuns` (EXTENDS `AutomationGraph`) | one automation run with its queue, registry, cancellation, answers and boot |
| `RunStream` | one run's items from writers to one screen |
| `Supervisor` | the services, their processes and the supervisor's own crash |
| `MC*` | model values, symmetry sets, catalogs and graphs |
| `*Proofs` | theorems about the module of the same name |

**The common shape.** A variable is a table's column (a function over rows) or a field of a
long-lived object. Code that awaits is a record with a `pc` that stops wherever the
process awaits a transaction, a lock, a process or the network; everything between two
awaits is one action. A transaction, with its row lock or compare-and-set, is atomic.
`Crash` may hit any state: it resets memory and keeps rows. Ids are only compared.

### RunMailbox and RunExecutor

Each transaction runs in the per-run mutation queue with the run row locked, so it is
one atomic step. A call whose check throws changes nothing and is not an action; an
idempotent early return is the negation of the guard. The transcript entry, the
projection and the domain event appended in the same commit are left out.

The executor is the record `exec`; `exec.pc = "off"` is a run nobody drives.

| pc | Code |
| --- | --- |
| accepted, starting | `acceptApprovalDecision` up to `queued`; the task up to `running` |
| opening, assembling | `steering.open`; assembly, `checkpoints.restore`, `adopt` |
| loop, segment | top of the `while (true)`, the Runner about to make its first request |
| requesting, streaming | `captureModelRequest` after the StepContext; the request is out |
| tools, rotating, followup | tool calls executed; `callModelInputFilter` of the next request |
| ended, interrupted, suspending | the stream completed; `approvalPersistence.persist` |
| candidate, deciding, superseded, claimed | the terminal candidate and its claim |
| returned, completing, failing, closing | after `execute`: finalizer, catch block, `finally` |

Data is cut to what the properties tell apart: an input is its place in the order, a
RunState is the last input inside it, its open approvals and whether its last step is
final; a candidate is the revision it answers. These choices are deliberate:

* The approval record and its copy in `AgentState.approvals` are one variable, which
  follows the copy.
* The executor's checkpoints include every call that has started: the terminal ids are
  taken when the SDK has all results. `ToolCalls` looks at calls one by one.
* Construction of the coordinator and `adopt` are one step (`Assemble`); no await lets
  another writer in between. `deliverAgentMailbox` is `Enqueue` while the run assembles.
* An error of a synchronisation that follows a lease or an open is part of `Fault`,
  which may hit any step of the executor. The Goal judge is not there.
* A clarification, a rejected outcome and a completed answer share the claim; which
  one the policy decides on is open.

What the OpenAI Agents SDK does is external, taken from how this code uses it: a
RunState whose last step is final, or that has interruptions, makes the Runner return
without a request; staged input makes a finished RunState run again; an approved call
executes before the next request.

### ToolGate and ToolCalls

`ToolGate` has the gate's counters and queue (`activeShared`, `activeExclusive`,
`waiting`) and the lease of each call; `Pump` admits the longest run of waiting calls
that may enter together. In `ToolCalls` each call of the response is a task: `called`,
waiting for the gate, `decided` on its approval (consumed in one transaction), `started`
in the ledger in the next, `ran`, then the commit of its result, or the catch blocks that
settle the ledger from the status it has then. The executor reads the terminal call ids,
saves the checkpoint and clears the pending ids. The user decides, once or for the
session; the run is cancelled, fails, crashes, is recovered and resumed.
`markSdkToolCallTerminal` records a call refused before `execute` tries anything as
started and succeeded although it never ran; the model follows it.

### ChildRuns

An agent has one control call in progress (`op`), as the control tools are exclusive, and
a child one task (`exec`). `SetStatus` is `updateRunStatus` with the budget adjustment of
the same transaction. Publishing a child's completion to its parent, recovery and
reconciliation are actions of the next process. Abstractions: the root's own status check,
the resume flag, `wait` and `list`, nested children, token and time budgets; a completion's
content is the status it carries; a finished task is retained longer than any control
call takes; a message is sent again only after a crash.

### AutomationGraph and AutomationRuns

The compiler's validity check and its order (Kahn's algorithm, least id first) are
operators; a run starts from any graph that compiles. `row` is the automation run's row,
replaced as a whole by a compare-and-set on the status its writer has read; `jobs` are
pg-boss jobs, retried `RetryLimit` times; a delivery (`runner`) goes through
authorisation, the registry, the loop's read, the node, and the write, each its own step.
Cancellation, answer and dispatch are requests with their own awaits. `LongRuns` lets a
job expire while its handler works, `SlowAnswers` lets an answer rest between its read and
its write for as long as the queue takes to run the run: both are off in the runs, see
below. The compiler lets only tools that read have more than one attempt
(`g.retried \subseteq g.reads` in `ValidGraph`), so `retry()` repeats nothing with an
effect; without that check `FailsAndTriesAgain` would act twice. A schedule's job needs
an active task and a definition that is published, which a user may disable and publish
again (`ChangeDefinition`); a boot sends queued runs again (`Reconcile`), then registers
every active task anew (`ReconcileSchedules`). Left out: runs attached to an agent, the
user's edits of scheduled tasks, cron, the second run that a job registered anew starts,
bindings and schemas, database failures other than a failed send, graceful stop; what
becomes of an agent's run that waits for an approval of its own when its node has failed
is the conversation's matter.

### RunStream

Two promise chains serialise the work on a run: item writes and snapshots, and status
changes with the three steps of `complete`. Snapshots reserve a hole in a socket's delivery
slots and are read when the item queue reaches them; what is behind a hole waits. Every
change of status and of the run's state sends the subscribers one (`PublishRun`). An item
is published into the stream found before its row was saved. A write refused by the fence
ends the executor's part: the write buffer throws its first failure again when the
finalizer flushes it, so the run is not completed by it. The client is `streamProjection.ts` and the synchronisation of `useRunState.ts`, as pure
functions of its record and a message. The client handles a message when it is sent, so
a lost connection loses what was not sent. Left out: database failures, the 45 s timeout
of a synchronisation, events, truncation of bodies, batches, thread subscriptions; passing
the 4096-slot or 8 MiB limit is `LoseConnection`; a new connection is opened by the next
command.

### ObjectPublication

A task is a publisher (model request, checkpoint, memory document) or a purge. A woken
task is put directly into its section by the step that wakes it, as the code transfers the
counter before it resolves the promise. A commit may replace older references and a purge
may remove any. File uploads pin a pending object by a reservation row, forks insert
references outside the lock and a put has a temporary file and a rename: none of these is
modelled.

### Supervisor

Node runs one callback at a time: what runs in promise callbacks (`Begin`,
`NextDependency`, `Settle`, `OpNext`) has priority over every step that waits for ports,
files, probes, timers or processes. `svc` is the record of a service, `attempt` the start
whose promise everybody shares, `op` the operation at the head of the queue, `lease` the
file, the queue of writes and what the first one writes. A process is named by the
generation of its command; descendants that outlive a root hold its port. Probes answer
anything. Left out: failures to spawn and of the lease file, IPC, logs, metrics and the
close of the supervisor itself; `recoverLeases` is atomic; host programs take a port only
while no tree of the service runs (they can as well take it when the tree has ended).

## Runs

| Run | Instance | Distinct states | Shows |
| --- | --- | --- | --- |
| `mailbox` | 3 inputs, 3 lease and 3 request ids | 405 up to symmetry | the lease is the window above the cursor, a claim covers every input, and the rows implement `InputDelivery` |
| `executor` | child run, 2 inputs, 2 calls, 1 repair, 2 crashes | 103 891 | restore, lease, attribution, claim, approvals, unknown effects; every step is a mailbox transaction |
| `liveness` | root run, 2 inputs, 1 call, 1 repair, 1 crash | about 137 000 | an executor ends; an input is delivered or the run stops visibly |
| `objects` | 2 publishers, 2 purges, 2 objects, 2 purge requests | 222 277 | references exist; whoever waits is served |
| `tools` | a shared call, a shared one that asks, an exclusive one that asks; 1 restart | 3 664 677 | at most one effect per call, none unapproved, none forgotten, a truthful ledger, no lost wake-up in the gate |
| `children` | 1 child, 2 agents, 1 message, 2 crashes | 146 563 | a delivered message was steered in, and one that waits at a start is delivered |
| `child_budget` | 2 children for one slot, 2 agents, 2 spawns, 2 crashes | 496 988 | the counters match the rows; no second task |
| `supervisor` | 2 services, one dependent on the other, 2 operations | 5 125 350 | watched health, restarts that come, waits that end, leases that name every process |
| `supervisor_live` | 1 service, 2 operations, 1 crash | 25 345 | operations end, transient states pass, an unverified service stays aside |
| `automations` | 3 graphs that compile and 3 that do not, manual or one-shot, 2 jobs with 1 retry, 1 crash, 1 responder | 1 596 517 | each node acts once and with consent, the loop is never stuck, nothing acts after a cancellation, the run comes to rest |
| `stream` | 1 message of 1 chunk, 1 input that moves twice, 2 segments, 2 disturbances | 9 736 544 | the screen agrees at rest, every synchronisation is served, a closed run rests, an ended message stays |
| `approval_resume` | recurring and manual runs without a crash | -- | the finding below: a violation |

**Why the bounds are enough.** Ids are compared for equality only. A run has one active
lease, so two leases and two requests show every reuse of an old id, and the mailbox
run uses three. Two inputs let one arrive behind another's lease; two calls leave one
approval open while another is continued; two crashes let recovery itself be cut.
`MaxRepairs` is 2 in the code; 1 shows the reset and the limit. `tools` has one call of
each kind that the gate and the approvals tell apart. `objects` has one more publisher
and purge than the lock admits at a time; `MaxPurges` is what makes `WaitersAreServed`
hold, since a release hands over to the next collector first. `children` and
`child_budget` divide what one instance cannot hold: messages with one child, two
children without. `supervisor` has no crash, and `supervisor_live` one service: both in one instance are
more than 13 million states; the proofs cover any catalog with crashes. `MaxWindows`
bounds how often failures drop out of the ten-minute window. In `stream` the two
disturbances are any two of a completion by another task, a change of the run's state
(which sends every subscriber a snapshot), a lost connection and a crash.
`MaxCrashes`, `MaxOperations`, `MaxEvents`, `MaxPurges` and the id sets bound only the
environment.

**Fairness.** `FairExecutor`: weak fairness of the executor's continuations and of the
restart by the supervisor, strong fairness of a Runner's end (it is given `maxTurns`).
`FairObjects`: each task's next step, as a put, a transaction and a sweep settle.
`FairChildren`: each task's own steps, without its faults; a crashed process may stay
down. `SupervisorFairness`: callbacks run, waits have deadlines, timers fire, and a
signalled process tree ends. `FairAutomation`: deliveries go on, the queue expires what
a dead process left active, prepared jobs are sent, the process is started again, a read
answer is written. Nothing is assumed of a user, a fault or a crash.

`CHECK_DEADLOCK FALSE` is set where the system may stop: a run that has ended with no
crash left (`RunExecutor`, `ToolCalls`, `AutomationRuns`), a boot refused by
`reconcileTerminalCompletions` (`ChildRuns`), and where only a bound stops the
environment (`Supervisor`, `RunStream`).

## Proofs

`tlapm` checks every theorem to the last leaf, for all values of the constants: any
number of inputs, calls, children, services and objects, any graph, any number of crashes.

| Module | Theorems | Argument |
| --- | --- | --- |
| `RunMailboxProofs` | `TypeCorrect`, `CursorCorrect`, `LeaseCorrect`, `ClaimCorrect`, `DeliveredOnce`, `RowsCorrect`, `ForwardOnly`, `ImplementsDelivery` | types, cursor, lease window, rows, claim and requests are inductive together, none alone: an acknowledgement keeps the cursor exact because the lease is the window above it, and a lease keeps its window because everything above the cursor is queued. The refinement of `InputDelivery` is one step or a stutter for each transaction |
| `RunExecutorProofs` | `ExecutorDrivesTheMailbox`, `ExecutorTypeCorrect`, `LeaseHeldByExecutor`, `ObjectiveNeverAhead`, `UnknownEffectsStopTheRun`, `CheckpointAlwaysRestorable`, `RequestsAreBound`, `AnswersCoverEveryInput`, `OpenCallsKeepTheirApprovals` | every step implies `[NextMailbox]`, so the mailbox invariant carries over. The lease is kept by an invariant over the executor's locals and the rows that also says what the checkpoint holds while no executor runs; `BoundInv` adds the revision each place of the loop works under, `AnswerInv` which request an answer comes from, `OpenInv` where the approval of an open call is while a continuation consumes another |
| `ObjectPublicationProofs` | `ObjectsTypeCorrect`, `LockExclusive`, `NoWakeUpIsLost`, `ReferencedObjectsExist` | exclusion is inductive with the types, the counter being the cardinality of the publishers inside; for the references, whoever sweeps has read every row there now is, as only publishers add rows and none is inside |
| `ToolCallsProofs` | `CallsStaySound`, `EffectsHappenAtMostOnce`, `NoEffectIsForgotten`, `ApprovalPrecedesEffect`, `LedgerIsTruthful`, `PendingOutlivesCrash`; of the gate `GateIsAlwaysSound`, `WritersAreAlone`, `NoWakeUpIsLost`, `TheGateIsFair` | one invariant per column of the ledger against the place of the call's task: what may still act has not acted, what acted is pending or inside the RunState, and a run with something pending is not resumable. The gate: the counters are the cardinalities of the holders, the queue holds each waiting call once, and `Pump` leaves a queue only behind a holder; who is admitted is a least place, by well-foundedness |
| `ChildRunsProofs` | `ChildrenAreTyped`, `BudgetIsExact`, `DeliveredMessagesWereSteered`, `RunningChildrenAreDriven`, `OneTaskPerChild` | `ChildInv`: control calls and tasks are well formed, a running child's task is inside its run, deliveries are addressed; the budget by counting lemmas on one changed row and on the set recovery changes |
| `AutomationRunsProofs` | `AutomationTypes`, `ToolsActWithConsent`; under `OneDelivery` also `NodesActOnce`, `PendingNodesAreUntouched`, `CancellationStopsTheAgent`, `CancellationIsTheEnd`, `EndsAreFinal`; `OrderIsTopological`, and under `OneDelivery` with it `LoopsAreNeverStuck` | consent: the nodes any copy of the state lists as approved were approved. Part 2: a writer expects the status the row has, a cancellation reaches whoever acts, and no copy of the state lists as pending what has acted. Part 3: a state the runner decides from has only pending and settled nodes, so the first node of the order that is not settled has settled sources |
| `SupervisorProofs` | `SupervisorIsTyped`, `WaitersAreAlwaysServed`, `HealthyIsAlwaysWatched`, `LeasesNameTheProcesses`, `StoppingIsAlwaysDriven`, `UnverifiedServicesStayAside`, `RestartsAreComing` | `SupervisorIsSound`: where the operation stands in its plan, who waits for whom, what the next lease write will say of each process held, which close is still in the queue behind a service shown healthy, and that nothing is left that could touch a service set aside. First and last of a plan exist by well-foundedness of the ranks. For `RestartIsComing`: a wanted service that has lost its timer has an attempt, as only an attempt makes a service wanted again, keeps the timers that asked for it, and leaves a process held when it succeeds |
| `RunStreamProofs` | `StreamInvariant`, `StreamIsTyped`, `ASyncIsServed`, `AClosedRunRests`, `AShownEndIsFinal`, `TheScreenAgreesAtRest` | `StreamInv` has two halves. `Base` holds whatever the client does: who is in the two chains and what the fence says of it, the one writer, its row and the stream it publishes into, one live read per hole. The rest relates what the client shows, has buffered and is sent to `World`, the rows and every stream there was, which only grows: each version in sight was saved, nothing overtakes an older change of its item, and a snapshot with no hole behind it is the newest. Replaying and delivering are recursive functions; that each step of them keeps a set of clients gives the end by counting up |

Assumptions are those of the modules, which TLC evaluates in every run: `None` is no id;
bounds are naturals; publishers, children and messages are finite sets; the catalog is
finite, ranked, and dependencies have a smaller rank (`CatalogIsOrdered`); published
graphs are finite with positive node ids (`GraphsAreFinite`); no item is both a message
and an input (`StreamAssumption`). Parts 2 and 3 of
`AutomationRunsProofs` have the hypothesis `OneDelivery == ~LongRuns /\ ~SlowAnswers`,
the case the runner is written for.

**Only model-checked.** Liveness (`ExecutorEnds`, `InputIsDeliveredOrRunStops`,
`WaitersAreServed` of `ObjectPublication`, `WaitingMessageIsDelivered`, `OperationEnds`,
`TransientStatesPass`, `RunComesToRest`): no prover here reasons about fairness.
Every invariant and every action property of the passing runs is stated by a theorem.
Of the compiler's recursive functions the order is proved to be topological
(`OrderIsTopological`, by induction over the steps of Kahn's algorithm, which a set of
numbers closed under successor expresses); that it lists the *least* ready node, and what
`Reachable` computes, TLC evaluates on the six graphs of the instance.

## Finding

| Run | What the code does | What the repository says |
| --- | --- | --- |
| `approval_resume` | the registry refuses every id it still lists, and lists a finished task for five minutes: an approval answered within them fails the run although nothing runs | it refuses a task "已在运行", that runs already (`automations/backgroundTaskRegistry.ts:38`, and the test at `backgroundTaskRegistry.test.ts:40`) |

## Divergences the models reach, without a run

These statements of the repository, some of them definitions at the end of a module, are
violated in the model by what the code does; TLC finds each when it is added to a
configuration. They leave a run, a child or a service stuck, failed or rewritten. With the
constants of the runs none contradicts a property above; with `LongRuns` or `SlowAnswers`
TLC finds `ActsOnce` and other properties of `AutomationRuns` violated, as said there.

* `RunExecutor`: cancel overwrites a completed status, and a starting run overwrites
  cancelled, against `agent/runResumePolicy.ts:57` (`TerminalStatusIsFinal`); a segment
  without a request acknowledges its lease and fails the run
  (`agent/runtimeSdkExecutor.ts:117`, `AckFindsIncludedInputs`); `run:resume` refuses what
  `run` could replay (`IncludedReplayNeedsNoCheckpoint`); a stored claim makes every later
  candidate superseded (`ClaimIsRecognised`), both against WP-05 of
  `src/docs/architecture/codex-agents-sdk-runtime-refactor-plan.md`; an approval left
  open by a crash is refused by both flows (`OpenDecisionCanBeTaken`), a decision stored
  but not continued cannot be retried (`WaitingRunHasADecision`), and a checkpoint behind
  an undelivered input is never restored (`UndeliveredInputsAreRestorable`).
* `ObjectPublication`: summary objects are put outside the publish section, so a purge
  may collect them before the commit (`NewObjectsAreNotCollected`,
  `store/objectPublicationCoordinator.ts:5`).
* `ChildRuns`: a completion can carry a status that a cancel has replaced; the next
  boot's reconciliation then throws, against "reconciles terminal completion
  idempotently" (`ChildRunManager.test.ts:18`, `ReconcileAgrees`). Also: a resume over a full budget fails the child; a
  trigger that races an interrupt can restart a cancelled child; a completion whose task
  continued an approval is published only at the next start; `wait` can miss its wake-up
  until its timeout.
* `Supervisor`: a stop that meets an automatic restart between its port check and its
  spawn reports the service stopped while it starts, against the comment at
  `supervisor.ts:719` (`StoppedIsTrue`, nine steps). Also: with three services `stop all`
  can lose the handle of a live worker; a restart of a service that is starting leaves it stopped;
  after a failed stop the others stay in `restart_wait`, not desired, and `start`
  succeeds without making the service desired; `waiting_dependency` stays displayed after
  a failed start.
* `AutomationRuns`, with `LongRuns` (a run may take 86 400 s, a job expires after
  1 800 s): the redelivery is refused by the registry and fails a run that is at work; its
  late writes let a tool act twice (`ActsOnce`, 22 steps). With `SlowAnswers` the status
  returns to what an answer has read. So `ActsOnce`, `PendingIsUntouched`, `NeverStuck`,
  `CancelStopsTheAgent`, `OverIsFinal` and `NothingActsAfterCancel` are guarantees for
  definitions whose `timeoutSeconds` (900 by default) stays below the expiry, with answers
  written before the queue delivers. In every case: a one-shot interrupted by a
  crash is only marked missed when it is late, and within its first minute its job is
  cancelled and replaced by one that starts the automation again as another run, its
  effects with it; a scheduled run interrupted by a crash stays running when its
  definition is disabled or its task could not be registered; a cancellation that dies or loses its
  compare-and-set after it cancelled the job leaves a running run without one, or one
  that waits for approval with its conversation run cancelled; three crashes use up
  the retries; a scheduled run interrupted before `running` fails at boot for lack of a
  dispatch id.
* `RunStream`: after a crash a stream starts empty and its first change of an input gets
  sequence 0 again, which a client that has the saved one rejects: two snapshots are
  inconsistent, and the error is shown, against `useRunState.ts:699`, until the next
  change. `AgreesAtRest` leaves out states with that error, and the inputs of a closed run,
  whose projection is refused. `controlGateway`'s stale `onclose` rejects the requests of a newer socket.

## Further hazards

Lines where the same hazards bite again, covered by the same properties:
`agent/runtimeSdkExecutor.ts:247`, `agent/toolExecutionCoordinator.ts:160`,
`agent/runSteeringController.ts:243` and `:261`, `agent/runResumePolicy.ts:45`,
`agent/runtime.ts:275` and `:345`, `agent-runtime/input/ModelRequestJournal.ts:95`,
`agent-runtime/children/ChildRunManager.ts:217`, `:237` and `:308`,
`agent/runTaskManager.ts:66`, `automations/automationRunner.ts:163` and `:472`,
`automations/scheduledTaskService.ts:371`, and `supervisor.ts:618`, `:517` and `:698`.

## Not modelled, and why

The *domain journal* appends events in the transactions modelled here; that its snapshot
is the replay of its events would need the fold of every event type. The *Goal judge* and its
`commitRevision` would be one more await before a claim. *Forks*, *file uploads* and the
inner steps of a put are further publishers of `ObjectPublication`. Sessions, threads and
transcripts are single-transaction CRUD. Memory is files and a model call after a run has
completed. Providers, GIS, map tiles, meteorology, speech and the concrete tools compute
or call out and keep no protocol state of a run. Security, accounts and quotas are policy
lookups. The desktop application beyond the run's projection, the operations console and
the Python worker only issue the commands modelled here. SQL, schemas and encodings are
data.
