---------------------------- MODULE AutomationRuns ----------------------------
(***************************************************************************)
(* One run of an automation, from its request to its end:                   *)
(*   apps/server/src/automations/automationRunner.ts     executes the graph *)
(*   apps/server/src/automations/scheduledTaskService.ts     start, cancel, *)
(*                                answers, dispatch, reconciliation at boot *)
(*   apps/server/src/automations/jobQueueService.ts             pg-boss     *)
(*   apps/server/src/automations/backgroundTaskRegistry.ts      in process  *)
(*   apps/server/src/store/postgres/automationRunRepository.ts     the row  *)
(*                                                                          *)
(* A step ends where the code awaits the database.  Every update of the row *)
(* is a compare-and-set on the status its writer has read (expectedStatuses *)
(* of updateAutomationRun) and replaces the whole execution state.          *)
(* The process may die anywhere; the row, the conversation's runs and the   *)
(* jobs are durable.  Jobs are delivered at least once.                     *)
(***************************************************************************)
EXTENDS AutomationGraph

CONSTANTS
  Graphs,       \* definitions somebody published
  Triggers,     \* subset of "manual", "recurring", "oneshot"
  Responders,   \* requests that answer an approval, one at a time each
  RetryLimit,   \* of the queue: 2
  LongRuns,     \* a job may expire (expireInSeconds) with its handler still at work
  SlowAnswers,  \* an answer may rest between its read and its write for as long
                \* as the queue takes to deliver a job and the runner to run it
  MaxJobs, MaxCrashes   \* bounds of the instance

ASSUME TriggersAreKnown == Triggers \subseteq { "manual", "recurring", "oneshot" }
ASSUME GraphsAreFinite ==
  \A g \in Graphs : /\ IsFiniteSet(NodesOf(g)) /\ NodesOf(g) \subseteq Nat \ {0}
                    /\ g.asks \cup g.reads \subseteq OfType(g, "tool")
ASSUME QueueLimits == { RetryLimit, MaxJobs, MaxCrashes } \subseteq Nat /\ MaxJobs > 0

VARIABLES
  graph, trigger,   \* the definition snapshot and the trigger of the run
  row,        \* platform_automation_runs
  task,       \* status of the scheduled task; "unpublished" is active, with its
              \* definition disabled, "unregistered" failed, by reconcileSchedules
  orchs,      \* the conversation's runs made for it, by their status
  agentRun,   \* the run of the agent node: "none", "active", "waiting"
              \* for an approval of its own, "ended"
  jobs,       \* pg-boss: job -> state and retries so far
  worker,     \* the job the only worker is busy with, 0 for none
  runner,     \* deliveries of a job to executeQueuedJob
  registry,   \* the task 'automation:<id>' of BackgroundTaskRegistry
  cancel,     \* a request that cancels the run
  answer,     \* responder -> a request that answers its approval
  sending,    \* jobs that requests are about to send
  phase,      \* of the process: "down", "booting", "scheduling" or "up"
  boot,       \* the queued run reconcileQueuedAutomationRuns has listed
  (* history *)
  acted,      \* how often the tool or agent of a node has been started; the
              \* failed attempts of a tool that only reads do not count
  consent,    \* nodes the user approved
  crashes

durable == << row, task, orchs, jobs >>
requests == << cancel, answer, sending, boot >>
history == << acted, consent, crashes >>
autVars == << graph, trigger, durable, agentRun, worker, runner, registry, requests, phase, history >>

Nodes == NodesOf(graph)
Slots == IF LongRuns THEN 1..2 ELSE 1..1
Jobs == 1..MaxJobs
(* ensureOrchestrationRun makes one for each delivery at most *)
OrchIds == 1..(MaxJobs * (RetryLimit + 1))

NoPending == [node |-> 0, answer |-> "none"]
Over == { "completed", "failed", "cancelled" }
Fresh(g) == [ nodes |-> [n \in NodesOf(g) |-> "pending"],
              ports |-> [n \in NodesOf(g) |-> {}],
              pending |-> NoPending, approved |-> {}, orch |-> 0, agent |-> FALSE ]
NoRow(g) == [status |-> "none", job |-> 0, st |-> Fresh(g)]
Idle(g) == [ pc |-> "idle", job |-> 0, rec |-> NoRow(g), st |-> Fresh(g), node |-> 0,
             aborted |-> FALSE, tracked |-> FALSE ]

(* startAutomation writes the row before it sends the job; a schedule only   *)
(* has its job, sent by the queue when its time comes.                       *)
InitAutomation ==
  /\ graph \in { Compiled(g) : g \in { h \in Graphs : ValidGraph(h) } }
  /\ trigger \in Triggers
  /\ row = IF trigger = "manual" THEN [NoRow(graph) EXCEPT !.status = "queued", !.job = 1]
                                 ELSE NoRow(graph)
  /\ sending = IF trigger = "manual" THEN { 1 } ELSE {}
  /\ jobs = [j \in Jobs |-> [ retries |-> 0,
               state |-> IF j = 1 /\ trigger # "manual" THEN "created" ELSE "none" ]]
  /\ task = "active"
  /\ orchs = [o \in OrchIds |-> "none"]
  /\ agentRun = "none"
  /\ worker = 0
  /\ runner = [s \in Slots |-> Idle(graph)]
  /\ registry = "none"
  /\ cancel = [pc |-> "idle", rec |-> NoRow(graph)]
  /\ answer = [u \in Responders |-> [pc |-> "idle", rec |-> NoRow(graph), decision |-> "none"]]
  /\ phase = "up" /\ boot = 0
  /\ acted = [n \in Nodes |-> 0] /\ consent = {} /\ crashes = 0

-------------------------------------------------------------------------------
(* Helpers *)

Unchanged(s) == row.status = s      \* the precondition expectedStatuses: [s]
Save(rec, st, status) == row' = [status |-> status, job |-> rec.job, st |-> st]
Go(s, r) == runner' = [runner EXCEPT ![s] = r]
At(s, pc) == runner[s].pc = pc

(* the runner's promise is settled: an error reaches failAutomationRun, a    *)
(* result goes back to the queue                                             *)
Leave(s, pc) ==
  /\ Go(s, [runner[s] EXCEPT !.pc = pc])
  /\ registry' = IF runner[s].tracked THEN "ended" ELSE registry
Throw(s) == Leave(s, "failing")
Return(s) == Leave(s, "returned")

Executing == { "orchestrate", "enter", "loop", "node", "act", "agent_write", "agent_start",
               "agent_wait", "write", "paused", "complete", "finish" }

Enqueue(j) == jobs' = [jobs EXCEPT ![j].state = IF @ = "none" THEN "created" ELSE @]
IsLive(j) == jobs[j].state \in { "created", "active" }
(* requireMatchingDispatch: a job that is over cannot be sent again *)
MaySend(j) == jobs[j].state \in { "none", "created", "active" }

EndAgent == agentRun' = IF agentRun \in { "active", "waiting" } THEN "ended" ELSE agentRun
(* of a run that is not over *)
EndOrch(o, status) ==
  orchs' = IF o # 0 /\ orchs[o] \notin Over THEN [orchs EXCEPT ![o] = status] ELSE orchs

-------------------------------------------------------------------------------
(* The queue *)

Retried(job) == IF job.retries < RetryLimit
                THEN [state |-> "created", retries |-> job.retries + 1]
                ELSE [state |-> "failed", retries |-> job.retries]

IsScheduled(j) == j = 1 /\ trigger # "manual"
Refused == { "completed", "cancelled", "waiting_approval" }

(* executePersisted, executeScheduled: what the row says of the run *)
Accept(s, j, rec) ==
  \/ rec.status \in Refused /\ Go(s, [Idle(graph) EXCEPT !.pc = "returned", !.job = j])
  \/ rec.status = "failed" /\ Go(s, [Idle(graph) EXCEPT !.pc = "threw", !.job = j])
  \/ /\ rec.status \in { "queued", "running" }
     /\ Go(s, [Idle(graph) EXCEPT !.pc = "authorize", !.job = j, !.rec = rec, !.st = rec.st])

(* nextFireAt is more than a minute ago, which it is after a retry *)
MayBeLate(j) ==
  IF trigger # "oneshot" THEN { FALSE } ELSE IF jobs[j].retries > 0 THEN { TRUE } ELSE BOOLEAN

(* A task can be delivered while it is active; its definition is looked for   *)
(* after that, and what it lacks then is thrown before the row is read.      *)
Enabled == task \in { "active", "unpublished" }

Deliver(s) ==
  /\ phase # "down" /\ worker = 0 /\ runner[s].pc = "idle"
  /\ SlowAnswers \/ \A u \in Responders : answer[u].pc # "write"
  /\ \E j \in Jobs :
       /\ jobs[j].state = "created"
       /\ jobs' = [jobs EXCEPT ![j].state = "active"]
       /\ \/ ~IsScheduled(j) /\ Accept(s, j, row) /\ UNCHANGED << row, task >>
          \/ /\ IsScheduled(j) /\ ~Enabled
             /\ Go(s, [Idle(graph) EXCEPT !.pc = "threw", !.job = j])
             /\ UNCHANGED << row, task >>
          \/ /\ IsScheduled(j) /\ Enabled /\ TRUE \in MayBeLate(j)
             /\ task' = "missed"
             /\ Go(s, [Idle(graph) EXCEPT !.pc = "returned", !.job = j])
             /\ UNCHANGED row
          \/ /\ IsScheduled(j) /\ FALSE \in MayBeLate(j) /\ task = "unpublished"
             /\ Go(s, [Idle(graph) EXCEPT !.pc = "threw", !.job = j])
             /\ UNCHANGED << row, task >>
          \/ /\ IsScheduled(j) /\ FALSE \in MayBeLate(j) /\ task = "active"
             /\ row' = IF row.status # "none" THEN row
                       ELSE [NoRow(graph) EXCEPT !.status = "queued", !.job = j]
             /\ Accept(s, j, row')
             /\ UNCHANGED task
  /\ worker' = s
  /\ UNCHANGED << graph, trigger, orchs, agentRun, registry, requests, phase, history >>

(* The worker hears of the handler's end; updateTaskAfterFire.               *)
Finish(s) ==
  LET r == runner[s]
      threw == r.pc = "threw"
      heard == worker = s /\ jobs[r.job].state = "active"
  IN /\ r.pc \in { "returned", "threw" }
     /\ jobs' = IF ~heard THEN jobs
                ELSE [jobs EXCEPT ![r.job] = IF threw THEN Retried(@) ELSE [@ EXCEPT !.state = "completed"]]
     /\ task' = IF trigger = "oneshot" /\ IsScheduled(r.job) /\ r.rec.status # "none"
                THEN IF threw THEN "failed" ELSE "paused"
                ELSE task
     /\ worker' = IF worker = s THEN 0 ELSE worker
     /\ Go(s, Idle(graph))
     /\ UNCHANGED << graph, trigger, row, orchs, agentRun, registry, requests, phase, history >>

(* expireInSeconds have passed: of a job whose process has died, or of one   *)
(* whose handler still runs; the worker then waits for it no longer.         *)
Expire(j) ==
  LET atWork == worker # 0 /\ runner[worker].job = j
  IN /\ phase # "down" /\ jobs[j].state = "active"
     /\ atWork => LongRuns
     /\ jobs' = [jobs EXCEPT ![j] = Retried(@)]
     /\ worker' = IF atWork THEN 0 ELSE worker
     /\ UNCHANGED << graph, trigger, row, task, orchs, agentRun, runner, registry, requests,
                     phase, history >>

-------------------------------------------------------------------------------
(* The runner: executeTracked, executeAutomationRun *)

Running(st) == { n \in Nodes : st.nodes[n] = "running" }
Patch(st, n, status, ports) ==
  [st EXCEPT !.nodes[n] = status, !.ports[n] = ports,
             !.pending = IF @.node = n /\ status = "completed" THEN NoPending ELSE @]

(* Permission may be refused; the registry refuses a task it still lists;    *)
(* otherwise a run that was interrupted inside a node is failed, and any     *)
(* other one goes on.                                                        *)
Interrupted(r) == r.rec.status = "running" /\ Running(r.rec.st) # {}
FailInterrupted(st) ==
  [st EXCEPT !.nodes = [n \in Nodes |-> IF st.nodes[n] = "running" THEN "failed" ELSE st.nodes[n]],
             !.agent = FALSE]
Refuses == registry # "none"

Authorize(s) ==
  LET r == runner[s]
  IN /\ r.pc = "authorize"
     /\ \/ Go(s, [r EXCEPT !.pc = "failing"]) /\ UNCHANGED << registry, row >>
        \/ Refuses /\ Go(s, [r EXCEPT !.pc = "refused"]) /\ UNCHANGED << registry, row >>
        \/ /\ ~Refuses /\ Interrupted(r)
           /\ IF Unchanged("running") THEN Save(r.rec, FailInterrupted(r.rec.st), "running")
                                      ELSE UNCHANGED row
           /\ Go(s, [r EXCEPT !.pc = "failing"]) /\ registry' = "ended"
        \/ /\ ~Refuses /\ ~Interrupted(r)
           /\ Go(s, [r EXCEPT !.pc = "orchestrate", !.tracked = TRUE])
           /\ registry' = "running"
           /\ UNCHANGED row
     /\ UNCHANGED << graph, trigger, task, orchs, jobs, agentRun, worker, requests, phase, history >>

Orchestrate(s) ==
  LET r == runner[s]
  IN /\ r.pc = "orchestrate"
     /\ IF r.st.orch # 0
        THEN /\ orchs' = [orchs EXCEPT ![r.st.orch] = IF @ = "waiting_approval" THEN "running" ELSE @]
             /\ Go(s, [r EXCEPT !.pc = "enter"])
        ELSE \E o \in OrchIds :
               /\ orchs[o] = "none" /\ \A p \in OrchIds : p < o => orchs[p] # "none"
               /\ orchs' = [orchs EXCEPT ![o] = "running"]
               /\ Go(s, [r EXCEPT !.pc = "enter", !.st.orch = o])
     /\ UNCHANGED << graph, trigger, row, task, jobs, agentRun, worker, registry, requests, phase, history >>

Enter(s) ==
  LET r == runner[s]
  IN /\ r.pc = "enter"
     /\ \/ /\ Unchanged(r.rec.status) /\ Save(r.rec, r.st, "running")
           /\ Go(s, [r EXCEPT !.pc = "loop"]) /\ UNCHANGED registry
        \/ ~Unchanged(r.rec.status) /\ Throw(s) /\ UNCHANGED row
     /\ UNCHANGED << graph, trigger, task, orchs, jobs, agentRun, worker, requests, phase, history >>

(* The head of the loop reads the row again. *)
LoopAborted(s) ==
  /\ At(s, "loop") /\ runner[s].aborted /\ Throw(s)
  /\ UNCHANGED << graph, trigger, durable, agentRun, worker, requests, phase, history >>

LoopCancelled(s) ==
  /\ At(s, "loop") /\ ~runner[s].aborted /\ row.status = "cancelled"
  /\ IF runner[s].st.agent THEN EndAgent ELSE UNCHANGED agentRun
  /\ EndOrch(runner[s].st.orch, "cancelled")
  /\ Return(s)
  /\ UNCHANGED << graph, trigger, row, task, jobs, worker, requests, phase, history >>

LoopNext(s) ==
  LET r == runner[s]
      st == row.st
      read == [r EXCEPT !.rec = row, !.st = st]
      node == NextNode(graph, st)
  IN /\ r.pc = "loop" /\ ~r.aborted /\ row.status # "cancelled"
     /\ \/ st.pending.answer = "pending" /\ Return(s)
        \/ /\ st.pending.answer # "pending" /\ HasNext(graph, st)
           /\ Go(s, IF IsActive(graph, st, node)
                    THEN [read EXCEPT !.pc = "node", !.node = node]
                    ELSE [read EXCEPT !.pc = "write", !.st = Patch(st, node, "skipped", {})])
           /\ UNCHANGED registry
        \/ /\ st.pending.answer # "pending" /\ ~HasNext(graph, st)
           /\ IF \A n \in Nodes : st.nodes[n] \in Settled
              THEN Go(s, [read EXCEPT !.pc = "complete"]) /\ UNCHANGED registry
              ELSE Leave(s, "stuck")
     /\ UNCHANGED << graph, trigger, durable, agentRun, worker, requests, phase, history >>

StartNodeUnsaved(s) ==
  LET r == runner[s]
      st == [r.st EXCEPT !.nodes[r.node] = "running"]
  IN /\ r.pc = "node"
     /\ \/ /\ Unchanged(r.rec.status) /\ UNCHANGED row
           /\ Go(s, [r EXCEPT !.pc = "act", !.st = st]) /\ UNCHANGED registry
        \/ ~Unchanged(r.rec.status) /\ Throw(s) /\ UNCHANGED row
     /\ UNCHANGED << graph, trigger, task, orchs, jobs, agentRun, worker, requests, phase, history >>

(* persistState before anything is done for the node *)
StartNode(s) ==
  LET r == runner[s]
      st == [r.st EXCEPT !.nodes[r.node] = "running"]
  IN /\ r.pc = "node"
     /\ \/ /\ Unchanged(r.rec.status) /\ Save(r.rec, st, "running")
           /\ Go(s, [r EXCEPT !.pc = "act", !.st = st]) /\ UNCHANGED registry
        \/ ~Unchanged(r.rec.status) /\ Throw(s) /\ UNCHANGED row
     /\ UNCHANGED << graph, trigger, task, orchs, jobs, agentRun, worker, requests, phase, history >>

-------------------------------------------------------------------------------
(* executeNode *)

Rest == << graph, trigger, task, jobs, worker, requests, phase >>

(* completed(): the node's output and the ports it selects *)
Complete(s, ports) ==
  LET r == runner[s]
  IN Go(s, [r EXCEPT !.pc = "write", !.st = [Patch(@, r.node, "completed", ports) EXCEPT !.agent = FALSE]])
Pause(s) ==
  LET r == runner[s]
  IN Go(s, [r EXCEPT !.pc = "write",
                     !.st = [@ EXCEPT !.nodes[r.node] = "waiting_approval",
                                      !.pending = [node |-> r.node, answer |-> "pending"]]])

(* its catch: an error port takes the error, otherwise the run is failed *)
HasErrorPort(n) == OnPort(graph, n, "error") # {}
NodeFails(s) ==
  LET r == runner[s]
      st == [Patch(r.st, r.node, "failed", IF HasErrorPort(r.node) THEN { "error" } ELSE {})
               EXCEPT !.agent = FALSE]
  IN IF HasErrorPort(r.node)
     THEN Go(s, [r EXCEPT !.pc = "write", !.st = st]) /\ UNCHANGED << row, registry >>
     ELSE /\ Throw(s)
          /\ IF Unchanged(r.rec.status) THEN Save(r.rec, st, "failed") ELSE UNCHANGED row

ActPure(s) ==
  LET r == runner[s]
  IN /\ r.pc = "act"
     /\ \/ /\ graph.type[r.node] \in { "trigger", "output" }
           /\ Complete(s, { "default" } \ { p \in { "default" } : graph.type[r.node] = "output" })
           /\ UNCHANGED << row, registry >>
        \/ /\ graph.type[r.node] = "condition"
           /\ \E port \in AllowedPorts("condition") : Complete(s, { port })
           /\ UNCHANGED << row, registry >>
        \/ graph.type[r.node] \in { "condition", "output" } /\ NodeFails(s)
     /\ UNCHANGED << Rest, orchs, agentRun, history >>

ActApproval(s) ==
  LET r == runner[s]
      answered == /\ r.st.pending.node = r.node
                  /\ r.st.pending.answer \in { "approved", "rejected" }
  IN /\ r.pc = "act" /\ graph.type[r.node] = "approval"
     /\ IF answered THEN Complete(s, { r.st.pending.answer }) ELSE Pause(s)
     /\ UNCHANGED << Rest, row, registry, orchs, agentRun, history >>

(* The tool is not executed when it is refused, or the task was aborted; it  *)
(* may fail after it has acted.  A node with more attempts then starts it    *)
(* again, up to maxAttempts of its configuration.                            *)
NeedsConsent(r) == r.node \in graph.asks /\ r.node \notin r.st.approved
StartsTool(n) == acted' = [acted EXCEPT ![n] = @ + 1]
FailsAndTriesAgain(n) ==
  /\ n \in graph.retried
  /\ IF n \in graph.reads THEN UNCHANGED acted ELSE StartsTool(n)
ActTool(s) ==
  LET r == runner[s]
  IN /\ r.pc = "act" /\ graph.type[r.node] = "tool"
     /\ \/ NodeFails(s) /\ UNCHANGED acted
        \/ NeedsConsent(r) /\ Pause(s) /\ UNCHANGED << row, registry, acted >>
        \/ /\ ~NeedsConsent(r) /\ ~r.aborted
           /\ StartsTool(r.node)
           /\ \/ Complete(s, { "default" }) /\ UNCHANGED << row, registry >>
              \/ NodeFails(s)
        \/ /\ ~NeedsConsent(r) /\ ~r.aborted
           /\ FailsAndTriesAgain(r.node)
           /\ UNCHANGED << runner, row, registry >>
     /\ UNCHANGED << Rest, orchs, agentRun, consent, crashes >>

(* executeAgentNode *)
ActAgent(s) ==
  LET r == runner[s]
  IN /\ r.pc = "act" /\ graph.type[r.node] = "agent"
     /\ \/ NodeFails(s)
        \/ /\ Go(s, [r EXCEPT !.pc = "agent_write", !.st.agent = TRUE])
           /\ UNCHANGED << row, registry >>
     /\ UNCHANGED << Rest, orchs, agentRun, history >>

AgentWritten(s) ==
  LET r == runner[s]
  IN /\ r.pc = "agent_write"
     /\ \/ /\ Unchanged(r.rec.status) /\ Save(r.rec, r.st, "running")
           /\ Go(s, [r EXCEPT !.pc = "agent_start"]) /\ UNCHANGED registry
        \/ ~Unchanged(r.rec.status) /\ NodeFails(s)
     /\ UNCHANGED << Rest, orchs, agentRun, history >>

StartAgent(s) ==
  LET r == runner[s]
  IN /\ r.pc = "agent_start"
     /\ \/ r.aborted /\ NodeFails(s) /\ UNCHANGED << agentRun, acted >>
        \/ /\ ~r.aborted
           /\ agentRun' = "active"
           /\ acted' = [acted EXCEPT ![r.node] = @ + 1]
           /\ Go(s, [r EXCEPT !.pc = "agent_wait"]) /\ UNCHANGED << row, registry >>
     /\ UNCHANGED << Rest, orchs, consent, crashes >>

(* It ends by itself or because it is cancelled; one that stopped to wait    *)
(* for an approval has not completed, and waits on behind the failed node.   *)
AgentEnds(s) ==
  LET r == runner[s]
  IN /\ r.pc = "agent_wait"
     /\ \/ agentRun' = "ended" /\ NodeFails(s)
        \/ agentRun = "active" /\ agentRun' = "waiting" /\ NodeFails(s)
        \/ /\ agentRun = "active" /\ ~r.aborted /\ agentRun' = "ended"
           /\ Complete(s, { "default" }) /\ UNCHANGED << row, registry >>
     /\ UNCHANGED << Rest, orchs, history >>

(* persistState of the outcome, its expectation that of the loop's head *)
Write(s) ==
  LET r == runner[s]
      asks == r.st.pending.answer = "pending"
  IN /\ r.pc = "write"
     /\ \/ /\ Unchanged(r.rec.status)
           /\ Save(r.rec, r.st, IF asks THEN "waiting_approval" ELSE "running")
           /\ Go(s, [r EXCEPT !.pc = IF asks THEN "paused" ELSE "loop"])
           /\ UNCHANGED registry
        \/ ~Unchanged(r.rec.status) /\ Throw(s) /\ UNCHANGED row
     /\ UNCHANGED << Rest, orchs, agentRun, history >>

Paused(s) ==
  LET r == runner[s]
  IN /\ r.pc = "paused"
     /\ orchs' = [orchs EXCEPT ![r.st.orch] = "waiting_approval"]
     /\ Return(s)
     /\ UNCHANGED << Rest, row, agentRun, history >>

(* completeAutomationRun: the conversation's run first, then the row *)
CompleteOrch(s) ==
  LET r == runner[s]
  IN /\ r.pc = "complete"
     /\ orchs' = [orchs EXCEPT ![r.st.orch] = "completed"]
     /\ Go(s, [r EXCEPT !.pc = "finish"])
     /\ UNCHANGED << Rest, row, registry, agentRun, history >>

CompleteRow(s) ==
  LET r == runner[s]
  IN /\ r.pc = "finish"
     /\ \/ /\ Unchanged(r.rec.status)
           /\ Save(r.rec, [r.st EXCEPT !.pending = NoPending], "completed")
           /\ Return(s)
        \/ ~Unchanged(r.rec.status) /\ Throw(s) /\ UNCHANGED row
     /\ UNCHANGED << Rest, orchs, agentRun, history >>

(* AbortSignal.timeout: timeoutSeconds of the definition *)
TimesOut(s) ==
  /\ runner[s].pc \in Executing /\ ~runner[s].aborted
  /\ Go(s, [runner[s] EXCEPT !.aborted = TRUE])
  /\ UNCHANGED << Rest, row, registry, orchs, agentRun, history >>

(* failAutomationRun *)
FailReads(s) ==
  /\ runner[s].pc \in { "failing", "refused", "stuck" }
  /\ IF row.status \in { "none", "cancelled", "completed" }
     THEN Go(s, [runner[s] EXCEPT !.pc = "threw"]) /\ UNCHANGED orchs
     ELSE /\ EndOrch(row.st.orch, "failed")
          /\ Go(s, [runner[s] EXCEPT !.pc = "fail_write", !.rec = row])
  /\ UNCHANGED << Rest, row, registry, agentRun, history >>

FailWritesNothing(s) ==
  LET rec == runner[s].rec
  IN /\ At(s, "fail_write")
     /\ UNCHANGED row
     /\ Go(s, [runner[s] EXCEPT !.pc = "threw"])
     /\ UNCHANGED << Rest, registry, orchs, agentRun, history >>
FailWrites(s) ==
  LET rec == runner[s].rec
  IN /\ At(s, "fail_write")
     /\ IF Unchanged(rec.status) THEN Save(rec, rec.st, "failed") ELSE UNCHANGED row
     /\ Go(s, [runner[s] EXCEPT !.pc = "threw"])
     /\ UNCHANGED << Rest, registry, orchs, agentRun, history >>

(* five minutes after a task has ended *)
Forget ==
  /\ registry = "ended"
  /\ registry' = "none"
  /\ UNCHANGED << Rest, row, runner, orchs, agentRun, history >>

Runs(s) ==
  \/ Deliver(s) \/ Finish(s) \/ Authorize(s) \/ Orchestrate(s) \/ Enter(s)
  \/ LoopAborted(s) \/ LoopCancelled(s) \/ LoopNext(s) \/ StartNode(s)
  \/ ActPure(s) \/ ActApproval(s) \/ ActTool(s) \/ ActAgent(s)
  \/ AgentWritten(s) \/ StartAgent(s) \/ AgentEnds(s)
  \/ Write(s) \/ Paused(s) \/ CompleteOrch(s) \/ CompleteRow(s)
  \/ FailReads(s) \/ FailWrites(s)

-------------------------------------------------------------------------------
(* Requests: cancelAutomation *)

CancelRead ==
  /\ phase = "up" /\ cancel.pc = "idle"
  /\ row.status \in { "queued", "running", "waiting_approval" }
  /\ cancel' = [pc |-> "job", rec |-> row]
  /\ UNCHANGED << graph, trigger, durable, agentRun, worker, runner, registry, answer, sending,
                  phase, boot, history >>

CancelJob ==
  /\ cancel.pc = "job"
  /\ jobs' = [jobs EXCEPT ![cancel.rec.job].state = IF IsLive(cancel.rec.job) THEN "cancelled" ELSE @]
  /\ cancel' = [cancel EXCEPT !.pc = "runs"]
  /\ UNCHANGED << graph, trigger, row, task, orchs, agentRun, worker, runner, registry, answer,
                  sending, phase, boot, history >>

CancelRuns ==
  /\ cancel.pc = "runs"
  /\ IF cancel.rec.st.agent THEN EndAgent ELSE UNCHANGED agentRun
  /\ EndOrch(cancel.rec.st.orch, "cancelled")
  /\ cancel' = [cancel EXCEPT !.pc = "write"]
  /\ UNCHANGED << graph, trigger, row, task, jobs, worker, runner, registry, answer, sending,
                  phase, boot, history >>

CancelledState(st) ==
  [st EXCEPT !.nodes = [n \in Nodes |-> IF st.nodes[n] \in Settled THEN st.nodes[n] ELSE "cancelled"],
             !.pending = NoPending]
NoCancel == [pc |-> "idle", rec |-> NoRow(graph)]

CancelWrite ==
  /\ cancel.pc = "write"
  /\ \/ /\ Unchanged(cancel.rec.status)
        /\ Save(cancel.rec, CancelledState(cancel.rec.st), "cancelled")
        /\ cancel' = [cancel EXCEPT !.pc = "abort"]
     \/ ~Unchanged(cancel.rec.status) /\ cancel' = NoCancel /\ UNCHANGED row
  /\ UNCHANGED << graph, trigger, task, orchs, jobs, agentRun, worker, runner, registry, answer,
                  sending, phase, boot, history >>

CancelOnlyTheAgent ==
  /\ cancel.pc = "abort"
  /\ cancel' = NoCancel
  /\ IF registry = "running"
     THEN /\ registry' = "cancelled"
          /\ UNCHANGED runner
          /\ IF \E s \in Slots : At(s, "agent_wait") THEN EndAgent ELSE UNCHANGED agentRun
     ELSE UNCHANGED << registry, runner, agentRun >>
  /\ UNCHANGED << graph, trigger, durable, worker, answer, sending, phase, boot, history >>

(* the abort reaches the agent's run at once, through its listener *)
CancelAbort ==
  /\ cancel.pc = "abort"
  /\ cancel' = NoCancel
  /\ IF registry = "running"
     THEN /\ registry' = "cancelled"
          /\ runner' = [s \in Slots |-> IF runner[s].tracked /\ runner[s].pc \in Executing
                                        THEN [runner[s] EXCEPT !.aborted = TRUE] ELSE runner[s]]
          /\ IF \E s \in Slots : At(s, "agent_wait") THEN EndAgent ELSE UNCHANGED agentRun
     ELSE UNCHANGED << registry, runner, agentRun >>
  /\ UNCHANGED << graph, trigger, durable, worker, answer, sending, phase, boot, history >>

(* respondApproval *)
AnswerRead(u, decision) ==
  /\ phase = "up" /\ answer[u].pc = "idle"
  /\ row.status = "waiting_approval" /\ row.st.pending.answer = "pending"
  /\ answer' = [answer EXCEPT ![u] = [pc |-> "write", rec |-> row, decision |-> decision]]
  /\ UNCHANGED << graph, trigger, durable, agentRun, worker, runner, registry, cancel, sending,
                  phase, boot, history >>

AnsweredAlike(st, decision) ==
  LET n == st.pending.node
  IN [st EXCEPT !.nodes[n] = "pending", !.pending.answer = decision,
                !.approved = IF graph.type[n] = "tool" THEN @ \cup { n } ELSE @]
Answered(st, decision) ==
  LET n == st.pending.node
      tool == graph.type[n] = "tool"
  IN IF decision = "rejected" /\ tool
     THEN [Patch(st, n, "failed", IF HasErrorPort(n) THEN { "error" } ELSE {})
             EXCEPT !.pending = IF HasErrorPort(n) THEN NoPending ELSE [@ EXCEPT !.answer = decision]]
     ELSE [st EXCEPT !.nodes[n] = "pending", !.pending.answer = decision,
                     !.approved = IF tool THEN @ \cup { n } ELSE @]

(* a refused tool without an error port ends the run; otherwise it is queued *)
(* again, under the identity of a new job                                    *)
EndsRun(u) ==
  LET n == answer[u].rec.st.pending.node
  IN answer[u].decision = "rejected" /\ graph.type[n] = "tool" /\ ~HasErrorPort(n)
NewJobs == { j \in Jobs : jobs[j].state = "none" /\ j \notin sending /\ j > row.job }

AnswerWrite(u) ==
  LET a == answer[u]
      st == Answered(a.rec.st, a.decision)
      done == [a EXCEPT !.pc = "idle", !.rec = NoRow(graph), !.decision = "none"]
  IN /\ a.pc = "write"
     /\ answer' = [answer EXCEPT ![u] = done]
     /\ \/ ~Unchanged("waiting_approval") /\ UNCHANGED << row, sending, consent >>
        \/ Unchanged("waiting_approval") /\ EndsRun(u) /\ Save(a.rec, st, "failed")
           /\ UNCHANGED << sending, consent >>
        \/ /\ Unchanged("waiting_approval") /\ ~EndsRun(u) /\ NewJobs # {}
           /\ Save([a.rec EXCEPT !.job = Min(NewJobs)], st, "queued")
           /\ sending' = sending \cup { Min(NewJobs) }
           /\ consent' = IF a.decision = "approved" THEN consent \cup { a.rec.st.pending.node } ELSE consent
     /\ UNCHANGED << graph, trigger, task, orchs, jobs, agentRun, worker, runner, registry, cancel,
                     phase, boot, acted, crashes >>

(* dispatchAutomationRun: a send that fails, whether or not the job is in    *)
(* the queue, fails the run unless a worker has it already                   *)
FailQueued == row' = IF row.status = "queued" THEN [row EXCEPT !.status = "failed"] ELSE row
Dispatch(j) ==
  \/ MaySend(j) /\ Enqueue(j) /\ UNCHANGED row
  \/ MaySend(j) /\ Enqueue(j) /\ FailQueued
  \/ UNCHANGED jobs /\ FailQueued

Send(j) ==
  /\ j \in sending /\ Dispatch(j)
  /\ sending' = sending \ { j }
  /\ UNCHANGED << graph, trigger, task, orchs, agentRun, worker, runner, registry, cancel, answer,
                  phase, boot, history >>

(* disable and publish of AutomationDefinitionService, for the definition a  *)
(* schedule starts; a run that has a row goes on with its own revision.      *)
Scheduled == trigger # "manual"
DisableDefinition == Scheduled /\ task = "active" /\ task' = "unpublished"
PublishDefinition == Scheduled /\ task = "unpublished" /\ task' = "active"
ChangeDefinition ==
  /\ phase = "up"
  /\ DisableDefinition \/ PublishDefinition
  /\ UNCHANGED << graph, trigger, row, orchs, jobs, agentRun, worker, runner, registry, requests,
                  phase, history >>

-------------------------------------------------------------------------------
(* The process *)

Crash ==
  /\ crashes < MaxCrashes /\ phase # "down"
  /\ crashes' = crashes + 1
  /\ phase' = "down"
  /\ runner' = [s \in Slots |-> Idle(graph)] /\ worker' = 0 /\ registry' = "none"
  /\ agentRun' = IF agentRun = "active" THEN "ended" ELSE agentRun
  /\ cancel' = NoCancel /\ sending' = {} /\ boot' = 0
  /\ answer' = [u \in Responders |-> [pc |-> "idle", rec |-> NoRow(graph), decision |-> "none"]]
  /\ UNCHANGED << graph, trigger, durable, acted, consent >>

(* The worker starts first; then the queued runs are listed and sent again   *)
(* under their own identity.  The server answers no request before the end.  *)
Boot ==
  /\ phase = "down"
  /\ phase' = "booting"
  /\ boot' = IF row.status = "queued" THEN row.job ELSE 0
  /\ UNCHANGED << graph, trigger, durable, agentRun, worker, runner, registry, cancel, answer,
                  sending, history >>

HasDispatchId(j) == ~IsScheduled(j)
Reconcile ==
  /\ phase = "booting"
  /\ phase' = "scheduling" /\ boot' = 0
  /\ IF boot = 0 THEN UNCHANGED << row, jobs >>
     ELSE IF HasDispatchId(boot) THEN Dispatch(boot)
     ELSE FailQueued /\ UNCHANGED jobs
  /\ UNCHANGED << graph, trigger, task, orchs, agentRun, worker, runner, registry, cancel, answer,
                  sending, history >>

(* reconcileSchedules: every active task is registered anew.  That replaces  *)
(* the job of a one-shot by another job, for another run; a one-shot that is *)
(* late is only marked, and a registration that throws fails the task.  The  *)
(* schedule of a recurring task has no job to replace.                       *)
CancelScheduledJob == jobs' = [jobs EXCEPT ![1].state = IF IsLive(1) THEN "cancelled" ELSE @]
ReconcileSchedules ==
  /\ phase = "scheduling"
  /\ phase' = "up"
  /\ \/ ~(trigger = "oneshot" /\ Enabled) /\ UNCHANGED << task, jobs >>
     \/ /\ trigger = "oneshot" /\ Enabled /\ TRUE \in MayBeLate(1)
        /\ task' = "missed" /\ CancelScheduledJob
     \/ /\ trigger = "oneshot" /\ Enabled /\ FALSE \in MayBeLate(1)
        /\ UNCHANGED task /\ CancelScheduledJob
     \/ /\ Scheduled /\ Enabled /\ task' = "unregistered"
        /\ UNCHANGED jobs \/ (trigger = "oneshot" /\ CancelScheduledJob)
  /\ UNCHANGED << graph, trigger, row, orchs, agentRun, worker, runner, registry, requests, history >>

-------------------------------------------------------------------------------
Requests ==
  \/ CancelRead \/ CancelJob \/ CancelRuns \/ CancelWrite \/ CancelAbort
  \/ \E u \in Responders : \/ AnswerWrite(u)
                           \/ \E d \in { "approved", "rejected" } : AnswerRead(u, d)
  \/ \E j \in Jobs : Send(j)

NextAutomation ==
  \/ \E s \in Slots : Runs(s) \/ TimesOut(s)
  \/ \E j \in Jobs : Expire(j)
  \/ Forget \/ Requests \/ ChangeDefinition \/ Crash \/ Boot \/ Reconcile \/ ReconcileSchedules

SpecAutomation == InitAutomation /\ [][NextAutomation]_autVars

(* The deliveries go on, the queue expires what a dead process left active,  *)
(* jobs about to be sent are sent, the process is started again, and an      *)
(* answer is written.  Nothing is assumed of the user.                       *)
Housekeeping == Boot \/ Reconcile \/ ReconcileSchedules \/ \E j \in Jobs : Expire(j) \/ Send(j)
FairAutomation ==
  /\ SpecAutomation
  /\ \A s \in Slots : WF_autVars(Runs(s))
  /\ WF_autVars(Housekeeping)
  /\ \A u \in Responders : WF_autVars(AnswerWrite(u))

-------------------------------------------------------------------------------
(* Properties *)

NodeStatuses == { "pending", "running", "waiting_approval" } \cup Settled
States ==
  [ nodes : [Nodes -> NodeStatuses],
    ports : [Nodes -> SUBSET { "default", "error", "true", "false", "approved", "rejected" }],
    pending : { NoPending } \cup [ node : Nodes, answer : { "pending", "approved", "rejected" } ],
    approved : SUBSET Nodes, orch : OrchIds \cup {0}, agent : BOOLEAN ]
Rows ==
  [ status : { "none", "queued", "running", "waiting_approval" } \cup Over,
    job : Jobs \cup {0}, st : States ]
RunnerPcs == Executing \cup { "idle", "authorize", "failing", "refused", "fail_write", "returned",
                              "threw", "stuck" }
Runners == [ pc : RunnerPcs, job : Jobs \cup {0}, rec : Rows, st : States,
             node : Nodes \cup {0}, aborted : BOOLEAN, tracked : BOOLEAN ]
JobStates == [ retries : 0..RetryLimit, state : { "none", "created", "active" } \cup Over ]

TaskStatuses == { "active", "unpublished", "missed", "paused", "failed", "unregistered" }
AgentStatuses == { "none", "active", "waiting", "ended" }

(* Types of the row, the jobs, the deliveries and the requests.              *)
AutomationTypeOK ==
  /\ row \in Rows
  /\ task \in TaskStatuses
  /\ orchs \in [OrchIds -> { "none", "running", "waiting_approval" } \cup Over]
  /\ agentRun \in AgentStatuses
  /\ jobs \in [Jobs -> JobStates]
  /\ worker \in Slots \cup {0}
  /\ runner \in [Slots -> Runners]
  /\ registry \in { "none", "running", "cancelled", "ended" }
  /\ cancel \in [pc : { "idle", "job", "runs", "write", "abort" }, rec : Rows]
  /\ answer \in [Responders -> [ pc : { "idle", "write" }, rec : Rows,
                                 decision : { "none", "approved", "rejected" } ]]
  /\ sending \subseteq Jobs /\ boot \in Jobs \cup {0}
  /\ phase \in { "down", "booting", "scheduling", "up" }
  /\ acted \in [Nodes -> Nat] /\ consent \subseteq Nodes /\ crashes \in 0..MaxCrashes

(* "To avoid repeated side effects" (automationRunner.ts:227): over crashes, *)
(* retries of the queue, attempts of the node and answers, the tool or agent *)
(* of a node is started at most once, but for a tool that only reads.        *)
ActsOnce == \A n \in Nodes : acted[n] <= 1

(* What a retry trusts when it goes on: a node the row still lists as        *)
(* pending has not acted.                                                    *)
PendingIsUntouched == \A n \in Nodes : row.st.nodes[n] = "pending" => acted[n] = 0

(* A tool that asks acts only after somebody approved this very node.        *)
ActsWithConsent == \A n \in graph.asks : acted[n] > 0 => n \in consent

(* findNextNode never leaves undecided nodes behind (the error at            *)
(* automationRunner.ts:262), whatever was skipped, failed or answered.       *)
NeverStuck == \A s \in Slots : runner[s].pc # "stuck"

(* Once a run is cancelled and the request is answered, its agent's run does *)
(* not go on behind it.                                                      *)
CancelStopsTheAgent ==
  row.status = "cancelled" /\ cancel.pc = "idle" => agentRun # "active"

(* A run that is over stays as it is: no writer that read it earlier brings  *)
(* it back.                                                                  *)
OverIsFinal == [][row.status \in Over => row'.status = row.status]_autVars

(* After a cancellation is answered no node acts any more.                   *)
NothingActsAfterCancel ==
  [][row.status = "cancelled" /\ cancel.pc = "idle" => acted' = acted]_autVars

(* A queued or running run comes to rest: it ends, or waits for the user,    *)
(* unless its job was cancelled under it, or the schedule refuses the job:   *)
(* the task of a one-shot was only marked missed, a boot could not register  *)
(* it, or every delivery found the definition disabled.                      *)
AtRest == row.status \in Over \cup { "waiting_approval" }
Abandoned ==
  \E j \in Jobs :
    /\ j = row.job
    /\ \/ jobs[j].state = "cancelled"
       \/ IsScheduled(j) /\ task \in { "missed", "unregistered" }
       \/ IsScheduled(j) /\ trigger = "recurring" /\ jobs[j].state = "failed"
RunComesToRest == row.status \in { "queued", "running" } ~> (AtRest \/ Abandoned)

(* The registry refuses a task only while one with its id is running: the    *)
(* message of backgroundTaskRegistry.ts:38, and the test next to it.         *)
RefusedOnlyWhileRunning ==
  [][\A s \in Slots : At(s, "authorize") /\ runner'[s].pc = "refused" =>
                        \E t \in Slots : runner[t].pc \in Executing]_autVars
===============================================================================
