----------------------------- MODULE Supervisor -----------------------------
(***************************************************************************)
(* The local operations supervisor: it starts, watches, restarts and stops  *)
(* the three background services and remembers their process ids in a file. *)
(*   packages/operations-supervisor/src/supervisor.ts, catalog.ts           *)
(*                                                                          *)
(* Node runs one callback at a time.  A step is the code between two awaits *)
(* that leave the process (ports, files, probes, timers); what runs in      *)
(* promise callbacks before the next such event (Begin, NextDependency,     *)
(* Settle, OpNext) has priority over every other step.                      *)
(* A process is named by the generation of its command.                     *)
(***************************************************************************)
EXTENDS Integers, Sequences, FiniteSets

CONSTANTS
  Services,
  Dependencies,   \* service -> services its definition names
  Rank,           \* place of a service in SERVICE_ORDER
  Infra,          \* the service keepInfra spares
  MaxFailures,    \* 5 in development, 10 in production
  DegradeAfter,   \* failed liveness probes in a row: 3
  RestartAfter,   \* failed liveness probes in a row: 10
  MaxOperations, MaxWindows, MaxCrashes,  \* bounds of the instance
  None

ASSUME CatalogIsOrdered ==
  /\ IsFiniteSet(Services)
  /\ Dependencies \in [Services -> SUBSET Services]
  /\ Rank \in [Services -> 0..(Cardinality(Services) - 1)]
  /\ \A s, t \in Services : Rank[s] = Rank[t] => s = t
  /\ \A s \in Services : \A d \in Dependencies[s] : Rank[d] < Rank[s]
ASSUME SupervisorLimits ==
  /\ { MaxFailures, DegradeAfter, RestartAfter, MaxOperations, MaxWindows, MaxCrashes } \subseteq Nat
  /\ DegradeAfter <= RestartAfter
ASSUME NoneIsNoService == None \notin Services

VARIABLES
  svc,        \* service -> ManagedService
  attempt,    \* service -> the start whose promise is record.startPromise
  op,         \* the operation at the head of operationQueue
  lease,      \* the lease file, the pending writes, and what the first of them writes
  alive,      \* service -> generations whose process tree runs
  signalled,  \* service -> those that were sent a signal
  portTaken,  \* service -> its port is held by a process the supervisor did not start,
              \*            or by what is left of one whose root has ended
  up,         \* the supervisor runs
  born,       \* service -> generation reached when it last started
  operations, windows, crashes

memory == << svc, attempt, op >>
processes == << alive, signalled, portTaken >>
bounds == << operations, windows, crashes >>
supVars == << memory, lease, processes, up, born, bounds >>

Fresh(g) ==
  [ state |-> "stopped", desired |-> FALSE, stopping |-> FALSE, command |-> 0, generation |-> g,
    conflict |-> "none", timer |-> 0, failures |-> 0, monitor |-> 0, misses |-> 0, probe |-> 0 ]
NoAttempt == [ pc |-> "none", left |-> {}, on |-> None, gen |-> 0, ok |-> FALSE, timers |-> {} ]
NoOp == [ pc |-> "idle", stops |-> {}, starts |-> {}, at |-> None, gen |-> 0, oneByOne |-> FALSE ]
NoLeases == [ s \in Services |-> 0 ]

(* Services reachable over Dependencies, and those that reach s.            *)
ClosedUnderDependencies(S) == \A s \in S : Dependencies[s] \subseteq S
TransitiveDependencies(s) ==
  { d \in Services : \A S \in SUBSET Services :
      ClosedUnderDependencies(S) /\ Dependencies[s] \subseteq S => d \in S }
TransitiveDependents(s) == { t \in Services : s \in TransitiveDependencies(t) }
FirstOf(S) == CHOOSE s \in S : \A t \in S : Rank[s] <= Rank[t]
LastOf(S) == CHOOSE s \in S : \A t \in S : Rank[t] <= Rank[s]

Commands == [ s \in Services |-> svc[s].command ]
PortFree(s) == ~portTaken[s]
PortBusy(s) == portTaken[s] \/ alive[s] # {}

(* A promise callback is due: nothing else runs before it.                  *)
Due == op.pc = "next" \/ \E s \in Services : attempt[s].pc \in { "begin", "next", "settled" }

-------------------------------------------------------------------------------
(* Leases: writes are queued; each reads the commands when its turn comes.   *)

WriteLeases(by, s, g, commands) ==
  lease' = [ lease EXCEPT !.queue = Append(@, [ by |-> by, of |-> s, gen |-> g ]),
                          !.draft = IF lease.queue = << >> THEN commands ELSE @ ]

ClosePending(s) ==
  \E i \in DOMAIN lease.queue : lease.queue[i].by = "close" /\ lease.queue[i].of = s

-------------------------------------------------------------------------------
(* Starting a service.  Everyone who asks meanwhile shares the attempt;      *)
(* timers are the generations whose restart timers asked.                    *)

StartSingle(s, timers) ==
  attempt' = [ attempt EXCEPT ![s] =
    IF @.pc = "none" THEN [ NoAttempt EXCEPT !.pc = "begin", !.timers = timers ]
    ELSE [ attempt[s] EXCEPT !.timers = @ \cup timers ] ]

Settled(s, outcome) ==
  attempt' = [ attempt EXCEPT ![s].pc = "settled", ![s].ok = outcome ]

(* A conflict that is not about a port is not retried.                       *)
UnresolvedNever(s) == FALSE
Unresolved(s) == svc[s].state = "conflict" /\ svc[s].conflict # "port"

Begin(s) ==
  /\ attempt[s].pc = "begin"
  /\ \/ /\ svc[s].command # 0
        /\ Settled(s, svc[s].state \in { "healthy", "degraded" })
        /\ UNCHANGED svc
     \/ /\ svc[s].command = 0
        /\ Unresolved(s)
        /\ Settled(s, FALSE)
        /\ UNCHANGED svc
     \/ /\ svc[s].command = 0
        /\ ~Unresolved(s)
        /\ svc' = [ svc EXCEPT ![s].timer = 0 ]
        /\ attempt' = [ attempt EXCEPT ![s].pc = "next", ![s].left = Dependencies[s] ]
  /\ UNCHANGED << op, lease, processes, up, born, bounds >>

NextDependency(s) ==
  /\ attempt[s].pc = "next"
  /\ LET d == FirstOf(attempt[s].left) IN
     \/ /\ attempt[s].left = {}
        /\ attempt' = [ attempt EXCEPT ![s].pc = "ports" ]
        /\ UNCHANGED svc
     \/ /\ attempt[s].left # {} /\ svc[d].state = "healthy"
        /\ attempt' = [ attempt EXCEPT ![s].left = @ \ { d } ]
        /\ UNCHANGED svc
     \/ /\ attempt[s].left # {} /\ svc[d].state # "healthy"
        /\ svc' = [ svc EXCEPT ![s].state = "waiting_dependency" ]
        /\ attempt' = [ attempt EXCEPT
             ![s].pc = "dependency", ![s].on = d,
             ![d] = IF @.pc = "none" THEN [ NoAttempt EXCEPT !.pc = "begin" ] ELSE @ ]
  /\ UNCHANGED << op, lease, processes, up, born, bounds >>

(* The promise settles: waiting attempts and the operation go on or fail,    *)
(* and a restart timer that asked marks its own generation failed.           *)
ResumedOnSuccess(a, s, outcome) ==
  IF a.pc = "dependency" /\ a.on = s /\ outcome
  THEN [ a EXCEPT !.pc = "next", !.left = @ \ { s }, !.on = None ] ELSE a
Resumed(a, s, outcome) ==
  IF a.pc # "dependency" \/ a.on # s THEN a
  ELSE IF outcome THEN [ a EXCEPT !.pc = "next", !.left = @ \ { s }, !.on = None ]
  ELSE [ a EXCEPT !.pc = "settled", !.ok = FALSE, !.on = None ]

TimerCatches(s) ==
  /\ ~attempt[s].ok
  /\ svc[s].generation \in attempt[s].timers /\ svc[s].command = 0
  /\ svc[s].state # "conflict"

Settle(s) ==
  /\ attempt[s].pc = "settled"
  /\ svc' = IF TimerCatches(s) THEN [ svc EXCEPT ![s].state = "failed" ] ELSE svc
  /\ attempt' = [ t \in Services |->
       IF t = s THEN NoAttempt ELSE Resumed(attempt[t], s, attempt[s].ok) ]
  /\ op' = IF op.pc # "starting" \/ op.at # s THEN op
           ELSE IF attempt[s].ok THEN [ op EXCEPT !.pc = "next", !.starts = @ \ { s }, !.at = None ]
           ELSE NoOp
  /\ UNCHANGED << lease, processes, up, born, bounds >>

PortsOccupied(s) ==
  /\ attempt[s].pc = "ports" /\ PortBusy(s)
  /\ svc' = [ svc EXCEPT ![s].state = "conflict", ![s].conflict = "port" ]
  /\ Settled(s, FALSE)
  /\ UNCHANGED << op, lease, processes, up, born, bounds >>

Started(s, g) ==
  [ svc[s] EXCEPT !.conflict = "none", !.desired = TRUE, !.stopping = FALSE,
                  !.state = "starting", !.misses = 0, !.generation = g, !.command = g ]

Spawn(s) ==
  LET g == svc[s].generation + 1 IN
  /\ attempt[s].pc = "ports" /\ PortFree(s)
  /\ svc' = [ svc EXCEPT ![s] = Started(s, g) ]
  /\ alive' = [ alive EXCEPT ![s] = @ \cup { g } ]
  /\ attempt' = [ attempt EXCEPT ![s].pc = "lease", ![s].gen = g ]
  /\ WriteLeases("attempt", s, g, [ Commands EXCEPT ![s] = g ])
  /\ UNCHANGED << op, signalled, portTaken, up, born, bounds >>

(* waitForHealthy: the answer of a probe counts for the command it asked.    *)
SupersededNever(s) == FALSE
Superseded(s) == svc[s].command # attempt[s].gen

StartAnswered(s) ==
  /\ attempt[s].pc = "probing"
  /\ \/ Superseded(s) /\ Settled(s, FALSE) /\ UNCHANGED svc
     \/ /\ ~Superseded(s)
        /\ svc' = [ svc EXCEPT ![s].state = "healthy", ![s].misses = 0,
                               ![s].monitor = attempt[s].gen ]
        /\ Settled(s, TRUE)
  /\ UNCHANGED << op, lease, processes, up, born, bounds >>

StartTimesOutQuietly(s) ==
  /\ attempt[s].pc = "probing"
  /\ Settled(s, FALSE)
  /\ UNCHANGED << svc, op, lease, processes, up, born, bounds >>

StartTimesOut(s) ==
  /\ attempt[s].pc = "probing"
  /\ signalled' = IF Superseded(s) THEN signalled
                  ELSE [ signalled EXCEPT ![s] = @ \cup { attempt[s].gen } ]
  /\ Settled(s, FALSE)
  /\ UNCHANGED << svc, op, lease, alive, portTaken, up, born, bounds >>

-------------------------------------------------------------------------------
(* The end of a process.  Some of its descendants may live on and hold the   *)
(* port.  handleClose clears the handle, waits for the leases, then decides. *)

Closes(s, g) ==
  /\ g \in alive[s]
  /\ alive' = [ alive EXCEPT ![s] = @ \ { g } ]
  /\ signalled' = [ signalled EXCEPT ![s] = @ \ { g } ]
  /\ \E survive \in BOOLEAN : portTaken' = [ portTaken EXCEPT ![s] = @ \/ survive ]
  /\ op' = IF op.pc = "closing" /\ op.at = s /\ op.gen = g THEN [ op EXCEPT !.pc = "released" ]
           ELSE op
  /\ IF svc[s].command = g
     THEN /\ svc' = [ svc EXCEPT ![s].command = 0, ![s].monitor = 0 ]
          /\ WriteLeases("close", s, g, [ Commands EXCEPT ![s] = 0 ])
     ELSE UNCHANGED << svc, lease >>
  /\ UNCHANGED << attempt, up, born, bounds >>

(* failureTimes within the last ten minutes; older ones drop out.            *)
ScheduleRestart(s, g) ==
  \E kept \in 0..svc[s].failures :
    /\ kept < svc[s].failures => windows < MaxWindows
    /\ windows' = IF kept < svc[s].failures THEN windows + 1 ELSE windows
    /\ svc' = [ svc EXCEPT ![s] =
         IF kept + 1 > MaxFailures
         THEN [ @ EXCEPT !.failures = kept + 1, !.desired = FALSE, !.state = "failed" ]
         ELSE [ @ EXCEPT !.failures = kept + 1, !.state = "restart_wait", !.timer = g ] ]

CloseIsStaleNever(s, g) == FALSE
CloseIsStale(s, g) == svc[s].generation # g \/ svc[s].command # 0

AfterClose(s, g) ==
  \/ CloseIsStale(s, g) /\ UNCHANGED << svc, windows >>
  \/ /\ ~CloseIsStale(s, g)
     /\ svc[s].stopping \/ ~svc[s].desired
     /\ svc' = [ svc EXCEPT ![s].state = "stopped", ![s].stopping = FALSE ]
     /\ UNCHANGED windows
  \/ /\ ~CloseIsStale(s, g)
     /\ ~svc[s].stopping /\ svc[s].desired
     /\ ScheduleRestart(s, g)

NextDraftReused == lease.draft
NextDraft == IF Len(lease.queue) > 1 THEN Commands ELSE NoLeases

LeasesWritten ==
  /\ lease.queue # << >>
  /\ lease' = [ file |-> lease.draft, queue |-> Tail(lease.queue), draft |-> NextDraft ]
  /\ LET w == Head(lease.queue) IN
     \/ /\ w.by = "attempt"
        /\ IF svc[w.of].command = w.gen
           THEN attempt' = [ attempt EXCEPT ![w.of].pc = "probing" ]
           ELSE Settled(w.of, FALSE)
        /\ UNCHANGED << svc, op, windows >>
     \/ /\ w.by = "close"
        /\ AfterClose(w.of, w.gen)
        /\ UNCHANGED << attempt, op >>
     \/ /\ w.by = "stop"
        /\ op' = [ op EXCEPT !.pc = "next", !.stops = @ \ { w.of }, !.at = None, !.gen = 0 ]
        /\ UNCHANGED << svc, attempt, windows >>
  /\ UNCHANGED << processes, up, born, operations, crashes >>

TimerIsStale(s, g) ==
  \/ svc[s].generation # g \/ svc[s].command # 0
  \/ ~svc[s].desired \/ svc[s].stopping

TimerFires(s) ==
  /\ svc[s].timer # 0
  /\ svc' = [ svc EXCEPT ![s].timer = 0 ]
  /\ IF TimerIsStale(s, svc[s].timer) THEN UNCHANGED attempt
     ELSE StartSingle(s, { svc[s].timer })
  /\ UNCHANGED << op, lease, processes, up, born, bounds >>

-------------------------------------------------------------------------------
(* The health monitor: one liveness probe of a service at a time.            *)

MonitorProbes(s) ==
  /\ svc[s].monitor # 0 /\ svc[s].monitor = svc[s].command
  /\ ~svc[s].stopping /\ svc[s].probe = 0
  /\ svc' = [ svc EXCEPT ![s].probe = svc[s].command ]
  /\ UNCHANGED << attempt, op, lease, processes, up, born, bounds >>

ProbeIsStale(s) == svc[s].command # svc[s].probe \/ svc[s].stopping

MonitorAnswered(s, healthy) ==
  LET misses == svc[s].misses + 1
      restart == /\ misses >= RestartAfter
                 /\ \A d \in Dependencies[s] : svc[d].state = "healthy"
  IN
  /\ svc[s].probe # 0
  /\ \/ /\ ProbeIsStale(s)
        /\ svc' = [ svc EXCEPT ![s].probe = 0 ]
        /\ UNCHANGED << signalled, windows >>
     \/ /\ ~ProbeIsStale(s) /\ healthy
        /\ \E stable \in BOOLEAN :   \* it has run for ten minutes
             /\ stable /\ svc[s].failures > 0 => windows < MaxWindows
             /\ windows' = IF stable /\ svc[s].failures > 0 THEN windows + 1 ELSE windows
             /\ svc' = [ svc EXCEPT ![s].probe = 0, ![s].misses = 0, ![s].state = "healthy",
                                    ![s].failures = IF stable THEN 0 ELSE @ ]
        /\ UNCHANGED signalled
     \/ /\ ~ProbeIsStale(s) /\ ~healthy
        /\ svc' = [ svc EXCEPT ![s].probe = 0,
                               ![s].misses = IF misses < RestartAfter THEN misses ELSE RestartAfter,
                               ![s].state = IF misses >= DegradeAfter THEN "degraded" ELSE @ ]
        /\ signalled' = IF restart THEN [ signalled EXCEPT ![s] = @ \cup { svc[s].command } ]
                        ELSE signalled
        /\ UNCHANGED windows
  /\ UNCHANGED << attempt, op, lease, alive, portTaken, up, born, operations, crashes >>

-------------------------------------------------------------------------------
(* Operations, one at a time.  stops and starts are what is left of its      *)
(* plan, taken in reverse and in catalog order.                              *)

Execute(stops, starts, oneByOne) ==
  /\ op.pc = "idle" /\ operations < MaxOperations
  /\ operations' = operations + 1
  /\ op' = [ NoOp EXCEPT !.pc = "next", !.stops = stops, !.starts = starts, !.oneByOne = oneByOne ]
  /\ UNCHANGED << attempt, lease, processes, up, born, windows, crashes >>

StartTarget(targets) ==
  /\ Execute({}, targets \cup UNION { TransitiveDependencies(s) : s \in targets }, FALSE)
  /\ UNCHANGED svc

StopTarget(targets, keep) ==
  LET selected == (targets \cup UNION { TransitiveDependents(s) : s \in targets }) \ keep IN
  /\ Execute(selected, {}, FALSE)
  /\ svc' = [ s \in Services |->
       IF s \in selected THEN [ svc[s] EXCEPT !.desired = FALSE ] ELSE svc[s] ]

RestartTarget(targets) ==
  LET selected == targets \cup UNION { TransitiveDependents(s) : s \in targets }
      running == { s \in selected : svc[s].state \notin { "stopped", "conflict" } }
  IN
  /\ Execute(running, targets \cup running, TRUE)
  /\ UNCHANGED svc

Request ==
  \/ \E s \in Services : StartTarget({ s }) \/ StopTarget({ s }, {}) \/ RestartTarget({ s })
  \/ StartTarget(Services) \/ RestartTarget(Services)
  \/ \E keep \in { {}, { Infra } } : StopTarget(Services, keep)

(* The next step of the plan, up to its first await.                         *)
Dropped(s) == [ svc[s] EXCEPT !.timer = 0, !.desired = IF op.oneByOne THEN FALSE ELSE @ ]

StopNext ==
  LET s == LastOf(op.stops) IN
  /\ op.stops # {}
  /\ UNCHANGED attempt
  /\ \/ /\ svc[s].command = 0 /\ svc[s].state \in { "stopped", "conflict" }
        /\ svc' = [ svc EXCEPT ![s] = Dropped(s) ]
        /\ op' = [ op EXCEPT !.stops = @ \ { s } ]
     \/ /\ svc[s].command = 0 /\ svc[s].state \notin { "stopped", "conflict" }
        /\ svc' = [ svc EXCEPT ![s] = Dropped(s) ]
        /\ op' = [ op EXCEPT !.pc = "quiet", !.at = s ]
     \/ /\ svc[s].command # 0
        /\ svc' = [ svc EXCEPT ![s] = [ Dropped(s) EXCEPT !.stopping = TRUE, !.state = "stopping" ] ]
        /\ op' = [ op EXCEPT !.pc = "hook", !.at = s, !.gen = svc[s].command ]

StartNext ==
  LET s == FirstOf(op.starts) IN
  /\ op.stops = {} /\ op.starts # {}
  /\ StartSingle(s, {})
  /\ op' = [ op EXCEPT !.pc = "starting", !.at = s ]
  /\ UNCHANGED svc

Succeeded ==
  /\ op.stops = {} /\ op.starts = {}
  /\ op' = NoOp
  /\ UNCHANGED << svc, attempt >>

OpNext ==
  /\ op.pc = "next"
  /\ StopNext \/ StartNext \/ Succeeded
  /\ UNCHANGED << lease, processes, up, born, bounds >>

(* stopSingle without a process: only the ports are waited for.              *)
QuietEnds ==
  /\ op.pc = "quiet" /\ PortFree(op.at)
  /\ svc' = [ svc EXCEPT ![op.at].state = IF @ = "conflict" THEN @ ELSE "stopped" ]
  /\ op' = [ op EXCEPT !.pc = "next", !.stops = @ \ { op.at }, !.at = None ]
  /\ UNCHANGED << attempt, lease, processes, up, born, bounds >>

(* stopSingle with a process: hook, signal to its tree, close, ports.        *)
HookEnds ==
  /\ op.pc = "hook"
  /\ IF op.gen \in alive[op.at]
     THEN /\ signalled' = [ signalled EXCEPT ![op.at] = @ \cup { op.gen } ]
          /\ op' = [ op EXCEPT !.pc = "closing" ]
     ELSE /\ op' = [ op EXCEPT !.pc = "released" ]
          /\ UNCHANGED signalled
  /\ UNCHANGED << svc, attempt, lease, alive, portTaken, up, born, bounds >>

CloseTimesOut ==
  /\ op.pc = "closing"
  /\ svc' = [ svc EXCEPT ![op.at].state = "failed", ![op.at].stopping = FALSE ]
  /\ op' = NoOp
  /\ UNCHANGED << attempt, lease, processes, up, born, bounds >>

PortsReleased ==
  /\ op.pc = "released" /\ PortFree(op.at)
  /\ svc' = [ svc EXCEPT ![op.at].command = 0, ![op.at].state = "stopped",
                         ![op.at].conflict = "none", ![op.at].stopping = FALSE ]
  /\ op' = [ op EXCEPT !.pc = "lease" ]
  /\ WriteLeases("stop", op.at, op.gen, [ Commands EXCEPT ![op.at] = 0 ])
  /\ UNCHANGED << attempt, processes, up, born, bounds >>

(* No deadline where nothing was signalled. *)
PortsStillTakenAfterClose ==
  /\ op.pc = "released" /\ PortBusy(op.at)
  /\ svc' = [ svc EXCEPT ![op.at].state = "conflict", ![op.at].conflict = "port",
                         ![op.at].stopping = FALSE ]
  /\ op' = NoOp
  /\ UNCHANGED << attempt, lease, processes, up, born, bounds >>

PortsStillTaken ==
  /\ op.pc \in { "quiet", "released" } /\ PortBusy(op.at)
  /\ svc' = [ svc EXCEPT ![op.at].state = "conflict", ![op.at].conflict = "port",
                         ![op.at].stopping = FALSE ]
  /\ op' = NoOp
  /\ UNCHANGED << attempt, lease, processes, up, born, bounds >>

-------------------------------------------------------------------------------
(* The supervisor dies, its children live on; recoverLeases at the start.    *)

Crash ==
  /\ up /\ crashes < MaxCrashes
  /\ up' = FALSE /\ crashes' = crashes + 1
  /\ svc' = [ s \in Services |-> Fresh(svc[s].generation) ]
  /\ attempt' = [ s \in Services |-> NoAttempt ]
  /\ op' = NoOp
  /\ lease' = [ file |-> lease.file, queue |-> << >>, draft |-> NoLeases ]
  /\ UNCHANGED << processes, born, operations, windows >>

(* The lease file, or the table of the host's processes, cannot be read.     *)
RecoversNothing == UNCHANGED << svc, signalled, lease >>

RecoversLeases ==
  /\ \E unverified \in SUBSET { s \in Services : lease.file[s] # 0 } :
       /\ svc' = [ s \in Services |->
            IF s \in unverified
            THEN [ svc[s] EXCEPT !.state = "conflict", !.conflict = "unverified_lease" ]
            ELSE svc[s] ]
       /\ signalled' = [ s \in Services |->
            IF s \in unverified THEN signalled[s]
            ELSE signalled[s] \cup (alive[s] \cap { lease.file[s] }) ]
  /\ lease' = [ lease EXCEPT !.file = NoLeases ]

Boot ==
  /\ ~up
  /\ up' = TRUE
  /\ born' = [ s \in Services |-> svc[s].generation ]
  /\ RecoversNothing \/ RecoversLeases
  /\ UNCHANGED << attempt, op, alive, portTaken, bounds >>

(* Programs of the host take and leave the port.  While a tree of the        *)
(* service runs this can wait for its end, where the port may stay held.     *)
PortTaken(s) ==
  /\ ~portTaken[s] /\ alive[s] = {}
  /\ portTaken' = [ portTaken EXCEPT ![s] = TRUE ]
  /\ UNCHANGED << memory, lease, alive, signalled, up, born, bounds >>

PortLeft(s) ==
  /\ portTaken[s]
  /\ portTaken' = [ portTaken EXCEPT ![s] = FALSE ]
  /\ UNCHANGED << memory, lease, alive, signalled, up, born, bounds >>

-------------------------------------------------------------------------------
InitSupervisor ==
  /\ svc = [ s \in Services |-> Fresh(0) ]
  /\ attempt = [ s \in Services |-> NoAttempt ]
  /\ op = NoOp
  /\ lease = [ file |-> NoLeases, queue |-> << >>, draft |-> NoLeases ]
  /\ alive = [ s \in Services |-> {} ]
  /\ signalled = [ s \in Services |-> {} ]
  /\ portTaken \in [ Services -> BOOLEAN ]
  /\ up = TRUE
  /\ born = [ s \in Services |-> 0 ]
  /\ operations = 0 /\ windows = 0 /\ crashes = 0

Callback == OpNext \/ \E s \in Services : Begin(s) \/ NextDependency(s) \/ Settle(s)

PortsChecked(s) == PortsOccupied(s) \/ Spawn(s)
StartEnds(s) == StartAnswered(s) \/ StartTimesOut(s)
OperationSteps ==
  QuietEnds \/ HookEnds \/ CloseTimesOut \/ PortsReleased \/ PortsStillTaken
ServiceSteps(s) ==
  \/ PortsChecked(s) \/ StartEnds(s) \/ TimerFires(s) \/ MonitorProbes(s)
  \/ \E healthy \in BOOLEAN : MonitorAnswered(s, healthy)

Event ==
  \/ Request \/ OperationSteps \/ LeasesWritten
  \/ \E s \in Services : ServiceSteps(s)

Host ==
  \/ Crash
  \/ \E s \in Services :
       PortTaken(s) \/ PortLeft(s) \/ \E g \in alive[s] : Closes(s, g)

NextSupervisor ==
  \/ up /\ Callback
  \/ up /\ ~Due /\ Event
  \/ ~Due /\ (Host \/ Boot)

SpecSupervisor == InitSupervisor /\ [][NextSupervisor]_supVars

(* Node runs every callback, every wait in the supervisor has a deadline,    *)
(* timers fire, and a process tree that was signalled ends.                  *)
SupervisorFairness ==
  /\ WF_supVars(up /\ Callback)
  /\ WF_supVars(up /\ ~Due /\ LeasesWritten)
  /\ WF_supVars(up /\ ~Due /\ OperationSteps)
  /\ \A s \in Services :
       /\ WF_supVars(up /\ ~Due /\ PortsChecked(s))
       /\ WF_supVars(up /\ ~Due /\ StartEnds(s))
       /\ WF_supVars(up /\ ~Due /\ TimerFires(s))
       /\ WF_supVars(~Due /\ \E g \in signalled[s] : Closes(s, g))

FairSupervisor == SpecSupervisor /\ SupervisorFairness

-------------------------------------------------------------------------------
(* The states of a service and the places of an attempt and of an operation. *)
SupervisorTypeOK ==
  /\ svc \in [ Services ->
       [ state : { "stopped", "starting", "healthy", "degraded", "waiting_dependency",
                   "restart_wait", "stopping", "failed", "conflict" },
         desired : BOOLEAN, stopping : BOOLEAN, command : Nat, generation : Nat,
         conflict : { "none", "port", "unverified_lease" }, timer : Nat, failures : Nat,
         monitor : Nat, misses : 0..RestartAfter, probe : Nat ] ]
  /\ attempt \in [ Services ->
       [ pc : { "none", "begin", "next", "dependency", "ports", "lease", "probing", "settled" },
         left : SUBSET Services, on : Services \cup { None }, gen : Nat, ok : BOOLEAN,
         timers : SUBSET Nat ] ]
  /\ op \in [ pc : { "idle", "next", "starting", "quiet", "hook", "closing", "released", "lease" },
              stops : SUBSET Services, starts : SUBSET Services, at : Services \cup { None },
              gen : Nat, oneByOne : BOOLEAN ]
  /\ lease.file \in [ Services -> Nat ] /\ lease.draft \in [ Services -> Nat ]
  /\ \A s \in Services : svc[s].command \in { 0, svc[s].generation }

(* A service shown healthy or degraded has a process and its monitor watches *)
(* that process, unless the close of it is still waiting for the leases: a   *)
(* late probe or an old attempt never marks another generation.              *)
HealthyIsWatched ==
  \A s \in Services :
    svc[s].state \in { "healthy", "degraded" } =>
      ClosePending(s) \/ (svc[s].command # 0 /\ svc[s].monitor = svc[s].command)

(* A service that waits for its restart will get one: its timer is armed for *)
(* the last generation, an attempt is under way, or an operation is about to *)
(* stop it.  Only a stop that failed at another service leaves it waiting    *)
(* for a restart nobody wants any more.                                      *)
RestartIsComing ==
  \A s \in Services :
    svc[s].state = "restart_wait" =>
      /\ svc[s].command = 0
      /\ \/ ~svc[s].desired
         \/ svc[s].timer = svc[s].generation
         \/ attempt[s].pc # "none"
         \/ s \in op.stops

(* Only a running operation keeps a service in stopping, which turns off its *)
(* monitor and its restarts.                                                 *)
StoppingIsDriven ==
  \A s \in Services : svc[s].stopping => s \in op.stops /\ op.at = s

(* Nobody waits for a promise that is gone: a start that waits for a         *)
(* dependency, and an operation that waits for a start, wait for an attempt  *)
(* that is still under way, and a start waits only for a service before it   *)
(* in the catalog, so starts never wait for one another in a circle.         *)
WaitersAreServed ==
  /\ \A s \in Services :
       attempt[s].pc = "dependency" =>
         /\ attempt[attempt[s].on].pc # "none"
         /\ Rank[attempt[s].on] < Rank[s]
  /\ op.pc = "starting" => attempt[op.at].pc # "none"

(* Once the start of a process has passed its lease write, the file names    *)
(* the process for as long as the supervisor holds it: a supervisor that     *)
(* dies leaves nothing it would not find again.                              *)
LeaseNamesTheProcess ==
  \A s \in Services :
    svc[s].command # 0 /\ attempt[s].pc # "lease" => lease.file[s] = svc[s].command

(* A service set aside because its lease could not be verified stays set     *)
(* aside until the supervisor starts anew: no start, restart or stop of it   *)
(* or of its dependents runs it next to the process it may still have.       *)
UnverifiedStaysAside ==
  [][ \A s \in Services : svc[s].conflict = "unverified_lease" /\ up' =>
        svc'[s].conflict = "unverified_lease" /\ svc'[s].state = "conflict"
          /\ alive'[s] \subseteq alive[s] ]_supVars

(* No operation runs and a service is reported stopped: then none of the     *)
(* process trees this supervisor started for it runs.                        *)
StoppedIsTrue ==
  up /\ op.pc = "idle" =>
    \A s \in Services : svc[s].state = "stopped" => alive[s] \subseteq 0..born[s]

(* Every operation ends, whatever the processes and ports do.                *)
OperationEnds == (op.pc # "idle") ~> (op.pc = "idle")

(* No service stays in starting or stopping, nor in restart_wait while it is  *)
(* desired.                                                                  *)
Transient(s, state) == svc[s].state = state /\ (state = "restart_wait" => svc[s].desired)
TransientStatesPass ==
  \A s \in Services : \A state \in { "starting", "stopping", "restart_wait" } :
    Transient(s, state) ~> ~Transient(s, state)
=============================================================================
