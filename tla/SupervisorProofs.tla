---------------------------- MODULE SupervisorProofs ----------------------------
(***************************************************************************)
(* Proofs about Supervisor, for any catalog of services and any limits.     *)
(*   packages/operations-supervisor/src/supervisor.ts                       *)
(*                                                                          *)
(* SupervisorIsSound is the inductive invariant.  What a step does to the   *)
(* records it touches is stated once, in a lemma named after the step       *)
(* ("Does"); each part of the invariant is then kept with that lemma and    *)
(* the other definitions closed.                                            *)
(***************************************************************************)
EXTENDS Supervisor, FiniteSetTheorems, WellFoundedInduction, TLAPS

Records ==
  [ state : { "stopped", "starting", "healthy", "degraded", "waiting_dependency",
              "restart_wait", "stopping", "failed", "conflict" },
    desired : BOOLEAN, stopping : BOOLEAN, command : Nat, generation : Nat,
    conflict : { "none", "port", "unverified_lease" }, timer : Nat, failures : Nat,
    monitor : Nat, misses : 0..RestartAfter, probe : Nat ]
Attempts ==
  [ pc : { "none", "begin", "next", "dependency", "ports", "lease", "probing", "settled" },
    left : SUBSET Services, on : Services \cup { None }, gen : Nat, ok : BOOLEAN,
    timers : SUBSET Nat ]
Operations ==
  [ pc : { "idle", "next", "starting", "quiet", "hook", "closing", "released", "lease" },
    stops : SUBSET Services, starts : SUBSET Services, at : Services \cup { None },
    gen : Nat, oneByOne : BOOLEAN ]
Entries == [ by : { "attempt", "close", "stop" }, of : Services, gen : Nat ]
Leases == [ file : [Services -> Nat], queue : Seq(Entries), draft : [Services -> Nat] ]

Shapes ==
  /\ svc \in [Services -> Records] /\ attempt \in [Services -> Attempts] /\ op \in Operations
  /\ lease \in Leases
  /\ alive \in [Services -> SUBSET (Nat \ {0})]
  /\ \A s \in Services : svc[s].command \in { 0, svc[s].generation }

(* What the properties look at in a record, when a step has made it.         *)
Looks(r, state, stopping, command, generation, conflict, timer, probe, monitor) ==
  /\ r.state = state /\ r.stopping = stopping /\ r.command = command /\ r.generation = generation
  /\ r.conflict = conflict /\ r.timer = timer /\ r.probe = probe /\ r.monitor = monitor
Tries(a, pc, left, on, gen) == a.pc = pc /\ a.left = left /\ a.on = on /\ a.gen = gen
OthersRest(s) ==
  /\ svc' \in [Services -> Records] /\ attempt' \in [Services -> Attempts]
  /\ \A t \in Services \ {s} : svc'[t] = svc[t] /\ attempt'[t] = attempt[t]
  /\ svc'[s].command \in { 0, svc'[s].generation }

(* The place an operation has in its plan, and the one service it keeps in   *)
(* stopping; its lease write is in the queue once.                           *)
OperationOK ==
  /\ \A s \in Services : svc[s].stopping => op.pc \in { "hook", "closing", "released" } /\ op.at = s
  /\ op.pc \in { "quiet", "hook", "closing", "released", "lease" } => op.at \in op.stops
  /\ op.pc \in { "hook", "closing" } => op.gen # 0
  /\ op.pc = "starting" => op.at \in Services /\ attempt[op.at].pc # "none"
  /\ \A i, j \in DOMAIN lease.queue : lease.queue[i].by = "stop" /\ lease.queue[j].by = "stop" => i = j
  /\ \A i \in DOMAIN lease.queue :
       lease.queue[i].by = "stop" => op.pc = "lease" /\ lease.queue[i].of = op.at

(* An attempt waits for a dependency of its own service, which is tried too. *)
AttemptsOK ==
  \A s \in Services :
    LET a == attempt[s]
    IN /\ a.left \subseteq Dependencies[s]
       /\ a.pc = "dependency" => a.on \in Dependencies[s] /\ attempt[a.on].pc # "none"
       /\ a.pc \in { "lease", "probing" } => a.gen # 0

(* What the file says and the next write will say of the processes held.     *)
LeasesOK ==
  /\ \A s \in Services :
       svc[s].command # 0 /\ attempt[s].pc # "lease" =>
         /\ lease.file[s] = svc[s].command
         /\ lease.queue # << >> => lease.draft[s] = svc[s].command
  /\ \A i \in DOMAIN lease.queue :
       LET s == lease.queue[i].of
       IN lease.queue[i].by = "attempt" =>
            /\ attempt[s].pc = "lease"
            /\ i = 1 /\ svc[s].command # 0 => lease.draft[s] = svc[s].command
  /\ \A i, j \in DOMAIN lease.queue :
       /\ lease.queue[i].by = "attempt" /\ lease.queue[j].by = "attempt"
       /\ lease.queue[i].of = lease.queue[j].of
       => i = j

(* A service shown as serving is watched, or its close is about to be        *)
(* handled; no probe or attempt is ahead of the last generation.             *)
CloseIsComing(s) ==
  \E i \in DOMAIN lease.queue : /\ lease.queue[i].by = "close" /\ lease.queue[i].of = s
                                /\ lease.queue[i].gen = svc[s].generation
WatchOK ==
  \A s \in Services :
    /\ svc[s].state \in { "healthy", "degraded" } =>
         IF svc[s].command = 0 THEN CloseIsComing(s) ELSE svc[s].monitor = svc[s].command
    /\ svc[s].probe <= svc[s].generation
    /\ svc[s].probe # 0 /\ svc[s].probe = svc[s].command => svc[s].monitor = svc[s].command

(* Nothing is left that could touch a service with an unverified lease.      *)
AsideOK ==
  \A s \in Services : svc[s].conflict = "unverified_lease" =>
    /\ svc[s].state = "conflict" /\ svc[s].command = 0 /\ svc[s].timer = 0 /\ svc[s].probe = 0
    /\ attempt[s].pc \in { "none", "begin", "settled" }
    /\ \A i \in DOMAIN lease.queue : lease.queue[i].of # s
    /\ op.at = s => op.pc = "starting"

DownOK ==
  ~up => /\ op = NoOp /\ lease.queue = << >>
         /\ \A s \in Services : svc[s] = Fresh(svc[s].generation) /\ attempt[s] = NoAttempt

SupervisorIsSound ==
  Shapes /\ OperationOK /\ AttemptsOK /\ LeasesOK /\ WatchOK /\ AsideOK /\ DownOK

-------------------------------------------------------------------------------
(* The first and the last of a plan are in it: the catalog is finite and     *)
(* ranks its services.                                                       *)
LEMMA LeastRank ==
  ASSUME NEW S \in SUBSET Services, S # {}, NEW f \in [Services -> Nat]
  PROVE  \E s \in S : \A t \in S : f[s] <= f[t]
<1> DEFINE R == OpToRel(<, Nat)
           V == { f[s] : s \in S }
<1>1. IsWellFoundedOn(R, Nat)
  BY NatLessThanWellFounded
<1>2. \A x, y \in Nat : x < y => << x, y >> \in R
  <2> TAKE x, y \in Nat
  <2> HAVE x < y
  <2>1. R = { ss \in Nat \X Nat : ss[1] < ss[2] }
    BY Zenon DEF OpToRel
  <2>2. QED
    BY <2>1
<1> HIDE DEF R
<1>3. V \in SUBSET Nat /\ V # {}
  OBVIOUS
<1>4. PICK v \in V : \A w \in V : ~(<< w, v >> \in R)
  <2> HIDE DEF V
  <2>1. QED
    BY <1>1, <1>3, WFMin
<1>5. PICK s \in S : f[s] = v
  BY <1>4
<1>6. \A t \in S : f[s] <= f[t]
  <2> TAKE t \in S
  <2>1. f[t] \in V /\ f[t] \in Nat /\ f[s] \in Nat
    OBVIOUS
  <2>2. ~(f[t] < f[s])
    <3> HIDE DEF V
    <3>1. QED
      BY <1>2, <1>4, <1>5, <2>1
  <2>3. QED
    BY <2>1, <2>2
<1>7. QED
  BY <1>6

LEMMA EndsOfAPlan ==
  ASSUME NEW S \in SUBSET Services, S # {}
  PROVE  FirstOf(S) \in S /\ LastOf(S) \in S
<1>1. Cardinality(Services) \in Nat /\ Rank \in [Services -> 0..(Cardinality(Services) - 1)]
  BY CatalogIsOrdered, FS_CardinalityType
<1>2. \E s \in S : \A t \in S : Rank[s] <= Rank[t]
  <2>1. Rank \in [Services -> Nat]
    BY <1>1
  <2>2. QED
    BY <2>1, LeastRank
<1>3. \E s \in S : \A t \in S : Rank[t] <= Rank[s]
  <2> DEFINE f == [s \in Services |-> Cardinality(Services) - 1 - Rank[s]]
  <2>1. f \in [Services -> Nat]
    BY <1>1
  <2>2. PICK s \in S : \A t \in S : f[s] <= f[t]
    <3> HIDE DEF f
    <3>1. QED
      BY <2>1, LeastRank
  <2>3. \A t \in S : Rank[t] <= Rank[s]
    <3> TAKE t \in S
    <3>1. f[s] <= f[t] /\ f[s] = Cardinality(Services) - 1 - Rank[s] /\ f[t] = Cardinality(Services) - 1 - Rank[t]
      BY <2>2
    <3>2. Rank[s] \in Int /\ Rank[t] \in Int
      BY <1>1
    <3>3. QED
      BY <1>1, <3>1, <3>2
  <2>4. QED
    BY <2>3
<1>4. QED
  BY <1>2, <1>3 DEF FirstOf, LastOf

-------------------------------------------------------------------------------
(* What each step does to the records it touches, and what it leaves alone.  *)
LEMMA MissesAreBounded == RestartAfter \in Nat /\ 0 \in 0..RestartAfter
BY SupervisorLimits

LEMMA EndsOfTries ==
  ASSUME NEW a \in Attempts, NEW b \in BOOLEAN
  PROVE  LET e == [a EXCEPT !.pc = "settled", !.ok = b]
         IN e \in Attempts /\ Tries(e, "settled", a.left, a.on, a.gen)
BY DEF Attempts, Tries

LEMMA BeginDoes ==
  ASSUME Shapes, NEW s \in Services, Begin(s)
  PROVE  /\ OthersRest(s) /\ UNCHANGED << op, lease, alive, up >> /\ attempt[s].pc = "begin"
         /\ \/ /\ svc[s].command # 0
               /\ svc'[s] = svc[s]
               /\ Tries(attempt'[s], "settled", attempt[s].left, attempt[s].on, attempt[s].gen)
            \/ /\ svc[s].command = 0
               /\ Unresolved(s)
               /\ svc'[s] = svc[s]
               /\ Tries(attempt'[s], "settled", attempt[s].left, attempt[s].on, attempt[s].gen)
            \/ /\ svc[s].command = 0
               /\ ~Unresolved(s)
               /\ Looks(svc'[s], svc[s].state, svc[s].stopping, svc[s].command, svc[s].generation,
                  svc[s].conflict, 0, svc[s].probe, svc[s].monitor)
               /\ Tries(attempt'[s], "next", Dependencies[s], attempt[s].on, attempt[s].gen)
<1>0. svc[s] \in Records /\ attempt[s] \in Attempts /\ svc[s].command \in { 0, svc[s].generation }
  BY DEF Shapes
<1>n. /\ svc[s].command \in Nat /\ svc[s].generation \in Nat /\ svc[s].timer \in Nat
      /\ svc[s].failures \in Nat /\ attempt[s].gen \in Nat
      /\ svc[s].misses \in 0..RestartAfter /\ svc[s].desired \in BOOLEAN
  BY <1>0 DEF Records, Attempts
<1>c. UNCHANGED << op, lease, alive, up >> /\ attempt[s].pc = "begin"
  BY DEF Begin, Settled, memory, processes, bounds
<1>1. ASSUME svc[s].command # 0
      PROVE  /\ OthersRest(s)
             /\ svc[s].command # 0
             /\ svc'[s] = svc[s]
             /\ Tries(attempt'[s], "settled", attempt[s].left, attempt[s].on, attempt[s].gen)
  <2> DEFINE b == (svc[s].state \in { "healthy", "degraded" })
             r == svc[s]
             a == [attempt[s] EXCEPT !.pc = "settled", !.ok = b]
  <2>6. b \in BOOLEAN
    OBVIOUS
  <2>1. svc' = [svc EXCEPT ![s] = r] /\ attempt' = [attempt EXCEPT ![s] = a]
    BY <1>1 DEF Begin, Settled, memory, processes, bounds, Shapes
  <2> HIDE DEF b
  <2>2. r \in Records /\ r.command \in { 0, r.generation } /\ r = svc[s]
    BY <1>0, <1>n, <1>1, MissesAreBounded DEF Records, Attempts, Looks
  <2>3. a \in Attempts /\ Tries(a, "settled", attempt[s].left, attempt[s].on, attempt[s].gen)
    BY <1>0, <1>n, <1>1, <2>6, CatalogIsOrdered, EndsOfTries
  <2> HIDE DEF r, a
  <2>4. OthersRest(s) /\ svc'[s] = r /\ attempt'[s] = a
    BY <2>1, <2>2, <2>3 DEF Shapes, OthersRest
  <2>5. QED
    BY <1>1, <2>2, <2>3, <2>4
<1>2. ASSUME svc[s].command = 0, Unresolved(s)
      PROVE  /\ OthersRest(s)
             /\ svc[s].command = 0
             /\ Unresolved(s)
             /\ svc'[s] = svc[s]
             /\ Tries(attempt'[s], "settled", attempt[s].left, attempt[s].on, attempt[s].gen)
  <2> DEFINE r == svc[s]
             a == [attempt[s] EXCEPT !.pc = "settled", !.ok = FALSE]
  <2>1. svc' = [svc EXCEPT ![s] = r] /\ attempt' = [attempt EXCEPT ![s] = a]
    BY <1>2 DEF Begin, Settled, memory, processes, bounds, Shapes
  <2>2. r \in Records /\ r.command \in { 0, r.generation } /\ r = svc[s]
    BY <1>0, <1>n, <1>2, MissesAreBounded DEF Records, Attempts, Looks
  <2>3. a \in Attempts /\ Tries(a, "settled", attempt[s].left, attempt[s].on, attempt[s].gen)
    BY <1>0, <1>n, <1>2, CatalogIsOrdered, EndsOfTries DEF Attempts, Tries, NoAttempt
  <2> HIDE DEF r, a
  <2>4. OthersRest(s) /\ svc'[s] = r /\ attempt'[s] = a
    BY <2>1, <2>2, <2>3 DEF Shapes, OthersRest
  <2>5. QED
    BY <1>2, <2>2, <2>3, <2>4
<1>3. ASSUME svc[s].command = 0, ~Unresolved(s)
      PROVE  /\ OthersRest(s)
             /\ svc[s].command = 0
             /\ ~Unresolved(s)
             /\ Looks(svc'[s], svc[s].state, svc[s].stopping, svc[s].command, svc[s].generation,
                svc[s].conflict, 0, svc[s].probe, svc[s].monitor)
             /\ Tries(attempt'[s], "next", Dependencies[s], attempt[s].on, attempt[s].gen)
  <2> DEFINE r == [svc[s] EXCEPT !.timer = 0]
             a == [attempt[s] EXCEPT !.pc = "next", !.left = Dependencies[s]]
  <2>1. svc' = [svc EXCEPT ![s] = r] /\ attempt' = [attempt EXCEPT ![s] = a]
    BY <1>3 DEF Begin, Settled, memory, processes, bounds, Shapes
  <2>2. r \in Records /\ r.command \in { 0, r.generation } /\ Looks(r, svc[s].state,
      svc[s].stopping, svc[s].command, svc[s].generation, svc[s].conflict, 0, svc[s].probe,
      svc[s].monitor)
    BY <1>0, <1>n, <1>3, MissesAreBounded DEF Records, Attempts, Looks
  <2>3. a \in Attempts /\ Tries(a, "next", Dependencies[s], attempt[s].on, attempt[s].gen)
    BY <1>0, <1>n, <1>3, CatalogIsOrdered, EndsOfTries DEF Attempts, Tries, NoAttempt
  <2> HIDE DEF r, a
  <2>4. OthersRest(s) /\ svc'[s] = r /\ attempt'[s] = a
    BY <2>1, <2>2, <2>3 DEF Shapes, OthersRest
  <2>5. QED
    BY <1>3, <2>2, <2>3, <2>4
<1>4. QED
  BY <1>1, <1>2, <1>3, <1>c DEF Begin, Settled, memory, processes, bounds

LEMMA PortsOccupiedDoes ==
  ASSUME Shapes, NEW s \in Services, PortsOccupied(s)
  PROVE  /\ OthersRest(s) /\ UNCHANGED << op, lease, alive, up >>
         /\ attempt[s].pc = "ports"
         /\ Looks(svc'[s], "conflict", svc[s].stopping, svc[s].command, svc[s].generation, "port",
            svc[s].timer, svc[s].probe, svc[s].monitor)
         /\ Tries(attempt'[s], "settled", attempt[s].left, attempt[s].on, attempt[s].gen)
<1>0. svc[s] \in Records /\ attempt[s] \in Attempts /\ svc[s].command \in { 0, svc[s].generation }
  BY DEF Shapes
<1>n. /\ svc[s].command \in Nat /\ svc[s].generation \in Nat /\ svc[s].timer \in Nat
      /\ svc[s].failures \in Nat /\ attempt[s].gen \in Nat
      /\ svc[s].misses \in 0..RestartAfter /\ svc[s].desired \in BOOLEAN
  BY <1>0 DEF Records, Attempts
<1>c. UNCHANGED << op, lease, alive, up >>
  BY DEF PortsOccupied, Settled, memory, processes, bounds
<1>1. QED
  <2> DEFINE r == [svc[s] EXCEPT !.state = "conflict", !.conflict = "port"]
             a == [attempt[s] EXCEPT !.pc = "settled", !.ok = FALSE]
  <2>1. svc' = [svc EXCEPT ![s] = r] /\ attempt' = [attempt EXCEPT ![s] = a]
    BY DEF PortsOccupied, Settled, memory, processes, bounds, Shapes
  <2>2. r \in Records /\ r.command \in { 0, r.generation } /\ Looks(r, "conflict", svc[s].stopping,
      svc[s].command, svc[s].generation, "port", svc[s].timer, svc[s].probe, svc[s].monitor)
    BY <1>0, <1>n, MissesAreBounded DEF Records, Attempts, Looks
  <2>3. a \in Attempts /\ Tries(a, "settled", attempt[s].left, attempt[s].on, attempt[s].gen)
    BY <1>0, <1>n, CatalogIsOrdered, EndsOfTries DEF Attempts, Tries, NoAttempt
  <2> HIDE DEF r, a
  <2>4. OthersRest(s) /\ svc'[s] = r /\ attempt'[s] = a
    BY <2>1, <2>2, <2>3 DEF Shapes, OthersRest
  <2>5. QED
    BY <1>0, <1>c, <2>2, <2>3, <2>4 DEF PortsOccupied, Settled, memory, processes, bounds

LEMMA StartAnsweredDoes ==
  ASSUME Shapes, NEW s \in Services, StartAnswered(s)
  PROVE  /\ OthersRest(s) /\ UNCHANGED << op, lease, alive, up >> /\ attempt[s].pc = "probing"
         /\ \/ /\ Superseded(s)
               /\ svc'[s] = svc[s]
               /\ Tries(attempt'[s], "settled", attempt[s].left, attempt[s].on, attempt[s].gen)
            \/ /\ ~Superseded(s)
               /\ Looks(svc'[s], "healthy", svc[s].stopping, svc[s].command, svc[s].generation,
                  svc[s].conflict, svc[s].timer, svc[s].probe, attempt[s].gen)
               /\ Tries(attempt'[s], "settled", attempt[s].left, attempt[s].on, attempt[s].gen)
<1>0. svc[s] \in Records /\ attempt[s] \in Attempts /\ svc[s].command \in { 0, svc[s].generation }
  BY DEF Shapes
<1>n. /\ svc[s].command \in Nat /\ svc[s].generation \in Nat /\ svc[s].timer \in Nat
      /\ svc[s].failures \in Nat /\ attempt[s].gen \in Nat
      /\ svc[s].misses \in 0..RestartAfter /\ svc[s].desired \in BOOLEAN
  BY <1>0 DEF Records, Attempts
<1>c. UNCHANGED << op, lease, alive, up >> /\ attempt[s].pc = "probing"
  BY DEF StartAnswered, Settled, memory, processes, bounds
<1>1. ASSUME Superseded(s)
      PROVE  /\ OthersRest(s)
             /\ Superseded(s)
             /\ svc'[s] = svc[s]
             /\ Tries(attempt'[s], "settled", attempt[s].left, attempt[s].on, attempt[s].gen)
  <2> DEFINE r == svc[s]
             a == [attempt[s] EXCEPT !.pc = "settled", !.ok = FALSE]
  <2>1. svc' = [svc EXCEPT ![s] = r] /\ attempt' = [attempt EXCEPT ![s] = a]
    BY <1>1 DEF StartAnswered, Settled, memory, processes, bounds, Shapes
  <2>2. r \in Records /\ r.command \in { 0, r.generation } /\ r = svc[s]
    BY <1>0, <1>n, <1>1, MissesAreBounded DEF Records, Attempts, Looks
  <2>3. a \in Attempts /\ Tries(a, "settled", attempt[s].left, attempt[s].on, attempt[s].gen)
    BY <1>0, <1>n, <1>1, CatalogIsOrdered, EndsOfTries DEF Attempts, Tries, NoAttempt
  <2> HIDE DEF r, a
  <2>4. OthersRest(s) /\ svc'[s] = r /\ attempt'[s] = a
    BY <2>1, <2>2, <2>3 DEF Shapes, OthersRest
  <2>5. QED
    BY <1>1, <2>2, <2>3, <2>4
<1>2. ASSUME ~Superseded(s)
      PROVE  /\ OthersRest(s)
             /\ ~Superseded(s)
             /\ Looks(svc'[s], "healthy", svc[s].stopping, svc[s].command, svc[s].generation,
                svc[s].conflict, svc[s].timer, svc[s].probe, attempt[s].gen)
             /\ Tries(attempt'[s], "settled", attempt[s].left, attempt[s].on, attempt[s].gen)
  <2> DEFINE r == [svc[s] EXCEPT !.state = "healthy", !.misses = 0, !.monitor = attempt[s].gen]
             a == [attempt[s] EXCEPT !.pc = "settled", !.ok = TRUE]
  <2>1. svc' = [svc EXCEPT ![s] = r] /\ attempt' = [attempt EXCEPT ![s] = a]
    BY <1>2 DEF StartAnswered, Settled, memory, processes, bounds, Shapes
  <2>2. r \in Records /\ r.command \in { 0, r.generation } /\ Looks(r, "healthy", svc[s].stopping,
      svc[s].command, svc[s].generation, svc[s].conflict, svc[s].timer, svc[s].probe,
      attempt[s].gen)
    BY <1>0, <1>n, <1>2, MissesAreBounded DEF Records, Attempts, Looks
  <2>3. a \in Attempts /\ Tries(a, "settled", attempt[s].left, attempt[s].on, attempt[s].gen)
    BY <1>0, <1>n, <1>2, CatalogIsOrdered, EndsOfTries DEF Attempts, Tries, NoAttempt
  <2> HIDE DEF r, a
  <2>4. OthersRest(s) /\ svc'[s] = r /\ attempt'[s] = a
    BY <2>1, <2>2, <2>3 DEF Shapes, OthersRest
  <2>5. QED
    BY <1>2, <2>2, <2>3, <2>4
<1>3. QED
  BY <1>1, <1>2, <1>c DEF StartAnswered, Settled, memory, processes, bounds

LEMMA StartTimesOutDoes ==
  ASSUME Shapes, NEW s \in Services, StartTimesOut(s)
  PROVE  /\ OthersRest(s) /\ UNCHANGED << op, lease, alive, up >>
         /\ attempt[s].pc = "probing"
         /\ svc'[s] = svc[s]
         /\ Tries(attempt'[s], "settled", attempt[s].left, attempt[s].on, attempt[s].gen)
<1>0. svc[s] \in Records /\ attempt[s] \in Attempts /\ svc[s].command \in { 0, svc[s].generation }
  BY DEF Shapes
<1>n. /\ svc[s].command \in Nat /\ svc[s].generation \in Nat /\ svc[s].timer \in Nat
      /\ svc[s].failures \in Nat /\ attempt[s].gen \in Nat
      /\ svc[s].misses \in 0..RestartAfter /\ svc[s].desired \in BOOLEAN
  BY <1>0 DEF Records, Attempts
<1>c. UNCHANGED << op, lease, alive, up >>
  BY DEF StartTimesOut, Settled, memory, processes, bounds
<1>1. QED
  <2> DEFINE r == svc[s]
             a == [attempt[s] EXCEPT !.pc = "settled", !.ok = FALSE]
  <2>1. svc' = [svc EXCEPT ![s] = r] /\ attempt' = [attempt EXCEPT ![s] = a]
    BY DEF StartTimesOut, Settled, memory, processes, bounds, Shapes
  <2>2. r \in Records /\ r.command \in { 0, r.generation } /\ r = svc[s]
    BY <1>0, <1>n, MissesAreBounded DEF Records, Attempts, Looks
  <2>3. a \in Attempts /\ Tries(a, "settled", attempt[s].left, attempt[s].on, attempt[s].gen)
    BY <1>0, <1>n, CatalogIsOrdered, EndsOfTries DEF Attempts, Tries, NoAttempt
  <2> HIDE DEF r, a
  <2>4. OthersRest(s) /\ svc'[s] = r /\ attempt'[s] = a
    BY <2>1, <2>2, <2>3 DEF Shapes, OthersRest
  <2>5. QED
    BY <1>0, <1>c, <2>2, <2>3, <2>4 DEF StartTimesOut, Settled, memory, processes, bounds

LEMMA MonitorProbesDoes ==
  ASSUME Shapes, NEW s \in Services, MonitorProbes(s)
  PROVE  /\ OthersRest(s) /\ UNCHANGED << op, lease, alive, up >>
         /\ svc[s].monitor # 0
         /\ svc[s].monitor = svc[s].command
         /\ Looks(svc'[s], svc[s].state, svc[s].stopping, svc[s].command, svc[s].generation,
            svc[s].conflict, svc[s].timer, svc[s].command, svc[s].monitor)
         /\ attempt'[s] = attempt[s]
<1>0. svc[s] \in Records /\ attempt[s] \in Attempts /\ svc[s].command \in { 0, svc[s].generation }
  BY DEF Shapes
<1>n. /\ svc[s].command \in Nat /\ svc[s].generation \in Nat /\ svc[s].timer \in Nat
      /\ svc[s].failures \in Nat /\ attempt[s].gen \in Nat
      /\ svc[s].misses \in 0..RestartAfter /\ svc[s].desired \in BOOLEAN
  BY <1>0 DEF Records, Attempts
<1>c. UNCHANGED << op, lease, alive, up >>
  BY DEF MonitorProbes, Settled, memory, processes, bounds
<1>1. QED
  <2> DEFINE r == [svc[s] EXCEPT !.probe = svc[s].command]
             a == attempt[s]
  <2>1. svc' = [svc EXCEPT ![s] = r] /\ attempt' = [attempt EXCEPT ![s] = a]
    BY DEF MonitorProbes, Settled, memory, processes, bounds, Shapes
  <2>2. r \in Records /\ r.command \in { 0, r.generation } /\ Looks(r, svc[s].state,
      svc[s].stopping, svc[s].command, svc[s].generation, svc[s].conflict, svc[s].timer,
      svc[s].command, svc[s].monitor)
    BY <1>0, <1>n, MissesAreBounded DEF Records, Attempts, Looks
  <2>3. a \in Attempts /\ a = attempt[s]
    BY <1>0, <1>n, CatalogIsOrdered, EndsOfTries DEF Attempts, Tries, NoAttempt
  <2> HIDE DEF r, a
  <2>4. OthersRest(s) /\ svc'[s] = r /\ attempt'[s] = a
    BY <2>1, <2>2, <2>3 DEF Shapes, OthersRest
  <2>5. QED
    BY <1>0, <1>c, <2>2, <2>3, <2>4 DEF MonitorProbes, Settled, memory, processes, bounds

LEMMA SpawnDoes ==
  ASSUME Shapes, NEW s \in Services, Spawn(s)
  PROVE  /\ OthersRest(s) /\ UNCHANGED << op, up >>
         /\ attempt[s].pc = "ports"
         /\ Looks(svc'[s], "starting", FALSE, svc[s].generation + 1, svc[s].generation + 1, "none",
            svc[s].timer, svc[s].probe, svc[s].monitor)
         /\ Tries(attempt'[s], "lease", attempt[s].left, attempt[s].on, svc[s].generation + 1)
<1>0. svc[s] \in Records /\ attempt[s] \in Attempts /\ svc[s].command \in { 0, svc[s].generation }
  BY DEF Shapes
<1>n. /\ svc[s].command \in Nat /\ svc[s].generation \in Nat /\ svc[s].timer \in Nat
      /\ svc[s].failures \in Nat /\ attempt[s].gen \in Nat
      /\ svc[s].misses \in 0..RestartAfter /\ svc[s].desired \in BOOLEAN
  BY <1>0 DEF Records, Attempts
<1>c. UNCHANGED << op, up >>
  BY DEF Spawn, Settled, memory, processes, bounds, Started
<1>1. QED
  <2> DEFINE g == svc[s].generation + 1
  <2>7. g \in Nat
    BY <1>n, SupervisorLimits
  <2> DEFINE r == [svc[s] EXCEPT !.conflict = "none", !.desired = TRUE, !.stopping = FALSE, !.state = "starting", !.misses = 0, !.generation = g, !.command = g]
             a == [attempt[s] EXCEPT !.pc = "lease", !.gen = g]
  <2>1. svc' = [svc EXCEPT ![s] = r] /\ attempt' = [attempt EXCEPT ![s] = a]
    BY DEF Spawn, Settled, memory, processes, bounds, Started, Shapes
  <2> HIDE DEF g
  <2>2. r \in Records /\ r.command \in { 0, r.generation } /\ Looks(r, "starting", FALSE, g, g,
      "none", svc[s].timer, svc[s].probe, svc[s].monitor)
    BY <1>0, <1>n, <2>7, MissesAreBounded DEF Records, Attempts, Looks
  <2>3. a \in Attempts /\ Tries(a, "lease", attempt[s].left, attempt[s].on, g)
    BY <1>0, <1>n, <2>7, CatalogIsOrdered, EndsOfTries DEF Attempts, Tries, NoAttempt
  <2> HIDE DEF r, a
  <2>4. OthersRest(s) /\ svc'[s] = r /\ attempt'[s] = a
    BY <2>1, <2>2, <2>3 DEF Shapes, OthersRest
  <2>5. QED
    BY <1>0, <1>c, <2>2, <2>3, <2>4 DEF Spawn, Settled, memory, processes, bounds, Started, g

LEMMA ClosesDoes ==
  ASSUME Shapes, NEW s \in Services, NEW g \in alive[s], Closes(s, g)
  PROVE  /\ OthersRest(s) /\ UNCHANGED up
         /\ \/ /\ svc[s].command = g
               /\ Looks(svc'[s], svc[s].state, svc[s].stopping, 0, svc[s].generation,
                  svc[s].conflict, svc[s].timer, svc[s].probe, 0)
               /\ attempt'[s] = attempt[s]
            \/ /\ svc[s].command # g
               /\ svc'[s] = svc[s]
               /\ attempt'[s] = attempt[s]
<1>0. svc[s] \in Records /\ attempt[s] \in Attempts /\ svc[s].command \in { 0, svc[s].generation }
  BY DEF Shapes
<1>n. /\ svc[s].command \in Nat /\ svc[s].generation \in Nat /\ svc[s].timer \in Nat
      /\ svc[s].failures \in Nat /\ attempt[s].gen \in Nat
      /\ svc[s].misses \in 0..RestartAfter /\ svc[s].desired \in BOOLEAN
  BY <1>0 DEF Records, Attempts
<1>c. UNCHANGED up
  BY DEF Closes, Settled, memory, processes, bounds
<1>1. ASSUME svc[s].command = g
      PROVE  /\ OthersRest(s)
             /\ svc[s].command = g
             /\ Looks(svc'[s], svc[s].state, svc[s].stopping, 0, svc[s].generation, svc[s].conflict,
                svc[s].timer, svc[s].probe, 0)
             /\ attempt'[s] = attempt[s]
  <2> DEFINE r == [svc[s] EXCEPT !.command = 0, !.monitor = 0]
             a == attempt[s]
  <2>1. svc' = [svc EXCEPT ![s] = r] /\ attempt' = [attempt EXCEPT ![s] = a]
    BY <1>1 DEF Closes, Settled, memory, processes, bounds, Shapes
  <2>2. r \in Records /\ r.command \in { 0, r.generation } /\ Looks(r, svc[s].state,
      svc[s].stopping, 0, svc[s].generation, svc[s].conflict, svc[s].timer, svc[s].probe, 0)
    BY <1>0, <1>n, <1>1, MissesAreBounded DEF Records, Attempts, Looks
  <2>3. a \in Attempts /\ a = attempt[s]
    BY <1>0, <1>n, <1>1, CatalogIsOrdered, EndsOfTries DEF Attempts, Tries, NoAttempt
  <2> HIDE DEF r, a
  <2>4. OthersRest(s) /\ svc'[s] = r /\ attempt'[s] = a
    BY <2>1, <2>2, <2>3 DEF Shapes, OthersRest
  <2>5. QED
    BY <1>1, <2>2, <2>3, <2>4
<1>2. ASSUME svc[s].command # g
      PROVE  /\ OthersRest(s)
             /\ svc[s].command # g
             /\ svc'[s] = svc[s]
             /\ attempt'[s] = attempt[s]
  <2> DEFINE r == svc[s]
             a == attempt[s]
  <2>1. svc' = [svc EXCEPT ![s] = r] /\ attempt' = [attempt EXCEPT ![s] = a]
    BY <1>2 DEF Closes, Settled, memory, processes, bounds, Shapes
  <2>2. r \in Records /\ r.command \in { 0, r.generation } /\ r = svc[s]
    BY <1>0, <1>n, <1>2, MissesAreBounded DEF Records, Attempts, Looks
  <2>3. a \in Attempts /\ a = attempt[s]
    BY <1>0, <1>n, <1>2, CatalogIsOrdered, EndsOfTries DEF Attempts, Tries, NoAttempt
  <2> HIDE DEF r, a
  <2>4. OthersRest(s) /\ svc'[s] = r /\ attempt'[s] = a
    BY <2>1, <2>2, <2>3 DEF Shapes, OthersRest
  <2>5. QED
    BY <1>2, <2>2, <2>3, <2>4
<1>3. QED
  BY <1>1, <1>2, <1>c DEF Closes, Settled, memory, processes, bounds

LEMMA TimerFiresDoes ==
  ASSUME Shapes, NEW s \in Services, TimerFires(s)
  PROVE  /\ OthersRest(s) /\ UNCHANGED << op, lease, alive, up >> /\ svc[s].timer # 0
         /\ \/ /\ TimerIsStale(s, svc[s].timer)
               /\ Looks(svc'[s], svc[s].state, svc[s].stopping, svc[s].command, svc[s].generation,
                  svc[s].conflict, 0, svc[s].probe, svc[s].monitor)
               /\ attempt'[s] = attempt[s]
            \/ /\ ~TimerIsStale(s, svc[s].timer)
               /\ attempt[s].pc = "none"
               /\ Looks(svc'[s], svc[s].state, svc[s].stopping, svc[s].command, svc[s].generation,
                  svc[s].conflict, 0, svc[s].probe, svc[s].monitor)
               /\ Tries(attempt'[s], "begin", {}, None, 0)
            \/ /\ ~TimerIsStale(s, svc[s].timer)
               /\ attempt[s].pc # "none"
               /\ Looks(svc'[s], svc[s].state, svc[s].stopping, svc[s].command, svc[s].generation,
                  svc[s].conflict, 0, svc[s].probe, svc[s].monitor)
               /\ Tries(attempt'[s], attempt[s].pc, attempt[s].left, attempt[s].on, attempt[s].gen)
<1>0. svc[s] \in Records /\ attempt[s] \in Attempts /\ svc[s].command \in { 0, svc[s].generation }
  BY DEF Shapes
<1>n. /\ svc[s].command \in Nat /\ svc[s].generation \in Nat /\ svc[s].timer \in Nat
      /\ svc[s].failures \in Nat /\ attempt[s].gen \in Nat
      /\ svc[s].misses \in 0..RestartAfter /\ svc[s].desired \in BOOLEAN
  BY <1>0 DEF Records, Attempts
<1>c. UNCHANGED << op, lease, alive, up >> /\ svc[s].timer # 0
  BY DEF TimerFires, Settled, memory, processes, bounds, StartSingle
<1>1. ASSUME TimerIsStale(s, svc[s].timer)
      PROVE  /\ OthersRest(s)
             /\ TimerIsStale(s, svc[s].timer)
             /\ Looks(svc'[s], svc[s].state, svc[s].stopping, svc[s].command, svc[s].generation,
                svc[s].conflict, 0, svc[s].probe, svc[s].monitor)
             /\ attempt'[s] = attempt[s]
  <2> DEFINE r == [svc[s] EXCEPT !.timer = 0]
             a == attempt[s]
  <2>1. svc' = [svc EXCEPT ![s] = r] /\ attempt' = [attempt EXCEPT ![s] = a]
    <3>1. svc' = [svc EXCEPT ![s] = r]
      BY <1>1 DEF TimerFires
    <3>2. attempt' = [attempt EXCEPT ![s] = a]
      BY <1>0, <1>1 DEF TimerFires, StartSingle, Shapes
    <3>3. QED
      BY <3>1, <3>2
  <2>2. r \in Records /\ r.command \in { 0, r.generation } /\ Looks(r, svc[s].state,
      svc[s].stopping, svc[s].command, svc[s].generation, svc[s].conflict, 0, svc[s].probe,
      svc[s].monitor)
    BY <1>0, <1>n, <1>1, MissesAreBounded DEF Records, Attempts, Looks
  <2>3. a \in Attempts /\ a = attempt[s]
    BY <1>0, <1>n, <1>1, CatalogIsOrdered, EndsOfTries DEF Attempts, Tries, NoAttempt
  <2> HIDE DEF r, a
  <2>4. OthersRest(s) /\ svc'[s] = r /\ attempt'[s] = a
    BY <2>1, <2>2, <2>3 DEF Shapes, OthersRest
  <2>5. QED
    BY <1>1, <2>2, <2>3, <2>4
<1>2. ASSUME ~TimerIsStale(s, svc[s].timer), attempt[s].pc = "none"
      PROVE  /\ OthersRest(s)
             /\ ~TimerIsStale(s, svc[s].timer)
             /\ attempt[s].pc = "none"
             /\ Looks(svc'[s], svc[s].state, svc[s].stopping, svc[s].command, svc[s].generation,
                svc[s].conflict, 0, svc[s].probe, svc[s].monitor)
             /\ Tries(attempt'[s], "begin", {}, None, 0)
  <2> DEFINE r == [svc[s] EXCEPT !.timer = 0]
             a == [NoAttempt EXCEPT !.pc = "begin", !.timers = { svc[s].timer }]
  <2>1. svc' = [svc EXCEPT ![s] = r] /\ attempt' = [attempt EXCEPT ![s] = a]
    <3>1. svc' = [svc EXCEPT ![s] = r]
      BY <1>2 DEF TimerFires
    <3>2. attempt' = [attempt EXCEPT ![s] = a]
      BY <1>0, <1>2 DEF TimerFires, StartSingle, Shapes
    <3>3. QED
      BY <3>1, <3>2
  <2>2. r \in Records /\ r.command \in { 0, r.generation } /\ Looks(r, svc[s].state,
      svc[s].stopping, svc[s].command, svc[s].generation, svc[s].conflict, 0, svc[s].probe,
      svc[s].monitor)
    BY <1>0, <1>n, <1>2, MissesAreBounded DEF Records, Attempts, Looks
  <2>3. a \in Attempts /\ Tries(a, "begin", {}, None, 0)
    BY <1>0, <1>n, <1>2, CatalogIsOrdered, EndsOfTries DEF Attempts, Tries, NoAttempt
  <2> HIDE DEF r, a
  <2>4. OthersRest(s) /\ svc'[s] = r /\ attempt'[s] = a
    BY <2>1, <2>2, <2>3 DEF Shapes, OthersRest
  <2>5. QED
    BY <1>2, <2>2, <2>3, <2>4
<1>3. ASSUME ~TimerIsStale(s, svc[s].timer), attempt[s].pc # "none"
      PROVE  /\ OthersRest(s)
             /\ ~TimerIsStale(s, svc[s].timer)
             /\ attempt[s].pc # "none"
             /\ Looks(svc'[s], svc[s].state, svc[s].stopping, svc[s].command, svc[s].generation,
                svc[s].conflict, 0, svc[s].probe, svc[s].monitor)
             /\ Tries(attempt'[s], attempt[s].pc, attempt[s].left, attempt[s].on, attempt[s].gen)
  <2> DEFINE r == [svc[s] EXCEPT !.timer = 0]
             a == [attempt[s] EXCEPT !.timers = attempt[s].timers \cup { svc[s].timer }]
  <2>1. svc' = [svc EXCEPT ![s] = r] /\ attempt' = [attempt EXCEPT ![s] = a]
    <3>1. svc' = [svc EXCEPT ![s] = r]
      BY <1>3 DEF TimerFires
    <3>2. attempt' = [attempt EXCEPT ![s] = a]
      BY <1>0, <1>3 DEF TimerFires, StartSingle, Shapes
    <3>3. QED
      BY <3>1, <3>2
  <2>2. r \in Records /\ r.command \in { 0, r.generation } /\ Looks(r, svc[s].state,
      svc[s].stopping, svc[s].command, svc[s].generation, svc[s].conflict, 0, svc[s].probe,
      svc[s].monitor)
    BY <1>0, <1>n, <1>3, MissesAreBounded DEF Records, Attempts, Looks
  <2>3. a \in Attempts /\ Tries(a, attempt[s].pc, attempt[s].left, attempt[s].on, attempt[s].gen)
    BY <1>0, <1>n, <1>3, CatalogIsOrdered, EndsOfTries DEF Attempts, Tries, NoAttempt
  <2> HIDE DEF r, a
  <2>4. OthersRest(s) /\ svc'[s] = r /\ attempt'[s] = a
    BY <2>1, <2>2, <2>3 DEF Shapes, OthersRest
  <2>5. QED
    BY <1>3, <2>2, <2>3, <2>4
<1>4. QED
  BY <1>1, <1>2, <1>3, <1>c DEF TimerFires, Settled, memory, processes, bounds, StartSingle

LEMMA MonitorAnsweredDoes ==
  ASSUME Shapes, NEW s \in Services, NEW healthy \in BOOLEAN, MonitorAnswered(s, healthy)
  PROVE  /\ OthersRest(s) /\ UNCHANGED << op, lease, alive, up >> /\ svc[s].probe # 0
         /\ \/ /\ ProbeIsStale(s)
               /\ Looks(svc'[s], svc[s].state, svc[s].stopping, svc[s].command, svc[s].generation,
                  svc[s].conflict, svc[s].timer, 0, svc[s].monitor)
               /\ attempt'[s] = attempt[s]
            \/ /\ ~ProbeIsStale(s)
               /\ Looks(svc'[s], "healthy", svc[s].stopping, svc[s].command, svc[s].generation,
                  svc[s].conflict, svc[s].timer, 0, svc[s].monitor)
               /\ attempt'[s] = attempt[s]
            \/ /\ ~ProbeIsStale(s)
               /\ Looks(svc'[s], IF svc[s].misses + 1 >= DegradeAfter THEN "degraded" ELSE
                  svc[s].state, svc[s].stopping, svc[s].command, svc[s].generation, svc[s].conflict,
                  svc[s].timer, 0, svc[s].monitor)
               /\ attempt'[s] = attempt[s]
<1>0. svc[s] \in Records /\ attempt[s] \in Attempts /\ svc[s].command \in { 0, svc[s].generation }
  BY DEF Shapes
<1>n. /\ svc[s].command \in Nat /\ svc[s].generation \in Nat /\ svc[s].timer \in Nat
      /\ svc[s].failures \in Nat /\ attempt[s].gen \in Nat
      /\ svc[s].misses \in 0..RestartAfter /\ svc[s].desired \in BOOLEAN
  BY <1>0 DEF Records, Attempts
<1>c. UNCHANGED << op, lease, alive, up >> /\ svc[s].probe # 0
  BY DEF MonitorAnswered, Settled, memory, processes, bounds
<1>1. ASSUME ProbeIsStale(s)
      PROVE  /\ OthersRest(s)
             /\ ProbeIsStale(s)
             /\ Looks(svc'[s], svc[s].state, svc[s].stopping, svc[s].command, svc[s].generation,
                svc[s].conflict, svc[s].timer, 0, svc[s].monitor)
             /\ attempt'[s] = attempt[s]
  <2> DEFINE r == [svc[s] EXCEPT !.probe = 0]
             a == attempt[s]
  <2>1. svc' = [svc EXCEPT ![s] = r] /\ attempt' = [attempt EXCEPT ![s] = a]
    BY <1>1 DEF MonitorAnswered, Settled, memory, processes, bounds, Shapes
  <2>2. r \in Records /\ r.command \in { 0, r.generation } /\ Looks(r, svc[s].state,
      svc[s].stopping, svc[s].command, svc[s].generation, svc[s].conflict, svc[s].timer, 0,
      svc[s].monitor)
    BY <1>0, <1>n, <1>1, MissesAreBounded DEF Records, Attempts, Looks
  <2>3. a \in Attempts /\ a = attempt[s]
    BY <1>0, <1>n, <1>1, CatalogIsOrdered, EndsOfTries DEF Attempts, Tries, NoAttempt
  <2> HIDE DEF r, a
  <2>4. OthersRest(s) /\ svc'[s] = r /\ attempt'[s] = a
    BY <2>1, <2>2, <2>3 DEF Shapes, OthersRest
  <2>5. QED
    BY <1>1, <2>2, <2>3, <2>4
<1>2. ASSUME NEW stable \in BOOLEAN, ~ProbeIsStale(s), svc' = [svc EXCEPT ![s].probe = 0,
             ![s].misses = 0, ![s].state = "healthy", ![s].failures = IF stable THEN 0 ELSE @]
      PROVE  /\ OthersRest(s)
             /\ ~ProbeIsStale(s)
             /\ Looks(svc'[s], "healthy", svc[s].stopping, svc[s].command, svc[s].generation,
                svc[s].conflict, svc[s].timer, 0, svc[s].monitor)
             /\ attempt'[s] = attempt[s]
  <2> DEFINE f == IF stable THEN 0 ELSE svc[s].failures
  <2>7. f \in Nat
    BY <1>n, <1>2, SupervisorLimits
  <2> DEFINE r == [svc[s] EXCEPT !.probe = 0, !.misses = 0, !.state = "healthy", !.failures = f]
             a == attempt[s]
  <2>1. svc' = [svc EXCEPT ![s] = r] /\ attempt' = [attempt EXCEPT ![s] = a]
    BY <1>2 DEF MonitorAnswered, Settled, memory, processes, bounds, Shapes
  <2> HIDE DEF f
  <2>2. r \in Records /\ r.command \in { 0, r.generation } /\ Looks(r, "healthy", svc[s].stopping,
      svc[s].command, svc[s].generation, svc[s].conflict, svc[s].timer, 0, svc[s].monitor)
    BY <1>0, <1>n, <2>7, <1>2, MissesAreBounded DEF Records, Attempts, Looks
  <2>3. a \in Attempts /\ a = attempt[s]
    BY <1>0, <1>n, <2>7, <1>2, CatalogIsOrdered, EndsOfTries DEF Attempts, Tries, NoAttempt
  <2> HIDE DEF r, a
  <2>4. OthersRest(s) /\ svc'[s] = r /\ attempt'[s] = a
    BY <2>1, <2>2, <2>3 DEF Shapes, OthersRest
  <2>5. QED
    BY <1>2, <2>2, <2>3, <2>4 DEF f
<1>3. ASSUME ~ProbeIsStale(s), ~healthy
      PROVE  /\ OthersRest(s)
             /\ ~ProbeIsStale(s)
             /\ Looks(svc'[s], IF svc[s].misses + 1 >= DegradeAfter THEN "degraded" ELSE
                svc[s].state, svc[s].stopping, svc[s].command, svc[s].generation, svc[s].conflict,
                svc[s].timer, 0, svc[s].monitor)
             /\ attempt'[s] = attempt[s]
  <2> DEFINE m == IF svc[s].misses + 1 < RestartAfter THEN svc[s].misses + 1 ELSE RestartAfter
  <2> DEFINE st == IF svc[s].misses + 1 >= DegradeAfter THEN "degraded" ELSE svc[s].state
  <2>7. m \in 0..RestartAfter
    BY <1>n, <1>3, SupervisorLimits
  <2>8. st \in { "degraded", svc[s].state }
    BY <1>n, <1>3, SupervisorLimits
  <2> DEFINE r == [svc[s] EXCEPT !.probe = 0, !.misses = m, !.state = st]
             a == attempt[s]
  <2>1. svc' = [svc EXCEPT ![s] = r] /\ attempt' = [attempt EXCEPT ![s] = a]
    BY <1>3 DEF MonitorAnswered, Settled, memory, processes, bounds, Shapes
  <2> HIDE DEF m, st
  <2>2. r \in Records /\ r.command \in { 0, r.generation } /\ Looks(r, st, svc[s].stopping,
      svc[s].command, svc[s].generation, svc[s].conflict, svc[s].timer, 0, svc[s].monitor)
    BY <1>0, <1>n, <2>7, <2>8, <1>3, MissesAreBounded DEF Records, Attempts, Looks
  <2>3. a \in Attempts /\ a = attempt[s]
    BY <1>0, <1>n, <2>7, <2>8, <1>3, CatalogIsOrdered, EndsOfTries DEF Attempts, Tries, NoAttempt
  <2> HIDE DEF r, a
  <2>4. OthersRest(s) /\ svc'[s] = r /\ attempt'[s] = a
    BY <2>1, <2>2, <2>3 DEF Shapes, OthersRest
  <2>5. QED
    BY <1>3, <2>2, <2>3, <2>4 DEF m, st
<1>4. QED
  BY <1>1, <1>2, <1>3, <1>c DEF MonitorAnswered, Settled, memory, processes, bounds

LEMMA AttemptIsWritten ==
  ASSUME Shapes, NEW s \in Services, s = Head(lease.queue).of, LeasesWritten, Head(lease.queue).by = "attempt"
  PROVE  /\ OthersRest(s) /\ UNCHANGED << op, alive, up >>
         /\ \/ /\ svc[s].command = Head(lease.queue).gen
               /\ svc'[s] = svc[s]
               /\ Tries(attempt'[s], "probing", attempt[s].left, attempt[s].on, attempt[s].gen)
            \/ /\ svc[s].command # Head(lease.queue).gen
               /\ svc'[s] = svc[s]
               /\ Tries(attempt'[s], "settled", attempt[s].left, attempt[s].on, attempt[s].gen)
<1>0. svc[s] \in Records /\ attempt[s] \in Attempts /\ svc[s].command \in { 0, svc[s].generation }
  BY DEF Shapes
<1>n. /\ svc[s].command \in Nat /\ svc[s].generation \in Nat /\ svc[s].timer \in Nat
      /\ svc[s].failures \in Nat /\ attempt[s].gen \in Nat
      /\ svc[s].misses \in 0..RestartAfter /\ svc[s].desired \in BOOLEAN
  BY <1>0 DEF Records, Attempts
<1>c. UNCHANGED << op, alive, up >>
  BY DEF LeasesWritten, Settled, memory, processes, bounds
<1>1. ASSUME svc[s].command = Head(lease.queue).gen
      PROVE  /\ OthersRest(s)
             /\ svc[s].command = Head(lease.queue).gen
             /\ svc'[s] = svc[s]
             /\ Tries(attempt'[s], "probing", attempt[s].left, attempt[s].on, attempt[s].gen)
  <2> DEFINE r == svc[s]
             a == [attempt[s] EXCEPT !.pc = "probing"]
  <2>1. svc' = [svc EXCEPT ![s] = r] /\ attempt' = [attempt EXCEPT ![s] = a]
    BY <1>1 DEF LeasesWritten, Settled, memory, processes, bounds, Shapes
  <2>2. r \in Records /\ r.command \in { 0, r.generation } /\ r = svc[s]
    BY <1>0, <1>n, <1>1, MissesAreBounded DEF Records, Attempts, Looks
  <2>3. a \in Attempts /\ Tries(a, "probing", attempt[s].left, attempt[s].on, attempt[s].gen)
    BY <1>0, <1>n, <1>1, CatalogIsOrdered, EndsOfTries DEF Attempts, Tries, NoAttempt
  <2> HIDE DEF r, a
  <2>4. OthersRest(s) /\ svc'[s] = r /\ attempt'[s] = a
    BY <2>1, <2>2, <2>3 DEF Shapes, OthersRest
  <2>5. QED
    BY <1>1, <2>2, <2>3, <2>4
<1>2. ASSUME svc[s].command # Head(lease.queue).gen
      PROVE  /\ OthersRest(s)
             /\ svc[s].command # Head(lease.queue).gen
             /\ svc'[s] = svc[s]
             /\ Tries(attempt'[s], "settled", attempt[s].left, attempt[s].on, attempt[s].gen)
  <2> DEFINE r == svc[s]
             a == [attempt[s] EXCEPT !.pc = "settled", !.ok = FALSE]
  <2>1. svc' = [svc EXCEPT ![s] = r] /\ attempt' = [attempt EXCEPT ![s] = a]
    BY <1>2 DEF LeasesWritten, Settled, memory, processes, bounds, Shapes
  <2>2. r \in Records /\ r.command \in { 0, r.generation } /\ r = svc[s]
    BY <1>0, <1>n, <1>2, MissesAreBounded DEF Records, Attempts, Looks
  <2>3. a \in Attempts /\ Tries(a, "settled", attempt[s].left, attempt[s].on, attempt[s].gen)
    BY <1>0, <1>n, <1>2, CatalogIsOrdered, EndsOfTries DEF Attempts, Tries, NoAttempt
  <2> HIDE DEF r, a
  <2>4. OthersRest(s) /\ svc'[s] = r /\ attempt'[s] = a
    BY <2>1, <2>2, <2>3 DEF Shapes, OthersRest
  <2>5. QED
    BY <1>2, <2>2, <2>3, <2>4
<1>3. QED
  BY <1>1, <1>2, <1>c DEF LeasesWritten, Settled, memory, processes, bounds

LEMMA CloseIsHandled ==
  ASSUME Shapes, NEW s \in Services, s = Head(lease.queue).of, LeasesWritten, Head(lease.queue).by = "close", Head(lease.queue).gen \in Nat
  PROVE  /\ OthersRest(s) /\ UNCHANGED << op, alive, up >>
         /\ \/ /\ CloseIsStale(s, Head(lease.queue).gen)
               /\ svc'[s] = svc[s]
               /\ attempt'[s] = attempt[s]
            \/ /\ ~CloseIsStale(s, Head(lease.queue).gen)
               /\ Looks(svc'[s], "stopped", FALSE, svc[s].command, svc[s].generation,
                  svc[s].conflict, svc[s].timer, svc[s].probe, svc[s].monitor)
               /\ attempt'[s] = attempt[s]
            \/ /\ ~CloseIsStale(s, Head(lease.queue).gen)
               /\ ~svc[s].stopping
               /\ Looks(svc'[s], "failed", svc[s].stopping, svc[s].command, svc[s].generation,
                  svc[s].conflict, svc[s].timer, svc[s].probe, svc[s].monitor)
               /\ attempt'[s] = attempt[s]
            \/ /\ ~CloseIsStale(s, Head(lease.queue).gen)
               /\ ~svc[s].stopping
               /\ Looks(svc'[s], "restart_wait", svc[s].stopping, svc[s].command, svc[s].generation,
                  svc[s].conflict, Head(lease.queue).gen, svc[s].probe, svc[s].monitor)
               /\ attempt'[s] = attempt[s]
<1>0. svc[s] \in Records /\ attempt[s] \in Attempts /\ svc[s].command \in { 0, svc[s].generation }
  BY DEF Shapes
<1>n. /\ svc[s].command \in Nat /\ svc[s].generation \in Nat /\ svc[s].timer \in Nat
      /\ svc[s].failures \in Nat /\ attempt[s].gen \in Nat
      /\ svc[s].misses \in 0..RestartAfter /\ svc[s].desired \in BOOLEAN
  BY <1>0 DEF Records, Attempts
<1>c. UNCHANGED << op, alive, up >>
  BY DEF LeasesWritten, Settled, memory, processes, bounds, AfterClose, ScheduleRestart
<1>1. ASSUME CloseIsStale(s, Head(lease.queue).gen)
      PROVE  /\ OthersRest(s)
             /\ CloseIsStale(s, Head(lease.queue).gen)
             /\ svc'[s] = svc[s]
             /\ attempt'[s] = attempt[s]
  <2> DEFINE r == svc[s]
             a == attempt[s]
  <2>1. svc' = [svc EXCEPT ![s] = r] /\ attempt' = [attempt EXCEPT ![s] = a]
    BY <1>1 DEF LeasesWritten, Settled, memory, processes, bounds, AfterClose, ScheduleRestart, Shapes
  <2>2. r \in Records /\ r.command \in { 0, r.generation } /\ r = svc[s]
    BY <1>0, <1>n, <1>1, MissesAreBounded DEF Records, Attempts, Looks
  <2>3. a \in Attempts /\ a = attempt[s]
    BY <1>0, <1>n, <1>1, CatalogIsOrdered, EndsOfTries DEF Attempts, Tries, NoAttempt
  <2> HIDE DEF r, a
  <2>4. OthersRest(s) /\ svc'[s] = r /\ attempt'[s] = a
    BY <2>1, <2>2, <2>3 DEF Shapes, OthersRest
  <2>5. QED
    BY <1>1, <2>2, <2>3, <2>4
<1>2. ASSUME ~CloseIsStale(s, Head(lease.queue).gen), svc[s].stopping \/ ~svc[s].desired
      PROVE  /\ OthersRest(s)
             /\ ~CloseIsStale(s, Head(lease.queue).gen)
             /\ Looks(svc'[s], "stopped", FALSE, svc[s].command, svc[s].generation, svc[s].conflict,
                svc[s].timer, svc[s].probe, svc[s].monitor)
             /\ attempt'[s] = attempt[s]
  <2> DEFINE r == [svc[s] EXCEPT !.state = "stopped", !.stopping = FALSE]
             a == attempt[s]
  <2>1. svc' = [svc EXCEPT ![s] = r] /\ attempt' = [attempt EXCEPT ![s] = a]
    BY <1>2 DEF LeasesWritten, Settled, memory, processes, bounds, AfterClose, ScheduleRestart, Shapes
  <2>2. r \in Records /\ r.command \in { 0, r.generation } /\ Looks(r, "stopped", FALSE,
      svc[s].command, svc[s].generation, svc[s].conflict, svc[s].timer, svc[s].probe,
      svc[s].monitor)
    BY <1>0, <1>n, <1>2, MissesAreBounded DEF Records, Attempts, Looks
  <2>3. a \in Attempts /\ a = attempt[s]
    BY <1>0, <1>n, <1>2, CatalogIsOrdered, EndsOfTries DEF Attempts, Tries, NoAttempt
  <2> HIDE DEF r, a
  <2>4. OthersRest(s) /\ svc'[s] = r /\ attempt'[s] = a
    BY <2>1, <2>2, <2>3 DEF Shapes, OthersRest
  <2>5. QED
    BY <1>2, <2>2, <2>3, <2>4
<1>3. ASSUME ~CloseIsStale(s, Head(lease.queue).gen), ~svc[s].stopping, NEW kept \in
             0..svc[s].failures, svc' = [svc EXCEPT ![s] = [@ EXCEPT !.failures = kept + 1,
             !.desired = FALSE, !.state = "failed"]]
      PROVE  /\ OthersRest(s)
             /\ ~CloseIsStale(s, Head(lease.queue).gen)
             /\ ~svc[s].stopping
             /\ Looks(svc'[s], "failed", svc[s].stopping, svc[s].command, svc[s].generation,
                svc[s].conflict, svc[s].timer, svc[s].probe, svc[s].monitor)
             /\ attempt'[s] = attempt[s]
  <2> DEFINE k == kept + 1
  <2>7. k \in Nat
    BY <1>n, <1>3, SupervisorLimits
  <2> DEFINE r == [svc[s] EXCEPT !.failures = k, !.desired = FALSE, !.state = "failed"]
             a == attempt[s]
  <2>1. svc' = [svc EXCEPT ![s] = r] /\ attempt' = [attempt EXCEPT ![s] = a]
    BY <1>3 DEF LeasesWritten, Settled, memory, processes, bounds, AfterClose, ScheduleRestart, Shapes
  <2> HIDE DEF k
  <2>2. r \in Records /\ r.command \in { 0, r.generation } /\ Looks(r, "failed", svc[s].stopping,
      svc[s].command, svc[s].generation, svc[s].conflict, svc[s].timer, svc[s].probe,
      svc[s].monitor)
    BY <1>0, <1>n, <2>7, <1>3, MissesAreBounded DEF Records, Attempts, Looks
  <2>3. a \in Attempts /\ a = attempt[s]
    BY <1>0, <1>n, <2>7, <1>3, CatalogIsOrdered, EndsOfTries DEF Attempts, Tries, NoAttempt
  <2> HIDE DEF r, a
  <2>4. OthersRest(s) /\ svc'[s] = r /\ attempt'[s] = a
    BY <2>1, <2>2, <2>3 DEF Shapes, OthersRest
  <2>5. QED
    BY <1>3, <2>2, <2>3, <2>4 DEF k
<1>4. ASSUME ~CloseIsStale(s, Head(lease.queue).gen), ~svc[s].stopping, NEW kept \in
             0..svc[s].failures, svc' = [svc EXCEPT ![s] = [@ EXCEPT !.failures = kept + 1, !.state
             = "restart_wait", !.timer = Head(lease.queue).gen]]
      PROVE  /\ OthersRest(s)
             /\ ~CloseIsStale(s, Head(lease.queue).gen)
             /\ ~svc[s].stopping
             /\ Looks(svc'[s], "restart_wait", svc[s].stopping, svc[s].command, svc[s].generation,
                svc[s].conflict, Head(lease.queue).gen, svc[s].probe, svc[s].monitor)
             /\ attempt'[s] = attempt[s]
  <2> DEFINE k == kept + 1
  <2>7. k \in Nat
    BY <1>n, <1>4, SupervisorLimits
  <2> DEFINE r == [svc[s] EXCEPT !.failures = k, !.state = "restart_wait", !.timer = Head(lease.queue).gen]
             a == attempt[s]
  <2>1. svc' = [svc EXCEPT ![s] = r] /\ attempt' = [attempt EXCEPT ![s] = a]
    BY <1>4 DEF LeasesWritten, Settled, memory, processes, bounds, AfterClose, ScheduleRestart, Shapes
  <2> HIDE DEF k
  <2>2. r \in Records /\ r.command \in { 0, r.generation } /\ Looks(r, "restart_wait",
      svc[s].stopping, svc[s].command, svc[s].generation, svc[s].conflict, Head(lease.queue).gen,
      svc[s].probe, svc[s].monitor)
    BY <1>0, <1>n, <2>7, <1>4, MissesAreBounded DEF Records, Attempts, Looks
  <2>3. a \in Attempts /\ a = attempt[s]
    BY <1>0, <1>n, <2>7, <1>4, CatalogIsOrdered, EndsOfTries DEF Attempts, Tries, NoAttempt
  <2> HIDE DEF r, a
  <2>4. OthersRest(s) /\ svc'[s] = r /\ attempt'[s] = a
    BY <2>1, <2>2, <2>3 DEF Shapes, OthersRest
  <2>5. QED
    BY <1>4, <2>2, <2>3, <2>4 DEF k
<1>5. QED
  BY <1>1, <1>2, <1>3, <1>4, <1>c DEF LeasesWritten, Settled, memory, processes, bounds, AfterClose, ScheduleRestart

LEMMA QuietEndsDoes ==
  ASSUME Shapes, NEW s \in Services, s = op.at, QuietEnds
  PROVE  /\ OthersRest(s) /\ UNCHANGED << lease, alive, up >>
         /\ op.pc = "quiet"
         /\ Looks(svc'[s], (IF svc[s].state = "conflict" THEN "conflict" ELSE "stopped"),
            svc[s].stopping, svc[s].command, svc[s].generation, svc[s].conflict, svc[s].timer,
            svc[s].probe, svc[s].monitor)
         /\ attempt'[s] = attempt[s]
<1>0. svc[s] \in Records /\ attempt[s] \in Attempts /\ svc[s].command \in { 0, svc[s].generation }
  BY DEF Shapes
<1>n. /\ svc[s].command \in Nat /\ svc[s].generation \in Nat /\ svc[s].timer \in Nat
      /\ svc[s].failures \in Nat /\ attempt[s].gen \in Nat
      /\ svc[s].misses \in 0..RestartAfter /\ svc[s].desired \in BOOLEAN
  BY <1>0 DEF Records, Attempts
<1>c. UNCHANGED << lease, alive, up >>
  BY DEF QuietEnds, Settled, memory, processes, bounds
<1>1. QED
  <2> DEFINE r == [svc[s] EXCEPT !.state = (IF svc[s].state = "conflict" THEN "conflict" ELSE "stopped")]
             a == attempt[s]
  <2>1. svc' = [svc EXCEPT ![s] = r] /\ attempt' = [attempt EXCEPT ![s] = a]
    BY DEF QuietEnds, Settled, memory, processes, bounds, Shapes
  <2>2. r \in Records /\ r.command \in { 0, r.generation } /\ Looks(r, (IF svc[s].state = "conflict"
      THEN "conflict" ELSE "stopped"), svc[s].stopping, svc[s].command, svc[s].generation,
      svc[s].conflict, svc[s].timer, svc[s].probe, svc[s].monitor)
    BY <1>0, <1>n, MissesAreBounded DEF Records, Attempts, Looks
  <2>3. a \in Attempts /\ a = attempt[s]
    BY <1>0, <1>n, CatalogIsOrdered, EndsOfTries DEF Attempts, Tries, NoAttempt
  <2> HIDE DEF r, a
  <2>4. OthersRest(s) /\ svc'[s] = r /\ attempt'[s] = a
    BY <2>1, <2>2, <2>3 DEF Shapes, OthersRest
  <2>5. QED
    BY <1>0, <1>c, <2>2, <2>3, <2>4 DEF QuietEnds, Settled, memory, processes, bounds

LEMMA CloseTimesOutDoes ==
  ASSUME Shapes, NEW s \in Services, s = op.at, CloseTimesOut
  PROVE  /\ OthersRest(s) /\ UNCHANGED << lease, alive, up >> /\ op' = NoOp
         /\ op.pc = "closing"
         /\ Looks(svc'[s], "failed", FALSE, svc[s].command, svc[s].generation, svc[s].conflict,
            svc[s].timer, svc[s].probe, svc[s].monitor)
         /\ attempt'[s] = attempt[s]
<1>0. svc[s] \in Records /\ attempt[s] \in Attempts /\ svc[s].command \in { 0, svc[s].generation }
  BY DEF Shapes
<1>n. /\ svc[s].command \in Nat /\ svc[s].generation \in Nat /\ svc[s].timer \in Nat
      /\ svc[s].failures \in Nat /\ attempt[s].gen \in Nat
      /\ svc[s].misses \in 0..RestartAfter /\ svc[s].desired \in BOOLEAN
  BY <1>0 DEF Records, Attempts
<1>c. UNCHANGED << lease, alive, up >> /\ op' = NoOp
  BY DEF CloseTimesOut, Settled, memory, processes, bounds
<1>1. QED
  <2> DEFINE r == [svc[s] EXCEPT !.state = "failed", !.stopping = FALSE]
             a == attempt[s]
  <2>1. svc' = [svc EXCEPT ![s] = r] /\ attempt' = [attempt EXCEPT ![s] = a]
    BY DEF CloseTimesOut, Settled, memory, processes, bounds, Shapes
  <2>2. r \in Records /\ r.command \in { 0, r.generation } /\ Looks(r, "failed", FALSE,
      svc[s].command, svc[s].generation, svc[s].conflict, svc[s].timer, svc[s].probe,
      svc[s].monitor)
    BY <1>0, <1>n, MissesAreBounded DEF Records, Attempts, Looks
  <2>3. a \in Attempts /\ a = attempt[s]
    BY <1>0, <1>n, CatalogIsOrdered, EndsOfTries DEF Attempts, Tries, NoAttempt
  <2> HIDE DEF r, a
  <2>4. OthersRest(s) /\ svc'[s] = r /\ attempt'[s] = a
    BY <2>1, <2>2, <2>3 DEF Shapes, OthersRest
  <2>5. QED
    BY <1>0, <1>c, <2>2, <2>3, <2>4 DEF CloseTimesOut, Settled, memory, processes, bounds

LEMMA PortsReleasedDoes ==
  ASSUME Shapes, NEW s \in Services, s = op.at, PortsReleased
  PROVE  /\ OthersRest(s) /\ UNCHANGED << alive, up >>
         /\ op.pc = "released"
         /\ Looks(svc'[s], "stopped", FALSE, 0, svc[s].generation, "none", svc[s].timer,
            svc[s].probe, svc[s].monitor)
         /\ attempt'[s] = attempt[s]
<1>0. svc[s] \in Records /\ attempt[s] \in Attempts /\ svc[s].command \in { 0, svc[s].generation }
  BY DEF Shapes
<1>n. /\ svc[s].command \in Nat /\ svc[s].generation \in Nat /\ svc[s].timer \in Nat
      /\ svc[s].failures \in Nat /\ attempt[s].gen \in Nat
      /\ svc[s].misses \in 0..RestartAfter /\ svc[s].desired \in BOOLEAN
  BY <1>0 DEF Records, Attempts
<1>c. UNCHANGED << alive, up >>
  BY DEF PortsReleased, Settled, memory, processes, bounds
<1>1. QED
  <2> DEFINE r == [svc[s] EXCEPT !.command = 0, !.state = "stopped", !.conflict = "none", !.stopping = FALSE]
             a == attempt[s]
  <2>1. svc' = [svc EXCEPT ![s] = r] /\ attempt' = [attempt EXCEPT ![s] = a]
    BY DEF PortsReleased, Settled, memory, processes, bounds, Shapes
  <2>2. r \in Records /\ r.command \in { 0, r.generation } /\ Looks(r, "stopped", FALSE, 0,
      svc[s].generation, "none", svc[s].timer, svc[s].probe, svc[s].monitor)
    BY <1>0, <1>n, MissesAreBounded DEF Records, Attempts, Looks
  <2>3. a \in Attempts /\ a = attempt[s]
    BY <1>0, <1>n, CatalogIsOrdered, EndsOfTries DEF Attempts, Tries, NoAttempt
  <2> HIDE DEF r, a
  <2>4. OthersRest(s) /\ svc'[s] = r /\ attempt'[s] = a
    BY <2>1, <2>2, <2>3 DEF Shapes, OthersRest
  <2>5. QED
    BY <1>0, <1>c, <2>2, <2>3, <2>4 DEF PortsReleased, Settled, memory, processes, bounds

LEMMA PortsStillTakenDoes ==
  ASSUME Shapes, NEW s \in Services, s = op.at, PortsStillTaken
  PROVE  /\ OthersRest(s) /\ UNCHANGED << lease, alive, up >> /\ op' = NoOp
         /\ op.pc \in { "quiet", "released" }
         /\ Looks(svc'[s], "conflict", FALSE, svc[s].command, svc[s].generation, "port",
            svc[s].timer, svc[s].probe, svc[s].monitor)
         /\ attempt'[s] = attempt[s]
<1>0. svc[s] \in Records /\ attempt[s] \in Attempts /\ svc[s].command \in { 0, svc[s].generation }
  BY DEF Shapes
<1>n. /\ svc[s].command \in Nat /\ svc[s].generation \in Nat /\ svc[s].timer \in Nat
      /\ svc[s].failures \in Nat /\ attempt[s].gen \in Nat
      /\ svc[s].misses \in 0..RestartAfter /\ svc[s].desired \in BOOLEAN
  BY <1>0 DEF Records, Attempts
<1>c. UNCHANGED << lease, alive, up >> /\ op' = NoOp
  BY DEF PortsStillTaken, Settled, memory, processes, bounds
<1>1. QED
  <2> DEFINE r == [svc[s] EXCEPT !.state = "conflict", !.conflict = "port", !.stopping = FALSE]
             a == attempt[s]
  <2>1. svc' = [svc EXCEPT ![s] = r] /\ attempt' = [attempt EXCEPT ![s] = a]
    BY DEF PortsStillTaken, Settled, memory, processes, bounds, Shapes
  <2>2. r \in Records /\ r.command \in { 0, r.generation } /\ Looks(r, "conflict", FALSE,
      svc[s].command, svc[s].generation, "port", svc[s].timer, svc[s].probe, svc[s].monitor)
    BY <1>0, <1>n, MissesAreBounded DEF Records, Attempts, Looks
  <2>3. a \in Attempts /\ a = attempt[s]
    BY <1>0, <1>n, CatalogIsOrdered, EndsOfTries DEF Attempts, Tries, NoAttempt
  <2> HIDE DEF r, a
  <2>4. OthersRest(s) /\ svc'[s] = r /\ attempt'[s] = a
    BY <2>1, <2>2, <2>3 DEF Shapes, OthersRest
  <2>5. QED
    BY <1>0, <1>c, <2>2, <2>3, <2>4 DEF PortsStillTaken, Settled, memory, processes, bounds

LEMMA StopNextDoes ==
  ASSUME Shapes, NEW s \in Services, op.stops # {}, s = LastOf(op.stops), StopNext
  PROVE  /\ OthersRest(s)
         /\ \/ /\ svc[s].command = 0
               /\ svc[s].state \in { "stopped", "conflict" }
               /\ Looks(svc'[s], svc[s].state, svc[s].stopping, svc[s].command, svc[s].generation,
                  svc[s].conflict, 0, svc[s].probe, svc[s].monitor)
               /\ attempt'[s] = attempt[s]
            \/ /\ svc[s].command = 0
               /\ svc[s].state \notin { "stopped", "conflict" }
               /\ Looks(svc'[s], svc[s].state, svc[s].stopping, svc[s].command, svc[s].generation,
                  svc[s].conflict, 0, svc[s].probe, svc[s].monitor)
               /\ attempt'[s] = attempt[s]
            \/ /\ svc[s].command # 0
               /\ Looks(svc'[s], "stopping", TRUE, svc[s].command, svc[s].generation,
                  svc[s].conflict, 0, svc[s].probe, svc[s].monitor)
               /\ attempt'[s] = attempt[s]
<1>0. svc[s] \in Records /\ attempt[s] \in Attempts /\ svc[s].command \in { 0, svc[s].generation }
  BY DEF Shapes
<1>n. /\ svc[s].command \in Nat /\ svc[s].generation \in Nat /\ svc[s].timer \in Nat
      /\ svc[s].failures \in Nat /\ attempt[s].gen \in Nat
      /\ svc[s].misses \in 0..RestartAfter /\ svc[s].desired \in BOOLEAN
  BY <1>0 DEF Records, Attempts
<1>1. ASSUME svc[s].command = 0, svc[s].state \in { "stopped", "conflict" }
      PROVE  /\ OthersRest(s)
             /\ svc[s].command = 0
             /\ svc[s].state \in { "stopped", "conflict" }
             /\ Looks(svc'[s], svc[s].state, svc[s].stopping, svc[s].command, svc[s].generation,
                svc[s].conflict, 0, svc[s].probe, svc[s].monitor)
             /\ attempt'[s] = attempt[s]
  <2> DEFINE d == IF op.oneByOne THEN FALSE ELSE svc[s].desired
  <2>7. d \in BOOLEAN
    BY <1>n, <1>1, SupervisorLimits
  <2> DEFINE r == [svc[s] EXCEPT !.timer = 0, !.desired = d]
             a == attempt[s]
  <2>1. svc' = [svc EXCEPT ![s] = r] /\ attempt' = [attempt EXCEPT ![s] = a]
    BY <1>1 DEF StopNext, Settled, memory, processes, bounds, Dropped, Shapes
  <2> HIDE DEF d
  <2>2. r \in Records /\ r.command \in { 0, r.generation } /\ Looks(r, svc[s].state,
      svc[s].stopping, svc[s].command, svc[s].generation, svc[s].conflict, 0, svc[s].probe,
      svc[s].monitor)
    BY <1>0, <1>n, <2>7, <1>1, MissesAreBounded DEF Records, Attempts, Looks
  <2>3. a \in Attempts /\ a = attempt[s]
    BY <1>0, <1>n, <2>7, <1>1, CatalogIsOrdered, EndsOfTries DEF Attempts, Tries, NoAttempt
  <2> HIDE DEF r, a
  <2>4. OthersRest(s) /\ svc'[s] = r /\ attempt'[s] = a
    BY <2>1, <2>2, <2>3 DEF Shapes, OthersRest
  <2>5. QED
    BY <1>1, <2>2, <2>3, <2>4 DEF d
<1>2. ASSUME svc[s].command = 0, svc[s].state \notin { "stopped", "conflict" }
      PROVE  /\ OthersRest(s)
             /\ svc[s].command = 0
             /\ svc[s].state \notin { "stopped", "conflict" }
             /\ Looks(svc'[s], svc[s].state, svc[s].stopping, svc[s].command, svc[s].generation,
                svc[s].conflict, 0, svc[s].probe, svc[s].monitor)
             /\ attempt'[s] = attempt[s]
  <2> DEFINE d == IF op.oneByOne THEN FALSE ELSE svc[s].desired
  <2>7. d \in BOOLEAN
    BY <1>n, <1>2, SupervisorLimits
  <2> DEFINE r == [svc[s] EXCEPT !.timer = 0, !.desired = d]
             a == attempt[s]
  <2>1. svc' = [svc EXCEPT ![s] = r] /\ attempt' = [attempt EXCEPT ![s] = a]
    BY <1>2 DEF StopNext, Settled, memory, processes, bounds, Dropped, Shapes
  <2> HIDE DEF d
  <2>2. r \in Records /\ r.command \in { 0, r.generation } /\ Looks(r, svc[s].state,
      svc[s].stopping, svc[s].command, svc[s].generation, svc[s].conflict, 0, svc[s].probe,
      svc[s].monitor)
    BY <1>0, <1>n, <2>7, <1>2, MissesAreBounded DEF Records, Attempts, Looks
  <2>3. a \in Attempts /\ a = attempt[s]
    BY <1>0, <1>n, <2>7, <1>2, CatalogIsOrdered, EndsOfTries DEF Attempts, Tries, NoAttempt
  <2> HIDE DEF r, a
  <2>4. OthersRest(s) /\ svc'[s] = r /\ attempt'[s] = a
    BY <2>1, <2>2, <2>3 DEF Shapes, OthersRest
  <2>5. QED
    BY <1>2, <2>2, <2>3, <2>4 DEF d
<1>3. ASSUME svc[s].command # 0
      PROVE  /\ OthersRest(s)
             /\ svc[s].command # 0
             /\ Looks(svc'[s], "stopping", TRUE, svc[s].command, svc[s].generation, svc[s].conflict,
                0, svc[s].probe, svc[s].monitor)
             /\ attempt'[s] = attempt[s]
  <2> DEFINE d == IF op.oneByOne THEN FALSE ELSE svc[s].desired
  <2>7. d \in BOOLEAN
    BY <1>n, <1>3, SupervisorLimits
  <2> DEFINE r == [svc[s] EXCEPT !.timer = 0, !.desired = d, !.stopping = TRUE, !.state = "stopping"]
             a == attempt[s]
  <2>1. svc' = [svc EXCEPT ![s] = r] /\ attempt' = [attempt EXCEPT ![s] = a]
    BY <1>3 DEF StopNext, Settled, memory, processes, bounds, Dropped, Shapes
  <2> HIDE DEF d
  <2>2. r \in Records /\ r.command \in { 0, r.generation } /\ Looks(r, "stopping", TRUE,
      svc[s].command, svc[s].generation, svc[s].conflict, 0, svc[s].probe, svc[s].monitor)
    BY <1>0, <1>n, <2>7, <1>3, MissesAreBounded DEF Records, Attempts, Looks
  <2>3. a \in Attempts /\ a = attempt[s]
    BY <1>0, <1>n, <2>7, <1>3, CatalogIsOrdered, EndsOfTries DEF Attempts, Tries, NoAttempt
  <2> HIDE DEF r, a
  <2>4. OthersRest(s) /\ svc'[s] = r /\ attempt'[s] = a
    BY <2>1, <2>2, <2>3 DEF Shapes, OthersRest
  <2>5. QED
    BY <1>3, <2>2, <2>3, <2>4 DEF d
<1>4. QED
  BY <1>1, <1>2, <1>3 DEF StopNext, Settled, memory, processes, bounds, Dropped

-------------------------------------------------------------------------------
(* Steps that touch more than one record. *)
LEMMA EmptyRecords ==
  /\ NoAttempt \in Attempts /\ Tries(NoAttempt, "none", {}, None, 0)
  /\ NoOp \in Operations /\ NoOp.pc = "idle" /\ NoOp.at = None /\ NoOp.stops = {}
  /\ \A g \in Nat : /\ Fresh(g) \in Records
                    /\ Looks(Fresh(g), "stopped", FALSE, 0, g, "none", 0, 0, 0)
<1>1. NoAttempt \in Attempts /\ Tries(NoAttempt, "none", {}, None, 0)
  BY DEF NoAttempt, Attempts, Tries
<1>2. NoOp \in Operations /\ NoOp.pc = "idle" /\ NoOp.at = None /\ NoOp.stops = {}
  BY DEF NoOp, Operations
<1>3. ASSUME NEW g \in Nat
      PROVE  Fresh(g) \in Records /\ Looks(Fresh(g), "stopped", FALSE, 0, g, "none", 0, 0, 0)
  BY MissesAreBounded DEF Fresh, Records, Looks
<1>4. QED
  BY <1>1, <1>2, <1>3

LEMMA NextDependencyDoes ==
  ASSUME Shapes, AttemptsOK, NEW s \in Services, NextDependency(s)
  PROVE  /\ UNCHANGED << op, lease, alive, up >> /\ attempt[s].pc = "next"
         /\ svc' \in [Services -> Records] /\ attempt' \in [Services -> Attempts]
         /\ \A t \in Services : svc'[t].command \in { 0, svc'[t].generation }
         /\ \A t \in Services \ {s} : svc'[t] = svc[t]
         /\ \/ /\ svc' = svc /\ Tries(attempt'[s], "ports", attempt[s].left, attempt[s].on, attempt[s].gen)
               /\ \A t \in Services \ {s} : attempt'[t] = attempt[t]
            \/ \E d \in attempt[s].left :
                 /\ svc' = svc
                 /\ Tries(attempt'[s], "next", attempt[s].left \ {d}, attempt[s].on, attempt[s].gen)
                 /\ \A t \in Services \ {s} : attempt'[t] = attempt[t]
            \/ \E d \in attempt[s].left \ {s} :
                 /\ Looks(svc'[s], "waiting_dependency", svc[s].stopping, svc[s].command,
                          svc[s].generation, svc[s].conflict, svc[s].timer, svc[s].probe, svc[s].monitor)
                 /\ Tries(attempt'[s], "dependency", attempt[s].left, d, attempt[s].gen)
                 /\ \A t \in Services \ {s, d} : attempt'[t] = attempt[t]
                 /\ IF attempt[d].pc = "none" THEN Tries(attempt'[d], "begin", {}, None, 0)
                                              ELSE attempt'[d] = attempt[d]
<1> DEFINE d == FirstOf(attempt[s].left)
<1>0. /\ svc[s] \in Records /\ attempt[s] \in Attempts /\ svc[s].command \in { 0, svc[s].generation }
      /\ attempt[s].left \subseteq Dependencies[s] /\ Dependencies[s] \subseteq Services
  BY CatalogIsOrdered DEF Shapes, AttemptsOK
<1>c. UNCHANGED << op, lease, alive, up >> /\ attempt[s].pc = "next"
  BY DEF NextDependency, processes, bounds
<1>1. CASE attempt[s].left = {}
  <2> DEFINE a == [attempt[s] EXCEPT !.pc = "ports"]
  <2>1. svc' = svc /\ attempt' = [attempt EXCEPT ![s] = a]
    BY <1>1 DEF NextDependency
  <2>2. a \in Attempts /\ Tries(a, "ports", attempt[s].left, attempt[s].on, attempt[s].gen)
    BY <1>0 DEF Attempts, Tries
  <2> HIDE DEF a
  <2>3. attempt'[s] = a /\ attempt' \in [Services -> Attempts] /\ \A t \in Services \ {s} : attempt'[t] = attempt[t]
    BY <2>1, <2>2 DEF Shapes
  <2>4. QED
    BY <1>c, <2>1, <2>2, <2>3 DEF Shapes
<1>2. CASE attempt[s].left # {}
  <2>1. d \in attempt[s].left /\ d \in Services
    <3>1. attempt[s].left \in SUBSET Services
      BY <1>0
    <3>2. QED
      BY <1>2, <3>1, EndsOfAPlan
  <2>2. d # s
    <3>1. Rank[d] < Rank[s] /\ Rank \in [Services -> Int]
      BY <1>0, <2>1, CatalogIsOrdered
    <3>2. QED
      BY <2>1, <3>1
  <2>3. CASE svc[d].state = "healthy"
    <3> DEFINE a == [attempt[s] EXCEPT !.left = @ \ { d }]
    <3>1. svc' = svc /\ attempt' = [attempt EXCEPT ![s] = a]
      BY <1>0, <1>2, <2>3 DEF NextDependency
    <3>2. a \in Attempts /\ Tries(a, "next", attempt[s].left \ {d}, attempt[s].on, attempt[s].gen)
      <4> HIDE DEF d
      <4>1. QED
        BY <1>0, <1>c DEF Attempts, Tries
    <3> HIDE DEF a
    <3>3. attempt'[s] = a /\ attempt' \in [Services -> Attempts] /\ \A t \in Services \ {s} : attempt'[t] = attempt[t]
      BY <3>1, <3>2 DEF Shapes
    <3> HIDE DEF d
    <3>4. QED
      BY <1>c, <2>1, <3>1, <3>2, <3>3 DEF Shapes
  <2>4. CASE svc[d].state # "healthy"
    <3> DEFINE r == [svc[s] EXCEPT !.state = "waiting_dependency"]
               a == [attempt[s] EXCEPT !.pc = "dependency", !.on = d]
               b == IF attempt[d].pc = "none" THEN [NoAttempt EXCEPT !.pc = "begin"] ELSE attempt[d]
    <3>1. svc' = [svc EXCEPT ![s] = r]
      BY <1>2, <2>4 DEF NextDependency
    <3>2. attempt' = [attempt EXCEPT ![s] = a, ![d] = b]
      <4>1. attempt' = [attempt EXCEPT ![s].pc = "dependency", ![s].on = d,
                          ![d] = IF @.pc = "none" THEN [NoAttempt EXCEPT !.pc = "begin"] ELSE @]
        BY <1>2, <2>4 DEF NextDependency
      <4> HIDE DEF d
      <4>2. QED
        BY <2>1, <2>2, <4>1 DEF Shapes
    <3> HIDE DEF d
    <3>3. /\ r \in Records /\ r.command \in { 0, r.generation }
          /\ Looks(r, "waiting_dependency", svc[s].stopping, svc[s].command, svc[s].generation,
                   svc[s].conflict, svc[s].timer, svc[s].probe, svc[s].monitor)
      BY <1>0 DEF Records, Looks
    <3>4. a \in Attempts /\ Tries(a, "dependency", attempt[s].left, d, attempt[s].gen)
      BY <1>0, <2>1 DEF Attempts, Tries
    <3>5. b \in Attempts /\ IF attempt[d].pc = "none" THEN Tries(b, "begin", {}, None, 0) ELSE b = attempt[d]
      <4>1. attempt[d] \in Attempts
        BY <2>1 DEF Shapes
      <4>2. QED
        BY <4>1 DEF Attempts, Tries, NoAttempt
    <3> HIDE DEF a, b, r
    <3>6. /\ attempt'[s] = a /\ attempt'[d] = b /\ attempt' \in [Services -> Attempts]
          /\ \A t \in Services \ {s, d} : attempt'[t] = attempt[t]
      BY <2>1, <2>2, <3>2, <3>4, <3>5 DEF Shapes
    <3>7. /\ svc'[s] = r /\ svc' \in [Services -> Records] /\ \A t \in Services \ {s} : svc'[t] = svc[t]
          /\ \A t \in Services : svc'[t].command \in { 0, svc'[t].generation }
      BY <3>1, <3>3 DEF Shapes
    <3>8. d \in attempt[s].left \ {s}
      BY <2>1, <2>2
    <3>9. QED
      BY <1>c, <3>3, <3>4, <3>5, <3>6, <3>7, <3>8
  <2>5. QED
    BY <2>3, <2>4
<1>3. QED
  BY <1>1, <1>2

LEMMA SettleDoes ==
  ASSUME Shapes, NEW s \in Services, Settle(s)
  PROVE  /\ UNCHANGED << lease, alive, up >> /\ attempt[s].pc = "settled"
         /\ svc' \in [Services -> Records] /\ attempt' \in [Services -> Attempts] /\ op' \in Operations
         /\ \A t \in Services : svc'[t].command \in { 0, svc'[t].generation }
         /\ \A t \in Services \ {s} : svc'[t] = svc[t]
         /\ \/ svc'[s] = svc[s]
            \/ /\ svc[s].command = 0 /\ svc[s].state # "conflict"
               /\ Looks(svc'[s], "failed", svc[s].stopping, svc[s].command, svc[s].generation,
                        svc[s].conflict, svc[s].timer, svc[s].probe, svc[s].monitor)
         /\ Tries(attempt'[s], "none", {}, None, 0)
         /\ \A t \in Services \ {s} :
              IF attempt[t].pc = "dependency" /\ attempt[t].on = s
              THEN \/ Tries(attempt'[t], "next", attempt[t].left \ {s}, None, attempt[t].gen)
                   \/ Tries(attempt'[t], "settled", attempt[t].left, None, attempt[t].gen)
              ELSE attempt'[t] = attempt[t]
         /\ IF op.pc = "starting" /\ op.at = s THEN op'.pc \in { "next", "idle" } /\ op'.at = None
                                               ELSE op' = op
<1>0. svc[s] \in Records /\ attempt[s] \in Attempts /\ svc[s].command \in { 0, svc[s].generation }
  BY DEF Shapes
<1>1. UNCHANGED << lease, alive, up >> /\ attempt[s].pc = "settled"
  BY DEF Settle, processes, bounds
<1>2. /\ svc' \in [Services -> Records] /\ \A t \in Services : svc'[t].command \in { 0, svc'[t].generation }
      /\ \A t \in Services \ {s} : svc'[t] = svc[t]
      /\ \/ svc'[s] = svc[s]
         \/ /\ svc[s].command = 0 /\ svc[s].state # "conflict"
            /\ Looks(svc'[s], "failed", svc[s].stopping, svc[s].command, svc[s].generation,
                     svc[s].conflict, svc[s].timer, svc[s].probe, svc[s].monitor)
  <2>1. CASE ~TimerCatches(s)
    BY <2>1 DEF Settle, Shapes
  <2>2. CASE TimerCatches(s)
    <3> DEFINE r == [svc[s] EXCEPT !.state = "failed"]
    <3>1. svc' = [svc EXCEPT ![s] = r] /\ svc[s].command = 0 /\ svc[s].state # "conflict"
      BY <2>2 DEF Settle, TimerCatches
    <3>2. /\ r \in Records /\ r.command \in { 0, r.generation }
          /\ Looks(r, "failed", svc[s].stopping, svc[s].command, svc[s].generation,
                   svc[s].conflict, svc[s].timer, svc[s].probe, svc[s].monitor)
      BY <1>0 DEF Records, Looks
    <3> HIDE DEF r
    <3>3. QED
      BY <3>1, <3>2 DEF Shapes
  <2>3. QED
    BY <2>1, <2>2
<1>3. \A t \in Services \ {s} :
        /\ Resumed(attempt[t], s, attempt[s].ok) \in Attempts
        /\ IF attempt[t].pc = "dependency" /\ attempt[t].on = s
           THEN \/ Tries(Resumed(attempt[t], s, attempt[s].ok), "next", attempt[t].left \ {s}, None, attempt[t].gen)
                \/ Tries(Resumed(attempt[t], s, attempt[s].ok), "settled", attempt[t].left, None, attempt[t].gen)
           ELSE Resumed(attempt[t], s, attempt[s].ok) = attempt[t]
  <2> TAKE t \in Services \ {s}
  <2>1. attempt[t] \in Attempts
    BY DEF Shapes
  <2> DEFINE a == attempt[t]
             x == [a EXCEPT !.pc = "next", !.left = @ \ { s }, !.on = None]
             y == [a EXCEPT !.pc = "settled", !.ok = FALSE, !.on = None]
  <2>2. x \in Attempts /\ Tries(x, "next", a.left \ {s}, None, a.gen)
    BY <2>1 DEF Attempts, Tries
  <2>3. y \in Attempts /\ Tries(y, "settled", a.left, None, a.gen)
    BY <2>1 DEF Attempts, Tries
  <2>4. Resumed(a, s, attempt[s].ok) = IF a.pc # "dependency" \/ a.on # s THEN a
                                       ELSE IF attempt[s].ok THEN x ELSE y
    BY DEF Resumed
  <2> HIDE DEF x, y
  <2>5. QED
    BY <2>1, <2>2, <2>3, <2>4
<1>4. attempt' = [t \in Services |-> IF t = s THEN NoAttempt ELSE Resumed(attempt[t], s, attempt[s].ok)]
  BY DEF Settle
<1>5. /\ attempt' \in [Services -> Attempts] /\ attempt'[s] = NoAttempt
      /\ \A t \in Services \ {s} : attempt'[t] = Resumed(attempt[t], s, attempt[s].ok)
  BY <1>3, <1>4, EmptyRecords
<1>6. op' \in Operations /\ IF op.pc = "starting" /\ op.at = s
                            THEN op'.pc \in { "next", "idle" } /\ op'.at = None ELSE op' = op
  <2>1. op \in Operations
    BY DEF Shapes
  <2> DEFINE o == [op EXCEPT !.pc = "next", !.starts = @ \ { s }, !.at = None]
  <2>2. o \in Operations /\ o.pc = "next" /\ o.at = None
    BY <2>1 DEF Operations
  <2>3. op' = IF op.pc # "starting" \/ op.at # s THEN op ELSE IF attempt[s].ok THEN o ELSE NoOp
    BY DEF Settle
  <2> HIDE DEF o
  <2>4. QED
    BY <2>1, <2>2, <2>3, EmptyRecords
<1>7. QED
  BY <1>1, <1>2, <1>3, <1>5, <1>6, EmptyRecords

-------------------------------------------------------------------------------
(* A step that leaves the leases alone and the processes held as they are.   *)
Aside(t) == svc[t].conflict = "unverified_lease"
Serving(t) == svc[t].state \in { "healthy", "degraded" }

Keeps(t) ==
  /\ svc'[t].command = svc[t].command /\ svc'[t].generation = svc[t].generation
  /\ (attempt'[t].pc = "lease") <=> (attempt[t].pc = "lease")
  /\ Serving(t)' => \/ Serving(t) /\ svc'[t].monitor = svc[t].monitor
                    \/ svc[t].command # 0 /\ svc'[t].monitor = svc[t].command
  /\ \/ svc'[t].probe \in { svc[t].probe, 0 } /\ svc'[t].monitor = svc[t].monitor
     \/ /\ svc'[t].probe \in { svc[t].probe, svc[t].command, 0 }
        /\ svc'[t].monitor = svc[t].command
  /\ Aside(t)' => /\ Aside(t) /\ svc'[t].state = "conflict"
                  /\ svc'[t].timer = 0 /\ svc'[t].probe = 0
                  /\ attempt'[t].pc \in { "none", "begin", "settled" }
                  /\ op'.at = t => op'.pc = "starting"

LEMMA EntriesAreTyped ==
  ASSUME Shapes, NEW i \in DOMAIN lease.queue
  PROVE  lease.queue[i] \in Entries /\ lease.queue[i].of \in Services /\ lease.queue[i].gen \in Nat
<1>1. lease.queue \in Seq(Entries)
  BY DEF Shapes, Leases
<1>2. lease.queue[i] \in Entries
  BY <1>1
<1>3. QED
  BY <1>2 DEF Entries

LEMMA NumbersAreTyped ==
  ASSUME Shapes, NEW s \in Services
  PROVE  /\ svc[s].command \in Nat /\ svc[s].generation \in Nat /\ svc[s].probe \in Nat
         /\ svc[s].command \in { 0, svc[s].generation }
<1>1. svc[s] \in Records
  BY DEF Shapes
<1>2. QED
  BY <1>1 DEF Records, Shapes

LEMMA LeasesStay ==
  ASSUME SupervisorIsSound, up, UNCHANGED << lease, up >>, Shapes', OperationOK', AttemptsOK',
         \A t \in Services : Keeps(t)
  PROVE  SupervisorIsSound'
<1>1. LeasesOK'
  <2>1. \A i \in DOMAIN lease.queue : lease.queue[i].of \in Services
    BY EntriesAreTyped DEF SupervisorIsSound
  <2>2. \A t \in Services : svc'[t].command = svc[t].command
                            /\ ((attempt'[t].pc = "lease") <=> (attempt[t].pc = "lease"))
    BY DEF Keeps
  <2>3. QED
    BY <2>1, <2>2 DEF SupervisorIsSound, LeasesOK
<1>2. WatchOK'
  <2> SUFFICES ASSUME NEW t \in Services
               PROVE  /\ Serving(t)' => IF svc'[t].command = 0 THEN CloseIsComing(t)'
                                        ELSE svc'[t].monitor = svc'[t].command
                      /\ svc'[t].probe <= svc'[t].generation
                      /\ svc'[t].probe # 0 /\ svc'[t].probe = svc'[t].command
                           => svc'[t].monitor = svc'[t].command
    BY DEF WatchOK, Serving
  <2>1. Keeps(t)
    OBVIOUS
  <2>2. /\ Serving(t) => IF svc[t].command = 0 THEN CloseIsComing(t)
                         ELSE svc[t].monitor = svc[t].command
        /\ svc[t].probe <= svc[t].generation
        /\ svc[t].probe # 0 /\ svc[t].probe = svc[t].command => svc[t].monitor = svc[t].command
    BY DEF SupervisorIsSound, WatchOK, Serving
  <2>3. CloseIsComing(t)' <=> CloseIsComing(t)
    BY <2>1 DEF Keeps, CloseIsComing
  <2>4. /\ svc[t].command \in Nat /\ svc[t].generation \in Nat /\ svc[t].probe \in Nat
        /\ svc[t].command \in { 0, svc[t].generation }
    BY NumbersAreTyped DEF SupervisorIsSound
  <2>5. QED
    BY <2>1, <2>2, <2>3, <2>4 DEF Keeps
<1>3. AsideOK'
  <2> SUFFICES ASSUME NEW t \in Services, Aside(t)'
               PROVE  /\ svc'[t].state = "conflict" /\ svc'[t].command = 0
                      /\ svc'[t].timer = 0 /\ svc'[t].probe = 0
                      /\ attempt'[t].pc \in { "none", "begin", "settled" }
                      /\ \A i \in DOMAIN lease'.queue : lease'.queue[i].of # t
                      /\ op'.at = t => op'.pc = "starting"
    BY DEF AsideOK, Aside
  <2>1. Keeps(t)
    OBVIOUS
  <2>2. QED
    BY <2>1 DEF SupervisorIsSound, AsideOK, Aside, Keeps
<1>4. DownOK'
  BY DEF DownOK
<1>5. QED
  BY <1>1, <1>2, <1>3, <1>4 DEF SupervisorIsSound

LEMMA UnchangedKeeps ==
  ASSUME SupervisorIsSound, NEW t \in Services, svc'[t] = svc[t], attempt'[t] = attempt[t],
         Aside(t) /\ op'.at = t => op'.pc = "starting"
  PROVE  Keeps(t)
<1>1. Aside(t) => /\ svc[t].state = "conflict" /\ svc[t].timer = 0 /\ svc[t].probe = 0
                  /\ attempt[t].pc \in { "none", "begin", "settled" }
  BY DEF SupervisorIsSound, AsideOK, Aside
<1>2. QED
  BY <1>1 DEF Keeps, Serving, Aside

(* An attempt goes on: it waits for nobody new, and it is not forgotten.     *)
GoesOn(s) ==
  /\ attempt'[s].left \subseteq Dependencies[s]
  /\ attempt'[s].pc = "dependency" => attempt[s].pc = "dependency" /\ attempt'[s].on = attempt[s].on
  /\ attempt'[s].pc = "none" => attempt[s].pc = "none"
  /\ attempt'[s].pc \in { "lease", "probing" } => attempt'[s].gen # 0

LEMMA AttemptGoesOn ==
  ASSUME AttemptsOK, NEW s \in Services, \A t \in Services \ {s} : attempt'[t] = attempt[t],
         GoesOn(s)
  PROVE  AttemptsOK'
<1> SUFFICES ASSUME NEW t \in Services
             PROVE  /\ attempt'[t].left \subseteq Dependencies[t]
                    /\ attempt'[t].pc = "dependency" =>
                         attempt'[t].on \in Dependencies[t] /\ attempt'[attempt'[t].on].pc # "none"
                    /\ attempt'[t].pc \in { "lease", "probing" } => attempt'[t].gen # 0
  BY DEF AttemptsOK
<1>1. Dependencies[t] \subseteq Services
  BY CatalogIsOrdered
<1>2. /\ attempt[t].left \subseteq Dependencies[t]
      /\ attempt[t].pc = "dependency" =>
           attempt[t].on \in Dependencies[t] /\ attempt[attempt[t].on].pc # "none"
      /\ attempt[t].pc \in { "lease", "probing" } => attempt[t].gen # 0
  BY DEF AttemptsOK
<1>3. \A u \in Services : attempt[u].pc # "none" => attempt'[u].pc # "none"
  BY DEF GoesOn
<1>4. QED
  BY <1>1, <1>2, <1>3 DEF GoesOn

(* A step of one service that is none of the operation's.                    *)
LEMMA OneServiceMoves ==
  ASSUME SupervisorIsSound, up, NEW s \in Services, OthersRest(s),
         UNCHANGED << op, lease, alive, up >>, Keeps(s), GoesOn(s),
         svc'[s].stopping => svc[s].stopping
  PROVE  SupervisorIsSound'
<1>1. Shapes'
  BY NumbersAreTyped DEF SupervisorIsSound, Shapes, OthersRest
<1>2. OperationOK'
  BY DEF SupervisorIsSound, OperationOK, OthersRest, GoesOn
<1>3. AttemptsOK'
  BY AttemptGoesOn DEF SupervisorIsSound, OthersRest
<1>4. \A t \in Services : Keeps(t)
  <2> TAKE t \in Services
  <2>1. CASE t = s
    BY <2>1
  <2>2. CASE t # s
    BY <2>2, UnchangedKeeps DEF OthersRest, SupervisorIsSound, AsideOK, Aside
  <2>3. QED
    BY <2>1, <2>2
<1>5. QED
  BY <1>1, <1>2, <1>3, <1>4, LeasesStay

(* A step of the operation, at one service.                                  *)
LEMMA OperationMoves ==
  ASSUME SupervisorIsSound, up, NEW s \in Services, OthersRest(s), attempt'[s] = attempt[s],
         UNCHANGED << lease, alive, up >>, op' \in Operations, OperationOK', Keeps(s),
         \A t \in Services : Aside(t) /\ op'.at = t => op'.pc = "starting"
  PROVE  SupervisorIsSound'
<1>1. Shapes'
  BY NumbersAreTyped DEF SupervisorIsSound, Shapes, OthersRest
<1>2. AttemptsOK'
  <2>1. attempt' = attempt
    BY DEF OthersRest, SupervisorIsSound, Shapes
  <2>2. QED
    BY <2>1 DEF AttemptsOK, SupervisorIsSound
<1>3. \A t \in Services : Keeps(t)
  <2> TAKE t \in Services
  <2>1. CASE t = s
    BY <2>1
  <2>2. CASE t # s
    BY <2>2, UnchangedKeeps DEF OthersRest
  <2>3. QED
    BY <2>1, <2>2
<1>4. QED
  BY <1>1, <1>2, <1>3, LeasesStay

LEMMA FactsOf ==
  ASSUME SupervisorIsSound, NEW s \in Services
  PROVE  /\ attempt[s].left \subseteq Dependencies[s]
         /\ attempt[s].pc \in { "lease", "probing" } => attempt[s].gen # 0
         /\ Aside(s) => /\ svc[s].state = "conflict" /\ svc[s].command = 0
                        /\ svc[s].timer = 0 /\ svc[s].probe = 0
                        /\ attempt[s].pc \in { "none", "begin", "settled" }
                        /\ op.at = s => op.pc = "starting"
         /\ svc[s].probe # 0 /\ svc[s].probe = svc[s].command => svc[s].monitor = svc[s].command
BY DEF SupervisorIsSound, AttemptsOK, AsideOK, WatchOK, Aside

LEMMA BeginIsSound ==
  ASSUME SupervisorIsSound, up, NEW s \in Services, Begin(s)
  PROVE  SupervisorIsSound'
<1>1. Shapes
  BY DEF SupervisorIsSound
<1>2. Keeps(s) /\ GoesOn(s) /\ (svc'[s].stopping => svc[s].stopping)
  <2>1. CASE svc[s].command # 0 \/ Unresolved(s)
    <3>1. svc'[s] = svc[s] /\ attempt[s].pc = "begin" /\ UNCHANGED op
          /\ Tries(attempt'[s], "settled", attempt[s].left, attempt[s].on, attempt[s].gen)
      BY <1>1, <2>1, BeginDoes
    <3>2. QED
      BY <3>1, FactsOf DEF Keeps, GoesOn, Tries, Serving, Aside
  <2>2. CASE ~(svc[s].command # 0 \/ Unresolved(s))
    <3>1. /\ Looks(svc'[s], svc[s].state, svc[s].stopping, svc[s].command, svc[s].generation,
                   svc[s].conflict, 0, svc[s].probe, svc[s].monitor)
          /\ Tries(attempt'[s], "next", Dependencies[s], attempt[s].on, attempt[s].gen)
          /\ attempt[s].pc = "begin"
      BY <1>1, <2>2, BeginDoes
    <3>2. ~Aside(s)
      BY <2>2, FactsOf DEF Unresolved, Aside
    <3>3. QED
      BY <3>1, <3>2 DEF Keeps, GoesOn, Looks, Tries, Serving, Aside
  <2>3. QED
    BY <2>1, <2>2
<1>3. OthersRest(s) /\ UNCHANGED << op, lease, alive, up >>
  BY <1>1, BeginDoes
<1>4. QED
  BY <1>2, <1>3, OneServiceMoves

LEMMA PortsOccupiedIsSound ==
  ASSUME SupervisorIsSound, up, NEW s \in Services, PortsOccupied(s)
  PROVE  SupervisorIsSound'
<1>1. /\ OthersRest(s) /\ UNCHANGED << op, lease, alive, up >>
      /\ attempt[s].pc = "ports"
      /\ Looks(svc'[s], "conflict", svc[s].stopping, svc[s].command, svc[s].generation, "port",
               svc[s].timer, svc[s].probe, svc[s].monitor)
      /\ Tries(attempt'[s], "settled", attempt[s].left, attempt[s].on, attempt[s].gen)
  BY PortsOccupiedDoes DEF SupervisorIsSound
<1>2. Keeps(s) /\ GoesOn(s) /\ (svc'[s].stopping => svc[s].stopping)
  BY <1>1, FactsOf DEF Keeps, GoesOn, Looks, Tries, Serving, Aside
<1>3. QED
  BY <1>1, <1>2, OneServiceMoves

LEMMA StartAnsweredIsSound ==
  ASSUME SupervisorIsSound, up, NEW s \in Services, StartAnswered(s)
  PROVE  SupervisorIsSound'
<1>1. /\ OthersRest(s) /\ UNCHANGED << op, lease, alive, up >>
      /\ attempt[s].pc = "probing"
      /\ Tries(attempt'[s], "settled", attempt[s].left, attempt[s].on, attempt[s].gen)
      /\ \/ svc'[s] = svc[s]
         \/ /\ svc[s].command = attempt[s].gen
            /\ Looks(svc'[s], "healthy", svc[s].stopping, svc[s].command, svc[s].generation,
                     svc[s].conflict, svc[s].timer, svc[s].probe, attempt[s].gen)
  BY StartAnsweredDoes DEF SupervisorIsSound, Superseded
<1>2. ~Aside(s) /\ attempt[s].gen # 0 /\ attempt[s].left \subseteq Dependencies[s]
  BY <1>1, FactsOf
<1>3. Keeps(s)
  BY <1>1, <1>2 DEF Keeps, Looks, Tries, Serving, Aside
<1>4. GoesOn(s) /\ (svc'[s].stopping => svc[s].stopping)
  BY <1>1, <1>2 DEF GoesOn, Looks, Tries
<1>5. QED
  BY <1>1, <1>3, <1>4, OneServiceMoves

LEMMA StartTimesOutIsSound ==
  ASSUME SupervisorIsSound, up, NEW s \in Services, StartTimesOut(s)
  PROVE  SupervisorIsSound'
<1>1. /\ OthersRest(s) /\ UNCHANGED << op, lease, alive, up >>
      /\ attempt[s].pc = "probing" /\ svc'[s] = svc[s]
      /\ Tries(attempt'[s], "settled", attempt[s].left, attempt[s].on, attempt[s].gen)
  BY StartTimesOutDoes DEF SupervisorIsSound
<1>2. Keeps(s) /\ GoesOn(s) /\ (svc'[s].stopping => svc[s].stopping)
  BY <1>1, FactsOf DEF Keeps, GoesOn, Tries, Serving, Aside
<1>3. QED
  BY <1>1, <1>2, OneServiceMoves

LEMMA TimerFiresIsSound ==
  ASSUME SupervisorIsSound, up, NEW s \in Services, TimerFires(s)
  PROVE  SupervisorIsSound'
<1>1. /\ OthersRest(s) /\ UNCHANGED << op, lease, alive, up >> /\ svc[s].timer # 0
      /\ Looks(svc'[s], svc[s].state, svc[s].stopping, svc[s].command, svc[s].generation,
               svc[s].conflict, 0, svc[s].probe, svc[s].monitor)
      /\ \/ attempt'[s] = attempt[s]
         \/ attempt[s].pc = "none" /\ Tries(attempt'[s], "begin", {}, None, 0)
         \/ /\ attempt[s].pc # "none"
            /\ Tries(attempt'[s], attempt[s].pc, attempt[s].left, attempt[s].on, attempt[s].gen)
  BY TimerFiresDoes DEF SupervisorIsSound
<1>2. ~Aside(s)
  BY <1>1, FactsOf
<1>3. Keeps(s) /\ (svc'[s].stopping => svc[s].stopping)
  BY <1>1, <1>2 DEF Keeps, Looks, Tries, Serving, Aside
<1>4. GoesOn(s)
  BY <1>1, FactsOf DEF GoesOn, Tries
<1>5. QED
  BY <1>1, <1>3, <1>4, OneServiceMoves

LEMMA MonitorProbesIsSound ==
  ASSUME SupervisorIsSound, up, NEW s \in Services, MonitorProbes(s)
  PROVE  SupervisorIsSound'
<1>1. /\ OthersRest(s) /\ UNCHANGED << op, lease, alive, up >>
      /\ svc[s].monitor # 0 /\ svc[s].monitor = svc[s].command
      /\ Looks(svc'[s], svc[s].state, svc[s].stopping, svc[s].command, svc[s].generation,
               svc[s].conflict, svc[s].timer, svc[s].command, svc[s].monitor)
      /\ attempt'[s] = attempt[s]
  BY MonitorProbesDoes DEF SupervisorIsSound
<1>2. ~Aside(s)
  BY <1>1, FactsOf
<1>3. Keeps(s) /\ (svc'[s].stopping => svc[s].stopping)
  BY <1>1, <1>2 DEF Keeps, Looks, Serving, Aside
<1>4. GoesOn(s)
  BY <1>1, FactsOf DEF GoesOn
<1>5. QED
  BY <1>1, <1>3, <1>4, OneServiceMoves

LEMMA MonitorAnsweredIsSound ==
  ASSUME SupervisorIsSound, up, NEW s \in Services, NEW healthy \in BOOLEAN,
         MonitorAnswered(s, healthy)
  PROVE  SupervisorIsSound'
<1>1. /\ OthersRest(s) /\ UNCHANGED << op, lease, alive, up >> /\ svc[s].probe # 0
      /\ attempt'[s] = attempt[s]
      /\ \/ Looks(svc'[s], svc[s].state, svc[s].stopping, svc[s].command, svc[s].generation,
                  svc[s].conflict, svc[s].timer, 0, svc[s].monitor)
         \/ /\ svc[s].command = svc[s].probe
            /\ \E state \in { "healthy", "degraded", svc[s].state } :
                 Looks(svc'[s], state, svc[s].stopping, svc[s].command, svc[s].generation,
                       svc[s].conflict, svc[s].timer, 0, svc[s].monitor)
  <2>1. \/ ProbeIsStale(s) /\ Looks(svc'[s], svc[s].state, svc[s].stopping, svc[s].command,
                svc[s].generation, svc[s].conflict, svc[s].timer, 0, svc[s].monitor)
        \/ ~ProbeIsStale(s) /\ \E state \in { "healthy", "degraded", svc[s].state } :
             Looks(svc'[s], state, svc[s].stopping, svc[s].command, svc[s].generation,
                   svc[s].conflict, svc[s].timer, 0, svc[s].monitor)
    BY MonitorAnsweredDoes DEF SupervisorIsSound, Looks
  <2>2. QED
    BY <2>1, MonitorAnsweredDoes DEF SupervisorIsSound, ProbeIsStale
<1>2. ~Aside(s) /\ (svc[s].command = svc[s].probe => svc[s].monitor = svc[s].command)
  BY <1>1, FactsOf
<1>3. Keeps(s) /\ (svc'[s].stopping => svc[s].stopping)
  BY <1>1, <1>2 DEF Keeps, Looks, Serving, Aside
<1>4. GoesOn(s)
  BY <1>1, FactsOf DEF GoesOn
<1>5. QED
  BY <1>1, <1>3, <1>4, OneServiceMoves

LEMMA NextDependencyIsSound ==
  ASSUME SupervisorIsSound, up, NEW s \in Services, NextDependency(s)
  PROVE  SupervisorIsSound'
<1>0. Shapes /\ AttemptsOK /\ OperationOK
  BY DEF SupervisorIsSound
<1>1. /\ UNCHANGED << op, lease, alive, up >> /\ attempt[s].pc = "next"
      /\ svc' \in [Services -> Records] /\ attempt' \in [Services -> Attempts]
      /\ \A t \in Services : svc'[t].command \in { 0, svc'[t].generation }
      /\ \A t \in Services \ {s} : svc'[t] = svc[t]
  BY <1>0, NextDependencyDoes
<1>2. ~Aside(s) /\ attempt[s].left \subseteq Dependencies[s] /\ Dependencies[s] \subseteq Services
  BY <1>1, FactsOf, CatalogIsOrdered
<1>3. /\ \/ svc'[s] = svc[s]
         \/ Looks(svc'[s], "waiting_dependency", svc[s].stopping, svc[s].command,
                  svc[s].generation, svc[s].conflict, svc[s].timer, svc[s].probe, svc[s].monitor)
      /\ attempt'[s].pc \in { "ports", "next", "dependency" }
      /\ attempt'[s].left \subseteq attempt[s].left
      /\ attempt'[s].pc = "dependency" =>
           attempt'[s].on \in attempt[s].left \ {s} /\ attempt'[attempt'[s].on].pc # "none"
      /\ \A t \in Services \ {s} :
           \/ attempt'[t] = attempt[t]
           \/ attempt[t].pc = "none" /\ Tries(attempt'[t], "begin", {}, None, 0)
  <2>1. CASE /\ svc' = svc /\ attempt'[s].pc \in { "ports", "next" }
             /\ attempt'[s].left \subseteq attempt[s].left
             /\ \A t \in Services \ {s} : attempt'[t] = attempt[t]
    BY <2>1
  <2>2. CASE \E d \in attempt[s].left \ {s} :
               /\ Looks(svc'[s], "waiting_dependency", svc[s].stopping, svc[s].command,
                        svc[s].generation, svc[s].conflict, svc[s].timer, svc[s].probe, svc[s].monitor)
               /\ Tries(attempt'[s], "dependency", attempt[s].left, d, attempt[s].gen)
               /\ \A t \in Services \ {s, d} : attempt'[t] = attempt[t]
               /\ IF attempt[d].pc = "none" THEN Tries(attempt'[d], "begin", {}, None, 0)
                                            ELSE attempt'[d] = attempt[d]
    BY <2>2, <1>2 DEF Tries
  <2>3. QED
    BY <1>0, <2>1, <2>2, NextDependencyDoes DEF Tries
<1>4. \A t \in Services : Keeps(t)
  <2> TAKE t \in Services
  <2>1. CASE t = s
    BY <1>1, <1>2, <1>3, <2>1 DEF Keeps, Looks, Serving, Aside
  <2>2. CASE t # s /\ attempt'[t] = attempt[t]
    BY <1>1, <2>2, FactsOf, UnchangedKeeps
  <2>3. CASE t # s /\ attempt[t].pc = "none" /\ attempt'[t].pc = "begin"
    BY <1>1, <2>3, FactsOf DEF Keeps, Serving, Aside
  <2>4. QED
    BY <1>3, <2>1, <2>2, <2>3 DEF Tries
<1>5. Shapes'
  BY <1>0, <1>1 DEF Shapes
<1>6. \A t \in Services : attempt[t].pc # "none" => attempt'[t].pc # "none"
  BY <1>3
<1>7. OperationOK'
  BY <1>0, <1>1, <1>3, <1>6 DEF OperationOK, Looks
<1>8. AttemptsOK'
  <2> SUFFICES ASSUME NEW t \in Services
               PROVE  /\ attempt'[t].left \subseteq Dependencies[t]
                      /\ attempt'[t].pc = "dependency" =>
                           attempt'[t].on \in Dependencies[t] /\ attempt'[attempt'[t].on].pc # "none"
                      /\ attempt'[t].pc \in { "lease", "probing" } => attempt'[t].gen # 0
    BY DEF AttemptsOK
  <2>1. CASE t = s
    BY <1>2, <1>3, <2>1
  <2>2. CASE t # s /\ attempt'[t] = attempt[t]
    BY <1>0, <1>6, <2>2, CatalogIsOrdered DEF AttemptsOK
  <2>3. CASE t # s /\ Tries(attempt'[t], "begin", {}, None, 0)
    BY <2>3 DEF Tries
  <2>4. QED
    BY <1>3, <2>1, <2>2, <2>3
<1>9. QED
  BY <1>1, <1>4, <1>5, <1>7, <1>8, LeasesStay

LEMMA SettleIsSound ==
  ASSUME SupervisorIsSound, up, NEW s \in Services, Settle(s)
  PROVE  SupervisorIsSound'
<1>0. Shapes /\ AttemptsOK /\ OperationOK
  BY DEF SupervisorIsSound
<1>1. /\ UNCHANGED << lease, alive, up >> /\ attempt[s].pc = "settled"
      /\ svc' \in [Services -> Records] /\ attempt' \in [Services -> Attempts]
      /\ op' \in Operations
      /\ \A t \in Services : svc'[t].command \in { 0, svc'[t].generation }
      /\ \A t \in Services \ {s} : svc'[t] = svc[t]
      /\ Tries(attempt'[s], "none", {}, None, 0)
  BY <1>0, SettleDoes
<1>2. \/ svc'[s] = svc[s]
      \/ /\ svc[s].command = 0 /\ svc[s].state # "conflict"
         /\ Looks(svc'[s], "failed", svc[s].stopping, svc[s].command, svc[s].generation,
                  svc[s].conflict, svc[s].timer, svc[s].probe, svc[s].monitor)
  BY <1>0, SettleDoes
<1>3. \A t \in Services \ {s} :
        IF attempt[t].pc = "dependency" /\ attempt[t].on = s
        THEN /\ attempt'[t].pc \in { "next", "settled" }
             /\ attempt'[t].left \subseteq attempt[t].left
        ELSE attempt'[t] = attempt[t]
  <2> TAKE t \in Services \ {s}
  <2>1. IF attempt[t].pc = "dependency" /\ attempt[t].on = s
        THEN \/ Tries(attempt'[t], "next", attempt[t].left \ {s}, None, attempt[t].gen)
             \/ Tries(attempt'[t], "settled", attempt[t].left, None, attempt[t].gen)
        ELSE attempt'[t] = attempt[t]
    BY <1>0, SettleDoes
  <2>2. QED
    BY <2>1 DEF Tries
<1>4. IF op.pc = "starting" /\ op.at = s THEN op'.pc \in { "next", "idle" } /\ op'.at = None
                                         ELSE op' = op
  BY <1>0, SettleDoes
<1>5. \A t \in Services : Keeps(t)
  <2> TAKE t \in Services
  <2>1. CASE t = s
    <3>1. Aside(s) => svc'[s] = svc[s] /\ svc[s].state = "conflict" /\ svc[s].timer = 0
                      /\ svc[s].probe = 0 /\ (op.at = s => op.pc = "starting")
      BY <1>2, FactsOf
    <3>2. op'.at # s \/ (op'.at = op.at /\ op'.pc = op.pc)
      BY <1>4, NoneIsNoService
    <3>3. QED
      BY <1>1, <1>2, <2>1, <3>1, <3>2 DEF Keeps, Looks, Tries, Serving, Aside
  <2>2. CASE t # s /\ attempt'[t] = attempt[t]
    <3>1. Aside(t) /\ op'.at = t => op'.pc = "starting"
      BY <1>4, FactsOf, NoneIsNoService
    <3>2. QED
      BY <1>1, <2>2, <3>1, UnchangedKeeps
  <2>3. CASE /\ t # s /\ attempt[t].pc = "dependency"
             /\ attempt'[t].pc \in { "next", "settled" }
    <3>1. ~Aside(t)
      BY <2>3, FactsOf
    <3>2. QED
      BY <1>1, <2>3, <3>1 DEF Keeps, Serving, Aside
  <2>4. QED
    BY <1>3, <2>1, <2>2, <2>3
<1>6. Shapes'
  BY <1>0, <1>1 DEF Shapes
<1>7. \A t \in Services \ {s} : attempt[t].pc # "none" => attempt'[t].pc # "none"
  BY <1>3
<1>8. OperationOK'
  <2>1. op.pc = "starting" => op.at \in Services /\ attempt[op.at].pc # "none"
    BY <1>0 DEF OperationOK
  <2>2. op'.pc = "starting" => op'.at \in Services /\ attempt'[op'.at].pc # "none"
    BY <1>4, <1>7, <2>1
  <2>3. \A t \in Services : svc'[t].stopping = svc[t].stopping
    BY <1>1, <1>2 DEF Looks
  <2>4. op'.pc # "lease" => \A i \in DOMAIN lease.queue : lease.queue[i].by # "stop"
    BY <1>0, <1>4 DEF OperationOK
  <2>5. CASE op' = op
    BY <1>0, <1>1, <2>2, <2>3, <2>5 DEF OperationOK
  <2>6. CASE op'.pc \in { "next", "idle" } /\ op.pc = "starting"
    BY <1>0, <1>1, <2>2, <2>3, <2>4, <2>6 DEF OperationOK
  <2>7. QED
    BY <1>4, <2>5, <2>6
<1>9. AttemptsOK'
  <2> SUFFICES ASSUME NEW t \in Services
               PROVE  /\ attempt'[t].left \subseteq Dependencies[t]
                      /\ attempt'[t].pc = "dependency" =>
                           attempt'[t].on \in Dependencies[t] /\ attempt'[attempt'[t].on].pc # "none"
                      /\ attempt'[t].pc \in { "lease", "probing" } => attempt'[t].gen # 0
    BY DEF AttemptsOK
  <2>1. CASE t = s
    BY <1>1, <2>1 DEF Tries
  <2>2. /\ attempt[t].left \subseteq Dependencies[t]
        /\ attempt[t].pc = "dependency" =>
             attempt[t].on \in Dependencies[t] /\ attempt[attempt[t].on].pc # "none"
        /\ attempt[t].pc \in { "lease", "probing" } => attempt[t].gen # 0
    BY <1>0 DEF AttemptsOK
  <2>3. CASE t # s /\ attempt[t].pc = "dependency" /\ attempt[t].on = s
    BY <1>3, <2>2, <2>3
  <2>4. CASE t # s /\ ~(attempt[t].pc = "dependency" /\ attempt[t].on = s)
    <3>1. attempt'[t] = attempt[t]
      BY <1>3, <2>4
    <3>2. attempt[t].pc = "dependency" => attempt[t].on \in Services \ {s}
      BY <2>2, <2>4, CatalogIsOrdered
    <3>3. QED
      BY <1>7, <2>2, <3>1, <3>2
  <2>5. QED
    BY <2>1, <2>3, <2>4
<1>10. QED
  BY <1>1, <1>5, <1>6, <1>8, <1>9, LeasesStay

LEMMA QuietEndsIsSound ==
  ASSUME SupervisorIsSound, up, NEW s \in Services, s = op.at, QuietEnds
  PROVE  SupervisorIsSound'
<1>0. Shapes /\ OperationOK
  BY DEF SupervisorIsSound
<1>1. op.pc = "quiet" /\ s \in op.stops /\ op \in Operations
  BY <1>0 DEF QuietEnds, OperationOK, Shapes
<1>3. /\ OthersRest(s) /\ UNCHANGED << lease, alive, up >> /\ attempt'[s] = attempt[s]
      /\ Looks(svc'[s], (IF svc[s].state = "conflict" THEN "conflict" ELSE "stopped"),
               svc[s].stopping, svc[s].command, svc[s].generation, svc[s].conflict, svc[s].timer,
               svc[s].probe, svc[s].monitor)
  BY <1>0, QuietEndsDoes
<1>4. op' \in Operations /\ op'.pc = "next" /\ op'.at = None
  BY <1>1 DEF QuietEnds, Operations
<1>5. ~Aside(s)
  BY <1>1, FactsOf
<1>6. Keeps(s)
  BY <1>3, <1>5 DEF Keeps, Looks, Serving, Aside
<1>7. OperationOK'
  <2>1. \A t \in Services : ~svc[t].stopping
    BY <1>0, <1>1 DEF OperationOK
  <2>2. \A t \in Services : ~svc'[t].stopping
    BY <1>3, <2>1 DEF OthersRest, Looks
  <2>3. QED
    BY <1>0, <1>1, <1>3, <1>4, <2>2 DEF OperationOK
<1>8. QED
  BY <1>3, <1>4, <1>6, <1>7, OperationMoves, NoneIsNoService

LEMMA CloseTimesOutIsSound ==
  ASSUME SupervisorIsSound, up, NEW s \in Services, s = op.at, CloseTimesOut
  PROVE  SupervisorIsSound'
<1>0. Shapes /\ OperationOK
  BY DEF SupervisorIsSound
<1>1. op.pc = "closing" /\ s \in op.stops /\ op \in Operations
  BY <1>0 DEF CloseTimesOut, OperationOK, Shapes
<1>3. /\ OthersRest(s) /\ UNCHANGED << lease, alive, up >> /\ attempt'[s] = attempt[s]
      /\ op' = NoOp
      /\ Looks(svc'[s], "failed", FALSE, svc[s].command, svc[s].generation, svc[s].conflict,
               svc[s].timer, svc[s].probe, svc[s].monitor)
  BY <1>0, CloseTimesOutDoes
<1>4. op' \in Operations /\ op'.pc = "idle" /\ op'.at = None
  BY <1>3, EmptyRecords
<1>5. ~Aside(s)
  BY <1>1, FactsOf
<1>6. Keeps(s)
  BY <1>3, <1>5 DEF Keeps, Looks, Serving, Aside
<1>7. OperationOK'
  <2>1. \A t \in Services : svc[t].stopping => t = s
    BY <1>0 DEF OperationOK
  <2>2. \A t \in Services : ~svc'[t].stopping
    BY <1>3, <2>1 DEF OthersRest, Looks
  <2>3. QED
    BY <1>0, <1>1, <1>3, <1>4, <2>2 DEF OperationOK
<1>8. QED
  BY <1>3, <1>4, <1>6, <1>7, OperationMoves, NoneIsNoService

LEMMA PortsStillTakenIsSound ==
  ASSUME SupervisorIsSound, up, NEW s \in Services, s = op.at, PortsStillTaken
  PROVE  SupervisorIsSound'
<1>0. Shapes /\ OperationOK
  BY DEF SupervisorIsSound
<1>1. op.pc \in { "quiet", "released" } /\ s \in op.stops /\ op \in Operations
  BY <1>0 DEF PortsStillTaken, OperationOK, Shapes
<1>3. /\ OthersRest(s) /\ UNCHANGED << lease, alive, up >> /\ attempt'[s] = attempt[s]
      /\ op' = NoOp
      /\ Looks(svc'[s], "conflict", FALSE, svc[s].command, svc[s].generation, "port",
               svc[s].timer, svc[s].probe, svc[s].monitor)
  BY <1>0, PortsStillTakenDoes
<1>4. op' \in Operations /\ op'.pc = "idle" /\ op'.at = None
  BY <1>3, EmptyRecords
<1>5. Keeps(s)
  BY <1>3 DEF Keeps, Looks, Serving, Aside
<1>6. OperationOK'
  <2>1. \A t \in Services : svc[t].stopping => t = s
    BY <1>0 DEF OperationOK
  <2>2. \A t \in Services : ~svc'[t].stopping
    BY <1>3, <2>1 DEF OthersRest, Looks
  <2>3. QED
    BY <1>0, <1>1, <1>3, <1>4, <2>2 DEF OperationOK
<1>7. QED
  BY <1>3, <1>4, <1>5, <1>6, OperationMoves, NoneIsNoService

(* The operation stays away from what was set aside: at a service it stops,  *)
(* there is or was something to stop.                                        *)
LEMMA StopNextIsSound ==
  ASSUME SupervisorIsSound, up, op.pc = "next", StopNext, UNCHANGED << lease, alive, up >>,
         NEW s \in Services, s = LastOf(op.stops), s \in op.stops
  PROVE  SupervisorIsSound'
<1>0. Shapes /\ OperationOK /\ op \in Operations
  BY DEF SupervisorIsSound, Shapes
<1>1. svc[s].command \in Nat /\ \A t \in Services : ~svc[t].stopping
  BY <1>0, NumbersAreTyped DEF OperationOK
<1>2. OthersRest(s) /\ attempt'[s] = attempt[s]
  BY <1>0, StopNextDoes
<1>3. CASE svc[s].command = 0 /\ svc[s].state \in { "stopped", "conflict" }
  <2>1. Looks(svc'[s], svc[s].state, svc[s].stopping, svc[s].command, svc[s].generation,
              svc[s].conflict, 0, svc[s].probe, svc[s].monitor)
    BY <1>0, <1>3, StopNextDoes
  <2>2. op' = [op EXCEPT !.stops = @ \ {s}]
    BY <1>3 DEF StopNext
  <2>3. op' \in Operations /\ op'.pc = "next" /\ op'.at = op.at
    BY <1>0, <2>2 DEF Operations
  <2>4. Keeps(s)
    BY <1>2, <2>1, <2>3, FactsOf DEF Keeps, Looks, Serving, Aside
  <2>5. \A t \in Services : ~svc'[t].stopping
    BY <1>1, <1>2, <2>1 DEF OthersRest, Looks
  <2>6. OperationOK'
    BY <1>0, <2>3, <2>5 DEF OperationOK
  <2>7. QED
    BY <1>2, <2>3, <2>4, <2>6, OperationMoves, FactsOf
<1>4. CASE svc[s].command = 0 /\ svc[s].state \notin { "stopped", "conflict" }
  <2>1. Looks(svc'[s], svc[s].state, svc[s].stopping, svc[s].command, svc[s].generation,
              svc[s].conflict, 0, svc[s].probe, svc[s].monitor)
    BY <1>0, <1>4, StopNextDoes
  <2>2. op' = [op EXCEPT !.pc = "quiet", !.at = s]
    BY <1>4 DEF StopNext
  <2>3. op' \in Operations /\ op'.pc = "quiet" /\ op'.at = s /\ op'.stops = op.stops
    BY <1>0, <2>2 DEF Operations
  <2>4. ~Aside(s)
    BY <1>4, FactsOf
  <2>5. Keeps(s)
    BY <1>2, <2>1, <2>4 DEF Keeps, Looks, Serving, Aside
  <2>6. \A t \in Services : ~svc'[t].stopping
    BY <1>1, <1>2, <2>1 DEF OthersRest, Looks
  <2>7. OperationOK'
    BY <1>0, <2>3, <2>6 DEF OperationOK
  <2>8. QED
    BY <1>2, <2>3, <2>4, <2>5, <2>7, OperationMoves
<1>5. CASE svc[s].command # 0
  <2>1. Looks(svc'[s], "stopping", TRUE, svc[s].command, svc[s].generation, svc[s].conflict, 0,
              svc[s].probe, svc[s].monitor)
    BY <1>0, <1>5, StopNextDoes
  <2>2. op' = [op EXCEPT !.pc = "hook", !.at = s, !.gen = svc[s].command]
    BY <1>5 DEF StopNext
  <2>3. /\ op' \in Operations /\ op'.pc = "hook" /\ op'.at = s /\ op'.stops = op.stops
        /\ op'.gen # 0
    BY <1>0, <1>1, <1>5, <2>2 DEF Operations
  <2>4. ~Aside(s)
    BY <1>5, FactsOf
  <2>5. Keeps(s)
    BY <1>2, <2>1, <2>4 DEF Keeps, Looks, Serving, Aside
  <2>6. \A t \in Services : svc'[t].stopping => t = s
    BY <1>1, <1>2 DEF OthersRest
  <2>7. OperationOK'
    BY <1>0, <2>3, <2>6 DEF OperationOK
  <2>8. QED
    BY <1>2, <2>3, <2>4, <2>5, <2>7, OperationMoves
<1>6. QED
  BY <1>3, <1>4, <1>5

LEMMA StartNextIsSound ==
  ASSUME SupervisorIsSound, up, op.pc = "next", StartNext, UNCHANGED << lease, alive, up >>,
         NEW s \in Services, s = FirstOf(op.starts)
  PROVE  SupervisorIsSound'
<1>0. Shapes /\ OperationOK /\ AttemptsOK /\ op \in Operations /\ attempt[s] \in Attempts
  BY DEF SupervisorIsSound, Shapes
<1> DEFINE a == IF attempt[s].pc = "none" THEN [NoAttempt EXCEPT !.pc = "begin", !.timers = {}]
                ELSE [attempt[s] EXCEPT !.timers = @ \cup {}]
<1>1. attempt' = [attempt EXCEPT ![s] = a] /\ svc' = svc
  BY <1>0 DEF StartNext, StartSingle, Shapes
<1>2. /\ a \in Attempts /\ a.pc # "none"
      /\ \/ attempt[s].pc = "none" /\ Tries(a, "begin", {}, None, 0)
         \/ /\ attempt[s].pc # "none"
            /\ Tries(a, attempt[s].pc, attempt[s].left, attempt[s].on, attempt[s].gen)
  BY <1>0 DEF Attempts, Tries, NoAttempt
<1> HIDE DEF a
<1>3. attempt'[s] = a /\ \A t \in Services \ {s} : attempt'[t] = attempt[t]
  BY <1>0, <1>1 DEF Shapes
<1>4. op' \in Operations /\ op'.pc = "starting" /\ op'.at = s
  BY <1>0 DEF StartNext, Operations
<1>5. GoesOn(s)
  BY <1>2, <1>3, FactsOf DEF GoesOn, Tries
<1>6. AttemptsOK'
  BY <1>0, <1>3, <1>5, AttemptGoesOn
<1>7. OperationOK'
  BY <1>0, <1>1, <1>2, <1>3, <1>4 DEF OperationOK
<1>8. Shapes'
  <2>1. attempt' \in [Services -> Attempts]
    BY <1>0, <1>1, <1>2 DEF Shapes
  <2>2. QED
    BY <1>0, <1>1, <1>4, <2>1 DEF Shapes
<1>9. \A t \in Services : Keeps(t)
  <2> TAKE t \in Services
  <2>1. CASE t = s
    BY <1>1, <1>2, <1>3, <1>4, <2>1, FactsOf DEF Keeps, Tries, Serving, Aside
  <2>2. CASE t # s
    BY <1>1, <1>3, <1>4, <2>2, UnchangedKeeps
  <2>3. QED
    BY <2>1, <2>2
<1>10. QED
  BY <1>6, <1>7, <1>8, <1>9, LeasesStay

(* A step of the operation that leaves the services as they are.             *)
LEMMA OnlyTheOperation ==
  ASSUME SupervisorIsSound, up, UNCHANGED << svc, attempt, lease, alive, up >>,
         op' \in Operations, OperationOK',
         \A t \in Services : Aside(t) /\ op'.at = t => op'.pc = "starting"
  PROVE  SupervisorIsSound'
<1>1. Shapes' /\ AttemptsOK'
  BY DEF SupervisorIsSound, Shapes, AttemptsOK
<1>2. \A t \in Services : Keeps(t)
  BY UnchangedKeeps
<1>3. QED
  BY <1>1, <1>2, LeasesStay

LEMMA HookEndsIsSound ==
  ASSUME SupervisorIsSound, up, HookEnds
  PROVE  SupervisorIsSound'
<1>0. OperationOK /\ op \in Operations /\ op.pc = "hook"
  BY DEF SupervisorIsSound, Shapes, HookEnds
<1>1. UNCHANGED << svc, attempt, lease, alive, up >>
  BY DEF HookEnds
<1>2. op' \in { [op EXCEPT !.pc = "closing"], [op EXCEPT !.pc = "released"] }
  BY DEF HookEnds
<1>3. /\ op' \in Operations /\ op'.pc \in { "closing", "released" }
      /\ op'.at = op.at /\ op'.stops = op.stops /\ op'.gen = op.gen
  BY <1>0, <1>2 DEF Operations
<1>4. OperationOK'
  BY <1>0, <1>1, <1>3 DEF OperationOK
<1>5. \A t \in Services : Aside(t) /\ op'.at = t => op'.pc = "starting"
  BY <1>0, <1>3, FactsOf
<1>6. QED
  BY <1>1, <1>3, <1>4, <1>5, OnlyTheOperation

LEMMA SucceededIsSound ==
  ASSUME SupervisorIsSound, up, op.pc = "next", Succeeded, UNCHANGED << lease, alive, up >>
  PROVE  SupervisorIsSound'
<1>0. OperationOK
  BY DEF SupervisorIsSound
<1>1. op' \in Operations /\ op'.pc = "idle" /\ op'.at = None
  BY EmptyRecords DEF Succeeded
<1>2. UNCHANGED << svc, attempt >>
  BY DEF Succeeded
<1>3. OperationOK'
  BY <1>0, <1>1, <1>2 DEF OperationOK
<1>4. QED
  BY <1>1, <1>2, <1>3, OnlyTheOperation, NoneIsNoService

LEMMA ExecuteDoes ==
  ASSUME SupervisorIsSound, NEW stops \in SUBSET Services, NEW starts \in SUBSET Services,
         NEW oneByOne \in BOOLEAN, Execute(stops, starts, oneByOne)
  PROVE  /\ op' \in Operations /\ op'.pc = "next" /\ op'.at = None
         /\ UNCHANGED << attempt, lease, alive, up >>
         /\ \A t \in Services : ~svc[t].stopping
         /\ \A i \in DOMAIN lease.queue : lease.queue[i].by # "stop"
<1>1. op' = [NoOp EXCEPT !.pc = "next", !.stops = stops, !.starts = starts, !.oneByOne = oneByOne]
  BY DEF Execute
<1>2. op' \in Operations /\ op'.pc = "next" /\ op'.at = None
  BY <1>1 DEF NoOp, Operations
<1>3. UNCHANGED << attempt, lease, alive, up >> /\ op.pc = "idle"
  BY DEF Execute, processes
<1>4. QED
  BY <1>2, <1>3 DEF SupervisorIsSound, OperationOK

LEMMA TargetsAreServices ==
  ASSUME NEW targets \in SUBSET Services
  PROVE  /\ targets \cup UNION { TransitiveDependencies(s) : s \in targets } \in SUBSET Services
         /\ targets \cup UNION { TransitiveDependents(s) : s \in targets } \in SUBSET Services
<1>1. \A s \in Services : /\ TransitiveDependencies(s) \subseteq Services
                          /\ TransitiveDependents(s) \subseteq Services
  BY DEF TransitiveDependencies, TransitiveDependents
<1>2. QED
  BY <1>1

LEMMA RequestIsSound ==
  ASSUME SupervisorIsSound, up, NEW targets \in SUBSET Services, NEW keep,
         StartTarget(targets) \/ RestartTarget(targets) \/ StopTarget(targets, keep)
  PROVE  SupervisorIsSound'
<1>0. Shapes /\ OperationOK
  BY DEF SupervisorIsSound, Shapes
<1>1. CASE UNCHANGED svc /\ \E stops, starts \in SUBSET Services :
             \E oneByOne \in BOOLEAN : Execute(stops, starts, oneByOne)
  <2>1. /\ op' \in Operations /\ op'.pc = "next" /\ op'.at = None
        /\ UNCHANGED << attempt, lease, alive, up >>
        /\ \A t \in Services : ~svc[t].stopping
        /\ \A i \in DOMAIN lease.queue : lease.queue[i].by # "stop"
    BY <1>1, ExecuteDoes
  <2>2. OperationOK'
    BY <1>0, <1>1, <2>1 DEF OperationOK
  <2>3. QED
    BY <1>1, <2>1, <2>2, OnlyTheOperation, NoneIsNoService
<1>2. CASE StartTarget(targets)
  <2>1. Execute({}, targets \cup UNION { TransitiveDependencies(s) : s \in targets }, FALSE)
        /\ UNCHANGED svc
    BY <1>2 DEF StartTarget
  <2>2. QED
    BY <1>1, <2>1, TargetsAreServices
<1>3. CASE RestartTarget(targets)
  <2> DEFINE selected == targets \cup UNION { TransitiveDependents(s) : s \in targets }
             running == { s \in selected : svc[s].state \notin { "stopped", "conflict" } }
  <2>1. Execute(running, targets \cup running, TRUE) /\ UNCHANGED svc
    BY <1>3 DEF RestartTarget
  <2>2. running \in SUBSET Services /\ targets \cup running \in SUBSET Services
    BY TargetsAreServices
  <2> HIDE DEF running
  <2>3. QED
    BY <1>1, <2>1, <2>2
<1>4. CASE StopTarget(targets, keep)
  <2> DEFINE selected == (targets \cup UNION { TransitiveDependents(s) : s \in targets }) \ keep
  <2>1. Execute(selected, {}, FALSE)
        /\ svc' = [ s \in Services |->
             IF s \in selected THEN [ svc[s] EXCEPT !.desired = FALSE ] ELSE svc[s] ]
    BY <1>4 DEF StopTarget
  <2>2. selected \in SUBSET Services
    BY TargetsAreServices
  <2> HIDE DEF selected
  <2>3. /\ op' \in Operations /\ op'.pc = "next" /\ op'.at = None
        /\ UNCHANGED << attempt, lease, alive, up >>
        /\ \A t \in Services : ~svc[t].stopping
        /\ \A i \in DOMAIN lease.queue : lease.queue[i].by # "stop"
    BY <2>1, <2>2, ExecuteDoes
  <2>4. \A s \in Services :
          /\ svc'[s] \in Records
          /\ Looks(svc'[s], svc[s].state, svc[s].stopping, svc[s].command, svc[s].generation,
                   svc[s].conflict, svc[s].timer, svc[s].probe, svc[s].monitor)
    <3> TAKE s \in Services
    <3>1. svc'[s] \in { [ svc[s] EXCEPT !.desired = FALSE ], svc[s] } /\ svc[s] \in Records
      BY <1>0, <2>1 DEF Shapes
    <3>2. QED
      BY <3>1 DEF Records, Looks
  <2>5. Shapes'
    <3>1. svc' \in [Services -> Records]
      BY <2>1, <2>4
    <3>2. QED
      BY <1>0, <2>3, <2>4, <3>1 DEF Shapes, Looks
  <2>6. AttemptsOK'
    BY <2>3 DEF SupervisorIsSound, AttemptsOK
  <2>7. OperationOK'
    BY <1>0, <2>3, <2>4 DEF OperationOK, Looks
  <2>8. \A t \in Services : Keeps(t)
    <3> TAKE t \in Services
    <3>1. Looks(svc'[t], svc[t].state, svc[t].stopping, svc[t].command, svc[t].generation,
                svc[t].conflict, svc[t].timer, svc[t].probe, svc[t].monitor)
      BY <2>4
    <3>2. attempt'[t] = attempt[t] /\ op'.at # t
      BY <2>3, NoneIsNoService
    <3>3. QED
      BY <3>1, <3>2, FactsOf DEF Keeps, Looks, Serving, Aside
  <2>9. QED
    BY <2>3, <2>5, <2>6, <2>7, <2>8, LeasesStay
<1>5. QED
  BY <1>2, <1>3, <1>4

LEMMA RestIsSound ==
  ASSUME SupervisorIsSound, UNCHANGED << memory, lease, up >>,
         alive' \in [Services -> SUBSET (Nat \ {0})]
  PROVE  SupervisorIsSound'
BY DEF SupervisorIsSound, Shapes, OperationOK, AttemptsOK, LeasesOK, WatchOK, CloseIsComing,
       AsideOK, DownOK, memory

-------------------------------------------------------------------------------
(* The writes of the lease file. *)
Watched(t) ==
  /\ Serving(t) => IF svc[t].command = 0 THEN CloseIsComing(t)
                   ELSE svc[t].monitor = svc[t].command
  /\ svc[t].probe <= svc[t].generation
  /\ svc[t].probe # 0 /\ svc[t].probe = svc[t].command => svc[t].monitor = svc[t].command

(* The queue gains a write for s, drafted at once when it is the only one.   *)
Gains(e) ==
  /\ lease'.file = lease.file
  /\ DOMAIN lease.queue = 1..Len(lease.queue) /\ Len(lease.queue) \in Nat
  /\ DOMAIN lease'.queue = 1..(Len(lease.queue) + 1)
  /\ \A i \in DOMAIN lease.queue : lease'.queue[i] = lease.queue[i]
  /\ lease'.queue[Len(lease.queue) + 1] = e
  /\ lease.queue # << >> => lease'.draft = lease.draft
  /\ lease.queue = << >> => \A t \in Services : lease'.draft[t] = svc'[t].command
  /\ lease.queue = << >> <=> Len(lease.queue) = 0

LEMMA WriteDoes ==
  ASSUME Shapes, NEW by \in { "attempt", "close", "stop" }, NEW s \in Services, NEW g \in Nat,
         NEW commands \in [Services -> Nat], WriteLeases(by, s, g, commands),
         \A t \in Services : commands[t] = svc'[t].command
  PROVE  lease' \in Leases /\ Gains([ by |-> by, of |-> s, gen |-> g ])
<1> DEFINE e == [ by |-> by, of |-> s, gen |-> g ]
           q == lease.queue
           d == IF q = << >> THEN commands ELSE lease.draft
<1>1. lease \in Leases /\ e \in Entries
  BY DEF Shapes, Entries
<1>2. q \in Seq(Entries) /\ lease.file \in [Services -> Nat] /\ lease.draft \in [Services -> Nat]
  BY <1>1 DEF Leases
<1>3. lease' = [lease EXCEPT !.queue = Append(q, e), !.draft = d]
  BY DEF WriteLeases
<1> HIDE DEF e
<1>4. Append(q, e) \in Seq(Entries) /\ d \in [Services -> Nat]
  BY <1>1, <1>2
<1>5. /\ lease' \in Leases /\ lease'.file = lease.file /\ lease'.queue = Append(q, e)
      /\ lease'.draft = d
  <2> HIDE DEF d, q
  <2>1. QED
    BY <1>1, <1>3, <1>4 DEF Leases
<1>6. /\ DOMAIN q = 1..Len(q) /\ Len(q) \in Nat /\ (q = << >> <=> Len(q) = 0)
      /\ DOMAIN Append(q, e) = 1..(Len(q) + 1)
      /\ \A i \in DOMAIN q : Append(q, e)[i] = q[i]
      /\ Append(q, e)[Len(q) + 1] = e
  BY <1>1, <1>2
<1>7. QED
  BY <1>5, <1>6 DEF Gains, e

LEMMA GainKeepsLeases ==
  ASSUME SupervisorIsSound, NEW s \in Services, OthersRest(s), NEW e, e.of = s, Gains(e),
         svc'[s].command = 0 \/ attempt'[s].pc = "lease",
         attempt[s].pc = "lease" => attempt'[s].pc = "lease" /\ svc'[s].command = 0
                                    /\ e.by # "attempt",
         e.by = "attempt" => attempt'[s].pc = "lease"
  PROVE  LeasesOK'
<1> DEFINE n == Len(lease.queue) + 1
<1>0. LeasesOK /\ Shapes /\ n \in Nat
  BY DEF SupervisorIsSound, Gains
<1>1. \A i \in DOMAIN lease'.queue : i = n \/ i \in DOMAIN lease.queue
  BY DEF Gains
<1>2. \A i \in DOMAIN lease.queue : lease'.queue[i] = lease.queue[i] /\ lease.queue[i].of \in Services
  BY <1>0, EntriesAreTyped DEF Gains
<1>3. lease'.queue[n] = e /\ lease'.file = lease.file
  BY DEF Gains
<1>4. /\ lease.queue # << >> => lease'.draft = lease.draft
      /\ lease.queue = << >> => \A t \in Services : lease'.draft[t] = svc'[t].command
      /\ n = 1 => lease.queue = << >>
  BY DEF Gains
<1>5. \A t \in Services \ {s} : svc'[t] = svc[t] /\ attempt'[t] = attempt[t]
  BY DEF OthersRest
<1> HIDE DEF n
<1>6. \A t \in Services : svc'[t].command # 0 /\ attempt'[t].pc # "lease" =>
         /\ lease'.file[t] = svc'[t].command
         /\ lease'.queue # << >> => lease'.draft[t] = svc'[t].command
  BY <1>0, <1>3, <1>4, <1>5 DEF LeasesOK
<1>7. \A i \in DOMAIN lease'.queue :
        lease'.queue[i].by = "attempt" =>
          /\ attempt'[lease'.queue[i].of].pc = "lease"
          /\ i = 1 /\ svc'[lease'.queue[i].of].command # 0 =>
               lease'.draft[lease'.queue[i].of] = svc'[lease'.queue[i].of].command
  <2> TAKE i \in DOMAIN lease'.queue
  <2>1. CASE i = n
    BY <1>3, <1>4, <2>1
  <2>2. CASE i \in DOMAIN lease.queue /\ i # n
    <3>1. lease.queue # << >>
      BY <2>2
    <3>2. QED
      BY <1>0, <1>2, <1>4, <1>5, <2>2, <3>1 DEF LeasesOK
  <2>3. QED
    BY <1>1, <2>1, <2>2
<1>8. \A i, j \in DOMAIN lease'.queue :
        /\ lease'.queue[i].by = "attempt" /\ lease'.queue[j].by = "attempt"
        /\ lease'.queue[i].of = lease'.queue[j].of
        => i = j
  <2>1. \A i \in DOMAIN lease.queue :
          lease.queue[i].by = "attempt" /\ lease.queue[i].of = s => attempt[s].pc = "lease"
    BY <1>0 DEF LeasesOK
  <2>2. \A i, j \in DOMAIN lease.queue :
        /\ lease.queue[i].by = "attempt" /\ lease.queue[j].by = "attempt"
        /\ lease.queue[i].of = lease.queue[j].of
        => i = j
    BY <1>0 DEF LeasesOK
  <2>3. QED
    BY <1>1, <1>2, <1>3, <2>1, <2>2
<1>9. QED
  BY <1>6, <1>7, <1>8 DEF LeasesOK

LEMMA GainKeepsWatch ==
  ASSUME SupervisorIsSound, NEW s \in Services, OthersRest(s), NEW e, Gains(e), Watched(s)'
  PROVE  WatchOK'
<1> SUFFICES ASSUME NEW t \in Services PROVE Watched(t)'
  BY DEF WatchOK, Watched, Serving
<1>1. CASE t = s
  BY <1>1
<1>2. CASE t # s
  <2>1. svc'[t] = svc[t] /\ Watched(t)
    BY <1>2 DEF OthersRest, SupervisorIsSound, WatchOK, Watched, Serving
  <2>2. CloseIsComing(t) => CloseIsComing(t)'
    <3>1. DOMAIN lease.queue \subseteq DOMAIN lease'.queue
      BY DEF Gains
    <3>2. QED
      BY <2>1, <3>1 DEF Gains, CloseIsComing
  <2>3. QED
    BY <2>1, <2>2 DEF Watched, Serving
<1>3. QED
  BY <1>1, <1>2

LEMMA GainKeepsAside ==
  ASSUME SupervisorIsSound, NEW s \in Services, OthersRest(s), NEW e, e.of = s, Gains(e), ~Aside(s)',
         \A t \in Services : Aside(t) /\ op'.at = t => op'.pc = "starting"
  PROVE  AsideOK'
<1> SUFFICES ASSUME NEW t \in Services, Aside(t)'
             PROVE  /\ svc'[t].state = "conflict" /\ svc'[t].command = 0
                    /\ svc'[t].timer = 0 /\ svc'[t].probe = 0
                    /\ attempt'[t].pc \in { "none", "begin", "settled" }
                    /\ \A i \in DOMAIN lease'.queue : lease'.queue[i].of # t
                    /\ op'.at = t => op'.pc = "starting"
  BY DEF AsideOK, Aside
<1>1. t # s
  OBVIOUS
<1>2. svc'[t] = svc[t] /\ attempt'[t] = attempt[t] /\ Aside(t)
  BY <1>1 DEF OthersRest, Aside
<1>3. \A i \in DOMAIN lease.queue : lease.queue[i].of # t
  BY <1>2 DEF SupervisorIsSound, AsideOK, Aside
<1>4. \A i \in DOMAIN lease'.queue : lease'.queue[i].of # t
  BY <1>1, <1>3 DEF Gains
<1>5. QED
  BY <1>2, <1>4, FactsOf

LEMMA SpawnIsSound ==
  ASSUME SupervisorIsSound, up, NEW s \in Services, Spawn(s)
  PROVE  SupervisorIsSound'
<1> DEFINE g == svc[s].generation + 1
           e == [ by |-> "attempt", of |-> s, gen |-> g ]
<1>0. Shapes /\ OperationOK /\ AttemptsOK
  BY DEF SupervisorIsSound
<1>1. /\ OthersRest(s) /\ UNCHANGED << op, up >> /\ attempt[s].pc = "ports"
      /\ Looks(svc'[s], "starting", FALSE, g, g, "none", svc[s].timer, svc[s].probe, svc[s].monitor)
      /\ Tries(attempt'[s], "lease", attempt[s].left, attempt[s].on, g)
  BY <1>0, SpawnDoes
<1>2. g \in Nat /\ g # 0 /\ svc[s].probe \in Nat /\ svc[s].probe <= svc[s].generation
      /\ svc[s].generation \in Nat
  BY <1>0, NumbersAreTyped DEF SupervisorIsSound, WatchOK
<1>3. /\ alive' = [alive EXCEPT ![s] = @ \cup {g}]
      /\ WriteLeases("attempt", s, g, [ Commands EXCEPT ![s] = g ])
  BY DEF Spawn
<1>4. /\ [ Commands EXCEPT ![s] = g ] \in [Services -> Nat]
      /\ \A t \in Services : [ Commands EXCEPT ![s] = g ][t] = svc'[t].command
  <2>1. Commands \in [Services -> Nat] /\ \A t \in Services : Commands[t] = svc[t].command
    BY <1>0, NumbersAreTyped DEF Commands
  <2>2. QED
    BY <1>1, <1>2, <2>1 DEF OthersRest, Looks
<1>5. lease' \in Leases /\ Gains(e)
  BY <1>0, <1>2, <1>3, <1>4, WriteDoes
<1>6. Shapes'
  <2>1. alive' \in [Services -> SUBSET (Nat \ {0})]
    BY <1>0, <1>2, <1>3 DEF Shapes
  <2>2. QED
    BY <1>0, <1>1, <1>5, <2>1 DEF Shapes, OthersRest
<1>7. GoesOn(s)
  BY <1>1, <1>2, FactsOf DEF GoesOn, Tries
<1>8. AttemptsOK'
  BY <1>0, <1>1, <1>7, AttemptGoesOn DEF OthersRest
<1>9. OperationOK'
  <2>1. \A i \in DOMAIN lease'.queue : lease'.queue[i].by = "stop" =>
          i \in DOMAIN lease.queue /\ lease'.queue[i] = lease.queue[i]
    BY <1>5 DEF Gains
  <2>2. \A t \in Services : svc'[t].stopping => svc[t].stopping
    BY <1>1 DEF OthersRest, Looks
  <2>3. \A t \in Services : attempt[t].pc # "none" => attempt'[t].pc # "none"
    BY <1>1 DEF OthersRest, Tries
  <2>4. QED
    BY <1>0, <1>1, <2>1, <2>2, <2>3 DEF OperationOK
<1> HIDE DEF g
<1>10. LeasesOK'
  BY <1>1, <1>5, GainKeepsLeases DEF Looks, Tries
<1>11. WatchOK'
  <2>1. Watched(s)'
    BY <1>1, <1>2 DEF Watched, Serving, Looks, g
  <2>2. QED
    BY <1>1, <1>5, <2>1, GainKeepsWatch
<1>12. AsideOK'
  <2>1. ~Aside(s)'
    BY <1>1 DEF Aside, Looks
  <2>2. \A t \in Services : Aside(t) /\ op'.at = t => op'.pc = "starting"
    BY <1>1, FactsOf
  <2>3. QED
    BY <1>1, <1>5, <2>1, <2>2, GainKeepsAside
<1>13. DownOK'
  BY <1>1 DEF DownOK
<1>14. QED
  BY <1>6, <1>8, <1>9, <1>10, <1>11, <1>12, <1>13 DEF SupervisorIsSound

LEMMA ClosesIsSound ==
  ASSUME SupervisorIsSound, NEW s \in Services, NEW g \in alive[s], Closes(s, g)
  PROVE  SupervisorIsSound'
<1> DEFINE e == [ by |-> "close", of |-> s, gen |-> g ]
<1>0. Shapes /\ OperationOK /\ AttemptsOK /\ op \in Operations
  BY DEF SupervisorIsSound, Shapes
<1>1. OthersRest(s) /\ UNCHANGED up /\ attempt'[s] = attempt[s]
  BY <1>0, ClosesDoes
<1>2. /\ alive' \in [Services -> SUBSET (Nat \ {0})] /\ g \in Nat /\ g # 0
      /\ UNCHANGED attempt
  BY <1>0 DEF Closes, Shapes
<1>3. /\ \/ op' = op
         \/ op.pc = "closing" /\ op.at = s /\ op' = [op EXCEPT !.pc = "released"]
      /\ op' \in Operations /\ op'.at = op.at /\ op'.stops = op.stops /\ op'.gen = op.gen
  <2> DEFINE r == [op EXCEPT !.pc = "released"]
  <2>0. op' = IF op.pc = "closing" /\ op.at = s /\ op.gen = g THEN r ELSE op
    BY DEF Closes
  <2>1. op' = op \/ (op.pc = "closing" /\ op.at = s /\ op' = r)
    <3> HIDE DEF r
    <3>1. QED
      BY <2>0
  <2>2. QED
    BY <1>0, <2>1 DEF Operations
<1>4. op'.pc = op.pc \/ (op.pc = "closing" /\ op'.pc = "released")
  BY <1>0, <1>3 DEF Operations
<1>5. AttemptsOK'
  BY <1>0, <1>2 DEF AttemptsOK
<1>6. \A t \in Services : Aside(t) /\ op'.at = t => op'.pc = "starting"
  BY <1>3, <1>4, FactsOf
<1>7. CASE svc[s].command # g
  <2>1. UNCHANGED << svc, lease >>
    BY <1>7 DEF Closes
  <2>2. OperationOK'
    BY <1>0, <1>2, <1>3, <1>4, <2>1 DEF OperationOK
  <2>3. CASE up
    <3>1. Shapes'
      BY <1>0, <1>2, <1>3, <2>1 DEF Shapes
    <3>2. \A t \in Services : Keeps(t)
      BY <1>2, <1>6, <2>1, UnchangedKeeps
    <3>3. QED
      BY <1>1, <1>5, <2>1, <2>2, <2>3, <3>1, <3>2, LeasesStay
  <2>4. CASE ~up
    <3>1. op' = op
      BY <1>3, <2>4, EmptyRecords DEF SupervisorIsSound, DownOK
    <3>2. QED
      BY <1>1, <1>2, <2>1, <3>1, RestIsSound DEF memory
  <2>5. QED
    BY <2>3, <2>4
<1>8. CASE svc[s].command = g
  <2>1. Looks(svc'[s], svc[s].state, svc[s].stopping, 0, svc[s].generation,
              svc[s].conflict, svc[s].timer, svc[s].probe, 0)
    BY <1>0, <1>8, ClosesDoes
  <2>2. WriteLeases("close", s, g, [ Commands EXCEPT ![s] = 0 ])
    BY <1>8 DEF Closes
  <2>3. /\ [ Commands EXCEPT ![s] = 0 ] \in [Services -> Nat]
        /\ \A t \in Services : [ Commands EXCEPT ![s] = 0 ][t] = svc'[t].command
    <3>1. Commands \in [Services -> Nat] /\ \A t \in Services : Commands[t] = svc[t].command
      BY <1>0, NumbersAreTyped DEF Commands
    <3>2. QED
      BY <1>1, <2>1, <3>1 DEF OthersRest, Looks
  <2>4. lease' \in Leases /\ Gains(e)
    BY <1>0, <1>2, <2>2, <2>3, WriteDoes
  <2>5. Shapes'
    BY <1>0, <1>1, <1>2, <1>3, <2>4 DEF Shapes, OthersRest
  <2>6. OperationOK'
    <3>1. \A i \in DOMAIN lease'.queue : lease'.queue[i].by = "stop" =>
            i \in DOMAIN lease.queue /\ lease'.queue[i] = lease.queue[i]
      BY <2>4 DEF Gains
    <3>2. \A t \in Services : svc'[t].stopping = svc[t].stopping
      BY <1>1, <2>1 DEF OthersRest, Looks
    <3>3. QED
      BY <1>0, <1>2, <1>3, <1>4, <3>1, <3>2 DEF OperationOK
  <2>7. LeasesOK'
    BY <1>1, <2>1, <2>4, GainKeepsLeases DEF Looks
  <2>8. WatchOK'
    <3>1. svc[s].generation = g /\ svc[s].probe <= svc[s].generation
      BY <1>0, <1>2, <1>8, NumbersAreTyped DEF SupervisorIsSound, WatchOK
    <3>2. CloseIsComing(s)'
      BY <2>1, <2>4, <3>1 DEF CloseIsComing, Gains, Looks
    <3>3. Watched(s)'
      BY <2>1, <3>1, <3>2 DEF Watched, Looks
    <3>4. QED
      BY <1>1, <2>4, <3>3, GainKeepsWatch
  <2>9. AsideOK'
    <3>1. ~Aside(s)'
      BY <1>2, <1>8, <2>1, FactsOf DEF Aside, Looks
    <3>2. QED
      BY <1>1, <1>6, <2>4, <3>1, GainKeepsAside
  <2>10. DownOK'
    <3>1. up
      <4>1. CASE ~up
        <5>1. svc[s] = Fresh(svc[s].generation)
          BY <4>1 DEF SupervisorIsSound, DownOK
        <5>2. svc[s].command = 0
          BY <1>0, <5>1, NumbersAreTyped, EmptyRecords DEF Looks
        <5>3. QED
          BY <1>2, <1>8, <5>2
      <4>2. QED
        BY <4>1
    <3>2. QED
      BY <1>1, <3>1 DEF DownOK
  <2>11. QED
    BY <1>5, <2>5, <2>6, <2>7, <2>8, <2>9, <2>10 DEF SupervisorIsSound
<1>9. QED
  BY <1>7, <1>8

LEMMA PortsReleasedIsSound ==
  ASSUME SupervisorIsSound, up, NEW s \in Services, s = op.at, PortsReleased
  PROVE  SupervisorIsSound'
<1> DEFINE e == [ by |-> "stop", of |-> s, gen |-> op.gen ]
<1>0. Shapes /\ OperationOK /\ AttemptsOK /\ op \in Operations /\ op.gen \in Nat
  BY DEF SupervisorIsSound, Shapes, Operations
<1>1. /\ OthersRest(s) /\ UNCHANGED << alive, up >> /\ op.pc = "released"
      /\ Looks(svc'[s], "stopped", FALSE, 0, svc[s].generation, "none", svc[s].timer,
               svc[s].probe, svc[s].monitor)
      /\ attempt'[s] = attempt[s]
  BY <1>0, PortsReleasedDoes
<1>2. op' = [op EXCEPT !.pc = "lease"] /\ UNCHANGED attempt
      /\ WriteLeases("stop", s, op.gen, [ Commands EXCEPT ![s] = 0 ])
  BY DEF PortsReleased
<1>3. /\ op' \in Operations /\ op'.pc = "lease" /\ op'.at = s /\ op'.stops = op.stops
  BY <1>0, <1>2 DEF Operations
<1>4. /\ [ Commands EXCEPT ![s] = 0 ] \in [Services -> Nat]
      /\ \A t \in Services : [ Commands EXCEPT ![s] = 0 ][t] = svc'[t].command
  <2>1. Commands \in [Services -> Nat] /\ \A t \in Services : Commands[t] = svc[t].command
    BY <1>0, NumbersAreTyped DEF Commands
  <2>2. QED
    BY <1>1, <2>1 DEF OthersRest, Looks
<1>5. lease' \in Leases /\ Gains(e)
  BY <1>0, <1>2, <1>4, WriteDoes
<1>6. Shapes'
  BY <1>0, <1>1, <1>3, <1>5 DEF Shapes, OthersRest
<1>7. AttemptsOK'
  BY <1>0, <1>2 DEF AttemptsOK
<1>8. OperationOK'
  <2>1. \A i \in DOMAIN lease.queue : lease.queue[i].by # "stop"
    BY <1>0, <1>1 DEF OperationOK
  <2>2. \A i \in DOMAIN lease'.queue :
          lease'.queue[i].by = "stop" => i = Len(lease.queue) + 1 /\ lease'.queue[i].of = s
    BY <1>5, <2>1 DEF Gains
  <2>3. \A t \in Services : ~svc'[t].stopping
    <3>1. \A t \in Services : svc[t].stopping => t = s
      BY <1>0 DEF OperationOK
    <3>2. QED
      BY <1>1, <3>1 DEF OthersRest, Looks
  <2>4. op'.at \in op'.stops
    BY <1>0, <1>1, <1>3 DEF OperationOK
  <2>5. QED
    BY <1>3, <2>2, <2>3, <2>4 DEF OperationOK
<1>9. LeasesOK'
  BY <1>1, <1>5, GainKeepsLeases DEF Looks
<1>10. WatchOK'
  <2>1. svc[s].probe <= svc[s].generation
    BY DEF SupervisorIsSound, WatchOK
  <2>2. Watched(s)'
    BY <1>1, <2>1 DEF Watched, Serving, Looks
  <2>3. QED
    BY <1>1, <1>5, <2>2, GainKeepsWatch
<1>11. AsideOK'
  <2>1. ~Aside(s)'
    BY <1>1 DEF Aside, Looks
  <2>2. ~Aside(s)
    BY <1>1, FactsOf
  <2>3. QED
    BY <1>1, <1>3, <1>5, <2>1, <2>2, GainKeepsAside
<1>12. DownOK'
  BY <1>1 DEF DownOK
<1>13. QED
  BY <1>6, <1>7, <1>8, <1>9, <1>10, <1>11, <1>12 DEF SupervisorIsSound

(* The first write is done: the file says what was drafted, and what the     *)
(* next one writes is drafted from the processes held now.                   *)
Shifts ==
  /\ DOMAIN lease.queue = 1..Len(lease.queue) /\ Len(lease.queue) \in Nat \ {0}
  /\ lease.queue[1] = Head(lease.queue) /\ 1 \in DOMAIN lease.queue
  /\ DOMAIN lease'.queue = 1..(Len(lease.queue) - 1)
  /\ \A i \in DOMAIN lease'.queue :
       i + 1 \in DOMAIN lease.queue /\ lease'.queue[i] = lease.queue[i + 1]
  /\ lease'.file = lease.draft
  /\ lease'.queue # << >> => \A t \in Services : lease'.draft[t] = svc[t].command

LEMMA WrittenDoes ==
  ASSUME Shapes, LeasesWritten
  PROVE  /\ lease' \in Leases /\ Shifts /\ UNCHANGED << alive, up >>
         /\ Head(lease.queue) \in Entries
<1> DEFINE q == lease.queue
<1>1. lease \in Leases /\ q # << >>
  BY DEF Shapes, LeasesWritten
<1>2. q \in Seq(Entries) /\ lease.file \in [Services -> Nat] /\ lease.draft \in [Services -> Nat]
  BY <1>1 DEF Leases
<1>3. lease' = [ file |-> lease.draft, queue |-> Tail(q), draft |-> NextDraft ]
      /\ UNCHANGED << alive, up >>
  BY DEF LeasesWritten, processes
<1>4. /\ Tail(q) \in Seq(Entries) /\ Head(q) \in Entries
      /\ DOMAIN q = 1..Len(q) /\ Len(q) \in Nat \ {0} /\ q[1] = Head(q) /\ 1 \in DOMAIN q
      /\ DOMAIN Tail(q) = 1..(Len(q) - 1)
      /\ \A i \in DOMAIN Tail(q) : i + 1 \in DOMAIN q /\ Tail(q)[i] = q[i + 1]
      /\ Len(q) <= 1 => Tail(q) = << >>
  BY <1>1, <1>2
<1>5. /\ NextDraft \in [Services -> Nat]
      /\ Len(q) > 1 => \A t \in Services : NextDraft[t] = svc[t].command
  <2>1. Commands \in [Services -> Nat] /\ \A t \in Services : Commands[t] = svc[t].command
    BY NumbersAreTyped DEF Commands
  <2>2. NextDraft = IF Len(q) > 1 THEN Commands ELSE NoLeases
    BY DEF NextDraft
  <2>3. NoLeases \in [Services -> Nat]
    BY DEF NoLeases
  <2>4. QED
    BY <2>1, <2>2, <2>3
<1>6. lease' \in Leases /\ lease'.file = lease.draft /\ lease'.queue = Tail(q) /\ lease'.draft = NextDraft
  BY <1>2, <1>3, <1>4, <1>5 DEF Leases
<1>7. Len(q) \in Nat
  BY <1>4
<1> HIDE DEF q
<1>8. lease'.queue # << >> => \A t \in Services : lease'.draft[t] = svc[t].command
  BY <1>4, <1>5, <1>6, <1>7
<1>9. QED
  BY <1>3, <1>4, <1>6, <1>8 DEF Shifts, q

LEMMA ShiftKeepsLeases ==
  ASSUME SupervisorIsSound, Shifts, NEW s \in Services, s = Head(lease.queue).of, OthersRest(s),
         svc'[s].command = svc[s].command,
         \/ attempt'[s] = attempt[s] /\ Head(lease.queue).by # "attempt"
         \/ attempt'[s].pc # "lease" /\ Head(lease.queue).by = "attempt"
  PROVE  LeasesOK'
<1>0. LeasesOK /\ Shapes
  BY DEF SupervisorIsSound
<1>1. /\ \A t \in Services :
           svc[t].command # 0 /\ attempt[t].pc # "lease" => lease.draft[t] = svc[t].command
      /\ Head(lease.queue).by = "attempt" /\ svc[s].command # 0 => lease.draft[s] = svc[s].command
  <2>1. lease.queue # << >>
    BY DEF Shifts
  <2>2. QED
    BY <1>0, <2>1 DEF LeasesOK, Shifts
<1>2. \A t \in Services : svc'[t].command = svc[t].command
                          /\ (t # s => attempt'[t] = attempt[t])
  BY DEF OthersRest
<1>3. \A i \in DOMAIN lease'.queue :
        /\ i + 1 \in DOMAIN lease.queue /\ lease'.queue[i] = lease.queue[i + 1]
        /\ i \in Nat /\ i + 1 # 1 /\ lease'.queue[i].of \in Services
  <2> TAKE i \in DOMAIN lease'.queue
  <2>1. i \in Nat /\ i + 1 # 1
    BY DEF Shifts
  <2>2. i + 1 \in DOMAIN lease.queue /\ lease'.queue[i] = lease.queue[i + 1]
    BY DEF Shifts
  <2>3. lease.queue[i + 1].of \in Services
    BY <1>0, <2>2, EntriesAreTyped
  <2>4. QED
    BY <2>1, <2>2, <2>3
<1>4. \A i \in DOMAIN lease'.queue :
        lease'.queue[i].by = "attempt" =>
          /\ attempt'[lease'.queue[i].of].pc = "lease"
          /\ i = 1 /\ svc'[lease'.queue[i].of].command # 0 =>
               lease'.draft[lease'.queue[i].of] = svc'[lease'.queue[i].of].command
  <2> SUFFICES ASSUME NEW i \in DOMAIN lease'.queue, lease'.queue[i].by = "attempt"
               PROVE  /\ attempt'[lease'.queue[i].of].pc = "lease"
                      /\ lease'.draft[lease'.queue[i].of] = svc'[lease'.queue[i].of].command
    OBVIOUS
  <2> DEFINE t == lease.queue[i + 1].of
  <2>1. /\ i + 1 \in DOMAIN lease.queue /\ lease'.queue[i] = lease.queue[i + 1] /\ t \in Services
        /\ i + 1 # 1
    BY <1>3
  <2>2. attempt[t].pc = "lease"
    BY <1>0, <2>1 DEF LeasesOK
  <2>3. t = s => Head(lease.queue).by # "attempt"
    <3>1. 1 \in DOMAIN lease.queue /\ lease.queue[1] = Head(lease.queue)
      BY DEF Shifts
    <3>2. QED
      BY <1>0, <2>1, <3>1 DEF LeasesOK
  <2>4. lease'.queue # << >>
    OBVIOUS
  <2>5. lease'.draft[t] = svc[t].command
    BY <2>1, <2>4 DEF Shifts
  <2>6. QED
    BY <1>2, <2>1, <2>2, <2>3, <2>5
<1>5. \A i, j \in DOMAIN lease'.queue :
        /\ lease'.queue[i].by = "attempt" /\ lease'.queue[j].by = "attempt"
        /\ lease'.queue[i].of = lease'.queue[j].of
        => i = j
  <2> SUFFICES ASSUME NEW i \in DOMAIN lease'.queue, NEW j \in DOMAIN lease'.queue,
                      lease'.queue[i].by = "attempt", lease'.queue[j].by = "attempt",
                      lease'.queue[i].of = lease'.queue[j].of
               PROVE  i = j
    OBVIOUS
  <2>1. i + 1 = j + 1
    BY <1>0, <1>3 DEF LeasesOK
  <2>2. QED
    BY <1>3, <2>1
<1>6. \A t \in Services : svc'[t].command # 0 /\ attempt'[t].pc # "lease" =>
         /\ lease'.file[t] = svc'[t].command
         /\ lease'.queue # << >> => lease'.draft[t] = svc'[t].command
  <2> TAKE t \in Services
  <2>1. svc[t].command # 0 /\ attempt'[t].pc # "lease" => lease.draft[t] = svc[t].command
    BY <1>1, <1>2
  <2>2. QED
    BY <1>2, <2>1 DEF Shifts
<1>7. QED
  BY <1>4, <1>5, <1>6 DEF LeasesOK

(* A close that is still to be handled is still in the queue.                *)
LEMMA ShiftKeepsWatch ==
  ASSUME SupervisorIsSound, Shifts, NEW s \in Services, s = Head(lease.queue).of, OthersRest(s),
         svc'[s].command = svc[s].command, svc'[s].generation = svc[s].generation,
         svc'[s].monitor = svc[s].monitor, svc'[s].probe = svc[s].probe,
         \/ ~Serving(s)'
         \/ /\ svc'[s].state = svc[s].state
            /\ \/ Head(lease.queue).by # "close"
               \/ CloseIsStale(s, Head(lease.queue).gen)
  PROVE  WatchOK'
<1> SUFFICES ASSUME NEW t \in Services PROVE Watched(t)'
  BY DEF WatchOK, Watched, Serving
<1>1. /\ svc'[t].command = svc[t].command /\ svc'[t].generation = svc[t].generation
      /\ svc'[t].monitor = svc[t].monitor /\ svc'[t].probe = svc[t].probe
      /\ Serving(t)' => Serving(t)
      /\ Watched(t)
  BY DEF OthersRest, SupervisorIsSound, WatchOK, Watched, Serving
<1>2. ASSUME Serving(t)', svc[t].command = 0 PROVE CloseIsComing(t)'
  <2>1. PICK i \in DOMAIN lease.queue :
          /\ lease.queue[i].by = "close" /\ lease.queue[i].of = t
          /\ lease.queue[i].gen = svc[t].generation
    BY <1>1, <1>2 DEF Watched, CloseIsComing
  <2>2. i # 1
    <3>1. SUFFICES ASSUME i = 1 PROVE FALSE
      OBVIOUS
    <3>2. Head(lease.queue) = lease.queue[i]
      BY <3>1 DEF Shifts
    <3>3. t = s /\ ~CloseIsStale(s, Head(lease.queue).gen)
      BY <1>2, <2>1, <3>2 DEF CloseIsStale
    <3>4. QED
      BY <1>2, <2>1, <3>2, <3>3
  <2>3. /\ i - 1 \in DOMAIN lease'.queue
        /\ lease'.queue[i - 1] = lease.queue[(i - 1) + 1] /\ (i - 1) + 1 = i
    BY <2>2 DEF Shifts
  <2>4. QED
    BY <1>1, <2>1, <2>3 DEF CloseIsComing
<1>3. QED
  BY <1>1, <1>2 DEF Watched

LEMMA ShiftKeepsAside ==
  ASSUME SupervisorIsSound, Shifts, NEW s \in Services, s = Head(lease.queue).of, OthersRest(s),
         svc'[s].conflict = svc[s].conflict,
         \A t \in Services : Aside(t) /\ op'.at = t => op'.pc = "starting"
  PROVE  AsideOK'
<1> SUFFICES ASSUME NEW t \in Services, Aside(t)'
             PROVE  /\ svc'[t].state = "conflict" /\ svc'[t].command = 0
                    /\ svc'[t].timer = 0 /\ svc'[t].probe = 0
                    /\ attempt'[t].pc \in { "none", "begin", "settled" }
                    /\ \A i \in DOMAIN lease'.queue : lease'.queue[i].of # t
                    /\ op'.at = t => op'.pc = "starting"
  BY DEF AsideOK, Aside
<1>1. Aside(t)
  BY DEF OthersRest, Aside
<1>2. \A i \in DOMAIN lease.queue : lease.queue[i].of # t
  BY <1>1 DEF SupervisorIsSound, AsideOK, Aside
<1>3. t # s
  BY <1>2 DEF Shifts
<1>4. svc'[t] = svc[t] /\ attempt'[t] = attempt[t]
  BY <1>3 DEF OthersRest
<1>5. \A i \in DOMAIN lease'.queue : lease'.queue[i].of # t
  BY <1>2 DEF Shifts
<1>6. QED
  BY <1>1, <1>4, <1>5, FactsOf

LEMMA ShiftKeepsStops ==
  ASSUME OperationOK, Shifts
  PROVE  /\ \A i, j \in DOMAIN lease'.queue :
              lease'.queue[i].by = "stop" /\ lease'.queue[j].by = "stop" => i = j
         /\ \A i \in DOMAIN lease'.queue : lease'.queue[i].by = "stop" =>
              /\ op.pc = "lease" /\ lease'.queue[i].of = op.at
              /\ Head(lease.queue).by # "stop"
<1>1. \A i \in DOMAIN lease'.queue :
        i \in Nat \ {0} /\ i + 1 \in DOMAIN lease.queue /\ lease'.queue[i] = lease.queue[i + 1]
  BY DEF Shifts
<1>2. 1 \in DOMAIN lease.queue /\ lease.queue[1] = Head(lease.queue)
  BY DEF Shifts
<1>3. \A i \in DOMAIN lease.queue : lease.queue[i].by = "stop" =>
        /\ op.pc = "lease" /\ lease.queue[i].of = op.at
        /\ \A j \in DOMAIN lease.queue : lease.queue[j].by = "stop" => i = j
  BY DEF OperationOK
<1>4. ASSUME NEW i \in DOMAIN lease'.queue, NEW j \in DOMAIN lease'.queue,
             lease'.queue[i].by = "stop", lease'.queue[j].by = "stop"
      PROVE  i = j
  <2>1. i + 1 = j + 1
    BY <1>1, <1>3, <1>4
  <2>2. QED
    BY <1>1, <2>1
<1>5. ASSUME NEW i \in DOMAIN lease'.queue, lease'.queue[i].by = "stop"
      PROVE  /\ op.pc = "lease" /\ lease'.queue[i].of = op.at
             /\ Head(lease.queue).by # "stop"
  <2>1. i \in Nat /\ i + 1 # 1
    BY <1>1
  <2>2. QED
    BY <1>1, <1>2, <1>3, <1>5, <2>1
<1>6. QED
  BY <1>4, <1>5

LEMMA LeasesWrittenIsSound ==
  ASSUME SupervisorIsSound, up, LeasesWritten
  PROVE  SupervisorIsSound'
<1>0. Shapes /\ OperationOK /\ AttemptsOK /\ op \in Operations
  BY DEF SupervisorIsSound, Shapes
<1>1. lease' \in Leases /\ Shifts /\ UNCHANGED << alive, up >> /\ Head(lease.queue) \in Entries
  BY <1>0, WrittenDoes
<1> SUFFICES ASSUME NEW s \in Services, s = Head(lease.queue).of PROVE SupervisorIsSound'
  BY <1>1 DEF Entries
<1>2. Head(lease.queue).gen \in Nat /\ Head(lease.queue).by \in { "attempt", "close", "stop" }
  BY <1>1 DEF Entries
<1>3. ASSUME UNCHANGED op, OthersRest(s), GoesOn(s), Head(lease.queue).by # "stop",
             svc'[s].stopping => svc[s].stopping, LeasesOK', WatchOK', AsideOK'
      PROVE  SupervisorIsSound'
  <2>1. Shapes'
    BY <1>0, <1>1, <1>3 DEF Shapes, OthersRest
  <2>2. AttemptsOK'
    BY <1>0, <1>3, AttemptGoesOn DEF OthersRest
  <2>3. OperationOK'
    BY <1>0, <1>1, <1>3, ShiftKeepsStops DEF OperationOK, OthersRest, GoesOn
  <2>4. DownOK'
    BY <1>1 DEF DownOK
  <2>5. QED
    BY <1>3, <2>1, <2>2, <2>3, <2>4 DEF SupervisorIsSound
<1>4. \A t \in Services : Aside(t) /\ op.at = t => op.pc = "starting"
  BY FactsOf
<1>5. CASE Head(lease.queue).by = "attempt"
  <2>1. /\ OthersRest(s) /\ UNCHANGED op /\ svc'[s] = svc[s]
        /\ \/ Tries(attempt'[s], "probing", attempt[s].left, attempt[s].on, attempt[s].gen)
           \/ Tries(attempt'[s], "settled", attempt[s].left, attempt[s].on, attempt[s].gen)
    BY <1>0, <1>5, AttemptIsWritten
  <2>2. attempt[s].pc = "lease"
    <3>1. 1 \in DOMAIN lease.queue /\ lease.queue[1] = Head(lease.queue)
      BY <1>1 DEF Shifts
    <3>2. QED
      BY <1>5, <3>1 DEF SupervisorIsSound, LeasesOK
  <2>3. GoesOn(s)
    BY <2>1, <2>2, FactsOf DEF GoesOn, Tries
  <2>4. LeasesOK'
    BY <1>1, <1>5, <2>1, ShiftKeepsLeases DEF Tries
  <2>5. WatchOK'
    BY <1>1, <1>5, <2>1, ShiftKeepsWatch
  <2>6. AsideOK'
    BY <1>1, <1>4, <2>1, ShiftKeepsAside
  <2>7. QED
    BY <1>3, <1>5, <2>1, <2>3, <2>4, <2>5, <2>6
<1>6. CASE Head(lease.queue).by = "close"
  <2>1. /\ OthersRest(s) /\ UNCHANGED op /\ attempt'[s] = attempt[s]
        /\ \/ svc'[s] = svc[s] /\ CloseIsStale(s, Head(lease.queue).gen)
           \/ \E state \in { "stopped", "failed", "restart_wait" } : \E timer :
                \E stopping \in { FALSE, svc[s].stopping } :
                  Looks(svc'[s], state, stopping, svc[s].command, svc[s].generation,
                        svc[s].conflict, timer, svc[s].probe, svc[s].monitor)
    BY <1>0, <1>2, <1>6, CloseIsHandled
  <2>2. /\ svc'[s].command = svc[s].command /\ svc'[s].generation = svc[s].generation
        /\ svc'[s].monitor = svc[s].monitor /\ svc'[s].probe = svc[s].probe
        /\ svc'[s].conflict = svc[s].conflict /\ (svc'[s].stopping => svc[s].stopping)
        /\ \/ ~Serving(s)'
           \/ svc'[s].state = svc[s].state /\ CloseIsStale(s, Head(lease.queue).gen)
    BY <2>1 DEF Looks, Serving
  <2>3. GoesOn(s)
    BY <2>1, FactsOf DEF GoesOn
  <2>4. LeasesOK'
    BY <1>1, <1>6, <2>1, <2>2, ShiftKeepsLeases
  <2>5. WatchOK'
    BY <1>1, <2>1, <2>2, ShiftKeepsWatch
  <2>6. AsideOK'
    BY <1>1, <1>4, <2>1, <2>2, ShiftKeepsAside
  <2>7. QED
    BY <1>3, <1>6, <2>1, <2>2, <2>3, <2>4, <2>5, <2>6
<1>7. CASE Head(lease.queue).by = "stop"
  <2>1. /\ op' = [ op EXCEPT !.pc = "next", !.stops = @ \ { s }, !.at = None, !.gen = 0 ]
        /\ UNCHANGED << svc, attempt >>
    BY <1>7 DEF LeasesWritten
  <2>2. op' \in Operations /\ op'.pc = "next" /\ op'.at = None
    BY <1>0, <2>1 DEF Operations
  <2>3. Shapes' /\ AttemptsOK' /\ OthersRest(s)
    BY <1>0, <1>1, <2>1, <2>2 DEF Shapes, AttemptsOK, OthersRest
  <2>4. OperationOK'
    <3>1. op.pc = "lease"
      BY <1>0, <1>1, <1>7 DEF OperationOK, Shifts
    <3>2. \A t \in Services : ~svc[t].stopping
      BY <1>0, <3>1 DEF OperationOK
    <3>3. \A i \in DOMAIN lease'.queue : lease'.queue[i].by # "stop"
      BY <1>0, <1>1, <1>7, ShiftKeepsStops
    <3>4. QED
      BY <2>1, <2>2, <3>2, <3>3 DEF OperationOK
  <2>5. LeasesOK'
    BY <1>1, <1>7, <2>1, <2>3, ShiftKeepsLeases
  <2>6. WatchOK'
    BY <1>1, <1>7, <2>1, <2>3, ShiftKeepsWatch
  <2>7. AsideOK'
    BY <1>1, <2>1, <2>2, <2>3, ShiftKeepsAside, NoneIsNoService
  <2>8. DownOK'
    BY <1>1 DEF DownOK
  <2>9. QED
    BY <2>3, <2>4, <2>5, <2>6, <2>7, <2>8 DEF SupervisorIsSound
<1>8. QED
  BY <1>2, <1>5, <1>6, <1>7

-------------------------------------------------------------------------------
(* The supervisor dies and starts anew. *)
LEMMA NothingHeldIsSound ==
  ASSUME svc' \in [Services -> Records], attempt' = [ s \in Services |-> NoAttempt ], op' = NoOp,
         lease' \in Leases, lease'.queue = << >>,
         alive' \in [Services -> SUBSET (Nat \ {0})],
         \A s \in Services :
           /\ svc'[s].command = 0 /\ ~svc'[s].stopping /\ svc'[s].probe = 0
           /\ svc'[s].state \notin { "healthy", "degraded" }
           /\ svc'[s].conflict = "unverified_lease" =>
                svc'[s].state = "conflict" /\ svc'[s].timer = 0,
         DownOK'
  PROVE  SupervisorIsSound'
<1>1. /\ \A s \in Services : Tries(attempt'[s], "none", {}, None, 0)
      /\ op'.pc = "idle" /\ op'.at = None /\ op' \in Operations
      /\ attempt' \in [Services -> Attempts]
  BY EmptyRecords
<1>2. DOMAIN lease'.queue = {}
  OBVIOUS
<1>3. Shapes'
  BY <1>1 DEF Shapes
<1>4. OperationOK'
  BY <1>1, <1>2 DEF OperationOK
<1>5. AttemptsOK'
  BY <1>1 DEF AttemptsOK, Tries
<1>6. LeasesOK'
  BY <1>2 DEF LeasesOK
<1>7. WatchOK'
  <2>1. \A s \in Services : svc'[s].generation \in Nat
    BY DEF Records
  <2>2. QED
    BY <2>1 DEF WatchOK
<1>8. AsideOK'
  BY <1>1, <1>2, NoneIsNoService DEF AsideOK, Tries
<1>9. QED
  BY <1>3, <1>4, <1>5, <1>6, <1>7, <1>8 DEF SupervisorIsSound

LEMMA CrashIsSound ==
  ASSUME SupervisorIsSound, Crash
  PROVE  SupervisorIsSound'
<1>0. Shapes
  BY DEF SupervisorIsSound
<1>1. /\ up' = FALSE
      /\ svc' = [ s \in Services |-> Fresh(svc[s].generation) ]
      /\ attempt' = [ s \in Services |-> NoAttempt ] /\ op' = NoOp
      /\ lease' = [ file |-> lease.file, queue |-> << >>, draft |-> NoLeases ]
      /\ UNCHANGED alive
  BY DEF Crash, processes
<1>2. \A s \in Services :
        /\ svc'[s] \in Records /\ svc'[s].generation = svc[s].generation
        /\ Looks(svc'[s], "stopped", FALSE, 0, svc[s].generation, "none", 0, 0, 0)
  BY <1>0, <1>1, NumbersAreTyped, EmptyRecords DEF Looks
<1>3. svc' \in [Services -> Records]
  BY <1>1, <1>2
<1>4. lease' \in Leases /\ lease'.queue = << >>
  BY <1>0, <1>1 DEF Leases, NoLeases, Shapes
<1>5. DownOK'
  BY <1>1, <1>2, <1>4 DEF DownOK
<1>6. QED
  BY <1>0, <1>1, <1>2, <1>3, <1>4, <1>5, NothingHeldIsSound DEF Looks, Shapes

LEMMA BootIsSound ==
  ASSUME SupervisorIsSound, Boot
  PROVE  SupervisorIsSound'
<1>0. Shapes /\ ~up /\ DownOK /\ lease \in Leases
  BY DEF SupervisorIsSound, Boot, Shapes
<1>1. svc' = [ s \in Services |-> svc'[s] ]
      /\ \A s \in Services :
           svc'[s] \in { svc[s], [ svc[s] EXCEPT !.state = "conflict", !.conflict = "unverified_lease" ] }
  <2>1. CASE RecoversNothing
    BY <1>0, <2>1 DEF RecoversNothing, Shapes
  <2>2. CASE RecoversLeases
    BY <2>2 DEF RecoversLeases
  <2>3. QED
    BY <2>1, <2>2 DEF Boot
<1>2. /\ up' = TRUE /\ lease' \in { lease, [ lease EXCEPT !.file = NoLeases ] }
      /\ UNCHANGED << attempt, op, alive >>
  BY DEF Boot, RecoversNothing, RecoversLeases
<1>3. \A s \in Services :
        /\ svc'[s] \in Records
        /\ svc'[s].command = 0 /\ ~svc'[s].stopping /\ svc'[s].probe = 0 /\ svc'[s].timer = 0
        /\ svc'[s].state \in { "stopped", "conflict" }
        /\ svc'[s].conflict = "unverified_lease" => svc'[s].state = "conflict"
  <2> TAKE s \in Services
  <2>1. svc[s] = Fresh(svc[s].generation) /\ svc[s].generation \in Nat
    BY <1>0, NumbersAreTyped DEF DownOK
  <2>2. /\ svc[s] \in Records
        /\ Looks(svc[s], "stopped", FALSE, 0, svc[s].generation, "none", 0, 0, 0)
    BY <2>1, EmptyRecords
  <2>3. svc'[s] \in { svc[s], [ svc[s] EXCEPT !.state = "conflict", !.conflict = "unverified_lease" ] }
    BY <1>1
  <2>4. QED
    BY <2>2, <2>3 DEF Records, Looks
<1>4. svc' \in [Services -> Records]
  BY <1>1, <1>3
<1>5. lease' \in Leases /\ lease'.queue = << >>
  <2>1. lease.queue = << >>
    BY <1>0 DEF DownOK
  <2>2. CASE lease' = lease
    BY <1>0, <2>1, <2>2
  <2>3. CASE lease' = [ lease EXCEPT !.file = NoLeases ]
    BY <1>0, <2>1, <2>3 DEF Leases, NoLeases
  <2>4. QED
    BY <1>2, <2>2, <2>3
<1>6. attempt' = [ s \in Services |-> NoAttempt ] /\ op' = NoOp
      /\ alive' \in [Services -> SUBSET (Nat \ {0})]
  BY <1>0, <1>2 DEF DownOK, Shapes
<1>7. DownOK'
  BY <1>2 DEF DownOK
<1>8. QED
  BY <1>3, <1>4, <1>5, <1>6, <1>7, NothingHeldIsSound

LEMMA InitIsSound == InitSupervisor => SupervisorIsSound
<1> SUFFICES ASSUME InitSupervisor PROVE SupervisorIsSound
  OBVIOUS
<1>1. /\ svc = [ s \in Services |-> Fresh(0) ] /\ attempt = [ s \in Services |-> NoAttempt ]
      /\ op = NoOp /\ lease = [ file |-> NoLeases, queue |-> << >>, draft |-> NoLeases ]
      /\ alive = [ s \in Services |-> {} ] /\ up
  BY DEF InitSupervisor
<1>2. /\ \A s \in Services : Tries(attempt[s], "none", {}, None, 0)
      /\ op.pc = "idle" /\ op.at = None /\ op \in Operations
      /\ attempt \in [Services -> Attempts]
      /\ \A s \in Services : svc[s] \in Records /\ Looks(svc[s], "stopped", FALSE, 0, 0, "none", 0, 0, 0)
  BY <1>1, EmptyRecords
<1>3. lease \in Leases /\ DOMAIN lease.queue = {}
  BY <1>1 DEF Leases, NoLeases
<1>4. Shapes
  <2>1. svc \in [Services -> Records]
    BY <1>1, <1>2
  <2>2. QED
    BY <1>1, <1>2, <1>3, <2>1 DEF Shapes, Looks
<1>5. OperationOK
  BY <1>2, <1>3 DEF OperationOK, Looks
<1>6. AttemptsOK /\ LeasesOK
  BY <1>2, <1>3 DEF AttemptsOK, LeasesOK, Tries, Looks
<1>7. WatchOK /\ AsideOK
  BY <1>2 DEF WatchOK, AsideOK, Looks
<1>8. DownOK
  BY <1>1 DEF DownOK
<1>9. QED
  BY <1>4, <1>5, <1>6, <1>7, <1>8 DEF SupervisorIsSound

-------------------------------------------------------------------------------
LEMMA CallbackIsSound ==
  ASSUME SupervisorIsSound, up, Callback
  PROVE  SupervisorIsSound'
<1>0. op \in Operations
  BY DEF SupervisorIsSound, Shapes
<1>1. CASE OpNext
  <2>1. op.pc = "next" /\ UNCHANGED << lease, alive, up >>
    BY <1>1 DEF OpNext, processes
  <2>2. CASE StopNext
    <3>1. op.stops # {} /\ op.stops \in SUBSET Services
      BY <1>0, <2>2 DEF StopNext, Operations
    <3>2. LastOf(op.stops) \in op.stops
      BY <3>1, EndsOfAPlan
    <3>3. QED
      BY <2>1, <2>2, <3>1, <3>2, StopNextIsSound
  <2>3. CASE StartNext
    <3>1. op.starts # {} /\ op.starts \in SUBSET Services
      BY <1>0, <2>3 DEF StartNext, Operations
    <3>2. FirstOf(op.starts) \in Services
      BY <3>1, EndsOfAPlan
    <3>3. QED
      BY <2>1, <2>3, <3>2, StartNextIsSound
  <2>4. QED
    BY <1>1, <2>1, <2>2, <2>3, SucceededIsSound DEF OpNext
<1>2. CASE \E s \in Services : Begin(s) \/ NextDependency(s) \/ Settle(s)
  BY <1>2, BeginIsSound, NextDependencyIsSound, SettleIsSound
<1>3. QED
  BY <1>1, <1>2 DEF Callback

LEMMA EventIsSound ==
  ASSUME SupervisorIsSound, up, Event
  PROVE  SupervisorIsSound'
<1>1. CASE Request
  <2>1. CASE \E s \in Services : StartTarget({ s }) \/ StopTarget({ s }, {}) \/ RestartTarget({ s })
    <3>1. PICK s \in Services : StartTarget({ s }) \/ StopTarget({ s }, {}) \/ RestartTarget({ s })
      BY <2>1
    <3>2. {s} \in SUBSET Services
      OBVIOUS
    <3>3. QED
      BY <3>1, <3>2, RequestIsSound
  <2>2. CASE StartTarget(Services) \/ RestartTarget(Services)
             \/ \E keep \in { {}, { Infra } } : StopTarget(Services, keep)
    BY <2>2, RequestIsSound
  <2>3. QED
    BY <1>1, <2>1, <2>2 DEF Request
<1>2. CASE OperationSteps
  <2>1. op.pc \in { "quiet", "hook", "closing", "released", "lease" } => op.at \in Services
    BY DEF SupervisorIsSound, OperationOK, Shapes, Operations
  <2>2. CASE QuietEnds
    BY <2>1, <2>2, QuietEndsIsSound DEF QuietEnds
  <2>3. CASE HookEnds
    BY <2>3, HookEndsIsSound
  <2>4. CASE CloseTimesOut
    BY <2>1, <2>4, CloseTimesOutIsSound DEF CloseTimesOut
  <2>5. CASE PortsReleased
    BY <2>1, <2>5, PortsReleasedIsSound DEF PortsReleased
  <2>6. CASE PortsStillTaken
    BY <2>1, <2>6, PortsStillTakenIsSound DEF PortsStillTaken
  <2>7. QED
    BY <1>2, <2>2, <2>3, <2>4, <2>5, <2>6 DEF OperationSteps
<1>3. CASE \E s \in Services : ServiceSteps(s)
  <2>1. PICK s \in Services : ServiceSteps(s)
    BY <1>3
  <2>2. CASE PortsChecked(s)
    BY <2>2, PortsOccupiedIsSound, SpawnIsSound DEF PortsChecked
  <2>3. CASE StartEnds(s)
    BY <2>3, StartAnsweredIsSound, StartTimesOutIsSound DEF StartEnds
  <2>4. CASE TimerFires(s)
    BY <2>4, TimerFiresIsSound
  <2>5. CASE MonitorProbes(s)
    BY <2>5, MonitorProbesIsSound
  <2>6. CASE \E healthy \in BOOLEAN : MonitorAnswered(s, healthy)
    BY <2>6, MonitorAnsweredIsSound
  <2>7. QED
    BY <2>1, <2>2, <2>3, <2>4, <2>5, <2>6 DEF ServiceSteps
<1>4. QED
  BY <1>1, <1>2, <1>3, LeasesWrittenIsSound DEF Event

LEMMA HostIsSound ==
  ASSUME SupervisorIsSound, Host
  PROVE  SupervisorIsSound'
<1>1. CASE \E s \in Services : PortTaken(s) \/ PortLeft(s)
  <2>1. UNCHANGED << memory, lease, alive, up >>
    BY <1>1 DEF PortTaken, PortLeft
  <2>2. alive' \in [Services -> SUBSET (Nat \ {0})]
    BY <2>1 DEF SupervisorIsSound, Shapes
  <2>3. QED
    BY <2>1, <2>2, RestIsSound
<1>2. QED
  BY <1>1, CrashIsSound, ClosesIsSound DEF Host

LEMMA StepIsSound == SupervisorIsSound /\ [NextSupervisor]_supVars => SupervisorIsSound'
<1> SUFFICES ASSUME SupervisorIsSound, [NextSupervisor]_supVars PROVE SupervisorIsSound'
  OBVIOUS
<1>1. CASE UNCHANGED supVars
  <2>1. UNCHANGED << memory, lease, alive, up >>
    BY <1>1 DEF supVars, processes
  <2>2. alive' \in [Services -> SUBSET (Nat \ {0})]
    BY <2>1 DEF SupervisorIsSound, Shapes
  <2>3. QED
    BY <2>1, <2>2, RestIsSound
<1>2. QED
  BY <1>1, CallbackIsSound, EventIsSound, HostIsSound, BootIsSound DEF NextSupervisor

LEMMA SupervisorAlwaysSound == SpecSupervisor => []SupervisorIsSound
BY InitIsSound, StepIsSound, PTL DEF SpecSupervisor

-------------------------------------------------------------------------------
(* Every field of a service, of its attempt and of the operation keeps its   *)
(* type, and a process held is always the last one started                   *)
(* (supervisor.ts, ManagedService and the fields of the supervisor).         *)
THEOREM SupervisorIsTyped == SpecSupervisor => []SupervisorTypeOK
<1>1. SupervisorIsSound => SupervisorTypeOK
  BY DEF SupervisorIsSound, Shapes, SupervisorTypeOK, Records, Attempts, Operations, Leases
<1>2. QED
  BY <1>1, SupervisorAlwaysSound, PTL

(* Nobody waits for a start that is gone, and starts never wait for one      *)
(* another in a circle (startSingle, startDependencies).                     *)
THEOREM WaitersAreAlwaysServed == SpecSupervisor => []WaitersAreServed
<1>1. SupervisorIsSound => WaitersAreServed
  BY CatalogIsOrdered DEF SupervisorIsSound, OperationOK, AttemptsOK, WaitersAreServed
<1>2. QED
  BY <1>1, SupervisorAlwaysSound, PTL

(* No late probe and no old attempt marks another process healthy than the   *)
(* one its monitor watches (waitForHealthy, monitor, handleClose).           *)
THEOREM HealthyIsAlwaysWatched == SpecSupervisor => []HealthyIsWatched
<1>1. SupervisorIsSound => HealthyIsWatched
  BY DEF SupervisorIsSound, WatchOK, CloseIsComing, ClosePending, HealthyIsWatched
<1>2. QED
  BY <1>1, SupervisorAlwaysSound, PTL

(* A supervisor that dies leaves no process it would not find again          *)
(* (persistLeases queued behind every change of a handle).                   *)
THEOREM LeasesNameTheProcesses == SpecSupervisor => []LeaseNamesTheProcess
<1>1. SupervisorIsSound => LeaseNamesTheProcess
  BY DEF SupervisorIsSound, LeasesOK, LeaseNamesTheProcess
<1>2. QED
  BY <1>1, SupervisorAlwaysSound, PTL

(* No service is left in stopping when its operation has ended: its monitor  *)
(* and its restarts are never switched off for good (stopSingle).            *)
THEOREM StoppingIsAlwaysDriven == SpecSupervisor => []StoppingIsDriven
<1>1. SupervisorIsSound => StoppingIsDriven
  BY DEF SupervisorIsSound, OperationOK, StoppingIsDriven
<1>2. QED
  BY <1>1, SupervisorAlwaysSound, PTL

(* One service that a step leaves aside. *)
Untouched(s) == svc'[s].conflict = svc[s].conflict /\ alive'[s] \subseteq alive[s]

LEMMA OthersLeaveAside ==
  ASSUME NEW s \in Services, NEW t \in Services, OthersRest(t), UNCHANGED alive,
         t = s => svc'[s].conflict = svc[s].conflict
  PROVE  Untouched(s)
BY DEF OthersRest, Untouched

LEMMA CallbackLeavesAside ==
  ASSUME SupervisorIsSound, NEW s \in Services, Aside(s), Callback
  PROVE  Untouched(s)
<1>0. Shapes /\ AttemptsOK /\ op \in Operations
  BY DEF SupervisorIsSound, Shapes
<1>1. CASE OpNext
  <2>1. UNCHANGED alive
    BY <1>1 DEF OpNext, processes
  <2>2. CASE StopNext
    <3>1. op.stops # {} /\ op.stops \in SUBSET Services
      BY <1>0, <2>2 DEF StopNext, Operations
    <3>2. PICK t \in Services : t = LastOf(op.stops)
      BY <3>1, EndsOfAPlan
    <3>3. OthersRest(t) /\ svc'[t].conflict = svc[t].conflict
      BY <1>0, <2>2, <3>1, <3>2, StopNextDoes DEF Looks
    <3>4. QED
      BY <2>1, <3>3, OthersLeaveAside
  <2>3. QED
    BY <1>1, <2>1, <2>2 DEF OpNext, StartNext, Succeeded, Untouched
<1>2. ASSUME NEW t \in Services, Begin(t) PROVE Untouched(s)
  <2>1. OthersRest(t) /\ UNCHANGED alive /\ svc'[t].conflict = svc[t].conflict
    BY <1>0, <1>2, BeginDoes DEF Looks
  <2>2. QED
    BY <2>1, OthersLeaveAside
<1>3. ASSUME NEW t \in Services, NextDependency(t) PROVE Untouched(s)
  <2>1. UNCHANGED alive /\ (svc' = svc \/ svc'[t].conflict = svc[t].conflict)
        /\ \A u \in Services \ {t} : svc'[u] = svc[u]
    BY <1>0, <1>3, NextDependencyDoes DEF Looks
  <2>2. QED
    BY <2>1 DEF Untouched
<1>4. ASSUME NEW t \in Services, Settle(t) PROVE Untouched(s)
  <2>1. UNCHANGED alive /\ svc'[t].conflict = svc[t].conflict
        /\ \A u \in Services \ {t} : svc'[u] = svc[u]
    BY <1>0, <1>4, SettleDoes DEF Looks
  <2>2. QED
    BY <2>1 DEF Untouched
<1>5. QED
  BY <1>1, <1>2, <1>3, <1>4 DEF Callback

LEMMA ServiceLeavesAside ==
  ASSUME SupervisorIsSound, NEW s \in Services, Aside(s), NEW t \in Services, ServiceSteps(t)
  PROVE  Untouched(s)
<1>0. Shapes
  BY DEF SupervisorIsSound
<1>1. Aside(t) => attempt[t].pc \in { "none", "begin", "settled" }
  BY FactsOf
<1>2. CASE PortsOccupied(t)
  BY <1>0, <1>1, <1>2, PortsOccupiedDoes, OthersLeaveAside
<1>3. CASE Spawn(t)
  <2>1. OthersRest(t) /\ attempt[t].pc = "ports" /\ alive' = [alive EXCEPT ![t] = @ \cup { svc[t].generation + 1 }]
    BY <1>0, <1>3, SpawnDoes DEF Spawn
  <2>2. s # t
    BY <1>1, <2>1
  <2>3. QED
    BY <1>0, <2>1, <2>2 DEF OthersRest, Untouched, Shapes
<1>4. CASE StartEnds(t)
  <2>1. OthersRest(t) /\ UNCHANGED alive /\ svc'[t].conflict = svc[t].conflict
    BY <1>0, <1>4, StartAnsweredDoes, StartTimesOutDoes DEF StartEnds, Looks
  <2>2. QED
    BY <2>1, OthersLeaveAside
<1>5. CASE TimerFires(t)
  <2>1. OthersRest(t) /\ UNCHANGED alive /\ svc'[t].conflict = svc[t].conflict
    BY <1>0, <1>5, TimerFiresDoes DEF Looks
  <2>2. QED
    BY <2>1, OthersLeaveAside
<1>6. CASE MonitorProbes(t)
  <2>1. OthersRest(t) /\ UNCHANGED alive /\ svc'[t].conflict = svc[t].conflict
    BY <1>0, <1>6, MonitorProbesDoes DEF Looks
  <2>2. QED
    BY <2>1, OthersLeaveAside
<1>7. ASSUME NEW healthy \in BOOLEAN, MonitorAnswered(t, healthy) PROVE Untouched(s)
  <2>1. OthersRest(t) /\ UNCHANGED alive /\ svc'[t].conflict = svc[t].conflict
    BY <1>0, <1>7, MonitorAnsweredDoes DEF Looks
  <2>2. QED
    BY <2>1, OthersLeaveAside
<1>8. QED
  BY <1>2, <1>3, <1>4, <1>5, <1>6, <1>7 DEF ServiceSteps, PortsChecked

LEMMA EventLeavesAside ==
  ASSUME SupervisorIsSound, NEW s \in Services, Aside(s), Event
  PROVE  Untouched(s)
<1>0. Shapes /\ svc[s] \in Records
  BY DEF SupervisorIsSound, Shapes
<1>1. CASE Request
  <2>1. UNCHANGED alive
    BY <1>1 DEF Request, StartTarget, StopTarget, RestartTarget, Execute, processes
  <2>2. svc'[s] \in { svc[s], [ svc[s] EXCEPT !.desired = FALSE ] }
    BY <1>1 DEF Request, StartTarget, StopTarget, RestartTarget
  <2>3. QED
    BY <1>0, <2>1, <2>2 DEF Records, Untouched
<1>2. CASE OperationSteps
  <2>1. /\ UNCHANGED alive
        /\ HookEnds \/ op.pc \in { "quiet", "closing", "released" }
    BY <1>2 DEF OperationSteps, QuietEnds, HookEnds, CloseTimesOut, PortsReleased, PortsStillTaken,
                processes
  <2>2. CASE HookEnds
    BY <2>1, <2>2 DEF HookEnds, Untouched
  <2>3. CASE ~HookEnds
    <3>1. op.at \in Services /\ op.at # s
      BY <2>1, <2>3, FactsOf DEF SupervisorIsSound, OperationOK, Shapes, Operations
    <3>2. OthersRest(op.at)
      BY <1>0, <1>2, <2>3, <3>1, QuietEndsDoes, CloseTimesOutDoes, PortsReleasedDoes, PortsStillTakenDoes
         DEF OperationSteps
    <3>3. QED
      BY <2>1, <3>1, <3>2 DEF OthersRest, Untouched
  <2>4. QED
    BY <2>2, <2>3
<1>3. CASE LeasesWritten
  <2>1. /\ UNCHANGED alive /\ Head(lease.queue).of \in Services /\ Head(lease.queue).gen \in Nat
        /\ Head(lease.queue).by \in { "attempt", "close", "stop" }
        /\ 1 \in DOMAIN lease.queue /\ lease.queue[1] = Head(lease.queue)
    BY <1>0, <1>3, WrittenDoes DEF Entries, Shifts
  <2>2. Head(lease.queue).of # s
    BY <2>1 DEF SupervisorIsSound, AsideOK, Aside
  <2>3. CASE Head(lease.queue).by = "stop"
    BY <1>3, <2>1, <2>3 DEF LeasesWritten, Untouched
  <2>4. CASE Head(lease.queue).by \in { "attempt", "close" }
    <3>1. OthersRest(Head(lease.queue).of)
      BY <1>0, <1>3, <2>1, <2>4, AttemptIsWritten, CloseIsHandled
    <3>2. QED
      BY <2>1, <2>2, <3>1 DEF OthersRest, Untouched
  <2>5. QED
    BY <2>1, <2>3, <2>4
<1>4. QED
  BY <1>1, <1>2, <1>3, ServiceLeavesAside DEF Event

(* What was set aside at the start stays set aside, and no process of it is  *)
(* started, until the supervisor starts anew (recoverLeases, startSingle).   *)
THEOREM UnverifiedServicesStayAside == SpecSupervisor => UnverifiedStaysAside
<1> DEFINE A == \A s \in Services : svc[s].conflict = "unverified_lease" /\ up' =>
        svc'[s].conflict = "unverified_lease" /\ svc'[s].state = "conflict"
          /\ alive'[s] \subseteq alive[s]
<1>1. ASSUME SupervisorIsSound, SupervisorIsSound', [NextSupervisor]_supVars PROVE A
  <2> SUFFICES ASSUME NEW s \in Services, Aside(s), up' PROVE Untouched(s)
    BY <1>1 DEF SupervisorIsSound, AsideOK, Aside, Untouched
  <2>1. up
    <3>1. CASE ~up
      <4>1. svc[s] = Fresh(svc[s].generation) /\ svc[s].generation \in Nat
        BY <1>1, <3>1, NumbersAreTyped DEF SupervisorIsSound, DownOK
      <4>2. ~Aside(s)
        BY <4>1, EmptyRecords DEF Aside, Looks
      <4>3. QED
        BY <4>2
    <3>2. QED
      BY <3>1
  <2>2. CASE UNCHANGED supVars
    BY <2>2 DEF supVars, memory, processes, Untouched
  <2>3. CASE Host
    <3>1. CASE \E t \in Services : PortTaken(t) \/ PortLeft(t)
      BY <3>1 DEF PortTaken, PortLeft, memory, Untouched
    <3>2. ASSUME NEW t \in Services, NEW g \in alive[t], Closes(t, g) PROVE Untouched(s)
      <4>1. OthersRest(t) /\ svc'[t].conflict = svc[t].conflict
        BY <1>1, <3>2, ClosesDoes DEF SupervisorIsSound, Looks
      <4>2. alive' = [ alive EXCEPT ![t] = @ \ { g } ] /\ alive \in [Services -> SUBSET (Nat \ {0})]
        BY <1>1, <3>2 DEF Closes, SupervisorIsSound, Shapes
      <4>3. QED
        BY <4>1, <4>2 DEF OthersRest, Untouched
    <3>3. QED
      BY <2>3, <3>1, <3>2 DEF Host, Crash
  <2>4. QED
    BY <1>1, <2>1, <2>2, <2>3, CallbackLeavesAside, EventLeavesAside DEF NextSupervisor, Boot
<1>2. QED
  BY <1>1, SupervisorAlwaysSound, PTL DEF SpecSupervisor, UnverifiedStaysAside

-------------------------------------------------------------------------------
(* Restarts.  Nobody but a start makes a service desired again, an attempt   *)
(* keeps the timers that asked for it, and one that settles as a success     *)
(* leaves a process held.                                                    *)
Fades(t) ==
  /\ svc'[t].desired => svc[t].desired
  /\ attempt[t].pc # "none" => attempt[t].timers \subseteq attempt'[t].timers
  /\ attempt'[t].pc = "settled" /\ attempt'[t].ok => svc'[t].command # 0

SettledOK == \A t \in Services : attempt[t].pc = "settled" /\ attempt[t].ok => svc[t].command # 0

LEMMA BeginFades ==
  ASSUME Shapes, SettledOK, NEW s \in Services, Begin(s), NEW t \in Services
  PROVE  Fades(t)
<1>1. svc[s] \in Records /\ attempt[s] \in Attempts
  BY DEF Shapes
<1>2. CASE svc[s].command # 0
  BY <1>1, <1>2 DEF Begin, Settled, Fades, SettledOK, Shapes, Attempts
<1>3. CASE svc[s].command = 0 /\ Unresolved(s)
  BY <1>1, <1>3 DEF Begin, Settled, Fades, SettledOK, Shapes, Attempts
<1>4. CASE svc[s].command = 0 /\ ~Unresolved(s)
  <2> DEFINE r == [ svc[s] EXCEPT !.timer = 0 ]
             a == [ attempt[s] EXCEPT !.pc = "next", !.left = Dependencies[s] ]
  <2>1. svc' = [ svc EXCEPT ![s] = r ] /\ attempt' = [ attempt EXCEPT ![s] = a ]
    BY <1>4 DEF Begin
  <2>2. r.desired = svc[s].desired /\ a.pc = "next" /\ a.timers = attempt[s].timers
    BY <1>1 DEF Records, Attempts
  <2> HIDE DEF r, a
  <2>3. QED
    BY <2>1, <2>2 DEF Fades, SettledOK, Shapes
<1>5. QED
  BY <1>2, <1>3, <1>4 DEF Begin

LEMMA PortsOccupiedFades ==
  ASSUME Shapes, SettledOK, NEW s \in Services, PortsOccupied(s), NEW t \in Services
  PROVE  Fades(t)
<1>1. svc[s] \in Records /\ attempt[s] \in Attempts
  BY DEF Shapes
<1>2. QED
  BY <1>1 DEF PortsOccupied, Settled, Fades, SettledOK, Shapes, Records, Attempts

LEMMA StartEndsFades ==
  ASSUME Shapes, SettledOK, AttemptsOK, NEW s \in Services, StartEnds(s), NEW t \in Services
  PROVE  Fades(t)
<1>1. svc[s] \in Records /\ attempt[s] \in Attempts
  BY DEF Shapes
<1>2. CASE StartAnswered(s)
  BY <1>1, <1>2 DEF StartAnswered, Settled, Fades, SettledOK, Shapes, Records, Attempts, Superseded, AttemptsOK
<1>3. CASE StartTimesOut(s)
  BY <1>1, <1>3 DEF StartTimesOut, Settled, Fades, SettledOK, Shapes, Records, Attempts
<1>4. QED
  BY <1>2, <1>3 DEF StartEnds

LEMMA TimerFiresFades ==
  ASSUME Shapes, SettledOK, NEW s \in Services, TimerFires(s), NEW t \in Services
  PROVE  Fades(t)
<1>1. svc[s] \in Records /\ attempt[s] \in Attempts
  BY DEF Shapes
<1> DEFINE r == [ svc[s] EXCEPT !.timer = 0 ]
           a == IF attempt[s].pc = "none"
                THEN [ NoAttempt EXCEPT !.pc = "begin", !.timers = { svc[s].timer } ]
                ELSE [ attempt[s] EXCEPT !.timers = @ \cup { svc[s].timer } ]
<1>2. svc' = [ svc EXCEPT ![s] = r ]
      /\ attempt' \in { attempt, [ attempt EXCEPT ![s] = a ] }
  BY DEF TimerFires, StartSingle, Shapes
<1>3. /\ r.desired = svc[s].desired /\ r.command = svc[s].command
      /\ attempt[s].pc = "none" => a.pc = "begin"
      /\ attempt[s].pc # "none" => /\ a.pc = attempt[s].pc /\ a.ok = attempt[s].ok
                                   /\ attempt[s].timers \subseteq a.timers
  BY <1>1 DEF Records, Attempts, NoAttempt
<1> HIDE DEF r, a
<1>4. QED
  BY <1>2, <1>3 DEF Fades, SettledOK, Shapes

LEMMA MonitorFades ==
  ASSUME Shapes, SettledOK, NEW s \in Services, NEW t \in Services,
         MonitorProbes(s) \/ \E healthy \in BOOLEAN : MonitorAnswered(s, healthy)
  PROVE  Fades(t)
<1>1. svc[s] \in Records /\ attempt[s] \in Attempts
  BY DEF Shapes
<1>2. CASE MonitorProbes(s)
  BY <1>1, <1>2 DEF MonitorProbes, Fades, SettledOK, Shapes, Records, Attempts
<1>3. ASSUME NEW healthy \in BOOLEAN, MonitorAnswered(s, healthy) PROVE Fades(t)
  BY <1>1, <1>3 DEF MonitorAnswered, Fades, SettledOK, Shapes, Records, Attempts
<1>4. QED
  BY <1>2, <1>3

LEMMA NextDependencyFades ==
  ASSUME Shapes, SettledOK, NEW s \in Services, NextDependency(s), NEW t \in Services
  PROVE  Fades(t)
<1>1. /\ svc[s] \in Records /\ attempt[s] \in Attempts /\ attempt[s].pc = "next"
  BY DEF Shapes, NextDependency
<1> DEFINE d == FirstOf(attempt[s].left)
           r == [ svc[s] EXCEPT !.state = "waiting_dependency" ]
<1>2. r.desired = svc[s].desired /\ r.command = svc[s].command
  BY <1>1 DEF Records
<1>3. /\ svc' \in { svc, [ svc EXCEPT ![s] = r ] }
      /\ \/ attempt' = [ attempt EXCEPT ![s].pc = "ports" ]
         \/ attempt' = [ attempt EXCEPT ![s].left = @ \ { d } ]
         \/ attempt' = [ attempt EXCEPT
               ![s].pc = "dependency", ![s].on = d,
               ![d] = IF @.pc = "none" THEN [ NoAttempt EXCEPT !.pc = "begin" ] ELSE @ ]
  BY DEF NextDependency, Shapes
<1>4. svc'[t].desired = svc[t].desired /\ svc'[t].command = svc[t].command
  <2> HIDE DEF r
  <2>1. QED
    BY <1>2, <1>3 DEF Shapes
<1> HIDE DEF d, r
<1>5. /\ attempt[t].pc # "none" => attempt[t].timers = attempt'[t].timers
      /\ attempt'[t].pc = "settled" => attempt'[t] = attempt[t]
  <2>0. attempt[t] \in Attempts
    BY DEF Shapes
  <2>1. CASE attempt' = [ attempt EXCEPT ![s].pc = "ports" ]
    BY <1>1, <2>0, <2>1 DEF Attempts, Shapes
  <2>2. CASE attempt' = [ attempt EXCEPT ![s].left = @ \ { d } ]
    BY <1>1, <2>0, <2>2 DEF Attempts, Shapes
  <2>3. CASE attempt' = [ attempt EXCEPT
               ![s].pc = "dependency", ![s].on = d,
               ![d] = IF @.pc = "none" THEN [ NoAttempt EXCEPT !.pc = "begin" ] ELSE @ ]
    BY <1>1, <2>0, <2>3 DEF Attempts, Shapes, NoAttempt
  <2>4. QED
    BY <1>3, <2>1, <2>2, <2>3
<1>6. QED
  BY <1>4, <1>5 DEF Fades, SettledOK

(* What is left of a promise that settles. *)
LEMMA ResumedFades ==
  ASSUME NEW a \in Attempts, NEW s \in Services, NEW outcome
  PROVE  LET b == Resumed(a, s, outcome)
         IN b.timers = a.timers /\ (b.pc = "settled" /\ b.ok => b = a)
<1>1. CASE a.pc # "dependency" \/ a.on # s
  BY <1>1 DEF Resumed
<1>2. CASE ~(a.pc # "dependency" \/ a.on # s) /\ outcome
  <2> DEFINE b == [ a EXCEPT !.pc = "next", !.left = @ \ { s }, !.on = None ]
  <2>1. b.pc = "next" /\ b.timers = a.timers
    BY DEF Attempts
  <2> HIDE DEF b
  <2>2. Resumed(a, s, outcome) = b
    BY <1>2 DEF Resumed, b
  <2>3. QED
    BY <2>1, <2>2
<1>3. CASE ~(a.pc # "dependency" \/ a.on # s) /\ ~outcome
  <2> DEFINE b == [ a EXCEPT !.pc = "settled", !.ok = FALSE, !.on = None ]
  <2>1. b.ok = FALSE /\ b.timers = a.timers
    BY DEF Attempts
  <2> HIDE DEF b
  <2>2. Resumed(a, s, outcome) = b
    BY <1>3 DEF Resumed, b
  <2>3. QED
    BY <2>1, <2>2
<1>4. QED
  BY <1>1, <1>2, <1>3

LEMMA SettleFades ==
  ASSUME Shapes, SettledOK, NEW s \in Services, Settle(s), NEW t \in Services
  PROVE  /\ svc'[t].desired => svc[t].desired
         /\ t # s => Fades(t)
<1>1. svc[s] \in Records /\ attempt[t] \in Attempts /\ svc[t] \in Records
  BY DEF Shapes
<1> DEFINE r == [ svc[s] EXCEPT !.state = "failed" ]
<1>2. r.desired = svc[s].desired /\ r.command = svc[s].command
  BY <1>1 DEF Records
<1>3. svc' \in { svc, [ svc EXCEPT ![s] = r ] }
  BY DEF Settle, Shapes
<1>4. svc'[t].desired = svc[t].desired /\ svc'[t].command = svc[t].command
  <2> HIDE DEF r
  <2>1. QED
    BY <1>2, <1>3 DEF Shapes
<1>5. t # s => attempt'[t] = Resumed(attempt[t], s, attempt[s].ok)
  BY DEF Settle
<1>6. t # s => /\ attempt'[t].timers = attempt[t].timers
               /\ attempt'[t].pc = "settled" /\ attempt'[t].ok => attempt'[t] = attempt[t]
  BY <1>1, <1>5, ResumedFades
<1>7. QED
  BY <1>4, <1>6 DEF Fades, SettledOK

LEMMA WrittenFades ==
  ASSUME Shapes, SettledOK, LeasesWritten, NEW t \in Services
  PROVE  Fades(t)
<1> DEFINE s == Head(lease.queue).of
<1>1. s \in Services /\ Head(lease.queue).by \in { "attempt", "close", "stop" }
  BY WrittenDoes DEF Entries
<1> SUFFICES ASSUME NEW u \in Services, u = s PROVE Fades(t)
  BY <1>1
<1>2. svc[u] \in Records /\ attempt[u] \in Attempts
  BY DEF Shapes
<1>3. CASE Head(lease.queue).by = "attempt"
  <2>1. svc' = svc /\ attempt' \in { [ attempt EXCEPT ![u].pc = "probing" ],
                                     [ attempt EXCEPT ![u].pc = "settled", ![u].ok = FALSE ] }
    BY <1>3 DEF LeasesWritten, Settled
  <2>2. QED
    BY <1>2, <2>1 DEF Fades, SettledOK, Shapes, Attempts
<1>4. CASE Head(lease.queue).by = "close"
  <2>1. attempt' = attempt /\ AfterClose(u, Head(lease.queue).gen)
    BY <1>4 DEF LeasesWritten
  <2>2. CASE svc' = svc
    BY <2>1, <2>2 DEF Fades, SettledOK
  <2>3. CASE svc' = [ svc EXCEPT ![u].state = "stopped", ![u].stopping = FALSE ]
    BY <1>2, <2>1, <2>3 DEF Fades, SettledOK, Shapes, Records
  <2>4. ASSUME NEW kept \in Nat,
               \/ svc' = [ svc EXCEPT ![u] = [ svc[u] EXCEPT
                             !.failures = kept + 1, !.desired = FALSE, !.state = "failed" ] ]
               \/ svc' = [ svc EXCEPT ![u] = [ svc[u] EXCEPT
                             !.failures = kept + 1, !.state = "restart_wait",
                             !.timer = Head(lease.queue).gen ] ]
        PROVE  Fades(t)
    <3> DEFINE g == Head(lease.queue).gen
               f == [ svc[u] EXCEPT !.failures = kept + 1, !.desired = FALSE, !.state = "failed" ]
               w == [ svc[u] EXCEPT !.failures = kept + 1, !.state = "restart_wait", !.timer = g ]
    <3>1. f.command = svc[u].command /\ ~f.desired
      BY <1>2 DEF Records
    <3>2. w.command = svc[u].command /\ w.desired = svc[u].desired
      BY <1>2 DEF Records
    <3>3. svc' \in { [ svc EXCEPT ![u] = f ], [ svc EXCEPT ![u] = w ] }
      BY <2>4
    <3> HIDE DEF f, w
    <3>4. QED
      BY <2>1, <3>1, <3>2, <3>3 DEF Fades, SettledOK, Shapes
  <2>5. svc[u].failures \in Nat
    BY <1>2 DEF Records
  <2>6. CASE ScheduleRestart(u, Head(lease.queue).gen)
    <3>1. PICK kept \in 0..svc[u].failures :
            svc' = [ svc EXCEPT ![u] =
         IF kept + 1 > MaxFailures
         THEN [ @ EXCEPT !.failures = kept + 1, !.desired = FALSE, !.state = "failed" ]
         ELSE [ @ EXCEPT !.failures = kept + 1, !.state = "restart_wait",
                         !.timer = Head(lease.queue).gen ] ]
      BY <2>6 DEF ScheduleRestart
    <3>2. kept \in Nat
      BY <2>5
    <3>3. QED
      BY <2>4, <3>1, <3>2 DEF Shapes
  <2>7. QED
    BY <2>1, <2>2, <2>3, <2>6 DEF AfterClose
<1>5. CASE Head(lease.queue).by = "stop"
  BY <1>5 DEF LeasesWritten, Fades, SettledOK
<1>6. QED
  BY <1>1, <1>3, <1>4, <1>5

LEMMA OpNextFades ==
  ASSUME Shapes, SettledOK, OpNext, NEW t \in Services
  PROVE  Fades(t)
<1>0. op \in Operations
  BY DEF Shapes
<1>1. CASE StopNext
  <2>1. PICK s \in Services : s = LastOf(op.stops)
    BY <1>0, <1>1, EndsOfAPlan DEF StopNext, Operations
  <2>2. svc[s] \in Records
    BY DEF Shapes
  <2> DEFINE d == [ svc[s] EXCEPT !.timer = 0, !.desired = IF op.oneByOne THEN FALSE ELSE @ ]
             h == [ d EXCEPT !.stopping = TRUE, !.state = "stopping" ]
  <2>3. attempt' = attempt /\ svc' \in { [ svc EXCEPT ![s] = d ], [ svc EXCEPT ![s] = h ] }
    BY <1>1, <2>1 DEF StopNext, Dropped
  <2>4. /\ d.desired => svc[s].desired
        /\ h.desired => svc[s].desired
        /\ d.command = svc[s].command /\ h.command = svc[s].command
    BY <2>2 DEF Records
  <2> HIDE DEF d, h
  <2>5. QED
    BY <2>3, <2>4 DEF Fades, SettledOK, Shapes
<1>2. CASE StartNext
  <2>1. PICK s \in Services : s = FirstOf(op.starts)
    BY <1>0, <1>2, EndsOfAPlan DEF StartNext, Operations
  <2>2. attempt[s] \in Attempts
    BY DEF Shapes
  <2> DEFINE a == IF attempt[s].pc = "none" THEN [ NoAttempt EXCEPT !.pc = "begin", !.timers = {} ]
                  ELSE [ attempt[s] EXCEPT !.timers = @ \cup {} ]
  <2>3. attempt' = [ attempt EXCEPT ![s] = a ] /\ svc' = svc
    BY <1>2, <2>1 DEF StartNext, StartSingle, Shapes
  <2>4. /\ attempt[s].pc = "none" => a.pc = "begin"
        /\ attempt[s].pc # "none" => /\ a.pc = attempt[s].pc /\ a.ok = attempt[s].ok
                                     /\ attempt[s].timers \subseteq a.timers
    BY <2>2 DEF NoAttempt, Attempts
  <2> HIDE DEF a
  <2>5. QED
    BY <2>3, <2>4 DEF Fades, SettledOK, Shapes
<1>3. CASE Succeeded
  BY <1>3 DEF Succeeded, Fades, SettledOK
<1>4. QED
  BY <1>1, <1>2, <1>3 DEF OpNext

LEMMA OperationFades ==
  ASSUME Shapes, SettledOK, ~Due, OperationSteps \/ Request, NEW t \in Services
  PROVE  Fades(t)
<1>0. attempt' = attempt /\ attempt[t].pc # "settled" /\ svc[t] \in Records
  BY DEF OperationSteps, QuietEnds, HookEnds, CloseTimesOut, PortsReleased, PortsStillTaken,
         Request, StartTarget, StopTarget, RestartTarget, Execute, Due, Shapes
<1>1. svc'[t].desired => svc[t].desired
  <2>1. CASE Request
    <3>1. svc'[t] \in { svc[t], [ svc[t] EXCEPT !.desired = FALSE ] }
      BY <2>1 DEF Request, StartTarget, StopTarget, RestartTarget
    <3>2. QED
      BY <1>0, <3>1 DEF Records
  <2>2. CASE QuietEnds
    BY <1>0, <2>2 DEF QuietEnds, Shapes, Records
  <2>3. CASE HookEnds
    BY <2>3 DEF HookEnds
  <2>4. CASE CloseTimesOut
    BY <1>0, <2>4 DEF CloseTimesOut, Shapes, Records
  <2>5. CASE PortsReleased
    BY <1>0, <2>5 DEF PortsReleased, Shapes, Records
  <2>6. CASE PortsStillTaken
    BY <1>0, <2>6 DEF PortsStillTaken, Shapes, Records
  <2>7. QED
    BY <2>1, <2>2, <2>3, <2>4, <2>5, <2>6 DEF OperationSteps
<1>2. QED
  BY <1>0, <1>1 DEF Fades

LEMMA ClosesFades ==
  ASSUME Shapes, SettledOK, ~Due, NEW s \in Services, NEW g \in alive[s], Closes(s, g),
         NEW t \in Services
  PROVE  Fades(t)
<1>0. attempt' = attempt /\ attempt[t].pc # "settled" /\ svc[s] \in Records
  BY DEF Closes, Due, Shapes
<1>1. svc' \in { svc, [ svc EXCEPT ![s].command = 0, ![s].monitor = 0 ] }
  BY DEF Closes
<1>2. QED
  BY <1>0, <1>1 DEF Fades, Shapes, Records

(* A service that waits for its restart gets it: somebody is about to try,   *)
(* its timer will, or a timer that fired has its promise in the attempt.     *)
Awaited(t) ==
  \/ ~svc[t].desired
  \/ svc[t].timer = svc[t].generation
  \/ op.pc = "quiet" /\ op.at = t
  \/ attempt[t].pc \in { "begin", "next", "ports" }
  \/ attempt[t].pc # "none" /\ svc[t].generation \in attempt[t].timers
RestartsRightly(t) ==
  svc[t].state = "restart_wait" => svc[t].command = 0 /\ ~svc[t].stopping /\ Awaited(t)
RestartOK == SettledOK /\ \A t \in Services : RestartsRightly(t)

LEMMA FadesKeepsSettled ==
  ASSUME SettledOK, \A t \in Services : Fades(t)
  PROVE  SettledOK'
BY DEF SettledOK, Fades

(* The services a step leaves alone go on waiting. *)
LEMMA OthersGoOn ==
  ASSUME RestartOK, NEW s \in Services, OthersRest(s), NEW t \in Services, t # s,
         op.pc = "quiet" /\ op.at = t => op'.pc = "quiet" /\ op'.at = t
  PROVE  RestartsRightly(t)'
<1>1. svc'[t] = svc[t] /\ attempt'[t] = attempt[t] /\ RestartsRightly(t)
  BY DEF OthersRest, RestartOK
<1>2. QED
  BY <1>1 DEF RestartsRightly, Awaited

LEMMA BeginRestarts ==
  ASSUME SupervisorIsSound, RestartOK, NEW s \in Services, Begin(s)
  PROVE  RestartOK'
<1>0. Shapes /\ SettledOK
  BY DEF SupervisorIsSound, RestartOK
<1>1. \A t \in Services : Fades(t)
  BY <1>0, BeginFades
<1>2. OthersRest(s) /\ UNCHANGED op /\ attempt[s].pc = "begin"
  BY <1>0, BeginDoes
<1>3. RestartsRightly(s)'
  <2>1. CASE svc[s].command # 0
    BY <1>0, <1>2, <2>1, BeginDoes DEF RestartsRightly, RestartOK
  <2>2. CASE Unresolved(s)
    BY <1>0, <1>2, <2>2, BeginDoes DEF RestartsRightly, Unresolved, Looks
  <2>3. CASE svc[s].command = 0 /\ ~Unresolved(s)
    BY <1>0, <1>2, <2>3, BeginDoes DEF RestartsRightly, RestartOK, Awaited, Looks, Tries
  <2>4. QED
    BY <2>1, <2>2, <2>3
<1>4. QED
  BY <1>0, <1>1, <1>2, <1>3, FadesKeepsSettled, OthersGoOn DEF RestartOK

LEMMA NextDependencyRestarts ==
  ASSUME SupervisorIsSound, RestartOK, NEW s \in Services, NextDependency(s)
  PROVE  RestartOK'
<1>0. Shapes /\ SettledOK /\ AttemptsOK
  BY DEF SupervisorIsSound, RestartOK
<1>1. \A t \in Services : Fades(t)
  BY <1>0, NextDependencyFades
<1>2. UNCHANGED op /\ attempt[s].pc = "next" /\ \A t \in Services \ {s} : svc'[t] = svc[t]
  BY <1>0, NextDependencyDoes
<1>3. RestartsRightly(s)'
  BY <1>0, <1>2, NextDependencyDoes DEF RestartsRightly, RestartOK, Awaited, Looks, Tries
<1>4. ASSUME NEW t \in Services, t # s PROVE RestartsRightly(t)'
  <2>1. \/ attempt'[t] = attempt[t]
        \/ attempt[t].pc = "none" /\ attempt'[t].pc = "begin"
    BY <1>0, <1>4, NextDependencyDoes DEF Tries
  <2>2. svc'[t] = svc[t] /\ UNCHANGED op /\ RestartsRightly(t)
    BY <1>2, <1>4 DEF RestartOK
  <2>3. QED
    BY <2>1, <2>2 DEF RestartsRightly, Awaited
<1>5. QED
  BY <1>0, <1>1, <1>3, <1>4, FadesKeepsSettled DEF RestartOK

LEMMA SettleRestarts ==
  ASSUME SupervisorIsSound, RestartOK, NEW s \in Services, Settle(s)
  PROVE  RestartOK'
<1>0. Shapes /\ SettledOK
  BY DEF SupervisorIsSound, RestartOK
<1>1. \A t \in Services \ {s} : Fades(t)
  BY <1>0, SettleFades
<1>2. /\ attempt[s].pc = "settled" /\ attempt'[s] = NoAttempt
      /\ op.pc = "quiet" => op' = op
      /\ \A t \in Services \ {s} : svc'[t] = svc[t] /\ attempt'[t] = Resumed(attempt[t], s, attempt[s].ok)
  BY <1>0, SettleDoes DEF Settle
<1>3. SettledOK'
  BY <1>0, <1>1, <1>2 DEF SettledOK, Fades, NoAttempt
<1>4. ASSUME NEW t \in Services, t # s PROVE RestartsRightly(t)'
  <2>1. attempt[t] \in Attempts
    BY <1>0 DEF Shapes
  <2>2. \/ attempt'[t] = attempt[t]
        \/ /\ attempt[t].pc = "dependency" /\ attempt'[t].pc # "none"
           /\ attempt'[t].timers = attempt[t].timers
    BY <1>2, <1>4, <2>1 DEF Resumed, Attempts
  <2>3. svc'[t] = svc[t] /\ RestartsRightly(t)
    BY <1>2, <1>4 DEF RestartOK
  <2>4. QED
    BY <1>2, <2>2, <2>3 DEF RestartsRightly, Awaited
<1>5. RestartsRightly(s)'
  <2>1. CASE TimerCatches(s)
    <3>1. svc'[s].state = "failed"
      BY <1>0, <2>1 DEF Settle, Shapes, Records
    <3>2. QED
      BY <3>1 DEF RestartsRightly
  <2>2. CASE ~TimerCatches(s)
    <3>1. svc' = svc /\ RestartsRightly(s)
      BY <2>2 DEF Settle, RestartOK
    <3>2. svc[s].state = "restart_wait" => ~(svc[s].generation \in attempt[s].timers)
      BY <1>2, <2>2, <3>1 DEF TimerCatches, RestartsRightly, RestartOK, SettledOK
    <3>3. QED
      BY <1>2, <3>1, <3>2 DEF RestartsRightly, Awaited
  <2>3. QED
    BY <2>1, <2>2
<1>6. QED
  BY <1>3, <1>4, <1>5 DEF RestartOK

LEMMA ServiceGoesOn ==
  ASSUME RestartOK, \A t \in Services : Fades(t), NEW s \in Services, OthersRest(s),
         op.pc = "quiet" => op' = op \/ op.at = s,
         RestartsRightly(s)'
  PROVE  RestartOK'
BY FadesKeepsSettled, OthersGoOn DEF RestartOK

(* A timer that fires in time leaves its promise in the attempt. *)
LEMMA TimerIsRemembered ==
  ASSUME Shapes, NEW s \in Services, TimerFires(s), ~TimerIsStale(s, svc[s].timer)
  PROVE  attempt'[s].pc # "none" /\ svc[s].timer \in attempt'[s].timers
<1>1. attempt[s] \in Attempts
  BY DEF Shapes
<1> DEFINE n == [ NoAttempt EXCEPT !.pc = "begin", !.timers = { svc[s].timer } ]
           a == [ attempt[s] EXCEPT !.timers = @ \cup { svc[s].timer } ]
<1>2. attempt'[s] = IF attempt[s].pc = "none" THEN n ELSE a
  BY DEF TimerFires, StartSingle, Shapes
<1>3. n.pc = "begin" /\ n.timers = { svc[s].timer }
  BY DEF NoAttempt
<1>4. a.pc = attempt[s].pc /\ a.timers = attempt[s].timers \cup { svc[s].timer }
  BY <1>1 DEF Attempts
<1> HIDE DEF n, a
<1>5. QED
  BY <1>2, <1>3, <1>4

LEMMA TimerFiresRestarts ==
  ASSUME SupervisorIsSound, RestartOK, NEW s \in Services, TimerFires(s)
  PROVE  RestartOK'
<1>0. Shapes /\ SettledOK
  BY DEF SupervisorIsSound, RestartOK
<1>1. \A t \in Services : Fades(t)
  BY <1>0, TimerFiresFades
<1>2. OthersRest(s) /\ UNCHANGED op
  BY <1>0, TimerFiresDoes
<1>3. /\ svc'[s].state = svc[s].state /\ svc'[s].command = svc[s].command
      /\ svc'[s].stopping = svc[s].stopping /\ svc'[s].generation = svc[s].generation
      /\ attempt[s].pc # "none" => attempt'[s].pc = attempt[s].pc
  BY <1>0, TimerFiresDoes DEF Looks, Tries
<1>4. RestartsRightly(s)'
  <2> SUFFICES ASSUME svc[s].state = "restart_wait", svc'[s].desired PROVE Awaited(s)'
    BY <1>3 DEF RestartsRightly, RestartOK, Awaited
  <2>1. svc[s].desired /\ Awaited(s) /\ svc[s].command = 0 /\ ~svc[s].stopping
    BY <1>1 DEF RestartsRightly, RestartOK, Fades
  <2>2. CASE svc[s].timer = svc[s].generation
    <3>1. ~TimerIsStale(s, svc[s].timer)
      BY <2>1, <2>2 DEF TimerIsStale
    <3>2. QED
      BY <1>0, <1>3, <2>2, <3>1, TimerIsRemembered DEF Awaited
  <2>3. CASE svc[s].timer # svc[s].generation
    BY <1>1, <1>2, <1>3, <2>1, <2>3 DEF Awaited, Fades
  <2>4. QED
    BY <2>2, <2>3
<1>5. QED
  BY <1>1, <1>2, <1>4, ServiceGoesOn

LEMMA ServiceRestarts ==
  ASSUME SupervisorIsSound, RestartOK, NEW s \in Services, ServiceSteps(s)
  PROVE  RestartOK'
<1>0. Shapes /\ SettledOK /\ AttemptsOK /\ WatchOK /\ RestartsRightly(s)
  BY DEF SupervisorIsSound, RestartOK
<1>1. CASE PortsOccupied(s)
  <2>1. svc'[s].state = "conflict" /\ OthersRest(s) /\ UNCHANGED op
    BY <1>0, <1>1, PortsOccupiedDoes DEF Looks
  <2>2. QED
    BY <1>0, <1>1, <2>1, PortsOccupiedFades, ServiceGoesOn DEF RestartsRightly
<1>2. CASE Spawn(s)
  <2>1. /\ svc'[s].state = "starting" /\ attempt'[s].pc = "lease"
        /\ OthersRest(s) /\ UNCHANGED op
    BY <1>0, <1>2, SpawnDoes DEF Looks, Tries
  <2>2. SettledOK'
    BY <1>0, <2>1 DEF SettledOK, OthersRest
  <2>3. QED
    BY <2>1, <2>2, OthersGoOn DEF RestartOK, RestartsRightly
<1>3. CASE StartEnds(s)
  <2>1. /\ OthersRest(s) /\ UNCHANGED op /\ attempt[s].pc = "probing"
        /\ svc'[s] = svc[s] \/ svc'[s].state = "healthy"
        /\ attempt'[s].pc = "settled"
    BY <1>0, <1>3, StartAnsweredDoes, StartTimesOutDoes DEF StartEnds, Looks, Tries
  <2>2. Fades(s)
    BY <1>0, <1>3, StartEndsFades
  <2>3. RestartsRightly(s)'
    BY <1>0, <2>1, <2>2 DEF RestartsRightly, Awaited, Fades
  <2>4. QED
    BY <1>0, <1>3, <2>1, <2>3, StartEndsFades, ServiceGoesOn
<1>4. CASE MonitorProbes(s)
  <2>1. OthersRest(s) /\ UNCHANGED op /\ svc[s].command # 0 /\ svc'[s].state = svc[s].state
    BY <1>0, <1>4, MonitorProbesDoes DEF Looks
  <2>2. RestartsRightly(s)'
    BY <1>0, <2>1 DEF RestartsRightly
  <2>3. QED
    BY <1>0, <1>4, <2>1, <2>2, MonitorFades, ServiceGoesOn
<1>5. ASSUME NEW healthy \in BOOLEAN, MonitorAnswered(s, healthy) PROVE RestartOK'
  <2>1. OthersRest(s) /\ UNCHANGED op /\ attempt'[s] = attempt[s] /\ svc[s].probe # 0
    BY <1>0, <1>5, MonitorAnsweredDoes
  <2>2. \A t \in Services : Fades(t)
    BY <1>0, <1>5, MonitorFades
  <2>3. RestartsRightly(s)'
    <3>1. CASE ProbeIsStale(s)
      <4>1. /\ svc'[s].state = svc[s].state /\ svc'[s].command = svc[s].command
            /\ svc'[s].stopping = svc[s].stopping /\ svc'[s].generation = svc[s].generation
            /\ svc'[s].timer = svc[s].timer
        BY <1>0, <1>5, <3>1, MonitorAnsweredDoes DEF Looks
      <4>2. QED
        BY <1>0, <2>1, <2>2, <4>1 DEF RestartsRightly, Awaited, Fades
    <3>2. CASE ~ProbeIsStale(s)
      <4>1. svc[s].command # 0
        BY <2>1, <3>2 DEF ProbeIsStale
      <4>2. svc'[s].state \in { "healthy", "degraded", svc[s].state }
        BY <1>0, <1>5, <3>2, MonitorAnsweredDoes DEF Looks
      <4>3. QED
        BY <1>0, <4>1, <4>2 DEF RestartsRightly
    <3>3. QED
      BY <3>1, <3>2
  <2>4. QED
    BY <2>1, <2>2, <2>3, ServiceGoesOn
<1>6. QED
  BY <1>1, <1>2, <1>3, <1>4, <1>5, TimerFiresRestarts DEF ServiceSteps, PortsChecked

LEMMA OpNextRestarts ==
  ASSUME SupervisorIsSound, RestartOK, OpNext
  PROVE  RestartOK'
<1>0. Shapes /\ SettledOK /\ op \in Operations /\ op.pc = "next"
  BY DEF SupervisorIsSound, RestartOK, Shapes, OpNext
<1>1. \A t \in Services : Fades(t)
  BY <1>0, OpNextFades
<1>2. CASE StopNext
  <2>1. op.stops # {} /\ op.stops \in SUBSET Services
    BY <1>0, <1>2 DEF StopNext, Operations
  <2>2. PICK s \in Services : s = LastOf(op.stops)
    BY <2>1, EndsOfAPlan
  <2>3. OthersRest(s)
    BY <1>0, <1>2, <2>1, <2>2, StopNextDoes
  <2>4. RestartsRightly(s)'
    <3>1. CASE svc[s].command # 0
      BY <1>0, <1>2, <2>1, <2>2, <3>1, StopNextDoes DEF Looks, RestartsRightly
    <3>2. CASE svc[s].command = 0 /\ svc[s].state \in { "stopped", "conflict" }
      BY <1>0, <1>2, <2>1, <2>2, <3>2, StopNextDoes DEF Looks, RestartsRightly
    <3>3. CASE svc[s].command = 0 /\ svc[s].state \notin { "stopped", "conflict" }
      <4>1. /\ svc'[s].state = svc[s].state /\ svc'[s].command = 0
            /\ svc'[s].stopping = svc[s].stopping
        BY <1>0, <1>2, <2>1, <2>2, <3>3, StopNextDoes DEF Looks
      <4>2. op'.pc = "quiet" /\ op'.at = s
        BY <1>0, <1>2, <2>2, <3>3 DEF StopNext, Operations
      <4>3. QED
        BY <4>1, <4>2 DEF RestartsRightly, RestartOK, Awaited
    <3>4. QED
      BY <3>1, <3>2, <3>3
  <2>5. QED
    BY <1>0, <1>1, <2>3, <2>4, ServiceGoesOn
<1>3. CASE StartNext
  <2>1. PICK s \in Services : s = FirstOf(op.starts)
    BY <1>0, <1>3, EndsOfAPlan DEF StartNext, Operations
  <2>2. attempt[s] \in Attempts
    BY <1>0 DEF Shapes
  <2> DEFINE n == [ NoAttempt EXCEPT !.pc = "begin", !.timers = {} ]
             a == [ attempt[s] EXCEPT !.timers = @ \cup {} ]
  <2>3. svc' = svc /\ attempt' = [ attempt EXCEPT ![s] = IF attempt[s].pc = "none" THEN n ELSE a ]
    BY <1>3, <2>1 DEF StartNext, StartSingle, Shapes
  <2>4. n.pc = "begin" /\ a.pc = attempt[s].pc
    BY <2>2 DEF NoAttempt, Attempts
  <2> HIDE DEF n, a
  <2>5. ASSUME NEW t \in Services PROVE RestartsRightly(t)'
    <3>1. attempt'[t].pc = attempt[t].pc \/ attempt'[t].pc = "begin"
      BY <1>0, <2>3, <2>4 DEF Shapes
    <3>2. attempt[t].pc # "none" => attempt[t].timers \subseteq attempt'[t].timers
      BY <1>1 DEF Fades
    <3>3. QED
      BY <1>0, <2>3, <3>1, <3>2 DEF RestartsRightly, RestartOK, Awaited
  <2>6. QED
    BY <1>0, <1>1, <2>5, FadesKeepsSettled DEF RestartOK
<1>4. CASE Succeeded
  <2>1. UNCHANGED << svc, attempt >>
    BY <1>4 DEF Succeeded
  <2>2. QED
    BY <1>0, <2>1 DEF RestartOK, SettledOK, RestartsRightly, Awaited
<1>5. QED
  BY <1>2, <1>3, <1>4 DEF OpNext

LEMMA OperationRestarts ==
  ASSUME SupervisorIsSound, RestartOK, ~Due, OperationSteps
  PROVE  RestartOK'
<1>0. Shapes /\ SettledOK /\ op \in Operations
  BY DEF SupervisorIsSound, RestartOK, Shapes
<1>1. \A t \in Services : Fades(t)
  BY <1>0, OperationFades
<1>2. CASE HookEnds
  <2>1. UNCHANGED << svc, attempt >> /\ op.pc = "hook"
    BY <1>2 DEF HookEnds
  <2>2. QED
    BY <1>0, <2>1 DEF RestartOK, SettledOK, RestartsRightly, Awaited
<1>3. CASE ~HookEnds
  <2>1. op.pc \in { "quiet", "closing", "released" }
    BY <1>3 DEF OperationSteps, QuietEnds, CloseTimesOut, PortsReleased, PortsStillTaken
  <2>2. PICK s \in Services : s = op.at
    BY <1>0, <2>1 DEF SupervisorIsSound, OperationOK, Operations
  <2>3. OthersRest(s) /\ svc'[s].state \in { "conflict", "stopped", "failed" }
    BY <1>0, <1>3, <2>2, QuietEndsDoes, CloseTimesOutDoes, PortsReleasedDoes, PortsStillTakenDoes
       DEF OperationSteps, Looks
  <2>4. QED
    BY <1>1, <2>2, <2>3, ServiceGoesOn DEF RestartsRightly
<1>4. QED
  BY <1>2, <1>3

LEMMA RequestRestarts ==
  ASSUME SupervisorIsSound, RestartOK, ~Due, Request
  PROVE  RestartOK'
<1>0. Shapes /\ SettledOK
  BY DEF SupervisorIsSound, RestartOK
<1>1. \A t \in Services : Fades(t)
  BY <1>0, OperationFades
<1>2. op.pc = "idle" /\ attempt' = attempt
  BY DEF Request, StartTarget, StopTarget, RestartTarget, Execute
<1>3. ASSUME NEW t \in Services PROVE RestartsRightly(t)'
  <2>1. svc'[t] \in { svc[t], [ svc[t] EXCEPT !.desired = FALSE ] } /\ svc[t] \in Records
    BY <1>0 DEF Request, StartTarget, StopTarget, RestartTarget, Shapes
  <2>2. svc'[t] = svc[t]
        \/ /\ ~svc'[t].desired /\ svc'[t].state = svc[t].state
           /\ svc'[t].command = svc[t].command /\ svc'[t].stopping = svc[t].stopping
    BY <2>1 DEF Records
  <2>3. QED
    BY <1>2, <2>2 DEF RestartsRightly, RestartOK, Awaited
<1>4. QED
  BY <1>0, <1>1, <1>3, FadesKeepsSettled DEF RestartOK

LEMMA WrittenRestarts ==
  ASSUME SupervisorIsSound, RestartOK, LeasesWritten
  PROVE  RestartOK'
<1>0. Shapes /\ SettledOK
  BY DEF SupervisorIsSound, RestartOK
<1>1. \A t \in Services : Fades(t)
  BY <1>0, WrittenFades
<1>2. Shifts /\ Head(lease.queue) \in Entries
  BY <1>0, WrittenDoes
<1>3. PICK s \in Services : s = Head(lease.queue).of
  BY <1>2 DEF Entries
<1>4. Head(lease.queue).gen \in Nat /\ Head(lease.queue).by \in { "attempt", "close", "stop" }
  BY <1>2 DEF Entries
<1>5. CASE Head(lease.queue).by = "attempt"
  <2>1. /\ OthersRest(s) /\ UNCHANGED op /\ svc'[s] = svc[s]
        /\ attempt'[s].pc \in { "probing", "settled" }
    BY <1>0, <1>3, <1>5, AttemptIsWritten DEF Tries
  <2>2. attempt[s].pc = "lease"
    BY <1>2, <1>3, <1>5 DEF SupervisorIsSound, LeasesOK, Shifts
  <2>3. RestartsRightly(s)'
    BY <1>1, <2>1, <2>2 DEF RestartsRightly, RestartOK, Awaited, Fades
  <2>4. QED
    BY <1>1, <2>1, <2>3, ServiceGoesOn
<1>6. CASE Head(lease.queue).by = "close"
  <2>1. OthersRest(s) /\ UNCHANGED op /\ attempt'[s] = attempt[s]
    BY <1>0, <1>3, <1>4, <1>6, CloseIsHandled
  <2>2. \/ svc'[s] = svc[s]
        \/ svc'[s].state \in { "stopped", "failed" }
        \/ /\ svc[s].generation = Head(lease.queue).gen /\ svc[s].command = 0 /\ ~svc[s].stopping
           /\ svc'[s].generation = svc[s].generation /\ svc'[s].command = svc[s].command
           /\ svc'[s].stopping = svc[s].stopping /\ svc'[s].timer = Head(lease.queue).gen
    BY <1>0, <1>3, <1>4, <1>6, CloseIsHandled DEF Looks, CloseIsStale
  <2>3. RestartsRightly(s)'
    BY <2>1, <2>2 DEF RestartsRightly, RestartOK, Awaited
  <2>4. QED
    BY <1>1, <2>1, <2>3, ServiceGoesOn
<1>7. CASE Head(lease.queue).by = "stop"
  <2>1. UNCHANGED << svc, attempt >>
    BY <1>7 DEF LeasesWritten
  <2>2. op.pc = "lease"
    BY <1>2, <1>7 DEF SupervisorIsSound, OperationOK, Shifts
  <2>3. QED
    BY <1>0, <2>1, <2>2 DEF RestartOK, SettledOK, RestartsRightly, Awaited
<1>8. QED
  BY <1>4, <1>5, <1>6, <1>7

LEMMA HostRestarts ==
  ASSUME SupervisorIsSound, RestartOK, ~Due, Host
  PROVE  RestartOK'
<1>0. Shapes /\ SettledOK
  BY DEF SupervisorIsSound, RestartOK
<1>1. CASE \E s \in Services : PortTaken(s) \/ PortLeft(s)
  <2>1. UNCHANGED << svc, attempt, op >>
    BY <1>1 DEF PortTaken, PortLeft, memory
  <2>2. QED
    BY <2>1 DEF RestartOK, SettledOK, RestartsRightly, Awaited
<1>2. ASSUME NEW s \in Services, NEW g \in alive[s], Closes(s, g) PROVE RestartOK'
  <2>1. \A t \in Services : Fades(t)
    BY <1>0, <1>2, ClosesFades
  <2>2. g # 0
    BY <1>0 DEF Shapes
  <2>3. /\ OthersRest(s) /\ attempt'[s] = attempt[s]
        /\ svc'[s] = svc[s] \/ (svc[s].command # 0 /\ svc'[s].state = svc[s].state)
    BY <1>0, <1>2, <2>2, ClosesDoes DEF Looks
  <2>4. op.pc = "quiet" => op' = op
    BY <1>2 DEF Closes
  <2>5. RestartsRightly(s)'
    BY <2>3, <2>4 DEF RestartsRightly, RestartOK, Awaited
  <2>6. QED
    BY <2>1, <2>3, <2>4, <2>5, ServiceGoesOn
<1>3. CASE Crash
  <2>1. \A t \in Services : svc'[t].state = "stopped" /\ attempt'[t].pc = "none"
    <3> TAKE t \in Services
    <3>1. svc'[t] = Fresh(svc[t].generation) /\ attempt'[t] = NoAttempt
      BY <1>3 DEF Crash
    <3>2. QED
      BY <3>1 DEF Fresh, NoAttempt
  <2>2. QED
    BY <2>1 DEF RestartOK, SettledOK, RestartsRightly
<1>4. QED
  BY <1>1, <1>2, <1>3 DEF Host

LEMMA BootRestarts ==
  ASSUME SupervisorIsSound, RestartOK, Boot
  PROVE  RestartOK'
<1>1. ~up /\ DownOK /\ UNCHANGED << attempt, op >>
  BY DEF SupervisorIsSound, Boot
<1>2. ASSUME NEW t \in Services
      PROVE  svc'[t].state # "restart_wait" /\ attempt'[t].pc = "none"
  <2>1. svc[t] = Fresh(svc[t].generation) /\ attempt'[t] = NoAttempt
    BY <1>1 DEF DownOK
  <2>2. svc[t].state = "stopped"
    BY <2>1 DEF Fresh
  <2>3. svc[t] \in Records
    BY DEF SupervisorIsSound, Shapes
  <2>4. svc'[t] \in { svc[t], [ svc[t] EXCEPT !.state = "conflict", !.conflict = "unverified_lease" ] }
    BY DEF Boot, RecoversNothing, RecoversLeases
  <2>5. svc'[t].state \in { "stopped", "conflict" }
    BY <2>2, <2>3, <2>4 DEF Records
  <2>6. attempt'[t].pc = "none"
    BY <2>1 DEF NoAttempt
  <2>7. QED
    BY <2>5, <2>6
<1>3. QED
  BY <1>2 DEF RestartOK, SettledOK, RestartsRightly

LEMMA InitRestarts == InitSupervisor => RestartOK
BY DEF InitSupervisor, RestartOK, SettledOK, RestartsRightly, Fresh, NoAttempt

LEMMA StepRestarts ==
  SupervisorIsSound /\ RestartOK /\ [NextSupervisor]_supVars => RestartOK'
<1> SUFFICES ASSUME SupervisorIsSound, RestartOK, [NextSupervisor]_supVars PROVE RestartOK'
  OBVIOUS
<1>1. CASE UNCHANGED supVars
  BY <1>1 DEF supVars, memory, RestartOK, SettledOK, RestartsRightly, Awaited
<1>2. CASE Callback
  BY <1>2, BeginRestarts, NextDependencyRestarts, SettleRestarts, OpNextRestarts DEF Callback
<1>3. CASE ~Due /\ Event
  BY <1>3, RequestRestarts, OperationRestarts, WrittenRestarts, ServiceRestarts DEF Event
<1>4. QED
  BY <1>1, <1>2, <1>3, HostRestarts, BootRestarts DEF NextSupervisor

(* A service shown as waiting for its restart is restarted, stopped or given *)
(* up: no close, stop, start or timer in between leaves it waiting for       *)
(* nobody (scheduleRestart, startSingle, stopSingle).                        *)
THEOREM RestartsAreComing == SpecSupervisor => []RestartIsComing
<1>1. SupervisorIsSound /\ RestartOK => RestartIsComing
  BY DEF SupervisorIsSound, OperationOK, RestartOK, RestartsRightly, Awaited, RestartIsComing
<1>2. SpecSupervisor => []RestartOK
  BY InitRestarts, StepRestarts, SupervisorAlwaysSound, PTL DEF SpecSupervisor
<1>3. QED
  BY <1>1, <1>2, SupervisorAlwaysSound, PTL
=============================================================================
