---------------------------- MODULE RunStreamProofs ----------------------------
(***************************************************************************)
(* Proofs about RunStream, for any set of messages and inputs and any       *)
(* bounds: who waits for a snapshot gets one, a closed run rests, a message *)
(* shown as ended stays, and the screen agrees with the server at rest.     *)
(*                                                                          *)
(* The invariant StreamInv has two halves.  Base is what holds of the server *)
(* and the connection whatever the client does; the rest says how what the  *)
(* client shows, has buffered and is about to be sent relates to the rows   *)
(* and to the streams there were.                                           *)
(* Parts 1 to 3 are about the client: replaying and delivering messages,    *)
(* one message, a world that grows.  Part 4: the delivery slots.  Part 5:   *)
(* the two chains and the fence, Base after every action.  Parts 6 to 8:    *)
(* the world grows, every action keeps the screen right, the theorems.      *)
(***************************************************************************)
EXTENDS RunStream, FiniteSetTheorems, WellFoundedInduction, TLAPS

Versions == [status : { "none", "running", "completed", "input" }, body : Nat]
Cursors == [version : Versions, sequence : Nat \cup { -1 }]
Views == [Items -> Cursors]
Captures == [id : Int, live : Views]
Updates == [kind : { "item", "delta" }, stream : Nat, item : Items, version : Versions,
            sequence : Nat]
Holes == [kind : { "push hole", "reply hole" }]
Snapshots == [kind : { "push", "reply" }, stream : Int, items : Views]
Clients == [stream : Int, items : Views, ready : BOOLEAN, pending : Seq(Updates),
            sync : { "none", "first", "second" }, asks : BOOLEAN,
            error : { "none", "lost", "inconsistent" }]
Ops == [kind : { "read", "start", "delta", "end", "project" }, item : Items \cup { None },
        version : Versions, captured : Captures, dead : BOOLEAN]
StateOps == [op : { "open", "close" }, to : { "running", "completed", "cancelled", "waiting" },
             by : { "executor", "cancel" }, stage : { "queued", "draining", "installed" },
             awaits : Nat]
Fences == [closed : BOOLEAN, pending : Int, committed : BOOLEAN]
Execs == [pc : { "idle", "opening", "writing", "closing" }, message : Messages \cup { None },
          body : Nat, writing : BOOLEAN]
Connections == [open : BOOLEAN, subscribed : BOOLEAN, slots : Seq(Updates \cup Holes),
                capturing : BOOLEAN]
Counts == [segments : Nat, events : Nat, closes : Nat]

BaseTypeOK ==
  /\ row \in [Items -> Versions]
  /\ runStatus \in { "queued", "running", "waiting", "interrupted", "completed", "cancelled" }
  /\ stream \in Captures /\ streams \in Nat /\ fence \in Fences
  /\ itemQueue \in Seq(Ops) /\ stateQueue \in Seq(StateOps)
  /\ exec \in Execs /\ moved \in SUBSET Inputs
  /\ conn \in Connections /\ count \in Counts
  /\ conn.slots = << >> \/ IsHole(conn.slots[1])

StreamTypeOK == BaseTypeOK /\ client \in Clients

-------------------------------------------------------------------------------
(* The operations of the state queue, the fence and the executor. *)
FenceOK ==
  /\ fence.closed <=> fence.committed \/ fence.pending > 0
  /\ Len(stateQueue) = fence.pending + (IF exec.pc = "opening" THEN 1 ELSE 0)
  /\ exec.pc = "opening" => \E k \in DOMAIN stateQueue : stateQueue[k].op = "open"
  /\ \A k \in DOMAIN stateQueue :
       /\ stateQueue[k].op = "open" =>
            stateQueue[k].by = "executor" /\ stateQueue[k].stage = "queued" /\ exec.pc = "opening"
       /\ stateQueue[k].op = "close" /\ stateQueue[k].by = "executor" => exec.pc = "closing"
       /\ k > 1 => stateQueue[k].stage = "queued"
  /\ \A j, k \in DOMAIN stateQueue :
       stateQueue[j].by = "executor" /\ stateQueue[k].by = "executor" => j = k

MessageOps == { "start", "delta", "end" }

WriteOK(op) ==
  /\ op.kind \in MessageOps => op.item \in Messages /\ exec.writing
  /\ op.kind = "project" => op.item \in Inputs
  /\ op.kind = "start" => /\ op.item = exec.message /\ op.version = Running(0)
                          /\ row[op.item] = IF op.captured.id = 0 THEN Absent ELSE Running(0)
  /\ op.kind = "delta" => /\ op.item = exec.message /\ op.version.status = "running"
                          /\ row[op.item].status = "running"
                          /\ stream.live[op.item].sequence >= 0
  /\ op.kind = "end" => /\ exec.message = None /\ op.version.status = "completed"
                        /\ IF op.captured.id = 0 THEN row[op.item].status = "running"
                                                 ELSE row[op.item] = op.version

WritersOK ==
  /\ \A k \in DOMAIN itemQueue :
       /\ WriteOK(itemQueue[k])
       /\ itemQueue[k].captured.id # 0 => k = 1 /\ itemQueue[k].kind \in { "read", "start", "end" }
       /\ itemQueue[k].captured.id = 0 => itemQueue[k].captured.live = NoItems
  /\ \A j, k \in DOMAIN itemQueue :
       itemQueue[j].kind \in MessageOps /\ itemQueue[k].kind \in MessageOps => j = k
  /\ exec.writing => exec.pc = "writing"
  /\ exec.pc = "opening" => exec.message = None
  /\ exec.pc = "writing" /\ ~exec.writing /\ exec.message # None =>
       /\ row[exec.message].status = "running"
       /\ fence.closed \/ stream.live[exec.message].sequence >= 0

OnlyReads == \A k \in DOMAIN itemQueue : itemQueue[k].kind = "read"
QuietOK ==
  /\ stateQueue # << >> /\ stateQueue[1].stage = "draining" =>
       /\ stateQueue[1].awaits <= Len(itemQueue)
       /\ \A k \in DOMAIN itemQueue : k > stateQueue[1].awaits => itemQueue[k].kind = "read"
  /\ (\/ stateQueue # << >> /\ stateQueue[1].stage = "installed"
      \/ fence.committed
      \/ runStatus \in Terminal)
     => OnlyReads /\ stream.live = NoItems
  /\ runStatus \in Terminal /\ ~fence.closed => exec.pc = "idle" /\ moved = {}

(* The live stream and the rows: the end of a message is saved first, and    *)
(* published into the stream that was found then, which is the run's still.  *)
Persisted(i) == /\ itemQueue # << >> /\ Current.item = i
                /\ Current.kind \in { "start", "end" } /\ Current.captured.id # 0
StreamOK ==
  /\ stream.id \in 0..streams
  /\ stream.id = 0 => stream.live = NoItems
  /\ \A m \in Messages :
       /\ stream.live[m].version.status = "completed" => stream.live[m].version = row[m]
       /\ row[m].status = "completed" =>
            stream.live[m].sequence = -1 \/ stream.live[m].version = row[m] \/ Persisted(m)
       /\ Persisted(m) => Current.captured = stream

-------------------------------------------------------------------------------
(* What the client knows, against a world: a live stream, how many streams   *)
(* there were, and the rows.                                                 *)
Worlds == [stream : Captures, last : Nat, row : [Items -> Versions]]
World == [stream |-> stream, last |-> streams, row |-> row]

UpdateOK(m, w) ==
  /\ m.stream \in 1..w.last
  /\ m.stream = w.stream.id => m.sequence <= w.stream.live[m.item].sequence
  /\ m.item \in Messages => \/ m.version.status = "running"
                            \/ m.version.status = "completed" /\ m.version = w.row[m.item]

Within(x, i, id, w) ==
  id <= 0 \/ id = w.stream.id =>
    \/ x.sequence = -1
    \/ x.sequence = 0 /\ w.row[i] # Absent
    \/ id > 0 /\ x.sequence <= w.stream.live[i].sequence

ViewOK(items, id, w, ends) ==
  /\ id <= w.last
  /\ \A i \in Items : Within(items[i], i, id, w)
  /\ \A m \in Messages : items[m].version.status = "completed" => items[m].version = w.row[m]
  /\ \A m \in ends : items[m].version = w.row[m]

ClientOK(c, w, ends) ==
  /\ c \in Clients
  /\ ViewOK(c.items, c.stream, w, ends)
  /\ \A k \in DOMAIN c.pending : UpdateOK(c.pending[k], w)
  /\ c.sync = "none" => c.ready

EndedIn(saved) == { m \in Messages : saved[m].status = "completed" }

-------------------------------------------------------------------------------
(* The connection. *)
LiveRead(op) == op.kind = "read" /\ ~op.dead
ConnectionOK ==
  /\ conn.capturing <=> conn.slots # << >>
  /\ conn.slots # << >> => conn.subscribed
  /\ conn.subscribed => conn.open

SlotsOK ==
  /\ conn.open /\ ~conn.subscribed => client.sync # "none"
  /\ \A k \in DOMAIN conn.slots : IsHole(conn.slots[k]) \/ UpdateOK(conn.slots[k], World)

ReadsOK ==
  /\ conn.capturing <=> \E k \in DOMAIN itemQueue : LiveRead(itemQueue[k])
  /\ \A j, k \in DOMAIN itemQueue : LiveRead(itemQueue[j]) /\ LiveRead(itemQueue[k]) => j = k

ServedOK == client.sync # "none" =>
  conn.open /\ (client.asks \/ \E k \in DOMAIN conn.slots : conn.slots[k] = HoleFor("reply hole"))

(* What holds whatever the client does. *)
Base == /\ BaseTypeOK /\ FenceOK /\ WritersOK /\ QuietOK /\ StreamOK
        /\ ConnectionOK /\ ReadsOK

HoleBehind == \E h \in DOMAIN conn.slots : h > 1 /\ IsHole(conn.slots[h])
CapturedOK(cap) ==
  /\ cap.id <= streams
  /\ cap.id < 0 => cap.live = NoItems
  /\ cap.id = stream.id => cap.live = stream.live
  /\ \A m \in Messages :
       /\ cap.live[m].version.status = "completed" => cap.live[m].version = row[m]
       /\ row[m].status = "completed" => cap.live[m].sequence = -1 \/ cap.live[m].version = row[m]
  /\ \/ cap.id = stream.id
     \/ stream.id = 0 /\ runStatus \in Terminal /\ cap.id < 0
     \/ HoleBehind
CaptureOK == \A k \in DOMAIN itemQueue :
  LiveRead(itemQueue[k]) /\ itemQueue[k].captured.id # 0 => CapturedOK(itemQueue[k].captured)

ShownOK(i) ==
  IF stream.live[i].sequence >= 0 THEN client.items[i] = stream.live[i]
  ELSE \/ client.items[i].version = row[i]
       \/ i \in moved
       \/ i \in Inputs /\ fence.closed
       \/ Persisted(i)
Synchronous == conn.open /\ conn.slots = << >> /\ client.sync = "none" /\ client.error = "none"
ScreenOK == Synchronous =>
  /\ IF stream.id = 0 THEN runStatus \in Terminal ELSE client.stream = stream.id
  /\ \A i \in Items : ShownOK(i)

ScreenInv == ClientOK(client, World, {})

-------------------------------------------------------------------------------
(* Numbers: least elements, and counting up.                                 *)
LEMMA LeastExists ==
  ASSUME NEW S \in SUBSET Nat, S # {}
  PROVE  Min(S) \in S /\ \A y \in S : Min(S) <= y
<1> DEFINE R == OpToRel(<, Nat)
<1>1. IsWellFoundedOn(R, Nat)
  BY NatLessThanWellFounded
<1>2. \A x, y \in Nat : x < y => << x, y >> \in R
  <2> TAKE x, y \in Nat
  <2> HAVE x < y
  <2>1. R = { ss \in Nat \X Nat : ss[1] < ss[2] }
    BY Zenon DEF OpToRel
  <2>2. QED
    BY <2>1
<1> HIDE DEF R
<1>3. PICK x \in S : \A y \in S : ~(<<y, x>> \in R)
  BY <1>1, WFMin, Zenon
<1>4. \A y \in S : x <= y
  <2> TAKE y \in S
  <2>1. x \in Nat /\ y \in Nat
    OBVIOUS
  <2>2. ~(y < x)
    BY <1>2, <1>3, <2>1
  <2>3. QED
    BY <2>1, <2>2
<1>5. QED
  BY <1>3, <1>4, Zenon DEF Min

LEMMA CountsUp ==
  ASSUME NEW m \in Nat, NEW S, 0 \in S, \A k \in 0..m : k < m /\ k \in S => k + 1 \in S
  PROVE  0..m \subseteq S
<1> DEFINE Missed == (0..m) \ S
<1> SUFFICES ASSUME Missed # {} PROVE FALSE
  OBVIOUS
<1>1. Missed \in SUBSET Nat
  OBVIOUS
<1> DEFINE k == Min(Missed)
<1>2. k \in Missed /\ \A y \in Missed : k <= y
  <2> HIDE DEF Missed
  <2>1. QED
    BY <1>1, LeastExists
<1> HIDE DEF k
<1>3. k \in 0..m /\ k \notin S /\ k # 0
  BY <1>2
<1>4. k - 1 \in 0..m /\ k - 1 < m /\ k - 1 \notin Missed
  BY <1>2, <1>3
<1>5. k - 1 \in S
  BY <1>4
<1>6. QED
  BY <1>3, <1>4, <1>5

-------------------------------------------------------------------------------
(* Part 1.  What delivering a sequence of messages, and replaying a buffer,  *)
(* preserve: a set of clients no message leads out of is not left.           *)
LEMMA DeliveryExists ==
  ASSUME NEW c, NEW messages, Len(messages) \in Nat
  PROVE  \E f : /\ f = [k \in 0..Len(messages) |->
                          IF k = 0 THEN c ELSE Receives(f[k - 1], messages[k])]
                /\ Delivered(c, messages) = f[Len(messages)]
<1> DEFINE n == Len(messages)
           Steps(f, m) == f = [k \in 0..m |-> IF k = 0 THEN c ELSE Receives(f[k - 1], messages[k])]
           S == { m \in Nat : \E f : Steps(f, m) }
<1>1. 0 \in S
  <2>1. Steps([k \in 0..0 |-> c], 0)
    OBVIOUS
  <2>2. QED
    BY <2>1
<1>2. ASSUME NEW m \in 0..n, m \in S PROVE m + 1 \in S
  <2>1. PICK f : Steps(f, m)
    BY <1>2
  <2> DEFINE h == [k \in 0..(m + 1) |-> IF k = 0 THEN c ELSE Receives(f[k - 1], messages[k])]
  <2>2. \A k \in 0..m : h[k] = f[k]
    BY <2>1
  <2>3. \A k \in 0..(m + 1) : k # 0 => k - 1 \in 0..m
    OBVIOUS
  <2>4. Steps(h, m + 1)
    BY <2>2, <2>3
  <2>5. \E g : Steps(g, m + 1)
    BY <2>4
  <2>6. m + 1 \in Nat
    OBVIOUS
  <2> HIDE DEF Steps
  <2>7. QED
    BY <2>5, <2>6
<1>3. n \in S
  <2> HIDE DEF S
  <2>1. n \in Nat /\ n \in 0..n
    OBVIOUS
  <2>2. \A k \in 0..n : k < n /\ k \in S => k + 1 \in S
    BY <1>2
  <2> HIDE DEF n
  <2>3. QED
    BY <1>1, <2>1, <2>2, CountsUp
<1> DEFINE after[k \in 0..Len(messages)] ==
             IF k = 0 THEN c ELSE Receives(after[k - 1], messages[k])
<1>4. Delivered(c, messages) = after[Len(messages)]
  BY DEF Delivered
<1>5. PICK f : Steps(f, n)
  BY <1>3
<1>6. after = [k \in 0..Len(messages) |-> IF k = 0 THEN c ELSE Receives(after[k - 1], messages[k])]
  BY <1>5, Zenon
<1> HIDE DEF after
<1>7. QED
  BY <1>4, <1>6

LEMMA DeliveredStays ==
  ASSUME NEW c, NEW messages, Len(messages) \in Nat, NEW j \in 0..Len(messages), j <= 1,
         NEW S, IF j = 0 THEN c \in S ELSE Receives(c, messages[1]) \in S,
         \A k \in 1..Len(messages) : k > j => \A d \in S : Receives(d, messages[k]) \in S
  PROVE  Delivered(c, messages) \in S
<1> DEFINE n == Len(messages)
<1>1. PICK f : /\ f = [k \in 0..n |-> IF k = 0 THEN c ELSE Receives(f[k - 1], messages[k])]
               /\ Delivered(c, messages) = f[n]
  BY DeliveryExists
<1>2. f[0] = c /\ \A k \in 1..n : f[k] = Receives(f[k - 1], messages[k])
  <2>1. 0 \in 0..n /\ \A k \in 1..n : k \in 0..n /\ k # 0
    OBVIOUS
  <2>2. \A k \in 0..n : f[k] = IF k = 0 THEN c ELSE Receives(f[k - 1], messages[k])
    BY <1>1, Zenon
  <2>3. QED
    BY <2>1, <2>2
<1> DEFINE T == { k \in Nat : k >= j => f[k] \in S }
<1>3. f[j] \in S
  <2>1. j = 0 \/ (j = 1 /\ 1 \in 1..n /\ 1 - 1 = 0)
    OBVIOUS
  <2>2. QED
    BY <1>2, <2>1
<1>4. 0 \in T
  BY <1>3
<1>5. ASSUME NEW k \in 0..n, k < n, k \in T PROVE k + 1 \in T
  <2>1. k + 1 \in 1..n /\ (k + 1) - 1 = k /\ k + 1 \in Nat
    BY <1>5
  <2>2. f[k + 1] = Receives(f[k], messages[k + 1])
    BY <1>2, <2>1
  <2>3. CASE k >= j
    <3>1. f[k] \in S /\ k + 1 > j
      BY <1>5, <2>3
    <3>2. f[k + 1] \in S
      BY <2>1, <2>2, <3>1
    <3>3. QED
      BY <2>1, <3>2
  <2>4. CASE ~(k >= j)
    <3>1. k + 1 > j \/ k + 1 = j
      BY <2>4
    <3>2. k + 1 = j
      BY <2>4
    <3>3. QED
      BY <1>3, <2>1, <3>2
  <2>5. QED
    BY <2>3, <2>4
<1>6. n \in Nat /\ n \in 0..n /\ n >= j
  OBVIOUS
<1>7. 0..n \subseteq T
  <2> HIDE DEF T, n
  <2>1. QED
    BY <1>4, <1>5, <1>6, CountsUp
<1>8. f[n] \in S
  BY <1>6, <1>7
<1>9. QED
  BY <1>1, <1>8

LEMMA DeliveredNone ==
  ASSUME NEW c
  PROVE  Delivered(c, << >>) = c
<1> DEFINE S == { c }
           none == << >>
<1>1. Len(none) = 0 /\ 0 \in 0..Len(none) /\ 0 <= 1 /\ Len(none) \in Nat /\ 1..Len(none) = {}
  OBVIOUS
<1>2. c \in S
  OBVIOUS
<1>3. Delivered(c, none) \in S
  <2> HIDE DEF S, none
  <2>1. QED
    BY <1>1, <1>2, DeliveredStays
<1>4. QED
  BY <1>3

LEMMA DeliveredOne ==
  ASSUME NEW c, NEW m
  PROVE  Delivered(c, << m >>) = Receives(c, m)
<1> DEFINE S == { Receives(c, m) }
           one == << m >>
<1>1. Len(one) = 1 /\ one[1] = m
  OBVIOUS
<1> HIDE DEF one
<1>2. Receives(c, one[1]) \in S
  BY <1>1
<1>3. \A k \in 1..Len(one) : k > 1 => \A d \in S : Receives(d, one[k]) \in S
  BY <1>1
<1>4. Len(one) \in Nat /\ 1 \in 0..Len(one) /\ 1 <= 1 /\ 1 # 0
  BY <1>1
<1>5. Delivered(c, one) \in S
  <2> HIDE DEF S
  <2>1. QED
    BY <1>2, <1>3, <1>4, DeliveredStays
<1>6. QED
  BY <1>5 DEF one

(* Replayed: the same, for the buffer of a client. *)
LEMMA ReplayStays ==
  ASSUME NEW c, NEW ok, Len(c.pending) \in Nat, NEW S,
         [ok |-> ok, view |-> [c EXCEPT !.ready = TRUE, !.pending = << >>]] \in S,
         \A k \in 1..Len(c.pending) : \A r \in S : Try(r, c.pending[k]) \in S
  PROVE  Replayed(c, ok) \in S
<1> DEFINE n == Len(c.pending)
           start == [ok |-> ok, view |-> [c EXCEPT !.ready = TRUE, !.pending = << >>]]
           Steps(f, m) == f = [k \in 0..m |-> IF k = 0 THEN start ELSE Try(f[k - 1], c.pending[k])]
           X == { m \in Nat : \E f : Steps(f, m) }
<1>1. 0 \in X
  <2>1. Steps([k \in 0..0 |-> start], 0)
    OBVIOUS
  <2>2. QED
    BY <2>1
<1>2. ASSUME NEW m \in 0..n, m \in X PROVE m + 1 \in X
  <2>1. PICK f : Steps(f, m)
    BY <1>2
  <2> HIDE DEF start
  <2> DEFINE h == [k \in 0..(m + 1) |-> IF k = 0 THEN start ELSE Try(f[k - 1], c.pending[k])]
  <2>2. \A k \in 0..m : h[k] = f[k]
    BY <2>1
  <2>3. \A k \in 0..(m + 1) : k # 0 => k - 1 \in 0..m
    OBVIOUS
  <2>4. Steps(h, m + 1)
    BY <2>2, <2>3
  <2>5. \E g : Steps(g, m + 1)
    BY <2>4
  <2>6. m + 1 \in Nat
    OBVIOUS
  <2> HIDE DEF Steps
  <2>7. QED
    BY <2>5, <2>6
<1>3. n \in X
  <2> HIDE DEF X
  <2>1. n \in Nat /\ n \in 0..n
    OBVIOUS
  <2>2. \A k \in 0..n : k < n /\ k \in X => k + 1 \in X
    BY <1>2
  <2> HIDE DEF n
  <2>3. QED
    BY <1>1, <2>1, <2>2, CountsUp
<1> DEFINE after[k \in 0..Len(c.pending)] ==
             IF k = 0
             THEN [ok |-> ok, view |-> [c EXCEPT !.ready = TRUE, !.pending = << >>]]
             ELSE Try(after[k - 1], c.pending[k])
<1>4. Replayed(c, ok) = after[Len(c.pending)]
  BY DEF Replayed
<1>5. PICK f : Steps(f, n)
  BY <1>3
<1>6. after = [k \in 0..n |-> IF k = 0 THEN start ELSE Try(after[k - 1], c.pending[k])]
  BY <1>5, Zenon
<1> HIDE DEF after
<1> DEFINE T == { k \in Nat : k <= n => after[k] \in S }
<1>7. start \in S /\ \A k \in 1..n : \A r \in S : Try(r, c.pending[k]) \in S
  OBVIOUS
<1> HIDE DEF start
<1>8. \A k \in 0..n : after[k] = IF k = 0 THEN start ELSE Try(after[k - 1], c.pending[k])
  BY <1>6, Zenon
<1>9. 0 \in T
  <2>1. 0 \in 0..n
    OBVIOUS
  <2>2. after[0] = start
    BY <2>1, <1>8
  <2>3. QED
    BY <1>7, <2>2
<1>10. ASSUME NEW k \in 0..n, k < n, k \in T PROVE k + 1 \in T
  <2>1. k + 1 \in 1..n /\ (k + 1) - 1 = k /\ k + 1 \in 0..n /\ k + 1 # 0 /\ k + 1 \in Nat
    BY <1>10
  <2>2. after[k + 1] = Try(after[k], c.pending[k + 1])
    BY <1>8, <2>1
  <2>3. after[k] \in S
    BY <1>10
  <2>4. after[k + 1] \in S
    BY <1>7, <2>1, <2>2, <2>3
  <2>5. QED
    BY <2>1, <2>4
<1>11. 0..n \subseteq T
  <2>1. n \in Nat
    OBVIOUS
  <2> HIDE DEF T, n
  <2>2. QED
    BY <1>9, <1>10, <2>1, CountsUp
<1>12. n \in 0..n
  OBVIOUS
<1>13. after[n] \in S
  BY <1>11, <1>12
<1>14. QED
  BY <1>4, <1>13

-------------------------------------------------------------------------------
(* Part 2.  What one message does to the client.                             *)
LEMMA UpdateApplies ==
  ASSUME NEW c \in Clients, NEW m \in Updates
  PROVE  /\ Applied(c, m) \in Clients
         /\ \A f \in { "stream", "ready", "pending", "sync", "asks", "error" } :
              Applied(c, m)[f] = c[f]
         /\ \/ Applied(c, m).items = c.items
            \/ /\ Follows(c, m) /\ m.sequence > c.items[m.item].sequence
               /\ Applied(c, m).items = [c.items EXCEPT ![m.item] =
                                           [version |-> m.version, sequence |-> m.sequence]]
<1> DEFINE x == [version |-> m.version, sequence |-> m.sequence]
           r == [c EXCEPT !.items[m.item] = x]
<1>1. m.item \in Items /\ x \in Cursors /\ c.items \in Views
  BY DEF Updates, Cursors, Clients
<1> HIDE DEF x
<1>2. [c.items EXCEPT ![m.item] = x] \in Views
  BY <1>1 DEF Views
<1>3. r.items = [c.items EXCEPT ![m.item] = x]
  BY DEF Clients
<1>4. /\ r.stream = c.stream /\ r.ready = c.ready /\ r.pending = c.pending
      /\ r.sync = c.sync /\ r.asks = c.asks /\ r.error = c.error
  BY DEF Clients
<1>5. r \in Clients
  BY <1>2 DEF Clients
<1>6. Applied(c, m) = c \/ (Follows(c, m) /\ m.sequence > c.items[m.item].sequence /\ Applied(c, m) = r)
  BY DEF Applied, x
<1> HIDE DEF r
<1>7. QED
  BY <1>3, <1>4, <1>5, <1>6 DEF x

(* An update that follows is of the client's stream; one with the client's   *)
(* cursor says what the client has, and an end is not undone by a chunk.     *)
LEMMA WhatFollows ==
  ASSUME NEW c \in Clients, NEW m \in Updates, Follows(c, m)
  PROVE  /\ m.stream = c.stream
         /\ m.sequence > c.items[m.item].sequence /\ c.items[m.item].version.status = "completed"
              => m.version.status # "running"
         /\ m.sequence = c.items[m.item].sequence =>
              IF m.kind = "item" THEN m.version = c.items[m.item].version
                                 ELSE m.version.body = c.items[m.item].version.body
<1>1. m.kind \in { "item", "delta" }
  BY DEF Updates
<1>2. CASE m.kind = "item"
  BY <1>2 DEF Follows, FollowsUpsert
<1>3. CASE m.kind = "delta"
  BY <1>3 DEF Follows, FollowsDelta
<1>4. QED
  BY <1>1, <1>2, <1>3

LEMMA UpdateKeepsView ==
  ASSUME NEW w \in Worlds, NEW ends \in SUBSET EndedIn(w.row),
         NEW c \in Clients, ViewOK(c.items, c.stream, w, ends),
         NEW m \in Updates, UpdateOK(m, w)
  PROVE  ViewOK(Applied(c, m).items, c.stream, w, ends)
<1> DEFINE x == [version |-> m.version, sequence |-> m.sequence]
           i == m.item
           new == Applied(c, m).items
<1>1. CASE new = c.items
  BY <1>1
<1>2. CASE /\ Follows(c, m) /\ m.sequence > c.items[i].sequence
           /\ new = [c.items EXCEPT ![i] = x]
  <2>1. i \in Items /\ c.items \in Views /\ m.sequence \in Nat /\ m.stream \in Nat
    BY DEF Updates, Clients
  <2>2. new[i] = x /\ \A j \in Items : j # i => new[j] = c.items[j]
    BY <1>2, <2>1 DEF Views
  <2>3. /\ m.stream = c.stream
        /\ c.items[i].version.status = "completed" => m.version.status # "running"
    BY <1>2, WhatFollows
  <2>4. c.stream > 0
    BY <2>1, <2>3 DEF UpdateOK
  <2>5. x.version = m.version /\ x.sequence = m.sequence
    OBVIOUS
  <2> HIDE DEF x, new
  <2>6. Within(x, i, c.stream, w)
    BY <2>1, <2>3, <2>4, <2>5 DEF UpdateOK, Within
  <2>7. i \in Messages /\ x.version.status = "completed" => x.version = w.row[i]
    BY <2>5 DEF UpdateOK
  <2>8. i \in ends => x.version = w.row[i]
    <3> SUFFICES ASSUME i \in ends PROVE x.version = w.row[i]
      OBVIOUS
    <3>1. i \in Messages /\ w.row[i].status = "completed"
      BY DEF EndedIn
    <3>2. c.items[i].version.status = "completed"
      BY <3>1 DEF ViewOK
    <3>3. m.version.status # "running"
      BY <2>3, <3>2
    <3>4. QED
      BY <2>5, <3>1, <3>3 DEF UpdateOK
  <2>9. \A j \in Items : Within(new[j], j, c.stream, w)
    BY <2>2, <2>6 DEF ViewOK
  <2>10. \A n \in Messages : new[n].version.status = "completed" => new[n].version = w.row[n]
    BY <2>2, <2>7 DEF ViewOK, Items
  <2>11. \A n \in ends : new[n].version = w.row[n]
    <3> TAKE n \in ends
    <3>1. n \in Items
      BY DEF EndedIn, Items
    <3>2. QED
      BY <2>2, <2>8, <3>1 DEF ViewOK
  <2>12. QED
    BY <2>9, <2>10, <2>11 DEF ViewOK, new
<1>3. QED
  BY <1>1, <1>2, UpdateApplies

Tries == [ok : BOOLEAN, view : Clients]
LEMMA ReplayKeeps ==
  ASSUME NEW w \in Worlds, NEW ends \in SUBSET EndedIn(w.row), NEW ok \in BOOLEAN,
         NEW c \in Clients, ViewOK(c.items, c.stream, w, ends),
         \A k \in DOMAIN c.pending : UpdateOK(c.pending[k], w)
  PROVE  LET r == Replayed(c, ok)
         IN /\ r \in Tries
            /\ ViewOK(r.view.items, c.stream, w, ends)
            /\ r.view.ready /\ r.view.pending = << >>
            /\ r.view.stream = c.stream /\ r.view.sync = c.sync /\ r.view.asks = c.asks
            /\ r.view.error = c.error
<1> DEFINE P(v) == /\ ViewOK(v.items, c.stream, w, ends)
                   /\ v.ready /\ v.pending = << >>
                   /\ v.stream = c.stream /\ v.sync = c.sync /\ v.asks = c.asks
                   /\ v.error = c.error
           S == { r \in Tries : P(r.view) }
           clear == [c EXCEPT !.ready = TRUE, !.pending = << >>]
<1>1. c.pending \in Seq(Updates) /\ Len(c.pending) \in Nat
  BY DEF Clients
<1>2. clear \in Clients /\ P(clear)
  <2>1. << >> \in Seq(Updates)
    OBVIOUS
  <2>2. clear \in Clients
    BY <2>1 DEF Clients
  <2>3. /\ clear.items = c.items /\ clear.ready = TRUE /\ clear.pending = << >>
        /\ clear.stream = c.stream /\ clear.sync = c.sync /\ clear.asks = c.asks
        /\ clear.error = c.error
    BY DEF Clients
  <2> HIDE DEF clear
  <2>4. QED
    BY <2>2, <2>3
<1>3. [ok |-> ok, view |-> clear] \in S
  <2> HIDE DEF clear, P
  <2>1. QED
    BY <1>2 DEF Tries
<1>4. ASSUME NEW k \in 1..Len(c.pending), NEW r \in S PROVE Try(r, c.pending[k]) \in S
  <2> DEFINE m == c.pending[k]
             v == r.view
  <2>1. m \in Updates /\ UpdateOK(m, w)
    BY <1>1
  <2>2. v \in Clients /\ P(v) /\ r.ok \in BOOLEAN
    BY DEF Tries
  <2>3. ViewOK(v.items, v.stream, w, ends)
    BY <2>2
  <2>4. ViewOK(Applied(v, m).items, v.stream, w, ends)
    BY <2>1, <2>2, <2>3, UpdateKeepsView
  <2>5. Applied(v, m) \in Clients
    BY <2>1, <2>2, UpdateApplies
  <2>6. \A f \in { "stream", "ready", "pending", "sync", "asks", "error" } : Applied(v, m)[f] = v[f]
    BY <2>1, <2>2, UpdateApplies
  <2>7. P(Applied(v, m))
    BY <2>2, <2>4, <2>6
  <2>8. (r.ok /\ Follows(v, m)) \in BOOLEAN
    BY DEF Follows, FollowsDelta, FollowsUpsert
  <2>9. Try(r, m) = [ok |-> (r.ok /\ Follows(v, m)), view |-> Applied(v, m)]
    BY DEF Try
  <2> HIDE DEF m, v, P
  <2>10. QED
    BY <2>5, <2>7, <2>8, <2>9 DEF Tries, m
<1>5. Replayed(c, ok) \in S
  <2> HIDE DEF S
  <2>1. QED
    BY <1>1, <1>3, <1>4, ReplayStays
<1>6. QED
  BY <1>5

(* A buffer with nothing newer than the view changes nothing.                *)
LEMMA ReplaySettles ==
  ASSUME NEW ok \in BOOLEAN, NEW c \in Clients,
         \A k \in DOMAIN c.pending : c.pending[k].stream = c.stream =>
           c.pending[k].sequence <= c.items[c.pending[k].item].sequence,
         Replayed(c, ok).ok
  PROVE  ok /\ Replayed(c, ok).view.items = c.items
<1> DEFINE P(r) == r.ok => ok /\ r.view.items = c.items /\ r.view.stream = c.stream
           S == { r \in Tries : P(r) }
           clear == [c EXCEPT !.ready = TRUE, !.pending = << >>]
<1>1. c.pending \in Seq(Updates) /\ Len(c.pending) \in Nat
  BY DEF Clients
<1>2. clear \in Clients /\ clear.items = c.items /\ clear.stream = c.stream
  <2>1. << >> \in Seq(Updates)
    OBVIOUS
  <2>2. QED
    BY <2>1 DEF Clients
<1>3. [ok |-> ok, view |-> clear] \in S
  <2> HIDE DEF clear
  <2>1. QED
    BY <1>2 DEF Tries
<1>4. ASSUME NEW k \in 1..Len(c.pending), NEW r \in S PROVE Try(r, c.pending[k]) \in S
  <2> DEFINE m == c.pending[k]
             v == r.view
  <2>1. m \in Updates /\ (m.stream = c.stream => m.sequence <= c.items[m.item].sequence)
    BY <1>1
  <2>2. v \in Clients /\ P(r) /\ r.ok \in BOOLEAN
    BY DEF Tries
  <2>3. Applied(v, m) \in Clients /\ Applied(v, m).stream = v.stream
    BY <2>1, <2>2, UpdateApplies
  <2>4. (r.ok /\ Follows(v, m)) \in BOOLEAN
    BY DEF Follows, FollowsDelta, FollowsUpsert
  <2>5. Try(r, m) = [ok |-> (r.ok /\ Follows(v, m)), view |-> Applied(v, m)]
    BY DEF Try
  <2>6. r.ok /\ Follows(v, m) => Applied(v, m).items = c.items /\ ok /\ v.stream = c.stream
    <3> SUFFICES ASSUME r.ok, Follows(v, m) PROVE Applied(v, m).items = c.items /\ ok /\ v.stream = c.stream
      OBVIOUS
    <3>1. v.items = c.items /\ v.stream = c.stream /\ ok
      BY <2>2
    <3>2. m.stream = c.stream
      BY <2>1, <2>2, <3>1, WhatFollows
    <3>3. m.sequence <= v.items[m.item].sequence
      BY <2>1, <3>1, <3>2
    <3>4. m.sequence \in Nat /\ v.items[m.item].sequence \in Int
      BY <2>1, <2>2 DEF Updates, Clients, Views, Cursors
    <3>5. Applied(v, m).items = v.items \/ m.sequence > v.items[m.item].sequence
      <4> HIDE DEF m, v
      <4>1. QED
        BY <2>1, <2>2, UpdateApplies
    <3>6. Applied(v, m).items = v.items
      <4> HIDE DEF m, v
      <4>1. QED
        BY <3>3, <3>4, <3>5
    <3>7. QED
      BY <3>1, <3>6
  <2> HIDE DEF m, v
  <2>7. Try(r, m) \in Tries
    BY <2>3, <2>4, <2>5 DEF Tries
  <2>8. Try(r, m).ok = (r.ok /\ Follows(v, m)) /\ Try(r, m).view = Applied(v, m)
    BY <2>5
  <2>9. P(Try(r, m))
    BY <2>3, <2>6, <2>8
  <2>10. QED
    BY <2>7, <2>9 DEF m
<1>5. Replayed(c, ok) \in S
  <2> HIDE DEF S
  <2>1. QED
    BY <1>1, <1>3, <1>4, ReplayStays
<1>6. QED
  BY <1>5

(* Accepting a snapshot: the client keeps what is newer. *)
SnapshotOK(s, w) ==
  /\ ViewOK(s.items, s.stream, w, EndedIn(w.row))

Merged(c, s) == [i \in Items |-> IF KeepsItsOwn(c, s, i) THEN c.items[i] ELSE s.items[i]]
Agrees(c, s) ==
  s.stream = c.stream =>
    \A i \in Items :
      c.items[i].sequence >= 0 /\ s.items[i].sequence = c.items[i].sequence
        => s.items[i].version = c.items[i].version
Rebased(c, s) == [c EXCEPT !.stream = s.stream, !.items = Merged(c, s)]

LEMMA AcceptedIs ==
  ASSUME NEW c, NEW s
  PROVE  Accepted(c, s) = Replayed(Rebased(c, s), Agrees(c, s))
BY DEF Accepted, Rebased, Agrees, Merged

LEMMA RebasedIs ==
  ASSUME NEW c \in Clients, NEW s \in Snapshots
  PROVE  LET b == Rebased(c, s)
         IN /\ b \in Clients /\ b.stream = s.stream /\ b.items = Merged(c, s)
            /\ b.ready = c.ready /\ b.pending = c.pending /\ b.sync = c.sync
            /\ b.asks = c.asks /\ b.error = c.error
            /\ Agrees(c, s) \in BOOLEAN
<1>1. Merged(c, s) \in Views /\ s.stream \in Int
  BY DEF Merged, Views, Clients, Snapshots
<1>2. Rebased(c, s) \in Clients
  BY <1>1 DEF Rebased, Clients
<1>3. Agrees(c, s) \in BOOLEAN
  BY DEF Agrees
<1>4. QED
  BY <1>2, <1>3 DEF Rebased, Clients

LEMMA MergedKeepsView ==
  ASSUME NEW w \in Worlds, NEW ends \in SUBSET EndedIn(w.row),
         NEW c \in Clients, ViewOK(c.items, c.stream, w, ends),
         NEW s \in Snapshots, SnapshotOK(s, w)
  PROVE  ViewOK(Merged(c, s), s.stream, w, ends)
<1>1. \A i \in Items : \/ Merged(c, s)[i] = s.items[i]
                       \/ s.stream = c.stream /\ Merged(c, s)[i] = c.items[i]
  BY DEF Merged, KeepsItsOwn
<1>2. \A m \in ends : m \in Items /\ m \in Messages /\ m \in EndedIn(w.row)
  BY DEF EndedIn, Items
<1>3. s.stream <= w.last
  BY DEF SnapshotOK, ViewOK
<1>4. \A i \in Items : Within(Merged(c, s)[i], i, s.stream, w)
  BY <1>1 DEF SnapshotOK, ViewOK
<1>5. \A m \in Messages : Merged(c, s)[m].version.status = "completed" => Merged(c, s)[m].version = w.row[m]
  BY <1>1 DEF SnapshotOK, ViewOK, Items
<1>6. \A m \in ends : Merged(c, s)[m].version = w.row[m]
  BY <1>1, <1>2 DEF SnapshotOK, ViewOK
<1>7. QED
  BY <1>3, <1>4, <1>5, <1>6 DEF ViewOK

LEMMA AcceptedKeeps ==
  ASSUME NEW w \in Worlds, NEW ends \in SUBSET EndedIn(w.row),
         NEW c \in Clients, ViewOK(c.items, c.stream, w, ends),
         \A k \in DOMAIN c.pending : UpdateOK(c.pending[k], w),
         NEW s \in Snapshots, SnapshotOK(s, w)
  PROVE  LET r == Accepted(c, s)
         IN /\ r \in Tries
            /\ ViewOK(r.view.items, s.stream, w, ends)
            /\ r.view.ready /\ r.view.pending = << >>
            /\ r.view.stream = s.stream /\ r.view.sync = c.sync /\ r.view.asks = c.asks
            /\ r.view.error = c.error
<1> DEFINE b == Rebased(c, s)
<1>1. /\ b \in Clients /\ b.stream = s.stream /\ b.items = Merged(c, s)
      /\ b.pending = c.pending /\ b.sync = c.sync
      /\ b.asks = c.asks /\ b.error = c.error
      /\ Agrees(c, s) \in BOOLEAN
  BY RebasedIs
<1> HIDE DEF b
<1>2. ViewOK(b.items, b.stream, w, ends)
  BY <1>1, MergedKeepsView
<1>3. \A k \in DOMAIN b.pending : UpdateOK(b.pending[k], w)
  BY <1>1
<1>4. Accepted(c, s) = Replayed(b, Agrees(c, s))
  BY AcceptedIs DEF b
<1>5. QED
  BY <1>1, <1>2, <1>3, <1>4, ReplayKeeps

(* A snapshot as new as everything the client has is what it shows then.     *)
Newest(items, id, c) ==
  /\ c.stream = id => \A i \in Items : c.items[i].sequence <= items[i].sequence
  /\ \A k \in DOMAIN c.pending : c.pending[k].stream = id =>
       c.pending[k].sequence <= items[c.pending[k].item].sequence

LEMMA AcceptedSettles ==
  ASSUME NEW c \in Clients, NEW s \in Snapshots, Newest(s.items, s.stream, c),
         Accepted(c, s).ok
  PROVE  Accepted(c, s).view.items = s.items
<1> DEFINE b == Rebased(c, s)
<1>1. /\ b \in Clients /\ b.stream = s.stream /\ b.items = Merged(c, s)
      /\ b.pending = c.pending
      /\ Agrees(c, s) \in BOOLEAN
  BY RebasedIs
<1> HIDE DEF b
<1>2. Accepted(c, s) = Replayed(b, Agrees(c, s))
  BY AcceptedIs DEF b
<1>3. ASSUME NEW i \in Items
      PROVE  /\ Merged(c, s)[i].sequence >= s.items[i].sequence
             /\ Agrees(c, s) => Merged(c, s)[i] = s.items[i]
  <2>1. /\ c.items[i] \in Cursors /\ s.items[i] \in Cursors
        /\ c.items[i].sequence \in Int /\ s.items[i].sequence \in Int
    BY DEF Clients, Snapshots, Views, Cursors
  <2>2. CASE ~KeepsItsOwn(c, s, i)
    <3>1. Merged(c, s)[i] = s.items[i]
      BY <2>2 DEF Merged
    <3>2. QED
      BY <2>1, <3>1
  <2>3. CASE KeepsItsOwn(c, s, i)
    <3>1. Merged(c, s)[i] = c.items[i]
      BY <2>3 DEF Merged
    <3>2. s.stream = c.stream /\ c.items[i].sequence >= 0 /\ s.items[i].sequence <= c.items[i].sequence
      BY <2>3 DEF KeepsItsOwn
    <3>3. c.items[i].sequence = s.items[i].sequence
      BY <2>1, <3>2 DEF Newest
    <3>4. Agrees(c, s) => s.items[i].version = c.items[i].version
      BY <3>2, <3>3 DEF Agrees
    <3>5. Agrees(c, s) => s.items[i] = c.items[i]
      BY <2>1, <3>3, <3>4 DEF Cursors
    <3>6. QED
      BY <2>1, <3>1, <3>2, <3>5
  <2>4. QED
    BY <2>2, <2>3
<1>4. ASSUME NEW k \in DOMAIN b.pending, b.pending[k].stream = b.stream
      PROVE  b.pending[k].sequence <= b.items[b.pending[k].item].sequence
  <2> DEFINE u == b.pending[k]
  <2>1. u \in Updates
    BY <1>1 DEF Clients
  <2>2. u.sequence \in Nat /\ u.item \in Items
    BY <2>1 DEF Updates
  <2>3. u.sequence <= s.items[u.item].sequence
    BY <1>1, <1>4 DEF Newest
  <2>4. b.items[u.item].sequence >= s.items[u.item].sequence
    BY <1>1, <1>3, <2>2
  <2>5. b.items[u.item].sequence \in Int /\ s.items[u.item].sequence \in Int
    BY <1>1, <2>2 DEF Clients, Snapshots, Views, Cursors
  <2> HIDE DEF u
  <2>6. u.sequence <= b.items[u.item].sequence
    BY <2>2, <2>3, <2>4, <2>5
  <2>7. QED
    BY <2>6 DEF u
<1>5. Agrees(c, s) /\ Accepted(c, s).view.items = b.items
  BY <1>1, <1>2, <1>4, ReplaySettles
<1>6. Merged(c, s) = s.items
  <2>1. s.items \in [Items -> Cursors]
    BY DEF Snapshots, Views
  <2>2. \A i \in Items : Merged(c, s)[i] = s.items[i]
    BY <1>3, <1>5
  <2>3. QED
    BY <2>1, <2>2 DEF Merged
<1>7. QED
  BY <1>1, <1>5, <1>6

LEMMA SynchronizeIs ==
  ASSUME NEW c \in Clients
  PROVE  LET r == Synchronize(c)
         IN /\ r \in Clients /\ r.sync # "none"
            /\ r.items = c.items /\ r.stream = c.stream /\ r.error = c.error
            /\ r.pending = c.pending \/ r.pending = << >>
            /\ IF c.sync = "none" THEN r.asks ELSE r = c
<1>1. CASE c.sync # "none"
  BY <1>1 DEF Synchronize
<1>2. CASE c.sync = "none"
  <2> DEFINE r == [c EXCEPT !.sync = "first", !.asks = TRUE, !.ready = FALSE, !.pending = << >>]
  <2>1. << >> \in Seq(Updates)
    OBVIOUS
  <2>2. r \in Clients
    BY <2>1 DEF Clients
  <2>3. /\ r.sync = "first" /\ r.items = c.items /\ r.stream = c.stream /\ r.error = c.error
        /\ r.pending = << >> /\ r.asks
    BY DEF Clients
  <2>4. Synchronize(c) = r
    BY <1>2 DEF Synchronize
  <2> HIDE DEF r
  <2>5. QED
    BY <1>2, <2>2, <2>3, <2>4
<1>3. QED
  BY <1>1, <1>2

LEMMA AbortedIs ==
  ASSUME NEW w \in Worlds, NEW ends \in SUBSET EndedIn(w.row), NEW why \in { "lost", "inconsistent" },
         NEW c \in Clients, ViewOK(c.items, c.stream, w, ends),
         \A k \in DOMAIN c.pending : UpdateOK(c.pending[k], w)
  PROVE  LET r == Aborted(c, why)
         IN /\ r \in Clients /\ ViewOK(r.items, r.stream, w, ends) /\ r.stream = c.stream
            /\ r.ready /\ r.pending = << >> /\ r.sync = "none" /\ ~r.asks /\ r.error = why
<1> DEFINE v == Replayed(c, FALSE).view
           r == [v EXCEPT !.sync = "none", !.asks = FALSE, !.error = why]
<1>1. /\ v \in Clients /\ ViewOK(v.items, c.stream, w, ends) /\ v.ready /\ v.pending = << >>
      /\ v.stream = c.stream
  <2>1. FALSE \in BOOLEAN
    OBVIOUS
  <2>2. QED
    BY <2>1, ReplayKeeps DEF Tries
<1>2. Aborted(c, why) = r
  BY DEF Aborted
<1> HIDE DEF v
<1>3. /\ r \in Clients /\ r.items = v.items /\ r.stream = v.stream /\ r.ready = v.ready
      /\ r.pending = v.pending /\ r.sync = "none" /\ r.asks = FALSE /\ r.error = why
  BY <1>1 DEF Clients
<1> HIDE DEF r
<1>4. QED
  BY <1>1, <1>2, <1>3

MessageOK(m, w) == \/ m \in Updates /\ UpdateOK(m, w)
                   \/ m \in Snapshots /\ SnapshotOK(m, w)

LEMMA WhichReceives ==
  ASSUME NEW c, NEW m
  PROVE  /\ m \in Updates => Receives(c, m) = ReceivesUpdate(c, m)
         /\ m \in Snapshots =>
              \/ m.kind = "reply" /\ Receives(c, m) = ReceivesReply(c, m)
              \/ m.kind = "push" /\ Receives(c, m) = ReceivesPush(c, m)
<1>1. m \in Updates => m.kind \in { "item", "delta" }
  BY DEF Updates
<1>2. m \in Snapshots => m.kind \in { "reply", "push" }
  BY DEF Snapshots
<1>3. QED
  BY <1>1, <1>2 DEF Receives

(* The new client, case by case.                                             *)
LEMMA UpdateCases ==
  ASSUME NEW c \in Clients, NEW m \in Updates
  PROVE  \/ /\ ~c.ready
            /\ Receives(c, m) = [c EXCEPT !.pending = Append(c.pending, m)]
         \/ c.ready /\ Follows(c, m) /\ Receives(c, m) = Applied(c, m)
         \/ c.ready /\ ~Follows(c, m) /\ Receives(c, m) = Synchronize(c)
BY WhichReceives DEF ReceivesUpdate

LEMMA BufferedIs ==
  ASSUME NEW c \in Clients, NEW m \in Updates
  PROVE  LET r == [c EXCEPT !.pending = Append(c.pending, m)]
         IN /\ r \in Clients /\ r.pending = Append(c.pending, m)
            /\ r.items = c.items /\ r.stream = c.stream /\ r.error = c.error
            /\ r.sync = c.sync /\ r.asks = c.asks /\ r.ready = c.ready
<1>1. Append(c.pending, m) \in Seq(Updates)
  BY DEF Clients
<1>2. QED
  BY <1>1 DEF Clients

LEMMA UpdateKeeps ==
  ASSUME NEW w \in Worlds, NEW ends \in SUBSET EndedIn(w.row),
         NEW c, ClientOK(c, w, ends), NEW m \in Updates, UpdateOK(m, w)
  PROVE  ClientOK(Receives(c, m), w, ends)
<1>1. /\ c \in Clients /\ ViewOK(c.items, c.stream, w, ends)
      /\ \A k \in DOMAIN c.pending : UpdateOK(c.pending[k], w)
      /\ c.sync = "none" => c.ready
  BY DEF ClientOK
<1> DEFINE r == Receives(c, m)
<1>0. \/ ~c.ready /\ r = [c EXCEPT !.pending = Append(c.pending, m)]
      \/ r = Applied(c, m)
      \/ r = Synchronize(c)
  BY <1>1, UpdateCases
<1> SUFFICES ClientOK(r, w, ends)
  OBVIOUS
<1> HIDE DEF r
<1>2. CASE /\ ~c.ready
           /\ r = [c EXCEPT !.pending = Append(c.pending, m)]
  <2>1. /\ r \in Clients /\ r.pending = Append(c.pending, m)
        /\ r.items = c.items /\ r.stream = c.stream
        /\ r.sync = c.sync /\ r.asks = c.asks /\ r.ready = c.ready
    BY <1>1, <1>2, BufferedIs
  <2>2. \A k \in DOMAIN r.pending : UpdateOK(r.pending[k], w)
    <3>1. c.pending \in Seq(Updates)
      BY <1>1 DEF Clients
    <3>2. \A k \in DOMAIN r.pending : r.pending[k] = m \/ (k \in DOMAIN c.pending /\ r.pending[k] = c.pending[k])
      BY <2>1, <3>1
    <3>3. QED
      BY <1>1, <3>2
  <2>3. QED
    BY <1>1, <2>1, <2>2 DEF ClientOK
<1>3. CASE r = Applied(c, m)
  <2>1. Applied(c, m) \in Clients
        /\ \A f \in { "stream", "ready", "pending", "sync", "asks", "error" } : Applied(c, m)[f] = c[f]
    BY <1>1, UpdateApplies
  <2>2. r.stream = c.stream /\ r.ready = c.ready /\ r.pending = c.pending /\ r.sync = c.sync /\ r.asks = c.asks
    BY <1>3, <2>1
  <2>3. ViewOK(r.items, c.stream, w, ends)
    BY <1>1, <1>3, UpdateKeepsView
  <2>4. QED
    BY <1>1, <1>3, <2>1, <2>2, <2>3 DEF ClientOK
<1>4. CASE r = Synchronize(c)
  <2>1. /\ r \in Clients /\ r.sync # "none"
        /\ r.items = c.items /\ r.stream = c.stream
        /\ (r.pending = c.pending \/ r.pending = << >>)
    BY <1>1, <1>4, SynchronizeIs
  <2>2. QED
    BY <1>1, <2>1 DEF ClientOK
<1>5. QED
  BY <1>0, <1>2, <1>3, <1>4

LEMMA SnapshotCases ==
  ASSUME NEW c, NEW s \in Snapshots
  PROVE  LET r == Accepted(c, s)
             d == Receives(c, s)
         IN \/ /\ s.kind = "reply" /\ r.ok
               /\ d = [r.view EXCEPT !.sync = "none", !.error = "none"]
            \/ /\ s.kind = "reply" /\ ~r.ok /\ c.sync = "first"
               /\ d = [r.view EXCEPT !.sync = "second", !.asks = TRUE, !.ready = FALSE]
            \/ s.kind = "reply" /\ ~r.ok /\ c.sync # "first" /\ d = Aborted(r.view, "inconsistent")
            \/ s.kind = "push" /\ r.ok /\ d = [r.view EXCEPT !.error = "none"]
            \/ s.kind = "push" /\ ~r.ok /\ d = Synchronize(r.view)
BY WhichReceives DEF ReceivesReply, ReceivesPush

LEMMA SnapshotKeeps ==
  ASSUME NEW w \in Worlds, NEW ends \in SUBSET EndedIn(w.row),
         NEW c, ClientOK(c, w, ends), NEW s \in Snapshots, SnapshotOK(s, w)
  PROVE  ClientOK(Receives(c, s), w, ends)
<1> DEFINE v == Accepted(c, s).view
           d == Receives(c, s)
<1>1. /\ c \in Clients /\ ViewOK(c.items, c.stream, w, ends)
      /\ \A k \in DOMAIN c.pending : UpdateOK(c.pending[k], w)
      /\ c.sync = "none" => c.ready
  BY DEF ClientOK
<1>2. /\ v \in Clients /\ ViewOK(v.items, v.stream, w, ends)
      /\ v.ready /\ v.pending = << >> /\ v.sync = c.sync /\ v.asks = c.asks
  <2>1. Accepted(c, s) \in Tries /\ ViewOK(v.items, s.stream, w, ends) /\ v.stream = s.stream
    BY <1>1, AcceptedKeeps
  <2>2. v.ready /\ v.pending = << >> /\ v.sync = c.sync /\ v.asks = c.asks
    BY <1>1, AcceptedKeeps
  <2>3. v \in Clients
    BY <2>1 DEF Tries
  <2> HIDE DEF v
  <2>4. QED
    BY <2>1, <2>2, <2>3
<1>3. \/ s.kind = "reply" /\ d = [v EXCEPT !.sync = "none", !.error = "none"]
      \/ d = [v EXCEPT !.sync = "second", !.asks = TRUE, !.ready = FALSE]
      \/ d = Aborted(v, "inconsistent")
      \/ s.kind = "push" /\ d = [v EXCEPT !.error = "none"]
      \/ d = Synchronize(v)
  BY SnapshotCases
<1> SUFFICES ClientOK(d, w, ends)
  OBVIOUS
<1> HIDE DEF v, d
<1>4. \A k \in DOMAIN v.pending : UpdateOK(v.pending[k], w)
  BY <1>2
<1>5. CASE d = [v EXCEPT !.sync = "none", !.error = "none"]
  <2>1. d \in Clients /\ d.items = v.items /\ d.stream = v.stream /\ d.pending = v.pending /\ d.ready = v.ready
    BY <1>2, <1>5 DEF Clients
  <2>2. QED
    BY <1>2, <1>4, <2>1 DEF ClientOK
<1>6. CASE d = [v EXCEPT !.sync = "second", !.asks = TRUE, !.ready = FALSE]
  <2>1. /\ d \in Clients /\ d.items = v.items /\ d.stream = v.stream /\ d.pending = v.pending
        /\ d.sync = "second"
    BY <1>2, <1>6 DEF Clients
  <2>2. QED
    BY <1>2, <1>4, <2>1 DEF ClientOK
<1>7. CASE d = Aborted(v, "inconsistent")
  <2>1. /\ d \in Clients /\ ViewOK(d.items, d.stream, w, ends)
        /\ d.ready /\ d.pending = << >> /\ d.sync = "none" /\ ~d.asks
    BY <1>2, <1>4, <1>7, AbortedIs
  <2>2. QED
    BY <2>1 DEF ClientOK
<1>8. CASE d = [v EXCEPT !.error = "none"]
  <2>1. /\ d \in Clients /\ d.items = v.items /\ d.stream = v.stream /\ d.pending = v.pending
        /\ d.ready = v.ready /\ d.sync = v.sync /\ d.asks = v.asks
    BY <1>2, <1>8 DEF Clients
  <2>2. QED
    BY <1>1, <1>2, <1>4, <2>1 DEF ClientOK
<1>9. CASE d = Synchronize(v)
  <2>1. /\ d \in Clients /\ d.sync # "none"
        /\ d.items = v.items /\ d.stream = v.stream
        /\ (d.pending = v.pending \/ d.pending = << >>)
    BY <1>2, <1>9, SynchronizeIs
  <2>2. QED
    BY <1>2, <1>4, <2>1 DEF ClientOK
<1>10. QED
  BY <1>3, <1>5, <1>6, <1>7, <1>8, <1>9

LEMMA ReceivesKeeps ==
  ASSUME NEW w \in Worlds, NEW ends \in SUBSET EndedIn(w.row),
         NEW c, ClientOK(c, w, ends), NEW m, MessageOK(m, w)
  PROVE  ClientOK(Receives(c, m), w, ends)
BY UpdateKeeps, SnapshotKeeps DEF MessageOK

(* A synchronisation under way is asked for again, answered, or left alone.  *)
LEMMA ReceivesServes ==
  ASSUME NEW w \in Worlds, NEW c, ClientOK(c, w, {}), NEW m, MessageOK(m, w)
  PROVE  LET d == Receives(c, m)
         IN \/ d.sync = "none" \/ d.asks
            \/ m.kind # "reply" /\ d.sync = c.sync /\ d.asks = c.asks
<1> DEFINE d == Receives(c, m)
<1>0. {} \in SUBSET EndedIn(w.row)
  OBVIOUS
<1>1. /\ c \in Clients /\ ViewOK(c.items, c.stream, w, {})
      /\ \A k \in DOMAIN c.pending : UpdateOK(c.pending[k], w)
  BY DEF ClientOK
<1>2. CASE m \in Updates
  <2>1. m.kind # "reply"
    BY <1>2 DEF Updates
  <2>2. CASE d = [c EXCEPT !.pending = Append(c.pending, m)]
    BY <1>1, <1>2, <2>1, <2>2, BufferedIs
  <2>3. CASE d = Applied(c, m)
    <3>1. \A f \in { "stream", "ready", "pending", "sync", "asks", "error" } : Applied(c, m)[f] = c[f]
      BY <1>1, <1>2, UpdateApplies
    <3>2. d.sync = c.sync /\ d.asks = c.asks
      BY <2>3, <3>1
    <3>3. QED
      BY <2>1, <3>2
  <2>4. CASE d = Synchronize(c)
    <3>1. IF c.sync = "none" THEN d.asks ELSE d = c
      BY <1>1, <2>4, SynchronizeIs
    <3> HIDE DEF d
    <3>2. d.asks \/ (d.sync = c.sync /\ d.asks = c.asks)
      BY <3>1
    <3>3. QED
      BY <2>1, <3>2 DEF d
  <2>5. QED
    BY <1>1, <1>2, <2>2, <2>3, <2>4, UpdateCases
<1>3. CASE m \in Snapshots /\ SnapshotOK(m, w)
  <2> DEFINE v == Accepted(c, m).view
  <2>1. Accepted(c, m) \in Tries /\ v.sync = c.sync /\ v.asks = c.asks
    BY <1>0, <1>1, <1>3, AcceptedKeeps
  <2>2. ViewOK(v.items, v.stream, w, {}) /\ v.pending = << >>
    BY <1>0, <1>1, <1>3, AcceptedKeeps
  <2>3. v \in Clients
    BY <2>1 DEF Tries
  <2>4. \A k \in DOMAIN v.pending : UpdateOK(v.pending[k], w)
    BY <2>2
  <2>5. \/ m.kind = "reply" /\ d = [v EXCEPT !.sync = "none", !.error = "none"]
        \/ d = [v EXCEPT !.sync = "second", !.asks = TRUE, !.ready = FALSE]
        \/ d = Aborted(v, "inconsistent")
        \/ m.kind = "push" /\ d = [v EXCEPT !.error = "none"]
        \/ m.kind = "push" /\ d = Synchronize(v)
    BY <1>3, SnapshotCases
  <2> HIDE DEF v
  <2>6. CASE d = [v EXCEPT !.sync = "none", !.error = "none"]
    BY <2>3, <2>6 DEF Clients
  <2>7. CASE d = [v EXCEPT !.sync = "second", !.asks = TRUE, !.ready = FALSE]
    BY <2>3, <2>7 DEF Clients
  <2>8. CASE d = Aborted(v, "inconsistent")
    BY <1>0, <2>2, <2>3, <2>4, <2>8, AbortedIs
  <2>9. CASE m.kind = "push" /\ d = [v EXCEPT !.error = "none"]
    <3>1. d.sync = v.sync /\ d.asks = v.asks
      BY <2>3, <2>9 DEF Clients
    <3>2. QED
      BY <2>1, <2>9, <3>1
  <2>10. CASE m.kind = "push" /\ d = Synchronize(v)
    <3>1. IF v.sync = "none" THEN d.asks ELSE d = v
      BY <2>3, <2>10, SynchronizeIs
    <3> HIDE DEF d
    <3>2. d.asks \/ (d.sync = v.sync /\ d.asks = v.asks)
      BY <3>1
    <3>3. QED
      BY <2>1, <2>10, <3>2 DEF d
  <2>11. QED
    BY <2>5, <2>6, <2>7, <2>8, <2>9, <2>10
<1>4. QED
  BY <1>2, <1>3 DEF MessageOK

(* A client without a request and without an error shows this view.          *)
Settled(c, id, items) == c.sync = "none" /\ c.error = "none" => c.stream = id /\ c.items = items

LEMMA SnapshotSettles ==
  ASSUME NEW w \in Worlds, NEW c, ClientOK(c, w, {}), NEW s \in Snapshots, SnapshotOK(s, w),
         Newest(s.items, s.stream, c)
  PROVE  Settled(Receives(c, s), s.stream, s.items)
<1> DEFINE d == Receives(c, s)
           v == Accepted(c, s).view
<1>0. {} \in SUBSET EndedIn(w.row)
  OBVIOUS
<1>1. /\ c \in Clients /\ ViewOK(c.items, c.stream, w, {})
      /\ \A k \in DOMAIN c.pending : UpdateOK(c.pending[k], w)
  BY DEF ClientOK
<1>2. Accepted(c, s) \in Tries /\ v.stream = s.stream
  BY <1>0, <1>1, AcceptedKeeps
<1>3. ViewOK(v.items, v.stream, w, {}) /\ v.pending = << >>
  BY <1>0, <1>1, AcceptedKeeps
<1>4. v \in Clients
  BY <1>2 DEF Tries
<1>5. \A k \in DOMAIN v.pending : UpdateOK(v.pending[k], w)
  BY <1>3
<1>6. Accepted(c, s).ok => v.items = s.items
  BY <1>1, AcceptedSettles
<1>7. \/ Accepted(c, s).ok /\ d = [v EXCEPT !.sync = "none", !.error = "none"]
      \/ d = [v EXCEPT !.sync = "second", !.asks = TRUE, !.ready = FALSE]
      \/ d = Aborted(v, "inconsistent")
      \/ Accepted(c, s).ok /\ d = [v EXCEPT !.error = "none"]
      \/ d = Synchronize(v)
  BY SnapshotCases
<1> SUFFICES Settled(d, s.stream, s.items)
  OBVIOUS
<1> HIDE DEF v, d
<1>8. CASE Accepted(c, s).ok /\ d = [v EXCEPT !.sync = "none", !.error = "none"]
  <2>1. d.items = v.items /\ d.stream = v.stream
    BY <1>4, <1>8 DEF Clients
  <2>2. QED
    BY <1>2, <1>6, <1>8, <2>1 DEF Settled
<1>9. CASE d = [v EXCEPT !.sync = "second", !.asks = TRUE, !.ready = FALSE]
  <2>1. d.sync = "second"
    BY <1>4, <1>9 DEF Clients
  <2>2. QED
    BY <2>1 DEF Settled
<1>10. CASE d = Aborted(v, "inconsistent")
  <2>1. d.error = "inconsistent"
    BY <1>0, <1>3, <1>4, <1>5, <1>10, AbortedIs
  <2>2. QED
    BY <2>1 DEF Settled
<1>11. CASE Accepted(c, s).ok /\ d = [v EXCEPT !.error = "none"]
  <2>1. d.items = v.items /\ d.stream = v.stream
    BY <1>4, <1>11 DEF Clients
  <2>2. QED
    BY <1>2, <1>6, <1>11, <2>1 DEF Settled
<1>12. CASE d = Synchronize(v)
  <2>1. d.sync # "none"
    BY <1>4, <1>12, SynchronizeIs
  <2>2. QED
    BY <2>1 DEF Settled
<1>13. QED
  BY <1>7, <1>8, <1>9, <1>10, <1>11, <1>12

LEMMA UpdateStaysSettled ==
  ASSUME NEW c \in Clients, c.sync = "none" => c.ready, NEW m \in Updates,
         NEW id, NEW items \in Views, Settled(c, id, items),
         m.stream = id => m.sequence <= items[m.item].sequence
  PROVE  Settled(Receives(c, m), id, items)
<1> DEFINE d == Receives(c, m)
<1>1. \/ ~c.ready /\ d = [c EXCEPT !.pending = Append(c.pending, m)]
      \/ c.ready /\ Follows(c, m) /\ d = Applied(c, m)
      \/ d = Synchronize(c)
  BY UpdateCases
<1> SUFFICES Settled(d, id, items)
  OBVIOUS
<1> HIDE DEF d
<1>2. CASE ~c.ready /\ d = [c EXCEPT !.pending = Append(c.pending, m)]
  <2>1. d.sync = c.sync
    BY <1>2, BufferedIs
  <2>2. QED
    BY <1>2, <2>1 DEF Settled
<1>3. CASE Follows(c, m) /\ d = Applied(c, m)
  <2>1. \A f \in { "stream", "ready", "pending", "sync", "asks", "error" } : Applied(c, m)[f] = c[f]
    BY UpdateApplies
  <2>2. d.stream = c.stream /\ d.sync = c.sync /\ d.error = c.error
    BY <1>3, <2>1
  <2>3. d.items = c.items \/ m.sequence > c.items[m.item].sequence
    BY <1>3, UpdateApplies
  <2>4. m.stream = c.stream
    BY <1>3, WhatFollows
  <2>5. m.sequence \in Nat /\ m.item \in Items
    BY DEF Updates
  <2>6. items[m.item].sequence \in Int
    BY <2>5 DEF Views, Cursors
  <2>7. c.sync = "none" /\ c.error = "none" => d.items = items
    BY <2>3, <2>4, <2>5, <2>6 DEF Settled
  <2>8. QED
    BY <2>2, <2>7 DEF Settled
<1>4. CASE d = Synchronize(c)
  <2>1. d.sync # "none"
    BY <1>4, SynchronizeIs
  <2>2. QED
    BY <2>1 DEF Settled
<1>5. QED
  BY <1>1, <1>2, <1>3, <1>4

(* The next update reaches the screen, or starts a synchronisation.          *)
LEMMA UpdateLands ==
  ASSUME NEW c \in Clients, c.ready, NEW m \in Updates,
         c.items[m.item].sequence <= m.sequence,
         m.kind = "item" \/ c.items[m.item].sequence < m.sequence
  PROVE  LET d == Receives(c, m)
         IN \/ d.sync # "none"
            \/ /\ d.stream = c.stream /\ m.stream = c.stream
               /\ d.items = [c.items EXCEPT ![m.item] =
                               [version |-> m.version, sequence |-> m.sequence]]
<1> DEFINE d == Receives(c, m)
           x == [version |-> m.version, sequence |-> m.sequence]
<1>1. \/ Follows(c, m) /\ d = Applied(c, m)
      \/ d = Synchronize(c)
  BY UpdateCases
<1>2. CASE Follows(c, m) /\ d = Applied(c, m)
  <2>1. \A f \in { "stream", "ready", "pending", "sync", "asks", "error" } : Applied(c, m)[f] = c[f]
    BY UpdateApplies
  <2>2. d.stream = c.stream
    BY <1>2, <2>1
  <2>3. m.stream = c.stream
    BY <1>2, WhatFollows
  <2>4. m.item \in Items /\ m.sequence \in Nat /\ c.items \in Views
    BY DEF Updates, Clients
  <2>5. c.items[m.item] \in Cursors
    BY <2>4 DEF Views
  <2>6. CASE m.sequence > c.items[m.item].sequence
    <3>1. Applied(c, m) = [c EXCEPT !.items[m.item] = x]
      BY <1>2, <2>6 DEF Applied
    <3>2. Applied(c, m).items = [c.items EXCEPT ![m.item] = x]
      BY <3>1 DEF Clients
    <3>3. QED
      BY <1>2, <2>2, <2>3, <3>2
  <2>7. CASE ~(m.sequence > c.items[m.item].sequence)
    <3>1. m.sequence = c.items[m.item].sequence /\ m.kind = "item"
      BY <2>4, <2>5, <2>7 DEF Cursors
    <3>2. m.version = c.items[m.item].version
      BY <1>2, <3>1, WhatFollows
    <3>3. x = c.items[m.item]
      BY <2>5, <3>1, <3>2 DEF Cursors
    <3>4. Applied(c, m) = c
      BY <2>7 DEF Applied
    <3>5. [c.items EXCEPT ![m.item] = x] = c.items
      BY <2>4, <3>3 DEF Views
    <3>6. QED
      BY <1>2, <2>2, <2>3, <3>4, <3>5
  <2>8. QED
    BY <2>6, <2>7
<1>3. CASE d = Synchronize(c)
  BY <1>3, SynchronizeIs
<1>4. QED
  BY <1>1, <1>2, <1>3

-------------------------------------------------------------------------------
(* Part 3.  The world moves on: streams are replaced by new ones, the        *)
(* cursors of a stream grow, rows stay and ended rows stay as they are.      *)
Grows(w, v) ==
  /\ w.last <= v.last
  /\ \A i \in Items : w.row[i] # Absent => v.row[i] # Absent
  /\ \A m \in Messages : w.row[m].status = "completed" => v.row[m] = w.row[m]
  /\ \/ /\ v.stream.id = w.stream.id
        /\ \A i \in Items : w.stream.live[i].sequence <= v.stream.live[i].sequence
     \/ v.stream.id = 0
     \/ v.stream.id > w.last

LEMMA WorldTypes ==
  ASSUME NEW w \in Worlds
  PROVE  /\ w.last \in Nat /\ w.stream.id \in Int /\ w.stream.live \in Views /\ w.row \in [Items -> Versions]
         /\ \A i \in Items : w.stream.live[i].sequence \in Int
<1>1. w.last \in Nat /\ w.stream \in Captures /\ w.row \in [Items -> Versions]
  BY DEF Worlds
<1>2. w.stream.id \in Int /\ w.stream.live \in Views
  BY <1>1 DEF Captures
<1>3. \A i \in Items : w.stream.live[i].sequence \in Int
  BY <1>2 DEF Views, Cursors
<1>4. QED
  BY <1>1, <1>2, <1>3

LEMMA UpdateSurvives ==
  ASSUME NEW w \in Worlds, NEW v \in Worlds, Grows(w, v), NEW m \in Updates, UpdateOK(m, w)
  PROVE  UpdateOK(m, v)
<1>1. m.stream \in Nat /\ m.sequence \in Nat /\ m.item \in Items
  BY DEF Updates
<1>2. m.stream \in 1..v.last
  BY <1>1, WorldTypes DEF UpdateOK, Grows
<1>3. m.stream = v.stream.id => m.sequence <= v.stream.live[m.item].sequence
  <2> HAVE m.stream = v.stream.id
  <2>1. m.stream # 0 /\ ~(m.stream > w.last)
    BY <1>1, WorldTypes DEF UpdateOK
  <2>2. v.stream.id = w.stream.id /\ w.stream.live[m.item].sequence <= v.stream.live[m.item].sequence
    BY <1>1, <2>1 DEF Grows
  <2>3. m.sequence <= w.stream.live[m.item].sequence
    BY <2>2 DEF UpdateOK
  <2>4. QED
    BY <1>1, <2>2, <2>3, WorldTypes
<1>4. m.item \in Messages => \/ m.version.status = "running"
                             \/ m.version.status = "completed" /\ m.version = v.row[m.item]
  BY DEF UpdateOK, Grows
<1>5. QED
  BY <1>2, <1>3, <1>4 DEF UpdateOK

LEMMA ViewSurvives ==
  ASSUME NEW w \in Worlds, NEW v \in Worlds, Grows(w, v),
         NEW items \in Views, NEW id \in Int, NEW ends \in SUBSET EndedIn(w.row), ViewOK(items, id, w, ends)
  PROVE  ViewOK(items, id, v, ends)
<1>1. id <= v.last
  BY WorldTypes DEF ViewOK, Grows
<1>2. ASSUME NEW i \in Items PROVE Within(items[i], i, id, v)
  <2>1. items[i].sequence \in Int
    BY DEF Views, Cursors
  <2>2. Within(items[i], i, id, w) /\ id <= w.last
    BY DEF ViewOK
  <2>3. w.row[i] # Absent => v.row[i] # Absent
    BY DEF Grows
  <2>4. CASE id <= 0
    BY <2>2, <2>3, <2>4 DEF Within
  <2>5. CASE id > 0 /\ id = v.stream.id
    <3>1. v.stream.id = w.stream.id /\ w.stream.live[i].sequence <= v.stream.live[i].sequence
      BY <2>2, <2>5, WorldTypes DEF Grows
    <3>2. QED
      BY <2>1, <2>2, <2>3, <2>5, <3>1, WorldTypes DEF Within
  <2>6. CASE id > 0 /\ id # v.stream.id
    BY <2>6 DEF Within
  <2>7. QED
    BY <2>4, <2>5, <2>6
<1>3. \A m \in Messages : items[m].version.status = "completed" => items[m].version = v.row[m]
  BY DEF ViewOK, Grows
<1>4. \A m \in ends : items[m].version = v.row[m]
  BY DEF ViewOK, Grows, EndedIn
<1>5. QED
  BY <1>1, <1>2, <1>3, <1>4 DEF ViewOK

LEMMA ClientSurvives ==
  ASSUME NEW w \in Worlds, NEW v \in Worlds, Grows(w, v), NEW c,
         NEW ends \in SUBSET EndedIn(w.row), ClientOK(c, w, ends)
  PROVE  ClientOK(c, v, ends)
<1>1. c \in Clients /\ c.items \in Views /\ c.stream \in Int /\ c.pending \in Seq(Updates)
  BY DEF ClientOK, Clients
<1>2. ViewOK(c.items, c.stream, v, ends)
  BY <1>1, ViewSurvives DEF ClientOK
<1>3. \A k \in DOMAIN c.pending : UpdateOK(c.pending[k], v)
  <2> TAKE k \in DOMAIN c.pending
  <2>1. c.pending[k] \in Updates
    BY <1>1
  <2>2. QED
    BY <2>1, UpdateSurvives DEF ClientOK
<1>4. QED
  BY <1>1, <1>2, <1>3 DEF ClientOK

(* ends: what was shown as ended. *)
ShownEnds(c) == { m \in Messages : c.items[m].version.status = "completed" }
LEMMA ClientEnds ==
  ASSUME NEW w, NEW c, ClientOK(c, w, {})
  PROVE  ClientOK(c, w, ShownEnds(c)) /\ ShownEnds(c) \in SUBSET EndedIn(w.row)
BY DEF ClientOK, ViewOK, ShownEnds, EndedIn

LEMMA ClientForgets ==
  ASSUME NEW w, NEW c, NEW ends, ClientOK(c, w, ends)
  PROVE  ClientOK(c, w, {})
BY DEF ClientOK, ViewOK

-------------------------------------------------------------------------------
(* Part 4.  The delivery slots.                                              *)
SlotValues == Updates \cup Holes \cup Snapshots

LEMMA HolesAre ==
  ASSUME NEW m \in SlotValues
  PROVE  IsHole(m) <=> m \in Holes
BY DEF SlotValues, IsHole, Updates, Holes, Snapshots

LEMMA FirstHoleIs ==
  ASSUME NEW slots, Len(slots) \in Nat
  PROVE  LET n == FirstHole(slots)
         IN /\ n \in 0..Len(slots)
            /\ n = 0 => \A k \in 1..Len(slots) : ~IsHole(slots[k])
            /\ n > 0 => IsHole(slots[n]) /\ \A k \in 1..(n - 1) : ~IsHole(slots[k])
<1> DEFINE S == { i \in 1..Len(slots) : IsHole(slots[i]) }
<1>1. FirstHole(slots) = IF S # {} THEN Min(S) ELSE 0
  BY DEF FirstHole, SelectInSeq
<1>2. CASE S = {}
  BY <1>1, <1>2
<1>3. CASE S # {}
  <2>1. S \in SUBSET Nat
    OBVIOUS
  <2>2. Min(S) \in S /\ \A y \in S : Min(S) <= y
    <3> HIDE DEF S
    <3>1. QED
      BY <1>3, <2>1, LeastExists
  <2> DEFINE n == Min(S)
  <2>3. n \in 1..Len(slots) /\ IsHole(slots[n])
    BY <2>2
  <2>4. \A k \in 1..Len(slots) : k < n => k \notin S
    BY <2>2, <2>3
  <2>5. FirstHole(slots) = n
    BY <1>1, <1>3
  <2> HIDE DEF n
  <2>6. \A k \in 1..(n - 1) : ~IsHole(slots[k])
    BY <2>3, <2>4
  <2>7. QED
    BY <2>3, <2>5, <2>6
<1>4. QED
  BY <1>2, <1>3

LEMMA SlotsSplit ==
  ASSUME NEW slots \in Seq(SlotValues)
  PROVE  LET ready == ReadyPrefix(slots)
             rest == Rest(slots)
         IN /\ ready \in Seq(Updates \cup Snapshots) /\ Len(ready) \in 0..Len(slots)
            /\ \A k \in 1..Len(ready) : ready[k] = slots[k]
            /\ rest \in Seq(SlotValues) /\ Len(rest) = Len(slots) - Len(ready)
            /\ \A k \in 1..Len(rest) : rest[k] = slots[k + Len(ready)]
            /\ rest = << >> \/ IsHole(rest[1])
<1> DEFINE n == FirstHole(slots)
           ready == ReadyPrefix(slots)
           rest == Rest(slots)
<1>1. /\ n \in 0..Len(slots) /\ Len(slots) \in Nat
      /\ n = 0 => \A k \in 1..Len(slots) : ~IsHole(slots[k])
      /\ n > 0 => IsHole(slots[n]) /\ \A k \in 1..(n - 1) : ~IsHole(slots[k])
  <2>1. Len(slots) \in Nat
    OBVIOUS
  <2>2. QED
    BY <2>1, FirstHoleIs
<1>2. ready = IF n = 0 THEN slots ELSE SubSeq(slots, 1, n - 1)
  BY DEF ReadyPrefix
<1>3. rest = SubSeq(slots, Len(ready) + 1, Len(slots))
  BY DEF Rest
<1> HIDE DEF n, ready, rest
<1>4. /\ ready \in Seq(SlotValues) /\ Len(ready) = (IF n = 0 THEN Len(slots) ELSE n - 1)
      /\ \A k \in 1..Len(ready) : ready[k] = slots[k] /\ ~IsHole(slots[k])
  <2>1. CASE n = 0
    BY <1>1, <1>2, <2>1
  <2>2. CASE n # 0
    <3>1. n - 1 \in 0..Len(slots)
      BY <1>1, <2>2
    <3>2. SubSeq(slots, 1, n - 1) \in Seq(SlotValues) /\ Len(SubSeq(slots, 1, n - 1)) = n - 1
      BY <3>1
    <3>3. \A k \in 1..(n - 1) : SubSeq(slots, 1, n - 1)[k] = slots[k]
      BY <3>1
    <3>4. QED
      BY <1>1, <1>2, <2>2, <3>2, <3>3
  <2>3. QED
    BY <2>1, <2>2
<1>5. ready \in Seq(Updates \cup Snapshots)
  <2>1. \A k \in 1..Len(ready) : ready[k] \in Updates \cup Snapshots
    <3> TAKE k \in 1..Len(ready)
    <3>1. ready[k] \in SlotValues /\ ~IsHole(ready[k])
      BY <1>4
    <3>2. QED
      BY <3>1, HolesAre DEF SlotValues
  <2>2. QED
    BY <1>4, <2>1
<1>6. Len(ready) \in 0..Len(slots)
  BY <1>1, <1>4
<1>7. /\ rest \in Seq(SlotValues) /\ Len(rest) = Len(slots) - Len(ready)
      /\ \A k \in 1..Len(rest) : rest[k] = slots[k + Len(ready)]
  <2> DEFINE a == Len(ready) + 1
             b == Len(slots)
  <2>1. a \in Nat /\ b \in Nat /\ a >= 1 /\ a <= b + 1
    BY <1>1, <1>6
  <2>2. rest = SubSeq(slots, a, b)
    BY <1>3
  <2> HIDE DEF a
  <2>3. rest \in Seq(SlotValues) /\ Len(rest) = b - a + 1 /\ \A k \in 1..(b - a + 1) : rest[k] = slots[a + k - 1]
    BY <2>1, <2>2
  <2>4. QED
    BY <2>1, <2>3, <1>6 DEF a
<1>8. rest = << >> \/ IsHole(rest[1])
  <2>1. CASE n = 0
    <3>1. Len(rest) = 0
      BY <1>1, <1>4, <1>7, <2>1
    <3>2. QED
      BY <1>7, <3>1
  <2>2. CASE n # 0
    <3>1. Len(rest) >= 1 /\ 1 + Len(ready) = n
      BY <1>1, <1>4, <1>7, <2>2
    <3>2. rest[1] = slots[n]
      BY <1>7, <3>1
    <3>3. QED
      BY <1>1, <2>2, <3>2
  <2>3. QED
    BY <2>1, <2>2
<1>9. QED
  BY <1>4, <1>5, <1>6, <1>7, <1>8 DEF ready, rest

LEMMA Appends ==
  ASSUME NEW S, NEW q \in Seq(S), NEW x \in S
  PROVE  LET p == Append(q, x)
         IN /\ p \in Seq(S) /\ Len(p) = Len(q) + 1 /\ DOMAIN p = 1..(Len(q) + 1) /\ DOMAIN q = 1..Len(q)
            /\ Len(q) \in Nat /\ p # << >> /\ p[Len(q) + 1] = x
            /\ \A k \in DOMAIN q : k \in DOMAIN p /\ p[k] = q[k]
            /\ \A k \in DOMAIN p : k = Len(q) + 1 \/ (k \in DOMAIN q /\ p[k] = q[k])
            /\ p[1] = IF q = << >> THEN x ELSE q[1]
OBVIOUS

LEMMA Tails ==
  ASSUME NEW S, NEW q \in Seq(S), q # << >>
  PROVE  LET p == Tail(q)
         IN /\ p \in Seq(S) /\ Len(p) = Len(q) - 1 /\ DOMAIN p = 1..(Len(q) - 1) /\ DOMAIN q = 1..Len(q)
            /\ Len(q) \in Nat /\ Len(q) >= 1 /\ 1 \in DOMAIN q /\ q[1] \in S
            /\ \A k \in DOMAIN p : k + 1 \in DOMAIN q /\ p[k] = q[k + 1] /\ k \in Nat
            /\ \A k \in DOMAIN q : k # 1 => k - 1 \in DOMAIN p /\ p[k - 1] = q[k]
OBVIOUS

(* The head replaced by another value. *)
LEMMA Heads ==
  ASSUME NEW S, NEW q \in Seq(S), q # << >>, NEW x \in S
  PROVE  LET p == [q EXCEPT ![1] = x]
         IN /\ p \in Seq(S) /\ Len(p) = Len(q) /\ DOMAIN p = DOMAIN q /\ 1 \in DOMAIN q
            /\ p # << >> /\ p[1] = x /\ \A k \in DOMAIN q : k # 1 => p[k] = q[k]
OBVIOUS

(* An update to the subscriber is received, or waits behind a hole.          *)
LEMMA PublishIs ==
  ASSUME conn \in Connections, conn.slots = << >> \/ IsHole(conn.slots[1]),
         NEW m \in Updates, Publish(m)
  PROVE  /\ conn' \in Connections /\ conn'.open = conn.open /\ conn'.subscribed = conn.subscribed
         /\ conn'.capturing = conn.capturing
         /\ \/ ~conn.subscribed /\ conn' = conn /\ client' = client
            \/ conn.subscribed /\ conn.slots = << >> /\ conn'.slots = << >> /\ client' = Receives(client, m)
            \/ /\ conn.subscribed /\ conn.slots # << >>
               /\ conn'.slots = Append(conn.slots, m) /\ client' = client
         /\ conn'.slots = << >> \/ IsHole(conn'.slots[1])
<1>1. conn.slots \in Seq(Updates \cup Holes)
  BY DEF Connections
<1>2. CASE ~conn.subscribed
  BY <1>2 DEF Publish, screen
<1>3. CASE conn.subscribed
  <2> DEFINE slots == Append(conn.slots, m)
             ready == ReadyPrefix(slots)
             rest == Rest(slots)
  <2>1. /\ conn' = [conn EXCEPT !.slots = rest, !.capturing = conn.capturing]
        /\ client' = Delivered(client, ready)
    BY <1>3 DEF Publish, Drain
  <2>2. slots \in Seq(SlotValues) /\ slots \in Seq(Updates \cup Holes) /\ Len(slots) = Len(conn.slots) + 1
    BY <1>1, Appends DEF SlotValues
  <2>3. /\ ready \in Seq(Updates \cup Snapshots) /\ Len(ready) \in 0..Len(slots)
        /\ \A k \in 1..Len(ready) : ready[k] = slots[k]
        /\ rest \in Seq(SlotValues) /\ Len(rest) = Len(slots) - Len(ready)
        /\ \A k \in 1..Len(rest) : rest[k] = slots[k + Len(ready)]
        /\ rest = << >> \/ IsHole(rest[1])
    BY <2>2, SlotsSplit
  <2>4. m \notin Holes /\ Updates \cap Holes = {} /\ Snapshots \cap Holes = {}
    BY DEF Updates, Holes, Snapshots
  <2>5. CASE conn.slots = << >>
    <3>1. slots = << m >> /\ Len(slots) = 1 /\ slots[1] = m
      BY <2>5
    <3> HIDE DEF slots, ready, rest
    <3>2. ~IsHole(m)
      BY <2>4, HolesAre DEF SlotValues
    <3>3. Len(ready) = 1
      <4>1. Len(ready) = 0 => rest[1] = slots[1] /\ Len(rest) = 1
        BY <2>3, <3>1
      <4>2. QED
        BY <2>3, <3>1, <3>2, <4>1
    <3>4. ready = << m >> /\ rest = << >>
      <4>1. ready[1] = m
        BY <2>3, <3>1, <3>3
      <4>2. Len(rest) = 0
        BY <2>3, <3>1, <3>3
      <4>3. QED
        BY <2>3, <3>3, <4>1, <4>2
    <3>5. client' = Receives(client, m)
      BY <2>1, <3>4, DeliveredOne
    <3>6. << >> \in Seq(Updates \cup Holes)
      OBVIOUS
    <3>7. /\ conn' \in Connections /\ conn'.open = conn.open /\ conn'.subscribed = conn.subscribed
          /\ conn'.capturing = conn.capturing /\ conn'.slots = << >>
      BY <2>1, <3>4, <3>6 DEF Connections
    <3>8. QED
      BY <1>3, <2>5, <3>5, <3>7
  <2>6. CASE conn.slots # << >>
    <3>1. IsHole(slots[1]) /\ Len(slots) >= 1
      BY <1>1, <2>2, <2>6
    <3>2. Len(ready) = 0
      <4> SUFFICES ASSUME Len(ready) # 0 PROVE FALSE
        OBVIOUS
      <4> HIDE DEF slots, ready, rest
      <4>1. 1 \in 1..Len(ready) /\ ready[1] = slots[1] /\ ready[1] \in Updates \cup Snapshots
        BY <2>3
      <4>2. ready[1] \in SlotValues /\ ready[1] \notin Holes
        BY <2>4, <4>1 DEF SlotValues
      <4>3. QED
        BY <3>1, <4>1, <4>2, HolesAre
    <3>3. ready = << >> /\ rest = slots
      <4> HIDE DEF slots, ready, rest
      <4>1. Len(rest) = Len(slots) /\ \A k \in 1..Len(rest) : rest[k] = slots[k]
        BY <2>2, <2>3, <3>2
      <4>2. QED
        BY <2>2, <2>3, <3>2, <4>1
    <3>4. client' = client
      BY <2>1, <3>3, DeliveredNone
    <3> HIDE DEF ready, rest
    <3>5. /\ conn' \in Connections /\ conn'.open = conn.open /\ conn'.subscribed = conn.subscribed
          /\ conn'.capturing = conn.capturing /\ conn'.slots = slots
      <4> HIDE DEF slots
      <4>1. QED
        BY <2>1, <2>2, <3>3 DEF Connections
    <3>6. QED
      BY <1>3, <2>6, <3>1, <3>4, <3>5
  <2>7. QED
    BY <2>5, <2>6
<1>4. QED
  BY <1>2, <1>3

(* A snapshot fills the first hole: it is delivered with what waits up to    *)
(* the next one.                                                             *)
FilledWith(s, j, ready) ==
  /\ j \in 1..Len(conn.slots) /\ Len(ready) = j /\ ready[1] = s
  /\ ready \in Seq(Updates \cup Snapshots)
  /\ \A k \in 2..j : conn.slots[k] \in Updates /\ ready[k] = conn.slots[k]
  /\ client' = Delivered(client, ready)
  /\ Len(conn'.slots) = Len(conn.slots) - j
  /\ \A k \in DOMAIN conn'.slots : conn'.slots[k] = conn.slots[k + j] /\ k + j \in DOMAIN conn.slots
  /\ conn'.slots = << >> \/ IsHole(conn'.slots[1])

LEMMA FillIs ==
  ASSUME conn \in Connections, conn.slots # << >>, IsHole(conn.slots[1]),
         NEW s \in Snapshots, Fill(s)
  PROVE  /\ conn' \in Connections /\ conn'.open = conn.open /\ conn'.subscribed = conn.subscribed
         /\ \E j \in Nat, ready \in Seq(Updates \cup Snapshots) : FilledWith(s, j, ready)
         /\ conn'.capturing <=> conn'.slots # << >>
         /\ itemQueue' = IF conn'.capturing THEN Append(Tail(itemQueue), ReadOp) ELSE Tail(itemQueue)
         /\ FirstHole(conn.slots) = 1
<1>1. conn.slots \in Seq(Updates \cup Holes) /\ conn.slots \in Seq(SlotValues) /\ Len(conn.slots) \in Nat
  BY DEF Connections, SlotValues
<1>2. Len(conn.slots) >= 1
  BY <1>1
<1>3. FirstHole(conn.slots) = 1
  <2>1. FirstHole(conn.slots) # 0
    BY <1>1, <1>2, FirstHoleIs
  <2>2. FirstHole(conn.slots) > 1 => 1 \in 1..(FirstHole(conn.slots) - 1)
    BY <1>1, FirstHoleIs
  <2>3. ~(FirstHole(conn.slots) > 1)
    BY <1>1, <2>2, FirstHoleIs
  <2>4. QED
    BY <1>1, <2>1, <2>3, FirstHoleIs
<1> DEFINE slots == [conn.slots EXCEPT ![1] = s]
           ready == ReadyPrefix(slots)
           rest == Rest(slots)
           more == FirstHole(slots) # 0
<1>4. /\ conn' = [conn EXCEPT !.slots = rest, !.capturing = more]
      /\ client' = Delivered(client, ready)
      /\ itemQueue' = IF more THEN Append(Pop(itemQueue), ReadOp) ELSE Pop(itemQueue)
  BY <1>3 DEF Fill, Drain
<1>5. /\ slots \in Seq(SlotValues) /\ Len(slots) = Len(conn.slots) /\ slots[1] = s
      /\ \A k \in 2..Len(slots) : slots[k] = conn.slots[k]
  <2>1. s \in SlotValues
    BY DEF SlotValues
  <2>2. QED
    BY <1>1, <1>2, <2>1, Heads
<1> HIDE DEF slots
<1>6. /\ ready \in Seq(Updates \cup Snapshots) /\ Len(ready) \in 0..Len(slots)
      /\ \A k \in 1..Len(ready) : ready[k] = slots[k]
      /\ rest \in Seq(SlotValues) /\ Len(rest) = Len(slots) - Len(ready)
      /\ \A k \in 1..Len(rest) : rest[k] = slots[k + Len(ready)]
      /\ rest = << >> \/ IsHole(rest[1])
  BY <1>5, SlotsSplit
<1> HIDE DEF ready, rest
<1>7. Updates \cap Holes = {} /\ Snapshots \cap Holes = {} /\ Updates \cap Snapshots = {}
  BY DEF Updates, Holes, Snapshots
<1>8. ~IsHole(s)
  BY <1>7, HolesAre DEF SlotValues
<1> DEFINE j == Len(ready)
<1>9. j \in 1..Len(conn.slots)
  <2>1. j = 0 => Len(rest) >= 1 /\ rest[1] = slots[1]
    BY <1>2, <1>5, <1>6
  <2>2. j # 0
    BY <1>5, <1>6, <1>8, <2>1
  <2>3. QED
    BY <1>5, <1>6, <2>2
<1>10. ready[1] = s
  BY <1>5, <1>6, <1>9
<1>11. ASSUME NEW k \in 2..j PROVE conn.slots[k] \in Updates /\ ready[k] = conn.slots[k]
  <2>1. k \in 1..Len(ready) /\ k \in 2..Len(slots) /\ k \in 1..Len(conn.slots)
    BY <1>5, <1>6, <1>9
  <2>2. ready[k] = conn.slots[k] /\ ready[k] \in Updates \cup Snapshots
    BY <1>5, <1>6, <2>1
  <2>3. conn.slots[k] \in Updates \cup Holes
    BY <1>1, <2>1
  <2>4. Snapshots \cap (Updates \cup Holes) = {}
    BY <1>7
  <2>5. QED
    BY <2>2, <2>3, <2>4
<1>12. Len(rest) = Len(conn.slots) - j
  BY <1>5, <1>6
<1>13. ASSUME NEW k \in DOMAIN rest PROVE rest[k] = conn.slots[k + j] /\ k + j \in DOMAIN conn.slots
  <2>1. k \in 1..Len(rest) /\ k \in Nat
    BY <1>6
  <2>2. k + j \in 2..Len(slots) /\ k + j \in 1..Len(conn.slots)
    BY <1>5, <1>9, <1>12, <2>1
  <2>3. QED
    BY <1>1, <1>5, <1>6, <2>1, <2>2
<1>14. rest \in Seq(Updates \cup Holes)
  <2>1. \A k \in 1..Len(rest) : rest[k] \in Updates \cup Holes
    <3> TAKE k \in 1..Len(rest)
    <3>1. k \in DOMAIN rest
      BY <1>6
    <3>2. rest[k] = conn.slots[k + j] /\ k + j \in DOMAIN conn.slots
      BY <1>13, <3>1
    <3>3. QED
      BY <1>1, <3>2
  <2>2. QED
    BY <1>6, <2>1
<1>15. more \in BOOLEAN
  OBVIOUS
<1>16. more <=> rest # << >>
  <2>1. /\ FirstHole(slots) \in 0..Len(slots)
        /\ FirstHole(slots) = 0 => \A k \in 1..Len(slots) : ~IsHole(slots[k])
        /\ FirstHole(slots) > 0 => IsHole(slots[FirstHole(slots)])
    <3>1. Len(slots) \in Nat
      BY <1>5
    <3>2. QED
      BY <3>1, FirstHoleIs
  <2>2. ASSUME rest # << >> PROVE FirstHole(slots) # 0
    <3>1. Len(rest) >= 1 /\ IsHole(rest[1]) /\ 1 \in 1..Len(rest)
      BY <1>6, <2>2
    <3>2. rest[1] = slots[1 + j] /\ 1 + j \in 1..Len(slots)
      BY <1>6, <3>1
    <3>3. QED
      BY <2>1, <3>1, <3>2
  <2>3. ASSUME rest = << >> PROVE FirstHole(slots) = 0
    <3>1. j = Len(slots)
      BY <1>5, <1>6, <2>3
    <3>2. ASSUME NEW k \in 1..Len(slots) PROVE ~IsHole(slots[k])
      <4>1. slots[k] \in Updates \cup Snapshots
        BY <1>6, <3>1
      <4>2. slots[k] \in SlotValues /\ slots[k] \notin Holes
        BY <1>7, <4>1 DEF SlotValues
      <4>3. QED
        BY <4>2, HolesAre
    <3>3. QED
      BY <1>5, <2>1, <3>2
  <2>4. QED
    BY <2>2, <2>3
<1> HIDE DEF more
<1>17. /\ conn' \in Connections /\ conn'.open = conn.open /\ conn'.subscribed = conn.subscribed
       /\ conn'.slots = rest /\ conn'.capturing = more
  BY <1>4, <1>14, <1>15 DEF Connections
<1>18. FilledWith(s, j, ready)
  <2>1. conn'.slots = << >> \/ IsHole(conn'.slots[1])
    BY <1>6, <1>17
  <2>2. QED
    BY <1>4, <1>6, <1>9, <1>10, <1>11, <1>12, <1>13, <1>17, <2>1 DEF FilledWith
<1>19. j \in Nat
  BY <1>9
<1>20. QED
  BY <1>3, <1>4, <1>6, <1>16, <1>17, <1>18, <1>19 DEF Pop

-------------------------------------------------------------------------------
(* Values, the queues and what each action does, in terms of their types.    *)
LEMMA Values ==
  /\ Absent \in Versions /\ Unseen \in Cursors /\ NoItems \in Views /\ NoStream \in Captures
  /\ ReadOp \in Ops
  /\ \A k \in Nat : Running(k) \in Versions /\ Ended(k) \in Versions /\ Moved(k) \in Versions
  /\ \A kind \in { "start", "delta", "end", "project" }, i \in Items, v \in Versions :
       WriteOp(kind, i, v) \in Ops
  /\ \A i \in Items : NoItems[i] = Unseen /\ Unseen.sequence = -1 /\ Unseen.version = Absent
  /\ NoStream.id = 0 /\ NoStream.live = NoItems
  /\ ReadOp.kind = "read" /\ ReadOp.captured.id = 0 /\ ~ReadOp.dead
<1>1. Absent \in Versions /\ Unseen \in Cursors
  BY DEF Absent, Versions, Unseen, Cursors
<1>2. NoItems \in Views
  BY <1>1 DEF NoItems, Views
<1>3. NoStream \in Captures /\ NoStream.id = 0 /\ NoStream.live = NoItems
  BY <1>2 DEF NoStream, Captures
<1>4. ReadOp \in Ops /\ ReadOp.kind = "read" /\ ReadOp.captured.id = 0 /\ ~ReadOp.dead
  BY <1>1, <1>3 DEF ReadOp, Ops
<1>5. \A k \in Nat : Running(k) \in Versions /\ Ended(k) \in Versions /\ Moved(k) \in Versions
  BY DEF Running, Ended, Moved, Versions
<1>6. \A kind \in { "start", "delta", "end", "project" }, i \in Items, v \in Versions :
       WriteOp(kind, i, v) \in Ops
  BY <1>3 DEF WriteOp, Ops
<1>7. \A i \in Items : NoItems[i] = Unseen /\ Unseen.sequence = -1 /\ Unseen.version = Absent
  BY DEF NoItems, Unseen
<1>8. QED
  BY <1>1, <1>2, <1>3, <1>4, <1>5, <1>6, <1>7

LEMMA AppendsHead ==
  ASSUME NEW S, NEW q \in Seq(S), NEW x \in S
  PROVE  Append(q, x) \in Seq(S) /\ Append(q, x) # << >> /\ Append(q, x)[1] = IF q = << >> THEN x ELSE q[1]
BY Appends

LEMMA ReserveIs ==
  ASSUME conn \in Connections, conn.slots = << >> \/ IsHole(conn.slots[1]),
         NEW hole \in { "push hole", "reply hole" }, NEW queue, Reserve(hole, queue)
  PROVE  /\ conn' \in Connections /\ conn'.open = conn.open /\ conn'.subscribed = TRUE
         /\ conn'.capturing = TRUE /\ conn'.slots = Append(conn.slots, HoleFor(hole))
         /\ conn.slots \in Seq(Updates \cup Holes) /\ HoleFor(hole) \in Holes /\ IsHole(HoleFor(hole))
         /\ conn'.slots # << >> /\ IsHole(conn'.slots[1])
         /\ itemQueue' = IF conn.capturing THEN queue ELSE Append(queue, ReadOp)
<1> DEFINE h == HoleFor(hole)
<1>1. h \in Holes /\ IsHole(h)
  BY DEF HoleFor, Holes, IsHole
<1> HIDE DEF h
<1>2. conn.slots \in Seq(Updates \cup Holes)
  BY DEF Connections
<1> DEFINE slots == Append(conn.slots, h)
<1>3. slots \in Seq(Updates \cup Holes) /\ slots # << >> /\ slots[1] = IF conn.slots = << >> THEN h ELSE conn.slots[1]
  <2>1. h \in Updates \cup Holes
    BY <1>1
  <2>2. QED
    BY <1>2, <2>1, AppendsHead, Zenon
<1>4. IsHole(slots[1])
  BY <1>1, <1>3
<1>5. /\ conn' = [conn EXCEPT !.slots = slots, !.capturing = TRUE, !.subscribed = TRUE]
      /\ itemQueue' = IF conn.capturing THEN queue ELSE Append(queue, ReadOp)
  BY DEF Reserve, h
<1> HIDE DEF slots
<1>6. /\ conn' \in Connections /\ conn'.open = conn.open /\ conn'.subscribed = TRUE
      /\ conn'.capturing = TRUE /\ conn'.slots = slots
  BY <1>3, <1>5 DEF Connections
<1>7. QED
  BY <1>1, <1>2, <1>3, <1>4, <1>5, <1>6 DEF slots, h

Reserved(hole) ==
  /\ conn' \in Connections /\ conn'.open = conn.open /\ conn'.subscribed = TRUE
  /\ conn'.capturing = TRUE /\ conn'.slots = Append(conn.slots, HoleFor(hole))
  /\ conn.slots \in Seq(Updates \cup Holes) /\ HoleFor(hole) \in Holes /\ IsHole(HoleFor(hole))
  /\ conn'.slots # << >> /\ IsHole(conn'.slots[1])
  /\ itemQueue' = IF conn.capturing THEN itemQueue ELSE Append(itemQueue, ReadOp)

LEMMA PublishRunIs ==
  ASSUME conn \in Connections, conn.slots = << >> \/ IsHole(conn.slots[1]), PublishRun
  PROVE  /\ client' = client
         /\ \/ ~conn.subscribed /\ conn' = conn /\ itemQueue' = itemQueue
            \/ conn.subscribed /\ Reserved("push hole")
BY ReserveIs DEF PublishRun, Reserved, screen

LEMMA HeadDoneIs ==
  ASSUME stateQueue \in Seq(StateOps), HeadDone
  PROVE  /\ stateQueue' \in Seq(StateOps) /\ Len(stateQueue') = Len(stateQueue)
         /\ DOMAIN stateQueue' = DOMAIN stateQueue
         /\ \A k \in DOMAIN stateQueue :
              /\ stateQueue'[k].op = stateQueue[k].op /\ stateQueue'[k].by = stateQueue[k].by
              /\ stateQueue'[k].stage = stateQueue[k].stage /\ stateQueue'[k].to = stateQueue[k].to
              /\ stateQueue'[k].awaits =
                   IF k = 1 /\ stateQueue[1].stage = "draining" /\ stateQueue[1].awaits > 0
                   THEN stateQueue[1].awaits - 1 ELSE stateQueue[k].awaits
<1>1. CASE stateQueue # << >> /\ stateQueue[1].stage = "draining" /\ stateQueue[1].awaits > 0
  <2> DEFINE x == [stateQueue[1] EXCEPT !.awaits = @ - 1]
  <2>1. stateQueue[1] \in StateOps
    BY <1>1
  <2>2. x \in StateOps /\ x.op = stateQueue[1].op /\ x.by = stateQueue[1].by /\ x.to = stateQueue[1].to
        /\ x.stage = stateQueue[1].stage /\ x.awaits = stateQueue[1].awaits - 1
    BY <1>1, <2>1 DEF StateOps
  <2>3. stateQueue' = [stateQueue EXCEPT ![1] = x]
    BY <1>1 DEF HeadDone
  <2> HIDE DEF x
  <2>4. /\ stateQueue' \in Seq(StateOps) /\ Len(stateQueue') = Len(stateQueue)
        /\ DOMAIN stateQueue' = DOMAIN stateQueue
        /\ stateQueue'[1] = x /\ \A k \in DOMAIN stateQueue : k # 1 => stateQueue'[k] = stateQueue[k]
    BY <1>1, <2>2, <2>3, Heads
  <2>5. QED
    BY <1>1, <2>2, <2>4
<1>2. CASE ~(stateQueue # << >> /\ stateQueue[1].stage = "draining" /\ stateQueue[1].awaits > 0)
  <2>1. stateQueue' = stateQueue
    BY <1>2 DEF HeadDone
  <2>2. \A k \in DOMAIN stateQueue : k = 1 => stateQueue # << >>
    OBVIOUS
  <2>3. QED
    BY <1>2, <2>1, <2>2
<1>3. QED
  BY <1>1, <1>2

LEMMA ActiveIs ==
  ASSUME BaseTypeOK
  PROVE  /\ ActiveStream \in Captures /\ CreatedCount \in Nat /\ CreatedCount >= streams
         /\ stream.id # 0 => ActiveStream = stream /\ CreatedCount = streams
         /\ stream.id = 0 => /\ ActiveStream.id = streams + 1 /\ ActiveStream.live = NoItems
                             /\ CreatedCount = streams + 1
<1>1. [id |-> streams + 1, live |-> NoItems] \in Captures
  BY Values DEF BaseTypeOK, Captures
<1>2. QED
  BY <1>1 DEF BaseTypeOK, ActiveStream, CreatedCount, Captures

LEMMA WriterDoneIs ==
  ASSUME BaseTypeOK, NEW op, WriterDone(op)
  PROVE  /\ exec' \in Execs /\ exec'.pc = exec.pc /\ exec'.message = exec.message
         /\ exec'.body = exec.body /\ moved' \in SUBSET Inputs
         /\ IF op.kind = "project" THEN exec' = exec /\ moved' = moved \ {op.item}
                                   ELSE ~exec'.writing /\ moved' = moved
BY DEF WriterDone, BaseTypeOK, Execs

(* The operation under way. *)
LEMMA CurrentIs ==
  ASSUME BaseTypeOK, itemQueue # << >>
  PROVE  /\ Current \in Ops /\ Current = itemQueue[1] /\ 1 \in DOMAIN itemQueue
         /\ Current.kind \in { "read", "start", "delta", "end", "project" }
         /\ Current.item \in Items \cup { None } /\ Current.version \in Versions
         /\ Current.captured \in Captures /\ Current.captured.id \in Int
         /\ Current.captured.live \in Views
<1>1. Current \in Ops /\ Current = itemQueue[1] /\ 1 \in DOMAIN itemQueue
  BY DEF BaseTypeOK, Current
<1> HIDE DEF Current
<1>2. /\ Current.kind \in { "read", "start", "delta", "end", "project" }
      /\ Current.item \in Items \cup { None } /\ Current.version \in Versions
      /\ Current.captured \in Captures
  BY <1>1 DEF Ops
<1>3. Current.captured.id \in Int /\ Current.captured.live \in Views
  BY <1>2 DEF Captures
<1>4. QED
  BY <1>1, <1>2, <1>3


(* A message that the head of the queue publishes. *)
ItemOf(to, sequence) == [kind |-> "item", stream |-> to.id, item |-> Current.item,
                         version |-> Current.version, sequence |-> sequence]
DeltaOf(sequence) == [kind |-> "delta", stream |-> stream.id, item |-> Current.item,
                      version |-> Current.version, sequence |-> sequence]
NextOf(st, i) == st.live[i].sequence + 1
Landed(st, i, v) == [st EXCEPT !.live[i] = [version |-> v, sequence |-> NextOf(st, i)]]

LEMMA LandedIs ==
  ASSUME NEW st \in Captures, NEW i \in Items, NEW v \in Versions
  PROVE  LET r == Landed(st, i, v)
         IN /\ r \in Captures /\ r.id = st.id /\ NextOf(st, i) \in Nat
            /\ NextOf(st, i) = st.live[i].sequence + 1 /\ st.live[i].sequence \in Int
            /\ r.live[i] = [version |-> v, sequence |-> NextOf(st, i)]
            /\ \A j \in Items : j # i => r.live[j] = st.live[j]
            /\ r.live \in Views
<1> DEFINE x == [version |-> v, sequence |-> NextOf(st, i)]
<1>1. st.live \in Views /\ st.live[i].sequence \in Nat \cup { -1 }
  BY DEF Captures, Views, Cursors
<1>2. NextOf(st, i) \in Nat /\ NextOf(st, i) = st.live[i].sequence + 1 /\ x \in Cursors
  BY <1>1 DEF NextOf, Cursors
<1> HIDE DEF x
<1>3. [st.live EXCEPT ![i] = x] \in Views
  BY <1>1, <1>2 DEF Views
<1>4. /\ [st.live EXCEPT ![i] = x][i] = x
      /\ \A j \in Items : j # i => [st.live EXCEPT ![i] = x][j] = st.live[j]
  BY <1>1 DEF Views
<1>5. Landed(st, i, v) = [st EXCEPT !.live = [st.live EXCEPT ![i] = x]]
  BY DEF Landed, x, Captures
<1>6. Landed(st, i, v) \in Captures /\ Landed(st, i, v).id = st.id /\ Landed(st, i, v).live = [st.live EXCEPT ![i] = x]
  BY <1>3, <1>5 DEF Captures
<1>7. QED
  BY <1>1, <1>2, <1>3, <1>4, <1>6 DEF x

LEMMA UpdateTypes ==
  ASSUME NEW st \in Captures, st.id \in Nat, NEW i \in Items, NEW v \in Versions,
         NEW kind \in { "item", "delta" }
  PROVE  [kind |-> kind, stream |-> st.id, item |-> i, version |-> v, sequence |-> NextOf(st, i)] \in Updates
BY LandedIs DEF Updates

(* What each operation of the item queue does, in these words. *)
LEMMA PersistItemIs ==
  ASSUME BaseTypeOK, PersistItem
  PROVE  /\ itemQueue # << >> /\ Current.kind \in { "start", "end" } /\ Current.captured.id = 0
         /\ row' = [row EXCEPT ![Current.item] = Current.version]
         /\ stream' = ActiveStream /\ streams' = CreatedCount
         /\ \E op \in Ops : /\ itemQueue' = [itemQueue EXCEPT ![1] = op]
                            /\ op.kind = Current.kind /\ op.item = Current.item /\ op.version = Current.version
                            /\ op.dead = Current.dead /\ op.captured = ActiveStream
         /\ UNCHANGED << runStatus, fence, stateQueue, writers, screen, count >>
<1> DEFINE cap == ActiveStream
           op == [Current EXCEPT !.captured = cap]
<1>1. /\ itemQueue # << >> /\ Current.kind \in { "start", "end" } /\ Current.captured.id = 0
      /\ row' = [row EXCEPT ![Current.item] = Current.version]
      /\ stream' = ActiveStream /\ streams' = CreatedCount
      /\ itemQueue' = [itemQueue EXCEPT ![1].captured = ActiveStream]
      /\ UNCHANGED << runStatus, fence, stateQueue, writers, screen, count >>
  BY DEF PersistItem
<1>2. cap \in Captures /\ cap = ActiveStream
  BY ActiveIs
<1> HIDE DEF cap
<1>3. /\ op \in Ops /\ op.kind = Current.kind /\ op.item = Current.item /\ op.version = Current.version
      /\ op.dead = Current.dead /\ op.captured = cap
  BY <1>1, <1>2, CurrentIs DEF Ops
<1>4. itemQueue' = [itemQueue EXCEPT ![1] = op]
  BY <1>1 DEF Current, op, cap
<1> HIDE DEF op
<1>5. QED
  BY <1>1, <1>2, <1>3, <1>4

Captured(op, cap) ==
  /\ op \in Ops /\ op.kind = "read" /\ op.item = Current.item /\ op.dead = Current.dead
  /\ op.captured = cap

LEMMA CaptureStreamIs ==
  ASSUME BaseTypeOK, CaptureStream
  PROVE  /\ itemQueue # << >> /\ Current.kind = "read" /\ Current.captured.id = 0
         /\ \E op, cap : /\ itemQueue' = [itemQueue EXCEPT ![1] = op] /\ Captured(op, cap)
                         /\ \/ /\ stream.id = 0 /\ runStatus \in Terminal
                               /\ cap.id = -count.closes /\ cap.live = Current.captured.live
                               /\ stream' = stream /\ streams' = streams
                            \/ /\ ~(stream.id = 0 /\ runStatus \in Terminal)
                               /\ cap = ActiveStream
                               /\ stream' = ActiveStream /\ streams' = CreatedCount
         /\ UNCHANGED << durable, fence, stateQueue, writers, screen, count >>
<1>1. /\ itemQueue # << >> /\ Current.kind = "read" /\ Current.captured.id = 0
      /\ UNCHANGED << durable, fence, stateQueue, writers, screen, count >>
  BY DEF CaptureStream
<1>2. count.closes \in Nat
  BY DEF BaseTypeOK, Counts
<1>3. CASE stream.id = 0 /\ runStatus \in Terminal
  <2> DEFINE cap == [Current.captured EXCEPT !.id = -count.closes]
             op == [Current EXCEPT !.captured = cap]
  <2>1. itemQueue' = [itemQueue EXCEPT ![1].captured.id = -count.closes] /\ stream' = stream /\ streams' = streams
    BY <1>3 DEF CaptureStream
  <2>2. cap \in Captures /\ cap.id = -count.closes /\ cap.live = Current.captured.live
    BY <1>1, <1>2, CurrentIs DEF Captures
  <2>3. itemQueue' = [itemQueue EXCEPT ![1] = op]
    BY <1>1, <2>1 DEF Current
  <2> HIDE DEF cap
  <2>4. Captured(op, cap)
    BY <1>1, <2>2, CurrentIs DEF Ops, Captured
  <2> HIDE DEF op
  <2>5. QED
    BY <1>1, <1>3, <2>1, <2>2, <2>3, <2>4
<1>4. CASE ~(stream.id = 0 /\ runStatus \in Terminal)
  <2> DEFINE cap == ActiveStream
             op == [Current EXCEPT !.captured = cap]
  <2>1. /\ itemQueue' = [itemQueue EXCEPT ![1].captured = cap]
        /\ stream' = ActiveStream /\ streams' = CreatedCount
    BY <1>4 DEF CaptureStream
  <2>2. cap \in Captures
    BY ActiveIs
  <2>3. itemQueue' = [itemQueue EXCEPT ![1] = op]
    BY <1>1, <2>1 DEF Current
  <2>4. cap = ActiveStream
    OBVIOUS
  <2> HIDE DEF cap
  <2>5. Captured(op, cap)
    BY <1>1, <2>2, CurrentIs DEF Ops, Captured
  <2> HIDE DEF op
  <2>6. QED
    BY <1>1, <1>4, <2>1, <2>3, <2>4, <2>5
<1>5. QED
  BY <1>3, <1>4

LEMMA CurrentWrites ==
  ASSUME Base, itemQueue # << >>
  PROVE  /\ WriteOK(Current)
         /\ Current.kind \in MessageOps => Current.item \in Messages /\ Current.item \in Items
         /\ Current.kind = "project" => Current.item \in Inputs /\ Current.item \in Items
         /\ Current.captured.id = 0 => Current.captured.live = NoItems
BY CurrentIs DEF Base, WritersOK, WriteOK, Items

Publishes(to, m) ==
  /\ to \in Captures /\ m \in Updates /\ Current.item \in Items
  /\ m.stream = to.id /\ m.item = Current.item /\ m.version = Current.version
  /\ m.sequence = NextOf(to, Current.item)
  /\ stream' = Landed(to, Current.item, Current.version)
  /\ conn' \in Connections /\ conn'.open = conn.open /\ conn'.subscribed = conn.subscribed
  /\ conn'.capturing = conn.capturing
  /\ \/ ~conn.subscribed /\ conn' = conn /\ client' = client
     \/ conn.subscribed /\ conn.slots = << >> /\ conn'.slots = << >> /\ client' = Receives(client, m)
     \/ /\ conn.subscribed /\ conn.slots # << >>
        /\ conn'.slots = Append(conn.slots, m) /\ client' = client
  /\ conn'.slots = << >> \/ IsHole(conn'.slots[1])

LEMMA PublishItemIs ==
  ASSUME Base, PublishItem
  PROVE  /\ itemQueue # << >> /\ Current.kind \in { "start", "end", "project" }
         /\ Current.kind \in { "start", "end" } => Current.captured.id # 0
         /\ \E m : m.kind = "item" /\ Publishes(ActiveStream, m)
         /\ streams' = CreatedCount /\ itemQueue' = Tail(itemQueue)
         /\ HeadDone /\ WriterDone(Current)
         /\ UNCHANGED << durable, fence, count >>
<1> DEFINE to == ActiveStream
           i == Current.item
           v == Current.version
           m == ItemOf(to, NextOf(to, i))
<1>0. /\ itemQueue # << >> /\ Publishable
      /\ Current.kind = "project" => Current.captured.id = 0
      /\ Current.captured.id # 0 => Current.captured = stream /\ stream.id # 0
  <2>1. itemQueue # << >> /\ Publishable /\ BaseTypeOK
    BY DEF PublishItem, Base
  <2>2. Current = itemQueue[1] /\ 1 \in DOMAIN itemQueue
    BY <2>1, CurrentIs
  <2>3. Current.kind = "project" => Current.captured.id = 0
    BY <2>2 DEF Base, WritersOK
  <2>4. ASSUME Current.captured.id # 0 PROVE Current.captured = stream
    <3>1. Current.kind \in { "start", "end" }
      BY <2>1, <2>3, <2>4 DEF Publishable
    <3>2. Current.item \in Messages
      BY <2>1, <3>1, CurrentWrites DEF MessageOps
    <3>3. Persisted(Current.item)
      BY <2>1, <2>4, <3>1 DEF Persisted
    <3>4. QED
      BY <3>2, <3>3 DEF Base, StreamOK
  <2>5. QED
    BY <2>1, <2>3, <2>4
<1>1. /\ itemQueue # << >> /\ Current.kind \in { "start", "end", "project" }
      /\ Current.kind \in { "start", "end" } => Current.captured.id # 0
      /\ stream' = Landed(to, i, v) /\ streams' = CreatedCount /\ Publish(m)
      /\ itemQueue' = Tail(itemQueue)
      /\ HeadDone /\ WriterDone(Current)
      /\ UNCHANGED << durable, fence, count >>
  <2>1. StreamOfItem = to
    BY <1>0 DEF StreamOfItem, ActiveStream
  <2>2. /\ IF Current.captured.id # 0
            THEN stream' = (IF stream.id = to.id THEN Landed(to, i, v) ELSE stream) /\ UNCHANGED streams
            ELSE stream' = Landed(to, i, v) /\ streams' = CreatedCount
        /\ Publish(m)
        /\ itemQueue' = Tail(itemQueue)
        /\ HeadDone /\ WriterDone(Current)
        /\ UNCHANGED << durable, fence, count >>
    BY <2>1 DEF PublishItem, NextOf, Landed, ItemOf, Pop
  <2>3. Current.captured.id # 0 => to = stream /\ CreatedCount = streams
    BY <1>0 DEF ActiveStream, CreatedCount
  <2>4. stream' = Landed(to, i, v) /\ streams' = CreatedCount
    BY <2>2, <2>3
  <2>5. QED
    BY <1>0, <2>2, <2>4 DEF Publishable
<1>2. BaseTypeOK /\ stream.id \in Nat
  BY DEF Base, StreamOK
<1>3. i \in Items /\ v \in Versions
  BY <1>1, <1>2, CurrentWrites, CurrentIs DEF MessageOps
<1>4. to \in Captures /\ to.id \in Nat
  BY <1>2, ActiveIs DEF BaseTypeOK
<1>5. m \in Updates
  BY <1>3, <1>4, UpdateTypes DEF ItemOf
<1>6. m.kind = "item" /\ m.stream = to.id /\ m.item = i /\ m.version = v /\ m.sequence = NextOf(to, i)
  BY DEF ItemOf
<1>7. conn \in Connections /\ (conn.slots = << >> \/ IsHole(conn.slots[1]))
  BY <1>2 DEF BaseTypeOK
<1> HIDE DEF m, to, i, v
<1>8. /\ conn' \in Connections /\ conn'.open = conn.open /\ conn'.subscribed = conn.subscribed
      /\ conn'.capturing = conn.capturing
      /\ \/ ~conn.subscribed /\ conn' = conn /\ client' = client
         \/ conn.subscribed /\ conn.slots = << >> /\ conn'.slots = << >> /\ client' = Receives(client, m)
         \/ /\ conn.subscribed /\ conn.slots # << >>
            /\ conn'.slots = Append(conn.slots, m) /\ client' = client
      /\ conn'.slots = << >> \/ IsHole(conn'.slots[1])
  BY <1>1, <1>5, <1>7, PublishIs
<1>9. Publishes(to, m)
  BY <1>1, <1>3, <1>4, <1>5, <1>6, <1>8 DEF Publishes, i, v
<1>10. QED
  BY <1>1, <1>6, <1>9 DEF to

LEMMA AppendTextIs ==
  ASSUME Base, AppendText
  PROVE  /\ itemQueue # << >> /\ Current.kind = "delta"
         /\ \E m : m.kind = "delta" /\ Publishes(stream, m)
         /\ streams' = streams /\ itemQueue' = Tail(itemQueue)
         /\ HeadDone /\ WriterDone(Current)
         /\ UNCHANGED << durable, fence, count >>
<1> DEFINE i == Current.item
           v == Current.version
           m == DeltaOf(NextOf(stream, i))
<1>1. /\ itemQueue # << >> /\ Current.kind = "delta"
      /\ stream' = Landed(stream, i, v) /\ streams' = streams /\ Publish(m)
      /\ itemQueue' = Tail(itemQueue)
      /\ HeadDone /\ WriterDone(Current)
      /\ UNCHANGED << durable, fence, count >>
  BY DEF AppendText, NextOf, Landed, DeltaOf, Pop
<1>2. BaseTypeOK /\ stream.id \in Nat /\ stream \in Captures
  BY DEF Base, StreamOK, BaseTypeOK
<1>3. i \in Items /\ v \in Versions
  BY <1>1, <1>2, CurrentWrites, CurrentIs DEF MessageOps
<1>4. m \in Updates
  BY <1>2, <1>3, UpdateTypes DEF DeltaOf
<1>5. m.kind = "delta" /\ m.stream = stream.id /\ m.item = i /\ m.version = v /\ m.sequence = NextOf(stream, i)
  BY DEF DeltaOf
<1>6. conn \in Connections /\ (conn.slots = << >> \/ IsHole(conn.slots[1]))
  BY <1>2 DEF BaseTypeOK
<1> HIDE DEF m, i, v
<1>7. /\ conn' \in Connections /\ conn'.open = conn.open /\ conn'.subscribed = conn.subscribed
      /\ conn'.capturing = conn.capturing
      /\ \/ ~conn.subscribed /\ conn' = conn /\ client' = client
         \/ conn.subscribed /\ conn.slots = << >> /\ conn'.slots = << >> /\ client' = Receives(client, m)
         \/ /\ conn.subscribed /\ conn.slots # << >>
            /\ conn'.slots = Append(conn.slots, m) /\ client' = client
      /\ conn'.slots = << >> \/ IsHole(conn'.slots[1])
  BY <1>1, <1>4, <1>6, PublishIs
<1>8. Publishes(stream, m)
  BY <1>1, <1>2, <1>3, <1>4, <1>5, <1>7 DEF Publishes, i, v
<1>9. QED
  BY <1>1, <1>5, <1>8

(* The snapshot that the read under way makes. *)
Snapshot == [kind |-> MessageKind(conn.slots[FirstHole(conn.slots)]),
             stream |-> Current.captured.id, items |-> Presented(Current.captured)]

LEMMA PresentedIs ==
  ASSUME BaseTypeOK, NEW cap \in Captures
  PROVE  /\ Presented(cap) \in Views
         /\ \A i \in Items : Presented(cap)[i] =
              IF cap.live[i].sequence >= 0 THEN cap.live[i]
              ELSE IF row[i] # Absent THEN [version |-> row[i], sequence |-> 0] ELSE Unseen
<1>1. cap.live \in Views
  BY DEF Captures
<1>2. \A i \in Items : cap.live[i] \in Cursors /\ [version |-> row[i], sequence |-> 0] \in Cursors /\ Unseen \in Cursors
  BY <1>1, Values DEF Views, BaseTypeOK, Cursors
<1>3. QED
  BY <1>2 DEF Presented, Views

LEMMA LoadRowsIs ==
  ASSUME Base, LoadRows
  PROVE  /\ itemQueue # << >> /\ Current.kind = "read" /\ Current.captured.id # 0
         /\ IF Current.dead
            THEN itemQueue' = Tail(itemQueue) /\ UNCHANGED screen
            ELSE /\ conn.slots # << >> /\ IsHole(conn.slots[1]) /\ conn.subscribed
                 /\ Snapshot \in Snapshots
                 /\ Snapshot.kind = MessageKind(conn.slots[1])
                 /\ Snapshot.stream = Current.captured.id
                 /\ Snapshot.items = Presented(Current.captured)
                 /\ conn' \in Connections /\ conn'.open = conn.open /\ conn'.subscribed = conn.subscribed
                 /\ \E j \in Nat, ready \in Seq(Updates \cup Snapshots) : FilledWith(Snapshot, j, ready)
                 /\ conn'.capturing <=> conn'.slots # << >>
                 /\ conn'.slots = << >> \/ IsHole(conn'.slots[1])
                 /\ itemQueue' = IF conn'.capturing THEN Append(Tail(itemQueue), ReadOp) ELSE Tail(itemQueue)
         /\ HeadDone
         /\ UNCHANGED << durable, store, writers, count >>
<1>1. /\ itemQueue # << >> /\ Current.kind = "read" /\ Current.captured.id # 0
      /\ HeadDone
      /\ UNCHANGED << durable, store, writers, count >>
  BY DEF LoadRows
<1>2. CASE Current.dead
  BY <1>1, <1>2 DEF LoadRows, Pop
<1>3. CASE ~Current.dead
  <2>1. Fill(Snapshot)
    BY <1>3 DEF LoadRows, Snapshot
  <2>2. BaseTypeOK
    BY DEF Base
  <2>3. LiveRead(itemQueue[1]) /\ 1 \in DOMAIN itemQueue
    BY <1>1, <1>3, <2>2, CurrentIs DEF LiveRead
  <2>4. conn.capturing
    BY <2>3 DEF Base, ReadsOK
  <2>5. conn.slots # << >> /\ conn.subscribed
    BY <2>4 DEF Base, ConnectionOK
  <2>6. conn \in Connections /\ IsHole(conn.slots[1])
    BY <2>2, <2>5 DEF BaseTypeOK
  <2>7. \A h : MessageKind(h) \in { "push", "reply" }
    BY DEF MessageKind
  <2>8. Snapshot \in Snapshots
    BY <1>1, <2>2, <2>7, CurrentIs, PresentedIs DEF Snapshot, Snapshots
  <2>9. /\ conn' \in Connections /\ conn'.open = conn.open /\ conn'.subscribed = conn.subscribed
        /\ \E j \in Nat, ready \in Seq(Updates \cup Snapshots) : FilledWith(Snapshot, j, ready)
        /\ conn'.capturing <=> conn'.slots # << >>
        /\ itemQueue' = IF conn'.capturing THEN Append(Tail(itemQueue), ReadOp) ELSE Tail(itemQueue)
        /\ FirstHole(conn.slots) = 1
    <3> HIDE DEF Snapshot
    <3>1. QED
      BY <2>1, <2>5, <2>6, <2>8, FillIs
  <2>10. conn'.slots = << >> \/ IsHole(conn'.slots[1])
    BY <2>9 DEF FilledWith
  <2>11. /\ Snapshot.kind = MessageKind(conn.slots[1])
         /\ Snapshot.stream = Current.captured.id
         /\ Snapshot.items = Presented(Current.captured)
    BY <2>9 DEF Snapshot
  <2>12. QED
    BY <1>1, <1>3, <2>5, <2>6, <2>8, <2>9, <2>10, <2>11
<1>4. QED
  BY <1>2, <1>3

-------------------------------------------------------------------------------
(* Part 5.  The two chains, the fence and the connection: Base holds after   *)
(* every step, whatever the client does.                                     *)
LEMMA QueueOps ==
  ASSUME BaseTypeOK
  PROVE  /\ itemQueue \in Seq(Ops) /\ Len(itemQueue) \in Nat /\ DOMAIN itemQueue = 1..Len(itemQueue)
         /\ stateQueue \in Seq(StateOps) /\ Len(stateQueue) \in Nat
         /\ DOMAIN stateQueue = 1..Len(stateQueue)
         /\ \A k \in DOMAIN itemQueue :
              /\ itemQueue[k] \in Ops /\ k \in Nat /\ k >= 1
              /\ itemQueue[k].kind \in { "read", "start", "delta", "end", "project" }
         /\ \A k \in DOMAIN stateQueue : stateQueue[k] \in StateOps /\ k \in Nat /\ k >= 1
         /\ fence.pending \in Int /\ exec \in Execs
<1>1. /\ itemQueue \in Seq(Ops) /\ stateQueue \in Seq(StateOps)
      /\ fence.pending \in Int /\ exec \in Execs
  BY DEF BaseTypeOK, Fences
<1>2. \A op \in Ops : op.kind \in { "read", "start", "delta", "end", "project" }
  BY DEF Ops
<1>3. QED
  BY <1>1, <1>2

(* The connection and its reads are as they were. *)
LEMMA SameConnection ==
  ASSUME Base, conn' = conn, DOMAIN itemQueue' = DOMAIN itemQueue,
         \A k \in DOMAIN itemQueue : LiveRead(itemQueue'[k]) <=> LiveRead(itemQueue[k])
  PROVE  ConnectionOK' /\ ReadsOK'
BY DEF Base, ConnectionOK, ReadsOK

LEMMA FenceStays ==
  ASSUME Base, fence' = fence, exec'.pc = exec.pc, stateQueue' = stateQueue
  PROVE  FenceOK'
BY DEF Base, FenceOK

(* What an executor that may still write leaves out. *)
LEMMA NoMessageOps ==
  ASSUME Base, ~exec.writing
  PROVE  \A k \in DOMAIN itemQueue : itemQueue[k].kind \notin MessageOps
BY DEF Base, WritersOK, WriteOK

LEMMA FenceIsOpen ==
  ASSUME Base, ~fence.closed
  PROVE  ~fence.committed /\ (stateQueue # << >> => stateQueue[1].stage = "queued")
<1>1. ~fence.committed /\ ~(fence.pending > 0) /\ fence.pending \in Int
      /\ Len(stateQueue) = fence.pending + (IF exec.pc = "opening" THEN 1 ELSE 0)
  BY QueueOps DEF Base, FenceOK
<1>2. ASSUME stateQueue # << >> PROVE stateQueue[1].stage = "queued"
  <2>1. Len(stateQueue) >= 1 /\ DOMAIN stateQueue = 1..Len(stateQueue) /\ Len(stateQueue) \in Nat
    BY <1>2, QueueOps DEF Base
  <2>2. exec.pc = "opening" /\ DOMAIN stateQueue = {1}
    BY <1>1, <2>1
  <2>3. QED
    BY <2>2 DEF Base, FenceOK
<1>3. QED
  BY <1>1, <1>2

LEMMA FenceIsClosed ==
  ASSUME Base, stateQueue # << >>, stateQueue[1].op = "close"
  PROVE  fence.closed /\ fence.pending > 0 /\ 1 \in DOMAIN stateQueue
<1>1. 1 \in DOMAIN stateQueue /\ Len(stateQueue) >= 1
  BY QueueOps DEF Base
<1>2. CASE exec.pc = "opening"
  <2>1. PICK k \in DOMAIN stateQueue : stateQueue[k].op = "open"
    BY <1>2 DEF Base, FenceOK
  <2>2. k # 1 /\ Len(stateQueue) >= 2
    BY <2>1, QueueOps DEF Base
  <2>3. QED
    BY <1>1, <1>2, <2>2, QueueOps DEF Base, FenceOK
<1>3. CASE exec.pc # "opening"
  BY <1>1, <1>3, QueueOps DEF Base, FenceOK
<1>4. QED
  BY <1>2, <1>3

LEMMA PersistItemKeeps ==
  ASSUME Base, PersistItem
  PROVE  Base'
<1> DEFINE i == Current.item
           v == Current.version
<1>0. BaseTypeOK
  BY DEF Base
<1>1. /\ itemQueue # << >> /\ Current.kind \in { "start", "end" } /\ Current.captured.id = 0
      /\ row' = [row EXCEPT ![i] = v]
      /\ stream' = ActiveStream /\ streams' = CreatedCount
      /\ UNCHANGED << runStatus, fence, stateQueue, writers, screen, count >>
  BY <1>0, PersistItemIs, Zenon
<1>2. PICK op \in Ops : /\ itemQueue' = [itemQueue EXCEPT ![1] = op]
                        /\ op.kind = Current.kind /\ op.item = i /\ op.version = v
                        /\ op.dead = Current.dead /\ op.captured = ActiveStream
  BY <1>0, PersistItemIs, Zenon
<1>3. /\ itemQueue' \in Seq(Ops) /\ Len(itemQueue') = Len(itemQueue) /\ DOMAIN itemQueue' = DOMAIN itemQueue
      /\ 1 \in DOMAIN itemQueue /\ itemQueue' # << >> /\ itemQueue'[1] = op
      /\ \A k \in DOMAIN itemQueue : k # 1 => itemQueue'[k] = itemQueue[k]
  <2>1. itemQueue \in Seq(Ops)
    BY <1>0, QueueOps
  <2>2. QED
    BY <1>1, <1>2, <2>1, Heads
<1>4. WriteOK(Current) /\ i \in Messages /\ i \in Items /\ v \in Versions /\ Current = itemQueue[1]
  BY <1>0, <1>1, CurrentWrites, CurrentIs DEF MessageOps
<1>5. /\ ActiveStream \in Captures /\ CreatedCount \in Nat /\ ActiveStream.id # 0
      /\ ActiveStream.id \in 0..CreatedCount /\ ActiveStream.live = stream.live
  BY <1>0, ActiveIs DEF Base, StreamOK, BaseTypeOK
<1>6. row \in [Items -> Versions] /\ row' \in [Items -> Versions] /\ row'[i] = v
      /\ \A j \in Items : j # i => row'[j] = row[j]
  BY <1>0, <1>1, <1>4 DEF BaseTypeOK
<1>7. exec' = exec /\ moved' = moved /\ conn' = conn /\ fence' = fence /\ stateQueue' = stateQueue
      /\ runStatus' = runStatus /\ count' = count
  BY <1>1 DEF writers, screen
<1>8. \A k \in DOMAIN itemQueue : k # 1 => itemQueue[k].kind \notin MessageOps
  BY <1>1, <1>3, <1>4 DEF Base, WritersOK, MessageOps
<1>9. exec.writing
  BY <1>1, <1>4 DEF WriteOK, MessageOps
<1> HIDE DEF i, v
<1>10. BaseTypeOK'
  BY <1>0, <1>1, <1>3, <1>5, <1>6, <1>7 DEF BaseTypeOK
<1>11. FenceOK'
  BY <1>7, FenceStays
<1>12. WritersOK'
  <2>1. WriteOK(itemQueue[1])' /\ op.captured.id # 0
    <3>1. WriteOK(itemQueue[1]) /\ itemQueue[1].kind \in { "start", "end" } /\ itemQueue[1].captured.id = 0
          /\ itemQueue[1].item = i /\ itemQueue[1].version = v
      BY <1>1, <1>4 DEF i, v
    <3>2. itemQueue'[1].kind = itemQueue[1].kind /\ itemQueue'[1].item = i /\ itemQueue'[1].version = v
          /\ itemQueue'[1].captured.id # 0
      BY <1>2, <1>3, <1>4, <1>5
    <3>3. QED
      BY <1>3, <1>4, <1>5, <1>6, <1>7, <3>1, <3>2 DEF WriteOK, MessageOps, Running
  <2>2. \A k \in DOMAIN itemQueue : k # 1 => WriteOK(itemQueue[k])'
    BY <1>3, <1>7, <1>8 DEF Base, WritersOK, WriteOK, MessageOps
  <2>3. QED
    BY <1>1, <1>2, <1>3, <1>4, <1>7, <1>8, <1>9, <2>1, <2>2 DEF Base, WritersOK, MessageOps
<1>13. QuietOK'
  <2>1. ~OnlyReads
    BY <1>1, <1>3, <1>4 DEF OnlyReads
  <2>2. \A k \in DOMAIN itemQueue : itemQueue'[k].kind = itemQueue[k].kind
    BY <1>2, <1>3, <1>4
  <2>3. QED
    BY <1>3, <1>7, <2>1, <2>2 DEF Base, QuietOK
<1>14. StreamOK'
  <2>1. row[i].status # "completed" /\ (Current.kind = "start" => v.status = "running")
    BY <1>1, <1>4 DEF WriteOK, Absent, Running, v, i
  <2>2. \A m \in Messages : stream'.live[m].version.status = "completed" => stream'.live[m].version = row'[m]
    <3> TAKE m \in Messages
    <3>1. m \in Items
      BY DEF Items
    <3>2. QED
      BY <1>1, <1>5, <1>6, <2>1, <3>1 DEF Base, StreamOK
  <2>3. itemQueue' # << >> /\ itemQueue'[1].item = i /\ itemQueue'[1].kind \in { "start", "end" }
        /\ itemQueue'[1].captured.id # 0
    BY <1>1, <1>2, <1>3, <1>5
  <2>4. ASSUME NEW m \in Messages, row'[m].status = "completed"
        PROVE  stream'.live[m].sequence = -1 \/ stream'.live[m].version = row'[m] \/ Persisted(m)'
    <3>1. CASE m = i
      BY <2>3, <3>1 DEF Persisted, Current
    <3>2. CASE m # i
      <4>1. ~Persisted(m) /\ row'[m] = row[m]
        BY <1>6, <3>2 DEF Persisted, Items, i
      <4>2. QED
        BY <1>1, <1>5, <2>4, <4>1 DEF Base, StreamOK
    <3>3. QED
      BY <3>1, <3>2
  <2>5. Current'.captured = stream'
    BY <1>1, <1>2, <1>3 DEF Current
  <2>6. QED
    BY <1>1, <1>5, <2>2, <2>4, <2>5 DEF StreamOK
<1>15. ConnectionOK' /\ ReadsOK'
  <2>1. \A k \in DOMAIN itemQueue : LiveRead(itemQueue'[k]) <=> LiveRead(itemQueue[k])
    BY <1>2, <1>3, <1>4 DEF LiveRead
  <2>2. QED
    BY <1>3, <1>7, <2>1, SameConnection
<1>16. QED
  BY <1>10, <1>11, <1>12, <1>13, <1>14, <1>15 DEF Base

(* The head of the queue leaves it. *)
LEMMA TailIs ==
  ASSUME Base, itemQueue # << >>, NEW p, p = Tail(itemQueue)
  PROVE  /\ p \in Seq(Ops) /\ Len(p) = Len(itemQueue) - 1 /\ Len(p) \in Nat
         /\ DOMAIN p = 1..Len(p)
         /\ \A k \in DOMAIN p : /\ k + 1 \in DOMAIN itemQueue /\ p[k] = itemQueue[k + 1] /\ k \in Nat
                                /\ k >= 1 /\ k + 1 # 1 /\ p[k].captured.id = 0
         /\ \A k \in DOMAIN itemQueue : k # 1 => k - 1 \in DOMAIN p /\ p[k - 1] = itemQueue[k]
<1>1. itemQueue \in Seq(Ops) /\ Len(itemQueue) \in Nat
  BY QueueOps DEF Base
<1>2. /\ p \in Seq(Ops) /\ Len(p) = Len(itemQueue) - 1 /\ DOMAIN p = 1..(Len(itemQueue) - 1)
      /\ Len(itemQueue) >= 1
      /\ \A k \in DOMAIN p : k + 1 \in DOMAIN itemQueue /\ p[k] = itemQueue[k + 1] /\ k \in Nat
      /\ \A k \in DOMAIN itemQueue : k # 1 => k - 1 \in DOMAIN p /\ p[k - 1] = itemQueue[k]
  BY <1>1, Tails
<1>3. \A k \in DOMAIN p : k >= 1 /\ k + 1 # 1
  BY <1>2
<1>4. \A k \in DOMAIN p : p[k].captured.id = 0
  BY <1>2, <1>3 DEF Base, WritersOK
<1>5. QED
  BY <1>1, <1>2, <1>3, <1>4

LEMMA HeadDoneKeeps ==
  ASSUME Base, HeadDone, fence' = fence, exec'.pc = exec.pc
  PROVE  FenceOK'
<1>1. stateQueue \in Seq(StateOps)
  BY QueueOps DEF Base
<1>2. QED
  BY <1>1, HeadDoneIs DEF Base, FenceOK

(* A write leaves the queue: what the closing of the run waits for. *)
LEMMA HeadDoneQuiets ==
  ASSUME Base, HeadDone, itemQueue # << >>, Current.kind # "read",
         itemQueue' = Tail(itemQueue), fence' = fence, runStatus' = runStatus, exec'.pc = exec.pc,
         moved' \in SUBSET moved
  PROVE  QuietOK'
<1>1. stateQueue \in Seq(StateOps) /\ \A k \in DOMAIN stateQueue : stateQueue[k].awaits \in Nat
  BY QueueOps DEF Base, StateOps
<1>2. 1 \in DOMAIN itemQueue /\ Current = itemQueue[1] /\ Len(itemQueue) \in Nat
  BY CurrentIs, QueueOps DEF Base
<1>3. ~OnlyReads
  BY <1>2 DEF OnlyReads
<1>4. ~(stateQueue # << >> /\ stateQueue[1].stage = "installed") /\ ~fence.committed
      /\ runStatus \notin Terminal
  BY <1>3 DEF Base, QuietOK
<1>5. ~(stateQueue' # << >> /\ stateQueue'[1].stage = "installed") /\ ~fence'.committed
      /\ runStatus' \notin Terminal
  <2>1. stateQueue' # << >> => stateQueue # << >> /\ 1 \in DOMAIN stateQueue
    BY <1>1, HeadDoneIs
  <2>2. QED
    BY <1>1, <1>4, <2>1, HeadDoneIs
<1>6. ASSUME stateQueue' # << >>, stateQueue'[1].stage = "draining"
      PROVE  /\ stateQueue'[1].awaits <= Len(itemQueue')
             /\ \A k \in DOMAIN itemQueue' : k > stateQueue'[1].awaits => itemQueue'[k].kind = "read"
  <2>1. stateQueue # << >> /\ 1 \in DOMAIN stateQueue
    BY <1>1, <1>6, HeadDoneIs
  <2>2. stateQueue[1].stage = "draining" /\ stateQueue[1].awaits \in Nat
    BY <1>1, <1>6, <2>1, HeadDoneIs
  <2>3. /\ stateQueue[1].awaits <= Len(itemQueue)
        /\ \A k \in DOMAIN itemQueue : k > stateQueue[1].awaits => itemQueue[k].kind = "read"
    BY <2>1, <2>2 DEF Base, QuietOK
  <2>4. stateQueue[1].awaits > 0
    BY <1>2, <2>2, <2>3
  <2>5. stateQueue'[1].awaits = stateQueue[1].awaits - 1
    BY <1>1, <2>1, <2>2, <2>4, HeadDoneIs
  <2>6. QED
    BY <1>2, <2>2, <2>3, <2>5, TailIs
<1>7. QED
  BY <1>3, <1>4, <1>5, <1>6 DEF QuietOK, Terminal

LEMMA ReadsStay ==
  ASSUME Base, itemQueue # << >>, Current.kind # "read", itemQueue' = Tail(itemQueue),
         conn'.capturing = conn.capturing
  PROVE  ReadsOK'
<1>1. 1 \in DOMAIN itemQueue /\ ~LiveRead(itemQueue[1])
  BY CurrentIs DEF Base, LiveRead
<1>2. \A k \in DOMAIN itemQueue : LiveRead(itemQueue[k]) =>
         k # 1 /\ k - 1 \in DOMAIN itemQueue' /\ LiveRead(itemQueue'[k - 1])
  BY <1>1, TailIs DEF LiveRead
<1>3. \A k \in DOMAIN itemQueue' : /\ k + 1 \in DOMAIN itemQueue /\ k \in Nat
                                   /\ LiveRead(itemQueue'[k]) => LiveRead(itemQueue[k + 1])
  BY TailIs DEF LiveRead
<1>4. (\E k \in DOMAIN itemQueue : LiveRead(itemQueue[k])) <=> \E k \in DOMAIN itemQueue' : LiveRead(itemQueue'[k])
  BY <1>2, <1>3
<1>5. \A j, k \in DOMAIN itemQueue' : LiveRead(itemQueue'[j]) /\ LiveRead(itemQueue'[k]) => j = k
  <2> TAKE j, k \in DOMAIN itemQueue'
  <2> HAVE LiveRead(itemQueue'[j]) /\ LiveRead(itemQueue'[k])
  <2>1. j + 1 = k + 1 /\ j \in Nat /\ k \in Nat
    BY <1>3 DEF Base, ReadsOK
  <2>2. QED
    BY <2>1
<1>6. QED
  BY <1>4, <1>5 DEF Base, ReadsOK

LEMMA PublishesKeeps ==
  ASSUME Base, itemQueue # << >>, Current.kind # "read",
         Current.kind \in { "start", "end" } => Current.captured.id # 0,
         NEW to \in Captures, to.id # 0, to.id \in 0..streams', to.live = stream.live,
         streams' \in Nat, NEW m, Publishes(to, m), itemQueue' = Tail(itemQueue),
         HeadDone, WriterDone(Current), UNCHANGED << durable, fence, count >>
  PROVE  Base'
<1> DEFINE i == Current.item
           v == Current.version
<1>0. BaseTypeOK
  BY DEF Base
<1>1. /\ WriteOK(Current) /\ i \in Items /\ v \in Versions /\ Current = itemQueue[1]
      /\ 1 \in DOMAIN itemQueue
      /\ Current.kind \in { "start", "end", "delta", "project" }
      /\ Current.kind \in MessageOps => i \in Messages
      /\ Current.kind = "project" => i \in Inputs /\ i \notin Messages
  BY <1>0, CurrentWrites, CurrentIs, StreamAssumption DEF MessageOps, Publishes
<1>2. /\ stream' \in Captures /\ stream'.id = to.id /\ stream'.live[i].version = v
      /\ stream'.live[i].sequence \in Nat
      /\ \A j \in Items : j # i => stream'.live[j] = stream.live[j]
  <2>1. stream' = Landed(to, i, v) /\ i \in Items /\ v \in Versions
    BY <1>1 DEF Publishes
  <2> HIDE DEF i, v
  <2>2. /\ stream' \in Captures /\ stream'.id = to.id /\ NextOf(to, i) \in Nat
        /\ stream'.live[i] = [version |-> v, sequence |-> NextOf(to, i)]
        /\ \A j \in Items : j # i => stream'.live[j] = to.live[j]
    BY <2>1, LandedIs, Zenon
  <2>3. QED
    BY <2>2
<1>3. row' = row /\ runStatus' = runStatus /\ fence' = fence /\ count' = count
  BY DEF durable
<1>4. /\ exec' \in Execs /\ exec'.pc = exec.pc /\ exec'.message = exec.message
      /\ exec'.body = exec.body /\ moved' \in SUBSET Inputs /\ moved' \in SUBSET moved
      /\ IF Current.kind = "project" THEN exec' = exec ELSE ~exec'.writing
  BY <1>0, WriterDoneIs
<1>5. /\ conn' \in Connections /\ (conn'.slots = << >> \/ IsHole(conn'.slots[1]))
      /\ conn'.capturing = conn.capturing
  BY DEF Publishes
<1>6. BaseTypeOK'
  <2>1. stateQueue' \in Seq(StateOps)
    BY <1>0, HeadDoneIs, QueueOps
  <2>2. QED
    BY <1>0, <1>2, <1>3, <1>4, <1>5, <2>1, TailIs DEF BaseTypeOK
<1>7. FenceOK'
  BY <1>3, <1>4, HeadDoneKeeps
<1>8. QuietOK'
  BY <1>3, <1>4, HeadDoneQuiets
<1>9. ConnectionOK'
  <2>1. conn.slots # << >> => conn'.slots # << >>
    <3>1. conn.slots \in Seq(Updates \cup Holes)
      BY <1>0 DEF BaseTypeOK, Connections
    <3>2. m \in Updates \cup Holes
      BY DEF Publishes
    <3>3. QED
      BY <3>1, <3>2, AppendsHead DEF Publishes
  <2>2. QED
    BY <2>1 DEF Base, ConnectionOK, Publishes
<1>10. ReadsOK'
  BY <1>5, ReadsStay
<1> HIDE DEF i, v
<1>11. WritersOK'
  <2>1. \A k \in DOMAIN itemQueue : k # 1 /\ itemQueue[k].kind \in MessageOps => Current.kind = "project"
    BY <1>1 DEF Base, WritersOK, MessageOps
  <2>2. Current.kind = "project" => \A j \in Messages : j # i /\ stream'.live[j] = stream.live[j]
    BY <1>1, <1>2 DEF Items, i
  <2>3. \A k \in DOMAIN itemQueue' : WriteOK(itemQueue[k])'
    <3> TAKE k \in DOMAIN itemQueue'
    <3>1. /\ k + 1 \in DOMAIN itemQueue /\ itemQueue'[k] = itemQueue[k + 1] /\ k + 1 # 1
          /\ WriteOK(itemQueue[k + 1])
      BY TailIs DEF Base, WritersOK
    <3>2. CASE itemQueue[k + 1].kind \in MessageOps
      <4>1. Current.kind = "project" /\ exec' = exec /\ itemQueue[k + 1].item \in Messages
        BY <1>4, <2>1, <3>1, <3>2 DEF WriteOK
      <4>2. stream'.live[itemQueue[k + 1].item] = stream.live[itemQueue[k + 1].item]
        BY <2>2, <4>1
      <4>3. QED
        BY <1>3, <3>1, <4>1, <4>2 DEF WriteOK, MessageOps
    <3>3. CASE itemQueue[k + 1].kind \notin MessageOps
      BY <3>1, <3>3 DEF WriteOK, MessageOps
    <3>4. QED
      BY <3>2, <3>3
  <2>4. \A k \in DOMAIN itemQueue' : itemQueue'[k].captured.id = 0 /\ itemQueue'[k].captured.live = NoItems
    BY TailIs DEF Base, WritersOK
  <2>5. \A j, k \in DOMAIN itemQueue' :
          itemQueue'[j].kind \in MessageOps /\ itemQueue'[k].kind \in MessageOps => j = k
    <3> TAKE j, k \in DOMAIN itemQueue'
    <3> HAVE itemQueue'[j].kind \in MessageOps /\ itemQueue'[k].kind \in MessageOps
    <3>1. j + 1 = k + 1 /\ j \in Nat /\ k \in Nat
      BY TailIs DEF Base, WritersOK
    <3>2. QED
      BY <3>1
  <2>6. (exec'.writing => exec'.pc = "writing") /\ (exec'.pc = "opening" => exec'.message = None)
    BY <1>4 DEF Base, WritersOK
  <2>7. ASSUME exec'.pc = "writing", ~exec'.writing, exec'.message # None
        PROVE  /\ row'[exec'.message].status = "running"
               /\ fence'.closed \/ stream'.live[exec'.message].sequence >= 0
    <3>1. CASE Current.kind = "project"
      <4>1. /\ exec' = exec /\ exec.message \in Messages
            /\ row[exec.message].status = "running"
            /\ fence.closed \/ stream.live[exec.message].sequence >= 0
        BY <1>0, <1>4, <2>7, <3>1 DEF Base, WritersOK, BaseTypeOK, Execs
      <4>2. QED
        BY <1>3, <2>2, <3>1, <4>1
    <3>2. CASE Current.kind # "project"
      <4>1. Current.item = exec.message /\ row[i].status = "running" /\ i = Current.item
        BY <1>1, <1>4, <2>7, <3>2 DEF WriteOK, Running, i
      <4>2. QED
        BY <1>2, <1>3, <1>4, <4>1
    <3>3. QED
      BY <3>1, <3>2
  <2>8. QED
    BY <2>3, <2>4, <2>5, <2>6, <2>7 DEF WritersOK
<1>12. StreamOK'
  <2>1. i \in Messages => Current.kind \in MessageOps
    BY <1>1 DEF MessageOps, i
  <2>2. i \in Messages /\ v.status = "completed" => row[i] = v
    BY <1>1, <2>1 DEF WriteOK, MessageOps, Running, i, v
  <2>3. i \in Messages /\ row[i].status = "completed" => row[i] = v
    BY <1>1, <2>1 DEF WriteOK, MessageOps, Running, i, v
  <2>4. \A j \in Messages : j # i => ~Persisted(j)
    BY DEF Persisted, i
  <2>5. ASSUME NEW j \in Messages
        PROVE  /\ stream'.live[j].version.status = "completed" => stream'.live[j].version = row[j]
               /\ row[j].status = "completed" =>
                    stream'.live[j].sequence = -1 \/ stream'.live[j].version = row[j]
    <3>1. CASE j = i
      BY <1>2, <2>2, <2>3, <3>1
    <3>2. CASE j # i
      BY <1>2, <2>4, <3>2 DEF Base, StreamOK, Items
    <3>3. QED
      BY <3>1, <3>2
  <2>6. \A j \in Messages : ~Persisted(j)'
    <3> DEFINE p == Tail(itemQueue)
    <3> HIDE DEF p
    <3>1. /\ p \in Seq(Ops) /\ Len(p) \in Nat /\ DOMAIN p = 1..Len(p)
          /\ \A k \in DOMAIN p : p[k].captured.id = 0
      BY TailIs DEF p
    <3>2. p # << >> => 1 \in DOMAIN p
      BY <3>1
    <3>3. itemQueue' = p
      BY DEF p
    <3>4. QED
      BY <3>1, <3>2, <3>3 DEF Persisted, Current
  <2>7. QED
    BY <1>2, <1>3, <2>5, <2>6 DEF StreamOK
<1>13. QED
  BY <1>6, <1>7, <1>8, <1>9, <1>10, <1>11, <1>12 DEF Base

LEMMA PublishItemKeeps ==
  ASSUME Base, PublishItem
  PROVE  Base'
<1>1. /\ itemQueue # << >> /\ Current.kind # "read"
      /\ Current.kind \in { "start", "end" } => Current.captured.id # 0
      /\ streams' = CreatedCount /\ itemQueue' = Tail(itemQueue)
      /\ HeadDone /\ WriterDone(Current)
      /\ UNCHANGED << durable, fence, count >>
  BY PublishItemIs
<1>2. PICK m : Publishes(ActiveStream, m)
  BY PublishItemIs
<1>3. /\ ActiveStream \in Captures /\ ActiveStream.id # 0 /\ ActiveStream.id \in 0..CreatedCount
      /\ ActiveStream.live = stream.live /\ CreatedCount \in Nat
  BY ActiveIs DEF Base, StreamOK, BaseTypeOK
<1>4. QED
  BY <1>1, <1>2, <1>3, PublishesKeeps

LEMMA AppendTextKeeps ==
  ASSUME Base, AppendText
  PROVE  Base'
<1>1. /\ itemQueue # << >> /\ Current.kind = "delta"
      /\ streams' = streams /\ itemQueue' = Tail(itemQueue)
      /\ HeadDone /\ WriterDone(Current)
      /\ UNCHANGED << durable, fence, count >>
  BY AppendTextIs
<1>2. PICK m : Publishes(stream, m)
  BY AppendTextIs
<1>3. stream.live[Current.item].sequence >= 0 /\ Current.item \in Items
  BY <1>1, CurrentWrites DEF WriteOK, MessageOps
<1>4. stream \in Captures /\ stream.id # 0 /\ stream.id \in 0..streams /\ streams \in Nat
  <2>1. NoItems[Current.item].sequence = -1
    BY <1>3, Values
  <2>2. QED
    BY <1>3, <2>1 DEF Base, BaseTypeOK, StreamOK
<1>5. QED
  BY <1>1, <1>2, <1>4, PublishesKeeps

LEMMA CaptureStreamKeeps ==
  ASSUME Base, CaptureStream
  PROVE  Base'
<1>0. BaseTypeOK
  BY DEF Base
<1>1. /\ itemQueue # << >> /\ Current.kind = "read" /\ Current.captured.id = 0
      /\ UNCHANGED << durable, fence, stateQueue, writers, screen, count >>
  BY <1>0, CaptureStreamIs
<1>2. PICK op, cap : /\ itemQueue' = [itemQueue EXCEPT ![1] = op] /\ Captured(op, cap)
                     /\ \/ /\ stream.id = 0 /\ runStatus \in Terminal
                           /\ cap.id = -count.closes /\ cap.live = Current.captured.live
                           /\ stream' = stream /\ streams' = streams
                        \/ /\ ~(stream.id = 0 /\ runStatus \in Terminal)
                           /\ cap = ActiveStream
                           /\ stream' = ActiveStream /\ streams' = CreatedCount
  BY <1>0, CaptureStreamIs
<1>3. op \in Ops /\ op.kind = "read" /\ op.dead = Current.dead /\ op.captured = cap
  BY <1>2 DEF Captured
<1>4. /\ itemQueue' \in Seq(Ops) /\ Len(itemQueue') = Len(itemQueue) /\ DOMAIN itemQueue' = DOMAIN itemQueue
      /\ 1 \in DOMAIN itemQueue /\ itemQueue' # << >> /\ itemQueue'[1] = op
      /\ \A k \in DOMAIN itemQueue : k # 1 => itemQueue'[k] = itemQueue[k]
  <2>1. itemQueue \in Seq(Ops)
    BY <1>0, QueueOps
  <2>2. QED
    BY <1>1, <1>2, <1>3, <2>1, Heads
<1>5. Current = itemQueue[1]
  BY DEF Current
<1>6. /\ stream' \in Captures /\ streams' \in Nat /\ stream'.id \in 0..streams' /\ stream'.live = stream.live
      /\ stream'.id = 0 => stream'.live = NoItems
      /\ cap.id = 0 => cap.live = NoItems
  BY <1>0, <1>1, <1>2, ActiveIs, CurrentWrites DEF Base, StreamOK, BaseTypeOK
<1>7. /\ exec' = exec /\ moved' = moved /\ conn' = conn /\ fence' = fence /\ stateQueue' = stateQueue
      /\ runStatus' = runStatus /\ count' = count /\ row' = row
  BY <1>1 DEF writers, screen, durable
<1>8. BaseTypeOK'
  BY <1>0, <1>4, <1>6, <1>7 DEF BaseTypeOK
<1>9. FenceOK'
  BY <1>7, FenceStays
<1>10. \A k \in DOMAIN itemQueue : itemQueue'[k].kind = itemQueue[k].kind
  BY <1>1, <1>3, <1>4, <1>5
<1>11. WritersOK'
  <2>1. WriteOK(itemQueue[1])'
    BY <1>3, <1>4 DEF WriteOK, MessageOps
  <2>2. \A k \in DOMAIN itemQueue : k # 1 => WriteOK(itemQueue[k])'
    BY <1>4, <1>6, <1>7 DEF Base, WritersOK, WriteOK, MessageOps
  <2>3. \A k \in DOMAIN itemQueue' :
          /\ itemQueue'[k].captured.id # 0 => k = 1 /\ itemQueue'[k].kind \in { "read", "start", "end" }
          /\ itemQueue'[k].captured.id = 0 => itemQueue'[k].captured.live = NoItems
    BY <1>3, <1>4, <1>6 DEF Base, WritersOK
  <2>4. QED
    BY <1>4, <1>6, <1>7, <1>10, <2>1, <2>2, <2>3 DEF Base, WritersOK
<1>12. QuietOK'
  BY <1>4, <1>6, <1>7, <1>10 DEF Base, QuietOK, OnlyReads
<1>13. StreamOK'
  <2>1. \A m \in Messages : ~Persisted(m) /\ ~Persisted(m)'
    BY <1>1, <1>3, <1>4 DEF Persisted, Current
  <2>2. QED
    BY <1>6, <1>7, <2>1 DEF Base, StreamOK
<1>14. ConnectionOK' /\ ReadsOK'
  <2>1. \A k \in DOMAIN itemQueue : LiveRead(itemQueue'[k]) <=> LiveRead(itemQueue[k])
    BY <1>1, <1>3, <1>4, <1>5 DEF LiveRead
  <2>2. QED
    BY <1>4, <1>7, <2>1, SameConnection
<1>15. QED
  BY <1>8, <1>9, <1>11, <1>12, <1>13, <1>14 DEF Base

(* A read leaves the head, and another may enter. *)
LEMMA LoadRowsKeeps ==
  ASSUME Base, LoadRows
  PROVE  Base'
<1> DEFINE rest == Tail(itemQueue)
<1>0. BaseTypeOK
  BY DEF Base
<1>1. /\ itemQueue # << >> /\ Current.kind = "read" /\ Current.captured.id # 0
      /\ HeadDone /\ UNCHANGED << durable, store, writers, count >>
      /\ 1 \in DOMAIN itemQueue /\ Current = itemQueue[1]
  BY <1>0, LoadRowsIs, CurrentIs
<1>2. /\ conn' \in Connections /\ (conn'.slots = << >> \/ IsHole(conn'.slots[1]))
      /\ (conn'.capturing <=> conn'.slots # << >>)
      /\ (conn'.slots # << >> => conn'.subscribed) /\ (conn'.subscribed => conn'.open)
      /\ itemQueue' = rest \/ (conn'.capturing /\ itemQueue' = Append(rest, ReadOp))
      /\ IF Current.dead THEN itemQueue' = rest /\ conn' = conn
                         ELSE conn'.capturing => itemQueue' = Append(rest, ReadOp)
  <2>1. CASE Current.dead
    BY <1>0, <1>1, <2>1, LoadRowsIs DEF screen, Base, ConnectionOK, BaseTypeOK
  <2>2. CASE ~Current.dead
    <3>1. /\ conn.subscribed
          /\ conn' \in Connections /\ conn'.open = conn.open /\ conn'.subscribed = conn.subscribed
          /\ conn'.capturing <=> conn'.slots # << >>
          /\ conn'.slots = << >> \/ IsHole(conn'.slots[1])
          /\ itemQueue' = IF conn'.capturing THEN Append(Tail(itemQueue), ReadOp) ELSE Tail(itemQueue)
      BY <2>2, LoadRowsIs
    <3>2. QED
      BY <2>2, <3>1 DEF Base, ConnectionOK
  <2>3. QED
    BY <2>1, <2>2
<1>3. /\ rest \in Seq(Ops) /\ Len(rest) = Len(itemQueue) - 1 /\ Len(rest) \in Nat
      /\ DOMAIN rest = 1..Len(rest)
      /\ \A k \in DOMAIN rest : /\ k + 1 \in DOMAIN itemQueue /\ rest[k] = itemQueue[k + 1] /\ k \in Nat
                                /\ k >= 1 /\ k + 1 # 1 /\ rest[k].captured.id = 0
      /\ \A k \in DOMAIN itemQueue : k # 1 => k - 1 \in DOMAIN rest /\ rest[k - 1] = itemQueue[k]
  BY <1>1, TailIs
<1> HIDE DEF rest
<1>4. /\ itemQueue' \in Seq(Ops) /\ Len(itemQueue') >= Len(rest) /\ Len(itemQueue') \in Nat
      /\ DOMAIN rest \subseteq DOMAIN itemQueue'
      /\ \A k \in DOMAIN itemQueue' : \/ k \in DOMAIN rest /\ itemQueue'[k] = rest[k]
                                      \/ k = Len(rest) + 1 /\ itemQueue'[k] = ReadOp
      /\ \A k \in DOMAIN rest : itemQueue'[k] = rest[k]
      /\ itemQueue' = Append(rest, ReadOp) =>
           Len(rest) + 1 \in DOMAIN itemQueue' /\ itemQueue'[Len(rest) + 1] = ReadOp
      /\ itemQueue' = rest => \A k \in DOMAIN itemQueue' : k \in DOMAIN rest
  <2>1. CASE itemQueue' = rest
    BY <1>3, <2>1, AppendsHead, Values
  <2>2. CASE itemQueue' = Append(rest, ReadOp)
    BY <1>3, <2>2, Appends, Values
  <2>3. QED
    BY <1>2, <2>1, <2>2
<1>5. /\ exec' = exec /\ moved' = moved /\ fence' = fence /\ stream' = stream /\ streams' = streams
      /\ runStatus' = runStatus /\ count' = count /\ row' = row
  BY <1>1 DEF writers, store, durable
<1>6. stateQueue \in Seq(StateOps) /\ stateQueue' \in Seq(StateOps) /\ Len(itemQueue) \in Nat
      /\ \A k \in DOMAIN stateQueue : stateQueue[k].awaits \in Nat
  BY <1>0, <1>1, QueueOps, HeadDoneIs DEF StateOps
<1>7. BaseTypeOK'
  BY <1>0, <1>2, <1>4, <1>5, <1>6 DEF BaseTypeOK
<1>8. FenceOK'
  BY <1>1, <1>5, HeadDoneKeeps
<1>9. WritersOK'
  <2>1. \A k \in DOMAIN itemQueue' : WriteOK(itemQueue[k])'
    <3> TAKE k \in DOMAIN itemQueue'
    <3>1. CASE k \in DOMAIN rest /\ itemQueue'[k] = rest[k]
      <4>1. WriteOK(itemQueue[k + 1]) /\ itemQueue'[k] = itemQueue[k + 1]
        BY <1>3, <3>1 DEF Base, WritersOK
      <4>2. QED
        BY <1>5, <4>1 DEF WriteOK, MessageOps
    <3>2. CASE itemQueue'[k] = ReadOp
      BY <3>2, Values DEF WriteOK, MessageOps
    <3>3. QED
      BY <1>4, <3>1, <3>2
  <2>2. \A k \in DOMAIN itemQueue' : itemQueue'[k].captured.id = 0 /\ itemQueue'[k].captured.live = NoItems
    <3>1. \A k \in DOMAIN rest : rest[k].captured.live = NoItems
      BY <1>3 DEF Base, WritersOK
    <3>2. ReadOp.captured.id = 0 /\ ReadOp.captured.live = NoItems
      BY DEF ReadOp, NoStream
    <3>3. QED
      BY <1>3, <1>4, <3>1, <3>2
  <2>3. \A j, k \in DOMAIN itemQueue' :
          itemQueue'[j].kind \in MessageOps /\ itemQueue'[k].kind \in MessageOps => j = k
    <3> TAKE j, k \in DOMAIN itemQueue'
    <3> HAVE itemQueue'[j].kind \in MessageOps /\ itemQueue'[k].kind \in MessageOps
    <3>1. /\ j \in DOMAIN rest /\ itemQueue'[j] = rest[j]
          /\ k \in DOMAIN rest /\ itemQueue'[k] = rest[k]
      BY <1>4, Values DEF MessageOps
    <3>2. j + 1 = k + 1 /\ j \in Nat /\ k \in Nat
      BY <1>3, <3>1 DEF Base, WritersOK
    <3>3. QED
      BY <3>2
  <2>4. QED
    BY <1>5, <2>1, <2>2, <2>3 DEF Base, WritersOK
<1>10. QuietOK'
  <2>1. ASSUME stateQueue' # << >>, stateQueue'[1].stage = "draining"
        PROVE  /\ stateQueue'[1].awaits <= Len(itemQueue')
               /\ \A k \in DOMAIN itemQueue' : k > stateQueue'[1].awaits => itemQueue'[k].kind = "read"
    <3>1. stateQueue # << >> /\ 1 \in DOMAIN stateQueue
      BY <1>1, <1>6, <2>1, HeadDoneIs
    <3>2. stateQueue[1].stage = "draining" /\ stateQueue[1].awaits \in Nat
      BY <1>1, <1>6, <2>1, <3>1, HeadDoneIs
    <3>3. /\ stateQueue[1].awaits <= Len(itemQueue)
          /\ \A k \in DOMAIN itemQueue : k > stateQueue[1].awaits => itemQueue[k].kind = "read"
      BY <3>1, <3>2 DEF Base, QuietOK
    <3>4. stateQueue'[1].awaits = IF stateQueue[1].awaits > 0 THEN stateQueue[1].awaits - 1
                                                               ELSE stateQueue[1].awaits
      BY <1>1, <1>6, <3>1, <3>2, HeadDoneIs
    <3>5. stateQueue'[1].awaits <= Len(itemQueue')
      BY <1>3, <1>4, <1>6, <3>2, <3>3, <3>4
    <3>6. \A k \in DOMAIN rest : k > stateQueue'[1].awaits => rest[k].kind = "read"
      BY <1>3, <1>6, <3>2, <3>3, <3>4
    <3>7. QED
      BY <1>4, <3>5, <3>6, Values
  <2>2. OnlyReads => OnlyReads'
    BY <1>3, <1>4, Values DEF OnlyReads
  <2>3. stateQueue' # << >> /\ stateQueue'[1].stage = "installed" =>
          stateQueue # << >> /\ stateQueue[1].stage = "installed"
    <3>1. stateQueue' # << >> => stateQueue # << >> /\ 1 \in DOMAIN stateQueue
      BY <1>1, <1>6, HeadDoneIs
    <3>2. QED
      BY <1>1, <1>6, <3>1, HeadDoneIs
  <2>4. QED
    BY <1>5, <2>1, <2>2, <2>3 DEF Base, QuietOK
<1>11. StreamOK'
  <2>1. \A m \in Messages : ~Persisted(m)
    BY <1>1 DEF Persisted
  <2>2. \A m \in Messages : ~Persisted(m)'
    <3>1. ReadOp.captured.id = 0
      BY DEF ReadOp, NoStream
    <3>2. itemQueue' # << >> => 1 \in DOMAIN itemQueue'
      BY <1>4
    <3>3. \A k \in DOMAIN itemQueue' : itemQueue'[k].captured.id = 0
      BY <1>3, <1>4, <3>1
    <3>4. QED
      BY <3>2, <3>3 DEF Persisted, Current
  <2>3. QED
    BY <1>5, <2>1, <2>2 DEF Base, StreamOK
<1>12. ConnectionOK'
  BY <1>2 DEF ConnectionOK
<1>13. ReadsOK'
  <2>1. CASE Current.dead
    <3>1. itemQueue' = rest /\ conn' = conn /\ ~LiveRead(itemQueue[1])
      BY <1>1, <1>2, <2>1 DEF LiveRead
    <3>2. (\E k \in DOMAIN itemQueue : LiveRead(itemQueue[k])) <=> \E k \in DOMAIN rest : LiveRead(rest[k])
      BY <1>3, <3>1
    <3>3. \A j, k \in DOMAIN rest : LiveRead(rest[j]) /\ LiveRead(rest[k]) => j = k
      <4> TAKE j, k \in DOMAIN rest
      <4> HAVE LiveRead(rest[j]) /\ LiveRead(rest[k])
      <4>1. j + 1 = k + 1 /\ j \in Nat /\ k \in Nat
        BY <1>3 DEF Base, ReadsOK
      <4>2. QED
        BY <4>1
    <3>4. QED
      BY <3>1, <3>2, <3>3 DEF Base, ReadsOK
  <2>2. CASE ~Current.dead
    <3>1. \A k \in DOMAIN rest : ~LiveRead(rest[k])
      BY <1>1, <1>3, <2>2 DEF Base, ReadsOK, LiveRead
    <3>2. LiveRead(ReadOp)
      BY Values DEF LiveRead
    <3>3. CASE conn'.capturing
      BY <1>2, <1>4, <2>2, <3>1, <3>2, <3>3 DEF ReadsOK
    <3>4. CASE ~conn'.capturing
      BY <1>2, <1>4, <3>1, <3>4 DEF ReadsOK
    <3>5. QED
      BY <3>3, <3>4
  <2>3. QED
    BY <2>1, <2>2
<1>14. QED
  BY <1>7, <1>8, <1>9, <1>10, <1>11, <1>12, <1>13 DEF Base

(* A hole is reserved: a read follows unless one is under way already.       *)
MoreReads ==
  /\ itemQueue' \in Seq(Ops) /\ Len(itemQueue') \in Nat /\ Len(itemQueue') >= Len(itemQueue)
  /\ DOMAIN itemQueue \subseteq DOMAIN itemQueue'
  /\ \A k \in DOMAIN itemQueue : itemQueue'[k] = itemQueue[k]
  /\ \A k \in DOMAIN itemQueue' : \/ k \in DOMAIN itemQueue /\ itemQueue'[k] = itemQueue[k]
                                  \/ k = Len(itemQueue) + 1 /\ itemQueue'[k] = ReadOp
  /\ itemQueue' = << >> => itemQueue = << >>

LEMMA ReservedKeeps ==
  ASSUME Base, NEW hole, Reserved(hole), conn.open
  PROVE  MoreReads /\ ConnectionOK' /\ ReadsOK' /\ conn' \in Connections
         /\ (conn'.slots = << >> \/ IsHole(conn'.slots[1]))
<1>1. itemQueue \in Seq(Ops) /\ Len(itemQueue) \in Nat /\ DOMAIN itemQueue = 1..Len(itemQueue)
  BY QueueOps DEF Base
<1>2. /\ conn' \in Connections /\ conn'.open = conn.open /\ conn'.subscribed = TRUE
      /\ conn'.capturing = TRUE /\ conn'.slots # << >> /\ IsHole(conn'.slots[1])
      /\ itemQueue' = IF conn.capturing THEN itemQueue ELSE Append(itemQueue, ReadOp)
  BY DEF Reserved
<1>3. CASE conn.capturing
  <2>1. itemQueue' = itemQueue
    BY <1>2, <1>3
  <2>2. MoreReads
    BY <1>1, <2>1 DEF MoreReads
  <2>3. QED
    BY <1>2, <1>3, <2>1, <2>2 DEF Base, ConnectionOK, ReadsOK
<1>4. CASE ~conn.capturing
  <2>1. itemQueue' = Append(itemQueue, ReadOp)
    BY <1>2, <1>4
  <2>2. /\ itemQueue' \in Seq(Ops) /\ Len(itemQueue') = Len(itemQueue) + 1
        /\ DOMAIN itemQueue' = 1..(Len(itemQueue) + 1) /\ itemQueue' # << >>
        /\ itemQueue'[Len(itemQueue) + 1] = ReadOp
        /\ \A k \in DOMAIN itemQueue : k \in DOMAIN itemQueue' /\ itemQueue'[k] = itemQueue[k]
        /\ \A k \in DOMAIN itemQueue' : k = Len(itemQueue) + 1 \/ (k \in DOMAIN itemQueue /\ itemQueue'[k] = itemQueue[k])
    <3>1. ReadOp \in Ops
      BY Values
    <3>2. QED
      BY <1>1, <2>1, <3>1, Appends
  <2>3. MoreReads
    BY <1>1, <2>2 DEF MoreReads
  <2>4. \A k \in DOMAIN itemQueue : ~LiveRead(itemQueue[k])
    BY <1>4 DEF Base, ReadsOK
  <2>5. LiveRead(ReadOp) /\ Len(itemQueue) + 1 \in DOMAIN itemQueue'
    BY <1>1, <2>2, Values DEF LiveRead
  <2>6. ReadsOK'
    BY <1>2, <2>2, <2>4, <2>5 DEF ReadsOK
  <2>7. QED
    BY <1>2, <2>3, <2>6 DEF Base, ConnectionOK
<1>5. QED
  BY <1>3, <1>4

LEMMA PublishRunKeeps ==
  ASSUME Base, PublishRun
  PROVE  MoreReads /\ ConnectionOK' /\ ReadsOK' /\ conn' \in Connections /\ client' = client
         /\ (conn'.slots = << >> \/ IsHole(conn'.slots[1]))
<1>1. conn \in Connections /\ (conn.slots = << >> \/ IsHole(conn.slots[1]))
  BY DEF Base, BaseTypeOK
<1>2. client' = client
  BY <1>1, PublishRunIs
<1>3. CASE ~conn.subscribed /\ conn' = conn /\ itemQueue' = itemQueue
  <2>1. MoreReads
    BY <1>3, QueueOps DEF MoreReads, Base
  <2>2. QED
    BY <1>1, <1>2, <1>3, <2>1 DEF Base, ConnectionOK, ReadsOK
<1>4. CASE conn.subscribed /\ Reserved("push hole")
  BY <1>2, <1>4, ReservedKeeps DEF Base, ConnectionOK
<1>5. QED
  BY <1>1, <1>3, <1>4, PublishRunIs

(* A read added to the queue disturbs no writer. *)
LEMMA ReadsDisturbNobody ==
  ASSUME Base, MoreReads
  PROVE  /\ \A k \in DOMAIN itemQueue' :
              /\ itemQueue'[k].captured.id # 0 => k = 1 /\ itemQueue'[k].kind \in { "read", "start", "end" }
              /\ itemQueue'[k].captured.id = 0 => itemQueue'[k].captured.live = NoItems
              /\ itemQueue'[k].kind # "read" => k \in DOMAIN itemQueue /\ itemQueue'[k] = itemQueue[k]
         /\ \A j, k \in DOMAIN itemQueue' :
              itemQueue'[j].kind \in MessageOps /\ itemQueue'[k].kind \in MessageOps => j = k
         /\ OnlyReads => OnlyReads'
         /\ \A m \in Messages : itemQueue # << >> /\ itemQueue' # << >> => itemQueue'[1] = itemQueue[1]
         /\ itemQueue = << >> /\ itemQueue' # << >> => itemQueue'[1].kind = "read"
<1>1. /\ ReadOp.captured.id = 0 /\ ReadOp.captured.live = NoItems /\ ReadOp.kind = "read"
  BY DEF ReadOp, NoStream
<1>2. itemQueue \in Seq(Ops) /\ DOMAIN itemQueue = 1..Len(itemQueue) /\ Len(itemQueue) \in Nat
  BY QueueOps DEF Base
<1>3. \A k \in DOMAIN itemQueue' :
        \/ itemQueue'[k] = ReadOp
        \/ k \in DOMAIN itemQueue /\ itemQueue'[k] = itemQueue[k]
  BY DEF MoreReads
<1>4. \A k \in DOMAIN itemQueue' :
              /\ itemQueue'[k].captured.id # 0 => k = 1 /\ itemQueue'[k].kind \in { "read", "start", "end" }
              /\ itemQueue'[k].captured.id = 0 => itemQueue'[k].captured.live = NoItems
              /\ itemQueue'[k].kind # "read" => k \in DOMAIN itemQueue /\ itemQueue'[k] = itemQueue[k]
  BY <1>1, <1>3 DEF Base, WritersOK
<1>5. \A j, k \in DOMAIN itemQueue' :
        itemQueue'[j].kind \in MessageOps /\ itemQueue'[k].kind \in MessageOps => j = k
  BY <1>1, <1>3 DEF Base, WritersOK, MessageOps
<1>6. OnlyReads => OnlyReads'
  BY <1>1, <1>3 DEF OnlyReads
<1>7. itemQueue # << >> => 1 \in DOMAIN itemQueue
  BY <1>2
<1>8. itemQueue' # << >> => 1 \in DOMAIN itemQueue'
  BY DEF MoreReads
<1>9. itemQueue = << >> => DOMAIN itemQueue = {}
  BY <1>2
<1>10. QED
  BY <1>1, <1>3, <1>4, <1>5, <1>6, <1>7, <1>8, <1>9 DEF MoreReads

(* The head of the state queue leaves it. *)
LEMMA StateTail ==
  ASSUME BaseTypeOK, stateQueue # << >>, stateQueue' = Tail(stateQueue)
  PROVE  /\ stateQueue' \in Seq(StateOps) /\ Len(stateQueue') = Len(stateQueue) - 1
         /\ Len(stateQueue') \in Nat /\ 1 \in DOMAIN stateQueue
         /\ stateQueue' # << >> => 1 \in DOMAIN stateQueue'
         /\ \A k \in DOMAIN stateQueue' : /\ k + 1 \in DOMAIN stateQueue /\ k + 1 > 1 /\ k + 1 # 1 /\ k \in Nat
                                          /\ stateQueue'[k] = stateQueue[k + 1]
         /\ \A k \in DOMAIN stateQueue : k # 1 => k - 1 \in DOMAIN stateQueue' /\ stateQueue'[k - 1] = stateQueue[k]
<1>1. stateQueue \in Seq(StateOps) /\ Len(stateQueue) \in Nat
  BY QueueOps
<1>2. /\ stateQueue' \in Seq(StateOps) /\ Len(stateQueue') = Len(stateQueue) - 1
      /\ DOMAIN stateQueue' = 1..(Len(stateQueue) - 1)
      /\ Len(stateQueue) >= 1 /\ 1 \in DOMAIN stateQueue
      /\ \A k \in DOMAIN stateQueue' : k + 1 \in DOMAIN stateQueue /\ stateQueue'[k] = stateQueue[k + 1] /\ k \in Nat
      /\ \A k \in DOMAIN stateQueue : k # 1 => k - 1 \in DOMAIN stateQueue' /\ stateQueue'[k - 1] = stateQueue[k]
  BY <1>1, Tails
<1>3. stateQueue' # << >> => Len(stateQueue') >= 1
  BY <1>2
<1>4. QED
  BY <1>1, <1>2, <1>3

(* The first read of a stream that none is open for, the fence and the queue *)
(* apart: what a step that adds reads and touches no item leaves.            *)
LEMMA StreamStays ==
  ASSUME Base, MoreReads, stream' = stream, streams' = streams, row' = row
  PROVE  StreamOK'
<1>1. \A m \in Messages : Persisted(m) => Persisted(m)'
  <2> TAKE m \in Messages
  <2> HAVE Persisted(m)
  <2>1. itemQueue # << >> /\ itemQueue' # << >>
    BY DEF Persisted, MoreReads
  <2>2. itemQueue'[1] = itemQueue[1]
    BY <2>1, ReadsDisturbNobody
  <2>3. QED
    BY <2>1, <2>2 DEF Persisted, Current
<1>2. ASSUME NEW m \in Messages, Persisted(m)' PROVE Persisted(m) /\ Current' = Current
  <2>1. itemQueue' # << >> /\ itemQueue'[1].kind # "read"
    BY <1>2 DEF Persisted, Current
  <2>2. itemQueue # << >>
    BY <2>1, ReadsDisturbNobody
  <2>3. itemQueue'[1] = itemQueue[1]
    BY <1>2, <2>1, <2>2, ReadsDisturbNobody
  <2>4. QED
    BY <1>2, <2>2, <2>3 DEF Persisted, Current
<1>3. QED
  BY <1>1, <1>2 DEF Base, StreamOK

LEMMA OpenKeeps ==
  ASSUME Base, Open
  PROVE  Base'
<1>0. BaseTypeOK
  BY DEF Base
<1>1. /\ stateQueue # << >> /\ stateQueue[1].op = "open" /\ runStatus' = "running"
      /\ fence' = Refreshed([fence EXCEPT !.committed = FALSE])
      /\ PublishRun /\ stateQueue' = Tail(stateQueue)
      /\ exec' = [exec EXCEPT !.pc = "writing"]
      /\ UNCHANGED << row, stream, streams, moved, count >>
  BY DEF Open, StateHead
<1>2. MoreReads /\ ConnectionOK' /\ ReadsOK' /\ conn' \in Connections
      /\ (conn'.slots = << >> \/ IsHole(conn'.slots[1]))
  BY <1>1, PublishRunKeeps
<1>3. /\ fence' \in Fences /\ fence'.committed = FALSE /\ fence'.pending = fence.pending
      /\ fence'.closed <=> fence.pending > 0
  BY <1>0, <1>1 DEF BaseTypeOK, Fences, Refreshed
<1>4. /\ exec' \in Execs /\ exec'.pc = "writing" /\ exec'.message = exec.message
      /\ exec'.writing = exec.writing
  BY <1>0, <1>1 DEF BaseTypeOK, Execs
<1>5. 1 \in DOMAIN stateQueue /\ exec.pc = "opening" /\ stateQueue[1].by = "executor"
  BY <1>0, <1>1, StateTail DEF Base, FenceOK
<1>6. exec.message = None /\ ~exec.writing
  BY <1>5 DEF Base, WritersOK
<1>7. BaseTypeOK'
  BY <1>0, <1>1, <1>2, <1>3, <1>4, StateTail DEF BaseTypeOK, MoreReads
<1>8. FenceOK'
  <2>1. \A k \in DOMAIN stateQueue' : stateQueue'[k].op \in { "open", "close" } /\ stateQueue'[k].by # "executor"
        /\ stateQueue'[k].op # "open" /\ stateQueue'[k].stage = "queued"
    <3> TAKE k \in DOMAIN stateQueue'
    <3>1. k + 1 \in DOMAIN stateQueue /\ k + 1 # 1 /\ k + 1 > 1 /\ stateQueue'[k] = stateQueue[k + 1]
      BY <1>0, <1>1, StateTail
    <3>2. stateQueue[k + 1].by # "executor"
      BY <1>5, <3>1 DEF Base, FenceOK
    <3>3. QED
      BY <1>0, <3>1, <3>2, QueueOps DEF Base, FenceOK, StateOps
  <2>2. Len(stateQueue') = fence'.pending
    BY <1>0, <1>1, <1>3, <1>5, StateTail, QueueOps DEF Base, FenceOK
  <2>3. QED
    BY <1>3, <1>4, <2>1, <2>2 DEF FenceOK
<1>9. WritersOK'
  <2>1. \A k \in DOMAIN itemQueue' : itemQueue'[k].kind \notin MessageOps
    BY <1>2, <1>6, NoMessageOps, ReadsDisturbNobody DEF MessageOps
  <2>2. \A k \in DOMAIN itemQueue' : itemQueue'[k].kind = "project" => itemQueue'[k].item \in Inputs
    BY <1>2, ReadsDisturbNobody DEF Base, WritersOK, WriteOK
  <2>3. \A k \in DOMAIN itemQueue' : WriteOK(itemQueue[k])'
    BY <2>1, <2>2 DEF WriteOK, MessageOps
  <2>4. QED
    BY <1>2, <1>4, <1>6, <2>3, ReadsDisturbNobody DEF WritersOK
<1>10. QuietOK'
  <2>1. stateQueue' # << >> => stateQueue'[1].stage = "queued"
    <3> HAVE stateQueue' # << >>
    <3>1. 1 \in DOMAIN stateQueue' /\ 1 + 1 > 1
      BY <1>0, <1>1, StateTail
    <3>2. 1 + 1 \in DOMAIN stateQueue /\ stateQueue'[1] = stateQueue[1 + 1]
      BY <1>0, <1>1, <3>1, StateTail
    <3>3. QED
      BY <3>1, <3>2 DEF Base, FenceOK
  <2>2. QED
    BY <1>1, <1>3, <2>1 DEF QuietOK, Terminal
<1>11. StreamOK'
  BY <1>1, <1>2, StreamStays
<1>12. QED
  BY <1>2, <1>7, <1>8, <1>9, <1>10, <1>11 DEF Base

(* The head of the state queue moves on to its next stage. *)
LEMMA StageIs ==
  ASSUME BaseTypeOK, stateQueue # << >>, NEW op \in StateOps, stateQueue' = [stateQueue EXCEPT ![1] = op]
  PROVE  /\ stateQueue' \in Seq(StateOps) /\ Len(stateQueue') = Len(stateQueue)
         /\ DOMAIN stateQueue' = DOMAIN stateQueue /\ 1 \in DOMAIN stateQueue
         /\ stateQueue' # << >> /\ stateQueue'[1] = op
         /\ \A k \in DOMAIN stateQueue : k # 1 => stateQueue'[k] = stateQueue[k]
<1>1. stateQueue \in Seq(StateOps)
  BY QueueOps
<1>2. QED
  BY <1>1, Heads

LEMMA StageKeepsFence ==
  ASSUME Base, stateQueue # << >>, stateQueue[1].op = "close", NEW op \in StateOps,
         op.op = "close", op.by = stateQueue[1].by, stateQueue' = [stateQueue EXCEPT ![1] = op],
         fence' \in Fences, fence'.closed, fence'.committed = fence.committed,
         fence'.pending = fence.pending, exec'.pc = exec.pc
  PROVE  FenceOK'
<1>0. BaseTypeOK
  BY DEF Base
<1>1. fence.pending > 0
  BY FenceIsClosed
<1>2. /\ Len(stateQueue') = Len(stateQueue) /\ DOMAIN stateQueue' = DOMAIN stateQueue
      /\ 1 \in DOMAIN stateQueue /\ stateQueue'[1] = op
      /\ \A k \in DOMAIN stateQueue : k # 1 => stateQueue'[k] = stateQueue[k]
  BY <1>0, StageIs
<1>3. \A k \in DOMAIN stateQueue : /\ stateQueue'[k].op = stateQueue[k].op
                                   /\ stateQueue'[k].by = stateQueue[k].by
                                   /\ k # 1 => stateQueue'[k].stage = stateQueue[k].stage
                                   /\ stateQueue[k].op = "open" => stateQueue'[k].stage = stateQueue[k].stage
  BY <1>2
<1>4. \A k \in DOMAIN stateQueue : k > 1 => k # 1
  BY <1>0, QueueOps
<1>5. QED
  BY <1>1, <1>2, <1>3, <1>4 DEF Base, FenceOK

LEMMA CloseBeginsKeeps ==
  ASSUME Base, CloseBegins
  PROVE  Base'
<1> DEFINE op == [stateQueue[1] EXCEPT !.stage = "draining", !.awaits = Len(itemQueue)]
<1>0. BaseTypeOK
  BY DEF Base
<1>1. /\ stateQueue # << >> /\ stateQueue[1].op = "close" /\ stateQueue[1].stage = "queued"
      /\ fence' = [fence EXCEPT !.closed = TRUE]
      /\ stateQueue' = [stateQueue EXCEPT ![1].stage = "draining", ![1].awaits = Len(itemQueue)]
      /\ UNCHANGED << durable, stream, streams, itemQueue, writers, screen, count >>
  BY DEF CloseBegins, StateHead
<1>2. stateQueue[1] \in StateOps /\ stateQueue \in Seq(StateOps) /\ Len(itemQueue) \in Nat
      /\ 1 \in DOMAIN stateQueue
  BY <1>0, <1>1, QueueOps
<1>3. /\ op \in StateOps /\ op.op = "close" /\ op.by = stateQueue[1].by
      /\ op.stage = "draining" /\ op.awaits = Len(itemQueue)
  BY <1>1, <1>2 DEF StateOps
<1>4. stateQueue' = [stateQueue EXCEPT ![1] = op]
  BY <1>1, <1>2
<1> HIDE DEF op
<1>5. /\ stateQueue' \in Seq(StateOps) /\ stateQueue' # << >> /\ stateQueue'[1] = op
  BY <1>0, <1>1, <1>3, <1>4, StageIs
<1>6. /\ fence' \in Fences /\ fence'.closed /\ fence'.committed = fence.committed
      /\ fence'.pending = fence.pending
  BY <1>0, <1>1 DEF BaseTypeOK, Fences
<1>7. /\ row' = row /\ runStatus' = runStatus /\ stream' = stream /\ streams' = streams
      /\ itemQueue' = itemQueue /\ exec' = exec /\ moved' = moved /\ conn' = conn /\ count' = count
  BY <1>1 DEF durable, writers, screen
<1>8. BaseTypeOK'
  BY <1>0, <1>5, <1>6, <1>7 DEF BaseTypeOK
<1>9. FenceOK'
  BY <1>1, <1>3, <1>4, <1>6, <1>7, StageKeepsFence
<1>10. WritersOK'
  BY <1>6, <1>7 DEF Base, WritersOK, WriteOK
<1>11. QuietOK'
  <2>1. \A k \in DOMAIN itemQueue : ~(k > Len(itemQueue))
    BY <1>0, QueueOps
  <2>2. QED
    BY <1>2, <1>3, <1>5, <1>6, <1>7, <2>1 DEF Base, QuietOK, OnlyReads
<1>12. StreamOK'
  BY <1>7 DEF Base, StreamOK, Persisted, Current
<1>13. ConnectionOK' /\ ReadsOK'
  BY <1>7 DEF Base, ConnectionOK, ReadsOK
<1>14. QED
  BY <1>8, <1>9, <1>10, <1>11, <1>12, <1>13 DEF Base

LEMMA CloseInstallsKeeps ==
  ASSUME Base, CloseInstalls
  PROVE  Base'
<1> DEFINE op == [stateQueue[1] EXCEPT !.stage = "installed"]
<1>0. BaseTypeOK
  BY DEF Base
<1>1. /\ stateQueue # << >> /\ stateQueue[1].op = "close"
      /\ stateQueue[1].stage = "draining" /\ stateQueue[1].awaits = 0
      /\ runStatus' = stateQueue[1].to /\ stream' = NoStream /\ PublishRun
      /\ stateQueue' = [stateQueue EXCEPT ![1].stage = "installed"]
      /\ count' = [count EXCEPT !.closes = @ + 1]
      /\ UNCHANGED << row, streams, fence, writers >>
  BY DEF CloseInstalls, StateHead
<1>2. stateQueue[1] \in StateOps /\ stateQueue \in Seq(StateOps) /\ 1 \in DOMAIN stateQueue
  BY <1>0, <1>1, QueueOps
<1>3. /\ op \in StateOps /\ op.op = "close" /\ op.by = stateQueue[1].by /\ op.stage = "installed"
      /\ stateQueue[1].to \in { "running", "completed", "cancelled", "waiting" }
  BY <1>1, <1>2 DEF StateOps
<1>4. stateQueue' = [stateQueue EXCEPT ![1] = op]
  BY <1>1, <1>2
<1> HIDE DEF op
<1>5. /\ stateQueue' \in Seq(StateOps) /\ stateQueue' # << >> /\ stateQueue'[1] = op
  BY <1>0, <1>1, <1>3, <1>4, StageIs
<1>6. /\ row' = row /\ streams' = streams /\ fence' = fence /\ exec' = exec /\ moved' = moved
      /\ fence \in Fences
  BY <1>0, <1>1 DEF writers, BaseTypeOK
<1>7. MoreReads /\ ConnectionOK' /\ ReadsOK' /\ conn' \in Connections
      /\ (conn'.slots = << >> \/ IsHole(conn'.slots[1]))
  BY <1>1, PublishRunKeeps
<1>8. count' \in Counts
  BY <1>0, <1>1 DEF BaseTypeOK, Counts
<1>9. BaseTypeOK'
  BY <1>0, <1>1, <1>3, <1>5, <1>6, <1>7, <1>8, Values DEF BaseTypeOK, MoreReads
<1>10. fence.closed
  BY <1>1, FenceIsClosed
<1>11. FenceOK'
  BY <1>1, <1>3, <1>4, <1>6, <1>10, StageKeepsFence
<1>12. OnlyReads /\ OnlyReads'
  <2>1. \A k \in DOMAIN itemQueue : k > 0
    BY <1>0, QueueOps
  <2>2. OnlyReads
    BY <1>1, <2>1 DEF Base, QuietOK, OnlyReads
  <2>3. QED
    BY <1>7, <2>2, ReadsDisturbNobody
<1>13. WritersOK'
  <2>1. \A k \in DOMAIN itemQueue' : WriteOK(itemQueue[k])'
    BY <1>12 DEF OnlyReads, WriteOK, MessageOps
  <2>2. /\ exec'.writing => exec'.pc = "writing"
        /\ exec'.pc = "opening" => exec'.message = None
        /\ exec'.pc = "writing" /\ ~exec'.writing /\ exec'.message # None =>
             row'[exec'.message].status = "running" /\ fence'.closed
    BY <1>6, <1>10 DEF Base, WritersOK
  <2>3. QED
    BY <1>7, <2>1, <2>2, ReadsDisturbNobody DEF WritersOK
<1>14. QuietOK'
  BY <1>1, <1>3, <1>5, <1>6, <1>10, <1>12, Values DEF QuietOK
<1>15. StreamOK'
  <2>1. \A m \in Messages : NoItems[m].sequence = -1 /\ NoItems[m].version.status = "none"
    BY Values DEF Items, Absent
  <2>2. streams \in Nat
    BY <1>0 DEF BaseTypeOK
  <2>3. \A m \in Messages : ~Persisted(m)'
    <3>1. itemQueue' # << >> => 1 \in DOMAIN itemQueue'
      BY <1>7 DEF MoreReads
    <3>2. QED
      BY <1>12, <3>1 DEF OnlyReads, Persisted, Current
  <2>4. QED
    BY <1>1, <1>6, <2>1, <2>2, <2>3, Values DEF StreamOK
<1>16. QED
  BY <1>7, <1>9, <1>11, <1>13, <1>14, <1>15 DEF Base

LEMMA CloseCommitsKeeps ==
  ASSUME Base, CloseCommits
  PROVE  Base'
<1>0. BaseTypeOK
  BY DEF Base
<1>1. /\ stateQueue # << >> /\ stateQueue[1].op = "close" /\ stateQueue[1].stage = "installed"
      /\ fence' = Refreshed([fence EXCEPT !.committed = TRUE, !.pending = @ - 1])
      /\ stateQueue' = Tail(stateQueue)
      /\ exec' = IF stateQueue[1].by = "executor" THEN [exec EXCEPT !.pc = "idle"] ELSE exec
      /\ UNCHANGED << durable, stream, streams, itemQueue, moved, screen, count >>
  BY DEF CloseCommits, StateHead
<1>2. fence.closed /\ fence.pending > 0 /\ 1 \in DOMAIN stateQueue
  BY <1>1, FenceIsClosed
<1>3. /\ fence' \in Fences /\ fence'.committed /\ fence'.pending = fence.pending - 1
      /\ fence'.closed
  <2> DEFINE p == fence.pending - 1
             f == [fence EXCEPT !.committed = TRUE, !.pending = p]
  <2>1. f \in Fences /\ f.committed = TRUE /\ f.pending = fence.pending - 1
    <3>1. fence \in Fences
      BY <1>0 DEF BaseTypeOK
    <3>2. p \in Int
      BY <3>1 DEF Fences
    <3> HIDE DEF p
    <3>3. f \in Fences /\ f.committed = TRUE /\ f.pending = p
      BY <3>1, <3>2 DEF Fences
    <3>4. QED
      BY <3>3 DEF p
  <2> HIDE DEF f
  <2>2. [f EXCEPT !.closed = f.committed \/ f.pending > 0] = [f EXCEPT !.closed = TRUE]
    BY <2>1
  <2>3. fence' = [f EXCEPT !.closed = TRUE]
    BY <1>1, <2>2 DEF Refreshed, f, p
  <2>4. QED
    BY <2>1, <2>3 DEF Fences
<1>4. /\ row' = row /\ runStatus' = runStatus /\ stream' = stream /\ streams' = streams
      /\ itemQueue' = itemQueue /\ moved' = moved /\ conn' = conn /\ count' = count
  BY <1>1 DEF durable, screen
<1>5. /\ exec' \in Execs /\ exec'.message = exec.message /\ exec'.writing = exec.writing
      /\ IF stateQueue[1].by = "executor" THEN exec'.pc = "idle" /\ exec.pc = "closing"
                                          ELSE exec'.pc = exec.pc
  BY <1>0, <1>1, <1>2 DEF BaseTypeOK, Execs, Base, FenceOK
<1>6. BaseTypeOK'
  BY <1>0, <1>1, <1>3, <1>4, <1>5, StateTail DEF BaseTypeOK
<1>7. \A k \in DOMAIN stateQueue' :
        /\ k + 1 \in DOMAIN stateQueue /\ k + 1 > 1 /\ k + 1 # 1 /\ k \in Nat
        /\ stateQueue'[k] = stateQueue[k + 1]
        /\ stateQueue[1].by = "executor" => stateQueue'[k].by # "executor"
  BY <1>0, <1>1, <1>2, StateTail DEF Base, FenceOK
<1>8. FenceOK'
  <2>1. Len(stateQueue') = fence'.pending + (IF exec'.pc = "opening" THEN 1 ELSE 0)
    <3>1. /\ Len(stateQueue') = Len(stateQueue) - 1 /\ Len(stateQueue) \in Nat /\ fence.pending \in Int
          /\ Len(stateQueue) = fence.pending + (IF exec.pc = "opening" THEN 1 ELSE 0)
      BY <1>0, <1>1, StateTail, QueueOps DEF Base, FenceOK
    <3>2. (exec'.pc = "opening") <=> (exec.pc = "opening")
      BY <1>5
    <3>3. QED
      BY <1>3, <3>1, <3>2
  <2>2. exec'.pc = "opening" => \E k \in DOMAIN stateQueue' : stateQueue'[k].op = "open"
    <3> HAVE exec'.pc = "opening"
    <3>1. PICK k \in DOMAIN stateQueue : stateQueue[k].op = "open"
      BY <1>5 DEF Base, FenceOK
    <3>2. k # 1 /\ k - 1 \in DOMAIN stateQueue' /\ stateQueue'[k - 1] = stateQueue[k]
      BY <1>0, <1>1, <3>1, StateTail
    <3>3. QED
      BY <3>1, <3>2
  <2>3. ASSUME NEW k \in DOMAIN stateQueue'
        PROVE  /\ stateQueue'[k].op = "open" =>
                    stateQueue'[k].by = "executor" /\ stateQueue'[k].stage = "queued" /\ exec'.pc = "opening"
               /\ stateQueue'[k].op = "close" /\ stateQueue'[k].by = "executor" => exec'.pc = "closing"
               /\ k > 1 => stateQueue'[k].stage = "queued"
    <3>1. /\ stateQueue[k + 1].op = "open" =>
               stateQueue[k + 1].by = "executor" /\ stateQueue[k + 1].stage = "queued" /\ exec.pc = "opening"
          /\ stateQueue[k + 1].op = "close" /\ stateQueue[k + 1].by = "executor" => exec.pc = "closing"
          /\ stateQueue[k + 1].stage = "queued"
      BY <1>7 DEF Base, FenceOK
    <3>2. QED
      BY <1>5, <1>7, <3>1
  <2>4. \A j, k \in DOMAIN stateQueue' :
          stateQueue'[j].by = "executor" /\ stateQueue'[k].by = "executor" => j = k
    <3> TAKE j, k \in DOMAIN stateQueue'
    <3> HAVE stateQueue'[j].by = "executor" /\ stateQueue'[k].by = "executor"
    <3>1. j + 1 = k + 1 /\ j \in Nat /\ k \in Nat
      BY <1>7 DEF Base, FenceOK
    <3>2. QED
      BY <3>1
  <2>5. QED
    BY <1>3, <2>1, <2>2, <2>3, <2>4 DEF FenceOK
<1>9. WritersOK'
  <2>1. (exec'.writing => exec'.pc = "writing") /\ (exec'.pc = "opening" => exec'.message = None)
    BY <1>5 DEF Base, WritersOK
  <2>2. exec'.pc = "writing" => exec.pc = "writing"
    BY <1>5
  <2>3. QED
    BY <1>3, <1>4, <1>5, <2>1, <2>2 DEF Base, WritersOK, WriteOK
<1>10. QuietOK'
  <2>1. OnlyReads /\ stream.live = NoItems
    BY <1>1 DEF Base, QuietOK
  <2>2. stateQueue' # << >> => stateQueue'[1].stage = "queued"
    <3> HAVE stateQueue' # << >>
    <3>1. 1 \in DOMAIN stateQueue'
      BY <1>0, <1>1, StateTail
    <3>2. QED
      BY <1>7, <3>1 DEF Base, FenceOK
  <2>3. QED
    BY <1>3, <1>4, <2>1, <2>2 DEF QuietOK, OnlyReads
<1>11. StreamOK'
  BY <1>4 DEF Base, StreamOK, Persisted, Current
<1>12. ConnectionOK' /\ ReadsOK'
  BY <1>4 DEF Base, ConnectionOK, ReadsOK
<1>13. QED
  BY <1>6, <1>8, <1>9, <1>10, <1>11, <1>12 DEF Base

(* A command joins the state queue. *)
LEMMA StateAppend ==
  ASSUME BaseTypeOK, NEW op \in StateOps, stateQueue' = Append(stateQueue, op)
  PROVE  /\ stateQueue' \in Seq(StateOps) /\ Len(stateQueue') = Len(stateQueue) + 1
         /\ Len(stateQueue) \in Nat /\ DOMAIN stateQueue \subseteq DOMAIN stateQueue'
         /\ Len(stateQueue) + 1 \in DOMAIN stateQueue' /\ stateQueue'[Len(stateQueue) + 1] = op
         /\ \A k \in DOMAIN stateQueue : stateQueue'[k] = stateQueue[k]
         /\ \A k \in DOMAIN stateQueue' : \/ k = Len(stateQueue) + 1 /\ stateQueue'[k] = op
                                          \/ k \in DOMAIN stateQueue /\ stateQueue'[k] = stateQueue[k]
         /\ stateQueue' # << >> /\ stateQueue'[1] = IF stateQueue = << >> THEN op ELSE stateQueue[1]
<1>1. stateQueue \in Seq(StateOps)
  BY QueueOps
<1>2. QED
  BY <1>1, Appends

LEMMA StateOpIs ==
  ASSUME NEW op \in { "open", "close" }, NEW to \in { "running", "completed", "cancelled", "waiting" },
         NEW by \in { "executor", "cancel" }
  PROVE  LET r == StateOp(op, to, by)
         IN r \in StateOps /\ r.op = op /\ r.by = by /\ r.stage = "queued"
BY DEF StateOp, StateOps

(* Nothing of the item chain, the stream and the connection moves. *)
LEMMA ItemsRest ==
  ASSUME Base, UNCHANGED << row, stream, streams, itemQueue, conn >>
  PROVE  StreamOK' /\ ConnectionOK' /\ ReadsOK'
BY DEF Base, StreamOK, Persisted, Current, ConnectionOK, ReadsOK

(* A command that joins the queue is not under way. *)
LEMMA StillQuiet ==
  ASSUME Base, NEW op \in StateOps, op.stage = "queued", stateQueue' = Append(stateQueue, op),
         UNCHANGED << runStatus, stream, itemQueue >>, fence'.committed = fence.committed,
         fence'.closed \/ runStatus \notin Terminal
  PROVE  QuietOK'
<1>1. stateQueue' # << >> /\ stateQueue'[1] = IF stateQueue = << >> THEN op ELSE stateQueue[1]
  BY StateAppend DEF Base
<1>2. QED
  BY <1>1 DEF Base, QuietOK, OnlyReads

LEMMA BeginKeeps ==
  ASSUME Base, Begin
  PROVE  Base'
<1> DEFINE op == StateOp("open", "running", "executor")
<1>0. BaseTypeOK
  BY DEF Base
<1>1. /\ exec.pc = "idle" /\ runStatus \in { "queued", "waiting", "interrupted" }
      /\ exec' = [exec EXCEPT !.pc = "opening", !.message = None, !.writing = FALSE]
      /\ stateQueue' = Append(stateQueue, op)
      /\ count' = [count EXCEPT !.segments = @ + 1]
      /\ UNCHANGED << durable, store, itemQueue, moved, screen >>
  BY DEF Begin
<1>2. op \in StateOps /\ op.op = "open" /\ op.by = "executor" /\ op.stage = "queued"
  BY StateOpIs
<1> HIDE DEF op
<1>3. /\ row' = row /\ runStatus' = runStatus /\ stream' = stream /\ streams' = streams /\ fence' = fence
      /\ itemQueue' = itemQueue /\ moved' = moved /\ conn' = conn
  BY <1>1 DEF durable, store, screen
<1>4. exec' \in Execs /\ exec'.pc = "opening" /\ exec'.message = None /\ ~exec'.writing
  BY <1>0, <1>1 DEF BaseTypeOK, Execs
<1>5. count' \in Counts
  <2>1. count \in Counts /\ count' = [count EXCEPT !.segments = @ + 1]
    BY <1>0, <1>1 DEF BaseTypeOK
  <2>2. QED
    BY <2>1 DEF Counts
<1>6. BaseTypeOK'
  BY <1>0, <1>1, <1>2, <1>3, <1>4, <1>5, StateAppend DEF BaseTypeOK
<1>7. FenceOK'
  <2>1. \A k \in DOMAIN stateQueue : stateQueue[k].op = "close" /\ stateQueue[k].by # "executor"
    BY <1>0, <1>1, QueueOps DEF Base, FenceOK, StateOps
  <2>2. /\ Len(stateQueue') = Len(stateQueue) + 1 /\ Len(stateQueue) = fence.pending
        /\ Len(stateQueue) + 1 \in DOMAIN stateQueue' /\ stateQueue'[Len(stateQueue) + 1] = op
        /\ \A k \in DOMAIN stateQueue' : \/ k = Len(stateQueue) + 1 /\ stateQueue'[k] = op
                                         \/ k \in DOMAIN stateQueue /\ stateQueue'[k] = stateQueue[k]
    BY <1>0, <1>1, <1>2, StateAppend, QueueOps DEF Base, FenceOK
  <2>3. \A k \in DOMAIN stateQueue' :
          /\ stateQueue'[k].op = "open" => stateQueue'[k].by = "executor" /\ stateQueue'[k].stage = "queued"
          /\ stateQueue'[k].op = "close" => stateQueue'[k].by # "executor"
          /\ k > 1 => stateQueue'[k].stage = "queued"
    BY <1>2, <2>1, <2>2 DEF Base, FenceOK
  <2>4. \A j, k \in DOMAIN stateQueue' :
          stateQueue'[j].by = "executor" /\ stateQueue'[k].by = "executor" => j = k
    BY <2>1, <2>2
  <2>5. \E k \in DOMAIN stateQueue' : stateQueue'[k].op = "open"
    BY <1>2, <2>2
  <2>6. Len(stateQueue') = fence'.pending + (IF exec'.pc = "opening" THEN 1 ELSE 0)
    BY <1>3, <1>4, <2>2
  <2>7. QED
    BY <1>3, <1>4, <2>3, <2>4, <2>5, <2>6 DEF Base, FenceOK
<1>8. WritersOK'
  <2>1. ~exec.writing
    BY <1>1 DEF Base, WritersOK
  <2>2. QED
    BY <1>3, <1>4, <2>1, NoMessageOps DEF Base, WritersOK, WriteOK, MessageOps
<1>9. QuietOK'
  BY <1>1, <1>2, <1>3, StillQuiet DEF Terminal
<1>10. StreamOK' /\ ConnectionOK' /\ ReadsOK'
  BY <1>3, ItemsRest
<1>11. QED
  BY <1>6, <1>7, <1>8, <1>9, <1>10 DEF Base

(* A closing of the run is announced. *)
LEMMA CompleteKeeps ==
  ASSUME Base, NEW to \in { "completed", "cancelled", "waiting" }, NEW by \in { "executor", "cancel" },
         Complete(to, by), by = "executor" => exec.pc = "writing" /\ exec'.pc = "closing",
         by = "cancel" => exec' = exec,
         exec' \in Execs, exec'.message = exec.message, exec'.writing = exec.writing,
         by = "executor" => ~exec.writing, count' \in Counts,
         UNCHANGED << durable, stream, streams, itemQueue, moved, screen >>
  PROVE  Base'
<1> DEFINE op == StateOp("close", to, by)
<1>0. BaseTypeOK
  BY DEF Base
<1>1. /\ fence' = [fence EXCEPT !.closed = TRUE, !.pending = @ + 1]
      /\ stateQueue' = Append(stateQueue, op)
  BY DEF Complete
<1>2. op \in StateOps /\ op.op = "close" /\ op.by = by /\ op.stage = "queued"
  BY StateOpIs
<1> HIDE DEF op
<1>3. /\ row' = row /\ runStatus' = runStatus /\ stream' = stream /\ streams' = streams
      /\ itemQueue' = itemQueue /\ moved' = moved /\ conn' = conn
  BY DEF durable, screen
<1>4. fence' \in Fences /\ fence'.closed = TRUE /\ fence'.committed = fence.committed
      /\ fence'.pending = fence.pending + 1
  <2> DEFINE p == fence.pending + 1
  <2>1. fence \in Fences
    BY <1>0 DEF BaseTypeOK
  <2>2. p \in Int
    BY <2>1 DEF Fences
  <2>3. fence' = [fence EXCEPT !.closed = TRUE, !.pending = p]
    BY <1>1
  <2> HIDE DEF p
  <2>4. fence' \in Fences /\ fence'.closed = TRUE /\ fence'.committed = fence.committed /\ fence'.pending = p
    BY <2>1, <2>2, <2>3 DEF Fences
  <2>5. QED
    BY <2>4 DEF p
<1>5. BaseTypeOK'
  BY <1>0, <1>1, <1>2, <1>3, <1>4, StateAppend DEF BaseTypeOK
<1>6. FenceOK'
  <2>1. /\ Len(stateQueue') = Len(stateQueue) + 1
        /\ DOMAIN stateQueue \subseteq DOMAIN stateQueue'
        /\ \A k \in DOMAIN stateQueue : stateQueue'[k] = stateQueue[k]
        /\ \A k \in DOMAIN stateQueue' : \/ k = Len(stateQueue) + 1 /\ stateQueue'[k] = op
                                         \/ k \in DOMAIN stateQueue /\ stateQueue'[k] = stateQueue[k]
    BY <1>0, <1>1, <1>2, StateAppend
  <2>2. by = "executor" => \A k \in DOMAIN stateQueue : stateQueue[k].by # "executor"
    BY <1>0, QueueOps DEF Base, FenceOK, StateOps
  <2>3. (exec'.pc = "opening") <=> (exec.pc = "opening")
    OBVIOUS
  <2>4. fence'.pending > 0 /\ Len(stateQueue') = fence'.pending + (IF exec'.pc = "opening" THEN 1 ELSE 0)
    <3>1. /\ Len(stateQueue) \in Nat /\ fence.pending \in Int
          /\ Len(stateQueue) = fence.pending + (IF exec.pc = "opening" THEN 1 ELSE 0)
      BY <1>0, QueueOps DEF Base, FenceOK
    <3>2. exec.pc = "opening" => Len(stateQueue) >= 1
      BY <1>0, QueueOps DEF Base, FenceOK
    <3>3. QED
      BY <1>4, <2>1, <2>3, <3>1, <3>2
  <2>5. exec'.pc = "opening" => \E k \in DOMAIN stateQueue' : stateQueue'[k].op = "open"
    BY <2>1, <2>3 DEF Base, FenceOK
  <2>6. ASSUME NEW k \in DOMAIN stateQueue'
        PROVE  /\ stateQueue'[k].op = "open" =>
                    stateQueue'[k].by = "executor" /\ stateQueue'[k].stage = "queued" /\ exec'.pc = "opening"
               /\ stateQueue'[k].op = "close" /\ stateQueue'[k].by = "executor" => exec'.pc = "closing"
               /\ k > 1 => stateQueue'[k].stage = "queued"
    BY <1>2, <2>1, <2>2 DEF Base, FenceOK
  <2>7. \A j, k \in DOMAIN stateQueue' :
          stateQueue'[j].by = "executor" /\ stateQueue'[k].by = "executor" => j = k
    BY <1>2, <2>1, <2>2 DEF Base, FenceOK
  <2>8. QED
    BY <1>4, <2>4, <2>5, <2>6, <2>7 DEF FenceOK
<1>7. WritersOK'
  <2>1. by = "executor" => \A k \in DOMAIN itemQueue : itemQueue[k].kind \notin MessageOps
    BY NoMessageOps
  <2>2. QED
    BY <1>3, <1>4, <2>1 DEF Base, WritersOK, WriteOK
<1>8. QuietOK'
  BY <1>1, <1>2, <1>3, <1>4, StillQuiet
<1>9. StreamOK' /\ ConnectionOK' /\ ReadsOK'
  BY <1>3, ItemsRest
<1>10. QED
  BY <1>5, <1>6, <1>7, <1>8, <1>9 DEF Base

LEMMA ClosingKeeps ==
  ASSUME Base, CancelAutomation \/ \E to \in { "completed", "waiting" } : Finish(to)
  PROVE  Base'
<1>0. BaseTypeOK
  BY DEF Base
<1>1. CASE CancelAutomation
  <2>1. /\ Complete("cancelled", "cancel") /\ exec' = exec /\ count' = [count EXCEPT !.events = @ + 1]
        /\ UNCHANGED << durable, stream, streams, itemQueue, moved, screen >>
    BY <1>1 DEF CancelAutomation, writers
  <2>2. exec \in Execs /\ count' \in Counts
    BY <1>0, <2>1 DEF BaseTypeOK, Counts
  <2>3. QED
    BY <2>1, <2>2, CompleteKeeps
<1>2. ASSUME NEW to \in { "completed", "waiting" }, Finish(to) PROVE Base'
  <2>1. /\ exec.pc = "writing" /\ ~exec.writing /\ Complete(to, "executor")
        /\ exec' = [exec EXCEPT !.pc = "closing"] /\ count' = count
        /\ UNCHANGED << durable, stream, streams, itemQueue, moved, screen >>
    BY <1>2 DEF Finish
  <2>2. /\ exec' \in Execs /\ exec'.pc = "closing" /\ exec'.message = exec.message
        /\ exec'.writing = exec.writing /\ count' \in Counts
    BY <1>0, <2>1 DEF BaseTypeOK, Execs
  <2>3. QED
    BY <2>1, <2>2, CompleteKeeps
<1>3. QED
  BY <1>1, <1>2

(* An operation joins the item queue of an open run. *)
LEMMA OpIs ==
  ASSUME NEW kind \in { "start", "delta", "end", "project" }, NEW i \in Items, NEW v \in Versions
  PROVE  LET r == WriteOp(kind, i, v)
         IN /\ r \in Ops /\ r.kind = kind /\ r.item = i /\ r.version = v /\ ~LiveRead(r)
            /\ r.captured.id = 0 /\ r.captured.live = NoItems
<1>1. WriteOp(kind, i, v) \in Ops
  BY Values
<1>2. QED
  BY <1>1 DEF WriteOp, NoStream, LiveRead

LEMMA ItemAppend ==
  ASSUME BaseTypeOK, NEW op \in Ops, itemQueue' = Append(itemQueue, op)
  PROVE  /\ itemQueue' \in Seq(Ops) /\ DOMAIN itemQueue \subseteq DOMAIN itemQueue'
         /\ Len(itemQueue) + 1 \in DOMAIN itemQueue' /\ itemQueue'[Len(itemQueue) + 1] = op
         /\ \A k \in DOMAIN itemQueue : itemQueue'[k] = itemQueue[k]
         /\ \A k \in DOMAIN itemQueue' : \/ k = Len(itemQueue) + 1 /\ itemQueue'[k] = op
                                         \/ k \in DOMAIN itemQueue /\ itemQueue'[k] = itemQueue[k]
         /\ itemQueue # << >> => itemQueue' # << >> /\ itemQueue'[1] = itemQueue[1]
<1>1. itemQueue \in Seq(Ops)
  BY QueueOps
<1>2. QED
  BY <1>1, Appends

LEMMA WriteJoins ==
  ASSUME Base, ~fence.closed, runStatus \notin Terminal,
         NEW op \in Ops, ~LiveRead(op), op.captured.id = 0, op.captured.live = NoItems,
         itemQueue' = Append(itemQueue, op), exec' \in Execs, exec'.pc = exec.pc, WriteOK(op)',
         IF op.kind \in MessageOps
         THEN ~exec.writing /\ exec.pc = "writing" /\ exec'.writing
         ELSE exec' = exec,
         UNCHANGED << durable, store, stateQueue, moved, screen, count >>
  PROVE  Base'
<1>0. BaseTypeOK
  BY DEF Base
<1>1. /\ row' = row /\ runStatus' = runStatus /\ stream' = stream /\ streams' = streams /\ fence' = fence
      /\ stateQueue' = stateQueue /\ moved' = moved /\ conn' = conn /\ count' = count
  BY DEF durable, store, screen
<1>2. /\ itemQueue' \in Seq(Ops) /\ DOMAIN itemQueue \subseteq DOMAIN itemQueue'
      /\ Len(itemQueue) + 1 \in DOMAIN itemQueue' /\ itemQueue'[Len(itemQueue) + 1] = op
      /\ \A k \in DOMAIN itemQueue : itemQueue'[k] = itemQueue[k]
      /\ \A k \in DOMAIN itemQueue' : \/ k = Len(itemQueue) + 1 /\ itemQueue'[k] = op
                                      \/ k \in DOMAIN itemQueue /\ itemQueue'[k] = itemQueue[k]
      /\ itemQueue # << >> => itemQueue' # << >> /\ itemQueue'[1] = itemQueue[1]
  BY <1>0, ItemAppend
<1>3. ~fence.committed /\ (stateQueue # << >> => stateQueue[1].stage = "queued")
  BY FenceIsOpen
<1>4. BaseTypeOK'
  BY <1>0, <1>1, <1>2 DEF BaseTypeOK
<1>5. FenceOK'
  BY <1>1, FenceStays
<1>6. WritersOK'
  <2>1. \A k \in DOMAIN itemQueue' : WriteOK(itemQueue[k])'
    <3> TAKE k \in DOMAIN itemQueue'
    <3>1. CASE itemQueue'[k] = op
      BY <3>1 DEF WriteOK
    <3>2. CASE k \in DOMAIN itemQueue /\ itemQueue'[k] = itemQueue[k]
      <4>1. WriteOK(itemQueue[k])
        BY <3>2 DEF Base, WritersOK
      <4>2. op.kind \in MessageOps => itemQueue[k].kind \notin MessageOps
        BY <3>2, NoMessageOps
      <4>3. QED
        BY <1>1, <3>2, <4>1, <4>2 DEF WriteOK, MessageOps
    <3>3. QED
      BY <1>2, <3>1, <3>2
  <2>2. \A k \in DOMAIN itemQueue' :
          /\ itemQueue'[k].captured.id # 0 => k = 1 /\ itemQueue'[k].kind \in { "read", "start", "end" }
          /\ itemQueue'[k].captured.id = 0 => itemQueue'[k].captured.live = NoItems
    BY <1>2 DEF Base, WritersOK
  <2>3. \A j, k \in DOMAIN itemQueue' :
          itemQueue'[j].kind \in MessageOps /\ itemQueue'[k].kind \in MessageOps => j = k
    BY <1>2, NoMessageOps DEF Base, WritersOK
  <2>4. /\ exec'.writing => exec'.pc = "writing"
        /\ exec'.pc = "opening" => exec'.message = None
        /\ exec'.pc = "writing" /\ ~exec'.writing /\ exec'.message # None =>
             /\ row[exec'.message].status = "running"
             /\ fence.closed \/ stream.live[exec'.message].sequence >= 0
    BY DEF Base, WritersOK
  <2>5. QED
    BY <1>1, <2>1, <2>2, <2>3, <2>4 DEF WritersOK
<1>7. QuietOK'
  BY <1>1, <1>3 DEF QuietOK
<1>8. StreamOK'
  <2>1. \A m \in Messages : Persisted(m) => Persisted(m)'
    BY <1>2 DEF Persisted, Current
  <2>2. ASSUME NEW m \in Messages, Persisted(m)' PROVE Persisted(m) /\ Current' = Current
    <3>1. itemQueue # << >>
      <4>1. CASE itemQueue = << >>
        <5>1. itemQueue'[1] = op
          BY <1>0, <1>2, <4>1, QueueOps
        <5>2. QED
          BY <2>2, <5>1 DEF Persisted, Current
      <4>2. QED
        BY <4>1
    <3>2. QED
      BY <1>2, <2>2, <3>1 DEF Persisted, Current
  <2>3. QED
    BY <1>1, <2>1, <2>2 DEF Base, StreamOK
<1>9. ConnectionOK' /\ ReadsOK'
  <2>1. \A k \in DOMAIN itemQueue' : LiveRead(itemQueue'[k]) =>
          k \in DOMAIN itemQueue /\ itemQueue'[k] = itemQueue[k]
    BY <1>2
  <2>2. QED
    BY <1>1, <1>2, <2>1 DEF Base, ConnectionOK, ReadsOK
<1>10. QED
  BY <1>4, <1>5, <1>6, <1>7, <1>8, <1>9 DEF Base

(* A write of the executor, whatever it writes. *)
LEMMA WriteKeeps ==
  ASSUME Base, NEW kind \in MessageOps, NEW m \in Messages, NEW v \in Versions, NEW local \in Execs,
         local.pc = exec.pc, Write(kind, m, v, local),
         \A ex \in Execs : ex.message = local.message /\ ex.writing /\ exec' = ex /\ ~fence.closed
           => WriteOK(WriteOp(kind, m, v))'
  PROVE  Base'
<1>0. BaseTypeOK
  BY DEF Base
<1>1. /\ exec.pc = "writing" /\ ~exec.writing
      /\ UNCHANGED << durable, store, stateQueue, moved, screen, count >>
  BY DEF Write
<1>2. CASE fence.closed
  <2>1. exec' = [exec EXCEPT !.pc = "idle"] /\ itemQueue' = itemQueue
    BY <1>2 DEF Write
  <2>2. exec' \in Execs /\ exec'.pc = "idle" /\ exec'.message = exec.message /\ ~exec'.writing
    BY <1>0, <1>1, <2>1 DEF BaseTypeOK, Execs
  <2>3. /\ row' = row /\ runStatus' = runStatus /\ stream' = stream /\ streams' = streams /\ fence' = fence
        /\ stateQueue' = stateQueue /\ moved' = moved /\ conn' = conn /\ count' = count
    BY <1>1 DEF durable, store, screen
  <2>4. BaseTypeOK'
    BY <1>0, <2>1, <2>2, <2>3 DEF BaseTypeOK
  <2>5. FenceOK'
    <3>1. \A k \in DOMAIN stateQueue : stateQueue[k].op # "open"
                                       /\ ~(stateQueue[k].op = "close" /\ stateQueue[k].by = "executor")
      BY <1>1 DEF Base, FenceOK
    <3>2. QED
      BY <1>1, <2>2, <2>3, <3>1 DEF Base, FenceOK
  <2>6. WritersOK'
    BY <1>1, <2>1, <2>2, <2>3, NoMessageOps DEF Base, WritersOK, WriteOK, MessageOps
  <2>7. QuietOK'
    BY <1>2, <2>1, <2>3 DEF Base, QuietOK, OnlyReads
  <2>8. StreamOK' /\ ConnectionOK' /\ ReadsOK'
    BY <2>1, <2>3, ItemsRest
  <2>9. QED
    BY <2>4, <2>5, <2>6, <2>7, <2>8 DEF Base
<1>3. CASE ~fence.closed
  <2> DEFINE op == WriteOp(kind, m, v)
  <2>1. exec' = [local EXCEPT !.writing = TRUE] /\ itemQueue' = Append(itemQueue, op)
    BY <1>3 DEF Write
  <2>2. exec' \in Execs /\ exec'.pc = "writing" /\ exec'.message = local.message /\ exec'.writing
    BY <1>1, <2>1 DEF Execs
  <2>3. m \in Items /\ kind \in { "start", "delta", "end", "project" }
    BY DEF Items, MessageOps
  <2>4. op \in Ops /\ op.kind = kind /\ ~LiveRead(op) /\ op.captured.id = 0 /\ op.captured.live = NoItems
    BY <2>3, OpIs
  <2>5. WriteOK(op)'
    BY <1>3, <2>2
  <2>6. runStatus \notin Terminal
    BY <1>1, <1>3 DEF Base, QuietOK
  <2> HIDE DEF op
  <2>7. QED
    BY <1>1, <1>3, <2>1, <2>2, <2>4, <2>5, <2>6, WriteJoins
<1>4. QED
  BY <1>2, <1>3

LEMMA MessageKeeps ==
  ASSUME Base, AddChunk \/ EndMessage \/ \E m \in Messages : StartMessage(m)
  PROVE  Base'
<1>0. BaseTypeOK /\ exec \in Execs /\ exec.body \in Nat /\ exec.message \in Messages \cup { None }
  BY DEF Base, BaseTypeOK, Execs
<1>1. ASSUME NEW m \in Messages, StartMessage(m) PROVE Base'
  <2> DEFINE local == [exec EXCEPT !.message = m, !.body = 0]
             op == WriteOp("start", m, Running(0))
  <2>1. exec.message = None /\ row[m] = Absent /\ Write("start", m, Running(0), local)
    BY <1>1 DEF StartMessage
  <2>2. local \in Execs /\ local.pc = exec.pc /\ local.message = m
    BY <1>0 DEF Execs
  <2>3. row' = row
    BY <2>1 DEF Write, durable
  <2>4. op.kind = "start" /\ op.item = m /\ op.version = Running(0) /\ op.captured.id = 0
    BY DEF WriteOp, NoStream
  <2> HIDE DEF local, op
  <2>5. ASSUME NEW ex \in Execs, ex.message = local.message, ex.writing, exec' = ex PROVE WriteOK(op)'
    BY <2>1, <2>2, <2>3, <2>4, <2>5 DEF WriteOK, MessageOps
  <2>6. "start" \in MessageOps /\ Running(0) \in Versions
    BY Values DEF MessageOps
  <2>7. QED
    BY <2>1, <2>2, <2>5, <2>6, WriteKeeps DEF op
<1>2. CASE AddChunk
  <2>1. exec.message # None /\ exec.message \in Messages
    BY <1>0, <1>2 DEF AddChunk
  <2>2. PICK m \in Messages : m = exec.message
    BY <2>1
  <2>3. PICK b \in Nat : b = exec.body
    BY <1>0
  <2> DEFINE local == [exec EXCEPT !.body = @ + 1]
             op == WriteOp("delta", m, Running(b + 1))
  <2>4. Write("delta", m, Running(b + 1), local)
    BY <1>2, <2>2, <2>3 DEF AddChunk
  <2>5. local \in Execs /\ local.pc = exec.pc /\ local.message = m
    BY <1>0, <2>2 DEF Execs
  <2>6. row' = row /\ stream' = stream /\ exec.pc = "writing" /\ ~exec.writing
    BY <2>4 DEF Write, durable, store
  <2>7. /\ row[m].status = "running"
        /\ ~fence.closed => stream.live[m].sequence >= 0
    BY <2>1, <2>2, <2>6 DEF Base, WritersOK
  <2>8. op.kind = "delta" /\ op.item = m /\ op.version.status = "running" /\ op.captured.id = 0
    BY DEF WriteOp, NoStream, Running
  <2> HIDE DEF local, op
  <2>9. ASSUME NEW ex \in Execs, ex.message = local.message, ex.writing, exec' = ex, ~fence.closed
        PROVE  WriteOK(op)'
    BY <2>5, <2>6, <2>7, <2>8, <2>9 DEF WriteOK, MessageOps
  <2>10. "delta" \in MessageOps /\ Running(b + 1) \in Versions
    BY Values DEF MessageOps
  <2>11. QED
    BY <2>4, <2>5, <2>9, <2>10, WriteKeeps DEF op
<1>3. CASE EndMessage
  <2>1. exec.message # None /\ exec.message \in Messages
    BY <1>0, <1>3 DEF EndMessage
  <2>2. PICK m \in Messages : m = exec.message
    BY <2>1
  <2>3. PICK b \in Nat : b = exec.body
    BY <1>0
  <2> DEFINE local == [exec EXCEPT !.message = None]
             op == WriteOp("end", m, Ended(b))
  <2>4. Write("end", m, Ended(b), local)
    BY <1>3, <2>2, <2>3 DEF EndMessage
  <2>5. local \in Execs /\ local.pc = exec.pc /\ local.message = None
    BY <1>0 DEF Execs
  <2>6. row' = row /\ exec.pc = "writing" /\ ~exec.writing
    BY <2>4 DEF Write, durable
  <2>7. row[m].status = "running"
    BY <2>1, <2>2, <2>6 DEF Base, WritersOK
  <2>8. op.kind = "end" /\ op.item = m /\ op.version.status = "completed" /\ op.captured.id = 0
    BY DEF WriteOp, NoStream, Ended
  <2> HIDE DEF local, op
  <2>9. ASSUME NEW ex \in Execs, ex.message = local.message, ex.writing, exec' = ex
        PROVE  WriteOK(op)'
    BY <2>5, <2>6, <2>7, <2>8, <2>9 DEF WriteOK, MessageOps
  <2>10. "end" \in MessageOps /\ Ended(b) \in Versions
    BY Values DEF MessageOps
  <2>11. QED
    BY <2>4, <2>5, <2>9, <2>10, WriteKeeps DEF op
<1>4. QED
  BY <1>1, <1>2, <1>3

(* The inputs and their projection. *)
LEMMA MoveInputKeeps ==
  ASSUME Base, NEW u \in Inputs, MoveInput(u)
  PROVE  Base'
<1>0. BaseTypeOK
  BY DEF Base
<1>1. /\ exec.pc = "writing" /\ row' = [row EXCEPT ![u] = Moved(row[u].body + 1)]
      /\ moved' = moved \cup {u}
      /\ UNCHANGED << runStatus, store, itemQueue, stateQueue, exec, screen, count >>
  BY DEF MoveInput
<1>2. /\ runStatus' = runStatus /\ stream' = stream /\ streams' = streams /\ fence' = fence
      /\ itemQueue' = itemQueue /\ stateQueue' = stateQueue /\ exec' = exec /\ conn' = conn /\ count' = count
  BY <1>1 DEF store, screen
<1>3. u \in Items /\ row \in [Items -> Versions] /\ Moved(row[u].body + 1) \in Versions
  <2>1. u \in Items /\ row \in [Items -> Versions]
    BY <1>0 DEF Items, BaseTypeOK
  <2>2. row[u].body + 1 \in Nat
    BY <2>1 DEF Versions
  <2>3. QED
    BY <2>1, <2>2, Values
<1>4. row' \in [Items -> Versions] /\ \A m \in Messages : row'[m] = row[m]
  BY <1>1, <1>3, StreamAssumption DEF Items
<1>5. BaseTypeOK'
  BY <1>0, <1>1, <1>2, <1>4 DEF BaseTypeOK
<1>6. FenceOK'
  BY <1>2, FenceStays
<1>7. WritersOK'
  <2>1. \A k \in DOMAIN itemQueue : WriteOK(itemQueue[k])'
    BY <1>2, <1>4 DEF Base, WritersOK, WriteOK, MessageOps
  <2>2. exec.message # None => exec.message \in Messages
    BY <1>0 DEF BaseTypeOK, Execs
  <2>3. QED
    BY <1>2, <1>4, <2>1, <2>2 DEF Base, WritersOK
<1>8. QuietOK'
  BY <1>1, <1>2 DEF Base, QuietOK, OnlyReads
<1>9. StreamOK'
  BY <1>2, <1>4 DEF Base, StreamOK, Persisted, Current
<1>10. ConnectionOK' /\ ReadsOK'
  BY <1>2 DEF Base, ConnectionOK, ReadsOK
<1>11. QED
  BY <1>5, <1>6, <1>7, <1>8, <1>9, <1>10 DEF Base

LEMMA ProjectInputKeeps ==
  ASSUME Base, NEW u \in Inputs, ProjectInput(u)
  PROVE  Base'
<1>0. BaseTypeOK
  BY DEF Base
<1>1. u \in moved /\ UNCHANGED << durable, store, stateQueue, exec, screen, count >>
  BY DEF ProjectInput
<1>2. CASE fence.closed
  <2>1. moved' = moved \ {u} /\ itemQueue' = itemQueue
    BY <1>2 DEF ProjectInput
  <2>2. /\ row' = row /\ runStatus' = runStatus /\ stream' = stream /\ streams' = streams /\ fence' = fence
        /\ stateQueue' = stateQueue /\ exec' = exec /\ conn' = conn /\ count' = count
    BY <1>1 DEF durable, store, screen
  <2>3. BaseTypeOK'
    BY <1>0, <2>1, <2>2 DEF BaseTypeOK
  <2>4. FenceOK'
    BY <2>2, FenceStays
  <2>5. WritersOK'
    BY <2>1, <2>2 DEF Base, WritersOK, WriteOK
  <2>6. QuietOK'
    BY <1>2, <2>1, <2>2 DEF Base, QuietOK, OnlyReads
  <2>7. StreamOK' /\ ConnectionOK' /\ ReadsOK'
    BY <2>1, <2>2, ItemsRest
  <2>8. QED
    BY <2>3, <2>4, <2>5, <2>6, <2>7 DEF Base
<1>3. CASE ~fence.closed
  <2>1. u \in Items /\ row[u] \in Versions
    BY <1>0 DEF BaseTypeOK, Items
  <2>2. PICK v \in Versions : v = row[u]
    BY <2>1
  <2> DEFINE op == WriteOp("project", u, v)
  <2>3. itemQueue' = Append(itemQueue, op) /\ moved' = moved
    BY <1>3, <2>2 DEF ProjectInput
  <2>4. op \in Ops /\ op.kind = "project" /\ op.item = u /\ ~LiveRead(op) /\ op.captured.id = 0
        /\ op.captured.live = NoItems
    BY <2>1, OpIs
  <2> HIDE DEF op
  <2>5. WriteOK(op)'
    BY <2>4 DEF WriteOK, MessageOps
  <2>6. runStatus \notin Terminal
    BY <1>1, <1>3 DEF Base, QuietOK
  <2>7. exec' = exec /\ exec \in Execs
    BY <1>0, <1>1 DEF BaseTypeOK
  <2>8. op.kind \notin MessageOps
    BY <2>4 DEF MessageOps
  <2>9. QED
    BY <1>1, <1>3, <2>3, <2>4, <2>5, <2>6, <2>7, <2>8, WriteJoins
<1>4. QED
  BY <1>2, <1>3

(* The connection and the process. *)
LEMMA LoseConnectionKeeps ==
  ASSUME Base, LoseConnection
  PROVE  Base'
<1>0. BaseTypeOK
  BY DEF Base
<1>1. /\ conn' = NoConnection
      /\ itemQueue' = [k \in DOMAIN itemQueue |->
                         [itemQueue[k] EXCEPT !.dead = @ \/ itemQueue[k].kind = "read"]]
      /\ count' = [count EXCEPT !.events = @ + 1]
      /\ UNCHANGED << durable, store, stateQueue, writers >>
  BY DEF LoseConnection
<1>2. /\ row' = row /\ runStatus' = runStatus /\ stream' = stream /\ streams' = streams /\ fence' = fence
      /\ stateQueue' = stateQueue /\ exec' = exec /\ moved' = moved
  BY <1>1 DEF durable, store, writers
<1>3. \A op \in Ops : LET r == [op EXCEPT !.dead = @ \/ op.kind = "read"]
                      IN /\ r \in Ops /\ r.kind = op.kind /\ r.item = op.item /\ r.version = op.version
                         /\ r.captured = op.captured /\ (op.kind = "read" => r.dead)
  <2> TAKE op \in Ops
  <2>1. (op.dead \/ op.kind = "read") \in BOOLEAN
    BY Zenon
  <2>2. PICK b \in BOOLEAN : b = (op.dead \/ op.kind = "read")
    BY <2>1, Zenon
  <2> DEFINE r == [op EXCEPT !.dead = b]
  <2>3. r \in Ops /\ r.kind = op.kind /\ r.item = op.item /\ r.version = op.version
        /\ r.captured = op.captured /\ r.dead = b
    BY DEF Ops
  <2>4. op.kind = "read" => b
    BY <2>2
  <2>5. [op EXCEPT !.dead = @ \/ op.kind = "read"] = r
    BY <2>2
  <2> HIDE DEF r
  <2>6. QED
    BY <2>3, <2>4, <2>5
<1>4. /\ itemQueue' \in Seq(Ops) /\ DOMAIN itemQueue' = DOMAIN itemQueue
      /\ Len(itemQueue') = Len(itemQueue) /\ (itemQueue' = << >> <=> itemQueue = << >>)
      /\ \A k \in DOMAIN itemQueue :
           /\ itemQueue'[k].kind = itemQueue[k].kind /\ itemQueue'[k].item = itemQueue[k].item
           /\ itemQueue'[k].version = itemQueue[k].version
           /\ itemQueue'[k].captured = itemQueue[k].captured /\ ~LiveRead(itemQueue'[k])
  <2> DEFINE new(k) == [itemQueue[k] EXCEPT !.dead = @ \/ itemQueue[k].kind = "read"]
  <2>1. itemQueue \in Seq(Ops) /\ \A k \in DOMAIN itemQueue : itemQueue[k] \in Ops
    BY <1>0, QueueOps
  <2>2. \A k \in DOMAIN itemQueue :
           /\ new(k) \in Ops /\ new(k).kind = itemQueue[k].kind /\ new(k).item = itemQueue[k].item
           /\ new(k).version = itemQueue[k].version
           /\ new(k).captured = itemQueue[k].captured /\ ~LiveRead(new(k))
    BY <1>3, <2>1 DEF LiveRead
  <2>3. itemQueue' = [k \in DOMAIN itemQueue |-> new(k)]
    BY <1>1
  <2> HIDE DEF new
  <2>4. DOMAIN itemQueue = 1..Len(itemQueue) /\ Len(itemQueue) \in Nat
    BY <1>0, QueueOps
  <2>5. itemQueue' \in Seq(Ops) /\ Len(itemQueue') = Len(itemQueue)
    BY <2>2, <2>3, <2>4
  <2>6. itemQueue' = << >> <=> itemQueue = << >>
    BY <2>1, <2>5
  <2>7. QED
    BY <2>2, <2>3, <2>5, <2>6
<1>5. count' \in Counts
  <2>1. count \in Counts
    BY <1>0 DEF BaseTypeOK
  <2>2. QED
    BY <1>1, <2>1 DEF Counts
<1>6. conn' \in Connections /\ conn'.slots = << >> /\ ~conn'.capturing
      /\ ~conn'.subscribed /\ ~conn'.open
  BY <1>1 DEF NoConnection, Connections
<1>7. BaseTypeOK'
  BY <1>0, <1>2, <1>4, <1>5, <1>6 DEF BaseTypeOK
<1>8. FenceOK'
  BY <1>2, FenceStays
<1>9. WritersOK'
  <2>1. \A k \in DOMAIN itemQueue' : WriteOK(itemQueue[k])'
    BY <1>2, <1>4 DEF Base, WritersOK, WriteOK
  <2>2. QED
    BY <1>2, <1>4, <2>1 DEF Base, WritersOK
<1>10. QuietOK'
  BY <1>2, <1>4 DEF Base, QuietOK, OnlyReads
<1>11. StreamOK'
  <2>1. itemQueue # << >> => 1 \in DOMAIN itemQueue
    BY <1>0, QueueOps
  <2>2. \A m \in Messages : Persisted(m) <=> Persisted(m)'
    BY <1>4, <2>1 DEF Persisted, Current
  <2>3. itemQueue # << >> => Current'.captured = Current.captured
    BY <1>4, <2>1 DEF Current
  <2>4. QED
    BY <1>2, <2>2, <2>3 DEF Base, StreamOK, Persisted
<1>12. ConnectionOK'
  BY <1>6 DEF ConnectionOK
<1>13. ReadsOK'
  BY <1>4, <1>6 DEF ReadsOK
<1>14. QED
  BY <1>7, <1>8, <1>9, <1>10, <1>11, <1>12, <1>13 DEF Base

LEMMA ReconnectKeeps ==
  ASSUME Base, Reconnect
  PROVE  Base'
<1>0. BaseTypeOK
  BY DEF Base
<1>1. /\ ~conn.open /\ conn' = [NoConnection EXCEPT !.open = TRUE]
      /\ UNCHANGED << durable, store, itemQueue, stateQueue, writers, count >>
  BY DEF Reconnect
<1>2. /\ row' = row /\ runStatus' = runStatus /\ stream' = stream /\ streams' = streams /\ fence' = fence
      /\ stateQueue' = stateQueue /\ itemQueue' = itemQueue /\ exec' = exec /\ moved' = moved
      /\ count' = count
  BY <1>1 DEF durable, store, writers
<1>3. conn' \in Connections /\ conn'.slots = << >> /\ ~conn'.capturing /\ ~conn'.subscribed
  <2>1. conn' = [open |-> TRUE, subscribed |-> FALSE, slots |-> << >>, capturing |-> FALSE]
    BY <1>1 DEF NoConnection
  <2>2. QED
    BY <2>1 DEF Connections
<1>4. ~conn.capturing
  BY <1>1 DEF Base, ConnectionOK
<1>5. BaseTypeOK'
  BY <1>0, <1>2, <1>3 DEF BaseTypeOK
<1>6. FenceOK'
  BY <1>2, FenceStays
<1>7. WritersOK'
  BY <1>2 DEF Base, WritersOK, WriteOK
<1>8. QuietOK'
  BY <1>2 DEF Base, QuietOK, OnlyReads
<1>9. StreamOK'
  BY <1>2 DEF Base, StreamOK, Persisted, Current
<1>10. ConnectionOK' /\ ReadsOK'
  BY <1>2, <1>3, <1>4 DEF Base, ConnectionOK, ReadsOK
<1>11. QED
  BY <1>5, <1>6, <1>7, <1>8, <1>9, <1>10 DEF Base

LEMMA SubscribeIs ==
  ASSUME Base, HandleSubscribe
  PROVE  /\ conn.open /\ client.asks /\ Reserved("reply hole")
         /\ client' = [client EXCEPT !.asks = FALSE]
         /\ UNCHANGED << durable, store, stateQueue, writers, count >>
<1>1. conn \in Connections /\ (conn.slots = << >> \/ IsHole(conn.slots[1]))
  BY DEF Base, BaseTypeOK
<1>2. Reserve("reply hole", itemQueue)
  BY DEF HandleSubscribe
<1>3. Reserved("reply hole")
  BY <1>1, <1>2, ReserveIs DEF Reserved
<1>4. QED
  BY <1>3 DEF HandleSubscribe

(* A read joins the item queue, and the rest of the server stays as it is. *)
LEMMA ReadJoins ==
  ASSUME Base, MoreReads, ConnectionOK', ReadsOK', conn' \in Connections,
         conn'.slots = << >> \/ IsHole(conn'.slots[1]), count' \in Counts,
         UNCHANGED << durable, store, stateQueue, writers >>
  PROVE  Base'
<1>0. BaseTypeOK
  BY DEF Base
<1>1. /\ row' = row /\ runStatus' = runStatus /\ stream' = stream /\ streams' = streams /\ fence' = fence
      /\ stateQueue' = stateQueue /\ exec' = exec /\ moved' = moved
  BY DEF durable, store, writers
<1>2. BaseTypeOK'
  BY <1>0, <1>1 DEF BaseTypeOK, MoreReads
<1>3. FenceOK'
  BY <1>1, FenceStays
<1>4. WritersOK'
  <2>1. \A k \in DOMAIN itemQueue' : WriteOK(itemQueue[k])'
    <3> TAKE k \in DOMAIN itemQueue'
    <3>1. CASE itemQueue'[k].kind = "read"
      BY <3>1 DEF WriteOK, MessageOps
    <3>2. CASE itemQueue'[k].kind # "read"
      <4>1. k \in DOMAIN itemQueue /\ itemQueue'[k] = itemQueue[k]
        BY <3>2, ReadsDisturbNobody
      <4>2. QED
        BY <1>1, <4>1 DEF Base, WritersOK, WriteOK
    <3>3. QED
      BY <3>1, <3>2
  <2>2. QED
    BY <1>1, <2>1, ReadsDisturbNobody DEF Base, WritersOK
<1>5. QuietOK'
  <2>1. stateQueue # << >> /\ stateQueue[1].stage = "draining" =>
          /\ stateQueue[1].awaits <= Len(itemQueue')
          /\ \A k \in DOMAIN itemQueue' : k > stateQueue[1].awaits => itemQueue'[k].kind = "read"
    <3> HAVE stateQueue # << >> /\ stateQueue[1].stage = "draining"
    <3>1. stateQueue[1].awaits \in Nat /\ Len(itemQueue) \in Nat
      BY <1>0, QueueOps DEF StateOps
    <3>2. /\ stateQueue[1].awaits <= Len(itemQueue)
          /\ \A k \in DOMAIN itemQueue : k > stateQueue[1].awaits => itemQueue[k].kind = "read"
      BY DEF Base, QuietOK
    <3>3. stateQueue[1].awaits <= Len(itemQueue')
      BY <3>1, <3>2 DEF MoreReads
    <3>4. \A k \in DOMAIN itemQueue' : itemQueue'[k].kind = "read" \/ (k \in DOMAIN itemQueue /\ itemQueue'[k] = itemQueue[k])
      BY ReadsDisturbNobody
    <3>5. QED
      BY <3>2, <3>3, <3>4
  <2>2. OnlyReads => OnlyReads'
    BY ReadsDisturbNobody
  <2>3. QED
    BY <1>1, <2>1, <2>2 DEF Base, QuietOK
<1>6. StreamOK'
  BY <1>1, StreamStays
<1>7. QED
  BY <1>2, <1>3, <1>4, <1>5, <1>6 DEF Base

LEMMA SubscribeKeeps ==
  ASSUME Base, HandleSubscribe
  PROVE  Base'
<1>1. /\ conn.open /\ Reserved("reply hole")
      /\ UNCHANGED << durable, store, stateQueue, writers, count >>
  BY SubscribeIs
<1>2. count' \in Counts
  BY <1>1 DEF Base, BaseTypeOK
<1>3. QED
  BY <1>1, <1>2, ReservedKeeps, ReadJoins

LEMMA MutateStateKeeps ==
  ASSUME Base, MutateState
  PROVE  Base'
<1>1. /\ PublishRun /\ count' = [count EXCEPT !.events = @ + 1]
      /\ UNCHANGED << durable, store, stateQueue, writers >>
  BY DEF MutateState
<1>2. count \in Counts
  BY DEF Base, BaseTypeOK
<1>3. count' \in Counts
  BY <1>1, <1>2 DEF Counts
<1>4. QED
  BY <1>1, <1>3, PublishRunKeeps, ReadJoins

(* Only the rows are left, and the number of streams there were. *)
LEMMA CrashKeeps ==
  ASSUME Base, Crash
  PROVE  Base'
<1>0. BaseTypeOK
  BY DEF Base
<1>1. /\ runStatus' = IF runStatus \in { "queued", "running" } THEN "interrupted" ELSE runStatus
      /\ stream' = NoStream /\ fence' = OpenFence /\ itemQueue' = << >> /\ stateQueue' = << >>
      /\ exec' = Idle /\ moved' = {} /\ conn' = NoConnection
      /\ count' = [count EXCEPT !.events = @ + 1] /\ row' = row /\ streams' = streams
  BY DEF Crash
<1>2. count' \in Counts
  <2>1. count \in Counts /\ count' = [count EXCEPT !.events = @ + 1]
    BY <1>0, <1>1 DEF BaseTypeOK
  <2>2. QED
    BY <2>1 DEF Counts
<1>3. conn' \in Connections /\ conn'.slots = << >> /\ ~conn'.capturing
      /\ ~conn'.subscribed /\ ~conn'.open
  BY <1>1 DEF NoConnection, Connections
<1>4. fence' \in Fences /\ ~fence'.closed /\ ~fence'.committed /\ fence'.pending = 0
  BY <1>1 DEF OpenFence, Fences
<1>5. exec' \in Execs /\ exec'.pc = "idle" /\ ~exec'.writing
  BY <1>1 DEF Idle, Execs
<1>6. BaseTypeOK'
  BY <1>0, <1>1, <1>2, <1>3, <1>4, <1>5, Values DEF BaseTypeOK
<1>7. FenceOK'
  BY <1>1, <1>4, <1>5 DEF FenceOK
<1>8. WritersOK'
  BY <1>1, <1>5 DEF WritersOK
<1>9. QuietOK'
  BY <1>1, <1>4, <1>5, Values DEF QuietOK, OnlyReads
<1>10. StreamOK'
  <2>1. \A m \in Messages : NoItems[m].sequence = -1 /\ NoItems[m].version.status = "none"
    BY Values DEF Items, Absent
  <2>2. QED
    BY <1>0, <1>1, <2>1, Values DEF StreamOK, Persisted, BaseTypeOK
<1>11. ConnectionOK' /\ ReadsOK'
  BY <1>1, <1>3 DEF ConnectionOK, ReadsOK
<1>12. QED
  BY <1>6, <1>7, <1>8, <1>9, <1>10, <1>11 DEF Base

LEMMA StutterKeeps ==
  ASSUME Base, UNCHANGED streamVars
  PROVE  Base'
<1>1. UNCHANGED << row, runStatus, stream, streams, fence, itemQueue, stateQueue, exec, moved, conn, count >>
  BY DEF streamVars, durable, store, writers, screen
<1>2. BaseTypeOK' /\ FenceOK' /\ QuietOK' /\ ConnectionOK' /\ ReadsOK'
  BY <1>1 DEF Base, BaseTypeOK, FenceOK, QuietOK, OnlyReads, ConnectionOK, ReadsOK
<1>3. WritersOK' /\ StreamOK'
  BY <1>1 DEF Base, WritersOK, WriteOK, StreamOK, Persisted, Current
<1>4. QED
  BY <1>2, <1>3 DEF Base

LEMMA BaseInit ==
  ASSUME InitStream
  PROVE  Base
<1>1. /\ row = [i \in Items |-> Absent] /\ runStatus = "queued"
      /\ stream = NoStream /\ streams = 0 /\ fence = OpenFence
      /\ itemQueue = << >> /\ stateQueue = << >>
      /\ exec = Idle /\ moved = {}
      /\ conn = [NoConnection EXCEPT !.open = TRUE, !.subscribed = TRUE]
      /\ count = [segments |-> 0, events |-> 0, closes |-> 0]
  BY DEF InitStream
<1>2. conn \in Connections /\ conn.slots = << >> /\ ~conn.capturing /\ conn.open
  <2>1. conn = [open |-> TRUE, subscribed |-> TRUE, slots |-> << >>, capturing |-> FALSE]
    BY <1>1 DEF NoConnection
  <2>2. QED
    BY <2>1 DEF Connections
<1>3. fence \in Fences /\ ~fence.closed /\ ~fence.committed /\ fence.pending = 0
  BY <1>1 DEF OpenFence, Fences
<1>4. exec \in Execs /\ exec.pc = "idle" /\ ~exec.writing
  BY <1>1 DEF Idle, Execs
<1>5. count \in Counts
  BY <1>1 DEF Counts
<1>6. BaseTypeOK
  BY <1>1, <1>2, <1>3, <1>4, <1>5, Values DEF BaseTypeOK
<1>7. FenceOK /\ WritersOK /\ QuietOK
  BY <1>1, <1>3, <1>4, Values DEF FenceOK, WritersOK, QuietOK, OnlyReads
<1>8. StreamOK
  <2>1. \A m \in Messages : /\ NoItems[m].sequence = -1 /\ NoItems[m].version.status = "none"
                            /\ row[m].status = "none"
    BY <1>1, Values DEF Items, Absent
  <2>2. QED
    BY <1>1, <2>1, Values DEF StreamOK, Persisted
<1>9. ConnectionOK /\ ReadsOK
  BY <1>1, <1>2 DEF ConnectionOK, ReadsOK
<1>10. QED
  BY <1>6, <1>7, <1>8, <1>9 DEF Base

LEMMA BaseStep ==
  ASSUME Base, [NextStream]_streamVars
  PROVE  Base'
<1>1. CASE QueueStep
  BY <1>1, PersistItemKeeps, PublishItemKeeps, AppendTextKeeps, CaptureStreamKeeps, LoadRowsKeeps,
     OpenKeeps, CloseBeginsKeeps, CloseInstallsKeeps, CloseCommitsKeeps, MutateStateKeeps
     DEF QueueStep
<1>2. CASE WriterStep
  BY <1>2, BeginKeeps, MessageKeeps, ClosingKeeps, MoveInputKeeps, ProjectInputKeeps DEF WriterStep
<1>3. CASE LoseConnection \/ Reconnect \/ HandleSubscribe \/ Crash
  BY <1>3, LoseConnectionKeeps, ReconnectKeeps, SubscribeKeeps, CrashKeeps
<1>4. CASE UNCHANGED streamVars
  BY <1>4, StutterKeeps
<1>5. QED
  BY <1>1, <1>2, <1>3, <1>4 DEF NextStream

LEMMA BaseAlways == SpecStream => []Base
<1>1. InitStream => Base
  BY BaseInit
<1>2. Base /\ [NextStream]_streamVars => Base'
  BY BaseStep
<1>3. QED
  BY <1>1, <1>2, PTL DEF SpecStream

-------------------------------------------------------------------------------
(* Part 6.  The world the client knows about only grows.                     *)
LEMMA WorldIs ==
  ASSUME BaseTypeOK, BaseTypeOK'
  PROVE  /\ World \in Worlds /\ World' \in Worlds
         /\ World.stream = stream /\ World.last = streams /\ World.row = row
         /\ World'.stream = stream' /\ World'.last = streams' /\ World'.row = row'
BY DEF World, Worlds, BaseTypeOK

LEMMA WorldGrows ==
  ASSUME Base, Base', [NextStream]_streamVars
  PROVE  Grows(World, World')
<1>0. BaseTypeOK /\ BaseTypeOK' /\ stream.id \in 0..streams
  BY DEF Base, StreamOK
<1>1. /\ row \in [Items -> Versions] /\ stream \in Captures /\ streams \in Nat
      /\ \A i \in Items : stream.live[i].sequence \in Int
  <2>1. stream.live \in Views
    BY <1>0 DEF BaseTypeOK, Captures
  <2>2. QED
    BY <1>0, <2>1 DEF BaseTypeOK, Views, Cursors
<1> DEFINE Larger ==
      /\ streams <= streams'
      /\ \A i \in Items : row[i] # Absent => row'[i] # Absent
      /\ \A m \in Messages : row[m].status = "completed" => row'[m] = row[m]
      /\ \/ /\ stream'.id = stream.id
            /\ \A i \in Items : stream.live[i].sequence <= stream'.live[i].sequence
         \/ stream'.id = 0
         \/ stream'.id > streams
<1>2. ASSUME Larger PROVE Grows(World, World')
  BY <1>0, <1>2, WorldIs DEF Grows
<1>3. ASSUME row' = row, stream' = stream, streams' = streams PROVE Larger
  BY <1>1, <1>3
<1>4. ASSUME PersistItem PROVE Larger
  <2>1. /\ itemQueue # << >> /\ Current.kind \in { "start", "end" } /\ Current.captured.id = 0
        /\ row' = [row EXCEPT ![Current.item] = Current.version]
        /\ stream' = ActiveStream /\ streams' = CreatedCount
    BY <1>0, <1>4, PersistItemIs, Zenon
  <2>2. WriteOK(Current) /\ Current.item \in Items
    BY <2>1, CurrentWrites DEF MessageOps
  <2>3. row[Current.item].status # "completed" /\ Current.version # Absent
    BY <2>1, <2>2 DEF WriteOK, Absent, Running, MessageOps
  <2>4. \A i \in Items : row'[i] = row[i] \/ (i = Current.item /\ row'[i] = Current.version)
    BY <1>1, <2>1, <2>2
  <2>5. \A m \in Messages : m \in Items
    BY DEF Items
  <2>6. /\ \A i \in Items : row[i] # Absent => row'[i] # Absent
        /\ \A m \in Messages : row[m].status = "completed" => row'[m] = row[m]
    BY <2>3, <2>4, <2>5
  <2>7. /\ streams <= streams'
        /\ (stream' = stream \/ stream'.id > streams)
    BY <1>0, <1>1, <2>1, ActiveIs
  <2>8. QED
    BY <1>1, <2>6, <2>7
<1>5. ASSUME NEW to \in Captures, NEW m, Publishes(to, m), row' = row, streams <= streams',
             to = stream \/ to.id > streams
      PROVE  Larger
  <2>1. stream' = Landed(to, Current.item, Current.version) /\ Current.item \in Items
    BY <1>5 DEF Publishes
  <2>2. Current.version \in Versions
    BY <1>5 DEF Publishes, Updates
  <2>3. /\ stream'.id = to.id
        /\ stream'.live[Current.item].sequence = to.live[Current.item].sequence + 1
        /\ \A j \in Items : j # Current.item => stream'.live[j] = to.live[j]
    <3>1. /\ stream'.id = to.id /\ NextOf(to, Current.item) = to.live[Current.item].sequence + 1
          /\ stream'.live[Current.item] = [version |-> Current.version, sequence |-> NextOf(to, Current.item)]
          /\ \A j \in Items : j # Current.item => stream'.live[j] = to.live[j]
      BY <1>5, <2>1, <2>2, LandedIs, Zenon
    <3>2. QED
      BY <3>1
  <2>4. to = stream => \A i \in Items : stream.live[i].sequence <= stream'.live[i].sequence
    BY <1>1, <2>1, <2>3
  <2>5. QED
    BY <1>1, <1>5, <2>3, <2>4
<1>6. ASSUME PublishItem PROVE Larger
  <2>1. PICK m : Publishes(ActiveStream, m)
    BY <1>6, PublishItemIs
  <2>2. row' = row /\ streams' = CreatedCount
    BY <1>6, PublishItemIs DEF durable
  <2>3. ActiveStream \in Captures /\ (ActiveStream = stream \/ ActiveStream.id > streams)
        /\ streams <= CreatedCount
    BY <1>0, <1>1, ActiveIs
  <2> HIDE DEF Larger
  <2>4. QED
    BY <1>5, <2>1, <2>2, <2>3
<1>7. ASSUME AppendText PROVE Larger
  <2>1. PICK m : Publishes(stream, m)
    BY <1>7, AppendTextIs
  <2>2. row' = row /\ streams' = streams
    BY <1>7, AppendTextIs DEF durable
  <2>3. streams <= streams'
    BY <1>1, <2>2
  <2> HIDE DEF Larger
  <2>4. QED
    BY <1>1, <1>5, <2>1, <2>2, <2>3
<1>8. ASSUME CaptureStream PROVE Larger
  <2>1. row' = row /\ \/ stream' = stream /\ streams' = streams
                      \/ stream' = ActiveStream /\ streams' = CreatedCount
    BY <1>0, <1>8, CaptureStreamIs DEF durable
  <2>2. QED
    BY <1>0, <1>1, <2>1, ActiveIs
<1>9. ASSUME row' = row, stream' = NoStream, streams' = streams PROVE Larger
  BY <1>1, <1>9, Values
<1>10. ASSUME NEW u \in Inputs, MoveInput(u) PROVE Larger
  <2>1. row' = [row EXCEPT ![u] = Moved(row[u].body + 1)] /\ stream' = stream /\ streams' = streams
    BY <1>10 DEF MoveInput, store
  <2>2. Moved(row[u].body + 1) # Absent /\ u \notin Messages /\ u \in Items
    BY StreamAssumption DEF Moved, Absent, Items
  <2>3. QED
    BY <1>1, <2>1, <2>2 DEF Items
<1> HIDE DEF Larger
<1>11. Larger
  <2>1. CASE QueueStep
    <3>1. CASE LoadRows \/ Open \/ CloseBegins \/ CloseCommits \/ MutateState
      BY <1>3, <3>1 DEF LoadRows, Open, CloseBegins, CloseCommits, MutateState, durable, store
    <3>2. CASE CloseInstalls
      BY <1>9, <3>2 DEF CloseInstalls
    <3>3. QED
      BY <1>4, <1>6, <1>7, <1>8, <2>1, <3>1, <3>2 DEF QueueStep
  <2>2. CASE WriterStep
    <3>1. CASE Begin \/ AddChunk \/ EndMessage \/ CancelAutomation \/ \E m \in Messages : StartMessage(m)
      BY <1>3, <3>1 DEF Begin, AddChunk, EndMessage, CancelAutomation, StartMessage, Write, durable, store
    <3>2. CASE \E to \in { "completed", "waiting" } : Finish(to)
      BY <1>3, <3>2 DEF Finish, durable
    <3>3. CASE \E u \in Inputs : ProjectInput(u)
      BY <1>3, <3>3 DEF ProjectInput, durable, store
    <3>4. QED
      BY <1>10, <2>2, <3>1, <3>2, <3>3 DEF WriterStep
  <2>3. CASE LoseConnection \/ Reconnect \/ HandleSubscribe
    BY <1>3, <2>3 DEF LoseConnection, Reconnect, HandleSubscribe, durable, store
  <2>4. CASE Crash
    BY <1>9, <2>4 DEF Crash
  <2>5. CASE UNCHANGED streamVars
    BY <1>3, <2>5 DEF streamVars, durable, store
  <2>6. QED
    BY <2>1, <2>2, <2>3, <2>4, <2>5 DEF NextStream
<1>12. QED
  BY <1>2, <1>11

(* Once a run is closed no write is under way and none gets past the fence:  *)
(* only reads are left in the item queue, and complete awaited the writes    *)
(* that were there (runStore.ts:424).                                        *)
THEOREM AClosedRunRests == SpecStream => ClosedRunRests
<1> DEFINE Rests == \A m \in Messages : row'[m] = row[m] /\ stream'.live[m] = stream.live[m]
<1>1. ASSUME Base, [NextStream]_streamVars, fence.committed PROVE Rests
  <2>0. BaseTypeOK /\ OnlyReads /\ stream.live = NoItems
    BY <1>1 DEF Base, QuietOK
  <2>1. itemQueue # << >> => Current.kind = "read"
    BY <2>0, CurrentIs DEF OnlyReads
  <2>2. ASSUME row' = row, stream'.live = stream.live PROVE Rests
    BY <2>2
  <2>3. CASE QueueStep
    <3>1. ~PersistItem /\ ~PublishItem /\ ~AppendText
      BY <2>1 DEF PersistItem, PublishItem, Publishable, AppendText
    <3>2. CASE LoadRows \/ Open \/ CloseBegins \/ CloseCommits \/ MutateState
      BY <2>2, <3>2 DEF LoadRows, Open, CloseBegins, CloseCommits, MutateState, durable, store
    <3>3. CASE CaptureStream
      <4>1. row' = row /\ (stream' = stream \/ stream' = ActiveStream)
        BY <2>0, <3>3, CaptureStreamIs DEF durable
      <4>2. ActiveStream.live = stream.live
        BY <2>0, ActiveIs
      <4>3. QED
        BY <2>2, <4>1, <4>2
    <3>4. CASE CloseInstalls
      BY <2>0, <2>2, <3>4, Values DEF CloseInstalls
    <3>5. QED
      BY <2>3, <3>1, <3>2, <3>3, <3>4 DEF QueueStep
  <2>4. CASE WriterStep
    <3>1. CASE Begin \/ AddChunk \/ EndMessage \/ CancelAutomation \/ \E m \in Messages : StartMessage(m)
      BY <2>2, <3>1 DEF Begin, AddChunk, EndMessage, CancelAutomation, StartMessage, Write, durable, store
    <3>2. CASE \E to \in { "completed", "waiting" } : Finish(to)
      BY <2>2, <3>2 DEF Finish, durable
    <3>3. CASE \E u \in Inputs : ProjectInput(u)
      BY <2>2, <3>3 DEF ProjectInput, durable, store
    <3>4. CASE \E u \in Inputs : MoveInput(u)
      BY <2>0, <3>4, StreamAssumption DEF MoveInput, store, BaseTypeOK, Items
    <3>5. QED
      BY <2>4, <3>1, <3>2, <3>3, <3>4 DEF WriterStep
  <2>5. CASE LoseConnection \/ Reconnect \/ HandleSubscribe
    BY <2>2, <2>5 DEF LoseConnection, Reconnect, HandleSubscribe, durable, store
  <2>6. CASE Crash
    BY <2>0, <2>2, <2>6, Values DEF Crash
  <2>7. CASE UNCHANGED streamVars
    BY <2>2, <2>7 DEF streamVars, durable, store
  <2>8. QED
    BY <1>1, <2>3, <2>4, <2>5, <2>6, <2>7 DEF NextStream
<1>2. Base /\ [NextStream]_streamVars => [fence.committed => Rests]_streamVars
  BY <1>1
<1>3. SpecStream => []Base
  BY BaseAlways
<1>4. QED
  BY <1>2, <1>3, PTL DEF SpecStream, ClosedRunRests

-------------------------------------------------------------------------------
(* Part 7.  What the client shows stays right, action by action.             *)
StreamInv == Base /\ ScreenInv /\ SlotsOK /\ ServedOK /\ CaptureOK /\ ScreenOK

(* The client knows of the world after the step, and what it showed as ended *)
(* before it.                                                                *)
Kept == ClientOK(client', World', ShownEnds(client))

(* A step, and what it leads to. *)
Stepping == StreamInv /\ Base' /\ [NextStream]_streamVars

LEMMA KeptClient ==
  ASSUME Stepping
  PROVE  /\ World \in Worlds /\ World' \in Worlds /\ Grows(World, World')
         /\ ShownEnds(client) \in SUBSET EndedIn(World'.row)
         /\ ClientOK(client, World', ShownEnds(client))
         /\ World.stream = stream /\ World.last = streams /\ World.row = row
         /\ World'.stream = stream' /\ World'.last = streams' /\ World'.row = row'
<1>1. BaseTypeOK /\ BaseTypeOK'
  BY DEF Stepping, StreamInv, Base
<1>2. /\ World \in Worlds /\ World' \in Worlds
      /\ World.stream = stream /\ World.last = streams /\ World.row = row
      /\ World'.stream = stream' /\ World'.last = streams' /\ World'.row = row'
  BY <1>1, WorldIs
<1>3. Grows(World, World')
  BY WorldGrows DEF Stepping, StreamInv
<1>4. ClientOK(client, World, ShownEnds(client)) /\ ShownEnds(client) \in SUBSET EndedIn(World.row)
  BY ClientEnds DEF Stepping, StreamInv, ScreenInv
<1>5. ShownEnds(client) \in SUBSET EndedIn(World'.row)
  BY <1>3, <1>4 DEF Grows, EndedIn
<1>6. ClientOK(client, World', ShownEnds(client))
  BY <1>2, <1>3, <1>4, ClientSurvives
<1>7. QED
  BY <1>2, <1>3, <1>5, <1>6

(* The slots stay as they are or grow at the end, and hold updates that are  *)
(* right and holes.                                                          *)
LEMMA SlotsSurvive ==
  ASSUME Stepping, NEW k \in DOMAIN conn.slots
  PROVE  IsHole(conn.slots[k]) \/ UpdateOK(conn.slots[k], World')
<1>1. IsHole(conn.slots[k]) \/ UpdateOK(conn.slots[k], World)
  BY DEF Stepping, StreamInv, SlotsOK
<1>2. conn.slots[k] \in Updates \cup Holes
  BY DEF Stepping, StreamInv, Base, BaseTypeOK, Connections
<1>3. conn.slots[k] \in Holes => IsHole(conn.slots[k])
  BY DEF Holes, IsHole
<1>4. QED
  BY <1>1, <1>2, <1>3, KeptClient, UpdateSurvives

(* The client and its connection are left alone. *)
LEMMA ScreenLeftAlone ==
  ASSUME Stepping, client' = client, conn' = conn
  PROVE  Kept /\ SlotsOK' /\ ServedOK'
<1>1. Kept
  BY KeptClient DEF Kept
<1>2. SlotsOK'
  BY SlotsSurvive DEF Stepping, StreamInv, SlotsOK
<1>3. ServedOK'
  BY DEF Stepping, StreamInv, ServedOK
<1>4. QED
  BY <1>1, <1>2, <1>3

(* A hole is reserved behind what waits. *)
LEMMA Behind ==
  ASSUME NEW S, NEW q \in Seq(S), NEW x \in S, NEW p, p = Append(q, x)
  PROVE  /\ Len(q) + 1 \in DOMAIN p /\ p[Len(q) + 1] = x /\ p # << >>
         /\ q # << >> => Len(q) + 1 > 1
         /\ \A k \in DOMAIN q : k \in DOMAIN p /\ p[k] = q[k] /\ q # << >>
         /\ \A k \in DOMAIN p : k = Len(q) + 1 \/ (k \in DOMAIN q /\ p[k] = q[k])
<1>1. Len(q) \in Nat /\ DOMAIN q = 1..Len(q)
  OBVIOUS
<1>2. /\ Len(q) + 1 \in DOMAIN p /\ p[Len(q) + 1] = x /\ p # << >>
      /\ \A k \in DOMAIN q : k \in DOMAIN p /\ p[k] = q[k]
      /\ \A k \in DOMAIN p : k = Len(q) + 1 \/ (k \in DOMAIN q /\ p[k] = q[k])
  OBVIOUS
<1>3. q # << >> => Len(q) >= 1
  OBVIOUS
<1>4. \A k \in DOMAIN q : q # << >>
  OBVIOUS
<1>5. QED
  BY <1>1, <1>2, <1>3, <1>4

LEMMA HoleReserved ==
  ASSUME Stepping, NEW hole, Reserved(hole), conn.open
  PROVE  /\ SlotsOK' /\ conn'.slots # << >> /\ conn'.open
         /\ conn.slots # << >> => HoleBehind'
         /\ HoleBehind => HoleBehind'
         /\ \E k \in DOMAIN conn'.slots : conn'.slots[k] = HoleFor(hole)
         /\ \A k \in DOMAIN conn.slots : k \in DOMAIN conn'.slots /\ conn'.slots[k] = conn.slots[k]
<1> DEFINE q == conn.slots
           p == conn'.slots
<1>1. /\ q \in Seq(Updates \cup Holes) /\ HoleFor(hole) \in Updates \cup Holes
      /\ IsHole(HoleFor(hole)) /\ p = Append(q, HoleFor(hole))
      /\ conn'.subscribed = TRUE /\ conn'.open = conn.open
  BY DEF Reserved
<1>a. PICK x \in Updates \cup Holes : x = HoleFor(hole)
  BY <1>1
<1> HIDE DEF q, p
<1>2. /\ Len(q) + 1 \in DOMAIN p /\ p[Len(q) + 1] = x /\ p # << >>
      /\ q # << >> => Len(q) + 1 > 1
      /\ \A k \in DOMAIN q : k \in DOMAIN p /\ p[k] = q[k] /\ q # << >>
      /\ \A k \in DOMAIN p : k = Len(q) + 1 \/ (k \in DOMAIN q /\ p[k] = q[k])
  <2>1. q \in Seq(Updates \cup Holes) /\ p = Append(q, x)
    BY <1>1, <1>a
  <2>2. QED
    BY <2>1, Behind
<1> USE DEF q, p
<1>3. SlotsOK'
  BY <1>1, <1>2, <1>a, SlotsSurvive DEF SlotsOK
<1>4. conn.slots # << >> => HoleBehind'
  BY <1>1, <1>2, <1>a DEF HoleBehind
<1>5. HoleBehind => conn.slots # << >>
  BY <1>2 DEF HoleBehind
<1>6. QED
  BY <1>1, <1>2, <1>3, <1>4, <1>5, <1>a

LEMMA RunPublished ==
  ASSUME Stepping, PublishRun
  PROVE  /\ Kept /\ SlotsOK' /\ ServedOK' /\ ~Synchronous'
         /\ conn.slots # << >> => HoleBehind'
<1>0. conn \in Connections /\ (conn.slots = << >> \/ IsHole(conn.slots[1])) /\ ConnectionOK
  BY DEF Stepping, StreamInv, Base, BaseTypeOK
<1>1. client' = client
  BY <1>0, PublishRunIs
<1>2. Kept
  BY <1>1, KeptClient DEF Kept
<1>3. CASE ~conn.subscribed /\ conn' = conn
  <2>1. SlotsOK' /\ ServedOK'
    BY <1>1, <1>3, ScreenLeftAlone
  <2>2. conn.slots = << >>
    BY <1>0, <1>3 DEF ConnectionOK
  <2>3. conn.open => client.sync # "none"
    BY <1>3 DEF Stepping, StreamInv, SlotsOK
  <2>4. QED
    BY <1>1, <1>2, <1>3, <2>1, <2>2, <2>3 DEF Synchronous
<1>4. CASE conn.subscribed /\ Reserved("push hole")
  <2>1. conn.open
    BY <1>0, <1>4 DEF ConnectionOK
  <2>2. /\ SlotsOK' /\ conn'.slots # << >> /\ conn'.open
        /\ conn.slots # << >> => HoleBehind'
        /\ \A k \in DOMAIN conn.slots : k \in DOMAIN conn'.slots /\ conn'.slots[k] = conn.slots[k]
    BY <1>4, <2>1, HoleReserved
  <2>3. ServedOK'
    BY <1>1, <2>2 DEF Stepping, StreamInv, ServedOK
  <2>4. QED
    BY <1>2, <2>2, <2>3 DEF Synchronous
<1>5. QED
  BY <1>0, <1>3, <1>4, PublishRunIs

(* The captured stream of a read under way stays what it is: no write is     *)
(* carried out while the read is the head of the queue.                      *)
LEMMA CapturesStay ==
  ASSUME Stepping, stream' = stream, streams' = streams,
         \A m \in Messages : row'[m] = row[m],
         runStatus' = runStatus \/ HoleBehind', HoleBehind => HoleBehind',
         \A k \in DOMAIN itemQueue' :
           LiveRead(itemQueue'[k]) /\ itemQueue'[k].captured.id # 0 =>
             k \in DOMAIN itemQueue /\ itemQueue'[k] = itemQueue[k]
  PROVE  CaptureOK'
<1>1. ASSUME NEW k \in DOMAIN itemQueue', LiveRead(itemQueue'[k]), itemQueue'[k].captured.id # 0
      PROVE  CapturedOK(itemQueue[k].captured)'
  <2>1. k \in DOMAIN itemQueue /\ itemQueue'[k] = itemQueue[k] /\ CapturedOK(itemQueue[k].captured)
    BY <1>1 DEF Stepping, StreamInv, CaptureOK
  <2>2. QED
    BY <2>1 DEF CapturedOK
<1>2. QED
  BY <1>1 DEF CaptureOK, LiveRead

(* What is shown stays right while nothing that it shows moves. *)
LEMMA ShownStays ==
  ASSUME Stepping, client' = client, Synchronous' => Synchronous,
         stream' = stream, runStatus' = runStatus, fence.closed => fence'.closed,
         \A i \in Items : row'[i] = row[i] \/ i \in moved',
         \A i \in moved : i \in moved' \/ (i \in Inputs /\ fence'.closed),
         \A i \in Items : Persisted(i) => Persisted(i)'
  PROVE  ScreenOK'
<1>1. ASSUME Synchronous' PROVE ScreenOK'
  <2>1. /\ IF stream.id = 0 THEN runStatus \in Terminal ELSE client.stream = stream.id
        /\ \A i \in Items : ShownOK(i)
    BY <1>1 DEF Stepping, StreamInv, ScreenOK
  <2>2. \A i \in Items : ShownOK(i)'
    BY <2>1 DEF ShownOK
  <2>3. QED
    BY <2>1, <2>2 DEF ScreenOK
<1>2. QED
  BY <1>1 DEF ScreenOK

(* What a step has to show. *)
Holding == Kept /\ SlotsOK' /\ ServedOK' /\ CaptureOK' /\ ScreenOK'

(* A step that leaves the stream and the screen alone. *)
LEMMA RestHolds ==
  ASSUME Stepping, UNCHANGED << screen, stream, streams, runStatus >>,
         fence.closed => fence'.closed,
         \A m \in Messages : row'[m] = row[m],
         \A i \in Items : row'[i] = row[i] \/ i \in moved',
         \A i \in moved : i \in moved' \/ (i \in Inputs /\ fence'.closed),
         \/ itemQueue' = itemQueue
         \/ \E op \in Ops : ~LiveRead(op) /\ itemQueue' = Append(itemQueue, op)
  PROVE  Holding
<1>0. BaseTypeOK
  BY DEF Stepping, StreamInv, Base
<1>1. /\ client' = client /\ conn' = conn
      /\ stream' = stream /\ streams' = streams /\ runStatus' = runStatus
  BY DEF screen
<1>2. Kept /\ SlotsOK' /\ ServedOK'
  BY <1>1, ScreenLeftAlone
<1>3. /\ \A k \in DOMAIN itemQueue' : \/ k \in DOMAIN itemQueue /\ itemQueue'[k] = itemQueue[k]
                                      \/ ~LiveRead(itemQueue'[k])
      /\ itemQueue # << >> => itemQueue' # << >> /\ itemQueue'[1] = itemQueue[1]
  BY <1>0, ItemAppend
<1>4. CaptureOK'
  <2>1. HoleBehind => HoleBehind'
    BY <1>1 DEF HoleBehind
  <2>2. QED
    BY <1>1, <1>3, <2>1, CapturesStay
<1>5. ScreenOK'
  <2>1. Synchronous' => Synchronous
    BY <1>1 DEF Synchronous
  <2>2. \A i \in Items : Persisted(i) => Persisted(i)'
    BY <1>3 DEF Persisted, Current
  <2>3. QED
    BY <1>1, <2>1, <2>2, ShownStays
<1>6. QED
  BY <1>2, <1>4, <1>5 DEF Holding

LEMMA StutterHolds ==
  ASSUME Stepping, UNCHANGED streamVars
  PROVE  Holding
<1>1. /\ row' = row /\ runStatus' = runStatus /\ stream' = stream /\ streams' = streams /\ fence' = fence
      /\ itemQueue' = itemQueue /\ moved' = moved /\ UNCHANGED screen
  BY DEF streamVars, durable, store, writers
<1>2. QED
  BY <1>1, RestHolds

LEMMA ClosingHolds ==
  ASSUME Stepping, \/ CloseBegins \/ Begin \/ CancelAutomation
                   \/ \E to \in { "completed", "waiting" } : Finish(to)
  PROVE  Holding
<1>1. /\ row' = row /\ runStatus' = runStatus /\ stream' = stream /\ streams' = streams
      /\ itemQueue' = itemQueue /\ moved' = moved /\ UNCHANGED screen
  BY DEF CloseBegins, Begin, CancelAutomation, Finish, durable, store, writers
<1>2. fence' = fence \/ fence' = [fence EXCEPT !.closed = TRUE]
                     \/ fence' = [fence EXCEPT !.closed = TRUE, !.pending = @ + 1]
  BY DEF CloseBegins, Begin, CancelAutomation, Finish, Complete, store
<1>3. fence \in Fences
  BY DEF Stepping, StreamInv, Base, BaseTypeOK
<1>4. fence.closed => fence'.closed
  BY <1>2, <1>3 DEF Fences
<1>5. QED
  BY <1>1, <1>4, RestHolds

LEMMA CloseCommitsHolds ==
  ASSUME Stepping, CloseCommits
  PROVE  Holding
<1>1. /\ row' = row /\ runStatus' = runStatus /\ stream' = stream /\ streams' = streams
      /\ itemQueue' = itemQueue /\ moved' = moved /\ UNCHANGED screen
      /\ fence' = Refreshed([fence EXCEPT !.committed = TRUE, !.pending = @ - 1])
  BY DEF CloseCommits, durable
<1>2. fence \in Fences
  BY DEF Stepping, StreamInv, Base, BaseTypeOK
<1>3. fence'.committed
  BY <1>1, <1>2 DEF Refreshed, Fences
<1>4. fence'.closed
  BY <1>3 DEF Stepping, Base, FenceOK
<1>5. QED
  BY <1>1, <1>4, RestHolds

LEMMA WriteHolds ==
  ASSUME Stepping, NEW kind \in MessageOps, NEW m \in Messages, NEW v \in Versions, NEW local,
         Write(kind, m, v, local)
  PROVE  Holding
<1>1. /\ row' = row /\ runStatus' = runStatus /\ stream' = stream /\ streams' = streams /\ fence' = fence
      /\ moved' = moved /\ UNCHANGED screen
  BY DEF Write, durable, store
<1>2. itemQueue' = itemQueue \/ itemQueue' = Append(itemQueue, WriteOp(kind, m, v))
  BY DEF Write
<1>3. m \in Items /\ kind \in { "start", "delta", "end", "project" }
  BY DEF Items, MessageOps
<1>4. WriteOp(kind, m, v) \in Ops /\ ~LiveRead(WriteOp(kind, m, v))
  BY <1>3, OpIs
<1>5. QED
  BY <1>1, <1>2, <1>4, RestHolds

LEMMA MessageHolds ==
  ASSUME Stepping, AddChunk \/ EndMessage \/ \E m \in Messages : StartMessage(m)
  PROVE  Holding
<1>0. exec.body \in Nat /\ exec.message \in Messages \cup { None }
  BY DEF Stepping, StreamInv, Base, BaseTypeOK, Execs
<1>1. \A k \in Nat : k + 1 \in Nat /\ Running(k) \in Versions /\ Ended(k) \in Versions
  BY Values
<1>2. ASSUME NEW m \in Messages, StartMessage(m) PROVE Holding
  <2>1. "start" \in MessageOps /\ Running(0) \in Versions
    BY <1>1 DEF MessageOps
  <2>2. QED
    BY <1>2, <2>1, WriteHolds, Zenon DEF StartMessage
<1>3. ASSUME AddChunk PROVE Holding
  <2>1. "delta" \in MessageOps /\ Running(exec.body + 1) \in Versions
    BY <1>0, <1>1 DEF MessageOps
  <2>2. exec.message \in Messages
    BY <1>0, <1>3 DEF AddChunk
  <2>3. QED
    BY <1>3, <2>1, <2>2, WriteHolds, Zenon DEF AddChunk
<1>4. ASSUME EndMessage PROVE Holding
  <2>1. "end" \in MessageOps /\ Ended(exec.body) \in Versions
    BY <1>0, <1>1 DEF MessageOps
  <2>2. exec.message \in Messages
    BY <1>0, <1>4 DEF EndMessage
  <2>3. QED
    BY <1>4, <2>1, <2>2, WriteHolds, Zenon DEF EndMessage
<1>5. QED
  BY <1>2, <1>3, <1>4

LEMMA InputHolds ==
  ASSUME Stepping, NEW u \in Inputs, MoveInput(u) \/ ProjectInput(u)
  PROVE  Holding
<1>0. row \in [Items -> Versions] /\ u \in Items /\ \A m \in Messages : m # u /\ m \in Items
  BY StreamAssumption DEF Stepping, StreamInv, Base, BaseTypeOK, Items
<1>1. CASE MoveInput(u)
  <2>1. /\ row' = [row EXCEPT ![u] = Moved(row[u].body + 1)] /\ moved' = moved \cup { u }
        /\ runStatus' = runStatus /\ stream' = stream /\ streams' = streams /\ fence' = fence
        /\ itemQueue' = itemQueue /\ UNCHANGED screen
    BY <1>1 DEF MoveInput, store
  <2>2. \A i \in Items : row'[i] = row[i] \/ i \in moved'
    BY <1>0, <2>1
  <2>3. \A m \in Messages : row'[m] = row[m]
    BY <1>0, <2>1
  <2>4. QED
    BY <2>1, <2>2, <2>3, RestHolds
<1>2. CASE ProjectInput(u)
  <2>1. /\ row' = row /\ runStatus' = runStatus /\ stream' = stream /\ streams' = streams /\ fence' = fence
        /\ UNCHANGED screen
    BY <1>2 DEF ProjectInput, durable, store
  <2>2. CASE fence.closed
    <3>1. moved' = moved \ { u } /\ itemQueue' = itemQueue
      BY <1>2, <2>2 DEF ProjectInput
    <3>2. \A i \in moved : i \in moved' \/ (i \in Inputs /\ fence'.closed)
      BY <2>1, <2>2, <3>1
    <3>3. QED
      BY <2>1, <3>1, <3>2, RestHolds
  <2>3. CASE ~fence.closed
    <3>1. itemQueue' = Append(itemQueue, WriteOp("project", u, row[u])) /\ moved' = moved
      BY <1>2, <2>3 DEF ProjectInput
    <3>2. WriteOp("project", u, row[u]) \in Ops /\ ~LiveRead(WriteOp("project", u, row[u]))
      BY <1>0, OpIs
    <3>3. QED
      BY <2>1, <3>1, <3>2, RestHolds
  <2>4. QED
    BY <2>2, <2>3
<1>3. QED
  BY <1>1, <1>2

(* No live read is under way unless a hole waits for it. *)
LEMMA NobodyReads ==
  ASSUME Base, conn.slots = << >>
  PROVE  \A k \in DOMAIN itemQueue : ~LiveRead(itemQueue[k])
BY DEF Base, ConnectionOK, ReadsOK

LEMMA DisconnectedIs ==
  ASSUME Stepping, client' = Disconnected
  PROVE  Kept /\ client'.sync = "none"
<1>1. /\ World' \in Worlds /\ ShownEnds(client) \in SUBSET EndedIn(World'.row)
      /\ ClientOK(client, World', ShownEnds(client))
  BY KeptClient
<1> DEFINE w == World'
           ends == ShownEnds(client)
<1> HIDE DEF w, ends
<1>2. /\ w \in Worlds /\ ends \in SUBSET EndedIn(w.row) /\ ClientOK(client, w, ends)
  BY <1>1 DEF w, ends
<1>3. ClientOK(client', w, ends) /\ client'.sync = "none"
  <2>1. CASE client.sync = "none"
    BY <1>2, <2>1 DEF Disconnected
  <2>2. CASE client.sync # "none"
    <3> DEFINE r == Aborted(client, "lost")
    <3>1. /\ r \in Clients /\ ViewOK(r.items, r.stream, w, ends)
          /\ r.ready /\ r.pending = << >> /\ r.sync = "none"
      BY <1>2, AbortedIs DEF ClientOK
    <3>2. client' = r
      BY <2>2 DEF Disconnected
    <3> HIDE DEF r
    <3>3. QED
      BY <3>1, <3>2 DEF ClientOK
  <2>3. QED
    BY <2>1, <2>2
<1>4. QED
  BY <1>3 DEF Kept, w, ends

LEMMA DisconnectHolds ==
  ASSUME Stepping, LoseConnection \/ Crash
  PROVE  Holding
<1>0. BaseTypeOK
  BY DEF Stepping, StreamInv, Base
<1>1. client' = Disconnected /\ conn' = NoConnection
  BY DEF LoseConnection, Crash
<1>2. Kept /\ client'.sync = "none"
  BY <1>1, DisconnectedIs
<1>3. ~conn'.open /\ conn'.slots = << >>
  BY <1>1 DEF NoConnection
<1>4. SlotsOK' /\ ServedOK' /\ ScreenOK'
  BY <1>2, <1>3 DEF SlotsOK, ServedOK, ScreenOK, Synchronous
<1>5. \A k \in DOMAIN itemQueue' : ~LiveRead(itemQueue'[k])
  <2>1. Base' /\ conn'.slots = << >>
    BY <1>3 DEF Stepping
  <2>2. QED
    BY <2>1 DEF Base, ConnectionOK, ReadsOK, LiveRead
<1>6. CaptureOK'
  BY <1>5 DEF CaptureOK, LiveRead
<1>7. QED
  BY <1>2, <1>4, <1>6 DEF Holding

LEMMA ReconnectHolds ==
  ASSUME Stepping, Reconnect
  PROVE  Holding
<1>1. /\ ~conn.open /\ conn' = [NoConnection EXCEPT !.open = TRUE] /\ client' = Synchronize(client)
  BY DEF Reconnect
<1>2. conn'.open /\ conn'.slots = << >>
  BY <1>1 DEF NoConnection
<1>3. /\ World' \in Worlds /\ ClientOK(client, World', ShownEnds(client))
  BY KeptClient
<1> DEFINE w == World'
           ends == ShownEnds(client)
<1> HIDE DEF w, ends
<1>4. ClientOK(client, w, ends)
  BY <1>3 DEF w, ends
<1>5. client.sync = "none"
  BY <1>1 DEF Stepping, StreamInv, ServedOK
<1>6. /\ client' \in Clients /\ client'.sync # "none" /\ client'.asks
      /\ client'.items = client.items /\ client'.stream = client.stream
      /\ client'.pending = client.pending \/ client'.pending = << >>
  BY <1>1, <1>4, <1>5, SynchronizeIs DEF ClientOK
<1>7. ClientOK(client', w, ends)
  BY <1>4, <1>6 DEF ClientOK
<1>8. SlotsOK' /\ ServedOK' /\ ScreenOK'
  BY <1>2, <1>6 DEF SlotsOK, ServedOK, ScreenOK, Synchronous
<1>9. CaptureOK'
  <2>1. Base' /\ conn'.slots = << >>
    BY <1>2 DEF Stepping
  <2>2. \A k \in DOMAIN itemQueue' : ~LiveRead(itemQueue'[k])
    BY <2>1 DEF Base, ConnectionOK, ReadsOK, LiveRead
  <2>3. QED
    BY <2>2 DEF CaptureOK, LiveRead
<1>10. QED
  BY <1>7, <1>8, <1>9 DEF Holding, Kept, w, ends

LEMMA SubscribeHolds ==
  ASSUME Stepping, HandleSubscribe
  PROVE  Holding
<1>1. /\ conn.open /\ client.asks /\ Reserved("reply hole")
      /\ client' = [client EXCEPT !.asks = FALSE]
      /\ UNCHANGED << durable, store, stateQueue, writers, count >>
  BY SubscribeIs DEF Stepping, StreamInv
<1>2. /\ SlotsOK' /\ conn'.slots # << >> /\ conn'.open
      /\ HoleBehind => HoleBehind'
      /\ \E k \in DOMAIN conn'.slots : conn'.slots[k] = HoleFor("reply hole")
  BY <1>1, HoleReserved
<1>3. ServedOK' /\ ScreenOK'
  BY <1>2 DEF ServedOK, ScreenOK, Synchronous
<1>4. Kept
  <2>1. ClientOK(client, World', ShownEnds(client))
    BY KeptClient
  <2> DEFINE w == World'
             ends == ShownEnds(client)
  <2> HIDE DEF w, ends
  <2>2. ClientOK(client, w, ends)
    BY <2>1 DEF w, ends
  <2>3. /\ client' \in Clients /\ client'.items = client.items /\ client'.stream = client.stream
        /\ client'.pending = client.pending /\ client'.sync = client.sync /\ client'.ready = client.ready
    BY <1>1, <2>2 DEF ClientOK, Clients
  <2>4. ClientOK(client', w, ends)
    BY <2>2, <2>3 DEF ClientOK
  <2>5. QED
    BY <2>4 DEF Kept, w, ends
<1>5. CaptureOK'
  <2>1. row' = row /\ runStatus' = runStatus /\ stream' = stream /\ streams' = streams
    BY <1>1 DEF durable, store
  <2>2. itemQueue' = itemQueue \/ itemQueue' = Append(itemQueue, ReadOp)
    BY <1>1 DEF Reserved
  <2>3. \A k \in DOMAIN itemQueue' : \/ k \in DOMAIN itemQueue /\ itemQueue'[k] = itemQueue[k]
                                     \/ itemQueue'[k].captured.id = 0
    BY <2>2, Values, ItemAppend DEF Stepping, StreamInv, Base
  <2>4. QED
    BY <1>2, <2>1, <2>3, CapturesStay
<1>6. QED
  BY <1>2, <1>3, <1>4, <1>5 DEF Holding

(* A status is published: the screen waits for a snapshot again. *)
LEMMA PublishedHolds ==
  ASSUME Stepping, PublishRun, row' = row, streams' = streams, stream' = stream \/ stream'.id = 0
  PROVE  Holding
<1>1. /\ Kept /\ SlotsOK' /\ ServedOK' /\ ~Synchronous'
      /\ conn.slots # << >> => HoleBehind'
  BY RunPublished
<1>2. conn \in Connections /\ (conn.slots = << >> \/ IsHole(conn.slots[1])) /\ BaseTypeOK
  BY DEF Stepping, StreamInv, Base, BaseTypeOK
<1>3. itemQueue' = itemQueue \/ itemQueue' = Append(itemQueue, ReadOp)
  BY <1>2, PublishRunIs DEF Reserved
<1>4. \A k \in DOMAIN itemQueue' : \/ k \in DOMAIN itemQueue /\ itemQueue'[k] = itemQueue[k]
                                   \/ itemQueue'[k].captured.id = 0
  BY <1>2, <1>3, Values, ItemAppend
<1>5. CaptureOK'
  <2>1. ASSUME NEW k \in DOMAIN itemQueue', LiveRead(itemQueue'[k]), itemQueue'[k].captured.id # 0
        PROVE  CapturedOK(itemQueue[k].captured)'
    <3> DEFINE cap == itemQueue[k].captured
    <3>1. k \in DOMAIN itemQueue /\ itemQueue'[k] = itemQueue[k] /\ cap.id # 0 /\ LiveRead(itemQueue[k])
      BY <1>4, <2>1
    <3>2. CapturedOK(cap)
      BY <3>1 DEF Stepping, StreamInv, CaptureOK
    <3>3. HoleBehind'
      BY <1>1, <3>1, NobodyReads DEF Stepping, StreamInv
    <3>4. PICK d : d = itemQueue[k].captured
      OBVIOUS
    <3>5. CapturedOK(d) /\ d.id # 0 /\ itemQueue'[k].captured = d
      BY <3>1, <3>2, <3>4
    <3>6. CASE stream' = stream
      BY <3>3, <3>5, <3>6 DEF CapturedOK
    <3>7. CASE stream'.id = 0
      BY <3>3, <3>5, <3>7 DEF CapturedOK
    <3>8. QED
      BY <3>6, <3>7
  <2>2. QED
    BY <2>1 DEF CaptureOK, LiveRead
<1>6. QED
  BY <1>1, <1>5 DEF Holding, ScreenOK

LEMMA OpenHolds ==
  ASSUME Stepping, Open \/ CloseInstalls \/ MutateState
  PROVE  Holding
<1>1. /\ PublishRun /\ row' = row /\ streams' = streams
      /\ stream' = stream \/ stream' = NoStream
  BY DEF Open, CloseInstalls, MutateState, durable, store
<1>2. stream' = stream \/ stream'.id = 0
  BY <1>1, Values
<1>3. QED
  BY <1>1, <1>2, PublishedHolds

(* While the head of the queue is a write, no read has captured. *)
LEMMA NothingCaptured ==
  ASSUME Base, itemQueue # << >>, NEW queue, queue = Tail(itemQueue)
  PROVE  \A k \in DOMAIN queue : queue[k].captured.id = 0
BY TailIs

LEMMA PersistItemHolds ==
  ASSUME Stepping, PersistItem
  PROVE  Holding
<1>0. Base /\ BaseTypeOK
  BY DEF Stepping, StreamInv, Base
<1>1. /\ itemQueue # << >> /\ Current.kind \in { "start", "end" } /\ Current.captured.id = 0
      /\ row' = [row EXCEPT ![Current.item] = Current.version]
      /\ stream' = ActiveStream /\ client' = client /\ conn' = conn
      /\ runStatus' = runStatus /\ fence' = fence /\ moved' = moved
      /\ \E op \in Ops : /\ itemQueue' = [itemQueue EXCEPT ![1] = op]
                         /\ op.kind = Current.kind /\ op.item = Current.item
                         /\ op.captured = ActiveStream
  BY <1>0, PersistItemIs DEF screen, writers
<1>2. PICK op \in Ops : /\ itemQueue' = [itemQueue EXCEPT ![1] = op]
                        /\ op.kind = Current.kind /\ op.item = Current.item
                        /\ op.captured = ActiveStream
  BY <1>1
<1>3. itemQueue \in Seq(Ops) /\ 1 \in DOMAIN itemQueue
  BY <1>0, <1>1, QueueOps, CurrentIs
<1>4. /\ itemQueue' # << >> /\ itemQueue'[1] = op /\ DOMAIN itemQueue' = DOMAIN itemQueue
      /\ \A k \in DOMAIN itemQueue : k # 1 => itemQueue'[k] = itemQueue[k]
  BY <1>1, <1>2, <1>3, Heads
<1>5. CaptureOK'
  <2>1. \A k \in DOMAIN itemQueue : itemQueue[k].captured.id # 0 => k = 1
    BY <1>0 DEF Base, WritersOK
  <2>2. ~LiveRead(op)
    BY <1>1, <1>2 DEF LiveRead
  <2>3. \A k \in DOMAIN itemQueue' : LiveRead(itemQueue'[k]) => itemQueue'[k].captured.id = 0
    BY <1>4, <2>1, <2>2
  <2>4. QED
    BY <2>3 DEF CaptureOK, LiveRead
<1>6. ScreenOK'
  <2>1. SUFFICES ASSUME Synchronous' PROVE ScreenOK'
    BY DEF ScreenOK
  <2>2. Synchronous
    BY <1>1, <2>1 DEF Synchronous
  <2>3. /\ IF stream.id = 0 THEN runStatus \in Terminal ELSE client.stream = stream.id
        /\ \A i \in Items : ShownOK(i)
    BY <2>2 DEF Stepping, StreamInv, ScreenOK
  <2>4. runStatus \notin Terminal
    <3>1. ~OnlyReads
      BY <1>1, <1>3 DEF OnlyReads, Current
    <3>2. QED
      BY <1>0, <3>1 DEF Base, QuietOK
  <2>5. stream.id # 0 /\ stream' = stream
    BY <1>0, <1>1, <2>3, <2>4, ActiveIs
  <2>6. ASSUME NEW i \in Items PROVE ShownOK(i)'
    <3>1. CASE i = Current.item
      <4>1. Persisted(i)'
        BY <1>1, <1>2, <1>4, <2>5, <3>1 DEF Persisted, Current
      <4>2. stream.live[i].sequence >= 0 => client.items[i] = stream.live[i]
        BY <2>3 DEF ShownOK
      <4>3. QED
        BY <1>1, <2>5, <4>1, <4>2 DEF ShownOK
    <3>2. CASE i # Current.item
      <4>1. row'[i] = row[i]
        BY <1>0, <1>1, <3>2 DEF BaseTypeOK
      <4>2. ~Persisted(i)
        BY <1>1 DEF Persisted
      <4>3. QED
        BY <1>1, <2>3, <2>5, <4>1, <4>2 DEF ShownOK
    <3>3. QED
      BY <3>1, <3>2
  <2>7. QED
    BY <1>1, <2>3, <2>5, <2>6 DEF ScreenOK
<1>7. QED
  BY <1>1, <1>5, <1>6, ScreenLeftAlone DEF Holding

LEMMA CaptureStreamHolds ==
  ASSUME Stepping, CaptureStream
  PROVE  Holding
<1>0. Base /\ BaseTypeOK
  BY DEF Stepping, StreamInv, Base
<1>1. /\ itemQueue # << >> /\ Current.kind = "read" /\ Current.captured.id = 0
      /\ row' = row /\ runStatus' = runStatus /\ fence' = fence /\ moved' = moved
      /\ client' = client /\ conn' = conn
  BY <1>0, CaptureStreamIs DEF durable, screen, writers
<1>2. PICK op, cap : /\ itemQueue' = [itemQueue EXCEPT ![1] = op] /\ Captured(op, cap)
                     /\ \/ /\ stream.id = 0 /\ runStatus \in Terminal
                           /\ cap.id = -count.closes /\ cap.live = Current.captured.live
                           /\ stream' = stream /\ streams' = streams
                        \/ /\ ~(stream.id = 0 /\ runStatus \in Terminal)
                           /\ cap = ActiveStream
                           /\ stream' = ActiveStream /\ streams' = CreatedCount
  BY <1>0, CaptureStreamIs
<1>3. itemQueue \in Seq(Ops) /\ 1 \in DOMAIN itemQueue /\ op \in Ops /\ op.captured = cap /\ op.kind = "read"
  BY <1>0, <1>1, <1>2, QueueOps, CurrentIs DEF Captured
<1>4. /\ itemQueue' # << >> /\ itemQueue'[1] = op /\ DOMAIN itemQueue' = DOMAIN itemQueue
      /\ \A k \in DOMAIN itemQueue : k # 1 => itemQueue'[k] = itemQueue[k]
  BY <1>1, <1>2, <1>3, Heads
<1>5. ASSUME cap.id # 0 PROVE CapturedOK(cap)'
  <2>1. CASE stream.id = 0 /\ runStatus \in Terminal /\ cap.id = -count.closes
             /\ cap.live = Current.captured.live /\ stream' = stream /\ streams' = streams
    <3>1. count.closes \in Nat /\ streams \in Nat
      BY <1>0 DEF BaseTypeOK, Counts
    <3>2. cap.id < 0 /\ cap.id <= streams
      BY <1>5, <2>1, <3>1
    <3>3. cap.live = NoItems
      BY <1>0, <1>1, <2>1, CurrentWrites
    <3>4. \A m \in Messages : NoItems[m].sequence = -1 /\ NoItems[m].version.status # "completed"
      BY Values DEF Items, Absent
    <3>5. QED
      BY <1>1, <2>1, <3>2, <3>3, <3>4 DEF CapturedOK
  <2>2. CASE cap = ActiveStream /\ stream' = ActiveStream /\ streams' = CreatedCount
    <3>1. Base'
      BY DEF Stepping
    <3>2. stream'.id \in 0..streams'
      BY <3>1 DEF Base, StreamOK
    <3>3. \A m \in Messages :
            /\ stream'.live[m].version.status = "completed" => stream'.live[m].version = row'[m]
            /\ row'[m].status = "completed" =>
                 stream'.live[m].sequence = -1 \/ stream'.live[m].version = row'[m] \/ Persisted(m)'
      BY <3>1 DEF Base, StreamOK
    <3>4. \A m : ~Persisted(m)'
      BY <1>3, <1>4 DEF Persisted, Current
    <3>5. cap = stream' /\ streams' \in Nat
      BY <2>2, <3>1 DEF Base, BaseTypeOK
    <3>6. /\ cap.id <= streams' /\ ~(cap.id < 0)
      BY <3>2, <3>5
    <3> HIDE <2>2
    <3>7. QED
      BY <3>3, <3>4, <3>5, <3>6 DEF CapturedOK
  <2>3. QED
    BY <1>2, <2>1, <2>2
<1>6. CaptureOK'
  <2>1. \A k \in DOMAIN itemQueue : itemQueue[k].captured.id # 0 => k = 1
    BY <1>0 DEF Base, WritersOK
  <2>2. ASSUME NEW k \in DOMAIN itemQueue', LiveRead(itemQueue'[k]), itemQueue'[k].captured.id # 0
        PROVE  CapturedOK(itemQueue[k].captured)'
    <3>1. itemQueue'[k].captured = cap
      BY <1>3, <1>4, <2>1, <2>2
    <3>2. CapturedOK(cap)'
      BY <1>5, <2>2, <3>1
    <3>3. QED
      BY <3>1, <3>2 DEF CapturedOK
  <2>3. QED
    BY <2>2 DEF CaptureOK, LiveRead
<1>7. ScreenOK'
  <2>1. SUFFICES ASSUME Synchronous' PROVE ScreenOK'
    BY DEF ScreenOK
  <2>2. Synchronous
    BY <1>1, <2>1 DEF Synchronous
  <2>3. IF stream.id = 0 THEN runStatus \in Terminal ELSE client.stream = stream.id
    BY <2>2 DEF Stepping, StreamInv, ScreenOK
  <2>4. stream' = stream
    BY <1>0, <1>2, <2>3, ActiveIs
  <2>5. \A i \in Items : Persisted(i) => Persisted(i)'
    BY <1>1 DEF Persisted
  <2>6. QED
    BY <1>1, <2>2, <2>4, <2>5, ShownStays
<1>8. QED
  BY <1>1, <1>6, <1>7, ScreenLeftAlone DEF Holding

(* An update says no more than what is in the stream and saved. *)
LEMMA PublishedIsOK ==
  ASSUME Stepping, itemQueue # << >>, Current.kind # "read",
         Current.kind \in { "start", "end" } => Current.captured.id # 0,
         NEW to \in Captures, to.id \in 1..streams', NEW m, Publishes(to, m), row' = row
  PROVE  UpdateOK(m, World') /\ m \in Updates
<1>0. Base /\ BaseTypeOK
  BY DEF Stepping, StreamInv, Base
<1>1. /\ m \in Updates /\ Current.item \in Items /\ m.stream = to.id /\ m.item = Current.item
      /\ m.version = Current.version /\ m.sequence = NextOf(to, Current.item)
      /\ stream' = Landed(to, Current.item, Current.version)
  BY DEF Publishes
<1>2. Current.version \in Versions
  BY <1>0, CurrentIs
<1>3. /\ NextOf(to, Current.item) \in Nat
      /\ stream'.live[Current.item] = [version |-> Current.version, sequence |-> NextOf(to, Current.item)]
  BY <1>1, <1>2, LandedIs, Zenon
<1>4. stream'.live[Current.item].sequence = m.sequence /\ m.sequence \in Nat
  BY <1>1, <1>3
<1>5. m.item \in Messages => \/ m.version.status = "running"
                             \/ m.version.status = "completed" /\ m.version = row'[m.item]
  <2> SUFFICES ASSUME m.item \in Messages
               PROVE  \/ m.version.status = "running"
                      \/ m.version.status = "completed" /\ m.version = row'[m.item]
    OBVIOUS
  <2>1. WriteOK(Current)
    BY <1>0, CurrentWrites
  <2>2. Current.kind \in { "start", "delta", "end" }
    BY <1>0, <1>1, <2>1, CurrentIs, StreamAssumption DEF WriteOK
  <2>3. QED
    BY <1>1, <2>1, <2>2 DEF WriteOK, Running
<1>6. World'.stream = stream' /\ World'.last = streams' /\ World'.row = row'
  BY KeptClient
<1> DEFINE w == World'
<1> HIDE DEF w
<1>7. w.stream = stream' /\ w.last = streams' /\ w.row = row'
  BY <1>6 DEF w
<1>8. UpdateOK(m, w)
  BY <1>1, <1>4, <1>5, <1>7 DEF UpdateOK
<1>9. QED
  BY <1>1, <1>8 DEF w

LEMMA UpdateQuiets ==
  ASSUME NEW c \in Clients, c.sync = "none" => c.ready, NEW m \in Updates,
         Receives(c, m).sync = "none", Receives(c, m).error = "none"
  PROVE  c.sync = "none" /\ c.error = "none"
<1> DEFINE d == Receives(c, m)
<1>1. CASE ~c.ready /\ d = [c EXCEPT !.pending = Append(c.pending, m)]
  BY <1>1, BufferedIs
<1>2. CASE d = Applied(c, m)
  <2>1. \A f \in { "stream", "ready", "pending", "sync", "asks", "error" } : Applied(c, m)[f] = c[f]
    BY UpdateApplies
  <2>2. d.sync = c.sync /\ d.error = c.error
    BY <1>2, <2>1
  <2>3. QED
    BY <2>2
<1>3. CASE d = Synchronize(c)
  BY <1>3, SynchronizeIs
<1>4. QED
  BY <1>1, <1>2, <1>3, UpdateCases

LEMMA PublishesToScreen ==
  ASSUME Stepping, NEW m \in Updates, UpdateOK(m, World'),
         NEW to, Publishes(to, m)
  PROVE  Kept /\ SlotsOK' /\ ServedOK'
<1>0. Base /\ ConnectionOK /\ BaseTypeOK
  BY DEF Stepping, StreamInv, Base
<1>1. CASE conn' = conn /\ client' = client
  BY <1>1, ScreenLeftAlone
<1>2. CASE conn.subscribed /\ conn.slots = << >> /\ conn'.slots = << >> /\ client' = Receives(client, m)
  <2>1. /\ World' \in Worlds /\ ShownEnds(client) \in SUBSET EndedIn(World'.row)
        /\ ClientOK(client, World', ShownEnds(client))
    BY KeptClient
  <2> DEFINE w == World'
             ends == ShownEnds(client)
  <2> HIDE DEF w, ends
  <2>2. /\ w \in Worlds /\ ends \in SUBSET EndedIn(w.row) /\ ClientOK(client, w, ends)
        /\ MessageOK(m, w)
    BY <2>1 DEF w, ends, MessageOK
  <2>3. ClientOK(client', w, ends)
    BY <1>2, <2>2, ReceivesKeeps
  <2>4. client'.sync = "none" \/ client'.asks \/ (client'.sync = client.sync /\ client'.asks = client.asks)
    <3>1. ClientOK(client, w, {})
      BY <2>2, ClientForgets
    <3>2. QED
      BY <1>2, <2>2, <3>1, ReceivesServes
  <2>5. conn'.open /\ conn'.subscribed
    BY <1>0, <1>2 DEF Publishes, ConnectionOK
  <2>6. client.sync # "none" => client.asks
    <3>1. DOMAIN conn.slots = {}
      BY <1>2
    <3>2. QED
      BY <3>1 DEF Stepping, StreamInv, ServedOK
  <2>7. SlotsOK' /\ ServedOK'
    <3>1. DOMAIN conn'.slots = {}
      BY <1>2
    <3>2. QED
      BY <2>4, <2>5, <2>6, <3>1 DEF SlotsOK, ServedOK
  <2>8. QED
    BY <2>3, <2>7 DEF Kept, w, ends
<1>3. CASE conn.subscribed /\ conn.slots # << >> /\ conn'.slots = Append(conn.slots, m) /\ client' = client
  <2>1. conn.slots \in Seq(Updates \cup Holes) /\ m \in Updates \cup Holes
    BY <1>0 DEF BaseTypeOK, Connections
  <2>2. /\ \A k \in DOMAIN conn.slots : k \in DOMAIN conn'.slots /\ conn'.slots[k] = conn.slots[k]
        /\ \A k \in DOMAIN conn'.slots : \/ conn'.slots[k] = m
                                         \/ k \in DOMAIN conn.slots /\ conn'.slots[k] = conn.slots[k]
    <3> DEFINE p == conn'.slots
               q == conn.slots
    <3>1. q \in Seq(Updates \cup Holes) /\ m \in Updates \cup Holes /\ p = Append(q, m)
      BY <1>3, <2>1
    <3> HIDE DEF p, q
    <3>2. /\ Len(q) + 1 \in DOMAIN p /\ p[Len(q) + 1] = m /\ p # << >>
          /\ q # << >> => Len(q) + 1 > 1
          /\ \A k \in DOMAIN q : k \in DOMAIN p /\ p[k] = q[k] /\ q # << >>
          /\ \A k \in DOMAIN p : k = Len(q) + 1 \/ (k \in DOMAIN q /\ p[k] = q[k])
      BY <3>1, Behind
    <3>3. /\ \A k \in DOMAIN q : k \in DOMAIN p /\ p[k] = q[k]
          /\ \A k \in DOMAIN p : p[k] = m \/ (k \in DOMAIN q /\ p[k] = q[k])
      BY <3>2
    <3>4. QED
      BY <3>3 DEF p, q
  <2>3. conn'.subscribed /\ conn'.open = conn.open
    BY <1>3 DEF Publishes
  <2>4. SlotsOK'
    BY <2>2, <2>3, SlotsSurvive DEF SlotsOK
  <2>5. ServedOK'
    BY <1>3, <2>2, <2>3 DEF Stepping, StreamInv, ServedOK
  <2>6. Kept
    BY <1>3, KeptClient DEF Kept
  <2>7. QED
    BY <2>4, <2>5, <2>6
<1>4. QED
  BY <1>1, <1>2, <1>3 DEF Publishes

LEMMA PublishesHolds ==
  ASSUME Stepping, itemQueue # << >>, Current.kind # "read",
         Current.kind \in { "start", "end" } => Current.captured.id # 0,
         NEW to \in Captures, to.id \in 1..streams', to = stream \/ stream.id = 0, NEW m, Publishes(to, m),
         m.kind = "item" \/ stream.live[Current.item].sequence >= 0,
         itemQueue' = Tail(itemQueue), WriterDone(Current), UNCHANGED << durable, fence >>
  PROVE  Holding
<1>0. Base /\ BaseTypeOK /\ ConnectionOK /\ row' = row /\ runStatus' = runStatus
  BY DEF Stepping, StreamInv, Base, durable
<1>1. m \in Updates /\ UpdateOK(m, World')
  BY <1>0, PublishedIsOK
<1>2. Kept /\ SlotsOK' /\ ServedOK'
  BY <1>1, PublishesToScreen
<1>3. CaptureOK'
  <2>1. \A k \in DOMAIN itemQueue' : itemQueue'[k].captured.id = 0
    BY <1>0, NothingCaptured
  <2>2. QED
    BY <2>1 DEF CaptureOK
<1>4. ScreenOK'
  <2>1. SUFFICES ASSUME Synchronous' PROVE ScreenOK'
    BY DEF ScreenOK
  <2>2. /\ conn.subscribed /\ conn.slots = << >> /\ client' = Receives(client, m) /\ conn.open
    <3>1. conn'.slots = << >> /\ conn'.open /\ client'.sync = "none"
      BY <2>1 DEF Synchronous
    <3>2. CASE ~conn.subscribed /\ conn' = conn /\ client' = client
      BY <3>1, <3>2 DEF Stepping, StreamInv, SlotsOK
    <3>3. CASE conn.subscribed /\ conn.slots = << >> /\ client' = Receives(client, m)
      BY <1>0, <3>3 DEF ConnectionOK
    <3>4. CASE conn'.slots = Append(conn.slots, m)
      <4>1. conn.slots \in Seq(Updates \cup Holes) /\ m \in Updates \cup Holes
        BY <1>0, <1>1 DEF BaseTypeOK, Connections
      <4>2. Append(conn.slots, m) # << >>
        BY <4>1, AppendsHead
      <4>3. QED
        BY <3>1, <3>4, <4>2
    <3>5. QED
      BY <3>2, <3>3, <3>4 DEF Publishes
  <2>3. client \in Clients /\ (client.sync = "none" => client.ready)
    BY DEF Stepping, StreamInv, ScreenInv, ClientOK
  <2>4. client'.sync = "none" /\ client'.error = "none"
    BY <2>1 DEF Synchronous
  <2>5. client.sync = "none" /\ client.error = "none" /\ client.ready
    BY <1>1, <2>2, <2>3, <2>4, UpdateQuiets
  <2>6. /\ IF stream.id = 0 THEN runStatus \in Terminal ELSE client.stream = stream.id
        /\ \A i \in Items : ShownOK(i)
    BY <2>2, <2>5 DEF Stepping, StreamInv, ScreenOK, Synchronous
  <2>7. stream.id # 0 /\ to = stream /\ client.stream = stream.id
    <3>1. ~OnlyReads
      BY <1>0, CurrentIs DEF OnlyReads
    <3>2. runStatus \notin Terminal
      BY <1>0, <3>1 DEF Base, QuietOK
    <3>3. QED
      BY <2>6, <3>2
  <2> DEFINE i == Current.item
             v == Current.version
  <2>8. /\ i \in Items /\ m.item = i /\ m.version = v /\ m.stream = stream.id
        /\ m.sequence = NextOf(stream, i) /\ stream' = Landed(stream, i, v) /\ v \in Versions
    BY <1>0, <2>7, CurrentIs DEF Publishes
  <2>9. stream \in Captures /\ stream.id \in Int
    BY <1>0 DEF BaseTypeOK, Captures
  <2> HIDE DEF i, v
  <2>10. /\ stream'.id = stream.id /\ m.sequence = stream.live[i].sequence + 1
         /\ stream.live[i].sequence \in Int /\ m.sequence \in Nat
         /\ stream'.live[i] = [version |-> m.version, sequence |-> m.sequence]
         /\ \A j \in Items : j # i => stream'.live[j] = stream.live[j]
    <3>1. /\ stream'.id = stream.id /\ NextOf(stream, i) \in Nat
          /\ NextOf(stream, i) = stream.live[i].sequence + 1 /\ stream.live[i].sequence \in Int
          /\ stream'.live[i] = [version |-> v, sequence |-> NextOf(stream, i)]
          /\ \A j \in Items : j # i => stream'.live[j] = stream.live[j]
      BY <2>8, <2>9, LandedIs, Zenon
    <3>2. QED
      BY <2>8, <3>1
  <2>11. client.items[i].sequence < m.sequence \/ (m.kind = "item" /\ client.items[i].sequence <= m.sequence)
    <3>1. client.items[i].sequence \in Int
      BY <2>3, <2>8 DEF Clients, Views, Cursors
    <3>2. CASE stream.live[i].sequence >= 0
      <4>1. client.items[i] = stream.live[i]
        BY <2>6, <2>8, <3>2 DEF ShownOK
      <4>2. QED
        BY <2>10, <4>1
    <3>3. CASE ~(stream.live[i].sequence >= 0)
      <4>1. World.stream = stream
        BY KeptClient
      <4>2. Within(client.items[i], i, client.stream, World)
        BY <2>8 DEF Stepping, StreamInv, ScreenInv, ClientOK, ViewOK
      <4>3. client.items[i].sequence <= 0
        BY <2>7, <2>10, <3>1, <3>3, <4>1, <4>2 DEF Within
      <4>4. m.kind = "item"
        BY <3>3 DEF i
      <4>5. QED
        BY <2>10, <3>1, <4>3, <4>4
    <3>4. QED
      BY <3>2, <3>3
  <2>12. /\ client'.stream = client.stream
         /\ client'.items = [client.items EXCEPT ![i] = [version |-> m.version, sequence |-> m.sequence]]
    <3>1. /\ client.items[m.item].sequence <= m.sequence
          /\ m.kind = "item" \/ client.items[m.item].sequence < m.sequence
      <4>1. client.items[i].sequence \in Int
        BY <2>3, <2>8 DEF Clients, Views, Cursors
      <4>2. QED
        BY <2>8, <2>10, <2>11, <4>1
    <3>2. \/ client'.sync # "none"
          \/ /\ client'.stream = client.stream
             /\ client'.items = [client.items EXCEPT ![m.item] =
                                   [version |-> m.version, sequence |-> m.sequence]]
      BY <1>1, <2>2, <2>3, <2>5, <3>1, UpdateLands
    <3>3. QED
      BY <2>4, <2>8, <3>2
  <2>13. client.items \in Views /\ DOMAIN client.items = Items
    BY <2>3 DEF Clients, Views
  <2>14. ASSUME NEW j \in Items PROVE ShownOK(j)'
    <3>1. CASE j = i
      BY <2>8, <2>10, <2>12, <2>13, <3>1 DEF ShownOK
    <3>2. CASE j # i
      <4>1. client'.items[j] = client.items[j] /\ stream'.live[j] = stream.live[j]
        BY <2>10, <2>12, <2>13, <3>2
      <4>2. ~Persisted(j)
        BY <3>2 DEF Persisted, i
      <4>3. j \in moved => j \in moved'
        BY <1>0, <3>2, WriterDoneIs DEF i
      <4>4. ShownOK(j)
        BY <2>6
      <4>5. QED
        BY <1>0, <4>1, <4>2, <4>3, <4>4 DEF ShownOK
    <3>3. QED
      BY <3>1, <3>2
  <2>15. QED
    BY <2>7, <2>10, <2>12, <2>14 DEF ScreenOK
<1>5. QED
  BY <1>2, <1>3, <1>4 DEF Holding

LEMMA PublishItemHolds ==
  ASSUME Stepping, PublishItem
  PROVE  Holding
<1>0. Base /\ BaseTypeOK
  BY DEF Stepping, StreamInv, Base
<1>1. /\ itemQueue # << >> /\ Current.kind # "read"
      /\ Current.kind \in { "start", "end" } => Current.captured.id # 0
      /\ streams' = CreatedCount /\ itemQueue' = Tail(itemQueue)
      /\ WriterDone(Current) /\ UNCHANGED << durable, fence >>
  BY <1>0, PublishItemIs
<1>2. PICK m : m.kind = "item" /\ Publishes(ActiveStream, m)
  BY <1>0, PublishItemIs
<1>3. stream.id \in 0..streams /\ streams \in Nat
  BY <1>0 DEF Base, StreamOK, BaseTypeOK
<1>4. /\ ActiveStream \in Captures /\ ActiveStream.id \in 1..streams'
      /\ ActiveStream = stream \/ stream.id = 0
  BY <1>0, <1>1, <1>3, ActiveIs
<1>5. QED
  BY <1>1, <1>2, <1>4, PublishesHolds

LEMMA AppendTextHolds ==
  ASSUME Stepping, AppendText
  PROVE  Holding
<1>0. Base /\ BaseTypeOK
  BY DEF Stepping, StreamInv, Base
<1>1. /\ itemQueue # << >> /\ Current.kind = "delta"
      /\ streams' = streams /\ itemQueue' = Tail(itemQueue)
      /\ WriterDone(Current) /\ UNCHANGED << durable, fence >>
  BY <1>0, AppendTextIs
<1>2. PICK m : Publishes(stream, m)
  BY <1>0, AppendTextIs
<1>3. stream.live[Current.item].sequence >= 0 /\ Current.item \in Items
  BY <1>0, <1>1, CurrentWrites DEF WriteOK, MessageOps
<1>4. stream \in Captures /\ stream.id \in 1..streams'
  <2>1. NoItems[Current.item].sequence = -1
    BY <1>3, Values
  <2>2. stream.id # 0 /\ stream.id \in 0..streams /\ streams \in Nat
    BY <1>0, <1>3, <2>1 DEF Base, BaseTypeOK, StreamOK
  <2>3. QED
    BY <1>0, <1>1, <2>2 DEF BaseTypeOK
<1>5. QED
  BY <1>1, <1>2, <1>3, <1>4, PublishesHolds

(* What a read presents: the stream as it was captured, over the rows. *)
LEMMA PresentedItems ==
  ASSUME BaseTypeOK, NEW cap \in Captures, NEW items, items = Presented(cap), NEW i \in Items
  PROVE  /\ cap.live[i].sequence \in Int /\ cap.live[i].sequence >= -1
         /\ cap.live[i].sequence >= 0 => items[i] = cap.live[i]
         /\ ~(cap.live[i].sequence >= 0) =>
              /\ items[i].version = row[i]
              /\ row[i] # Absent => items[i].sequence = 0
              /\ row[i] = Absent => items[i].sequence = -1
<1>1. items[i] = IF cap.live[i].sequence >= 0 THEN cap.live[i]
                 ELSE IF row[i] # Absent THEN [version |-> row[i], sequence |-> 0] ELSE Unseen
  BY PresentedIs, Zenon
<1>2. cap.live[i].sequence \in Int /\ cap.live[i].sequence >= -1
  BY DEF Captures, Views, Cursors
<1>3. CASE cap.live[i].sequence >= 0
  BY <1>1, <1>2, <1>3
<1>4. CASE ~(cap.live[i].sequence >= 0) /\ row[i] # Absent
  <2>1. items[i] = [version |-> row[i], sequence |-> 0]
    BY <1>1, <1>4
  <2>2. QED
    BY <1>2, <1>4, <2>1
<1>5. CASE ~(cap.live[i].sequence >= 0) /\ row[i] = Absent
  <2>1. items[i] = Unseen
    BY <1>1, <1>5
  <2>2. QED
    BY <1>2, <1>5, <2>1, Values
<1>6. QED
  BY <1>3, <1>4, <1>5

LEMMA PresentedIsOK ==
  ASSUME Base, NEW cap \in Captures, cap.id # 0, CapturedOK(cap),
         NEW s \in Snapshots, s.stream = cap.id, s.items = Presented(cap),
         NEW w, w.stream = stream, w.last = streams, w.row = row
  PROVE  SnapshotOK(s, w)
<1>0. BaseTypeOK /\ cap.id \in Int /\ cap.live \in Views
  BY DEF Base, Captures
<1> DEFINE items == s.items
<1>1. \A i \in Items :
        /\ cap.live[i].sequence >= 0 => items[i] = cap.live[i]
        /\ ~(cap.live[i].sequence >= 0) =>
             /\ items[i].version = row[i]
             /\ row[i] # Absent => items[i].sequence = 0
             /\ row[i] = Absent => items[i].sequence = -1
  BY <1>0, PresentedItems
<1>2. \A i \in Items : cap.live[i].sequence \in Int /\ NoItems[i].sequence = -1
  BY <1>0, Values DEF Views, Cursors
<1>3. s.stream <= w.last
  BY DEF CapturedOK
<1> HIDE DEF items
<1>4. ASSUME NEW i \in Items PROVE Within(items[i], i, s.stream, w)
  <2>1. CASE cap.live[i].sequence >= 0
    <3>1. ~(cap.id < 0)
      BY <1>2, <2>1 DEF CapturedOK
    <3>2. cap.id > 0
      BY <1>0, <3>1
    <3>3. cap.id = stream.id => items[i].sequence <= stream.live[i].sequence
      BY <1>1, <1>2, <2>1 DEF CapturedOK
    <3>4. s.stream > 0 /\ (s.stream = w.stream.id => items[i].sequence <= w.stream.live[i].sequence)
      BY <3>2, <3>3
    <3>5. s.stream \in Int
      BY <1>0
    <3>6. QED
      BY <3>4, <3>5 DEF Within
  <2>2. CASE ~(cap.live[i].sequence >= 0) /\ row[i] # Absent
    <3>1. items[i].sequence = 0
      BY <1>1, <2>2
    <3>2. QED
      BY <2>2, <3>1 DEF Within
  <2>3. CASE ~(cap.live[i].sequence >= 0) /\ row[i] = Absent
    <3>1. items[i].sequence = -1
      BY <1>1, <2>3, Values
    <3>2. QED
      BY <3>1 DEF Within
  <2>4. QED
    BY <2>1, <2>2, <2>3
<1>5. ASSUME NEW m \in Messages
      PROVE  /\ items[m].version.status = "completed" => items[m].version = row[m]
             /\ row[m].status = "completed" => items[m].version = row[m]
  <2>1. m \in Items
    BY DEF Items
  <2>2. CASE cap.live[m].sequence >= 0
    <3>1. items[m] = cap.live[m] /\ cap.live[m].sequence # -1
      BY <1>1, <1>2, <2>1, <2>2
    <3>2. QED
      BY <3>1 DEF CapturedOK
  <2>3. CASE ~(cap.live[m].sequence >= 0) /\ row[m] # Absent
    BY <1>1, <2>1, <2>3
  <2>4. CASE ~(cap.live[m].sequence >= 0) /\ row[m] = Absent
    BY <1>1, <2>1, <2>4, Values
  <2>5. QED
    BY <2>2, <2>3, <2>4
<1>6. QED
  BY <1>3, <1>4, <1>5 DEF items, SnapshotOK, ViewOK, EndedIn

(* When no hole waits behind it, a read presents the newest there is.        *)
LEMMA PresentedIsNewest ==
  ASSUME Base, NEW cap \in Captures, cap.id # 0, CapturedOK(cap), ~HoleBehind,
         NEW items, items = Presented(cap)
  PROVE  /\ stream.id = 0 => runStatus \in Terminal
         /\ stream.id # 0 => cap.id = stream.id
         /\ cap.id > 0 => cap.id = stream.id
         /\ \A i \in Items :
              /\ items[i].sequence \in Int
              /\ row[i] # Absent => items[i].sequence >= 0
              /\ items[i].sequence >= -1
              /\ IF stream.live[i].sequence >= 0 THEN items[i] = stream.live[i]
                                                 ELSE items[i].version = row[i]
<1>0. BaseTypeOK /\ cap.id \in Int /\ cap.live \in Views /\ stream.id \in Int /\ stream.live \in Views
  BY DEF Base, BaseTypeOK, Captures
<1>1. \A i \in Items :
        /\ cap.live[i].sequence >= 0 => items[i] = cap.live[i]
        /\ ~(cap.live[i].sequence >= 0) =>
             /\ items[i].version = row[i]
             /\ row[i] # Absent => items[i].sequence = 0
             /\ row[i] = Absent => items[i].sequence = -1
  BY <1>0, PresentedItems
<1>2. \A i \in Items : /\ cap.live[i].sequence \in Int /\ cap.live[i].sequence >= -1
                       /\ stream.live[i].sequence \in Int /\ NoItems[i].sequence = -1
  BY <1>0, Values DEF Views, Cursors
<1>3. \/ cap.id = stream.id /\ cap.live = stream.live
      \/ stream.id = 0 /\ runStatus \in Terminal /\ cap.id < 0 /\ cap.live = NoItems /\ stream.live = NoItems
  BY DEF CapturedOK, Base, StreamOK
<1>4. cap.live = stream.live
  BY <1>3
<1>5. /\ stream.id = 0 => runStatus \in Terminal
      /\ stream.id # 0 => cap.id = stream.id
      /\ cap.id > 0 => cap.id = stream.id
  BY <1>0, <1>3
<1>6. ASSUME NEW i \in Items
      PROVE  /\ items[i].sequence \in Int
             /\ row[i] # Absent => items[i].sequence >= 0
             /\ items[i].sequence >= -1
             /\ IF stream.live[i].sequence >= 0 THEN items[i] = stream.live[i]
                                                ELSE items[i].version = row[i]
  <2>1. CASE cap.live[i].sequence >= 0
    BY <1>1, <1>2, <1>4, <2>1
  <2>2. CASE ~(cap.live[i].sequence >= 0) /\ row[i] # Absent
    BY <1>1, <1>2, <1>4, <2>2
  <2>3. CASE ~(cap.live[i].sequence >= 0) /\ row[i] = Absent
    BY <1>1, <1>2, <1>4, <2>3
  <2>4. QED
    BY <2>1, <2>2, <2>3
<1>7. QED
  BY <1>5, <1>6

(* No update is ahead of such a snapshot, neither one the client has nor one *)
(* that waits.                                                               *)
LEMMA NothingIsNewer ==
  ASSUME Base, NEW cap \in Captures, cap.id # 0, CapturedOK(cap), ~HoleBehind,
         NEW items, items = Presented(cap),
         NEW w, w.stream = stream, w.last = streams, w.row = row
  PROVE  /\ \A m \in Updates : UpdateOK(m, w) /\ m.stream = cap.id => m.sequence <= items[m.item].sequence
         /\ \A c : ClientOK(c, w, {}) => Newest(items, cap.id, c)
<1>0. cap.id \in Int /\ streams \in Nat /\ stream.live \in Views
  BY DEF Base, BaseTypeOK, Captures
<1>1. \A i \in Items : stream.live[i].sequence \in Int
  BY <1>0 DEF Views, Cursors
<1>2. ASSUME NEW m \in Updates, UpdateOK(m, w), m.stream = cap.id
      PROVE  m.sequence <= items[m.item].sequence
  <2>1. m.item \in Items /\ m.sequence \in Nat /\ cap.id > 0
    BY <1>0, <1>2 DEF Updates, UpdateOK
  <2>2. m.sequence <= stream.live[m.item].sequence
    BY <1>2, <2>1, PresentedIsNewest DEF UpdateOK
  <2>3. items[m.item] = stream.live[m.item]
    BY <1>1, <2>1, <2>2, PresentedIsNewest
  <2>4. QED
    BY <2>2, <2>3
<1>3. ASSUME NEW c, ClientOK(c, w, {}), c.stream = cap.id, NEW i \in Items
      PROVE  c.items[i].sequence <= items[i].sequence
  <2>1. c.items[i].sequence \in Int
    BY <1>3 DEF ClientOK, Clients, Views, Cursors
  <2>2. cap.id <= 0 \/ cap.id = stream.id
    BY <1>0, PresentedIsNewest
  <2>3. \/ c.items[i].sequence = -1
        \/ c.items[i].sequence = 0 /\ row[i] # Absent
        \/ cap.id > 0 /\ c.items[i].sequence <= stream.live[i].sequence
    BY <1>3, <2>2 DEF ClientOK, ViewOK, Within
  <2>4. /\ items[i].sequence \in Int /\ items[i].sequence >= -1
        /\ row[i] # Absent => items[i].sequence >= 0
        /\ stream.live[i].sequence >= 0 => items[i] = stream.live[i]
    BY PresentedIsNewest
  <2>5. QED
    BY <1>1, <2>1, <2>3, <2>4
<1>4. ASSUME NEW c, ClientOK(c, w, {}) PROVE Newest(items, cap.id, c)
  <2>1. \A k \in DOMAIN c.pending : c.pending[k] \in Updates /\ UpdateOK(c.pending[k], w)
    BY <1>4 DEF ClientOK, Clients
  <2>2. QED
    BY <1>2, <1>3, <1>4, <2>1 DEF Newest
<1>5. QED
  BY <1>2, <1>4

(* The slots behind a hole that is filled. *)
LEMMA BehindTheHole ==
  ASSUME Stepping, conn.slots # << >>, NEW s, NEW j \in Nat, NEW ready \in Seq(Updates \cup Snapshots),
         FilledWith(s, j, ready)
  PROVE  /\ \A k \in DOMAIN conn.slots : k > j => \E h \in DOMAIN conn'.slots : conn'.slots[h] = conn.slots[k]
         /\ \A k \in 1..Len(ready) : k > 1 => ready[k] \in Updates /\ UpdateOK(ready[k], World')
         /\ \A k \in DOMAIN conn.slots : k > 1 /\ k <= j => conn.slots[k] \in Updates /\ ~IsHole(conn.slots[k])
         /\ conn'.slots = << >> => ~HoleBehind
<1>0. conn.slots \in Seq(Updates \cup Holes) /\ conn'.slots \in Seq(Updates \cup Holes)
  BY DEF Stepping, StreamInv, Base, BaseTypeOK, Connections
<1>1. /\ j \in 1..Len(conn.slots) /\ Len(ready) = j /\ ready[1] = s
      /\ \A k \in 2..j : conn.slots[k] \in Updates /\ ready[k] = conn.slots[k]
      /\ Len(conn'.slots) = Len(conn.slots) - j
      /\ \A k \in DOMAIN conn'.slots : conn'.slots[k] = conn.slots[k + j] /\ k + j \in DOMAIN conn.slots
  BY DEF FilledWith
<1>2. /\ DOMAIN conn.slots = 1..Len(conn.slots) /\ Len(conn.slots) \in Nat
      /\ DOMAIN conn'.slots = 1..Len(conn'.slots) /\ Len(conn'.slots) \in Nat
  BY <1>0
<1>3. \A m \in Updates : ~IsHole(m)
  BY DEF Updates, IsHole
<1>4. ASSUME NEW k \in DOMAIN conn.slots, k > j
      PROVE  \E h \in DOMAIN conn'.slots : conn'.slots[h] = conn.slots[k]
  <2>1. k - j \in DOMAIN conn'.slots /\ (k - j) + j = k
    BY <1>1, <1>2, <1>4
  <2>2. conn'.slots[k - j] = conn.slots[k]
    BY <1>1, <2>1
  <2>3. QED
    BY <2>1, <2>2
<1>5. ASSUME NEW k \in DOMAIN conn.slots, k > 1, k <= j
      PROVE  k \in 2..j /\ conn.slots[k] \in Updates /\ ~IsHole(conn.slots[k])
  <2>1. k \in 2..j
    BY <1>1, <1>2, <1>5
  <2>2. QED
    BY <1>1, <1>3, <2>1
<1>6. ASSUME NEW k \in 1..Len(ready), k > 1 PROVE ready[k] \in Updates /\ UpdateOK(ready[k], World')
  <2>1. k \in DOMAIN conn.slots /\ k <= j /\ k \in 2..j
    BY <1>1, <1>2, <1>6
  <2>2. ready[k] = conn.slots[k] /\ conn.slots[k] \in Updates /\ ~IsHole(conn.slots[k])
    BY <1>1, <1>3, <2>1
  <2>3. IsHole(conn.slots[k]) \/ UpdateOK(conn.slots[k], World')
    BY <2>1, SlotsSurvive
  <2>4. QED
    BY <2>2, <2>3
<1>7. conn'.slots = << >> => ~HoleBehind
  <2>1. conn'.slots = << >> => j = Len(conn.slots)
    BY <1>1, <1>2
  <2>2. QED
    BY <1>2, <1>5, <2>1 DEF HoleBehind
<1>8. QED
  BY <1>4, <1>5, <1>6, <1>7

(* The snapshot and what waited behind it are sent. *)
LEMMA SnapshotShown ==
  ASSUME Stepping, NEW cap \in Captures, cap.id # 0, CapturedOK(cap),
         NEW s \in Snapshots, s.stream = cap.id, s.items = Presented(cap),
         conn.slots # << >>, s.kind = MessageKind(conn.slots[1]), conn.open,
         NEW j \in Nat, NEW ready \in Seq(Updates \cup Snapshots), FilledWith(s, j, ready),
         row' = row, stream' = stream, streams' = streams
  PROVE  /\ Kept
         /\ \/ client'.sync = "none" \/ client'.asks
            \/ \E k \in DOMAIN conn'.slots : conn'.slots[k] = HoleFor("reply hole")
         /\ conn'.slots = << >> => ~HoleBehind /\ Settled(client', cap.id, s.items)
<1> DEFINE w == World'
           ends == ShownEnds(client)
           Reply == \E k \in DOMAIN conn'.slots : conn'.slots[k] = HoleFor("reply hole")
           Sent == conn'.slots = << >>
           items == s.items
           S == { c \in Clients : /\ ClientOK(c, w, ends)
                                  /\ c.sync = "none" \/ c.asks \/ Reply
                                  /\ Sent => Settled(c, cap.id, items) }
<1>1. /\ w \in Worlds /\ ends \in SUBSET EndedIn(w.row) /\ ClientOK(client, w, ends)
      /\ w.stream = stream /\ w.last = streams /\ w.row = row
  BY KeptClient
<1>2. Base /\ ServedOK
  BY DEF Stepping, StreamInv
<1>3. Sent => ~HoleBehind
  BY BehindTheHole
<1>4. \A k \in 1..Len(ready) : k > 1 => ready[k] \in Updates /\ UpdateOK(ready[k], w)
  BY BehindTheHole
<1>5. Len(ready) \in Nat /\ Len(ready) >= 1 /\ ready[1] = s /\ client' = Delivered(client, ready)
  BY DEF FilledWith
<1>6. client.sync # "none" /\ ~client.asks /\ s.kind # "reply" => Reply
  <2> SUFFICES ASSUME client.sync # "none", ~client.asks, s.kind # "reply" PROVE Reply
    OBVIOUS
  <2>1. PICK k \in DOMAIN conn.slots : conn.slots[k] = HoleFor("reply hole")
    BY <1>2 DEF ServedOK
  <2>2. IsHole(conn.slots[k]) /\ conn.slots[k].kind = "reply hole"
    <3>1. HoleFor("reply hole").kind = "reply hole"
      BY DEF HoleFor
    <3>2. QED
      BY <2>1, <3>1 DEF IsHole
  <2>3. k # 1
    BY <2>2 DEF MessageKind
  <2>4. k \in Nat /\ k >= 1 /\ j \in Nat
    BY <1>2 DEF Base, BaseTypeOK, Connections
  <2>5. ~(k > 1 /\ k <= j)
    BY <2>2, BehindTheHole
  <2>6. k > j
    BY <2>3, <2>4, <2>5
  <2>7. QED
    BY <2>1, <2>6, BehindTheHole
<1> HIDE DEF w, ends, Reply, Sent, items
<1>7. SnapshotOK(s, w) /\ MessageOK(s, w)
  <2>1. SnapshotOK(s, w)
    BY <1>1, <1>2, PresentedIsOK
  <2>2. QED
    BY <2>1 DEF MessageOK
<1>8. Sent => \A m \in Updates : UpdateOK(m, w) /\ m.stream = cap.id => m.sequence <= items[m.item].sequence
  BY <1>1, <1>2, <1>3, NothingIsNewer DEF items
<1>9. Sent => Newest(items, cap.id, client)
  <2>1. ClientOK(client, w, {})
    BY <1>1, ClientForgets
  <2>2. QED
    BY <1>1, <1>2, <1>3, <2>1, NothingIsNewer DEF items
<1>10. items \in Views
  BY DEF items, Snapshots
<1>11. Receives(client, s) \in S
  <2> DEFINE d == Receives(client, s)
  <2>1. ClientOK(d, w, ends)
    BY <1>1, <1>7, ReceivesKeeps
  <2>2. d \in Clients
    BY <2>1 DEF ClientOK
  <2>3. ClientOK(client, w, {})
    BY <1>1, ClientForgets
  <2>4. d.sync = "none" \/ d.asks \/ (s.kind # "reply" /\ d.sync = client.sync /\ d.asks = client.asks)
    BY <1>1, <1>7, <2>3, ReceivesServes
  <2>5. d.sync = "none" \/ d.asks \/ Reply
    BY <1>6, <2>4
  <2>6. Sent => Settled(d, cap.id, items)
    <3>1. ASSUME Newest(s.items, s.stream, client) PROVE Settled(d, s.stream, s.items)
      BY <1>1, <1>7, <2>3, <3>1, SnapshotSettles
    <3>2. QED
      BY <1>9, <3>1 DEF items
  <2> HIDE DEF d
  <2>7. d \in S
    BY <2>1, <2>2, <2>5, <2>6
  <2>8. QED
    BY <2>7 DEF d
<1>12. ASSUME NEW k \in 1..Len(ready), k > 1, NEW c \in S PROVE Receives(c, ready[k]) \in S
  <2> DEFINE d == Receives(c, ready[k])
  <2>1. ready[k] \in Updates /\ UpdateOK(ready[k], w) /\ MessageOK(ready[k], w)
    BY <1>4, <1>12 DEF MessageOK
  <2>2. PICK m \in Updates : m = ready[k]
    BY <2>1
  <2>3. c \in Clients /\ ClientOK(c, w, ends) /\ (c.sync = "none" \/ c.asks \/ Reply)
        /\ (Sent => Settled(c, cap.id, items))
    OBVIOUS
  <2>4. ClientOK(d, w, ends)
    BY <1>1, <2>1, <2>3, ReceivesKeeps
  <2>5. d \in Clients
    BY <2>4 DEF ClientOK
  <2>6. ClientOK(c, w, {})
    BY <2>3, ClientForgets
  <2>7. d.sync = "none" \/ d.asks \/ (d.sync = c.sync /\ d.asks = c.asks)
    BY <1>1, <2>1, <2>6, ReceivesServes
  <2>8. d.sync = "none" \/ d.asks \/ Reply
    BY <2>3, <2>7
  <2>9. Sent => Settled(d, cap.id, items)
    <3>1. c.sync = "none" => c.ready
      BY <2>3 DEF ClientOK
    <3>2. Sent => (m.stream = cap.id => m.sequence <= items[m.item].sequence)
      BY <1>8, <2>1, <2>2
    <3>3. ASSUME Settled(c, cap.id, items), m.stream = cap.id => m.sequence <= items[m.item].sequence
          PROVE  Settled(Receives(c, m), cap.id, items)
      BY <1>10, <2>3, <3>1, <3>3, UpdateStaysSettled
    <3>4. QED
      BY <2>2, <2>3, <3>2, <3>3
  <2> HIDE DEF d
  <2>10. d \in S
    BY <2>4, <2>5, <2>8, <2>9
  <2>11. QED
    BY <2>10 DEF d
<1>13. Delivered(client, ready) \in S
  <2> HIDE DEF S
  <2>1. 1 \in 0..Len(ready) /\ 1 <= 1 /\ 1 # 0 /\ Len(ready) \in Nat
    BY <1>5
  <2>2. IF 1 = 0 THEN client \in S ELSE Receives(client, ready[1]) \in S
    BY <1>5, <1>11
  <2>3. \A k \in 1..Len(ready) : k > 1 => \A d \in S : Receives(d, ready[k]) \in S
    BY <1>12
  <2> HIDE <1>12
  <2>4. QED
    BY <2>1, <2>2, <2>3, DeliveredStays
<1>14. ClientOK(client', w, ends) /\ (client'.sync = "none" \/ client'.asks \/ Reply)
       /\ (Sent => Settled(client', cap.id, items))
  BY <1>5, <1>13
<1>15. QED
  BY <1>3, <1>14 DEF Kept, w, ends, Reply, Sent, items

LEMMA LoadRowsHolds ==
  ASSUME Stepping, LoadRows
  PROVE  Holding
<1>0. Base /\ BaseTypeOK /\ ConnectionOK
  BY DEF Stepping, StreamInv, Base
<1>1. /\ itemQueue # << >> /\ Current.kind = "read" /\ Current.captured.id # 0
      /\ row' = row /\ runStatus' = runStatus /\ stream' = stream /\ streams' = streams /\ fence' = fence
      /\ moved' = moved
  BY <1>0, LoadRowsIs DEF durable, store, writers
<1>2. \A k \in DOMAIN Tail(itemQueue) : Tail(itemQueue)[k].captured.id = 0
  BY <1>0, <1>1, NothingCaptured
<1>3. CASE Current.dead
  <2>1. itemQueue' = Tail(itemQueue) /\ client' = client /\ conn' = conn
    BY <1>0, <1>3, LoadRowsIs DEF screen
  <2>2. CaptureOK'
    BY <1>2, <2>1 DEF CaptureOK
  <2>3. ScreenOK'
    <3>1. \A i \in Items : ~Persisted(i)
      BY <1>1 DEF Persisted
    <3>2. Synchronous' => Synchronous
      BY <2>1 DEF Synchronous
    <3>3. QED
      BY <1>1, <2>1, <3>1, <3>2, ShownStays
  <2>4. QED
    BY <2>1, <2>2, <2>3, ScreenLeftAlone DEF Holding
<1>4. CASE ~Current.dead
  <2> DEFINE cap == Current.captured
  <2>1. /\ conn.slots # << >> /\ conn.subscribed
        /\ Snapshot \in Snapshots /\ Snapshot.kind = MessageKind(conn.slots[1])
        /\ Snapshot.stream = cap.id /\ Snapshot.items = Presented(cap)
        /\ conn'.open = conn.open /\ conn'.subscribed = conn.subscribed
        /\ \E j \in Nat, ready \in Seq(Updates \cup Snapshots) : FilledWith(Snapshot, j, ready)
        /\ itemQueue' = IF conn'.capturing THEN Append(Tail(itemQueue), ReadOp) ELSE Tail(itemQueue)
    BY <1>0, <1>4, LoadRowsIs
  <2>2. PICK j \in Nat, ready \in Seq(Updates \cup Snapshots) : FilledWith(Snapshot, j, ready)
    BY <2>1
  <2>3. cap \in Captures /\ cap.id # 0 /\ CapturedOK(cap)
    <3>1. Current = itemQueue[1] /\ 1 \in DOMAIN itemQueue /\ cap \in Captures
      BY <1>0, <1>1, CurrentIs
    <3>2. LiveRead(itemQueue[1]) /\ itemQueue[1].captured.id # 0
      BY <1>1, <1>4, <3>1 DEF LiveRead
    <3>3. CapturedOK(itemQueue[1].captured)
      BY <3>1, <3>2 DEF Stepping, StreamInv, CaptureOK
    <3>4. QED
      BY <1>1, <3>1, <3>3
  <2>4. conn.open
    BY <1>0, <2>1 DEF ConnectionOK
  <2> DEFINE s == Snapshot
  <2> HIDE DEF s
  <2>5. /\ s \in Snapshots /\ s.kind = MessageKind(conn.slots[1]) /\ s.stream = cap.id
        /\ s.items = Presented(cap) /\ FilledWith(s, j, ready)
    BY <2>1, <2>2 DEF s
  <2> HIDE DEF cap
  <2>6. /\ Kept
        /\ \/ client'.sync = "none" \/ client'.asks
           \/ \E k \in DOMAIN conn'.slots : conn'.slots[k] = HoleFor("reply hole")
        /\ conn'.slots = << >> => ~HoleBehind /\ Settled(client', cap.id, s.items)
    BY <1>1, <2>1, <2>3, <2>4, <2>5, SnapshotShown
  <2>7. SlotsOK'
    <3>1. \A k \in DOMAIN conn'.slots : conn'.slots[k] = conn.slots[k + j] /\ k + j \in DOMAIN conn.slots
      BY <2>5 DEF FilledWith
    <3>2. QED
      BY <2>1, <3>1, SlotsSurvive DEF SlotsOK
  <2>8. ServedOK'
    BY <2>1, <2>4, <2>6 DEF ServedOK
  <2>9. CaptureOK'
    <3>1. Tail(itemQueue) \in Seq(Ops)
      BY <1>0, <1>1, TailIs
    <3>2. ReadOp.captured.id = 0 /\ ReadOp \in Ops
      BY Values
    <3> DEFINE q == Tail(itemQueue)
    <3> HIDE DEF q
    <3>3. q \in Seq(Ops) /\ (itemQueue' = q \/ itemQueue' = Append(q, ReadOp)) /\ \A k \in DOMAIN q : q[k].captured.id = 0
      BY <1>2, <2>1, <3>1 DEF q
    <3>4. \A k \in DOMAIN itemQueue' : itemQueue'[k].captured.id = 0
      BY <3>2, <3>3, Appends
    <3>5. QED
      BY <3>4 DEF CaptureOK
  <2>10. ScreenOK'
    <3>1. SUFFICES ASSUME Synchronous' PROVE ScreenOK'
      BY DEF ScreenOK
    <3>2. /\ conn'.slots = << >> /\ client'.sync = "none" /\ client'.error = "none"
      BY <3>1 DEF Synchronous
    <3>3. ~HoleBehind /\ client'.stream = cap.id /\ client'.items = s.items
      BY <2>6, <3>2 DEF Settled
    <3>4. /\ stream.id = 0 => runStatus \in Terminal
          /\ stream.id # 0 => cap.id = stream.id
          /\ \A i \in Items : IF stream.live[i].sequence >= 0 THEN s.items[i] = stream.live[i]
                                                              ELSE s.items[i].version = row[i]
      BY <1>0, <2>3, <2>5, <3>3, PresentedIsNewest
    <3>5. \A i \in Items : ShownOK(i)'
      BY <1>1, <3>3, <3>4 DEF ShownOK
    <3>6. QED
      BY <1>1, <3>3, <3>4, <3>5 DEF ScreenOK
  <2>11. QED
    BY <2>6, <2>7, <2>8, <2>9, <2>10 DEF Holding
<1>5. QED
  BY <1>3, <1>4

-------------------------------------------------------------------------------
(* Part 8.  The invariant of the module and the theorems.                    *)
LEMMA StreamStep ==
  ASSUME StreamInv, [NextStream]_streamVars
  PROVE  Stepping /\ Holding
<1>1. Stepping
  BY BaseStep DEF Stepping, StreamInv
<1>2. CASE QueueStep
  BY <1>1, <1>2, PersistItemHolds, PublishItemHolds, AppendTextHolds, CaptureStreamHolds, LoadRowsHolds,
     OpenHolds, ClosingHolds, CloseCommitsHolds DEF QueueStep
<1>3. CASE WriterStep
  BY <1>1, <1>3, ClosingHolds, MessageHolds, InputHolds DEF WriterStep
<1>4. CASE LoseConnection \/ Reconnect \/ HandleSubscribe \/ Crash
  BY <1>1, <1>4, DisconnectHolds, ReconnectHolds, SubscribeHolds
<1>5. CASE UNCHANGED streamVars
  BY <1>1, <1>5, StutterHolds
<1>6. QED
  BY <1>1, <1>2, <1>3, <1>4, <1>5 DEF NextStream

LEMMA StreamKept ==
  ASSUME StreamInv, [NextStream]_streamVars
  PROVE  StreamInv'
<1>1. Stepping /\ Holding
  BY StreamStep
<1> DEFINE w == World'
           ends == ShownEnds(client)
<1> HIDE DEF w, ends
<1>2. ClientOK(client', w, ends)
  BY <1>1 DEF Holding, Kept, w, ends
<1>3. ClientOK(client', w, {})
  BY <1>2, ClientForgets
<1>4. ScreenInv'
  BY <1>3 DEF ScreenInv, w
<1>5. QED
  BY <1>1, <1>4 DEF Stepping, Holding, StreamInv

LEMMA StreamInit ==
  ASSUME InitStream
  PROVE  StreamInv
<1>1. Base /\ BaseTypeOK
  BY BaseInit DEF Base
<1>2. /\ conn = [NoConnection EXCEPT !.open = TRUE, !.subscribed = TRUE]
      /\ client = Synchronize(NewClient) /\ itemQueue = << >>
  BY DEF InitStream
<1>3. conn.open /\ conn.subscribed /\ conn.slots = << >>
  BY <1>2 DEF NoConnection
<1>4. /\ NewClient \in Clients /\ NewClient.sync = "none" /\ NewClient.items = NoItems
      /\ NewClient.stream = 0 /\ NewClient.pending = << >>
  <2>1. << >> \in Seq(Updates) /\ NoItems \in Views
    BY Values
  <2>2. QED
    BY <2>1 DEF NewClient, Clients
<1>5. /\ client \in Clients /\ client.sync # "none" /\ client.asks
      /\ client.items = NoItems /\ client.stream = 0 /\ client.pending = << >>
  BY <1>2, <1>4, SynchronizeIs
<1>6. ScreenInv
  <2>1. streams \in Nat /\ World.last = streams
    BY <1>1 DEF BaseTypeOK, World
  <2>2. \A i \in Items : NoItems[i].sequence = -1 /\ NoItems[i].version.status # "completed"
    BY Values DEF Absent
  <2>3. \A i \in Items : Within(client.items[i], i, client.stream, World)
    BY <1>5, <2>2 DEF Within
  <2>4. ViewOK(client.items, client.stream, World, {})
    BY <1>5, <2>1, <2>2, <2>3 DEF ViewOK, Items
  <2>5. QED
    BY <1>5, <2>4 DEF ScreenInv, ClientOK
<1>7. SlotsOK /\ ServedOK /\ ScreenOK /\ CaptureOK
  BY <1>2, <1>3, <1>5 DEF SlotsOK, ServedOK, ScreenOK, Synchronous, CaptureOK
<1>8. QED
  BY <1>1, <1>6, <1>7 DEF StreamInv

(* The inductive invariant: every action of the queues, the writers, the     *)
(* connection and the client keeps it, whatever is lost and restarted.       *)
THEOREM StreamInvariant == SpecStream => []StreamInv
<1>1. InitStream => StreamInv
  BY StreamInit
<1>2. StreamInv /\ [NextStream]_streamVars => StreamInv'
  BY StreamKept
<1>3. QED
  BY <1>1, <1>2, PTL DEF SpecStream

(* The queues, the fence, the stream, the connection and the client keep     *)
(* their types; a delivery queue that is not empty begins with a hole.       *)
THEOREM StreamIsTyped == SpecStream => []StreamTypeOK
<1>1. StreamInv => StreamTypeOK
  BY DEF StreamInv, Base, ScreenInv, ClientOK, StreamTypeOK
<1>2. QED
  BY <1>1, StreamInvariant, PTL

(* Nobody waits for a snapshot that does not come: a synchronisation has its *)
(* request before it or its hole in the delivery queue, and while there is a *)
(* hole exactly one live read is queued (subscriptions.ts:173).              *)
THEOREM ASyncIsServed == SpecStream => []SyncIsServed
<1>1. ASSUME StreamInv PROVE SyncIsServed
  <2>0. BaseTypeOK /\ ConnectionOK /\ ReadsOK /\ ServedOK
    BY <1>1 DEF StreamInv, Base
  <2>1. client.sync # "none" =>
          conn.open /\ (client.asks \/ HoleFor("reply hole") \in ToSet(conn.slots))
    BY <2>0, Zenon DEF ServedOK, ToSet
  <2>2. conn.capturing <=> FirstHole(conn.slots) # 0
    <3>1. /\ conn.slots \in Seq(Updates \cup Holes) /\ Len(conn.slots) \in Nat
          /\ conn.slots = << >> \/ IsHole(conn.slots[1])
      BY <2>0 DEF BaseTypeOK, Connections
    <3> DEFINE n == FirstHole(conn.slots)
    <3>2. /\ n \in 0..Len(conn.slots)
          /\ n = 0 => \A k \in 1..Len(conn.slots) : ~IsHole(conn.slots[k])
      BY <3>1, FirstHoleIs
    <3> HIDE DEF n
    <3>3. n # 0 <=> conn.slots # << >>
      <4>1. CASE conn.slots = << >>
        BY <3>2, <4>1
      <4>2. CASE conn.slots # << >>
        <5>1. 1 \in 1..Len(conn.slots) /\ IsHole(conn.slots[1])
          BY <3>1, <4>2
        <5>2. QED
          BY <3>2, <4>2, <5>1
      <4>3. QED
        BY <4>1, <4>2
    <3>4. QED
      BY <2>0, <3>3 DEF ConnectionOK, n
  <2> DEFINE Reads == { k \in DOMAIN itemQueue : itemQueue[k].kind = "read" /\ ~itemQueue[k].dead }
  <2>3. Cardinality(Reads) = IF conn.capturing THEN 1 ELSE 0
    <3>1. CASE conn.capturing
      <4>1. PICK k \in DOMAIN itemQueue : LiveRead(itemQueue[k])
        BY <2>0, <3>1 DEF ReadsOK
      <4>2. Reads = { k }
        BY <2>0, <4>1 DEF ReadsOK, LiveRead
      <4>3. QED
        BY <3>1, <4>2, FS_Singleton
    <3>2. CASE ~conn.capturing
      <4>1. Reads = { }
        BY <2>0, <3>2 DEF ReadsOK, LiveRead
      <4>2. QED
        BY <3>2, <4>1, FS_EmptySet
    <3>3. QED
      BY <3>1, <3>2
  <2>4. QED
    BY <2>1, <2>2, <2>3 DEF SyncIsServed
<1>2. QED
  BY <1>1, StreamInvariant, PTL

(* A message the screen shows as ended stays as it is, through resets of the *)
(* stream, reconnections and crashes (applyUpsert, acceptSnapshot).          *)
THEOREM AShownEndIsFinal == SpecStream => ShownEndIsFinal
<1>1. ASSUME StreamInv, [NextStream]_streamVars, NEW m \in Messages, Shown(m).status = "completed"
      PROVE  client'.items[m].version = Shown(m)
  <2>1. Stepping /\ Kept
    BY <1>1, StreamStep DEF Holding
  <2>2. m \in ShownEnds(client)
    BY <1>1 DEF ShownEnds, Shown
  <2> DEFINE w == World'
             ends == ShownEnds(client)
  <2> HIDE DEF w, ends
  <2>3. ClientOK(client, w, ends) /\ ClientOK(client', w, ends) /\ m \in ends
    BY <2>1, <2>2, KeptClient DEF Kept, w, ends
  <2>4. client.items[m].version = w.row[m] /\ client'.items[m].version = w.row[m]
    BY <2>3 DEF ClientOK, ViewOK
  <2>5. QED
    BY <2>4 DEF Shown
<1>2. StreamInv /\ [NextStream]_streamVars =>
        [\A m \in Messages : Shown(m).status = "completed" => client'.items[m].version = Shown(m)]_streamVars
  BY <1>1
<1>3. QED
  BY <1>2, StreamInvariant, PTL DEF SpecStream, ShownEndIsFinal

(* When nothing is under way and the user was told of no error, the screen   *)
(* shows every item as the server has it, whatever happened before           *)
(* (useRunState.ts:678, streamProjection.ts:42).                             *)
THEOREM TheScreenAgreesAtRest == SpecStream => []AgreesAtRest
<1>1. ASSUME StreamInv, AtRest, NEW i \in Items
      PROVE  (i \in Inputs /\ fence.closed) \/ Shown(i) = Known(i)
  <2>1. ScreenOK /\ Synchronous
    BY <1>1 DEF StreamInv, AtRest, Synchronous
  <2>2. ShownOK(i)
    BY <2>1 DEF ScreenOK
  <2>3. ~Persisted(i) /\ i \notin moved
    BY <1>1 DEF AtRest, Persisted
  <2>4. QED
    BY <2>2, <2>3 DEF ShownOK, Shown, Known
<1>2. StreamInv => AgreesAtRest
  BY <1>1 DEF AgreesAtRest
<1>3. QED
  BY <1>2, StreamInvariant, PTL
===============================================================================
