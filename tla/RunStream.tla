------------------------------ MODULE RunStream ------------------------------
(***************************************************************************)
(* How the items of one Run get from its writers to the screen:             *)
(*                                                                          *)
(*   apps/server/src/conversation/itemSink.ts         what is written       *)
(*   apps/server/src/store/runStore.ts       the queues, fence and stream   *)
(*   apps/server/src/ws/subscriptions.ts     captures and delivery slots    *)
(*   packages/conversation-presentation/src/streamProjection.ts  the view   *)
(*   apps/desktop/src/renderer/features/runs/useRunState.ts  when it syncs  *)
(*                                                                          *)
(* Two promise chains serialise the work on a run: item writes and          *)
(* snapshots in one, changes of its status in the other.  A step ends where *)
(* the code awaits.  The client handles a message when it is sent: what a   *)
(* broken connection loses is what was not sent yet.  A body is the number  *)
(* of chunks it has; the content of a chunk is fixed by its place.          *)
(***************************************************************************)
EXTENDS Integers, Sequences, FiniteSets, SequencesExt

CONSTANTS
  Messages,     \* items streamed by an executor: start, chunks, end
  Inputs,       \* user inputs, whose item changes with the row of the mailbox
  Chunks,       \* bound: chunks of a message
  Moves,        \* bound: how often the row of an input changes
  MaxSegments,  \* bound: how often the run is started
  MaxEvents,    \* bound: completions by another task, changes of the run's
                \* state, lost connections and crashes of the server, together
  None

ASSUME StreamAssumption == Messages \cap Inputs = {} /\ None \notin Messages \cup Inputs

Items == Messages \cup Inputs

VARIABLES
  row,          \* durable: the latest record of each item
  runStatus,    \* the run's status, saved and in the index
  stream,       \* itemStreams: [id, live]; id 0 is no stream
  streams,      \* streams created so far
  fence,        \* closedItemRuns, pendingItemRunClosures, committedItemRunClosures
  itemQueue,    \* itemMutationTails: the operations not finished, in order
  stateQueue,   \* stateMutationTails, likewise
  exec,         \* the executor and its item sink
  moved,        \* inputs whose changed record is not projected yet
  conn,         \* the WebSocket: subscription, delivery slots, capture running
  client,       \* RunStreamProjection and the synchronisation around it
  count         \* how often each bounded thing has happened

durable == << row, runStatus >>
store == << stream, streams, fence >>
writers == << exec, moved >>
screen == << conn, client >>
streamVars == << durable, store, itemQueue, stateQueue, writers, screen, count >>

Absent == [status |-> "none", body |-> 0]
Unseen == [version |-> Absent, sequence |-> -1]
NoItems == [i \in Items |-> Unseen]
NoStream == [id |-> 0, live |-> NoItems]

Running(k) == [status |-> "running", body |-> k]
Ended(k) == [status |-> "completed", body |-> k]
Moved(k) == [status |-> "input", body |-> k]

Terminal == { "completed", "cancelled" }

-------------------------------------------------------------------------------
(* The client: pure functions of its record and of a message.                *)

(* applyUpsert *)
FollowsUpsert(c, m) ==
  LET seen == c.items[m.item] IN
  /\ m.stream = c.stream
  /\ m.sequence = seen.sequence => m.version = seen.version
  /\ m.sequence > seen.sequence /\ seen.version.status = "completed"
       => m.version.status # "running"

(* applyDelta *)
FollowsDelta(c, m) ==
  LET seen == c.items[m.item] IN
  /\ m.stream = c.stream
  /\ seen.sequence >= 0
  /\ m.sequence = seen.sequence => seen.version.body = m.version.body
  /\ m.sequence > seen.sequence =>
       /\ seen.version.status = "running"
       /\ m.sequence = seen.sequence + 1
       /\ m.version.body = seen.version.body + 1

Follows(c, m) == IF m.kind = "delta" THEN FollowsDelta(c, m) ELSE FollowsUpsert(c, m)

Applied(c, m) ==
  IF Follows(c, m) /\ m.sequence > c.items[m.item].sequence
  THEN [c EXCEPT !.items[m.item] = [version |-> m.version, sequence |-> m.sequence]]
  ELSE c

(* Replaying what was buffered: every update is tried, one that does not     *)
(* follow makes the result inconsistent.                                     *)
Try(r, m) == [ok |-> r.ok /\ Follows(r.view, m), view |-> Applied(r.view, m)]

Replayed(c, consistent) ==
  LET after[k \in 0..Len(c.pending)] ==
        IF k = 0
        THEN [ok |-> consistent, view |-> [c EXCEPT !.ready = TRUE, !.pending = << >>]]
        ELSE Try(after[k - 1], c.pending[k])
  IN  after[Len(c.pending)]

(* acceptSnapshot.  In the same stream the client keeps what it has at a     *)
(* cursor as high as the snapshot's; an equal cursor with another version is *)
(* an inconsistency.                                                         *)
KeepsItsOwn(c, s, i) ==
  /\ s.stream = c.stream
  /\ c.items[i].sequence >= 0
  /\ s.items[i].sequence <= c.items[i].sequence

Accepted(c, s) ==
  LET consistent ==
        s.stream = c.stream =>
          \A i \in Items :
            c.items[i].sequence >= 0 /\ s.items[i].sequence = c.items[i].sequence
              => s.items[i].version = c.items[i].version
      view == [i \in Items |-> IF KeepsItsOwn(c, s, i) THEN c.items[i] ELSE s.items[i]]
  IN  Replayed([c EXCEPT !.stream = s.stream, !.items = view], consistent)

(* synchronize: one at a time; the buffer starts empty.                      *)
Synchronize(c) ==
  IF c.sync = "none"
  THEN [c EXCEPT !.sync = "first", !.asks = TRUE, !.ready = FALSE, !.pending = << >>]
  ELSE c

(* The catch of a synchronisation: abortSnapshot, and an error on the screen. *)
Aborted(c, why) == [Replayed(c, FALSE).view EXCEPT !.sync = "none", !.asks = FALSE, !.error = why]

ReceivesReply(c, s) ==
  LET r == Accepted(c, s) IN
  IF r.ok THEN [r.view EXCEPT !.sync = "none", !.error = "none"]
  ELSE IF c.sync = "first"
  THEN [r.view EXCEPT !.sync = "second", !.asks = TRUE, !.ready = FALSE]
  ELSE Aborted(r.view, "inconsistent")

ReceivesPush(c, s) ==
  LET r == Accepted(c, s) IN
  IF r.ok THEN [r.view EXCEPT !.error = "none"] ELSE Synchronize(r.view)

ReceivesUpdate(c, m) ==
  IF ~c.ready THEN [c EXCEPT !.pending = Append(@, m)]
  ELSE IF Follows(c, m) THEN Applied(c, m)
  ELSE Synchronize(c)

Receives(c, m) ==
  CASE m.kind = "reply" -> ReceivesReply(c, m)
    [] m.kind = "push" -> ReceivesPush(c, m)
    [] OTHER -> ReceivesUpdate(c, m)

Delivered(c, messages) ==
  LET after[k \in 0..Len(messages)] ==
        IF k = 0 THEN c ELSE Receives(after[k - 1], messages[k])
  IN  after[Len(messages)]

-------------------------------------------------------------------------------
(* The connection.  A slot is a message, or a hole kept for a snapshot.      *)

IsHole(m) == m.kind \in { "push hole", "reply hole" }
HoleFor(kind) == [kind |-> kind]

FirstHole(slots) == SelectInSeq(slots, IsHole)
ReadyPrefix(slots) == IF FirstHole(slots) = 0 THEN slots ELSE SubSeq(slots, 1, FirstHole(slots) - 1)
Rest(slots) == SubSeq(slots, Len(ReadyPrefix(slots)) + 1, Len(slots))

(* drainRunDelivery: sent up to the first hole. *)
Drain(slots, capturing) ==
  /\ conn' = [conn EXCEPT !.slots = Rest(slots), !.capturing = capturing]
  /\ client' = Delivered(client, ReadyPrefix(slots))

(* sendRunWs of one update to the subscriber. *)
Publish(m) ==
  IF conn.subscribed THEN Drain(Append(conn.slots, m), conn.capturing)
                     ELSE UNCHANGED screen

ReadOp == [kind |-> "read", item |-> None, version |-> Absent, captured |-> NoStream, dead |-> FALSE]
WriteOp(kind, i, v) == [kind |-> kind, item |-> i, version |-> v, captured |-> NoStream, dead |-> FALSE]

(* reserveRunCapture and start: a hole in the delivery queue, and the read   *)
(* at once unless an earlier capture of this connection is still running.    *)
Reserve(hole, queue) ==
  /\ conn' = [conn EXCEPT !.slots = Append(@, HoleFor(hole)), !.capturing = TRUE,
                          !.subscribed = TRUE]
  /\ itemQueue' = IF conn.capturing THEN queue ELSE Append(queue, ReadOp)

(* runBus.publish: every subscriber sends itself a snapshot. *)
PublishRun ==
  IF conn.subscribed THEN Reserve("push hole", itemQueue) /\ UNCHANGED client
                     ELSE UNCHANGED << screen, itemQueue >>

-------------------------------------------------------------------------------
(* The item queue.  Its head is the operation under way. *)

Current == itemQueue[1]
Pop(queue) == Tail(queue)

(* A close that waits for the tail waits for the operations it found there.  *)
HeadDone ==
  stateQueue' = IF stateQueue # << >> /\ stateQueue[1].stage = "draining" /\ stateQueue[1].awaits > 0
                THEN [stateQueue EXCEPT ![1].awaits = @ - 1]
                ELSE stateQueue

(* getOrCreateActiveItemStream *)
ActiveStream == IF stream.id # 0 THEN stream ELSE [id |-> streams + 1, live |-> NoItems]
CreatedCount == IF stream.id # 0 THEN streams ELSE streams + 1

(* appendConversationItem: a message is written at its start and at its end, *)
(* into the stream found before the write.                                   *)
PersistItem ==
  /\ itemQueue # << >> /\ Current.kind \in { "start", "end" } /\ Current.captured.id = 0
  /\ row' = [row EXCEPT ![Current.item] = Current.version]
  /\ stream' = ActiveStream /\ streams' = CreatedCount
  /\ itemQueue' = [itemQueue EXCEPT ![1].captured = stream']
  /\ UNCHANGED << runStatus, fence, stateQueue, writers, screen, count >>

WriterDone(op) ==
  IF op.kind = "project"
  THEN moved' = moved \ {op.item} /\ UNCHANGED exec
  ELSE exec' = [exec EXCEPT !.writing = FALSE] /\ UNCHANGED moved

PublishableUnsaved == Current.kind \in { "start", "end", "project" }
Publishable ==
  \/ Current.kind = "project"
  \/ Current.kind \in { "start", "end" } /\ Current.captured.id # 0

(* The rest of applyItemUpdate: into that stream, still the run's or not, and *)
(* to the subscribers.  A projection writes no row and looks for the stream  *)
(* only now.                                                                 *)
StreamOfItem == IF Current.captured.id # 0 THEN Current.captured ELSE ActiveStream
PublishItem ==
  /\ itemQueue # << >> /\ Publishable
  /\ LET to == StreamOfItem
         sequence == to.live[Current.item].sequence + 1
         changed == [to EXCEPT !.live[Current.item] = [version |-> Current.version, sequence |-> sequence]]
     IN  /\ IF Current.captured.id # 0
            THEN stream' = (IF stream.id = to.id THEN changed ELSE stream) /\ UNCHANGED streams
            ELSE stream' = changed /\ streams' = CreatedCount
         /\ Publish([kind |-> "item", stream |-> to.id, item |-> Current.item,
                     version |-> Current.version, sequence |-> sequence])
  /\ itemQueue' = Pop(itemQueue)
  /\ HeadDone /\ WriterDone(Current)
  /\ UNCHANGED << durable, fence, count >>

(* appendItemBody: not persisted. *)
AppendText ==
  /\ itemQueue # << >> /\ Current.kind = "delta"
  /\ LET sequence == stream.live[Current.item].sequence + 1
     IN  /\ stream' = [stream EXCEPT !.live[Current.item] =
                         [version |-> Current.version, sequence |-> sequence]]
         /\ Publish([kind |-> "delta", stream |-> stream.id, item |-> Current.item,
                     version |-> Current.version, sequence |-> sequence])
  /\ itemQueue' = Pop(itemQueue)
  /\ HeadDone /\ WriterDone(Current)
  /\ UNCHANGED << durable, streams, fence, count >>

(* captureItemStream, at the turn of the read: the live stream, a new one    *)
(* for a run that may go on, or a name for the saved state of one that ended. *)
CaptureStream ==
  /\ itemQueue # << >> /\ Current.kind = "read" /\ Current.captured.id = 0
  /\ IF stream.id = 0 /\ runStatus \in Terminal
     THEN /\ itemQueue' = [itemQueue EXCEPT ![1].captured.id = -count.closes]
          /\ UNCHANGED << stream, streams >>
     ELSE /\ stream' = ActiveStream /\ streams' = CreatedCount
          /\ itemQueue' = [itemQueue EXCEPT ![1].captured = stream']
  /\ UNCHANGED << durable, fence, stateQueue, writers, screen, count >>

Presented(captured) ==
  [i \in Items |->
     IF captured.live[i].sequence >= 0 THEN captured.live[i]
     ELSE IF row[i] # Absent THEN [version |-> row[i], sequence |-> 0] ELSE Unseen]

FillWithoutNext(message) ==
  LET slots == [conn.slots EXCEPT ![FirstHole(conn.slots)] = message]
  IN  Drain(slots, FirstHole(slots) # 0) /\ itemQueue' = Pop(itemQueue)

(* settleRunCapture: the hole is filled and the next capture starts.         *)
Fill(message) ==
  LET hole == FirstHole(conn.slots)
      slots == [conn.slots EXCEPT ![hole] = message]
      more == FirstHole(slots) # 0
  IN  /\ Drain(slots, more)
      /\ itemQueue' = IF more THEN Append(Pop(itemQueue), ReadOp) ELSE Pop(itemQueue)

MessageKind(hole) == IF hole.kind = "reply hole" THEN "reply" ELSE "push"

LoadRows ==
  /\ itemQueue # << >> /\ Current.kind = "read" /\ Current.captured.id # 0
  /\ IF Current.dead
     THEN itemQueue' = Pop(itemQueue) /\ UNCHANGED screen
     ELSE Fill([kind |-> MessageKind(conn.slots[FirstHole(conn.slots)]),
                stream |-> Current.captured.id, items |-> Presented(Current.captured)])
  /\ HeadDone
  /\ UNCHANGED << durable, store, writers, count >>

-------------------------------------------------------------------------------
(* The state queue. *)

StateHead == stateQueue[1]
StateOp(op, to, by) == [op |-> op, to |-> to, by |-> by, stage |-> "queued", awaits |-> 0]

Refreshed(f) == [f EXCEPT !.closed = f.committed \/ f.pending > 0]

(* updateStatus(running) *)
Open ==
  /\ stateQueue # << >> /\ StateHead.op = "open"
  /\ runStatus' = "running"
  /\ fence' = Refreshed([fence EXCEPT !.committed = FALSE])
  /\ PublishRun
  /\ stateQueue' = Tail(stateQueue)
  /\ exec' = [exec EXCEPT !.pc = "writing"]
  /\ UNCHANGED << row, stream, streams, moved, count >>

CloseAtOnce ==
  /\ stateQueue # << >> /\ StateHead.op = "close" /\ StateHead.stage = "queued"
  /\ fence' = [fence EXCEPT !.closed = TRUE]
  /\ stateQueue' = [stateQueue EXCEPT ![1].stage = "draining"]
  /\ UNCHANGED << durable, stream, streams, itemQueue, writers, screen, count >>

(* complete, in three steps: close again and await the item tail; save and   *)
(* install the run, drop the stream, publish; commit the fence.              *)
CloseBegins ==
  /\ stateQueue # << >> /\ StateHead.op = "close" /\ StateHead.stage = "queued"
  /\ fence' = [fence EXCEPT !.closed = TRUE]
  /\ stateQueue' = [stateQueue EXCEPT ![1].stage = "draining", ![1].awaits = Len(itemQueue)]
  /\ UNCHANGED << durable, stream, streams, itemQueue, writers, screen, count >>

CloseInstalls ==
  /\ stateQueue # << >> /\ StateHead.op = "close"
  /\ StateHead.stage = "draining" /\ StateHead.awaits = 0
  /\ runStatus' = StateHead.to
  /\ stream' = NoStream
  /\ PublishRun
  /\ stateQueue' = [stateQueue EXCEPT ![1].stage = "installed"]
  /\ count' = [count EXCEPT !.closes = @ + 1]
  /\ UNCHANGED << row, streams, fence, writers >>

CloseCommits ==
  /\ stateQueue # << >> /\ StateHead.op = "close" /\ StateHead.stage = "installed"
  /\ fence' = Refreshed([fence EXCEPT !.committed = TRUE, !.pending = @ - 1])
  /\ stateQueue' = Tail(stateQueue)
  /\ exec' = IF StateHead.by = "executor" THEN [exec EXCEPT !.pc = "idle"] ELSE exec
  /\ UNCHANGED << durable, stream, streams, itemQueue, moved, screen, count >>

(* mutateState: a change of the run's state that leaves its status alone, at *)
(* its turn in the state queue.  Steps of the executor and of others make it. *)
MutateState ==
  /\ stateQueue # << >> => StateHead.stage = "queued"
  /\ count.events < MaxEvents
  /\ PublishRun
  /\ count' = [count EXCEPT !.events = @ + 1]
  /\ UNCHANGED << durable, store, stateQueue, writers >>

-------------------------------------------------------------------------------
(* The writers. *)

Begin ==
  /\ exec.pc = "idle" /\ runStatus \in { "queued", "waiting", "interrupted" }
  /\ count.segments < MaxSegments
  /\ exec' = [exec EXCEPT !.pc = "opening", !.message = None, !.writing = FALSE]
  /\ stateQueue' = Append(stateQueue, StateOp("open", "running", "executor"))
  /\ count' = [count EXCEPT !.segments = @ + 1]
  /\ UNCHANGED << durable, store, itemQueue, moved, screen >>

(* appendItem: refused while the run is closed.  That fails the sink for     *)
(* good: flush throws the first failure again, also in TurnFinalizer.fail    *)
(* before it completes the run, so the executor leaves without completing.   *)
Write(kind, m, version, local) ==
  /\ exec.pc = "writing" /\ ~exec.writing
  /\ IF fence.closed
     THEN exec' = [exec EXCEPT !.pc = "idle"] /\ UNCHANGED itemQueue
     ELSE /\ exec' = [local EXCEPT !.writing = TRUE]
          /\ itemQueue' = Append(itemQueue, WriteOp(kind, m, version))
  /\ UNCHANGED << durable, store, stateQueue, moved, screen, count >>

StartMessage(m) ==
  /\ exec.message = None /\ row[m] = Absent
  /\ Write("start", m, Running(0), [exec EXCEPT !.message = m, !.body = 0])

AddChunk ==
  /\ exec.message # None /\ exec.body < Chunks
  /\ Write("delta", exec.message, Running(exec.body + 1), [exec EXCEPT !.body = @ + 1])

EndMessage ==
  /\ exec.message # None
  /\ Write("end", exec.message, Ended(exec.body), [exec EXCEPT !.message = None])

(* beginItemRunClosure, at the call. *)
Complete(to, by) ==
  /\ fence' = [fence EXCEPT !.closed = TRUE, !.pending = @ + 1]
  /\ stateQueue' = Append(stateQueue, StateOp("close", to, by))

(* TurnFinalizer: the sink is flushed first.  "waiting" waits for approval.  *)
Finish(to) ==
  /\ exec.pc = "writing" /\ ~exec.writing /\ exec.message = None
  /\ Complete(to, "executor")
  /\ exec' = [exec EXCEPT !.pc = "closing"]
  /\ UNCHANGED << durable, stream, streams, itemQueue, moved, screen, count >>

(* cancelAutomation completes the run its automation is attached to, whoever *)
(* is writing to it.                                                         *)
CancelAutomation ==
  /\ count.events < MaxEvents /\ runStatus \notin Terminal
  /\ Complete("cancelled", "cancel")
  /\ count' = [count EXCEPT !.events = @ + 1]
  /\ UNCHANGED << durable, stream, streams, itemQueue, writers, screen >>

(* A transaction of the mailbox changes the record of an input; its          *)
(* projection follows in another step and waits in the item queue.           *)
MoveInput(u) ==
  /\ exec.pc = "writing" /\ u \notin moved /\ row[u].body < Moves
  /\ row' = [row EXCEPT ![u] = Moved(row[u].body + 1)]
  /\ moved' = moved \cup {u}
  /\ UNCHANGED << runStatus, store, itemQueue, stateQueue, exec, screen, count >>

(* projectPersistedItems *)
ProjectInput(u) ==
  /\ u \in moved /\ \A k \in DOMAIN itemQueue : itemQueue[k].item # u
  /\ IF fence.closed
     THEN moved' = moved \ {u} /\ UNCHANGED itemQueue
     ELSE itemQueue' = Append(itemQueue, WriteOp("project", u, row[u])) /\ UNCHANGED moved
  /\ UNCHANGED << durable, store, stateQueue, exec, screen, count >>

-------------------------------------------------------------------------------
(* Connection and process. *)

NoConnection == [open |-> FALSE, subscribed |-> FALSE, slots |-> << >>, capturing |-> FALSE]

Disconnected == IF client.sync = "none" THEN client ELSE Aborted(client, "lost")

(* The socket closes, or the server terminates it because a limit is passed  *)
(* or the capture of a push fails: queues and subscription go with it.       *)
LoseConnection ==
  /\ conn.open /\ count.events < MaxEvents
  /\ conn' = NoConnection
  /\ itemQueue' = [k \in DOMAIN itemQueue |->
                     [itemQueue[k] EXCEPT !.dead = @ \/ itemQueue[k].kind = "read"]]
  /\ client' = Disconnected
  /\ count' = [count EXCEPT !.events = @ + 1]
  /\ UNCHANGED << durable, store, stateQueue, writers >>

ReconnectOnly ==
  /\ ~conn.open
  /\ conn' = [NoConnection EXCEPT !.open = TRUE]
  /\ UNCHANGED << client, durable, store, itemQueue, stateQueue, writers, count >>

(* The next command opens a socket, and 'connected' synchronises.            *)
Reconnect ==
  /\ ~conn.open
  /\ conn' = [NoConnection EXCEPT !.open = TRUE]
  /\ client' = Synchronize(client)
  /\ UNCHANGED << durable, store, itemQueue, stateQueue, writers, count >>

(* run:subscribe *)
HandleSubscribe ==
  /\ conn.open /\ client.asks
  /\ Reserve("reply hole", itemQueue)
  /\ client' = [client EXCEPT !.asks = FALSE]
  /\ UNCHANGED << durable, store, stateQueue, writers, count >>

Idle == [pc |-> "idle", message |-> None, body |-> 0, writing |-> FALSE]
OpenFence == [closed |-> FALSE, pending |-> 0, committed |-> FALSE]

Crash ==
  /\ count.events < MaxEvents
  /\ runStatus' = IF runStatus \in { "queued", "running" } THEN "interrupted" ELSE runStatus
  /\ stream' = NoStream /\ fence' = OpenFence
  /\ itemQueue' = << >> /\ stateQueue' = << >>
  /\ exec' = Idle /\ moved' = {}
  /\ conn' = NoConnection /\ client' = Disconnected
  /\ count' = [count EXCEPT !.events = @ + 1]
  /\ UNCHANGED << row, streams >>

-------------------------------------------------------------------------------
NewClient == [stream |-> 0, items |-> NoItems, ready |-> FALSE, pending |-> << >>,
              sync |-> "none", asks |-> FALSE, error |-> "none"]

(* run:start subscribes its socket before the run is launched; the screen    *)
(* synchronises when the run is selected.                                    *)
InitStream ==
  /\ row = [i \in Items |-> Absent] /\ runStatus = "queued"
  /\ stream = NoStream /\ streams = 0 /\ fence = OpenFence
  /\ itemQueue = << >> /\ stateQueue = << >>
  /\ exec = Idle /\ moved = {}
  /\ conn = [NoConnection EXCEPT !.open = TRUE, !.subscribed = TRUE]
  /\ client = Synchronize(NewClient)
  /\ count = [segments |-> 0, events |-> 0, closes |-> 0]

QueueStep ==
  \/ PersistItem \/ PublishItem \/ AppendText \/ CaptureStream \/ LoadRows
  \/ Open \/ CloseBegins \/ CloseInstalls \/ CloseCommits \/ MutateState

WriterStep ==
  \/ Begin \/ AddChunk \/ EndMessage \/ CancelAutomation
  \/ \E m \in Messages : StartMessage(m)
  \/ \E to \in { "completed", "waiting" } : Finish(to)
  \/ \E u \in Inputs : MoveInput(u) \/ ProjectInput(u)

NextStream ==
  \/ QueueStep \/ WriterStep
  \/ LoseConnection \/ Reconnect \/ HandleSubscribe \/ Crash

SpecStream == InitStream /\ [][NextStream]_streamVars

-------------------------------------------------------------------------------
(* Properties. *)

Shown(i) == client.items[i].version
Known(i) == IF stream.live[i].sequence >= 0 THEN stream.live[i].version ELSE row[i]

AtRest ==
  /\ conn.open /\ conn.slots = << >>
  /\ itemQueue = << >> /\ stateQueue = << >> /\ moved = {}
  /\ client.ready /\ client.sync = "none" /\ client.error = "none"

(* Whatever was lost, closed, crashed or resumed in between: when nothing is *)
(* under way and the user was told of no error, the screen shows every item  *)
(* as the server has it (useRunState.ts:678, streamProjection.ts:42).  The   *)
(* inputs of a closed run are left out: their projection is refused.         *)
AgreesAtRest ==
  AtRest => \A i \in Items : (i \in Inputs /\ fence.closed) \/ Shown(i) = Known(i)

(* Once a run is closed no item is written until it is set to running again: *)
(* neither a write under way nor one behind an earlier reopening slips past  *)
(* the fence (runStore.ts:424).                                              *)
ClosedRunRests ==
  [][fence.committed => \A m \in Messages : row'[m] = row[m] /\ stream'.live[m] = stream.live[m]]_streamVars

(* A message shown as ended stays as it is, through resets, reconnections    *)
(* and crashes: what is published has been saved.                            *)
ShownEndIsFinal ==
  [][\A m \in Messages : Shown(m).status = "completed" => client'.items[m].version = Shown(m)]_streamVars

(* Nobody waits for a snapshot that does not come: a synchronisation under   *)
(* way has its request before it or its hole in the delivery queue, and while *)
(* there is a hole exactly one read that will fill it is queued, whatever was *)
(* lost and reserved again meanwhile (subscriptions.ts:173).                 *)
SyncIsServed ==
  /\ client.sync # "none" =>
       conn.open /\ (client.asks \/ HoleFor("reply hole") \in ToSet(conn.slots))
  /\ conn.capturing <=> FirstHole(conn.slots) # 0
  /\ Cardinality({ k \in DOMAIN itemQueue : itemQueue[k].kind = "read" /\ ~itemQueue[k].dead })
       = IF conn.capturing THEN 1 ELSE 0
===============================================================================
