--------------------------- MODULE ObjectPublication ---------------------------
(***************************************************************************)
(* The content-addressed object store shared by every Run and Thread, and   *)
(* the lock between "put an object, commit the row that references it" and  *)
(* "read all references, delete every other object":                        *)
(*                                                                          *)
(*   apps/server/src/store/objectPublicationCoordinator.ts   the lock       *)
(*   apps/server/src/store/threadStore.ts                    purge          *)
(*   apps/server/src/store/conversationObjectGarbageCollector.ts            *)
(*   apps/server/src/store/runStore.ts, fileLifecycleService.ts  publishers *)
(*   apps/server/src/agent-runtime/input/ModelRequestJournal.ts             *)
(*                                                                          *)
(* Publishers and purges are tasks of one process; a step ends where a task *)
(* awaits.  The lock's state dies with the process, the objects and the     *)
(* rows do not.                                                             *)
(***************************************************************************)
EXTENDS Naturals, Sequences, FiniteSets

CONSTANTS
  Publishers,  \* tasks that call publish
  Purges,      \* tasks that purge a thread, and collect
  Objects,     \* content hashes
  None,
  MaxPurges    \* bound of the model: how many purges are asked for

Tasks == Publishers \cup Purges

ASSUME TasksAreDistinct == Publishers \cap Purges = {}
ASSUME PublishersAreFinite == IsFiniteSet(Publishers)
ASSUME NoneIsNoObject == None \notin Objects
ASSUME MaxPurgesIsNatural == MaxPurges \in Nat

VARIABLES
  (* ObjectPublicationCoordinator *)
  activePublishers,
  collecting,
  waitingPublishers,  \* all are woken together, so their order is left out
  waitingCollectors,
  (* durable *)
  disk,               \* objects in the store
  references,         \* the hashes in the rows that publish committed
  (* the tasks *)
  pc,
  object,             \* the object a publisher puts
  summary,            \* a summary in its model request, put before, or None
  seen,               \* the references the collection has read
  purges

lock == << activePublishers, collecting, waitingPublishers, waitingCollectors >>
data == << object, summary, seen >>
objectVars == << lock, disk, references, pc, data, purges >>

Step(t, p) == pc' = [pc EXCEPT ![t] = p]

InitObjects ==
  /\ activePublishers = 0
  /\ collecting = FALSE
  /\ waitingPublishers = {}
  /\ waitingCollectors = << >>
  /\ disk = {} /\ references = {}
  /\ pc = [t \in Tasks |-> "idle"]
  /\ object = [t \in Tasks |-> None]
  /\ summary = [t \in Tasks |-> None]
  /\ seen = {}
  /\ purges = 0

-------------------------------------------------------------------------------
(* publish *)

(* ModelRequestJournal.commit puts the summaries of its input before the     *)
(* store enters publish.                                                     *)
PutSummary(p, h) ==
  /\ pc[p] = "idle"
  /\ disk' = disk \cup {h}
  /\ summary' = [summary EXCEPT ![p] = h]
  /\ Step(p, "opening")
  /\ UNCHANGED << lock, references, object, seen, purges >>

MayPublishWhileNobodyCollects == ~collecting
MayPublishUnlessCollectorsWait == waitingCollectors = << >>
MayPublish == ~collecting /\ waitingCollectors = << >>

AcquirePublisher(p, h) ==
  /\ pc[p] \in { "idle", "opening" }
  /\ object' = [object EXCEPT ![p] = h]
  /\ IF MayPublish
     THEN /\ activePublishers' = activePublishers + 1
          /\ Step(p, "putting")
          /\ UNCHANGED waitingPublishers
     ELSE /\ waitingPublishers' = waitingPublishers \cup {p}
          /\ Step(p, "waiting")
          /\ UNCHANGED activePublishers
  /\ UNCHANGED << collecting, waitingCollectors, disk, references, summary, seen, purges >>

(* ContentAddressedObjectStore.put: the object is there already, or written. *)
PutObject(p) ==
  /\ pc[p] = "putting"
  /\ disk' = disk \cup { object[p] }
  /\ Step(p, "committing")
  /\ UNCHANGED << lock, references, data, purges >>

(* The row may replace the one of an older object: a run's checkpoint, a     *)
(* thread's earlier file of the same name.                                   *)
CommitReference(p) ==
  /\ pc[p] = "committing"
  /\ \E replaced \in SUBSET references :
       references' = (references \ replaced) \cup { object[p] }
  /\ Step(p, "releasing")
  /\ UNCHANGED << lock, disk, data, purges >>

(* The put or the transaction throws; finally releases. *)
ThrowInPublish(p) ==
  /\ pc[p] \in { "putting", "committing" }
  /\ Step(p, "releasing")
  /\ UNCHANGED << lock, disk, references, data, purges >>

WakesCollector == activePublishers = 1 /\ ~collecting /\ waitingCollectors # << >>

ReleasePublisher(p) ==
  /\ pc[p] = "releasing"
  /\ activePublishers' = activePublishers - 1
  /\ IF WakesCollector
     THEN /\ collecting' = TRUE
          /\ waitingCollectors' = Tail(waitingCollectors)
          /\ pc' = [pc EXCEPT ![p] = "idle", ![Head(waitingCollectors)] = "reading"]
     ELSE /\ Step(p, "idle")
          /\ UNCHANGED << collecting, waitingCollectors >>
  /\ summary' = [summary EXCEPT ![p] = None]
  /\ UNCHANGED << waitingPublishers, disk, references, object, seen, purges >>

-------------------------------------------------------------------------------
(* ThreadStore.purge: the rows first, then the collection. *)

PurgeRows(c) ==
  /\ pc[c] = "idle"
  /\ purges < MaxPurges
  /\ purges' = purges + 1
  /\ \E gone \in SUBSET references : references' = references \ gone
  /\ Step(c, "purged")
  /\ UNCHANGED << lock, disk, data >>

AcquireCollector(c) ==
  /\ pc[c] = "purged"
  /\ IF ~collecting /\ activePublishers = 0
     THEN /\ collecting' = TRUE
          /\ Step(c, "reading")
          /\ UNCHANGED waitingCollectors
     ELSE /\ waitingCollectors' = Append(waitingCollectors, c)
          /\ Step(c, "waiting")
          /\ UNCHANGED collecting
  /\ UNCHANGED << activePublishers, waitingPublishers, disk, references, data, purges >>

(* listReferencedObjectHashes: a record's input object, not its summaries. *)
ReadReferences(c) ==
  /\ pc[c] = "reading"
  /\ seen' = references
  /\ Step(c, "sweeping")
  /\ UNCHANGED << lock, disk, references, object, summary, purges >>

RemoveObject(c, h) ==
  /\ pc[c] = "sweeping"
  /\ h \in disk \ seen
  /\ disk' = disk \ {h}
  /\ UNCHANGED << lock, references, pc, data, purges >>

(* The sweep is through the files it listed (an object put meanwhile is not  *)
(* among them), or a read or a removal throws; finally releases.             *)
EndCollection(c) ==
  /\ pc[c] \in { "reading", "sweeping" }
  /\ Step(c, "releasing")
  /\ UNCHANGED << lock, disk, references, data, purges >>

WokenPublishers == Cardinality(waitingPublishers)

ReleaseCollector(c) ==
  /\ pc[c] = "releasing"
  /\ IF waitingCollectors # << >>
     THEN /\ waitingCollectors' = Tail(waitingCollectors)
          /\ pc' = [pc EXCEPT ![c] = "idle", ![Head(waitingCollectors)] = "reading"]
          /\ UNCHANGED << activePublishers, collecting, waitingPublishers >>
     ELSE /\ collecting' = FALSE
          /\ activePublishers' = activePublishers + WokenPublishers
          /\ waitingPublishers' = {}
          /\ pc' = [t \in Tasks |-> IF t = c THEN "idle"
                                    ELSE IF t \in waitingPublishers THEN "putting" ELSE pc[t]]
          /\ UNCHANGED waitingCollectors
  /\ UNCHANGED << disk, references, data, purges >>

-------------------------------------------------------------------------------
Crash ==
  /\ activePublishers' = 0
  /\ collecting' = FALSE
  /\ waitingPublishers' = {}
  /\ waitingCollectors' = << >>
  /\ pc' = [t \in Tasks |-> "idle"]
  /\ object' = [t \in Tasks |-> None]
  /\ summary' = [t \in Tasks |-> None]
  /\ seen' = {}
  /\ UNCHANGED << disk, references, purges >>

PublisherStep(p) ==
  \/ PutObject(p) \/ CommitReference(p) \/ ThrowInPublish(p) \/ ReleasePublisher(p)
PurgeStep(c) ==
  \/ AcquireCollector(c) \/ ReadReferences(c) \/ EndCollection(c) \/ ReleaseCollector(c)

NextObjects ==
  \/ \E p \in Publishers :
       \/ \E h \in Objects : PutSummary(p, h) \/ AcquirePublisher(p, h)
       \/ PublisherStep(p)
  \/ \E c \in Purges :
       \/ PurgeRows(c)
       \/ PurgeStep(c)
       \/ \E h \in Objects : RemoveObject(c, h)
  \/ Crash

SpecObjects == InitObjects /\ [][NextObjects]_objectVars

(* A put, a transaction and a collection end, in a result or a throw, and    *)
(* the event loop then runs the task that awaited it.  Nobody owes a call.   *)
FairObjects ==
  /\ SpecObjects
  /\ \A p \in Publishers : WF_objectVars(PublisherStep(p))
  /\ \A c \in Purges : WF_objectVars(PurgeStep(c))
-------------------------------------------------------------------------------
(* Properties. *)

PublisherPcs == { "idle", "opening", "waiting", "putting", "committing", "releasing" }
PurgePcs == { "idle", "purged", "waiting", "reading", "sweeping", "releasing" }

ObjectsTypeOK ==
  /\ activePublishers \in Nat
  /\ collecting \in BOOLEAN
  /\ waitingPublishers \subseteq Publishers
  /\ waitingCollectors \in Seq(Purges)
  /\ disk \subseteq Objects /\ references \subseteq Objects /\ seen \subseteq Objects
  /\ pc \in [Tasks -> PublisherPcs \cup PurgePcs]
  /\ \A p \in Publishers : pc[p] \in PublisherPcs
  /\ \A c \in Purges : pc[c] \in PurgePcs
  /\ object \in [Tasks -> Objects \cup {None}]
  /\ \A p \in Publishers : pc[p] \in { "waiting", "putting", "committing" } => object[p] # None
  /\ summary \in [Tasks -> Objects \cup {None}]
  /\ purges \in 0..MaxPurges

Publishing == { p \in Publishers : pc[p] \in { "putting", "committing", "releasing" } }
Collecting == { c \in Purges : pc[c] \in { "reading", "sweeping", "releasing" } }

CounterIsExact == activePublishers = Cardinality(Publishing)
OneSideInside ==
  /\ collecting <=> Collecting # {}
  /\ \A c, d \in Collecting : c = d
  /\ Collecting = {} \/ Publishing = {}
QueuesAreExact ==
  /\ waitingPublishers = { p \in Publishers : pc[p] = "waiting" }
  /\ \A c \in Purges :
       pc[c] = "waiting" <=> \E n \in DOMAIN waitingCollectors : waitingCollectors[n] = c
  /\ \A m, n \in DOMAIN waitingCollectors :
       waitingCollectors[m] = waitingCollectors[n] => m = n

(* The lock says who is inside: the counter is the number of publishers in   *)
(* their section, collecting is set for the one collector in its own, and    *)
(* never are both; each task that waits is queued exactly once.              *)
LockIsExclusive == CounterIsExact /\ OneSideInside /\ QueuesAreExact

(* A row that publish committed never names a deleted object, whatever is    *)
(* purged, replaced or collected around it and wherever the process dies;    *)
(* nor does a row it is about to commit.                                     *)
PublishedObjectsExist ==
  /\ references \subseteq disk
  /\ \A p \in Publishers : pc[p] = "committing" => object[p] \in disk

(* No wake-up is lost: while a task waits for the lock, some task is inside, *)
(* whose release hands it over.                                              *)
WaitersHaveAHolder ==
  /\ waitingCollectors # << >> => activePublishers > 0 \/ collecting
  /\ waitingPublishers # {} => collecting \/ waitingCollectors # << >>

(* Every task that waits for the lock gets it: publishers that keep coming   *)
(* never starve a collection ("so that checkpoints cannot starve GC",        *)
(* objectPublicationCoordinator.ts:34), and publishers get their turn when   *)
(* purges stop coming.                                                       *)
WaitersAreServed == \A t \in Publishers \cup Purges : pc[t] = "waiting" ~> pc[t] # "waiting"

-------------------------------------------------------------------------------
(* Statements of the repository that the code does not keep. *)

(* "Every put of an object up to the commit of its reference shares this     *)
(* critical section with the collection, so that GC does not delete a new    *)
(* object whose reference is not committed yet"                              *)
(* (objectPublicationCoordinator.ts:5-6): what a model request is about to   *)
(* reference is still there, its summaries included.                         *)
NewObjectsAreNotCollected ==
  \A p \in Publishers : summary[p] # None => summary[p] \in disk
===============================================================================
