------------------------ MODULE ObjectPublicationProofs ------------------------
(***************************************************************************)
(* Theorems about the object store and its lock, for any finite set of      *)
(* publishers and any purges and objects.  Mutual exclusion needs the       *)
(* counter exact, since it decides who wakes the next collector, and the    *)
(* counter stays exact because woken publishers are counted from a queue    *)
(* that holds each waiting one once: the parts are inductive together.      *)
(***************************************************************************)
EXTENDS ObjectPublication, FiniteSetTheorems, SequenceTheorems, TLAPS

ObjectsStep == [NextObjects]_objectVars

-------------------------------------------------------------------------------
(* The lock and the tasks stay in their types: the counter never goes below  *)
(* zero only because of CounterIsExact, so it is proved with the rest.       *)
TypesButTheCounter ==
  /\ collecting \in BOOLEAN
  /\ waitingPublishers \subseteq Publishers
  /\ waitingCollectors \in Seq(Purges)
  /\ disk \subseteq Objects /\ references \subseteq Objects /\ seen \subseteq Objects
  /\ pc \in [Tasks -> PublisherPcs \cup PurgePcs]
  /\ \A p \in Publishers : pc[p] \in PublisherPcs
  /\ \A c \in Purges : pc[c] \in PurgePcs
  /\ object \in [Tasks -> Objects \cup {None}]
  /\ \A p \in Publishers : pc[p] \in { "waiting", "putting", "committing" } => object[p] # None
  /\ summary \in [Tasks -> Objects \cup {None}]
  /\ purges \in 0..MaxPurges

LockInv ==
  /\ TypesButTheCounter
  /\ LockIsExclusive

LEMMA CounterIsNatural ==
  ASSUME LockInv
  PROVE  /\ IsFiniteSet(Publishing)
         /\ activePublishers \in Nat
         /\ activePublishers = 0 <=> Publishing = {}
<1>1. IsFiniteSet(Publishing)
  BY PublishersAreFinite, FS_Subset DEF Publishing
<1>2. activePublishers \in Nat
  BY <1>1, FS_CardinalityType DEF LockInv, LockIsExclusive, CounterIsExact
<1>3. activePublishers = 0 <=> Publishing = {}
  BY <1>1, FS_EmptySet DEF LockInv, LockIsExclusive, CounterIsExact
<1> QED BY <1>1, <1>2, <1>3

(* What a collector finds at the head of the queue. *)
LEMMA HeadOfTheQueue ==
  ASSUME LockInv, waitingCollectors # << >>
  PROVE  /\ Head(waitingCollectors) \in Purges
         /\ pc[Head(waitingCollectors)] = "waiting"
         /\ Tail(waitingCollectors) \in Seq(Purges)
         /\ \A c \in Purges :
              (\E n \in DOMAIN Tail(waitingCollectors) : Tail(waitingCollectors)[n] = c)
                <=> (pc[c] = "waiting" /\ c # Head(waitingCollectors))
         /\ \A m, n \in DOMAIN Tail(waitingCollectors) :
              Tail(waitingCollectors)[m] = Tail(waitingCollectors)[n] => m = n
<1> DEFINE q == waitingCollectors
<1> USE DEF LockInv, TypesButTheCounter, LockIsExclusive, QueuesAreExact
<1>1. q \in Seq(Purges) /\ q # << >>
  OBVIOUS
<1>2. /\ Head(q) = q[1] /\ 1 \in DOMAIN q /\ Head(q) \in Purges
      /\ Tail(q) \in Seq(Purges)
      /\ DOMAIN q = 1..Len(q) /\ DOMAIN Tail(q) = 1..(Len(q) - 1) /\ Len(q) \in Nat
      /\ \A n \in 1..(Len(q) - 1) : Tail(q)[n] = q[n + 1]
  BY <1>1
<1>3. pc[Head(q)] = "waiting"
  BY <1>2
<1>4. \A m, n \in DOMAIN Tail(q) : Tail(q)[m] = Tail(q)[n] => m = n
  BY <1>2
<1>5. ASSUME NEW c \in Purges
      PROVE  (\E n \in DOMAIN Tail(q) : Tail(q)[n] = c) <=> (pc[c] = "waiting" /\ c # Head(q))
  <2>1. ASSUME NEW n \in DOMAIN Tail(q), Tail(q)[n] = c
        PROVE  pc[c] = "waiting" /\ c # Head(q)
    BY <2>1, <1>2
  <2>2. ASSUME pc[c] = "waiting", c # Head(q)
        PROVE  \E n \in DOMAIN Tail(q) : Tail(q)[n] = c
    <3>1. PICK n \in DOMAIN q : q[n] = c
      BY <2>2
    <3>2. n - 1 \in DOMAIN Tail(q) /\ Tail(q)[n - 1] = c
      BY <3>1, <2>2, <1>2
    <3> QED BY <3>2
  <2> QED BY <2>1, <2>2
<1> QED BY <1>2, <1>3, <1>4, <1>5

-------------------------------------------------------------------------------
(* The parts of LockInv, each kept by every step. *)

LEMMA TypesStep ==
  ASSUME LockInv, ObjectsStep
  PROVE  TypesButTheCounter'
<1> USE DEF LockInv, TypesButTheCounter, PublisherPcs, PurgePcs, Tasks, Step, lock, data
<1> USE TasksAreDistinct, NoneIsNoObject, MaxPurgesIsNatural
<1>1. ASSUME NEW p \in Publishers, NEW h \in Objects, PutSummary(p, h)
      PROVE  TypesButTheCounter'
  BY <1>1 DEF PutSummary
<1>2. ASSUME NEW p \in Publishers, NEW h \in Objects, AcquirePublisher(p, h)
      PROVE  TypesButTheCounter'
  BY <1>2 DEF AcquirePublisher
<1>3. ASSUME NEW p \in Publishers, PutObject(p) PROVE TypesButTheCounter'
  BY <1>3 DEF PutObject
<1>4. ASSUME NEW p \in Publishers, CommitReference(p) PROVE TypesButTheCounter'
  BY <1>4 DEF CommitReference
<1>5. ASSUME NEW p \in Publishers, ThrowInPublish(p) PROVE TypesButTheCounter'
  BY <1>5 DEF ThrowInPublish
<1>6. ASSUME NEW p \in Publishers, ReleasePublisher(p) PROVE TypesButTheCounter'
  <2>1. CASE WakesCollector
    <3> DEFINE head == Head(waitingCollectors)
    <3>1. head \in Purges /\ pc[head] = "waiting" /\ Tail(waitingCollectors) \in Seq(Purges)
      BY <2>1, HeadOfTheQueue DEF WakesCollector
    <3>2. /\ pc' = [pc EXCEPT ![p] = "idle", ![head] = "reading"]
          /\ waitingCollectors' = Tail(waitingCollectors) /\ collecting' = TRUE
          /\ summary' = [summary EXCEPT ![p] = None]
          /\ UNCHANGED << waitingPublishers, disk, references, object, seen, purges >>
      BY <1>6, <2>1 DEF ReleasePublisher
    <3> HIDE DEF head
    <3> QED BY <3>1, <3>2
  <2>2. CASE ~WakesCollector
    BY <1>6, <2>2 DEF ReleasePublisher
  <2> QED BY <2>1, <2>2
<1>7. ASSUME NEW c \in Purges, PurgeRows(c) PROVE TypesButTheCounter'
  BY <1>7 DEF PurgeRows
<1>8. ASSUME NEW c \in Purges, AcquireCollector(c) PROVE TypesButTheCounter'
  <2>0. Append(waitingCollectors, c) \in Seq(Purges)
    BY AppendProperties
  <2>1. waitingCollectors' \in Seq(Purges) /\ collecting' \in BOOLEAN
    BY <1>8, <2>0 DEF AcquireCollector
  <2>2. pc' = [pc EXCEPT ![c] = "reading"] \/ pc' = [pc EXCEPT ![c] = "waiting"]
    BY <1>8 DEF AcquireCollector
  <2>3. UNCHANGED << waitingPublishers, disk, references, data, purges >>
    BY <1>8 DEF AcquireCollector
  <2> QED BY <2>1, <2>2, <2>3
<1>9. ASSUME NEW c \in Purges, ReadReferences(c) PROVE TypesButTheCounter'
  BY <1>9 DEF ReadReferences
<1>10. ASSUME NEW c \in Purges, EndCollection(c) PROVE TypesButTheCounter'
  BY <1>10 DEF EndCollection
<1>11. ASSUME NEW c \in Purges, ReleaseCollector(c) PROVE TypesButTheCounter'
  <2>1. CASE waitingCollectors # << >>
    <3> DEFINE head == Head(waitingCollectors)
    <3>1. head \in Purges /\ pc[head] = "waiting" /\ Tail(waitingCollectors) \in Seq(Purges)
      BY <2>1, HeadOfTheQueue
    <3>2. /\ pc' = [pc EXCEPT ![c] = "idle", ![head] = "reading"]
          /\ waitingCollectors' = Tail(waitingCollectors)
          /\ UNCHANGED << collecting, waitingPublishers, disk, references, data, purges >>
      BY <1>11, <2>1 DEF ReleaseCollector
    <3> HIDE DEF head
    <3> QED BY <3>1, <3>2
  <2>2. CASE waitingCollectors = << >>
    <3>1. /\ collecting' = FALSE /\ waitingPublishers' = {}
          /\ pc' = [t \in Tasks |-> IF t = c THEN "idle"
                                    ELSE IF t \in waitingPublishers THEN "putting" ELSE pc[t]]
          /\ UNCHANGED << waitingCollectors, disk, references, data, purges >>
      BY <1>11, <2>2 DEF ReleaseCollector
    <3>2. \A t \in waitingPublishers : t \in Publishers /\ pc[t] = "waiting"
      BY DEF LockIsExclusive, QueuesAreExact
    <3>3. /\ pc' \in [Tasks -> PublisherPcs \cup PurgePcs]
          /\ \A d \in Purges : pc'[d] \in PurgePcs
          /\ \A p \in Publishers : pc'[p] \in PublisherPcs
      BY <3>1, <3>2
    <3>4. \A p \in Publishers : pc'[p] \in { "waiting", "putting", "committing" } => object'[p] # None
      BY <3>1, <3>2
    <3> QED BY <3>1, <3>3, <3>4
  <2> QED BY <2>1, <2>2
<1>12. ASSUME NEW c \in Purges, NEW h \in Objects, RemoveObject(c, h)
       PROVE  TypesButTheCounter'
  BY <1>12 DEF RemoveObject
<1>13. CASE Crash
  <2>1. waitingCollectors' \in Seq(Purges) /\ collecting' = FALSE /\ waitingPublishers' = {}
    BY <1>13 DEF Crash
  <2>2. /\ pc' = [t \in Tasks |-> "idle"] /\ object' = [t \in Tasks |-> None]
        /\ summary' = [t \in Tasks |-> None] /\ seen' = {}
        /\ UNCHANGED << disk, references, purges >>
    BY <1>13 DEF Crash
  <2>3. /\ pc' \in [Tasks -> PublisherPcs \cup PurgePcs]
        /\ \A p \in Publishers : pc'[p] = "idle"
        /\ \A d \in Purges : pc'[d] = "idle"
    BY <2>2
  <2> QED BY <2>1, <2>2, <2>3
<1>14. CASE UNCHANGED objectVars
  BY <1>14 DEF objectVars
<1> QED
  BY <1>1, <1>2, <1>3, <1>4, <1>5, <1>6, <1>7, <1>8, <1>9, <1>10, <1>11, <1>12, <1>13, <1>14
     DEF ObjectsStep, NextObjects, PublisherStep, PurgeStep

(* Who is in its section after each step, and what the counter says of it. *)
LEMMA CounterStep ==
  ASSUME LockInv, ObjectsStep
  PROVE  CounterIsExact'
<1>0. /\ pc \in [Tasks -> PublisherPcs \cup PurgePcs]
      /\ activePublishers = Cardinality(Publishing)
      /\ IsFiniteSet(Publishing) /\ activePublishers \in Nat
  BY CounterIsNatural DEF LockInv, TypesButTheCounter, LockIsExclusive, CounterIsExact
<1> USE TasksAreDistinct DEF Tasks, Step
<1>1. ASSUME Publishing' = Publishing, activePublishers' = activePublishers
      PROVE  CounterIsExact'
  BY <1>0, <1>1 DEF CounterIsExact
<1>2. ASSUME NEW p \in Publishers, NEW h \in Objects, PutSummary(p, h)
      PROVE  CounterIsExact'
  BY <1>0, <1>1, <1>2 DEF PutSummary, lock, Publishing
<1>3. ASSUME NEW p \in Publishers, NEW h \in Objects, AcquirePublisher(p, h)
      PROVE  CounterIsExact'
  <2>1. CASE MayPublish
    <3>1. Publishing' = Publishing \cup {p} /\ p \notin Publishing
      BY <1>0, <1>3, <2>1 DEF AcquirePublisher, Publishing
    <3>2. activePublishers' = activePublishers + 1
      BY <1>3, <2>1 DEF AcquirePublisher
    <3>3. Cardinality(Publishing \cup {p}) = Cardinality(Publishing) + 1
      BY <1>0, <3>1, FS_AddElement
    <3> QED BY <1>0, <3>1, <3>2, <3>3 DEF CounterIsExact
  <2>2. CASE ~MayPublish
    <3>1. Publishing' = Publishing /\ activePublishers' = activePublishers
      BY <1>0, <1>3, <2>2 DEF AcquirePublisher, Publishing
    <3> QED BY <1>1, <3>1
  <2> QED BY <2>1, <2>2
<1>4. ASSUME NEW p \in Publishers, PutObject(p) \/ CommitReference(p) \/ ThrowInPublish(p)
      PROVE  CounterIsExact'
  <2>1. Publishing' = Publishing /\ activePublishers' = activePublishers
    BY <1>0, <1>4 DEF PutObject, CommitReference, ThrowInPublish, lock, Publishing
  <2> QED BY <1>1, <2>1
<1>5. ASSUME NEW p \in Publishers, ReleasePublisher(p) PROVE CounterIsExact'
  <2>1. Publishing' = Publishing \ {p} /\ p \in Publishing
    <3>1. CASE WakesCollector
      <4>1. /\ pc[p] = "releasing"
            /\ pc' = [pc EXCEPT ![p] = "idle", ![Head(waitingCollectors)] = "reading"]
        BY <1>5, <3>1 DEF ReleasePublisher
      <4>2. Head(waitingCollectors) \in Purges
        BY <3>1, HeadOfTheQueue DEF WakesCollector
      <4> QED BY <1>0, <4>1, <4>2 DEF Publishing
    <3>2. CASE ~WakesCollector
      BY <1>0, <1>5, <3>2 DEF ReleasePublisher, Publishing
    <3> QED BY <3>1, <3>2
  <2>2. activePublishers' = activePublishers - 1
    BY <1>5 DEF ReleasePublisher
  <2>3. Cardinality(Publishing \ {p}) = Cardinality(Publishing) - 1
    BY <1>0, <2>1, FS_RemoveElement
  <2> QED BY <1>0, <2>1, <2>2, <2>3 DEF CounterIsExact
<1>6. ASSUME NEW c \in Purges, PurgeRows(c) \/ AcquireCollector(c) \/ ReadReferences(c)
                                 \/ EndCollection(c)
      PROVE  CounterIsExact'
  <2>1. \E s \in { "purged", "reading", "waiting", "sweeping", "releasing" } :
          pc' = [pc EXCEPT ![c] = s]
    BY <1>6 DEF PurgeRows, AcquireCollector, ReadReferences, EndCollection
  <2>2. activePublishers' = activePublishers
    BY <1>6 DEF PurgeRows, AcquireCollector, ReadReferences, EndCollection, lock
  <2>3. Publishing' = Publishing
    BY <1>0, <2>1 DEF Publishing
  <2> QED BY <1>1, <2>2, <2>3
<1>7. ASSUME NEW c \in Purges, ReleaseCollector(c) PROVE CounterIsExact'
  <2>1. CASE waitingCollectors # << >>
    <3>1. /\ pc' = [pc EXCEPT ![c] = "idle", ![Head(waitingCollectors)] = "reading"]
          /\ activePublishers' = activePublishers
      BY <1>7, <2>1 DEF ReleaseCollector
    <3>2. Head(waitingCollectors) \in Purges
      BY <2>1, HeadOfTheQueue
    <3>3. Publishing' = Publishing
      BY <1>0, <3>1, <3>2 DEF Publishing
    <3> QED BY <1>1, <3>1, <3>3
  <2>2. CASE waitingCollectors = << >>
    <3>1. /\ pc' = [t \in Tasks |-> IF t = c THEN "idle"
                                    ELSE IF t \in waitingPublishers THEN "putting" ELSE pc[t]]
          /\ activePublishers' = activePublishers + Cardinality(waitingPublishers)
      BY <1>7, <2>2 DEF ReleaseCollector, WokenPublishers
    <3>2. waitingPublishers = { p \in Publishers : pc[p] = "waiting" }
      BY DEF LockInv, LockIsExclusive, QueuesAreExact
    <3>3. Publishing' = Publishing \cup waitingPublishers
      BY <1>0, <3>1, <3>2 DEF Publishing
    <3>4. Publishing \cap waitingPublishers = {}
      BY <3>2 DEF Publishing
    <3>5. IsFiniteSet(waitingPublishers)
      BY <3>2, PublishersAreFinite, FS_Subset
    <3>6. Cardinality(Publishing \cup waitingPublishers)
            = Cardinality(Publishing) + Cardinality(waitingPublishers)
      <4>1. Cardinality(Publishing \cup waitingPublishers)
              = Cardinality(Publishing) + Cardinality(waitingPublishers)
                - Cardinality(Publishing \cap waitingPublishers)
        BY <1>0, <3>5, FS_Union
      <4>2. Cardinality(Publishing \cap waitingPublishers) = 0
        BY <3>4, FS_EmptySet
      <4>3. Cardinality(Publishing) \in Nat /\ Cardinality(waitingPublishers) \in Nat
        BY <1>0, <3>5, FS_CardinalityType
      <4> QED BY <4>1, <4>2, <4>3
    <3> QED BY <3>1, <3>3, <3>6, <1>0 DEF CounterIsExact
  <2> QED BY <2>1, <2>2
<1>8. ASSUME NEW c \in Purges, NEW h \in Objects, RemoveObject(c, h)
      PROVE  CounterIsExact'
  BY <1>1, <1>8 DEF RemoveObject, lock, Publishing
<1>9. CASE Crash
  <2>1. Publishing' = {} /\ activePublishers' = 0
    BY <1>9 DEF Crash, Publishing
  <2> QED BY <2>1, FS_EmptySet DEF CounterIsExact
<1>10. CASE UNCHANGED objectVars
  BY <1>1, <1>10 DEF objectVars, lock, Publishing
<1> QED
  BY <1>2, <1>3, <1>4, <1>5, <1>6, <1>7, <1>8, <1>9, <1>10
     DEF ObjectsStep, NextObjects, PublisherStep, PurgeStep

(* Publishers and the collector are never inside together: a publisher       *)
(* enters when nobody collects, the collector when the counter is zero.      *)
LEMMA SidesStep ==
  ASSUME LockInv, ObjectsStep
  PROVE  OneSideInside'
<1>0. /\ pc \in [Tasks -> PublisherPcs \cup PurgePcs]
      /\ collecting <=> Collecting # {}
      /\ \A c, d \in Collecting : c = d
      /\ Collecting = {} \/ Publishing = {}
      /\ activePublishers = 0 <=> Publishing = {}
      /\ activePublishers \in Nat
      /\ IsFiniteSet(Publishing)
      /\ activePublishers = Cardinality(Publishing)
      /\ collecting \in BOOLEAN
  BY CounterIsNatural
     DEF LockInv, TypesButTheCounter, LockIsExclusive, CounterIsExact, OneSideInside
<1> USE TasksAreDistinct DEF Tasks, Step
<1>1. ASSUME Publishing' \subseteq Publishing, Collecting' = Collecting,
             collecting' = collecting
      PROVE  OneSideInside'
  BY <1>0, <1>1 DEF OneSideInside
<1>2. ASSUME NEW p \in Publishers, NEW h \in Objects, PutSummary(p, h)
      PROVE  OneSideInside'
  BY <1>0, <1>1, <1>2 DEF PutSummary, lock, Publishing, Collecting
<1>3. ASSUME NEW p \in Publishers, NEW h \in Objects, AcquirePublisher(p, h)
      PROVE  OneSideInside'
  <2>1. Collecting' = Collecting /\ collecting' = collecting
    BY <1>0, <1>3 DEF AcquirePublisher, Collecting
  <2>2. CASE MayPublish
    BY <1>0, <2>1, <2>2 DEF MayPublish, OneSideInside
  <2>3. CASE ~MayPublish
    <3>1. Publishing' = Publishing
      BY <1>0, <1>3, <2>3 DEF AcquirePublisher, Publishing
    <3> QED BY <1>1, <2>1, <3>1
  <2> QED BY <2>2, <2>3
<1>4. ASSUME NEW p \in Publishers, PutObject(p) \/ CommitReference(p) \/ ThrowInPublish(p)
      PROVE  OneSideInside'
  <2>1. Publishing' = Publishing /\ Collecting' = Collecting /\ collecting' = collecting
    BY <1>0, <1>4 DEF PutObject, CommitReference, ThrowInPublish, lock, Publishing, Collecting
  <2> QED BY <1>1, <2>1
<1>5. ASSUME NEW p \in Publishers, ReleasePublisher(p) PROVE OneSideInside'
  <2>0. p \in Publishing
    BY <1>5 DEF ReleasePublisher, Publishing
  <2>1. CASE WakesCollector
    <3> DEFINE head == Head(waitingCollectors)
    <3>1. head \in Purges
      BY <2>1, HeadOfTheQueue DEF WakesCollector
    <3>2. pc' = [pc EXCEPT ![p] = "idle", ![head] = "reading"] /\ collecting' = TRUE
      BY <1>5, <2>1 DEF ReleasePublisher
    <3>3. Publishing = {p}
      <4>1. /\ IsFiniteSet(Publishing \ {p})
            /\ Cardinality(Publishing \ {p}) = Cardinality(Publishing) - 1
        BY <1>0, <2>0, FS_RemoveElement
      <4>2. Cardinality(Publishing) = 1
        BY <1>0, <2>1 DEF WakesCollector
      <4>3. Cardinality(Publishing \ {p}) = 0
        BY <4>1, <4>2
      <4>4. Publishing \ {p} = {}
        BY <4>1, <4>3, FS_EmptySet
      <4> QED BY <2>0, <4>4
    <3>4. Collecting = {}
      BY <1>0, <2>1 DEF WakesCollector
    <3> HIDE DEF head
    <3>5. Publishing' = {} /\ Collecting' = {head}
      BY <1>0, <3>1, <3>2, <3>3, <3>4 DEF Publishing, Collecting
    <3> QED BY <3>2, <3>5 DEF OneSideInside
  <2>2. CASE ~WakesCollector
    <3>1. Publishing' \subseteq Publishing /\ Collecting' = Collecting /\ collecting' = collecting
      BY <1>0, <1>5, <2>2 DEF ReleasePublisher, Publishing, Collecting
    <3> QED BY <1>1, <3>1
  <2> QED BY <2>1, <2>2
<1>6. ASSUME NEW c \in Purges, AcquireCollector(c) PROVE OneSideInside'
  <2>1. Publishing' = Publishing
    BY <1>0, <1>6 DEF AcquireCollector, Publishing
  <2>2. CASE ~collecting /\ activePublishers = 0
    <3>1. Collecting' = {c} /\ collecting' = TRUE
      BY <1>0, <1>6, <2>2 DEF AcquireCollector, Collecting
    <3> QED BY <1>0, <2>1, <2>2, <3>1 DEF OneSideInside
  <2>3. CASE ~(~collecting /\ activePublishers = 0)
    <3>1. Collecting' = Collecting /\ collecting' = collecting
      BY <1>0, <1>6, <2>3 DEF AcquireCollector, Collecting
    <3> QED BY <1>1, <2>1, <3>1
  <2> QED BY <2>2, <2>3
<1>7. ASSUME NEW c \in Purges, PurgeRows(c) \/ ReadReferences(c) \/ EndCollection(c)
      PROVE  OneSideInside'
  <2>1. Publishing' = Publishing /\ Collecting' = Collecting /\ collecting' = collecting
    BY <1>0, <1>7 DEF PurgeRows, ReadReferences, EndCollection, lock, Publishing, Collecting
  <2> QED BY <1>1, <2>1
<1>8. ASSUME NEW c \in Purges, ReleaseCollector(c) PROVE OneSideInside'
  <2>0. Collecting = {c} /\ Publishing = {} /\ collecting
    BY <1>0, <1>8 DEF ReleaseCollector, Collecting
  <2>1. CASE waitingCollectors # << >>
    <3> DEFINE head == Head(waitingCollectors)
    <3>1. head \in Purges /\ pc[head] = "waiting"
      BY <2>1, HeadOfTheQueue
    <3>2. /\ pc' = [pc EXCEPT ![c] = "idle", ![head] = "reading"]
          /\ collecting' = collecting /\ pc[c] = "releasing"
      BY <1>8, <2>1 DEF ReleaseCollector
    <3> HIDE DEF head
    <3>3. Publishing' = {} /\ Collecting' = {head}
      BY <1>0, <2>0, <3>1, <3>2 DEF Publishing, Collecting
    <3> QED BY <2>0, <3>2, <3>3 DEF OneSideInside
  <2>2. CASE waitingCollectors = << >>
    <3>1. /\ collecting' = FALSE
          /\ pc' = [t \in Tasks |-> IF t = c THEN "idle"
                                    ELSE IF t \in waitingPublishers THEN "putting" ELSE pc[t]]
      BY <1>8, <2>2 DEF ReleaseCollector
    <3>2. waitingPublishers \subseteq Publishers
      BY DEF LockInv, TypesButTheCounter
    <3>3. Collecting' = {}
      BY <2>0, <3>1, <3>2 DEF Collecting
    <3> QED BY <3>1, <3>3 DEF OneSideInside
  <2> QED BY <2>1, <2>2
<1>9. ASSUME NEW c \in Purges, NEW h \in Objects, RemoveObject(c, h)
      PROVE  OneSideInside'
  BY <1>1, <1>9 DEF RemoveObject, lock, Publishing, Collecting
<1>10. CASE Crash
  BY <1>10 DEF Crash, OneSideInside, Publishing, Collecting
<1>11. CASE UNCHANGED objectVars
  BY <1>1, <1>11 DEF objectVars, lock, Publishing, Collecting
<1> QED
  BY <1>2, <1>3, <1>4, <1>5, <1>6, <1>7, <1>8, <1>9, <1>10, <1>11
     DEF ObjectsStep, NextObjects, PublisherStep, PurgeStep

(* Each task that waits is in its queue, once. *)
LEMMA QueuesStep ==
  ASSUME LockInv, ObjectsStep
  PROVE  QueuesAreExact'
<1>0. /\ pc \in [Tasks -> PublisherPcs \cup PurgePcs]
      /\ waitingCollectors \in Seq(Purges)
      /\ QueuesAreExact
  BY DEF LockInv, TypesButTheCounter, LockIsExclusive
<1> USE TasksAreDistinct DEF Tasks, Step
<1>1. ASSUME \A t \in Tasks : pc'[t] = "waiting" <=> pc[t] = "waiting",
             UNCHANGED << waitingPublishers, waitingCollectors >>
      PROVE  QueuesAreExact'
  BY <1>0, <1>1 DEF QueuesAreExact
<1>2. ASSUME NEW p \in Publishers, NEW h \in Objects, PutSummary(p, h)
      PROVE  QueuesAreExact'
  BY <1>0, <1>1, <1>2 DEF PutSummary, lock
<1>3. ASSUME NEW p \in Publishers, NEW h \in Objects, AcquirePublisher(p, h)
      PROVE  QueuesAreExact'
  <2>1. CASE MayPublish
    BY <1>0, <1>1, <1>3, <2>1 DEF AcquirePublisher
  <2>2. CASE ~MayPublish
    <3>1. /\ pc' = [pc EXCEPT ![p] = "waiting"]
          /\ waitingPublishers' = waitingPublishers \cup {p}
          /\ UNCHANGED waitingCollectors
      BY <1>3, <2>2 DEF AcquirePublisher
    <3>2. waitingPublishers' = { q \in Publishers : pc'[q] = "waiting" }
      BY <1>0, <3>1 DEF QueuesAreExact
    <3>3. \A c \in Purges : pc'[c] = pc[c]
      BY <1>0, <3>1
    <3> QED BY <1>0, <3>1, <3>2, <3>3 DEF QueuesAreExact
  <2> QED BY <2>1, <2>2
<1>4. ASSUME NEW p \in Publishers, PutObject(p) \/ CommitReference(p) \/ ThrowInPublish(p)
      PROVE  QueuesAreExact'
  BY <1>0, <1>1, <1>4 DEF PutObject, CommitReference, ThrowInPublish, lock
<1>5. ASSUME NEW p \in Publishers, ReleasePublisher(p) PROVE QueuesAreExact'
  <2>1. CASE WakesCollector
    <3> DEFINE head == Head(waitingCollectors)
               rest == Tail(waitingCollectors)
    <3>1. /\ head \in Purges
          /\ \A c \in Purges : (\E n \in DOMAIN rest : rest[n] = c)
                                 <=> (pc[c] = "waiting" /\ c # head)
          /\ \A m, n \in DOMAIN rest : rest[m] = rest[n] => m = n
      BY <2>1, HeadOfTheQueue DEF WakesCollector
    <3>2. /\ pc' = [pc EXCEPT ![p] = "idle", ![head] = "reading"]
          /\ pc[p] = "releasing"
          /\ waitingCollectors' = rest /\ waitingPublishers' = waitingPublishers
      BY <1>5, <2>1 DEF ReleasePublisher
    <3> HIDE DEF head, rest
    <3>3. \A c \in Purges : pc'[c] = "waiting" <=> (pc[c] = "waiting" /\ c # head)
      BY <1>0, <3>1, <3>2
    <3>4. waitingPublishers' = { q \in Publishers : pc'[q] = "waiting" }
      BY <1>0, <3>1, <3>2 DEF QueuesAreExact
    <3> QED BY <3>1, <3>2, <3>3, <3>4 DEF QueuesAreExact
  <2>2. CASE ~WakesCollector
    BY <1>0, <1>1, <1>5, <2>2 DEF ReleasePublisher
  <2> QED BY <2>1, <2>2
<1>6. ASSUME NEW c \in Purges, AcquireCollector(c) PROVE QueuesAreExact'
  <2>1. CASE ~collecting /\ activePublishers = 0
    BY <1>0, <1>1, <1>6, <2>1 DEF AcquireCollector
  <2>2. CASE ~(~collecting /\ activePublishers = 0)
    <3> DEFINE q == waitingCollectors
    <3>1. /\ pc[c] = "purged" /\ pc' = [pc EXCEPT ![c] = "waiting"]
          /\ waitingCollectors' = Append(q, c) /\ waitingPublishers' = waitingPublishers
      BY <1>6, <2>2 DEF AcquireCollector
    <3>2. /\ DOMAIN q = 1..Len(q) /\ Len(q) \in Nat
          /\ DOMAIN Append(q, c) = 1..(Len(q) + 1)
          /\ \A n \in 1..Len(q) : Append(q, c)[n] = q[n]
          /\ Append(q, c)[Len(q) + 1] = c
      BY <1>0
    <3>3. \A n \in DOMAIN q : q[n] # c /\ q[n] \in Purges
      BY <1>0, <3>1 DEF QueuesAreExact
    <3>4. \A d \in Purges : (\E n \in DOMAIN Append(q, c) : Append(q, c)[n] = d)
                              <=> d = c \/ (\E n \in DOMAIN q : q[n] = d)
      BY <3>2
    <3>5. \A m, n \in DOMAIN Append(q, c) : Append(q, c)[m] = Append(q, c)[n] => m = n
      BY <1>0, <3>2, <3>3 DEF QueuesAreExact
    <3>6. \A d \in Purges : pc'[d] = "waiting" <=> d = c \/ pc[d] = "waiting"
      BY <1>0, <3>1
    <3>7. waitingPublishers' = { p \in Publishers : pc'[p] = "waiting" }
      BY <1>0, <3>1 DEF QueuesAreExact
    <3>8. \A d \in Purges : pc[d] = "waiting" <=> \E n \in DOMAIN q : q[n] = d
      BY <1>0 DEF QueuesAreExact
    <3> HIDE DEF q
    <3> QED BY <3>1, <3>4, <3>5, <3>6, <3>7, <3>8 DEF QueuesAreExact
  <2> QED BY <2>1, <2>2
<1>7. ASSUME NEW c \in Purges, PurgeRows(c) \/ ReadReferences(c) \/ EndCollection(c)
      PROVE  QueuesAreExact'
  BY <1>0, <1>1, <1>7 DEF PurgeRows, ReadReferences, EndCollection, lock
<1>8. ASSUME NEW c \in Purges, ReleaseCollector(c) PROVE QueuesAreExact'
  <2>1. CASE waitingCollectors # << >>
    <3> DEFINE head == Head(waitingCollectors)
               rest == Tail(waitingCollectors)
    <3>1. /\ head \in Purges
          /\ \A d \in Purges : (\E n \in DOMAIN rest : rest[n] = d)
                                 <=> (pc[d] = "waiting" /\ d # head)
          /\ \A m, n \in DOMAIN rest : rest[m] = rest[n] => m = n
      BY <2>1, HeadOfTheQueue
    <3>2. /\ pc' = [pc EXCEPT ![c] = "idle", ![head] = "reading"]
          /\ pc[c] = "releasing"
          /\ waitingCollectors' = rest /\ waitingPublishers' = waitingPublishers
      BY <1>8, <2>1 DEF ReleaseCollector
    <3> HIDE DEF head, rest
    <3>3. \A d \in Purges : pc'[d] = "waiting" <=> (pc[d] = "waiting" /\ d # head)
      BY <1>0, <3>1, <3>2
    <3>4. waitingPublishers' = { p \in Publishers : pc'[p] = "waiting" }
      BY <1>0, <3>1, <3>2 DEF QueuesAreExact
    <3> QED BY <3>1, <3>2, <3>3, <3>4 DEF QueuesAreExact
  <2>2. CASE waitingCollectors = << >>
    <3>1. /\ pc' = [t \in Tasks |-> IF t = c THEN "idle"
                                    ELSE IF t \in waitingPublishers THEN "putting" ELSE pc[t]]
          /\ pc[c] = "releasing"
          /\ waitingPublishers' = {} /\ waitingCollectors' = waitingCollectors
      BY <1>8, <2>2 DEF ReleaseCollector
    <3>2. waitingPublishers = { p \in Publishers : pc[p] = "waiting" }
      BY <1>0 DEF QueuesAreExact
    <3>3. waitingPublishers' = { p \in Publishers : pc'[p] = "waiting" }
      BY <3>1, <3>2
    <3>4. \A d \in Purges : pc'[d] = "waiting" <=> pc[d] = "waiting"
      BY <3>1, <3>2
    <3> QED BY <1>0, <3>1, <3>3, <3>4 DEF QueuesAreExact
  <2> QED BY <2>1, <2>2
<1>9. ASSUME NEW c \in Purges, NEW h \in Objects, RemoveObject(c, h)
      PROVE  QueuesAreExact'
  BY <1>1, <1>9 DEF RemoveObject, lock
<1>10. CASE Crash
  <2>1. /\ waitingPublishers' = {} /\ waitingCollectors' = << >>
        /\ \A t \in Tasks : pc'[t] = "idle"
    BY <1>10 DEF Crash
  <2>2. DOMAIN waitingCollectors' = {}
    BY <2>1
  <2> QED BY <2>1, <2>2 DEF QueuesAreExact
<1>11. CASE UNCHANGED objectVars
  BY <1>1, <1>11 DEF objectVars, lock
<1> QED
  BY <1>2, <1>3, <1>4, <1>5, <1>6, <1>7, <1>8, <1>9, <1>10, <1>11
     DEF ObjectsStep, NextObjects, PublisherStep, PurgeStep

-------------------------------------------------------------------------------
LEMMA LockInvariant == SpecObjects => []LockInv
<1>1. InitObjects => LockInv
  <2> SUFFICES ASSUME InitObjects PROVE LockInv
    OBVIOUS
  <2>1. TypesButTheCounter
    <3>1. /\ waitingCollectors \in Seq(Purges)
          /\ purges \in 0..MaxPurges
          /\ collecting \in BOOLEAN /\ waitingPublishers \subseteq Publishers
          /\ disk \subseteq Objects /\ references \subseteq Objects /\ seen \subseteq Objects
      <4>1. << >> \in Seq(Purges) /\ 0 \in 0..MaxPurges
        BY MaxPurgesIsNatural
      <4> QED BY <4>1 DEF InitObjects
    <3>2. /\ pc \in [Tasks -> PublisherPcs \cup PurgePcs]
          /\ \A t \in Tasks : pc[t] = "idle"
          /\ object \in [Tasks -> Objects \cup {None}]
          /\ summary \in [Tasks -> Objects \cup {None}]
      BY DEF InitObjects, PublisherPcs, PurgePcs
    <3> QED BY <3>1, <3>2 DEF TypesButTheCounter, PublisherPcs, PurgePcs, Tasks
  <2>2. Publishing = {} /\ Collecting = {}
    BY DEF InitObjects, Publishing, Collecting, Tasks
  <2>3. CounterIsExact /\ OneSideInside
    BY <2>2, FS_EmptySet DEF InitObjects, CounterIsExact, OneSideInside
  <2>4. QueuesAreExact
    BY DEF InitObjects, QueuesAreExact, Tasks
  <2> QED BY <2>1, <2>3, <2>4 DEF LockInv, LockIsExclusive
<1>2. LockInv /\ ObjectsStep => LockInv'
  <2> SUFFICES ASSUME LockInv, ObjectsStep PROVE LockInv'
    OBVIOUS
  <2>1. TypesButTheCounter'
    BY TypesStep
  <2>2. CounterIsExact' /\ OneSideInside' /\ QueuesAreExact'
    BY CounterStep, SidesStep, QueuesStep
  <2> QED BY <2>1, <2>2 DEF LockInv, LockIsExclusive
<1> QED BY <1>1, <1>2, PTL DEF SpecObjects, ObjectsStep

(* For any number of publishers and purges, the counter is the number of     *)
(* publishers inside, and no publisher is inside while a purge collects.     *)
THEOREM LockExclusive == SpecObjects => []LockIsExclusive
<1>1. LockInv => LockIsExclusive
  BY DEF LockInv
<1> QED BY <1>1, LockInvariant, PTL

(* The counter never goes below zero, and the rest keeps its types. *)
THEOREM ObjectsTypeCorrect == SpecObjects => []ObjectsTypeOK
<1>1. LockInv => ObjectsTypeOK
  BY CounterIsNatural DEF LockInv, TypesButTheCounter, ObjectsTypeOK
<1> QED BY <1>1, LockInvariant, PTL

-------------------------------------------------------------------------------
(* While a task waits for the lock somebody is inside, whose release hands   *)
(* it over: acquirePublisher, acquireCollector and the releases lose none.   *)
THEOREM NoWakeUpIsLost == SpecObjects => []WaitersHaveAHolder
<1>1. InitObjects => WaitersHaveAHolder
  BY DEF InitObjects, WaitersHaveAHolder
<1>2. LockInv /\ WaitersHaveAHolder /\ ObjectsStep => WaitersHaveAHolder'
  <2> SUFFICES ASSUME LockInv, WaitersHaveAHolder, ObjectsStep PROVE WaitersHaveAHolder'
    OBVIOUS
  <2>0. activePublishers \in Nat /\ (activePublishers = 0 <=> Publishing = {})
        /\ collecting \in BOOLEAN /\ (collecting <=> Collecting # {})
        /\ (Collecting = {} \/ Publishing = {})
        /\ waitingCollectors \in Seq(Purges)
    BY CounterIsNatural DEF LockInv, TypesButTheCounter, LockIsExclusive, OneSideInside
  <2> USE DEF WaitersHaveAHolder
  <2>1. ASSUME UNCHANGED lock PROVE WaitersHaveAHolder'
    BY <2>1 DEF lock
  <2>2. ASSUME NEW p \in Publishers, NEW h \in Objects, AcquirePublisher(p, h)
        PROVE  WaitersHaveAHolder'
    BY <2>0, <2>2 DEF AcquirePublisher, MayPublish
  <2>3. ASSUME NEW p \in Publishers, ReleasePublisher(p) PROVE WaitersHaveAHolder'
    <3>1. p \in Publishing
      BY <2>3 DEF ReleasePublisher, Publishing
    <3>2. ~collecting /\ activePublishers > 0
      BY <2>0, <3>1
    <3> QED BY <2>0, <2>3, <3>2 DEF ReleasePublisher, WakesCollector
  <2>4. ASSUME NEW c \in Purges, AcquireCollector(c) PROVE WaitersHaveAHolder'
    BY <2>0, <2>4 DEF AcquireCollector
  <2>5. ASSUME NEW c \in Purges, ReleaseCollector(c) PROVE WaitersHaveAHolder'
    <3>1. collecting
      BY <2>0, <2>5 DEF ReleaseCollector, Collecting
    <3> QED BY <2>5, <3>1 DEF ReleaseCollector
  <2>6. CASE Crash
    BY <2>6 DEF Crash
  <2> QED
    BY <2>1, <2>2, <2>3, <2>4, <2>5, <2>6
       DEF ObjectsStep, NextObjects, PublisherStep, PurgeStep, PutSummary, PutObject,
           CommitReference, ThrowInPublish, PurgeRows, ReadReferences, RemoveObject,
           EndCollection, objectVars
<1> QED BY <1>1, <1>2, LockInvariant, PTL DEF SpecObjects, ObjectsStep

-------------------------------------------------------------------------------
(* What the collector has read covers every row until it leaves: nothing is  *)
(* committed while it is inside, and purges only take rows away.             *)
SweepKnowsEveryRow == \A c \in Purges : pc[c] = "sweeping" => references \subseteq seen

LEMMA SweepStep ==
  ASSUME LockInv, SweepKnowsEveryRow, ObjectsStep
  PROVE  SweepKnowsEveryRow'
<1>0. /\ pc \in [Tasks -> PublisherPcs \cup PurgePcs]
      /\ Collecting = {} \/ Publishing = {}
  BY DEF LockInv, TypesButTheCounter, LockIsExclusive, OneSideInside
<1> USE TasksAreDistinct DEF Tasks, Step, SweepKnowsEveryRow
<1>1. ASSUME \A c \in Purges : pc'[c] = "sweeping" => pc[c] = "sweeping",
             references' \subseteq references, seen' = seen
      PROVE  SweepKnowsEveryRow'
  BY <1>1
<1>2. ASSUME NEW p \in Publishers, NEW h \in Objects, PutSummary(p, h) \/ AcquirePublisher(p, h)
      PROVE  SweepKnowsEveryRow'
  BY <1>0, <1>1, <1>2 DEF PutSummary, AcquirePublisher
<1>3. ASSUME NEW p \in Publishers, PutObject(p) \/ ThrowInPublish(p)
      PROVE  SweepKnowsEveryRow'
  BY <1>0, <1>1, <1>3 DEF PutObject, ThrowInPublish, data
<1>4. ASSUME NEW p \in Publishers, CommitReference(p) PROVE SweepKnowsEveryRow'
  <2>1. p \in Publishing /\ pc' = [pc EXCEPT ![p] = "releasing"]
    BY <1>4 DEF CommitReference, Publishing
  <2>2. \A c \in Purges : pc'[c] # "sweeping"
    BY <1>0, <2>1 DEF Collecting
  <2> QED BY <2>2
<1>5. ASSUME NEW p \in Publishers, ReleasePublisher(p) PROVE SweepKnowsEveryRow'
  <2>1. CASE WakesCollector
    <3> DEFINE head == Head(waitingCollectors)
    <3>1. head \in Purges
      BY <2>1, HeadOfTheQueue DEF WakesCollector
    <3>2. /\ pc' = [pc EXCEPT ![p] = "idle", ![head] = "reading"]
          /\ UNCHANGED << references, seen >>
      BY <1>5, <2>1 DEF ReleasePublisher
    <3> HIDE DEF head
    <3> QED BY <1>0, <1>1, <3>1, <3>2
  <2>2. CASE ~WakesCollector
    BY <1>0, <1>1, <1>5, <2>2 DEF ReleasePublisher
  <2> QED BY <2>1, <2>2
<1>6. ASSUME NEW c \in Purges, PurgeRows(c) PROVE SweepKnowsEveryRow'
  <2>1. pc' = [pc EXCEPT ![c] = "purged"] /\ references' \subseteq references /\ seen' = seen
    BY <1>6 DEF PurgeRows, data
  <2> QED BY <1>0, <1>1, <2>1
<1>7. ASSUME NEW c \in Purges, AcquireCollector(c) \/ EndCollection(c)
      PROVE  SweepKnowsEveryRow'
  BY <1>0, <1>1, <1>7 DEF AcquireCollector, EndCollection, data
<1>8. ASSUME NEW c \in Purges, ReadReferences(c) PROVE SweepKnowsEveryRow'
  BY <1>8 DEF ReadReferences
<1>9. ASSUME NEW c \in Purges, ReleaseCollector(c) PROVE SweepKnowsEveryRow'
  <2>1. CASE waitingCollectors # << >>
    <3> DEFINE head == Head(waitingCollectors)
    <3>1. head \in Purges
      BY <2>1, HeadOfTheQueue
    <3>2. /\ pc' = [pc EXCEPT ![c] = "idle", ![head] = "reading"]
          /\ UNCHANGED << references, seen >>
      BY <1>9, <2>1 DEF ReleaseCollector, data
    <3> HIDE DEF head
    <3> QED BY <1>0, <1>1, <3>1, <3>2
  <2>2. CASE waitingCollectors = << >>
    <3>1. /\ pc' = [t \in Tasks |-> IF t = c THEN "idle"
                                    ELSE IF t \in waitingPublishers THEN "putting" ELSE pc[t]]
          /\ UNCHANGED << references, seen >>
      BY <1>9, <2>2 DEF ReleaseCollector, data
    <3> QED BY <1>0, <1>1, <3>1
  <2> QED BY <2>1, <2>2
<1>10. ASSUME NEW c \in Purges, NEW h \in Objects, RemoveObject(c, h)
       PROVE  SweepKnowsEveryRow'
  BY <1>10, <1>1 DEF RemoveObject, data
<1>11. CASE Crash
  BY <1>11 DEF Crash
<1>12. CASE UNCHANGED objectVars
  BY <1>1, <1>12 DEF objectVars, data
<1> QED
  BY <1>2, <1>3, <1>4, <1>5, <1>6, <1>7, <1>8, <1>9, <1>10, <1>11, <1>12
     DEF ObjectsStep, NextObjects, PublisherStep, PurgeStep

(* A row committed inside publish never names a deleted object: between put  *)
(* and commit no collection runs, and a collection deletes nothing it found  *)
(* in the rows, which no commit adds to meanwhile.                           *)
THEOREM ReferencedObjectsExist == SpecObjects => []PublishedObjectsExist
<1>1. InitObjects => SweepKnowsEveryRow /\ PublishedObjectsExist
  BY DEF InitObjects, SweepKnowsEveryRow, PublishedObjectsExist, Tasks
<1>2. LockInv /\ SweepKnowsEveryRow /\ PublishedObjectsExist /\ ObjectsStep
        => PublishedObjectsExist'
  <2> SUFFICES ASSUME LockInv, SweepKnowsEveryRow, PublishedObjectsExist, ObjectsStep
               PROVE  PublishedObjectsExist'
    OBVIOUS
  <2>0. /\ pc \in [Tasks -> PublisherPcs \cup PurgePcs]
        /\ object \in [Tasks -> Objects \cup {None}]
        /\ Collecting = {} \/ Publishing = {}
    BY DEF LockInv, TypesButTheCounter, LockIsExclusive, OneSideInside
  <2> USE TasksAreDistinct DEF Tasks, Step, PublishedObjectsExist
  <2>1. ASSUME \A p \in Publishers : pc'[p] = "committing" => pc[p] = "committing",
               \A p \in Publishers : pc'[p] = "committing" => object'[p] = object[p],
               references' \subseteq references, disk \subseteq disk'
        PROVE  PublishedObjectsExist'
    BY <2>1
  <2>2. ASSUME NEW p \in Publishers, NEW h \in Objects, PutSummary(p, h) \/ AcquirePublisher(p, h)
        PROVE  PublishedObjectsExist'
    BY <2>0, <2>1, <2>2 DEF PutSummary, AcquirePublisher
  <2>3. ASSUME NEW p \in Publishers, PutObject(p) PROVE PublishedObjectsExist'
    BY <2>0, <2>3 DEF PutObject, data
  <2>4. ASSUME NEW p \in Publishers, CommitReference(p) PROVE PublishedObjectsExist'
    <3>1. /\ references' \subseteq references \cup { object[p] }
          /\ object[p] \in disk
          /\ pc' = [pc EXCEPT ![p] = "releasing"]
          /\ disk' = disk /\ object' = object
      BY <2>4 DEF CommitReference, data
    <3> QED BY <2>0, <3>1
  <2>5. ASSUME NEW p \in Publishers, ThrowInPublish(p) PROVE PublishedObjectsExist'
    BY <2>0, <2>1, <2>5 DEF ThrowInPublish, data
  <2>6. ASSUME NEW p \in Publishers, ReleasePublisher(p) PROVE PublishedObjectsExist'
    <3>1. CASE WakesCollector
      <4> DEFINE head == Head(waitingCollectors)
      <4>1. head \in Purges
        BY <3>1, HeadOfTheQueue DEF WakesCollector
      <4>2. /\ pc' = [pc EXCEPT ![p] = "idle", ![head] = "reading"]
            /\ UNCHANGED << references, disk, object >>
        BY <2>6, <3>1 DEF ReleasePublisher
      <4> HIDE DEF head
      <4> QED BY <2>0, <2>1, <4>1, <4>2
    <3>2. CASE ~WakesCollector
      BY <2>0, <2>1, <2>6, <3>2 DEF ReleasePublisher
    <3> QED BY <3>1, <3>2
  <2>7. ASSUME NEW c \in Purges, PurgeRows(c) \/ AcquireCollector(c) \/ ReadReferences(c)
                                   \/ EndCollection(c)
        PROVE  PublishedObjectsExist'
    <3>1. \E s \in { "purged", "reading", "waiting", "sweeping", "releasing" } :
            pc' = [pc EXCEPT ![c] = s]
      BY <2>7 DEF PurgeRows, AcquireCollector, ReadReferences, EndCollection
    <3>2. disk' = disk /\ object' = object /\ references' \subseteq references
      BY <2>7 DEF PurgeRows, AcquireCollector, ReadReferences, EndCollection, data
    <3> QED BY <2>0, <2>1, <3>1, <3>2
  <2>8. ASSUME NEW c \in Purges, ReleaseCollector(c) PROVE PublishedObjectsExist'
    <3>1. CASE waitingCollectors # << >>
      <4> DEFINE head == Head(waitingCollectors)
      <4>1. head \in Purges
        BY <3>1, HeadOfTheQueue
      <4>2. /\ pc' = [pc EXCEPT ![c] = "idle", ![head] = "reading"]
            /\ UNCHANGED << references, disk, object >>
        BY <2>8, <3>1 DEF ReleaseCollector, data
      <4> HIDE DEF head
      <4> QED BY <2>0, <2>1, <4>1, <4>2
    <3>2. CASE waitingCollectors = << >>
      <4>1. /\ pc' = [t \in Tasks |-> IF t = c THEN "idle"
                                      ELSE IF t \in waitingPublishers THEN "putting" ELSE pc[t]]
            /\ UNCHANGED << references, disk, object >>
        BY <2>8, <3>2 DEF ReleaseCollector, data
      <4> QED BY <2>0, <2>1, <4>1
    <3> QED BY <3>1, <3>2
  <2>9. ASSUME NEW c \in Purges, NEW h \in Objects, RemoveObject(c, h)
        PROVE  PublishedObjectsExist'
    <3>1. /\ c \in Collecting /\ h \notin seen
          /\ disk' = disk \ {h} /\ UNCHANGED << references, pc, object >>
      BY <2>9 DEF RemoveObject, data, Collecting
    <3>2. references \subseteq seen
      BY <2>9 DEF RemoveObject, SweepKnowsEveryRow
    <3>3. \A p \in Publishers : pc[p] # "committing"
      BY <2>0, <3>1 DEF Publishing
    <3> QED BY <3>1, <3>2, <3>3
  <2>10. CASE Crash
    BY <2>10 DEF Crash
  <2>11. CASE UNCHANGED objectVars
    BY <2>1, <2>11 DEF objectVars, data
  <2> QED
    BY <2>2, <2>3, <2>4, <2>5, <2>6, <2>7, <2>8, <2>9, <2>10, <2>11
       DEF ObjectsStep, NextObjects, PublisherStep, PurgeStep
<1>3. LockInv /\ SweepKnowsEveryRow /\ ObjectsStep => SweepKnowsEveryRow'
  BY SweepStep
<1> QED BY <1>1, <1>2, <1>3, LockInvariant, PTL DEF SpecObjects, ObjectsStep
===============================================================================
