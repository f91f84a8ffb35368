------------------------------- MODULE ToolGate -------------------------------
(***************************************************************************)
(* The fair shared/exclusive gate in front of every platform tool           *)
(* (apps/server/src/agent-runtime/tools/ToolExecutionGate.ts): read-only    *)
(* tools run together, a tool that writes runs alone, and once an exclusive *)
(* call waits no later shared call passes it.  A call made inside the lease *)
(* of another runs under that lease; it is part of the outer call here.     *)
(***************************************************************************)
EXTENDS Naturals, Sequences

CONSTANTS
  Calls,      \* tool calls, by call id
  Exclusive   \* those whose descriptor says parallelism: 'exclusive'

ASSUME ExclusiveAreCalls == Exclusive \subseteq Calls

VARIABLES
  activeShared,
  activeExclusive,
  waiting,      \* queue of the calls whose acquire() is not resolved
  lease         \* what each call holds: "none", "waiting" or "held"

gate == << activeShared, activeExclusive, waiting, lease >>

InitGate ==
  /\ activeShared = 0
  /\ activeExclusive = FALSE
  /\ waiting = << >>
  /\ lease = [c \in Calls |-> "none"]

CanAcquire(c) ==
  /\ ~activeExclusive
  /\ c \in Exclusive => activeShared = 0

(* How many calls at the head of the queue pump() lets in: one exclusive     *)
(* call when nobody is inside, or every shared call before the first         *)
(* exclusive one.                                                            *)
SharedPrefix(q) ==
  CHOOSE n \in 0..Len(q) :
    /\ \A i \in 1..n : q[i] \notin Exclusive
    /\ n = Len(q) \/ q[n + 1] \in Exclusive

Admitted(shared, exclusive, q) ==
  IF exclusive \/ q = << >> THEN 0
  ELSE IF q[1] \in Exclusive THEN IF shared = 0 THEN 1 ELSE 0
  ELSE SharedPrefix(q)

Pump(shared, exclusive, q, held) ==
  LET n == Admitted(shared, exclusive, q)
      let == { q[i] : i \in 1..n }
  IN  /\ activeExclusive' = (exclusive \/ \E c \in let : c \in Exclusive)
      /\ activeShared' = IF let \cap Exclusive = {} THEN shared + n ELSE shared
      /\ waiting' = SubSeq(q, n + 1, Len(q))
      /\ lease' = [c \in Calls |-> IF c \in let THEN "held" ELSE held[c]]

MayEnterAtOnce(c) == waiting = << >> /\ CanAcquire(c)

Acquire(c) ==
  /\ lease[c] = "none"
  /\ IF MayEnterAtOnce(c)
     THEN /\ activeExclusive' = (c \in Exclusive)
          /\ activeShared' = IF c \in Exclusive THEN activeShared ELSE activeShared + 1
          /\ lease' = [lease EXCEPT ![c] = "held"]
          /\ UNCHANGED waiting
     ELSE Pump(activeShared, activeExclusive, Append(waiting, c),
               [lease EXCEPT ![c] = "waiting"])

ReleaseWithoutPump(c) ==
  /\ lease[c] = "held"
  /\ lease' = [lease EXCEPT ![c] = "none"]
  /\ IF c \in Exclusive
     THEN activeExclusive' = FALSE /\ UNCHANGED << activeShared, waiting >>
     ELSE activeShared' = activeShared - 1 /\ UNCHANGED << activeExclusive, waiting >>

Release(c) ==
  /\ lease[c] = "held"
  /\ IF c \in Exclusive
     THEN Pump(activeShared, FALSE, waiting, [lease EXCEPT ![c] = "none"])
     ELSE Pump(activeShared - 1, activeExclusive, waiting, [lease EXCEPT ![c] = "none"])

(* The gate lives in the process. *)
ResetGate ==
  /\ activeShared' = 0
  /\ activeExclusive' = FALSE
  /\ waiting' = << >>
  /\ lease' = [c \in Calls |-> "none"]

(* Calls come and go.  A call that is inside ends; nobody owes a call.       *)
NextGate == \E c \in Calls : Acquire(c) \/ Release(c)
SpecGate == InitGate /\ [][NextGate]_gate
-------------------------------------------------------------------------------
GateTypeOK ==
  /\ activeShared \in Nat /\ activeExclusive \in BOOLEAN
  /\ waiting \in Seq(Calls) /\ lease \in [Calls -> { "none", "waiting", "held" }]

Inside == { c \in Calls : lease[c] = "held" }

(* A call that writes is alone: nothing it could race with is inside.        *)
ExclusiveIsAlone ==
  \A c \in Inside : c \in Exclusive => Inside = {c}

(* No wake-up is lost: while a call waits, somebody is inside who will pump. *)
(* The queue holds each waiting call once.                                   *)
GateIsNotStuck ==
  /\ waiting # << >> => Inside # {}
  /\ \A c \in Calls : lease[c] = "waiting" <=> \E i \in DOMAIN waiting : waiting[i] = c
  /\ \A i, j \in DOMAIN waiting : waiting[i] = waiting[j] => i = j

(* A call never overtakes one that already waits: whoever gets in leaves     *)
(* nobody queued before it, so neither lane starves the other.               *)
NoOvertaking ==
  [][\A i \in DOMAIN waiting, c \in Calls :
       lease[c] # "held" /\ lease'[c] = "held"
         => \/ \E j \in 1..i : waiting[j] = c
            \/ lease'[waiting[i]] # "waiting"]_gate

===============================================================================
