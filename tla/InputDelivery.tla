---------------------------- MODULE InputDelivery ----------------------------
(***************************************************************************)
(* What the input mailbox of a Run promises, without rows, leases, request  *)
(* ids or statuses: inputs are accepted in one order; the model is shown    *)
(* that order in batches, each input in one batch, one batch at a time; a   *)
(* batch is acknowledged by the checkpoint that holds it before the next    *)
(* one is shown; the mailbox closes when everything accepted has been       *)
(* acknowledged, and accepts nothing afterwards.                            *)
(* RunMailbox implements it.                                                *)
(***************************************************************************)
EXTENDS Naturals

CONSTANT Inputs

VARIABLES
  position,  \* place of an input in the accepted order, 0 while not accepted
  count,     \* number of accepted inputs
  shown,     \* inputs 1..shown have been put into a model request
  acked,     \* inputs 1..acked are inside a saved checkpoint
  closed

deliveryVars == << position, count, shown, acked, closed >>

InitDelivery ==
  /\ position = [i \in Inputs |-> 0]
  /\ count = 0
  /\ shown = 0
  /\ acked = 0
  /\ closed = FALSE

Accept(i) ==
  /\ ~closed
  /\ position[i] = 0
  /\ position' = [position EXCEPT ![i] = count + 1]
  /\ count' = count + 1
  /\ UNCHANGED << shown, acked, closed >>

Show(n) ==
  /\ ~closed
  /\ shown = acked
  /\ n \in (shown + 1)..count
  /\ shown' = n
  /\ UNCHANGED << position, count, acked, closed >>

Acknowledge ==
  /\ acked < shown
  /\ acked' = shown
  /\ UNCHANGED << position, count, shown, closed >>

Close ==
  /\ ~closed
  /\ acked = count
  /\ closed' = TRUE
  /\ UNCHANGED << position, count, shown, acked >>

NextDelivery ==
  \/ \E i \in Inputs : Accept(i)
  \/ \E n \in 1..count : Show(n)
  \/ Acknowledge
  \/ Close

SpecDelivery == InitDelivery /\ [][NextDelivery]_deliveryVars
===============================================================================
