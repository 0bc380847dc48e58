-------------------------- MODULE VirtQueueAbstract --------------------------
(***************************************************************************)
(* What the queue processing engine promises the guest driver, per queue:  *)
(* the chains it published are completed one at a time, never more than    *)
(* were published, and every completion leaves an interrupt pending until  *)
(* the guest takes it and reads the used ring (spec section 4.1: "fail     *)
(* safe toward over-notifying, never under-notifying").  Draining,         *)
(* batching, the worker pool and EVENT_IDX suppression are hidden: they    *)
(* must not be visible to the guest.  VirtQueue implements this            *)
(* specification (VirtQueue's ImplementsAbstract).                         *)
(*                                                                         *)
(* Nothing obliges a completion: a chain the backend fails on is never     *)
(* completed (the GuestFaults branches of VirtQueue).                      *)
(***************************************************************************)
EXTENDS Naturals

CONSTANTS Queues, MaxChains

VARIABLES
  avail,  \* chains the guest has published, per queue
  used,   \* chains completed to the used ring, per queue
  irq,    \* an interrupt is pending on the queue
  seen    \* the used index the guest last read

avars == <<avail, used, irq, seen>>

TypeOK ==
  /\ avail \in [Queues -> 0..MaxChains]
  /\ used \in [Queues -> 0..MaxChains]
  /\ irq \in [Queues -> BOOLEAN]
  /\ seen \in [Queues -> 0..MaxChains]

Init ==
  /\ avail = [q \in Queues |-> 0]
  /\ used = [q \in Queues |-> 0]
  /\ irq = [q \in Queues |-> FALSE]
  /\ seen = [q \in Queues |-> 0]

\* The guest makes k more chains available.
Publish(q, k) ==
  /\ avail[q] + k <= MaxChains
  /\ avail' = [avail EXCEPT ![q] = @ + k]
  /\ UNCHANGED <<used, irq, seen>>

\* The next published chain is completed and the guest is interrupted.
Complete(q) ==
  /\ used[q] < avail[q]
  /\ used' = [used EXCEPT ![q] = @ + 1]
  /\ irq' = [irq EXCEPT ![q] = TRUE]
  /\ UNCHANGED <<avail, seen>>

\* An interrupt without a completion (over-notifying is allowed).
Signal(q) ==
  /\ irq' = [irq EXCEPT ![q] = TRUE]
  /\ UNCHANGED <<avail, used, seen>>

\* The guest takes the interrupt and reads the used ring.
Interrupt(q) ==
  /\ irq[q]
  /\ irq' = [irq EXCEPT ![q] = FALSE]
  /\ seen' = [seen EXCEPT ![q] = used[q]]
  /\ UNCHANGED <<avail, used>>

Next ==
  \E q \in Queues :
    \/ \E k \in 1..MaxChains : Publish(q, k)
    \/ Complete(q)
    \/ Signal(q)
    \/ Interrupt(q)

Spec == Init /\ [][Next]_avars
=============================================================================
