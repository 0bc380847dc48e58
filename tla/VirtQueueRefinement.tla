------------------------- MODULE VirtQueueRefinement -------------------------
(***************************************************************************)
(* Proof that the queue processing engine (VirtQueue) implements what it   *)
(* promises the guest (VirtQueueAbstract), for every queue set, number of  *)
(* chains and pool size, both strategies, with or without EVENT_IDX and    *)
(* guest faults.  The mapping is the identity on the guest-visible state:  *)
(* avail_idx, next_used, the call eventfd and the guest's used index.      *)
(***************************************************************************)
EXTENDS VirtQueueProofs

(***************************************************************************)
(* The invariants the mapping needs are the two already proved: Counted    *)
(* (in IInv) puts every returned chain below avail_idx, and IntInv makes  *)
(* needs_notification ask for an interrupt whenever none is pending.       *)
(***************************************************************************)
RInv == IInv /\ IntInv

AVars == <<avail, used, irq, guestSeen>>

LEMMA InitRefines == Init => Abstract!Init
BY DEF Init, Abstract!Init

\* The guest's own steps are the abstract guest's.
LEMMA PublishRefines ==
  ASSUME NEW q \in Queues, NEW k \in 1..MaxChains, GuestPublish(q, k)
  PROVE  Abstract!Next
<1>1. Abstract!Publish(q, k)
  BY DEF GuestPublish, ringVars, Abstract!Publish
<1>2. QED
  BY <1>1 DEF Abstract!Next

LEMMA InterruptRefines ==
  ASSUME NEW q \in Queues, GuestInterrupt(q)
  PROVE  Abstract!Next
<1>1. Abstract!Interrupt(q)
  BY DEF GuestInterrupt, ringVars, Abstract!Interrupt
<1>2. QED
  BY <1>1 DEF Abstract!Next

\* The event loop's steps before and after a drain are invisible.
LEMMA DrainStutters ==
  ASSUME \/ \E q \in Queues : HandleEvent(q)
         \/ Collect \/ ServeDone \/ Pop \/ PopDone \/ Enable
  PROVE  UNCHANGED AVars
BY DEF HandleEvent, Collect, ServeDone, Pop, PopDone, Enable, guestVars,
       ringVars, AVars

(***************************************************************************)
(* return_descriptor for a chain in flight is a completion when add_used   *)
(* succeeds: the chain is below avail_idx, and an interrupt is pending     *)
(* after it, either because one already was or because needs_notification *)
(* finds used_event crossed.  When add_used fails it is at most a signal.  *)
(***************************************************************************)
LEMMA ReturnRefines ==
  ASSUME TypeOK, Counted, IntInv, NEW q \in Queues, InFlight(q) > 0,
         return_descriptor(q), UNCHANGED <<avail, guestSeen>>
  PROVE  [Abstract!Next]_AVars
<1>1. PICK r \in AddUsedOutcomes(q) :
        /\ used' = [used EXCEPT ![q] = r[1]]
        /\ irq' = [irq EXCEPT ![q] = TRUE]
           \/ /\ eventIdx
              /\ irq' = [irq EXCEPT ![q] =
                           @ \/ NeedEvent(usedEvent[q], r[1], Sub16(r[1], r[2]))]
  BY Zenon DEF return_descriptor
<1>2. used[q] < MaxChains
  BY InFlightBound
<1>3. CASE r = <<used[q] + 1, numAdded[q] + 1>>
  <2>1. irq' = [irq EXCEPT ![q] = TRUE]
    <3>1. CASE irq' = [irq EXCEPT ![q] = TRUE]
      BY <3>1
    <3>2. CASE eventIdx /\ irq[q]
      BY <3>2, <1>1 DEF TypeOK
    <3>3. CASE eventIdx /\ ~irq[q]
      <4>1. usedEvent[q] = used[q]
        BY <3>3 DEF IntInv
      <4>2. used[q] \in Nat /\ numAdded[q] \in Nat /\ numAdded[q] + 1 < 65536
        BY <1>2, <3>3, NumAddedBound DEF TypeOK
      <4>3. NeedEvent(used[q], used[q] + 1, Sub16(used[q] + 1, numAdded[q] + 1))
        BY <4>2, NeedEventReturn
      <4>4. NeedEvent(usedEvent[q], r[1], Sub16(r[1], r[2]))
        BY <4>1, <4>3, <1>3
      <4>5. QED
        BY <4>4, <1>1, <3>3 DEF TypeOK
    <3>4. QED
      BY <3>1, <3>2, <3>3, <1>1
  <2>2. used[q] < avail[q]
    BY MaxChainsAssumption DEF TypeOK, Counted, InFlight
  <2>3. used' = [used EXCEPT ![q] = used[q] + 1]
    BY <1>1, <1>3
  <2>4. Abstract!Complete(q)
    BY <2>1, <2>2, <2>3 DEF Abstract!Complete
  <2>5. QED
    BY <2>4 DEF Abstract!Next
<1>4. CASE r = <<used[q], numAdded[q]>>
  <2>1. used' = used
    BY <1>1, <1>4 DEF TypeOK
  <2>2. CASE irq' = [irq EXCEPT ![q] = TRUE]
    <3>1. Abstract!Signal(q)
      BY <2>1, <2>2 DEF Abstract!Signal
    <3>2. QED
      BY <3>1 DEF Abstract!Next
  <2>3. CASE irq' # [irq EXCEPT ![q] = TRUE]
    <3>1. irq' = irq
      BY <2>3, <1>1 DEF TypeOK
    <3>2. QED
      BY <2>1, <3>1 DEF AVars
  <2>4. QED
    BY <2>2, <2>3
<1>5. QED
  BY <1>3, <1>4 DEF AddUsedOutcomes

LEMMA ServeRefines ==
  ASSUME RInv, Serve
  PROVE  [Abstract!Next]_AVars
<1>1. TypeOK /\ Counted /\ IntInv /\ dq \in Queues /\ InFlight(dq) > 0
  BY DEF RInv, IInv, Serve, InFlight, TypeOK
<1>2. UNCHANGED <<avail, guestSeen>>
  BY DEF Serve
<1>3. CASE return_descriptor(dq)
  BY <1>1, <1>2, <1>3, ReturnRefines
<1>4. CASE UNCHANGED <<irq, used, numAdded>>
  BY <1>2, <1>4 DEF AVars
<1>5. QED
  BY <1>3, <1>4 DEF Serve

LEMMA WorkerRunRefines ==
  ASSUME RInv, NEW q \in Queues, WorkerRun(q)
  PROVE  [Abstract!Next]_AVars
<1>1. TypeOK /\ Counted /\ IntInv /\ InFlight(q) > 0
  BY DEF RInv, IInv, WorkerRun, InFlight, TypeOK
<1>2. UNCHANGED <<avail, guestSeen>>
  BY DEF WorkerRun
<1>3. CASE return_descriptor(q)
  BY <1>1, <1>2, <1>3, ReturnRefines
<1>4. CASE UNCHANGED <<irq, used, numAdded>>
  BY <1>2, <1>4 DEF AVars
<1>5. QED
  BY <1>3, <1>4 DEF WorkerRun

LEMMA NextRefines == RInv /\ [Next]_vars => [Abstract!Next]_AVars
<1> SUFFICES ASSUME RInv, [Next]_vars PROVE [Abstract!Next]_AVars
  OBVIOUS
<1>1. CASE \E q \in Queues, k \in 1..MaxChains : GuestPublish(q, k)
  BY <1>1, PublishRefines
<1>2. CASE \E q \in Queues : GuestInterrupt(q)
  BY <1>2, InterruptRefines
<1>3. CASE \/ \E q \in Queues : HandleEvent(q)
           \/ Collect \/ ServeDone \/ Pop \/ PopDone \/ Enable
  BY <1>3, DrainStutters
<1>4. CASE Serve
  BY <1>4, ServeRefines
<1>5. CASE \E q \in Queues : WorkerRun(q)
  BY <1>5, WorkerRunRefines
<1>6. CASE UNCHANGED vars
  BY <1>6 DEF vars, AVars
<1>7. QED
  BY <1>1, <1>2, <1>3, <1>4, <1>5, <1>6 DEF Next, DeviceStep

(***************************************************************************)
(* The engine implements VirtQueueAbstract (ImplementsAbstract): for every *)
(* queue set, chain bound and pool size, serial or pooled, with or without *)
(* EVENT_IDX and guest faults, each add_used completes a published chain   *)
(* and leaves an interrupt pending, and event suppression, batching and    *)
(* the pool are invisible to the guest.                                    *)
(***************************************************************************)
THEOREM QueueRefinement == Spec => ImplementsAbstract
<1>1. Spec => []RInv
  <2>1. Init => RInv
    BY InitIInv, InitIntInv DEF RInv
  <2>2. RInv /\ [Next]_vars => RInv'
    BY NextIInv, NextIntInv DEF RInv
  <2>3. QED
    BY <2>1, <2>2, PTL DEF Spec
<1>2. QED
  BY <1>1, InitRefines, NextRefines, PTL
  DEF Spec, ImplementsAbstract, Abstract!Spec, AVars, Abstract!avars
=============================================================================
