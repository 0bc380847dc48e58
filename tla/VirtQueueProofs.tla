-------------------------- MODULE VirtQueueProofs --------------------------
(***************************************************************************)
(* Proofs about the queue processing engine (VirtQueue), for every number  *)
(* of chains, every pool size and both strategies.                         *)
(***************************************************************************)
EXTENDS VirtQueue, TLAPS

(***************************************************************************)
(* The inductive invariant.  Beyond the types it says that no chain is     *)
(* counted twice (returned + queued on the pool + collected by the serial  *)
(* loop never exceeds what was popped), that a collected batch exists only *)
(* in the serial loop, that the guest's view trails next_used, and the two *)
(* facts the wake-up argument needs: under EVENT_IDX avail_event equals    *)
(* next_avail on every queue the event loop is not handling, so the       *)
(* guest's next publication kicks; without EVENT_IDX a chain published     *)
(* after the serial loop collected its batch has a kick pending.           *)
(***************************************************************************)
InFlight(q) == jobs[q] + (IF dq = q THEN batch ELSE 0)

\* no chain counted twice, and the order of the ring indices
Counted ==
  \A q \in Queues :
    /\ used[q] + InFlight(q) <= nextAvail[q]
    /\ nextAvail[q] <= avail[q]
    /\ numAdded[q] <= used[q]
    /\ usedEvent[q] <= used[q]
    /\ guestSeen[q] <= used[q]
    /\ availEvent[q] <= nextAvail[q]

BatchInSerial == batch # 0 => dpc \in {"Serve", "Crashed"}

EventPublished ==
  \A q \in Queues : eventIdx /\ ~Handling(q) => availEvent[q] = nextAvail[q]

UncollectedKicked ==
  dpc = "Serve" /\ ~eventIdx => nextAvail[dq] = avail[dq] \/ kick[dq]

IInv ==
  /\ TypeOK
  /\ Counted
  /\ BatchInSerial
  /\ EventPublished
  /\ UncollectedKicked
  /\ NoLostWakeup
(***************************************************************************)
(* The interrupt invariant: while no interrupt is pending on a queue the   *)
(* guest has consumed the used ring up to next_used and, under EVENT_IDX,  *)
(* published used_event there; so the next add_used makes                 *)
(* needs_notification ask for an interrupt.  Without guest faults every   *)
(* needs_notification reads used_event and resets num_added, so num_added *)
(* is 0 between returns and old = next_used - num_added never wraps.       *)
(***************************************************************************)
NumAddedReset ==
  eventIdx /\ ~GuestFaults => \A q \in Queues : numAdded[q] = 0

IntInv ==
  /\ \A q \in Queues :
       ~irq[q] => guestSeen[q] = used[q] /\ (eventIdx => usedEvent[q] = used[q])
  /\ NumAddedReset

-----------------------------------------------------------------------------
\* Under EVENT_IDX the guest kicks when it publishes past an avail_event that
\* equals the old avail_idx.
LEMMA NeedEventPublish ==
  ASSUME NEW a \in Nat, NEW k \in Nat, k >= 1, k < 65536
  PROVE  NeedEvent(a, a + k, a)
BY DEF NeedEvent, Sub16

LEMMA InitIInv == Init => IInv
BY QueuesAssumption, MaxChainsAssumption, PoolSizeAssumption
DEF Init, IInv, TypeOK, Counted, InFlight, BatchInSerial, EventPublished,
    UncollectedKicked, NoLostWakeup, Handling, DPCs

\* What the guest's publication does to the kick eventfds.
LEMMA PublishKick ==
  ASSUME TypeOK, NEW q \in Queues, NEW k \in 1..MaxChains, GuestPublish(q, k)
  PROVE  /\ kick[q] => kick'[q]
         /\ ~eventIdx => kick'[q]
         /\ NeedEvent(availEvent[q], avail[q] + k, avail[q]) => kick'[q]
         /\ \A p \in Queues \ {q} : kick'[p] = kick[p]
BY Zenon DEF GuestPublish, TypeOK

LEMMA PublishIInv ==
  ASSUME IInv, NEW q \in Queues, NEW k \in 1..MaxChains, GuestPublish(q, k)
  PROVE  IInv'
<1>0. /\ avail[q] + k <= MaxChains
      /\ avail[q] + k - used[q] <= QueueSize
      /\ avail' = [avail EXCEPT ![q] = avail[q] + k]
      /\ UNCHANGED <<usedEvent, irq, guestSeen, nextAvail, availEvent, used,
                     numAdded, eventIdx, dpc, dq, batch, jobs, workers>>
  BY DEF GuestPublish, ringVars
<1>1. TypeOK
  BY DEF IInv
<1>k. /\ kick[q] => kick'[q]
      /\ ~eventIdx => kick'[q]
      /\ NeedEvent(availEvent[q], avail[q] + k, avail[q]) => kick'[q]
      /\ \A p \in Queues \ {q} : kick'[p] = kick[p]
  BY <1>1, PublishKick
<1>2. kick' \in [Queues -> BOOLEAN]
  BY <1>1 DEF GuestPublish, TypeOK
<1>3. TypeOK' /\ Counted' /\ BatchInSerial' /\ EventPublished'
  BY <1>0, <1>1, <1>2 DEF IInv, TypeOK, Counted, InFlight, BatchInSerial,
                          EventPublished, Handling
<1>4. UncollectedKicked'
  <2> SUFFICES ASSUME dpc = "Serve", ~eventIdx
               PROVE  nextAvail[dq] = avail'[dq] \/ kick'[dq]
    BY <1>0 DEF UncollectedKicked
  <2>1. CASE dq = q
    BY <2>1, <1>k
  <2>2. CASE dq # q
    <3>1. avail'[dq] = avail[dq] /\ kick'[dq] = kick[dq]
      BY <2>2, <1>0, <1>1, <1>k DEF TypeOK
    <3>2. QED
      BY <3>1 DEF IInv, UncollectedKicked
  <2>3. QED
    BY <2>1, <2>2
<1>5. NoLostWakeup'
  <2> SUFFICES ASSUME NEW p \in Queues, ~Handling(p)', ~kick'[p]
               PROVE  nextAvail'[p] = avail'[p]
    BY DEF NoLostWakeup
  <2>0. ~Handling(p)
    BY <1>0 DEF Handling
  <2>1. CASE p # q
    <3>1. avail'[p] = avail[p] /\ ~kick[p]
      BY <2>1, <1>0, <1>1, <1>k DEF TypeOK
    <3>2. QED
      BY <3>1, <2>0, <1>0 DEF IInv, NoLostWakeup
  <2>2. CASE p = q
    <3>1. ~kick[q] /\ eventIdx
          /\ ~NeedEvent(availEvent[q], avail[q] + k, avail[q])
      BY <2>2, <1>k
    <3>2. availEvent[q] = avail[q]
      BY <3>1, <2>0, <2>2 DEF IInv, NoLostWakeup, EventPublished
    <3>3. NeedEvent(availEvent[q], avail[q] + k, avail[q])
      <4>1. k < 65536
        <5>1. used[q] <= avail[q]
          <6>1. InFlight(q) \in Nat
            BY <1>1 DEF TypeOK, InFlight
          <6>2. QED
            BY <6>1, <1>1 DEF IInv, Counted, TypeOK
        <5>2. avail[q] \in Nat /\ used[q] \in Nat /\ k \in Nat
          BY <1>1 DEF TypeOK
        <5>3. QED
          BY <5>1, <5>2, <1>0, QueueSizeAssumption
      <4>2. QED
        BY <3>2, <4>1, <1>1, NeedEventPublish DEF TypeOK
    <3>4. QED
      BY <3>1, <3>3
  <2>3. QED
    BY <2>1, <2>2
<1>6. QED
  BY <1>3, <1>4, <1>5 DEF IInv

LEMMA InterruptIInv ==
  ASSUME IInv, NEW q \in Queues, GuestInterrupt(q)
  PROVE  IInv'
BY DEF GuestInterrupt, ringVars, IInv, TypeOK, Counted, InFlight, BatchInSerial, EventPublished,
    UncollectedKicked, NoLostWakeup, Handling, DPCs

LEMMA HandleEventIInv ==
  ASSUME IInv, NEW q \in Queues, HandleEvent(q)
  PROVE  IInv'
BY DEF HandleEvent, DrainStep, ringVars, IInv, TypeOK, Counted, InFlight, BatchInSerial, EventPublished,
    UncollectedKicked, NoLostWakeup, Handling, DPCs

LEMMA CollectIInv ==
  ASSUME IInv, Collect
  PROVE  IInv'
BY MaxChainsAssumption DEF Collect, guestVars, IInv, TypeOK, Counted, InFlight, BatchInSerial, EventPublished,
    UncollectedKicked, NoLostWakeup, Handling, DPCs

LEMMA ServeDoneIInv ==
  ASSUME IInv, ServeDone
  PROVE  IInv'
BY DEF ServeDone, AfterDrain, guestVars, ringVars, IInv, TypeOK, Counted, InFlight, BatchInSerial, EventPublished,
    UncollectedKicked, NoLostWakeup, Handling, DPCs

LEMMA PopIInv ==
  ASSUME IInv, Pop
  PROVE  IInv'
BY MaxChainsAssumption DEF Pop, guestVars, IInv, TypeOK, Counted, InFlight, BatchInSerial, EventPublished,
    UncollectedKicked, NoLostWakeup, Handling, DPCs

LEMMA PopDoneIInv ==
  ASSUME IInv, PopDone
  PROVE  IInv'
BY DEF PopDone, AfterDrain, guestVars, ringVars, IInv, TypeOK, Counted, InFlight, BatchInSerial, EventPublished,
    UncollectedKicked, NoLostWakeup, Handling, DPCs

LEMMA EnableIInv ==
  ASSUME IInv, Enable
  PROVE  IInv'
BY DEF Enable, DrainStep, guestVars, IInv, TypeOK, Counted, InFlight, BatchInSerial, EventPublished,
    UncollectedKicked, NoLostWakeup, Handling, DPCs

LEMMA StutterIInv ==
  ASSUME IInv, UNCHANGED vars
  PROVE  IInv'
BY DEF vars, IInv, TypeOK, Counted, InFlight, BatchInSerial, EventPublished,
    UncollectedKicked, NoLostWakeup, Handling, DPCs

\* What return_descriptor does to the ring: add_used moves next_used and
\* num_added of queue q together by one, or by none when it fails, and
\* needs_notification may reset num_added; only queue q's entries change.
LEMMA ReturnDescriptorEffect ==
  ASSUME TypeOK, NEW q \in Queues, return_descriptor(q)
  PROVE  \E d \in {0, 1} :
           /\ used' = [used EXCEPT ![q] = used[q] + d]
           /\ \/ numAdded' = [numAdded EXCEPT ![q] = numAdded[q] + d]
              \/ numAdded' = [numAdded EXCEPT ![q] = 0]
           /\ irq' \in [Queues -> BOOLEAN]
<1>1. \E r \in AddUsedOutcomes(q) :
        /\ used' = [used EXCEPT ![q] = r[1]]
        /\ \/ numAdded' = [numAdded EXCEPT ![q] = r[2]]
           \/ numAdded' = [numAdded EXCEPT ![q] = 0]
        /\ irq' \in [Queues -> BOOLEAN]
  BY DEF return_descriptor, TypeOK
<1>2. PICK r \in AddUsedOutcomes(q) :
        /\ used' = [used EXCEPT ![q] = r[1]]
        /\ \/ numAdded' = [numAdded EXCEPT ![q] = r[2]]
           \/ numAdded' = [numAdded EXCEPT ![q] = 0]
        /\ irq' \in [Queues -> BOOLEAN]
  BY <1>1
<1>3. r = <<used[q] + 1, numAdded[q] + 1>> \/ r = <<used[q], numAdded[q]>>
  BY DEF AddUsedOutcomes
<1>4. CASE r = <<used[q] + 1, numAdded[q] + 1>>
  <2>1. r[1] = used[q] + 1 /\ r[2] = numAdded[q] + 1
    BY <1>4
  <2>2. QED
    BY <1>2, <2>1
<1>5. CASE r = <<used[q], numAdded[q]>>
  <2>1. r[1] = used[q] + 0 /\ r[2] = numAdded[q] + 0
    BY <1>5, TypeOK DEF TypeOK
  <2>2. QED
    BY <1>2, <2>1
<1>6. QED
  BY <1>3, <1>4, <1>5

LEMMA ServeIInv ==
  ASSUME IInv, Serve
  PROVE  IInv'
<1>0. /\ dpc = "Serve" /\ batch > 0 /\ batch' = batch - 1
      /\ dpc' \in {"Serve", "Crashed"}
      /\ UNCHANGED <<avail, kick, usedEvent, guestSeen, nextAvail, availEvent,
                     eventIdx, dq, jobs, workers>>
  BY DEF Serve
<1>1. dq \in Queues /\ TypeOK
  BY DEF IInv, TypeOK
<1>2. \E d \in {0, 1} :
        /\ used' = [used EXCEPT ![dq] = used[dq] + d]
        /\ \/ numAdded' = [numAdded EXCEPT ![dq] = numAdded[dq] + d]
           \/ numAdded' = [numAdded EXCEPT ![dq] = 0]
        /\ irq' \in [Queues -> BOOLEAN]
  <2>1. CASE return_descriptor(dq)
    BY <2>1, <1>1, ReturnDescriptorEffect
  <2>2. CASE UNCHANGED <<irq, used, numAdded>>
    <3>1. used' = [used EXCEPT ![dq] = used[dq] + 0]
          /\ numAdded' = [numAdded EXCEPT ![dq] = numAdded[dq] + 0]
      BY <2>2, <1>1 DEF TypeOK
    <3>2. QED
      BY <2>2, <3>1, <1>1 DEF TypeOK
  <2>3. QED
    BY <2>1, <2>2 DEF Serve
<1>3. PICK d \in {0, 1} :
        /\ used' = [used EXCEPT ![dq] = used[dq] + d]
        /\ \/ numAdded' = [numAdded EXCEPT ![dq] = numAdded[dq] + d]
           \/ numAdded' = [numAdded EXCEPT ![dq] = 0]
        /\ irq' \in [Queues -> BOOLEAN]
  BY <1>2
<1>4. QED
  BY <1>0, <1>1, <1>3, MaxChainsAssumption, PoolSizeAssumption
  DEF IInv, TypeOK, Counted, InFlight, BatchInSerial, EventPublished,
      UncollectedKicked, NoLostWakeup, Handling, DPCs

LEMMA WorkerRunIInv ==
  ASSUME IInv, NEW q \in Queues, WorkerRun(q)
  PROVE  IInv'
<1>0. /\ jobs[q] > 0 /\ jobs' = [jobs EXCEPT ![q] = jobs[q] - 1]
      /\ workers' \in 0..PoolSize
      /\ UNCHANGED <<avail, kick, usedEvent, guestSeen, nextAvail, availEvent,
                     eventIdx, dpc, dq, batch>>
  BY PoolSizeAssumption DEF WorkerRun, IInv, TypeOK
<1>1. q \in Queues /\ TypeOK
  BY DEF IInv, TypeOK
<1>2. \E d \in {0, 1} :
        /\ used' = [used EXCEPT ![q] = used[q] + d]
        /\ \/ numAdded' = [numAdded EXCEPT ![q] = numAdded[q] + d]
           \/ numAdded' = [numAdded EXCEPT ![q] = 0]
        /\ irq' \in [Queues -> BOOLEAN]
  <2>1. CASE return_descriptor(q)
    BY <2>1, <1>1, ReturnDescriptorEffect
  <2>2. CASE UNCHANGED <<irq, used, numAdded>>
    <3>1. used' = [used EXCEPT ![q] = used[q] + 0]
          /\ numAdded' = [numAdded EXCEPT ![q] = numAdded[q] + 0]
      BY <2>2, <1>1 DEF TypeOK
    <3>2. QED
      BY <2>2, <3>1, <1>1 DEF TypeOK
  <2>3. QED
    BY <2>1, <2>2 DEF WorkerRun
<1>3. PICK d \in {0, 1} :
        /\ used' = [used EXCEPT ![q] = used[q] + d]
        /\ \/ numAdded' = [numAdded EXCEPT ![q] = numAdded[q] + d]
           \/ numAdded' = [numAdded EXCEPT ![q] = 0]
        /\ irq' \in [Queues -> BOOLEAN]
  BY <1>2
<1>4. QED
  BY <1>0, <1>1, <1>3, MaxChainsAssumption, PoolSizeAssumption
  DEF IInv, TypeOK, Counted, InFlight, BatchInSerial, EventPublished,
      UncollectedKicked, NoLostWakeup, Handling, DPCs

LEMMA NextIInv == IInv /\ [Next]_vars => IInv'
<1> SUFFICES ASSUME IInv, [Next]_vars PROVE IInv'
  OBVIOUS
<1>1. CASE \E q \in Queues, k \in 1..MaxChains : GuestPublish(q, k)
  BY <1>1, PublishIInv
<1>2. CASE \E q \in Queues : GuestInterrupt(q)
  BY <1>2, InterruptIInv
<1>3. CASE \E q \in Queues : HandleEvent(q)
  BY <1>3, HandleEventIInv
<1>4. CASE DeviceStep
  BY <1>4, CollectIInv, ServeIInv, ServeDoneIInv, PopIInv, PopDoneIInv,
     EnableIInv DEF DeviceStep
<1>5. CASE \E q \in Queues : WorkerRun(q)
  BY <1>5, WorkerRunIInv
<1>6. CASE UNCHANGED vars
  BY <1>6, StutterIInv
<1>7. QED
  BY <1>1, <1>2, <1>3, <1>4, <1>5, <1>6 DEF Next

(***************************************************************************)
(* The inductive invariant holds in every reachable state of the engine,   *)
(* for every number of chains, every pool size, both strategies and with   *)
(* or without EVENT_IDX and guest faults.                                  *)
(***************************************************************************)
THEOREM InvariantHolds == Spec => []IInv
<1>1. Init => IInv
  BY InitIInv
<1>2. IInv /\ [Next]_vars => IInv'
  BY NextIInv
<1>3. QED
  BY <1>1, <1>2, PTL DEF Spec

(* Type correctness of the engine: every ring index stays within the      *)
(* chains the guest published, the event-loop thread stays in one of the  *)
(* places of handle_event, and the pool never has more workers than      *)
(* thread_pool_size.                                                       *)
THEOREM TypeCorrect == Spec => []TypeOK
<1>1. IInv => TypeOK
  BY DEF IInv
<1>2. QED
  BY <1>1, InvariantHolds, PTL

(* No missed wake-up (handle_event_serial/handle_event_pool and the        *)
(* enable_notification recheck): whenever the event-loop thread is not    *)
(* handling a queue and no kick is pending on it, every chain the guest   *)
(* published there has been popped.                                        *)
THEOREM WakeUpSafety == Spec => []NoLostWakeup
<1>1. IInv => NoLostWakeup
  BY DEF IInv
<1>2. QED
  BY <1>1, InvariantHolds, PTL

\* Under EVENT_IDX, add_used past a used_event equal to the old next_used
\* makes needs_notification ask for an interrupt, whatever num_added was.
LEMMA NeedEventReturn ==
  ASSUME NEW u \in Nat, NEW n \in Nat, n + 1 < 65536
  PROVE  NeedEvent(u, u + 1, Sub16(u + 1, n + 1))
BY DEF NeedEvent, Sub16

\* Under EVENT_IDX num_added stays below 2^16 when next_used is below the
\* chain bound: it is 0 without guest faults, and at most next_used with them.
LEMMA NumAddedBound ==
  ASSUME TypeOK, Counted, IntInv, NEW q \in Queues, used[q] < MaxChains, eventIdx
  PROVE  numAdded[q] + 1 < 65536
<1>1. CASE GuestFaults
  <2>1. numAdded[q] <= used[q] /\ used[q] \in Nat /\ numAdded[q] \in Nat
    BY DEF Counted, TypeOK
  <2>2. QED
    BY <1>1, <2>1, MaxChainsAssumption
<1>2. CASE ~GuestFaults
  BY <1>2 DEF IntInv, NumAddedReset
<1>3. QED
  BY <1>1, <1>2

LEMMA ReturnDescriptorIntInv ==
  ASSUME TypeOK, Counted, IntInv, NEW q \in Queues, used[q] < MaxChains,
         return_descriptor(q), UNCHANGED <<usedEvent, guestSeen, eventIdx>>
  PROVE  IntInv'
<1>1. PICK r \in AddUsedOutcomes(q) :
        /\ used' = [used EXCEPT ![q] = r[1]]
        /\ irq' = [irq EXCEPT ![q] = TRUE]
           \/ /\ eventIdx
              /\ irq' = [irq EXCEPT ![q] =
                           @ \/ NeedEvent(usedEvent[q], r[1], Sub16(r[1], r[2]))]
  BY Zenon DEF return_descriptor
<1>2. NumAddedReset'
  <2> SUFFICES ASSUME eventIdx, ~GuestFaults, NEW p \in Queues
               PROVE  numAdded'[p] = 0
    BY DEF NumAddedReset
  <2>1. numAdded' = [numAdded EXCEPT ![q] = 0]
    BY Zenon DEF return_descriptor
  <2>2. QED
    BY <2>1 DEF IntInv, NumAddedReset, TypeOK
<1>3. \A p \in Queues :
        ~irq'[p] => guestSeen[p] = used'[p] /\ (eventIdx => usedEvent[p] = used'[p])
  <2> SUFFICES ASSUME NEW p \in Queues, ~irq'[p]
               PROVE  guestSeen[p] = used'[p] /\ (eventIdx => usedEvent[p] = used'[p])
    OBVIOUS
  <2>1. CASE p # q
    <3>1. used'[p] = used[p] /\ irq'[p] = irq[p]
      BY <1>1, <2>1 DEF TypeOK
    <3>2. QED
      BY <3>1 DEF IntInv
  <2>2. CASE p = q
    <3>1. /\ eventIdx /\ ~irq[q]
          /\ ~NeedEvent(usedEvent[q], r[1], Sub16(r[1], r[2]))
          /\ used'[q] = r[1]
      BY <1>1, <2>2 DEF TypeOK
    <3>2. guestSeen[q] = used[q] /\ usedEvent[q] = used[q]
      BY <3>1 DEF IntInv
    <3>3. r = <<used[q] + 1, numAdded[q] + 1>> \/ r = <<used[q], numAdded[q]>>
      BY DEF AddUsedOutcomes
    <3>4. ~(r = <<used[q] + 1, numAdded[q] + 1>>)
      <4> SUFFICES ASSUME r = <<used[q] + 1, numAdded[q] + 1>> PROVE FALSE
        OBVIOUS
      <4>1. used[q] \in Nat /\ numAdded[q] \in Nat
        BY DEF TypeOK
      <4>2. numAdded[q] + 1 < 65536
        BY <3>1, <4>1, NumAddedBound
      <4>3. NeedEvent(used[q], used[q] + 1, Sub16(used[q] + 1, numAdded[q] + 1))
        BY <4>1, <4>2, NeedEventReturn
      <4>4. QED
        BY <4>3, <3>1, <3>2
    <3>5. QED
      BY <3>1, <3>2, <3>3, <3>4, <2>2
  <2>3. QED
    BY <2>1, <2>2
<1>4. QED
  BY <1>2, <1>3 DEF IntInv

\* A chain being served or run is counted in flight, so next_used is below
\* the bound when return_descriptor is called for it.
LEMMA InFlightBound ==
  ASSUME TypeOK, Counted, NEW q \in Queues, InFlight(q) > 0
  PROVE  used[q] < MaxChains
<1> DEFINE i == InFlight(q)
<1>1. used[q] + i <= nextAvail[q]
  BY DEF Counted
<1>2. i \in Int /\ i > 0
  BY DEF TypeOK, InFlight
<1>3. used[q] \in Int /\ nextAvail[q] \in Int /\ nextAvail[q] <= MaxChains
  BY DEF TypeOK
<1>4. QED
  BY ONLY <1>1, <1>2, <1>3, MaxChainsAssumption

LEMMA NextIntInv == IInv /\ IntInv /\ [Next]_vars => IntInv'
<1> SUFFICES ASSUME IInv, IntInv, [Next]_vars PROVE IntInv'
  OBVIOUS
<1>0. TypeOK /\ Counted
  BY DEF IInv
<1>1. CASE UNCHANGED <<irq, used, numAdded, usedEvent, guestSeen, eventIdx>>
  BY <1>1 DEF IntInv, NumAddedReset
<1>2. ASSUME NEW q \in Queues, GuestInterrupt(q) PROVE IntInv'
  BY <1>2, <1>0 DEF GuestInterrupt, ringVars, IntInv, NumAddedReset, TypeOK
<1>3. CASE Serve
  <2>1. CASE return_descriptor(dq)
    <3>1. dq \in Queues /\ InFlight(dq) > 0
      BY <1>3, <1>0 DEF Serve, InFlight, TypeOK
    <3>2. QED
      BY <2>1, <3>1, <1>0, InFlightBound, ReturnDescriptorIntInv, <1>3 DEF Serve
  <2>2. CASE UNCHANGED <<irq, used, numAdded>>
    BY <2>2, <1>3, <1>1 DEF Serve
  <2>3. QED
    BY <2>1, <2>2, <1>3 DEF Serve
<1>4. ASSUME NEW q \in Queues, WorkerRun(q) PROVE IntInv'
  <2>1. CASE return_descriptor(q)
    <3>1. InFlight(q) > 0
      BY <1>4, <1>0 DEF WorkerRun, InFlight, TypeOK
    <3>2. QED
      BY <2>1, <3>1, <1>0, InFlightBound, ReturnDescriptorIntInv, <1>4 DEF WorkerRun
  <2>2. CASE UNCHANGED <<irq, used, numAdded>>
    BY <2>2, <1>4, <1>1 DEF WorkerRun
  <2>3. QED
    BY <2>1, <2>2, <1>4 DEF WorkerRun
<1>5. QED
  BY <1>1, <1>2, <1>3, <1>4
  DEF Next, DeviceStep, GuestPublish, HandleEvent, Collect, ServeDone, Pop,
      PopDone, Enable, vars, guestVars, ringVars

LEMMA InitIntInv == Init => IntInv
BY DEF Init, IntInv, NumAddedReset

(* No missed interrupt (return_descriptor and needs_notification, for both *)
(* strategies, with or without EVENT_IDX and guest faults): a used chain   *)
(* the guest has not consumed always has an interrupt pending.  The        *)
(* argument is IntInv: while no interrupt is pending, used_event equals    *)
(* next_used, so the next add_used crosses it and needs_notification       *)
(* signals.  Indices are u16 and MaxChains is unbounded: the ring capacity *)
(* keeps a publication below 2^16, and num_added is reset by every         *)
(* needs_notification (NumAddedReset) unless used_event is unreadable,     *)
(* which is why guest faults need fewer than 2^16 chains per queue.        *)
THEOREM InterruptSafety == Spec => []NoLostInterrupt
<1>1. Init => IInv /\ IntInv
  BY InitIInv, InitIntInv
<1>2. IInv /\ IntInv /\ [Next]_vars => IInv' /\ IntInv'
  BY NextIInv, NextIntInv
<1>3. IntInv => NoLostInterrupt
  BY DEF IntInv, NoLostInterrupt
<1>4. QED
  BY <1>1, <1>2, <1>3, PTL DEF Spec
=============================================================================
