----------------------------- MODULE VirtQueue -----------------------------
(***************************************************************************)
(* The queue processing engine of the vhost-user-fs backend (src/kfsd/src/ *)
(* main.rs, VhostUserFsThread).  One event-loop thread is woken by the     *)
(* guest's kick on a queue and drains that queue, either serially on the   *)
(* event-loop thread (thread_pool_size = 0) or by handing every chain to a *)
(* pool of worker threads.  Every chain is returned to the used ring by    *)
(* return_descriptor, which decides whether the guest must be interrupted. *)
(*                                                                         *)
(* The guest driver and the virtio-queue library are the environment: the  *)
(* guest publishes chains and kicks according to the EVENT_IDX rule, and   *)
(* takes interrupts; the library keeps next_avail, next_used, num_added    *)
(* and avail_event.  Ring indices are Wrapping<u16> in the library; the    *)
(* model counts chains from 0 without bound and takes every subtraction of *)
(* indices modulo 2^16, which is what Wrapping<u16> computes.  The guest   *)
(* never has more than QueueSize chains outstanding (the ring's capacity). *)
(* A chain is abstracted to its position in the ring: requests and replies *)
(* are the Operation Dispatcher's and do not influence the control here.   *)
(***************************************************************************)
EXTENDS Integers

CONSTANTS
  Queues,       \* queue indices: 0 is HIPRIO_QUEUE_EVENT, 1 REQ_QUEUE_EVENT
  MaxChains,    \* bound on the chains the guest publishes on one queue
  QueueSize,    \* the queue size negotiated for the ring
  PoolSize,     \* thread_pool_size; 0 selects the serial strategy
  GuestFaults   \* whether the guest may submit chains or rings the backend fails on

ASSUME QueuesAssumption == Queues \subseteq {0, 1} /\ Queues # {}
\* A guest whose used_event cannot be read makes num_added grow without a
\* reset; past 2^16 of those its u16 wraps (see InterruptSafety), so with
\* guest faults the chains per queue stay below 2^16.
ASSUME MaxChainsAssumption ==
  MaxChains \in Nat /\ (GuestFaults => MaxChains < 65536)
\* the guest negotiates a queue size up to max_queue_size (QUEUE_SIZE, 2^15)
ASSUME QueueSizeAssumption == QueueSize \in Nat /\ 1 <= QueueSize /\ QueueSize <= 32768
ASSUME PoolSizeAssumption == PoolSize \in Nat
ASSUME GuestFaultsAssumption == GuestFaults \in BOOLEAN

VARIABLES
  \* guest driver and virtio-queue library state, per queue
  avail,       \* avail_idx the guest has published
  nextAvail,   \* library's next_avail: chains popped by the device
  availEvent,  \* avail_event the device publishes under EVENT_IDX
  kick,        \* the queue's kick eventfd is readable
  used,        \* library's next_used: chains returned to the used ring
  numAdded,    \* library's num_added since the last needs_notification
  usedEvent,   \* used_event the guest publishes under EVENT_IDX
  irq,         \* the queue's call eventfd has been signalled
  guestSeen,   \* last used index the guest driver has processed
  eventIdx,    \* VhostUserFsThread.event_idx, fixed by feature negotiation
  \* backend state
  dpc,         \* where the event-loop thread is in handle_event
  dq,          \* the queue the event-loop thread is handling
  batch,       \* serial: chains collected by process_queue_serial not yet served
  jobs,        \* pool: chains spawned on the pool not yet run, per queue
  workers      \* pool: worker threads still alive

guestVars == <<avail, kick, usedEvent, irq, guestSeen>>
ringVars == <<nextAvail, availEvent, used, numAdded>>
vars == <<avail, nextAvail, availEvent, kick, used, numAdded, usedEvent, irq,
          guestSeen, eventIdx, dpc, dq, batch, jobs, workers>>

Pool == PoolSize > 0

\* u16 wrapping subtraction, as Wrapping<u16> computes it
Sub16(a, b) == (a - b) % 65536

(***************************************************************************)
(* vring_need_event(event, new, old): whether the other side asked to be   *)
(* notified when the index moved from old to new.  The guest driver uses   *)
(* it to decide a kick, the library's needs_notification an interrupt.     *)
(***************************************************************************)
NeedEvent(event, new, old) == Sub16(Sub16(new, event), 1) < Sub16(new, old)

DPCs == {"Idle", "Collect", "Serve", "Pop", "Enable", "Crashed"}

TypeOK ==
  /\ avail \in [Queues -> 0..MaxChains]
  /\ nextAvail \in [Queues -> 0..MaxChains]
  /\ availEvent \in [Queues -> 0..MaxChains]
  /\ kick \in [Queues -> BOOLEAN]
  /\ used \in [Queues -> 0..MaxChains]
  /\ numAdded \in [Queues -> 0..MaxChains]
  /\ usedEvent \in [Queues -> 0..MaxChains]
  /\ irq \in [Queues -> BOOLEAN]
  /\ guestSeen \in [Queues -> 0..MaxChains]
  /\ eventIdx \in BOOLEAN
  /\ dpc \in DPCs
  /\ dq \in Queues
  /\ batch \in 0..MaxChains
  /\ jobs \in [Queues -> 0..MaxChains]
  /\ workers \in 0..PoolSize

Init ==
  /\ avail = [q \in Queues |-> 0]
  /\ nextAvail = [q \in Queues |-> 0]
  /\ availEvent = [q \in Queues |-> 0]
  /\ kick = [q \in Queues |-> FALSE]
  /\ used = [q \in Queues |-> 0]
  /\ numAdded = [q \in Queues |-> 0]
  /\ usedEvent = [q \in Queues |-> 0]
  /\ irq = [q \in Queues |-> FALSE]
  /\ guestSeen = [q \in Queues |-> 0]
  /\ eventIdx \in BOOLEAN
  /\ dpc = "Idle"
  /\ dq \in Queues
  /\ batch = 0
  /\ jobs = [q \in Queues |-> 0]
  /\ workers = PoolSize

(***************************************************************************)
(* Environment: the guest driver.                                          *)
(***************************************************************************)

\* The guest makes k more chains available and, under EVENT_IDX, kicks only
\* if avail_event lies in the range it just published (virtqueue_kick_prepare);
\* without EVENT_IDX the backend never sets VRING_USED_F_NO_NOTIFY, so it kicks.
GuestPublish(q, k) ==
  /\ avail[q] + k <= MaxChains
  /\ avail[q] + k - used[q] <= QueueSize  \* no more outstanding than the ring holds
  /\ avail' = [avail EXCEPT ![q] = @ + k]
  /\ kick' = [kick EXCEPT ![q] = @ \/ ~eventIdx
                                  \/ NeedEvent(availEvent[q], avail[q] + k, avail[q])]
  /\ UNCHANGED <<usedEvent, irq, guestSeen, ringVars, eventIdx, dpc, dq, batch,
                 jobs, workers>>

\* The guest takes the interrupt, consumes the used ring up to next_used and
\* publishes used_event there (virtqueue_enable_cb_prepare), rechecking after.
GuestInterrupt(q) ==
  /\ irq[q]
  /\ irq' = [irq EXCEPT ![q] = FALSE]
  /\ guestSeen' = [guestSeen EXCEPT ![q] = used[q]]
  /\ usedEvent' = [usedEvent EXCEPT ![q] = used[q]]
  /\ UNCHANGED <<avail, kick, ringVars, eventIdx, dpc, dq, batch, jobs, workers>>

(***************************************************************************)
(* return_descriptor: add_used, then with EVENT_IDX signal only if         *)
(* needs_notification says so, or unconditionally if that check fails;    *)
(* without EVENT_IDX always signal.  add_used failing (a head index the    *)
(* guest corrupted) is only logged.  An outcome is <<next_used, num_added>>*)
(* after add_used.                                                         *)
(***************************************************************************)
AddUsedOutcomes(q) ==
  {<<used[q] + 1, numAdded[q] + 1>>}
    \cup (IF GuestFaults THEN {<<used[q], numAdded[q]>>} ELSE {})

\* Mutation: needs_notification consulted before add_used's next_used is seen.
return_descriptor_stale_used(q) ==
  \E r \in AddUsedOutcomes(q) :
    /\ used' = [used EXCEPT ![q] = r[1]]
    /\ \/ /\ ~eventIdx
          /\ numAdded' = [numAdded EXCEPT ![q] = r[2]]
          /\ irq' = [irq EXCEPT ![q] = TRUE]
       \/ /\ eventIdx
          /\ numAdded' = [numAdded EXCEPT ![q] = 0]
          /\ irq' = [irq EXCEPT ![q] =
                       @ \/ NeedEvent(usedEvent[q], used[q], Sub16(used[q], numAdded[q]))]

\* Mutation: no interrupt unless EVENT_IDX asks for one.
return_descriptor_no_plain_signal(q) ==
  \E r \in AddUsedOutcomes(q) :
    /\ used' = [used EXCEPT ![q] = r[1]]
    /\ \/ /\ ~eventIdx
          /\ numAdded' = [numAdded EXCEPT ![q] = r[2]]
          /\ UNCHANGED irq
       \/ /\ eventIdx
          /\ numAdded' = [numAdded EXCEPT ![q] = 0]
          /\ irq' = [irq EXCEPT ![q] =
                       @ \/ NeedEvent(usedEvent[q], r[1], Sub16(r[1], r[2]))]

return_descriptor(q) ==
  \E r \in AddUsedOutcomes(q) :
    /\ used' = [used EXCEPT ![q] = r[1]]
    /\ \/ /\ ~eventIdx
          /\ numAdded' = [numAdded EXCEPT ![q] = r[2]]
          /\ irq' = [irq EXCEPT ![q] = TRUE]
       \/ /\ eventIdx /\ GuestFaults    \* used_event unreadable: signal anyway
          /\ numAdded' = [numAdded EXCEPT ![q] = r[2]]
          /\ irq' = [irq EXCEPT ![q] = TRUE]
       \/ /\ eventIdx
          /\ numAdded' = [numAdded EXCEPT ![q] = 0]
          /\ irq' = [irq EXCEPT ![q] =
                       @ \/ NeedEvent(usedEvent[q], r[1], Sub16(r[1], r[2]))]

(***************************************************************************)
(* The event-loop thread: handle_event and the handle_event_serial /       *)
(* handle_event_pool loops.                                                *)
(***************************************************************************)

\* the strategy chosen at startup: pool.is_some()
DrainStep == IF Pool THEN "Pop" ELSE "Collect"
\* after one process_queue_* call: loop on enable_notification under EVENT_IDX
AfterDrain == IF eventIdx THEN "Enable" ELSE "Idle"

\* epoll reports the kick; handle_event picks the vring; disable_notification
\* is a no-op on the ring under EVENT_IDX and is not called without it.
HandleEvent(q) ==
  /\ dpc = "Idle"
  /\ kick[q]
  /\ kick' = [kick EXCEPT ![q] = FALSE]
  /\ dq' = q
  /\ dpc' = DrainStep
  /\ UNCHANGED <<avail, usedEvent, irq, guestSeen, ringVars, eventIdx, batch,
                 jobs, workers>>

\* process_queue_serial: iter() reads avail_idx once and collect() pops every
\* chain up to it.
\* Mutation: one chain too many counted into the batch.
Collect_overcount ==
  /\ dpc = "Collect"
  /\ batch' = avail[dq] - nextAvail[dq] + 1
  /\ nextAvail' = [nextAvail EXCEPT ![dq] = avail[dq]]
  /\ dpc' = "Serve"
  /\ UNCHANGED <<guestVars, availEvent, used, numAdded, eventIdx, dq, jobs, workers>>

\* Mutation: the last collected chain is never served.
Collect_drop_last ==
  /\ dpc = "Collect"
  /\ batch' = IF avail[dq] > nextAvail[dq] THEN avail[dq] - nextAvail[dq] - 1 ELSE 0
  /\ nextAvail' = [nextAvail EXCEPT ![dq] = avail[dq]]
  /\ dpc' = "Serve"
  /\ UNCHANGED <<guestVars, availEvent, used, numAdded, eventIdx, dq, jobs, workers>>

Collect ==
  /\ dpc = "Collect"
  /\ batch' = avail[dq] - nextAvail[dq]
  /\ nextAvail' = [nextAvail EXCEPT ![dq] = avail[dq]]
  /\ dpc' = "Serve"
  /\ UNCHANGED <<guestVars, availEvent, used, numAdded, eventIdx, dq, jobs, workers>>

\* process_queue_serial, one chain: dispatch it and return it; a failing
\* Reader::new, Writer::new or handle_message is unwrap()ed and panics the
\* event-loop thread.
Serve ==
  /\ dpc = "Serve"
  /\ batch > 0
  /\ batch' = batch - 1
  /\ \/ /\ return_descriptor(dq)
        /\ UNCHANGED dpc
     \/ /\ GuestFaults
        /\ dpc' = "Crashed"
        /\ UNCHANGED <<irq, used, numAdded>>
  /\ UNCHANGED <<avail, kick, usedEvent, guestSeen, nextAvail, availEvent,
                 eventIdx, dq, jobs, workers>>

ServeDone ==
  /\ dpc = "Serve"
  /\ batch = 0
  /\ dpc' = AfterDrain
  /\ UNCHANGED <<guestVars, ringVars, eventIdx, dq, batch, jobs, workers>>

\* process_queue_pool: every loop iteration builds a new iterator, so avail_idx
\* is read again for each chain; the popped chain is spawned on the pool.
\* Mutation: next() pops without comparing against avail_idx.
Pop_unguarded ==
  /\ dpc = "Pop"
  /\ nextAvail' = [nextAvail EXCEPT ![dq] = @ + 1]
  /\ jobs' = [jobs EXCEPT ![dq] = @ + 1]
  /\ UNCHANGED <<guestVars, availEvent, used, numAdded, eventIdx, dpc, dq, batch,
                 workers>>

Pop ==
  /\ dpc = "Pop"
  /\ nextAvail[dq] < avail[dq]
  /\ nextAvail' = [nextAvail EXCEPT ![dq] = @ + 1]
  /\ jobs' = [jobs EXCEPT ![dq] = @ + 1]
  /\ UNCHANGED <<guestVars, availEvent, used, numAdded, eventIdx, dpc, dq, batch,
                 workers>>

PopDone ==
  /\ dpc = "Pop"
  /\ nextAvail[dq] = avail[dq]
  /\ dpc' = AfterDrain
  /\ UNCHANGED <<guestVars, ringVars, eventIdx, dq, batch, jobs, workers>>

\* enable_notification: publish avail_event = next_avail, then report whether
\* more chains arrived meanwhile; if so drain again, else return to epoll.
\* Mutation: one pass per wake-up, as without EVENT_IDX.
Enable_no_recheck ==
  /\ dpc = "Enable"
  /\ availEvent' = [availEvent EXCEPT ![dq] = nextAvail[dq]]
  /\ dpc' = "Idle"
  /\ UNCHANGED <<guestVars, nextAvail, used, numAdded, eventIdx, dq, batch, jobs,
                 workers>>

Enable ==
  /\ dpc = "Enable"
  /\ availEvent' = [availEvent EXCEPT ![dq] = nextAvail[dq]]
  /\ \/ avail[dq] # nextAvail[dq] /\ dpc' = DrainStep
     \/ avail[dq] = nextAvail[dq] /\ dpc' = "Idle"
  /\ UNCHANGED <<guestVars, nextAvail, used, numAdded, eventIdx, dq, batch, jobs,
                 workers>>

(***************************************************************************)
(* A pool worker runs one spawned job: the same unwrap()s as the serial    *)
(* path, then return_descriptor under the vring mutex.  A panic unwinds    *)
(* the worker thread, which the futures ThreadPool does not replace.       *)
(***************************************************************************)
WorkerRun(q) ==
  /\ workers > 0
  /\ jobs[q] > 0
  /\ jobs' = [jobs EXCEPT ![q] = @ - 1]
  /\ \/ /\ return_descriptor(q)
        /\ UNCHANGED workers
     \/ /\ GuestFaults
        /\ workers' = workers - 1
        /\ UNCHANGED <<irq, used, numAdded>>
  /\ UNCHANGED <<avail, kick, usedEvent, guestSeen, nextAvail, availEvent,
                 eventIdx, dpc, dq, batch>>

DeviceStep == Collect \/ Serve \/ ServeDone \/ Pop \/ PopDone \/ Enable

Next ==
  \/ \E q \in Queues, k \in 1..MaxChains : GuestPublish(q, k)
  \/ \E q \in Queues : GuestInterrupt(q)
  \/ \E q \in Queues : HandleEvent(q)
  \/ DeviceStep
  \/ \E q \in Queues : WorkerRun(q)

Spec == Init /\ [][Next]_vars

(***************************************************************************)
(* The event-loop thread and the pool workers are scheduled by the OS and  *)
(* never stop while they have work; the guest's interrupt handler runs     *)
(* once its call eventfd fires.  The guest is not obliged to publish.      *)
(***************************************************************************)
FairSpec ==
  /\ Spec
  /\ WF_vars(DeviceStep)
  /\ \A q \in Queues : WF_vars(HandleEvent(q))
  /\ \A q \in Queues : WF_vars(WorkerRun(q))
  /\ \A q \in Queues : WF_vars(GuestInterrupt(q))

-----------------------------------------------------------------------------
(***************************************************************************)
(* Properties.                                                             *)
(***************************************************************************)

Handling(q) == dpc # "Idle" /\ dq = q

(* No missed wake-up (handle_event_serial/handle_event_pool with EVENT_IDX, *)
(* and the single drain without it): whenever the event-loop thread is not *)
(* handling a queue and no kick is pending on it, the device has popped    *)
(* every chain the guest published there.  A chain published while the    *)
(* thread was draining, past the avail_event the guest last saw, is only   *)
(* found by the enable_notification recheck.                               *)
NoLostWakeup ==
  \A q \in Queues : ~Handling(q) /\ ~kick[q] => nextAvail[q] = avail[q]

(* No missed interrupt (return_descriptor with needs_notification): a      *)
(* used chain the guest has not consumed always has an interrupt pending,  *)
(* however completions of the event-loop thread and the pool workers       *)
(* interleave with the guest moving used_event.                            *)
NoLostInterrupt ==
  \A q \in Queues : guestSeen[q] # used[q] => irq[q]

(* Every chain the guest publishes is eventually returned to the used ring *)
(* and the guest notified of it (spec section 8, first two properties).    *)
EveryChainCompleted ==
  \A q \in Queues, k \in 1..MaxChains : (avail[q] >= k) ~> (guestSeen[q] >= k)

(* The pool keeps serving (spec section 4.1: a failing chain must not      *)
(* crash the worker, since other completions depend on that worker slot   *)
(* being reusable): every chain handed to the pool by process_queue_pool  *)
(* is eventually taken up by a worker.                                     *)
PoolDrains ==
  \A q \in Queues : jobs[q] > 0 ~> jobs[q] = 0

(* The engine implements what it promises the guest (VirtQueueAbstract):  *)
(* with both strategies, EVENT_IDX or not, and guest faults, every add_used *)
(* completes a chain the guest published and leaves an interrupt pending,  *)
(* and every other step of the backend is invisible to the guest.          *)
Abstract == INSTANCE VirtQueueAbstract WITH seen <- guestSeen

ImplementsAbstract == Abstract!Spec
=============================================================================
