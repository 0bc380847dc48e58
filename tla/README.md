# TLA+ models of the virtio-fs daemon's queue engine, migration path and configuration space

This directory holds TLA+ models of the concurrent core of the vhost-user-fs
daemon (`src/kfsd/src/main.rs`) and of its migration preparation walk
(`src/kfsd/src/passthrough/device_state/preserialization.rs`). It also holds the
TLC configurations that model-check them and TLAPS proofs of their main safety
properties.

## The system and its parts

* **Queue Processing Engine** (`VhostUserFsThread`, main.rs 131-391,
  `handle_event` 547-565). An event-loop thread wakes on the guest's kick and
  drains a virtqueue.
  * Serially (`thread_pool_size = 0`): `process_queue_serial` collects every
    available chain and dispatches it inline.
  * With a pool: `process_queue_pool` pops chains one at a time and spawns each
    on a worker.
  * Every chain is returned with `return_descriptor`, which decides through
    `needs_notification` whether to interrupt the guest.
  * Under EVENT_IDX, `handle_event_*` loops on `enable_notification` until no
    new chain arrived while it drained.
* **Migration Orchestrator** (`VhostUserFsBackend`, 414-436, 509-536,
  575-650). It runs on the vhost-user control thread, one message at a time.
  * Setting F_LOG_ALL spawns a preparation walk into `premigration_thread`.
    Clearing it cancels and joins the walk.
  * `set_device_state_fd` rejects any phase but STOPPED. SAVE joins the walk
    and spawns `serialize`. LOAD cancels and joins it, then spawns
    `deserialize_and_apply`. Either way the handle is stored in
    `migration_thread`.
  * `check_device_state` takes that handle out and joins it.
* **Path Reconstructor** (preserialization.rs). The walk runs depth-first from
  the root over the shared directory.
  * It claims every inode the store knows and annotates it with its parent and
    name. The annotation holds a strong reference to the parent.
  * It inserts a synthetic record for each unknown directory, so that it can
    descend into it.
  * It polls the cancel flag before each entry.
  * Guest lookups and forgets change the same reference counts concurrently.

* **Configuration space** (`parse_tag` 704-710, `VhostUserFsBackend::new`,
  `protocol_features` 460-474, `get_config` 476-507). The `--tag` argument is
  checked at start-up. The CONFIG protocol feature is offered only with a tag,
  and GET_CONFIG answers bytes of the `VirtioFsConfig` structure: the tag
  NUL-padded to 36 bytes, then `num_request_queues` as le32.

The guest driver, the virtio-queue ring, the operation dispatcher (`Server`)
and the inode store are not under `src/`. They appear only as environment
actions.

## Modules

| Module | Models | Used by |
|---|---|---|
| `VirtQueue` | the engine, the guest and the ring | `MCVirtQueue`, `VirtQueueProofs` |
| `VirtQueueAbstract` | what the engine promises the guest: published chains completed one at a time, each leaving an interrupt pending | `VirtQueue` (refinement) |
| `Migration` | the orchestrator and its background threads | `MCMigration`, `MigrationProofs` |
| `MigrationAbstract` | the spec section 4.2 state machine the front-end sees | `Migration` (refinement) |
| `ConfigSpace` | tag, protocol features, `get_config` | `MCConfigSpace`, `ConfigSpaceProofs` |
| `PathReconstructor` | the walk, the inode store's counts, guest lookup/forget | `MCPathReconstructor`, `PathReconstructorProofs` |
| `VirtQueueProofs`, `VirtQueueRefinement`, `MigrationProofs`, `MigrationRefinement`, `ConfigSpaceProofs`, `PathReconstructorProofs` | TLAPS proofs | - |
| `MC*` | constants for TLC | runs |

### VirtQueue

The state is kept per queue.

* Ring indices are counted from 0 without bound. `Sub16` takes every
  difference of indices modulo 2^16, as the library's `Wrapping<u16>` does.
  * `QueueSize` is the negotiated ring size, at most `QUEUE_SIZE` (2^15). The
    guest never has more than `QueueSize` chains outstanding (published and
    not yet used), so a single publication is below 2^16.
  * `avail`, `nextAvail`, `used`, `numAdded`, `availEvent`, `usedEvent` are the
    ring and library indices.
  * `kick` and `irq` are the two eventfds.
  * `guestSeen` is how far the guest driver consumed the used ring.
* The event-loop thread is `dpc` (where it is in `handle_event`) and `dq`.
  * `batch` holds the chains collected by `process_queue_serial`.
  * `jobs` holds the chains spawned on the pool.
  * `workers` counts the live worker threads.

Each action follows code in main.rs:

| Action | Code |
|---|---|
| `HandleEvent(q)` | `handle_event` |
| `Collect`, `Serve`, `ServeDone` | `process_queue_serial`: one `iter()` reads avail_idx once |
| `Pop`, `PopDone` | `process_queue_pool`: a fresh iterator per chain |
| `Enable` | `enable_notification` and the loop of `handle_event_*` |
| `WorkerRun(q)` | a pool job |
| `return_descriptor(q)` | `add_used` plus `needs_notification` |

Exact line ranges are in `PROJECT.json`.

Failing chains (`GuestFaults`) panic through `unwrap()`:

* the serial event loop moves to `Crashed`;
* a pool worker dies, and the pool does not replace it.

An unreadable `used_event` makes `return_descriptor` signal anyway.

### Migration

* `premigration` and `migration` are the two slots, with `NoTask` for `None`.
* `capture[i]` and `transfer[t]` are the lifecycles of the spawned threads:
  unspawned, running, ok, failed, cancelled.
* `walk[i]` counts the entries left in walk i, and `cancel[i]` is that walk's
  own flag.
* `ctl` is the control thread: idle, or blocked in a join inside a handler.
* `reply` is the last handler result.

A handler that joins is split into two actions:

1. the part up to the join, such as `acked_features_cancel` or
   `set_device_state_fd_save`;
2. the return from the join, `JoinCapture` or `JoinTransfer`.

Other messages wait meanwhile, because the control thread is sequential.
`prepare_serialization(i)` abstracts `recurse_from` to one step per entry:
poll the flag, then discover the entry or fail.

#### The abstract orchestrator

`MigrationAbstract` has three variables: `prep` (Preparing), `xfer` (the
direction of the transfer to collect, or none) and `reply`. Each section 4.2
transition is one atomic action: `LogAllSet`, `LogAllCleared`, `SaveStart`,
`LoadStart`, `Check`, `CheckNone` and `Unsupported`. Like the code, a
transfer start replaces a transfer in flight.

`Migration` maps onto it as follows:

* `prepBar`: a walk is in `premigration_thread`, or a handler is joining one.
* `xferBar`: the direction of the transfer in `migration_thread`, or of the one
  `check_device_state` is joining.

The part of a handler before its join is a stutter. The return from the join
is the handler's abstract step. The background threads are stutters.

### ConfigSpace

* `phase`: before argument parsing, running, exited after a rejected tag, or
  crashed after a panic in `get_config`.
* `tag`: `NoTag` (`None`) or the tag's bytes. The tag of length n is the
  bytes 1..n; the values do not matter, only that they are not NUL.
* `offered` and `acked`: the protocol features of the last
  GET_PROTOCOL_FEATURES, and those the front-end acknowledged.
* `read`: the last GET_CONFIG with its answer.

`get_config_bytes` follows the code: the structure as bytes, then `skip`,
`take` and `resize`. The property compares it with `LayoutByte`, a byte-wise
statement of the virtio layout. The front-end is assumed to acknowledge
only offered features, and the vhost-user library to forward GET_CONFIG only
once CONFIG is acknowledged. Both are outside this repository.

### PathReconstructor

The directory tree is a constant `Entries` (the MC instance has a hard link).

* `rc` holds the strong references of each record; 0 means the record is not
  in the store.
* `guest` holds the guest's lookups.
* `annot` is `migration_info`: none, root, or the parent of a `Path`.
* `stack` is `remaining_dirs`, and `cur` is `inode_ref`.
* `todo` holds the entries of `cur` not yet discovered.
* `pend` is the directory between the failed `claim_inode` and `get_or_insert`.

Dropping references (`Release`) evicts every record whose count reaches zero.
Its annotation goes with it, and that drops the parent reference, so an
eviction can cascade up the tree. `Release` states the outcome
declaratively: the evicted set `E` is exactly the records whose count,
after the dropped references and one more per evicted child annotated with
them (`Remaining`), is zero. This form has no recursion, so TLAPS can reason
about it. It is modelled from the spec's description of the inode store,
which is not under `src/`.

`discover`'s claim is `ClaimRc` (the reference `claim_inode` returns plus the
clone of `cur`'s, written as a sum so that a directory that lists itself
gets two), `ClaimAnnot` (the new `Path` annotation) and `OldParent` (the
reference the overwritten annotation held, dropped by the assignment).

The constants satisfy two assumptions besides the shape of the tree. The
tags `"none"` and `"root"` are not inodes. `ReachAssumption` says that the
tree is rooted: there is a descendant map `desc` closed under `Entries`,
and every inode other than the root lies below the root. Every `?` of the
walk is `WalkFault`. An early return (`Abort`) drops `inode_ref` and the whole
stack. `Lookup`, `Forget` and `Cancel` run between any two steps. `Restart`
starts a second walk with a fresh flag.

`Lookup(n)` is a guest lookup of `n` through a directory the guest holds.
An existing record gets one more reference. A new record is created while
`prepare_serialization` is active (every state of this model is), so it
gets the `migration_info` of `InodeMigrationInfo::new`: a `Path` whose
parent is a clone of the directory's reference. This is how a record the
walk has already passed, or a directory the guest inserts between the
walk's failed `claim_inode` and its `get_or_insert`, is still annotated.

## Runs

| Run | cfg | Result | What it shows |
|---|---|---|---|
| vq_serial | `MCVirtQueueSerial.cfg` | pass | no missed wake-up, no lost interrupt, every chain completed |
| vq_pool | `MCVirtQueuePool.cfg` | pass | the same with two workers racing on the used ring |
| vq_serial_faults, vq_pool_faults | `*Faults.cfg` | pass | suppression stays safe on the error paths |

The four passing vq runs also check `ImplementsAbstract`: the engine refines
`VirtQueueAbstract`.
| vq_worker_loss | `MCVirtQueueWorkerLoss.cfg` | violation of `PoolDrains` | panicking workers starve the pool |
| vq_serial_crash | `MCVirtQueueSerialCrash.cfg` | violation of `EveryChainCompleted` | one malformed chain ends the serial event loop |
| migration | `MCMigration.cfg` | pass | one walk at a time; save after a successful walk; refines `MigrationAbstract` |
| migration_two_transfers | `MCMigrationAtMostOneTransfer.cfg` | violation | a second SET_DEVICE_STATE_FD runs two transfers |
| migration_capture_during_save | `MCMigrationNoCaptureDuringSave.cfg` | violation | re-acked F_LOG_ALL walks during serialize |
| config_space | `MCConfigSpace.cfg` | pass | every GET_CONFIG answers the virtio layout; no panic |
| path_walk | `MCPathReconstructor.cfg` | pass | exact reference counts; no leaked synthetic record; a walk that returned Ok annotated every record, and every annotation's parent |

### The properties

* `NoLostWakeup`: an idle queue with no pending kick has nothing left to pop.
* `NoLostInterrupt`: a used chain the guest has not seen always has an
  interrupt pending.
* `EveryChainCompleted`: every published chain is eventually seen by the guest.
* `ImplementsAbstract` (VirtQueue): under the identity mapping on `avail`,
  `used`, `irq` and `guestSeen`, every successful `add_used` completes a
  published chain and leaves an interrupt pending, an `add_used` that fails
  is at most a signal, and draining, batching, the pool and EVENT_IDX
  suppression are invisible to the guest.
* `AtMostOneCapture` and `SaveAfterCapture` come from spec sections 4.2 and 8.
* `ImplementsAbstract`: `Migration` implements `MigrationAbstract` under the
  refinement mapping. For example, `check_device_state` answers Ok only for a
  transfer that a start created and no earlier check collected.
* `ConfigReadsLayout`: every GET_CONFIG answer is exactly `size` bytes of the
  layout from `offset`, with zeros past the 40-byte structure.
* `NoConfigPanic`: `get_config`'s `expect` and `assert!`s always hold.
* `RefsAccounted`: every strong reference is owned by a guest lookup, an
  annotation or the walk. It implies the spec's section 3 invariant that an
  annotation keeps its parent alive.
* `NoSyntheticLeak`: the spec's section 8 property about synthetic
  directories.
* `CompleteWhenOk`: the round-trip property of section 8. After a walk
  returned Ok, every record in the store is annotated, whatever guest
  lookups and forgets ran beside the walk.
* `PathComplete`: after a walk returned Ok, the parent of every `Path`
  annotation is itself annotated, so each location can be rebuilt up to
  the root. It fails if a record the guest creates during the walk gets no
  annotation (the `get_or_insert` race of preserialization.rs:270).

Each property of a passing run has a mutant in `PROJECT.json`, a plausible bug
in the code it is about, and TLC finds the property violated under that
mutant.

### Bounds

* **VirtQueue.** Two queues and up to 3 chains per queue are enough for a
  publish during a drain, and for two chains in flight while a third waits.
  * `QueueSize = 2` is below the chain bound, so the guest fills the ring and
    must wait for a completion before publishing the third chain.
  * A pool of two workers is enough for their completions to interleave.
  * `eventIdx` is chosen in `Init`, so both protocols are explored.
* **Migration.** Three walks and two transfers are enough for a walk that is
  cancelled, then re-spawned, then joined by SAVE, and for two transfers to
  overlap. Walks of up to two entries let cancellation land mid-walk.
* **ConfigSpace.** `MAX_TAG_LEN` is the code's 36. The tags have lengths 0, 1,
  35, 36 and 37, on both sides of each bound of `parse_tag`. Offsets and
  sizes lie at the edges of the tag field, of `num_request_queues` and of
  the structure, and one byte past each. The proofs cover every value.
* **PathReconstructor.** The tree has five nodes: root r, directories a and
  x, file h linked in both, and file b in x.
  * This gives a synthetic directory that is needed (a, when only h is
    tracked) and one that is not (x, when nothing below it is tracked).
  * The second annotation of h drops a parent reference.
  * Two walks cover leftover annotations.

### Fairness

The engine's `FairSpec` assumes the following:

* weak fairness of the event-loop thread's steps, of `HandleEvent` and of the
  workers, because they are OS threads that run while they have work;
* that the guest's interrupt handler runs.

The guest is not obliged to publish.

`Migration`, `ConfigSpace` and `PathReconstructor` state only safety
properties (invariants, action properties and refinement of a safety
specification) and assume no fairness.

The front-end is not obliged to send messages. The cfgs turn deadlock checking
off because the guest or the front-end may simply stop.

## Proofs

`VirtQueueProofs` proves `InvariantHolds`, `TypeCorrect`, `WakeUpSafety`
(`NoLostWakeup`) and `InterruptSafety` (`NoLostInterrupt`). They hold for every
queue set, queue size and pool size, and both fault settings. Without guest
faults the number of chains per queue is unbounded, so the u16 indices wrap.
With guest faults the chains per queue stay below 2^16 (`MaxChainsAssumption`).
The reason is in the library: `needs_notification` returns early when it
cannot read `used_event`, without resetting `num_added`. After 2^16 such
failures, `old = next_used - num_added` wraps onto `next_used`, and the next
successful check would suppress the interrupt.

`NoLostWakeup` is not inductive alone. The strengthening `IInv` adds:

* `Counted`: `used + in-flight <= nextAvail <= avail`, and the guest and
  event indices are at most `used`;
* `BatchInSerial`: a batch exists only while serving;
* `EventPublished`: an idle queue under EVENT_IDX has
  `avail_event = next_avail`, so a later publish kicks;
* `UncollectedKicked`: without EVENT_IDX, chains published during a serial
  batch have left a kick.

`NoLostInterrupt` follows from `IntInv`: while no interrupt is pending, the
guest has consumed up to `used` and, under EVENT_IDX, its `used_event` equals
`used`. `IntInv` also contains `NumAddedReset`: under EVENT_IDX without faults
every `needs_notification` resets `num_added`, so it is 0 between returns.
The proof rests on these lemmas:

* `NeedEventPublish`: publishing k < 2^16 chains past an `avail_event` equal
  to the old `avail_idx` kicks, whatever the index. The ring capacity bounds k.
* `NeedEventReturn`: `add_used` past a `used_event` equal to the old
  `next_used` asks for an interrupt when `num_added + 1 < 2^16`, whatever the
  index.
* `NumAddedBound`: that bound holds. Without faults it comes from
  `NumAddedReset`; with faults, `num_added <= used < MaxChains < 2^16`.

`VirtQueueRefinement` proves `QueueRefinement`: `Spec => ImplementsAbstract`,
for the same constants. The invariant is `IInv /\ IntInv`. The steps are:

1. `Init` maps to the abstract `Init`.
2. The guest's publish and interrupt map to `Publish` and `Interrupt`.
3. The event loop's other steps leave the guest-visible state unchanged.
4. `return_descriptor` is the interesting step (`ReturnRefines`). When
   `add_used` succeeds, `Counted` puts the chain below `avail`. Then either
   an interrupt was already pending, or `IntInv` makes `needs_notification`
   ask for one, so the step is `Complete`. When `add_used` fails, the step is
   `Signal` or a stutter.

`MigrationProofs` proves `OrchestratorInvariant`, `MigrationTypeCorrect`,
`CaptureExclusion` (`AtMostOneCapture`) and `SaveOrdering` (`SaveAfterCapture`,
an action property). The inductive invariant `MInv` says:

* every running walk is in the slot or is the one being joined;
* while a walk is joined, the slot is empty.

So spawning needs an empty slot, and no second walk can run. Each action has a
lemma; `NextMInv` and `NextSaveStep` combine them.

`MigrationRefinement` proves `Refinement`: `Spec => ImplementsAbstract`, for
every bound. It rests on `MInv` and one more invariant, `CheckTaken`: while
`check_device_state` joins a transfer, `migration_thread` is empty, so the
joined transfer is the one `xferBar` names. The steps are:

1. `Init` maps to the abstract `Init`.
2. Each control message, and each return from a join, maps to a step of the
   abstract `Next`. There is one lemma per group: `ControlRefines`,
   `JoinCaptureRefines` and `JoinTransferRefines`.
3. The background threads leave the mapped variables unchanged.

`ConfigSpaceProofs` proves three theorems for every `MAX_TAG_LEN`, tag set,
offset and size:

* `ConfigTypeCorrect` (`TypeOK`). `TypeOK` alone is not inductive: a
  GET_PROTOCOL_FEATURES answer replaces `offered`, and the bytes of a
  GET_CONFIG answer are naturals only for a tag that passed `parse_tag`. The
  proof uses `TInv == LInv /\ TypeOK`. `LayoutByteNat` shows that every byte
  of the layout is a natural for such a tag.

* `ConfigNeverPanics` (`NoConfigPanic`). The invariant `CInv` says three
  things. What was offered is exactly what `protocol_features` answers for
  the fixed tag, or nothing yet. The acknowledged features are among those
  offered. A stored tag passed `parse_tag`.
* `ConfigLayout` (`ConfigReadsLayout`). This rests on `GetConfigLayout`,
  which shows that skip, take and resize of `config(t)` equal `LayoutByte`
  at every index. It is built from `ConfigBytes` (the byte view of the
  structure), `SkipTake` and `PadZeros`, which use the library's
  `ConcatProperties` and `SubSeqProperties`.

`PathReconstructorProofs` proves five theorems for every tree that satisfies
`TreeAssumption` and `ReachAssumption`, and for every bound:

* `PathTypeCorrect` (`TypeOK`);
* `RefsAccountedInvariant` (`RefsAccounted`);
* `NoSyntheticLeakInvariant` (`NoSyntheticLeak`);
* `CompleteWhenOkInvariant` (`CompleteWhenOk`);
* `PathCompleteInvariant` (`PathComplete`).

All five follow from `PathInductive`, `Spec => []IInv`. The conjuncts of
`IInv`, and why each is needed:

* `TypeOK` and `RefsAccounted` themselves. `RefsAccounted` counts the
  annotated children through `Kids(rc, annot, n)`, the live records
  annotated with `n`.
* `Evicted`: a record with count 0 has no annotation. Without it, a
  record evicted earlier would look like a child after it is claimed again.
* `Idle`: outside a walk the stack is empty. So `Held` is 0 at a terminal
  state, and `NoSyntheticLeak` follows from `RefsAccounted`.
* `GuestRooted`: the guest holds nothing unless it holds the root. While
  the guest holds anything, the root stays in the store.
* `RootUnannotated` and `RootNotEntry`: the root has no `Path` annotation
  and is no directory's entry. So no claim overwrites the root's tag.
* `Dead`: if the guest does not hold the root, no record is in the store.
  The guest's count of the root never changes (a lookup never targets the
  root and a forget of it is excluded), so with it at zero no lookup is
  enabled and the walk holds nothing. `Dead` gives the root a guest
  reference whenever a walk or a lookup needs one.
* `Covered`: while a walk runs, every record in the store is annotated or
  lies below an entry the walk still has to discover (`Pending`: `cur`'s
  remaining entries, the entries of the directories on the stack and of a
  directory about to be inserted; `Below` closes it under the descendant
  map of `ReachAssumption`). A lookup keeps it because the record it
  creates is annotated at once; a forget keeps it because it only removes
  records. At `ok`, nothing is pending, so `CompleteWhenOk` follows. A
  record that is a parent has a child holding a reference to it, so it is
  in the store, and `PathComplete` follows from `CompleteWhenOk`.

The main lemmas are these:

* `ReleaseAccounts`. After `Release`, the children of `n` are its old
  children minus the evicted records. Each evicted child drops exactly one
  reference to `n`, so the accounting equation survives every cascade.
* `OccurrencesPush`, `OccurrencesPop` and `OccurrencesSingleton`: how the
  walk's references change when `remaining_dirs` is pushed, popped or set to
  the root.
* `BelowStep`: discovering a directory entry replaces it in `Pending` by
  its own entries, so what lies below the pending set only loses the entry
  itself, which the step annotates if the guest holds it.

There is one lemma per action, combined in `NextIInv`. TLC checked `IInv`
as an invariant of `path_walk`'s instance (27,226 states) before it was
proved.

The following are checked by TLC only:

* the liveness properties (`EveryChainCompleted`, `PoolDrains`), which
  TLAPS cannot prove.

The proofs about `PathReconstructor` rest on the declarative `Release`,
which is modelled from the spec's description of eviction. It is not
checked against a drop-by-drop cascade.

With guest faults and 2^16 chains or more on a queue, the interrupt wrap
described above is neither proved nor reachable by any run.

## Findings

1. **Worker panics starve the pool** (main.rs:253). Pool workers `unwrap()`
   descriptor errors. Each panic kills a worker for good, so after
   `thread_pool_size` malformed chains the queue stops completing. This
   contradicts spec section 7.
2. **Two transfers can run at once** (main.rs:622). `migration_thread` is
   overwritten without a check, so two SET_DEVICE_STATE_FD in a row run two
   transfer threads.
3. **A walk can run beside serialize** (main.rs:513). F_LOG_ALL acknowledged
   after SAVE spawns a walk concurrent with `serialize`.
4. **One malformed chain stops the serial engine** (main.rs:294). Without a
   pool, `process_queue_serial` `unwrap()`s the reader, the writer and the
   dispatcher result. One failing chain panics the event-loop thread, so no
   later chain of any queue is completed. Spec sections 4.1 and 7 say these
   errors are surfaced to the caller and logged.

## Not modelled

The following are not modelled:

* `features()`, `num_queues`, `max_queue_size`, `set_event_idx`,
  `update_memory` and `set_backend_req_fd`: constant answers, or stores of
  values the engine model takes as given (EVENT_IDX is chosen in
  `VirtQueue`'s `Init`);
* the mutex guards of `premigration_thread` and `migration_thread`, which
  are held across the joins. The joined threads never take them, and the
  front-end's messages are handled one at a time, so holding them only
  delays. A hazard in `PROJECT.json` records this;
* the command line, sandbox, seccomp and logging: sequential start-up code;
* filenames, file handles and UTF-8 conversion, whose failures are the fault
  branches;
* renames and unlinks during the walk;
* the length conversion in `return_descriptor` (lengths come from outside
  `src/`);
* the dispatcher's requests themselves.

The hazards without a covering property are listed with a reason in
`PROJECT.json`.
