----------------------------- MODULE Migration -----------------------------
(***************************************************************************)
(* The migration orchestrator of the vhost-user-fs backend (src/kfsd/src/  *)
(* main.rs, VhostUserFsBackend): acked_features, set_device_state_fd and   *)
(* check_device_state, with the two task slots premigration_thread and     *)
(* migration_thread.                                                       *)
(*                                                                         *)
(* The front-end's vhost-user messages are handled one at a time by the    *)
(* daemon's control thread; a handler that joins a task blocks that thread *)
(* until the task ends, which is modelled by a control state that waits.  *)
(* The preparation task (prepare_serialization, the PathReconstructor     *)
(* walk) and the transfer tasks (serialize, deserialize_and_apply) run on *)
(* threads of their own.  The walk is abstracted to a number of directory *)
(* entries still to visit; before each entry it polls its cancel flag.    *)
(* Which entries and annotations it writes is PathReconstructor's.         *)
(***************************************************************************)
EXTENDS Naturals, FiniteSets

CONSTANTS
  MaxCaptures,   \* bound on the preparation threads spawned in one behaviour
  MaxTransfers,  \* bound on the transfer threads spawned in one behaviour
  WalkLen,       \* bound on the directory entries one preparation walk visits
  Faults         \* whether walks and transfers may fail with an I/O error

ASSUME MaxCapturesAssumption == MaxCaptures \in Nat
ASSUME MaxTransfersAssumption == MaxTransfers \in Nat
ASSUME WalkLenAssumption == WalkLen \in Nat
ASSUME FaultsAssumption == Faults \in BOOLEAN

Captures == 1..MaxCaptures
Transfers == 1..MaxTransfers

\* a task's life: not yet spawned, running, or ended with Ok or an Err
\* (a capture cancelled by its flag ends with the Err "Cancelled ...")
TaskStates == {"unspawned", "running", "ok", "failed", "cancelled"}
Ended == {"ok", "failed", "cancelled"}
Directions == {"SAVE", "LOAD"}

\* an empty premigration_thread or migration_thread slot (None)
NoTask == 0
\* the control thread: idle, or blocked joining a task inside a handler
CtlOps == {"Idle", "AckJoin", "SaveJoin", "LoadJoin", "CheckJoin"}
\* the joins of a preparation walk
CaptureJoins == {"AckJoin", "SaveJoin", "LoadJoin"}

VARIABLES
  premigration,  \* premigration_thread: NoTask or the capture in the slot
  cancel,        \* each capture's cancel flag
  capture,       \* each preparation thread's state
  walk,          \* each capture's directory entries still to visit
  migration,     \* migration_thread: NoTask or the transfer in the slot
  transfer,      \* each transfer thread's state
  direction,     \* each transfer's direction
  ctl,           \* [op, task]: what the control thread is doing
  reply          \* result of the last control message answered: "none", "ok", "err"

vars == <<premigration, cancel, capture, walk, migration, transfer, direction,
          ctl, reply>>
taskVars == <<cancel, capture, walk, transfer, direction>>

Running(f) == {i \in DOMAIN f : f[i] = "running"}

TypeOK ==
  /\ premigration \in {NoTask} \cup Captures
  /\ cancel \in [Captures -> BOOLEAN]
  /\ capture \in [Captures -> TaskStates]
  /\ walk \in [Captures -> 0..WalkLen]
  /\ migration \in {NoTask} \cup Transfers
  /\ transfer \in [Transfers -> TaskStates \ {"cancelled"}]
  /\ direction \in [Transfers -> Directions]
  /\ ctl \in [op : CtlOps, task : {NoTask} \cup Captures \cup Transfers]
  /\ reply \in {"none", "ok", "err"}

Init ==
  /\ premigration = NoTask
  /\ cancel = [i \in Captures |-> FALSE]
  /\ capture = [i \in Captures |-> "unspawned"]
  /\ walk = [i \in Captures |-> 0]
  /\ migration = NoTask
  /\ transfer = [t \in Transfers |-> "unspawned"]
  /\ direction = [t \in Transfers |-> "SAVE"]
  /\ ctl = [op |-> "Idle", task |-> NoTask]
  /\ reply = "none"

Idle == ctl.op = "Idle"
Return(r) == ctl' = [op |-> "Idle", task |-> NoTask] /\ reply' = r

\* the thread a spawn creates (the bound is a guard of the spawn); which
\* unused index it takes does not matter
NextCapture == CHOOSE i \in Captures : capture[i] = "unspawned"
NextTransfer == CHOOSE t \in Transfers : transfer[t] = "unspawned"
CanSpawnCapture == \E i \in Captures : capture[i] = "unspawned"
CanSpawnTransfer == \E t \in Transfers : transfer[t] = "unspawned"

\* thread::spawn of serialize or deserialize_and_apply, and the store of its
\* handle into migration_thread, which replaces whatever handle was there
SpawnTransfer(d) ==
  /\ CanSpawnTransfer
  /\ transfer' = [transfer EXCEPT ![NextTransfer] = "running"]
  /\ direction' = [direction EXCEPT ![NextTransfer] = d]
  /\ migration' = NextTransfer

(***************************************************************************)
(* acked_features.                                                         *)
(***************************************************************************)

\* F_LOG_ALL set: spawn prepare_serialization with a fresh cancel flag unless
\* a preparation is already in the slot (then the message changes nothing).
acked_features_log_all ==
  /\ Idle
  /\ premigration = NoTask
  /\ CanSpawnCapture
  /\ \E n \in 0..WalkLen :
       /\ capture' = [capture EXCEPT ![NextCapture] = "running"]
       /\ walk' = [walk EXCEPT ![NextCapture] = n]
  /\ premigration' = NextCapture
  /\ Return("none")
  /\ UNCHANGED <<cancel, migration, transfer, direction>>

\* Mutation: the cancelled preparation is detached instead of joined.
acked_features_cancel_detach ==
  /\ Idle
  /\ premigration # NoTask
  /\ cancel' = [cancel EXCEPT ![premigration] = TRUE]
  /\ premigration' = NoTask
  /\ Return("none")
  /\ UNCHANGED <<capture, walk, migration, transfer, direction>>

\* F_LOG_ALL cleared: take the preparation out of the slot, set its cancel
\* flag, and join it (the result is ignored).
acked_features_cancel ==
  /\ Idle
  /\ premigration # NoTask
  /\ cancel' = [cancel EXCEPT ![premigration] = TRUE]
  /\ premigration' = NoTask
  /\ ctl' = [op |-> "AckJoin", task |-> premigration]
  /\ UNCHANGED <<capture, walk, migration, transfer, direction, reply>>

(***************************************************************************)
(* set_device_state_fd.                                                    *)
(***************************************************************************)

\* any phase but STOPPED is rejected as Unsupported before anything else;
\* the direction does not matter then.  (A message that would spawn a
\* transfer past the bound MaxTransfers is not sent.)
set_device_state_fd_unsupported ==
  /\ Idle
  /\ Return("err")
  /\ UNCHANGED <<premigration, migration, taskVars>>

\* Mutation: SAVE takes the preparation out of the slot but does not join it.
set_device_state_fd_save_detach ==
  /\ Idle
  /\ CanSpawnTransfer
  /\ SpawnTransfer("SAVE")
  /\ Return("ok")
  /\ premigration' = NoTask
  /\ UNCHANGED <<cancel, capture, walk>>

\* SAVE: take the preparation out of the slot and join it; with none, spawn
\* the serializer at once.
set_device_state_fd_save ==
  /\ Idle
  /\ CanSpawnTransfer
  /\ \/ /\ premigration # NoTask
        /\ premigration' = NoTask
        /\ ctl' = [op |-> "SaveJoin", task |-> premigration]
        /\ UNCHANGED <<migration, transfer, direction, reply>>
     \/ /\ premigration = NoTask
        /\ SpawnTransfer("SAVE")
        /\ Return("ok")
        /\ UNCHANGED premigration
  /\ UNCHANGED <<cancel, capture, walk>>

\* LOAD: take the preparation out of the slot, cancel and join it; with
\* none, spawn the deserializer at once.
set_device_state_fd_load ==
  /\ Idle
  /\ CanSpawnTransfer
  /\ \/ /\ premigration # NoTask
        /\ cancel' = [cancel EXCEPT ![premigration] = TRUE]
        /\ premigration' = NoTask
        /\ ctl' = [op |-> "LoadJoin", task |-> premigration]
        /\ UNCHANGED <<migration, transfer, direction, reply>>
     \/ /\ premigration = NoTask
        /\ SpawnTransfer("LOAD")
        /\ Return("ok")
        /\ UNCHANGED <<cancel, premigration>>
  /\ UNCHANGED <<capture, walk>>

\* The joined preparation has ended: acked_features returns; SAVE propagates
\* the preparation's Err with `??` and spawns nothing, or spawns the
\* serializer; LOAD ignores the result and spawns the deserializer.
JoinCapture ==
  /\ ctl.op \in {"AckJoin", "SaveJoin", "LoadJoin"}
  /\ capture[ctl.task] \in Ended
  /\ \/ /\ ctl.op = "AckJoin"
        /\ Return("none")
        /\ UNCHANGED <<migration, transfer, direction>>
     \/ /\ ctl.op = "SaveJoin"
        /\ capture[ctl.task] # "ok"
        /\ Return("err")
        /\ UNCHANGED <<migration, transfer, direction>>
     \/ /\ ctl.op = "SaveJoin"
        /\ capture[ctl.task] = "ok"
        /\ SpawnTransfer("SAVE")
        /\ Return("ok")
     \/ /\ ctl.op = "LoadJoin"
        /\ SpawnTransfer("LOAD")
        /\ Return("ok")
  /\ UNCHANGED <<premigration, cancel, capture, walk>>

(***************************************************************************)
(* check_device_state: take the transfer out of the slot and join it, or   *)
(* report InvalidInput when there is none.                                 *)
(***************************************************************************)
\* Mutation: the handle is borrowed (as_ref) instead of taken, so the
\* collected transfer stays in migration_thread.
check_device_state_keep ==
  /\ Idle
  /\ \/ /\ migration = NoTask
        /\ Return("err")
     \/ /\ migration # NoTask
        /\ ctl' = [op |-> "CheckJoin", task |-> migration]
        /\ UNCHANGED reply
  /\ UNCHANGED <<premigration, migration, taskVars>>

check_device_state ==
  /\ Idle
  /\ \/ /\ migration = NoTask
        /\ Return("err")
        /\ UNCHANGED migration
     \/ /\ migration # NoTask
        /\ migration' = NoTask
        /\ ctl' = [op |-> "CheckJoin", task |-> migration]
        /\ UNCHANGED reply
  /\ UNCHANGED <<premigration, taskVars>>

JoinTransfer ==
  /\ ctl.op = "CheckJoin"
  /\ transfer[ctl.task] \in Ended
  /\ Return(IF transfer[ctl.task] = "ok" THEN "ok" ELSE "err")
  /\ UNCHANGED <<premigration, migration, taskVars>>

(***************************************************************************)
(* The background threads.                                                 *)
(***************************************************************************)

\* Mutation: an entry is read past the end of the directory.
prepare_serialization_overrun(i) ==
  /\ capture[i] = "running"
  /\ \/ /\ walk[i] = 0
        /\ capture' = [capture EXCEPT ![i] = "ok"]
        /\ UNCHANGED walk
     \/ /\ ~cancel[i]
        /\ walk' = [walk EXCEPT ![i] = @ - 1]
        /\ UNCHANGED capture
  /\ UNCHANGED <<premigration, cancel, migration, transfer, direction, ctl, reply>>

\* One step of PathReconstructor::recurse_from on capture i: before each
\* entry the cancel flag is polled; an entry is discovered or fails the
\* walk; with no entry left the walk returns Ok, cancelled or not.
prepare_serialization(i) ==
  /\ capture[i] = "running"
  /\ \/ /\ walk[i] = 0
        /\ capture' = [capture EXCEPT ![i] = "ok"]
        /\ UNCHANGED walk
     \/ /\ walk[i] > 0 /\ cancel[i]
        /\ capture' = [capture EXCEPT ![i] = "cancelled"]
        /\ UNCHANGED walk
     \/ /\ walk[i] > 0 /\ ~cancel[i]
        /\ walk' = [walk EXCEPT ![i] = @ - 1]
        /\ UNCHANGED capture
     \/ /\ walk[i] > 0 /\ ~cancel[i] /\ Faults
        /\ capture' = [capture EXCEPT ![i] = "failed"]
        /\ UNCHANGED walk
  /\ UNCHANGED <<premigration, cancel, migration, transfer, direction, ctl, reply>>

\* serialize or deserialize_and_apply runs to its end, Ok or an I/O error
RunTransfer(t) ==
  /\ transfer[t] = "running"
  /\ \E r \in IF Faults THEN {"ok", "failed"} ELSE {"ok"} :
       transfer' = [transfer EXCEPT ![t] = r]
  /\ UNCHANGED <<premigration, cancel, capture, walk, migration, direction, ctl,
                 reply>>

(***************************************************************************)
(* The front-end sends any control message while the control thread is   *)
(* idle; the background threads run concurrently with it.                 *)
(***************************************************************************)
ControlStep ==
  \/ acked_features_log_all
  \/ acked_features_cancel
  \/ set_device_state_fd_unsupported
  \/ set_device_state_fd_save
  \/ set_device_state_fd_load
  \/ check_device_state

Next ==
  \/ ControlStep
  \/ JoinCapture
  \/ JoinTransfer
  \/ \E i \in Captures : prepare_serialization(i)
  \/ \E t \in Transfers : RunTransfer(t)

Spec == Init /\ [][Next]_vars

-----------------------------------------------------------------------------
(***************************************************************************)
(* Properties.                                                             *)
(***************************************************************************)

(* Only one preparation walk runs at a time (spec section 4.2), however    *)
(* F_LOG_ALL is set and cleared and transfers are started: a preparation  *)
(* taken out of premigration_thread by acked_features or                   *)
(* set_device_state_fd is joined before the control thread handles the    *)
(* next message, so a new walk never starts beside an old one.             *)
AtMostOneCapture ==
  \A i, j \in Running(capture) : i = j

(* A save never starts beside a preparation walk or after a failed one     *)
(* (spec section 8): when set_device_state_fd spawns the serializer, no    *)
(* walk is running, and the walk it took out of the slot ended with Ok.    *)
SpawnsSave(t) == transfer[t] = "unspawned" /\ transfer'[t] = "running"
                 /\ direction'[t] = "SAVE"
SaveAfterCapture ==
  [][\A t \in Transfers :
       SpawnsSave(t) =>
         /\ Running(capture) = {}
         /\ ctl.op = "SaveJoin" => capture[ctl.task] = "ok"]_vars

(* Only one transfer exists at a time (spec section 4.2: the slot is       *)
(* checked for None before the new handle is installed): no two           *)
(* serialize/deserialize_and_apply threads run together.                  *)
AtMostOneTransfer ==
  \A t, u \in Running(transfer) : t = u

(* The save never observes a still-being-written annotation set (spec      *)
(* section 8): while a serializer runs, no preparation walk runs.          *)
NoCaptureDuringSave ==
  \A t \in Running(transfer) : direction[t] = "SAVE" => Running(capture) = {}

(***************************************************************************)
(* Refinement.  The front-end sees the spec section 4.2 state machine of   *)
(* MigrationAbstract: Preparing while a walk is in premigration_thread or  *)
(* being joined by a handler, and Transferring while a transfer is in     *)
(* migration_thread or being joined by check_device_state.  A handler     *)
(* that joins takes its abstract step when the join returns; the part     *)
(* before the join and the background threads are stutters.              *)
(***************************************************************************)
prepBar == premigration # NoTask \/ ctl.op \in CaptureJoins
xferBar == IF migration # NoTask THEN direction[migration]
           ELSE IF ctl.op = "CheckJoin" THEN direction[ctl.task]
           ELSE "none"

Abstract == INSTANCE MigrationAbstract WITH prep <- prepBar, xfer <- xferBar

(* The orchestrator implements the front-end's state machine: every       *)
(* answer of acked_features, set_device_state_fd and check_device_state    *)
(* is one the section 4.2 transitions allow from the tasks the earlier    *)
(* messages left, e.g. check_device_state answers Ok only for a transfer  *)
(* a set_device_state_fd started and no earlier check collected.           *)
ImplementsAbstract == Abstract!Spec
=============================================================================
