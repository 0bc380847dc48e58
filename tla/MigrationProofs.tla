-------------------------- MODULE MigrationProofs --------------------------
(***************************************************************************)
(* Proofs about the migration orchestrator (Migration), for every bound on *)
(* the threads and walks and with or without I/O failures.                 *)
(***************************************************************************)
EXTENDS Migration, TLAPS

(***************************************************************************)
(* The inductive invariant.  Every running preparation walk is owned:      *)
(* either premigration_thread holds it or the control thread is joining   *)
(* it; the slot is empty while the control thread joins a walk (the       *)
(* handler took the walk out of it); and a join names a task of its kind. *)
(***************************************************************************)
Owned ==
  \A i \in Captures :
    capture[i] = "running" =>
      \/ premigration = i
      \/ ctl.op \in CaptureJoins /\ ctl.task = i

MInv ==
  /\ TypeOK
  /\ Owned
  /\ ctl.op \in CaptureJoins => premigration = NoTask
  /\ ctl.op \in CaptureJoins => ctl.task \in Captures
  /\ ctl.op = "CheckJoin" => ctl.task \in Transfers
-----------------------------------------------------------------------------
LEMMA NextCaptureFacts ==
  ASSUME CanSpawnCapture
  PROVE  NextCapture \in Captures /\ capture[NextCapture] = "unspawned"
BY Zenon DEF CanSpawnCapture, NextCapture

LEMMA NextTransferFacts ==
  ASSUME CanSpawnTransfer
  PROVE  NextTransfer \in Transfers /\ transfer[NextTransfer] = "unspawned"
BY Zenon DEF CanSpawnTransfer, NextTransfer

LEMMA InitMInv == Init => MInv
BY WalkLenAssumption DEF Init, MInv, TypeOK, Owned, Idle, CaptureJoins, NoTask, CtlOps,
       TaskStates, Directions

LEMMA LogAllMInv ==
  ASSUME MInv, acked_features_log_all
  PROVE  MInv'
<1>1. NextCapture \in Captures /\ capture[NextCapture] = "unspawned"
  BY NextCaptureFacts DEF acked_features_log_all
<1>2. /\ Idle /\ premigration = NoTask /\ premigration' = NextCapture
      /\ ctl' = [op |-> "Idle", task |-> NoTask]
      /\ capture' = [capture EXCEPT ![NextCapture] = "running"]
      /\ \E n \in 0..WalkLen : walk' = [walk EXCEPT ![NextCapture] = n]
      /\ UNCHANGED <<cancel, migration, transfer, direction>>
      /\ reply' = "none"
  BY DEF acked_features_log_all, Return
<1>3. TypeOK'
  BY <1>1, <1>2 DEF MInv, TypeOK, CtlOps, TaskStates
<1>4. Owned'
  <2> SUFFICES ASSUME NEW i \in Captures, capture'[i] = "running"
               PROVE  premigration' = i
    BY DEF Owned
  <2>1. CASE i = NextCapture
    BY <2>1, <1>2
  <2>2. CASE i # NextCapture
    <3>1. capture[i] = "running"
      BY <2>2, <1>2
    <3>2. FALSE
      BY <3>1, <1>2 DEF MInv, Owned, Idle, CaptureJoins, NoTask, Captures
    <3>3. QED
      BY <3>2
  <2>3. QED
    BY <2>1, <2>2
<1>5. QED
  BY <1>2, <1>3, <1>4 DEF MInv, Idle, CaptureJoins

LEMMA CancelMInv ==
  ASSUME MInv, acked_features_cancel
  PROVE  MInv'
<1>1. premigration \in Captures /\ Idle
  BY DEF acked_features_cancel, MInv, TypeOK, NoTask
<1>2. /\ premigration' = NoTask
      /\ ctl' = [op |-> "AckJoin", task |-> premigration]
      /\ cancel' = [cancel EXCEPT ![premigration] = TRUE]
      /\ UNCHANGED <<capture, walk, migration, transfer, direction, reply>>
  BY DEF acked_features_cancel
<1>3. TypeOK'
  BY <1>1, <1>2 DEF MInv, TypeOK, CtlOps
<1>4. Owned'
  BY <1>1, <1>2 DEF MInv, Owned, Idle, CaptureJoins
<1>5. QED
  BY <1>1, <1>2, <1>3, <1>4 DEF MInv, Idle, CaptureJoins, NoTask

LEMMA UnsupportedMInv ==
  ASSUME MInv, set_device_state_fd_unsupported
  PROVE  MInv'
BY DEF set_device_state_fd_unsupported, Return, taskVars, MInv, TypeOK, Owned, Idle, CaptureJoins, NoTask, Captures, Transfers,
    CtlOps, TaskStates, Directions

\* What spawning a transfer does to the transfer slots.
LEMMA SpawnTransferFacts ==
  ASSUME TypeOK, NEW d \in Directions, SpawnTransfer(d)
  PROVE  /\ migration' \in Transfers
         /\ transfer' \in [Transfers -> TaskStates \ {"cancelled"}]
         /\ direction' \in [Transfers -> Directions]
<1>1. NextTransfer \in Transfers
  BY NextTransferFacts DEF SpawnTransfer
<1>2. QED
  BY <1>1 DEF SpawnTransfer, TypeOK, TaskStates

LEMMA SaveMInv ==
  ASSUME MInv, set_device_state_fd_save
  PROVE  MInv'
<1>1. CASE premigration # NoTask
  <2>1. /\ premigration \in Captures /\ Idle
        /\ premigration' = NoTask
        /\ ctl' = [op |-> "SaveJoin", task |-> premigration]
        /\ UNCHANGED <<cancel, capture, walk, migration, transfer, direction, reply>>
    BY <1>1 DEF set_device_state_fd_save, MInv, TypeOK, NoTask
  <2>2. QED
    BY <2>1 DEF MInv, TypeOK, Owned, Idle, CaptureJoins, NoTask, Captures, Transfers,
    CtlOps, TaskStates, Directions
<1>2. CASE premigration = NoTask
  <2>1. /\ SpawnTransfer("SAVE") /\ Idle
        /\ ctl' = [op |-> "Idle", task |-> NoTask] /\ reply' = "ok"
        /\ UNCHANGED <<premigration, cancel, capture, walk>>
    BY <1>2 DEF set_device_state_fd_save, Return, NoTask
  <2>2. /\ migration' \in Transfers
        /\ transfer' \in [Transfers -> TaskStates \ {"cancelled"}]
        /\ direction' \in [Transfers -> Directions]
    BY <2>1, SpawnTransferFacts DEF MInv, Directions
  <2>3. QED
    BY <2>1, <2>2 DEF MInv, TypeOK, Owned, Idle, CaptureJoins, NoTask, Captures, Transfers,
    CtlOps, TaskStates, Directions
<1>3. QED
  BY <1>1, <1>2

LEMMA LoadMInv ==
  ASSUME MInv, set_device_state_fd_load
  PROVE  MInv'
<1>1. CASE premigration # NoTask
  <2>1. /\ premigration \in Captures /\ Idle
        /\ premigration' = NoTask
        /\ ctl' = [op |-> "LoadJoin", task |-> premigration]
        /\ cancel' = [cancel EXCEPT ![premigration] = TRUE]
        /\ UNCHANGED <<capture, walk, migration, transfer, direction, reply>>
    BY <1>1 DEF set_device_state_fd_load, MInv, TypeOK, NoTask
  <2>2. QED
    BY <2>1 DEF MInv, TypeOK, Owned, Idle, CaptureJoins, NoTask, Captures, Transfers,
    CtlOps, TaskStates, Directions
<1>2. CASE premigration = NoTask
  <2>1. /\ SpawnTransfer("LOAD") /\ Idle
        /\ ctl' = [op |-> "Idle", task |-> NoTask] /\ reply' = "ok"
        /\ UNCHANGED <<premigration, cancel, capture, walk>>
    BY <1>2 DEF set_device_state_fd_load, Return, NoTask
  <2>2. /\ migration' \in Transfers
        /\ transfer' \in [Transfers -> TaskStates \ {"cancelled"}]
        /\ direction' \in [Transfers -> Directions]
    BY <2>1, SpawnTransferFacts DEF MInv, Directions
  <2>3. QED
    BY <2>1, <2>2 DEF MInv, TypeOK, Owned, Idle, CaptureJoins, NoTask, Captures, Transfers,
    CtlOps, TaskStates, Directions
<1>3. QED
  BY <1>1, <1>2

LEMMA CheckMInv ==
  ASSUME MInv, check_device_state
  PROVE  MInv'
<1>1. CASE migration = NoTask
  <2>1. /\ Idle /\ ctl' = [op |-> "Idle", task |-> NoTask] /\ reply' = "err"
        /\ UNCHANGED <<premigration, migration, cancel, capture, walk, transfer,
                       direction>>
    BY <1>1 DEF check_device_state, Return, taskVars
  <2>2. QED
    BY <2>1 DEF MInv, TypeOK, Owned, Idle, CaptureJoins, NoTask, Captures, Transfers,
    CtlOps, TaskStates, Directions
<1>2. CASE migration # NoTask
  <2>1. /\ migration \in Transfers /\ Idle
        /\ migration' = NoTask
        /\ ctl' = [op |-> "CheckJoin", task |-> migration]
        /\ UNCHANGED <<premigration, reply, cancel, capture, walk, transfer,
                       direction>>
    BY <1>2 DEF check_device_state, taskVars, MInv, TypeOK, NoTask
  <2>2. QED
    BY <2>1 DEF MInv, TypeOK, Owned, Idle, CaptureJoins, NoTask, Captures, Transfers,
    CtlOps, TaskStates, Directions
<1>3. QED
  BY <1>1, <1>2

LEMMA JoinTransferMInv ==
  ASSUME MInv, JoinTransfer
  PROVE  MInv'
BY DEF JoinTransfer, Return, taskVars, MInv, TypeOK, Owned, Idle, CaptureJoins, NoTask, Captures, Transfers,
    CtlOps, TaskStates, Directions

LEMMA PrepareMInv ==
  ASSUME MInv, NEW i \in Captures, prepare_serialization(i)
  PROVE  MInv'
<1>0. /\ capture \in [Captures -> TaskStates] /\ walk \in [Captures -> 0..WalkLen]
      /\ capture[i] = "running"
      /\ UNCHANGED <<premigration, cancel, migration, transfer, direction, ctl,
                     reply>>
  BY DEF MInv, TypeOK, prepare_serialization
<1> DEFINE Shrinks == /\ capture' \in [Captures -> TaskStates]
                     /\ walk' \in [Captures -> 0..WalkLen]
                     /\ \A j \in Captures : capture'[j] = "running" => capture[j] = "running"
<1>1. Shrinks
  <2>1. CASE walk[i] = 0 /\ capture' = [capture EXCEPT ![i] = "ok"] /\ UNCHANGED walk
    BY <2>1, <1>0 DEF TaskStates
  <2>2. CASE walk[i] > 0 /\ cancel[i] /\ capture' = [capture EXCEPT ![i] = "cancelled"]
             /\ UNCHANGED walk
    BY <2>2, <1>0 DEF TaskStates
  <2>3. CASE walk[i] > 0 /\ walk' = [walk EXCEPT ![i] = @ - 1] /\ UNCHANGED capture
    BY <2>3, <1>0, WalkLenAssumption
  <2>4. CASE walk[i] > 0 /\ capture' = [capture EXCEPT ![i] = "failed"] /\ UNCHANGED walk
    BY <2>4, <1>0 DEF TaskStates
  <2>5. QED
    BY <2>1, <2>2, <2>3, <2>4 DEF prepare_serialization
<1>2. TypeOK'
  BY <1>0, <1>1 DEF MInv, TypeOK
<1>3. Owned'
  BY <1>0, <1>1 DEF MInv, Owned
<1>4. QED
  BY <1>0, <1>2, <1>3 DEF MInv, Idle, CaptureJoins

LEMMA RunTransferMInv ==
  ASSUME MInv, NEW t \in Transfers, RunTransfer(t)
  PROVE  MInv'
BY DEF RunTransfer, MInv, TypeOK, Owned, Idle, CaptureJoins, NoTask, Captures, Transfers,
    CtlOps, TaskStates, Directions

LEMMA StutterMInv ==
  ASSUME MInv, UNCHANGED vars
  PROVE  MInv'
BY DEF vars, MInv, TypeOK, Owned, Idle, CaptureJoins, NoTask, Captures, Transfers,
    CtlOps, TaskStates, Directions

\* While the control thread joins a walk that has ended, no walk runs.
LEMMA JoinedNoneRunning ==
  ASSUME MInv, ctl.op \in CaptureJoins, capture[ctl.task] \in Ended
  PROVE  Running(capture) = {}
<1> SUFFICES ASSUME NEW j \in Captures, capture[j] = "running" PROVE FALSE
  BY DEF Running, MInv, TypeOK
<1>1. premigration = NoTask /\ ctl.task \in Captures
  BY DEF MInv
<1>2. j # NoTask
  BY DEF NoTask, Captures
<1>3. ctl.task # j
  BY DEF Ended
<1>4. QED
  BY <1>1, <1>2, <1>3 DEF MInv, Owned

LEMMA JoinCaptureMInv ==
  ASSUME MInv, JoinCapture
  PROVE  MInv'
<1>0. /\ ctl.op \in CaptureJoins /\ capture[ctl.task] \in Ended
      /\ ctl' = [op |-> "Idle", task |-> NoTask]
      /\ UNCHANGED <<premigration, cancel, capture, walk>>
  BY DEF JoinCapture, Return, CaptureJoins
<1>1. Running(capture) = {}
  BY <1>0, JoinedNoneRunning
<1>2. Owned'
  BY <1>0, <1>1 DEF Owned, Running, MInv, TypeOK
<1>3. /\ migration' \in {NoTask} \cup Transfers
      /\ transfer' \in [Transfers -> TaskStates \ {"cancelled"}]
      /\ direction' \in [Transfers -> Directions]
      /\ reply' \in {"none", "ok", "err"}
  <2>1. CASE UNCHANGED <<migration, transfer, direction>>
    BY <2>1 DEF JoinCapture, Return, MInv, TypeOK
  <2>2. CASE SpawnTransfer("SAVE") \/ SpawnTransfer("LOAD")
    BY <2>2, SpawnTransferFacts DEF JoinCapture, Return, MInv, Directions
  <2>3. QED
    BY <2>1, <2>2 DEF JoinCapture
<1>4. QED
  BY <1>0, <1>2, <1>3 DEF MInv, TypeOK, Owned, Idle, CaptureJoins, NoTask, Captures, Transfers,
      CtlOps, TaskStates, Directions

LEMMA NextMInv == MInv /\ [Next]_vars => MInv'
<1> SUFFICES ASSUME MInv, [Next]_vars PROVE MInv'
  OBVIOUS
<1>1. CASE ControlStep
  BY <1>1, LogAllMInv, CancelMInv, UnsupportedMInv, SaveMInv, LoadMInv,
     CheckMInv DEF ControlStep
<1>2. CASE JoinCapture
  BY <1>2, JoinCaptureMInv
<1>3. CASE JoinTransfer
  BY <1>3, JoinTransferMInv
<1>4. CASE \E i \in Captures : prepare_serialization(i)
  BY <1>4, PrepareMInv
<1>5. CASE \E t \in Transfers : RunTransfer(t)
  BY <1>5, RunTransferMInv
<1>6. CASE UNCHANGED vars
  BY <1>6, StutterMInv
<1>7. QED
  BY <1>1, <1>2, <1>3, <1>4, <1>5, <1>6 DEF Next

(***************************************************************************)
(* The invariant holds in every reachable state of the orchestrator.       *)
(***************************************************************************)
THEOREM OrchestratorInvariant == Spec => []MInv
<1>1. Init => MInv
  BY InitMInv
<1>2. MInv /\ [Next]_vars => MInv'
  BY NextMInv
<1>3. QED
  BY <1>1, <1>2, PTL DEF Spec

(* Type correctness of the orchestrator: the two slots hold a task of      *)
(* their kind or nothing, and a join names a task.                         *)
THEOREM MigrationTypeCorrect == Spec => []TypeOK
<1>1. MInv => TypeOK
  BY DEF MInv
<1>2. QED
  BY <1>1, OrchestratorInvariant, PTL

(* Only one preparation walk runs at a time, for every number of          *)
(* F_LOG_ALL toggles and transfer requests (acked_features and            *)
(* set_device_state_fd join every walk they take out of the slot).         *)
THEOREM CaptureExclusion == Spec => []AtMostOneCapture
<1>1. MInv => AtMostOneCapture
  <2> SUFFICES ASSUME MInv, NEW i \in Captures, NEW j \in Captures,
                      capture[i] = "running", capture[j] = "running"
               PROVE  i = j
    BY DEF AtMostOneCapture, Running, MInv, TypeOK
  <2>1. premigration = NoTask => ctl.op \in CaptureJoins /\ ctl.task = i /\ ctl.task = j
    BY DEF MInv, Owned, NoTask, Captures
  <2>2. premigration # NoTask => ctl.op \notin CaptureJoins
    BY DEF MInv
  <2>3. premigration # NoTask => premigration = i /\ premigration = j
    BY <2>2 DEF MInv, Owned
  <2>4. QED
    BY <2>1, <2>3
<1>2. QED
  BY <1>1, OrchestratorInvariant, PTL

\* the condition SaveAfterCapture puts on every step
SaveStep ==
  \A t \in Transfers :
    SpawnsSave(t) =>
      /\ Running(capture) = {}
      /\ ctl.op = "SaveJoin" => capture[ctl.task] = "ok"

LEMMA NoSpawnNoSave ==
  ASSUME UNCHANGED transfer
  PROVE  SaveStep
BY DEF SaveStep, SpawnsSave

LEMMA LoadSpawnNoSave ==
  ASSUME TypeOK, SpawnTransfer("LOAD")
  PROVE  SaveStep
<1>1. NextTransfer \in Transfers
  BY NextTransferFacts DEF SpawnTransfer
<1> SUFFICES ASSUME NEW t \in Transfers, SpawnsSave(t) PROVE FALSE
  BY DEF SaveStep
<1>2. CASE t = NextTransfer
  BY <1>1, <1>2 DEF SpawnsSave, SpawnTransfer, TypeOK
<1>3. CASE t # NextTransfer
  BY <1>1, <1>3 DEF SpawnsSave, SpawnTransfer, TypeOK
<1>4. QED
  BY <1>2, <1>3

LEMMA RunTransferNoSave ==
  ASSUME TypeOK, NEW u \in Transfers, RunTransfer(u)
  PROVE  SaveStep
<1> SUFFICES ASSUME NEW t \in Transfers, SpawnsSave(t) PROVE FALSE
  BY DEF SaveStep
<1>1. PICK r \in {"ok", "failed"} : transfer' = [transfer EXCEPT ![u] = r]
  BY DEF RunTransfer
<1>2. QED
  BY <1>1 DEF SpawnsSave, TypeOK

\* No walk runs when the control thread is idle and the slot is empty.
LEMMA IdleNoneRunning ==
  ASSUME MInv, Idle, premigration = NoTask
  PROVE  Running(capture) = {}
BY DEF MInv, TypeOK, Owned, Running, Idle, CaptureJoins, NoTask, Captures

LEMMA NextSaveStep == MInv /\ [Next]_vars => SaveStep
<1> SUFFICES ASSUME MInv, [Next]_vars PROVE SaveStep
  OBVIOUS
<1>0. TypeOK
  BY DEF MInv
<1>1. CASE acked_features_log_all \/ acked_features_cancel
           \/ set_device_state_fd_unsupported \/ check_device_state
           \/ JoinTransfer \/ \E i \in Captures : prepare_serialization(i)
  BY <1>1, NoSpawnNoSave
  DEF acked_features_log_all, acked_features_cancel,
      set_device_state_fd_unsupported, check_device_state, JoinTransfer,
      prepare_serialization, taskVars, vars
<1>2. CASE set_device_state_fd_save
  <2>1. CASE premigration # NoTask
    BY <2>1, <1>2, NoSpawnNoSave DEF set_device_state_fd_save
  <2>2. CASE premigration = NoTask
    <3>1. Idle
      BY <1>2 DEF set_device_state_fd_save
    <3>2. Running(capture) = {}
      BY <2>2, <3>1, IdleNoneRunning
    <3>3. QED
      BY <3>1, <3>2 DEF SaveStep, Idle
  <2>3. QED
    BY <2>1, <2>2
<1>3. CASE set_device_state_fd_load
  <2>1. CASE premigration # NoTask
    BY <2>1, <1>3, NoSpawnNoSave DEF set_device_state_fd_load
  <2>2. CASE premigration = NoTask
    BY <2>2, <1>3, <1>0, LoadSpawnNoSave DEF set_device_state_fd_load
  <2>3. QED
    BY <2>1, <2>2
<1>4. CASE JoinCapture
  <2>0. ctl.op \in CaptureJoins /\ capture[ctl.task] \in Ended
    BY <1>4 DEF JoinCapture, CaptureJoins
  <2>1. Running(capture) = {}
    BY <2>0, JoinedNoneRunning
  <2>2. CASE ctl.op = "SaveJoin" /\ capture[ctl.task] = "ok"
    BY <2>1, <2>2 DEF SaveStep
  <2>3. CASE ctl.op = "LoadJoin"
    BY <2>3, <1>4, <1>0, LoadSpawnNoSave DEF JoinCapture
  <2>4. CASE ctl.op = "AckJoin" \/ (ctl.op = "SaveJoin" /\ capture[ctl.task] # "ok")
    BY <2>4, <1>4, NoSpawnNoSave DEF JoinCapture
  <2>5. QED
    BY <2>0, <2>2, <2>3, <2>4 DEF CaptureJoins
<1>5. CASE \E u \in Transfers : RunTransfer(u)
  BY <1>5, <1>0, RunTransferNoSave
<1>6. CASE UNCHANGED vars
  BY <1>6, NoSpawnNoSave DEF vars
<1>7. QED
  BY <1>1, <1>2, <1>3, <1>4, <1>5, <1>6 DEF Next, ControlStep

(* Save ordering (set_device_state_fd with SAVE, spec section 8): the      *)
(* serializer is only ever spawned when no preparation walk runs, and,     *)
(* when the request took a walk out of premigration_thread, only after    *)
(* that walk returned Ok.                                                  *)
THEOREM SaveOrdering == Spec => SaveAfterCapture
<1>1. MInv /\ [Next]_vars => [SaveStep]_vars
  BY NextSaveStep
<1>2. QED
  BY <1>1, OrchestratorInvariant, PTL DEF Spec, SaveAfterCapture, SaveStep
=============================================================================
