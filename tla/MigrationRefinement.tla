------------------------- MODULE MigrationRefinement -------------------------
(***************************************************************************)
(* Proof that the orchestrator (Migration) implements the front-end's      *)
(* state machine (MigrationAbstract) under the refinement mapping          *)
(* prepBar, xferBar, for every bound on the threads and walks and with or *)
(* without I/O failures.                                                   *)
(***************************************************************************)
EXTENDS MigrationProofs

(***************************************************************************)
(* Besides MInv the mapping needs one fact: while check_device_state joins *)
(* a transfer, migration_thread is empty (the handler took the handle      *)
(* out), so the transfer being joined is the one xferBar names.            *)
(***************************************************************************)
CheckTaken == ctl.op = "CheckJoin" => migration = NoTask

RInv == MInv /\ CheckTaken

AVars == <<prepBar, xferBar, reply>>

LEMMA InitRInv == Init => RInv
BY InitMInv DEF Init, RInv, CheckTaken

LEMMA NextCheckTaken ==
  ASSUME RInv, [Next]_vars
  PROVE  CheckTaken'
<1>1. CASE check_device_state
  BY <1>1 DEF check_device_state, Return, CheckTaken
<1>2. CASE ControlStep /\ ~check_device_state
  BY <1>2 DEF ControlStep, acked_features_log_all, acked_features_cancel,
     set_device_state_fd_unsupported, set_device_state_fd_save,
     set_device_state_fd_load, Return, CheckTaken
<1>3. CASE JoinCapture \/ JoinTransfer
  BY <1>3 DEF JoinCapture, JoinTransfer, Return, CheckTaken
<1>4. CASE \/ \E i \in Captures : prepare_serialization(i)
           \/ \E t \in Transfers : RunTransfer(t)
           \/ UNCHANGED vars
  BY <1>4 DEF prepare_serialization, RunTransfer, vars, RInv, CheckTaken
<1>5. QED
  BY <1>1, <1>2, <1>3, <1>4 DEF Next

LEMMA NextRInv == RInv /\ [Next]_vars => RInv'
BY NextMInv, NextCheckTaken DEF RInv

\* A spawned transfer is in migration_thread with its direction.
LEMMA SpawnTransferSlot ==
  ASSUME TypeOK, NEW d \in Directions, SpawnTransfer(d)
  PROVE  migration' # NoTask /\ direction'[migration'] = d
<1>1. NextTransfer \in Transfers
  BY NextTransferFacts DEF SpawnTransfer
<1>2. QED
  BY <1>1 DEF SpawnTransfer, TypeOK, NoTask, Transfers

\* A spawn that returns to the idle loop shows the new transfer.
LEMMA SpawnTransferXfer ==
  ASSUME TypeOK, NEW d \in Directions, SpawnTransfer(d),
         ctl' = [op |-> "Idle", task |-> NoTask]
  PROVE  xferBar' = d
BY SpawnTransferSlot DEF xferBar

\* Steps that leave the slots, the control thread and the reply alone.
LEMMA Stutter ==
  ASSUME UNCHANGED <<premigration, migration, direction, ctl, reply>>
  PROVE  UNCHANGED AVars
BY DEF AVars, prepBar, xferBar

LEMMA ControlRefines ==
  ASSUME RInv, ControlStep
  PROVE  [Abstract!Next]_AVars
<1>0. TypeOK /\ Idle
  BY DEF RInv, MInv, ControlStep, acked_features_log_all, acked_features_cancel,
     set_device_state_fd_unsupported, set_device_state_fd_save,
     set_device_state_fd_load, check_device_state
<1>1. ~ctl.op \in CaptureJoins /\ ctl.op # "CheckJoin"
  BY <1>0 DEF Idle, CaptureJoins
<1>2. CASE acked_features_log_all
  <2>1. NextCapture \in Captures
    BY <1>2, NextCaptureFacts DEF acked_features_log_all
  <2>2. ~prepBar /\ prepBar' /\ reply' = "none" /\ UNCHANGED xferBar
    BY <1>1, <1>2, <2>1 DEF acked_features_log_all, Return, prepBar, xferBar,
       NoTask, Captures, CaptureJoins
  <2>3. QED
    BY <2>2 DEF Abstract!Next, Abstract!LogAllSet
<1>3. CASE acked_features_cancel
  <2>1. prepBar /\ prepBar' /\ UNCHANGED <<xferBar, reply>>
    BY <1>1, <1>3 DEF acked_features_cancel, prepBar, xferBar, CaptureJoins
  <2>2. QED
    BY <2>1 DEF AVars
<1>4. CASE set_device_state_fd_unsupported
  <2>1. UNCHANGED <<prepBar, xferBar>> /\ reply' = "err"
    BY <1>4 DEF set_device_state_fd_unsupported, Return, taskVars, prepBar, xferBar, Idle,
       CaptureJoins
  <2>2. QED
    BY <2>1 DEF Abstract!Next, Abstract!Unsupported
<1>5. CASE set_device_state_fd_save /\ premigration # NoTask
  <2>1. prepBar /\ prepBar' /\ UNCHANGED <<xferBar, reply>>
    BY <1>1, <1>5 DEF set_device_state_fd_save, prepBar, xferBar, CaptureJoins
  <2>2. QED
    BY <2>1 DEF AVars
<1>6. CASE set_device_state_fd_save /\ premigration = NoTask
  <2>1. SpawnTransfer("SAVE") /\ ctl' = [op |-> "Idle", task |-> NoTask]
        /\ reply' = "ok" /\ premigration' = NoTask
    BY <1>6 DEF set_device_state_fd_save, Return
  <2>2. xferBar' = "SAVE"
    BY <1>0, <2>1, SpawnTransferXfer DEF Directions
  <2>3. ~prepBar'
    BY <2>1 DEF prepBar, CaptureJoins
  <2>4. QED
    BY <2>1, <2>2, <2>3 DEF Abstract!Next, Abstract!SaveStart
<1>7. CASE set_device_state_fd_load /\ premigration # NoTask
  <2>1. prepBar /\ prepBar' /\ UNCHANGED <<xferBar, reply>>
    BY <1>1, <1>7 DEF set_device_state_fd_load, prepBar, xferBar, CaptureJoins
  <2>2. QED
    BY <2>1 DEF AVars
<1>8. CASE set_device_state_fd_load /\ premigration = NoTask
  <2>1. SpawnTransfer("LOAD") /\ ctl' = [op |-> "Idle", task |-> NoTask]
        /\ reply' = "ok" /\ premigration' = NoTask
    BY <1>8 DEF set_device_state_fd_load, Return
  <2>2. xferBar' = "LOAD"
    BY <1>0, <2>1, SpawnTransferXfer DEF Directions
  <2>3. ~prepBar'
    BY <2>1 DEF prepBar, CaptureJoins
  <2>4. QED
    BY <2>1, <2>2, <2>3 DEF Abstract!Next, Abstract!LoadStart
<1>9. CASE check_device_state /\ migration = NoTask
  <2>1. xferBar = "none" /\ UNCHANGED <<prepBar, xferBar>> /\ reply' = "err"
    BY <1>1, <1>9 DEF check_device_state, Return, taskVars, prepBar, xferBar, CaptureJoins
  <2>2. QED
    BY <2>1 DEF Abstract!Next, Abstract!CheckNone
<1>10. CASE check_device_state /\ migration # NoTask
  <2>1. UNCHANGED <<prepBar, xferBar, reply>>
    BY <1>1, <1>10 DEF check_device_state, taskVars, prepBar, xferBar, CaptureJoins
  <2>2. QED
    BY <2>1 DEF AVars
<1>11. QED
  BY <1>2, <1>3, <1>4, <1>5, <1>6, <1>7, <1>8, <1>9, <1>10 DEF ControlStep

\* The return from a join is the abstract step of the handler that joined.
LEMMA JoinCaptureRefines ==
  ASSUME RInv, JoinCapture
  PROVE  [Abstract!Next]_AVars
<1>0. /\ TypeOK /\ ctl.op \in CaptureJoins /\ premigration = NoTask
      /\ ctl' = [op |-> "Idle", task |-> NoTask]
      /\ UNCHANGED premigration
  BY DEF RInv, MInv, JoinCapture, Return, CaptureJoins
<1>1. prepBar /\ ~prepBar'
  BY <1>0 DEF prepBar, CaptureJoins
<1>2. CASE ctl.op = "AckJoin"
  <2>1. reply' = "none" /\ UNCHANGED xferBar
    BY <1>0, <1>2 DEF JoinCapture, Return, xferBar
  <2>2. QED
    BY <1>1, <2>1 DEF Abstract!Next, Abstract!LogAllCleared
<1>3. CASE ctl.op = "SaveJoin" /\ capture[ctl.task] # "ok"
  <2>1. reply' = "err" /\ UNCHANGED xferBar
    BY <1>0, <1>3 DEF JoinCapture, Return, xferBar
  <2>2. QED
    BY <1>1, <2>1 DEF Abstract!Next, Abstract!SaveStart
<1>4. CASE ctl.op = "SaveJoin" /\ capture[ctl.task] = "ok"
  <2>1. SpawnTransfer("SAVE") /\ reply' = "ok"
    BY <1>0, <1>4 DEF JoinCapture, Return
  <2>2. xferBar' = "SAVE"
    BY <1>0, <2>1, SpawnTransferXfer DEF Directions
  <2>3. QED
    BY <1>1, <2>1, <2>2 DEF Abstract!Next, Abstract!SaveStart
<1>5. CASE ctl.op = "LoadJoin"
  <2>1. SpawnTransfer("LOAD") /\ reply' = "ok"
    BY <1>0, <1>5 DEF JoinCapture, Return
  <2>2. xferBar' = "LOAD"
    BY <1>0, <2>1, SpawnTransferXfer DEF Directions
  <2>3. QED
    BY <1>1, <2>1, <2>2 DEF Abstract!Next, Abstract!LoadStart
<1>6. QED
  BY <1>0, <1>2, <1>3, <1>4, <1>5 DEF CaptureJoins

\* check_device_state's join returns the outcome of the transfer it took.
LEMMA JoinTransferRefines ==
  ASSUME RInv, JoinTransfer
  PROVE  [Abstract!Next]_AVars
<1>0. /\ TypeOK /\ ctl.op = "CheckJoin" /\ ctl.task \in Transfers
      /\ migration = NoTask
      /\ ctl' = [op |-> "Idle", task |-> NoTask]
      /\ reply' \in {"ok", "err"}
      /\ UNCHANGED <<premigration, migration, direction>>
  BY DEF RInv, MInv, CheckTaken, JoinTransfer, Return, taskVars
<1>1. xferBar # "none" /\ xferBar' = "none"
  BY <1>0 DEF xferBar, TypeOK, Directions
<1>2. UNCHANGED prepBar
  BY <1>0 DEF prepBar, CaptureJoins
<1>3. QED
  BY <1>1, <1>2, <1>0 DEF Abstract!Next, Abstract!Check

LEMMA NextRefines == RInv /\ [Next]_vars => [Abstract!Next]_AVars
<1> SUFFICES ASSUME RInv, [Next]_vars PROVE [Abstract!Next]_AVars
  OBVIOUS
<1>1. CASE ControlStep
  BY <1>1, ControlRefines
<1>2. CASE JoinCapture
  BY <1>2, JoinCaptureRefines
<1>3. CASE JoinTransfer
  BY <1>3, JoinTransferRefines
<1>4. CASE \/ \E i \in Captures : prepare_serialization(i)
           \/ \E t \in Transfers : RunTransfer(t)
           \/ UNCHANGED vars
  <2>1. UNCHANGED <<premigration, migration, direction, ctl, reply>>
    BY <1>4 DEF prepare_serialization, RunTransfer, vars
  <2>2. QED
    BY <2>1, Stutter
<1>5. QED
  BY <1>1, <1>2, <1>3, <1>4 DEF Next

LEMMA InitRefines == Init => Abstract!Init
BY DEF Init, Abstract!Init, prepBar, xferBar, CaptureJoins

(* The orchestrator implements the spec section 4.2 state machine of the   *)
(* front-end (ImplementsAbstract): acked_features, set_device_state_fd     *)
(* and check_device_state answer as the atomic transitions of             *)
(* MigrationAbstract would, from the tasks the earlier messages left in   *)
(* premigration_thread and migration_thread, however their joins          *)
(* interleave with the preparation and transfer threads.                  *)
THEOREM Refinement == Spec => ImplementsAbstract
<1>1. Spec => []RInv
  BY InitRInv, NextRInv, PTL DEF Spec
<1>2. QED
  BY <1>1, InitRefines, NextRefines, PTL
  DEF Spec, ImplementsAbstract, Abstract!Spec, AVars, Abstract!avars
=============================================================================
