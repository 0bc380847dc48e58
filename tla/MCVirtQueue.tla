---------------------------- MODULE MCVirtQueue ----------------------------
(***************************************************************************)
(* Model-checking instances of VirtQueue: both queues, a few chains each,  *)
(* the serial strategy or a pool of two workers.                           *)
(***************************************************************************)
EXTENDS VirtQueue

MCQueues == {0, 1}
=============================================================================
