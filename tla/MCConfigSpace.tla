---------------------------- MODULE MCConfigSpace ----------------------------
(***************************************************************************)
(* The configuration space with the code's MAX_TAG_LEN; the tags, offsets  *)
(* and sizes are given in MCConfigSpace.cfg.                               *)
(***************************************************************************)
EXTENDS ConfigSpace
=============================================================================
