---------------------------- MODULE MCCycleQueue ----------------------------
(***************************************************************************)
(* Small instances of CycleQueue.  A queue of size 4 wraps at every index  *)
(* and holds up to three bytes, so that a second write, a partial read and *)
(* a wrapped copy meet in every combination; size 1 has no room at all.    *)
(***************************************************************************)
EXTENDS CycleQueue

\* The condition under which CycleQueueProofs proves the index arithmetic.
ASSUME InstanceIsNarrow == NarrowSizes
=============================================================================
