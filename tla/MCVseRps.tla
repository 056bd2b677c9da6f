------------------------------ MODULE MCVseRps ------------------------------
(***************************************************************************)
(* Packets without a recorded queue, of the queue, and of one the device   *)
(* does not have.  The contexts are alike.                                 *)
(***************************************************************************)
EXTENDS VseRps, TLC

MCRecorded == {NoQueue, 0, 1}
Alike == Permutations(Context)
=============================================================================
