---------------------------- MODULE MCSegmentStore ----------------------------
(* Instances of SegmentStore for TLC: see the cfg files.                     *)
EXTENDS SegmentStore
=============================================================================
