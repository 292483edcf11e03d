---------------------------- MODULE MCDiskServer ----------------------------
(* A file of five blocks and a half, read in buffers of two blocks. *)
EXTENDS DiskServer

OffsetsInside == {0, 1, 10}
LengthsOfAll  == {0, 4, 9}

=============================================================================
