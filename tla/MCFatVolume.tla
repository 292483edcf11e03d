---------------------------- MODULE MCFatVolume ----------------------------
(* A table of nine entries in three sectors, twice, and two names. *)
EXTENDS FatVolume

=============================================================================
