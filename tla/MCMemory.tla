------------------------------ MODULE MCMemory ------------------------------
(* The disk server in the system space and two process objects for programs, *)
(* which have one address space between them and those they start.            *)
EXTENDS Heap, TLC

CONSTANT server

BootThreads == <<server>>

ASSUME RoomyAssumption == Roomy

PageSymmetry == Permutations(Page) \cup Permutations(Space \ {System})

=============================================================================
