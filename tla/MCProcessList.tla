--------------------------- MODULE MCProcessList ---------------------------
(* Two threads at boot and two process objects to spare. *)
EXTENDS ProcessList

CONSTANTS shell, disk, p1, p2

BootThreads == <<shell, disk>>
SpareObjects == <<p1, p2>>

=============================================================================
