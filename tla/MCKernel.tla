------------------------------ MODULE MCKernel ------------------------------
(* The kernel with the boot threads SHELL and SERVER_DISK (BOOTSTRAP is one  *)
(* more of the same), one process object and two address spaces to spare.     *)
EXTENDS Kernel

CONSTANTS shell, disk

BootThreads == <<shell, disk>>

=============================================================================
