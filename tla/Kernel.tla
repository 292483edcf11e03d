------------------------------- MODULE Kernel -------------------------------
(***************************************************************************)
(* The scheduler, the semaphores and the process manager together: every   *)
(* kernel entry of atose.c's system call table and the timer and device    *)
(* interrupts.  Of the pipe calls only the effect on the queues (Block,    *)
(* Wake, WakeAndBlock) is kept here; Pipes.tla has the rest.               *)
(*                                                                         *)
(* A kernel entry is one action, but for the two handlers that poll a      *)
(* register until something outside the program happens: ATOSE_getc until  *)
(* there is a key, and the acknowledge() of the USB host until something   *)
(* is connected.  They poll with interrupts masked, so no other entry is   *)
(* made meanwhile, and nothing in the code bounds the wait.                *)
(***************************************************************************)
EXTENDS Semaphores, Processes

VARIABLE polled   \* what a handler is polling for: "nothing", "key" or "port"

vars == <<queueVars, semVars, procVars, polled>>

TypeOK == QueueTypeOK /\ SemTypeOK /\ ProcTypeOK /\ polled \in {"nothing", "key", "port"}

Init == QueueInit(Boot) /\ SemInit /\ ProcInit /\ polled = "nothing"

\* A kernel entry that no handler holds up.
Prompt == polled = "nothing" /\ UNCHANGED polled

\* A handler starts to poll; all that it does to the kernel, the entry's switch
\* included, is left to the step in which the poll ends.
StartsPolling(what) ==
    /\ polled = "nothing" /\ polled' = what
    /\ UNCHANGED <<queueVars, semVars, procVars>>

EndsPolling(what) == polled = what /\ polled' = "nothing"

\* The timer, whose acknowledge() only clears its status, ATOSE_yield, and the
\* calls that leave all this alone: putc, peekc, get_heap_break.
Tick == Prompt /\ Interrupt /\ UNCHANGED <<semVars, procVars>>

\* ATOSE_getc, until the UART has received a character.
Getc == current # Null /\ StartsPolling("key")

KeyArrives == EndsPolling("key") /\ Interrupt /\ UNCHANGED <<semVars, procVars>>

\* The USB host's interrupt finds a change at the port; acknowledge() waits
\* until the port is connected before it signals.
PortChanges ==
    /\ \E s \in Semaphore \ freeSems : value[s] < MaxValue
    /\ StartsPolling("port")

Connected ==
    /\ EndsPolling("port")
    /\ \E s \in Semaphore \ freeSems : DeviceInterrupt(s)
    /\ UNCHANGED procVars

\* What ATOSE_pipe_send, _receive, _post_event and _reply do to the queues.
PipeCall ==
    /\ Prompt
    /\ Block \/ \E p \in asleep : Wake(p) \/ WakeAndBlock(p)
    /\ UNCHANGED <<semVars, procVars>>

Next ==
    \/ Tick
    \/ PipeCall
    \/ Prompt /\ SemNext /\ UNCHANGED procVars
    \/ Prompt /\ ProcNext /\ UNCHANGED semVars
    \/ Getc
    \/ KeyArrives
    \/ PortChanges
    \/ Connected

\* The timer is enabled in reset() and is never turned off, so it interrupts
\* whoever runs with interrupts enabled.  Nothing makes a key or a device come.
Spec == Init /\ [][Next]_vars /\ WF_vars(Tick)

-----------------------------------------------------------------------------
(* Properties *)

\* The processes some list or pointer of the kernel still leads to.
Accounted == Scheduled \cup OnSemaphore \cup freeProcs \cup {Idle}

\* OnePlace over all the lists that share ATOSE_process::next: the queues of
\* the scheduler, the sleepers of every semaphore and the free list.
OneList ==
    /\ OnePlace
    /\ \A s \in Semaphore :
          /\ IsInjective(sleepers[s])
          /\ \A t \in Semaphore \ {s} : Range(sleepers[s]) \cap Range(sleepers[t]) = {}
    /\ OnSemaphore \cap (Scheduled \cup {Idle}) = {}
    /\ freeProcs \cap (Scheduled \cup OnSemaphore \cup {Idle}) = {}

\* No thread runs, or can ever be woken to run, in an address space that has
\* been given back: it still has its page table and stack.
RunnableHasMemory ==
    \A p \in Scheduled \cup OnSemaphore \cup {Idle} :
        /\ space[p] \in Space \ freeSpaces
        /\ held[space[p]] >= 2

\* The kernel loses track of a process in two ways only: clear() of a
\* semaphore it sleeps on, and a create_process() that runs out of pages.
LostOnlyByClearOrNoPages ==
    [][\A p \in Accounted : p \in Accounted' \/
          \/ \E s \in Semaphore : p \in Range(sleepers[s]) /\ sleepers'[s] = <<>> /\ value'[s] = 0
          \/ p \in freeProcs /\ freePages < 2]_vars

\* Semaphores and processes treat the queues as Dispatcher.tla allows.
KeepsQueueDiscipline == QueueInit(Boot) /\ [][QueueNext]_queueVars

\* Whoever is ready gets the processor, or a handler polls for ever: there is
\* no third way for a process to be starved, however system calls, polls and
\* interrupts follow each other.
EventuallyRuns ==
    \A p \in Process : (p \in Ready) ~> (current = p \/ [](polled # "nothing"))

=============================================================================
