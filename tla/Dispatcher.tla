----------------------------- MODULE Dispatcher -----------------------------
(***************************************************************************)
(* The process queues of the ATOSE scheduler (process_manager.c and        *)
(* sleep_wake.c): who holds the processor, who is ready, who sleeps.       *)
(*                                                                         *)
(* SWI and IRQ handlers run with interrupts masked, and each one ends in   *)
(* context_switch().  So one kernel entry, from the trap to the context    *)
(* switch, is one action.  This module is both the vocabulary the kernel   *)
(* components are written in and the abstract specification of what their  *)
(* kernel entries may do to the queues.                                    *)
(***************************************************************************)
EXTENDS Naturals, Sequences, Functions

CONSTANTS Process,   \* the process objects of process_allocator
          Idle,      \* the idle process: kept out of every queue
          Null       \* the NULL pointer, of every type

ASSUME DispatcherAssumption == Idle \in Process /\ Null \notin Process

VARIABLES current,   \* current_process; Null while the idle loop runs
          ready,     \* active_tail .. active_head, the next to run first
          asleep     \* inactive_queue (only identity matters to wake())

queueVars == <<current, ready, asleep>>

Ready  == Range(ready)

\* The processes in the care of the scheduler.
Scheduled == ({current} \ {Null}) \cup Ready \cup asleep

QueueTypeOK ==
    /\ current \in Process \cup {Null}
    /\ ready \in Seq(Process)
    /\ asleep \subseteq Process

-----------------------------------------------------------------------------

\* A push() that does not look for NULL, a slip for the properties to catch.
PushNullToo(queue, p) == IF p = Idle THEN queue ELSE Append(queue, p)

\* push() of the outgoing process: get_next_process() skips idle, push() NULL.
Requeue(queue, p) == IF p \in {Null, Idle} THEN queue ELSE Append(queue, p)

\* A get_next_process() that runs the process it has just pushed.
RunLast(p, queue) ==
    LET q == Requeue(queue, p) IN
    \/ q = <<>> /\ current' = Null /\ ready' = <<>>
    \/ q # <<>> /\ current' = q[Len(q)] /\ ready' = SubSeq(q, 1, Len(q) - 1)

\* A get_next_process() that idles when the process it takes over from has
\* gone to sleep or left.
IdleFirst(p, queue) ==
    LET q == IF p = Null /\ current # Null THEN <<>> ELSE Requeue(queue, p) IN
    \/ q = <<>> /\ current' = Null /\ ready' = queue
    \/ q # <<>> /\ current' = Head(q) /\ ready' = Tail(q)

\* The end of every kernel entry: context_switch(), with p the process that
\* the handler left in current_process and queue the ready list it left.
ContextSwitch(p, queue) ==
    LET q == Requeue(queue, p) IN
    \/ q = <<>> /\ current' = Null /\ ready' = <<>>
    \/ q # <<>> /\ current' = Head(q) /\ ready' = Tail(q)

\* wake() as the queue sees it: a process that does not sleep is not pushed.
Woken(queue, p) == IF p \in asleep THEN Append(queue, p) ELSE queue

-----------------------------------------------------------------------------
(* What one kernel entry may do to the queues. *)

\* ATOSE_yield, or an interrupt whose device wakes nobody.
Interrupt ==
    /\ ContextSwitch(current, ready)
    /\ UNCHANGED asleep

\* A syscall that ends in sleep_current_process().
Block ==
    /\ current # Null
    /\ asleep' = asleep \cup {current}
    /\ ContextSwitch(Null, ready)

\* A syscall that wakes p; the caller stays runnable.
Wake(p) ==
    /\ current # Null
    /\ asleep' = asleep \ {p}
    /\ ContextSwitch(current, Woken(ready, p))

\* A syscall that wakes p and then puts its own caller to sleep.
WakeAndBlock(p) ==
    /\ current # Null
    /\ p \in asleep
    /\ asleep' = (asleep \ {p}) \cup {current}
    /\ ContextSwitch(Null, Woken(ready, p))

\* A process from outside the queues is pushed: a new one, or one a semaphore
\* held.  An interrupt may do this too, so there need be no current process.
Admit(p) ==
    /\ p \in Process \ (Scheduled \cup {Idle})
    /\ ContextSwitch(current, Append(ready, p))
    /\ UNCHANGED asleep

\* One interrupt may release two processes: the USB host's signals twice when
\* it finds both of its causes pending.
AdmitTwo(p, q) ==
    /\ p \in Process \ (Scheduled \cup {Idle})
    /\ q \in Process \ (Scheduled \cup {Idle, p})
    /\ ContextSwitch(current, Append(Append(ready, p), q))
    /\ UNCHANGED asleep

\* The current process leaves the queues: it exits, or a semaphore takes it.
Retire ==
    /\ current # Null
    /\ ContextSwitch(Null, ready)
    /\ UNCHANGED asleep

QueueInit(boot) ==
    /\ current = Null
    /\ ready = boot
    /\ asleep = {}

QueueNext ==
    \/ Interrupt
    \/ Block
    \/ Retire
    \/ \E p \in Process : Wake(p) \/ WakeAndBlock(p) \/ Admit(p)
    \/ \E p, q \in Process : AdmitTwo(p, q)

-----------------------------------------------------------------------------
(* Properties *)

\* A process object is in at most one place, once: the processor, the ready
\* queue and the sleepers are disjoint, and idle is in none of them.  Every
\* list links its members through the one field ATOSE_process::next, so a
\* second membership would tie two lists together.
OnePlace ==
    /\ IsInjective(ready)
    /\ current \notin Ready \cup asleep
    /\ Ready \cap asleep = {}
    /\ Idle \notin Scheduled

\* The processor idles only when the ready queue is empty: no kernel entry
\* leaves a runnable process waiting behind the idle loop.
WorkConserving == [][current' = Null => ready' = <<>>]_queueVars

\* Nobody overtakes in the ready queue: when q is queued behind p, a kernel
\* entry that hands q the processor cannot leave p behind.
NoOvertaking ==
    [][\A i, j \in 1..Len(ready) :
          (i < j /\ current' = ready[j]) => ready[i] \notin Range(ready')]_queueVars

=============================================================================
