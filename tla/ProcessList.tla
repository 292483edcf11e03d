---------------------------- MODULE ProcessList ----------------------------
(***************************************************************************)
(* The pointers behind the queues.  A process object is on the ready       *)
(* queue, on the list of sleepers, on the list of one semaphore or on the  *)
(* free list, and all of them link their members through the same field,   *)
(* ATOSE_process::next, which most of the code leaves as it finds it.      *)
(* Implements Dispatcher.tla.                                              *)
(***************************************************************************)
EXTENDS Naturals, Sequences, FiniteSets, Functions

CONSTANTS Process, Idle, Null,
          Semaphore,   \* the semaphores that exist
          Boot,        \* the threads reset() pushes
          Spare        \* the objects malloc() has left, the first to go first

ASSUME ProcessListAssumption ==
    /\ IsFiniteSet(Process) /\ Idle \in Process /\ Null \notin Process
    /\ Boot \in Seq(Process) /\ Spare \in Seq(Process)
    /\ IsInjective(Boot \o Spare)
    /\ Range(Boot \o Spare) = Process \ {Idle}

\* current_process, active_head (where push() works), active_tail (where pull()
\* works), inactive_queue.top, each semaphore's sleepers, free_processes_head,
\* and the next field of every process.
VARIABLE kernel

-----------------------------------------------------------------------------
(* The functions of process_manager.c, sleep_wake.c, semaphore.c and         *)
(* process_allocator.c: each maps the pointers it finds to those it leaves.  *)

\* p->next; a loop over a list stops at NULL.
Follow(next, p) == IF p = Null THEN Null ELSE next[p]

\* The list that starts at p.  Cut off at a length no list without a cycle has.
Walk(next, p) ==
    LET at[n \in 0..Cardinality(Process)] == IF n = 0 THEN p ELSE Follow(next, at[n - 1])
    IN  [n \in {m \in 1..Cardinality(Process) + 1 : at[m - 1] # Null} |-> at[n - 1]]

\* A push() that trusts next to be NULL already.
PushUnterminated(k, p) ==
    IF p = Null THEN k
    ELSE [k EXCEPT !.next = IF k.head = Null THEN @ ELSE [@ EXCEPT ![k.head] = p],
                   !.head = p,
                   !.tail = IF @ = Null THEN p ELSE @]

Push(k, p) ==
    IF p = Null THEN k
    ELSE [k EXCEPT !.next = [q \in Process |-> IF q = p THEN Null
                                               ELSE IF q = k.head THEN p ELSE @[q]],
                   !.head = p,
                   !.tail = IF @ = Null THEN p ELSE @]

\* A pull() that leaves active_head alone.
PullOnly(k) ==
    IF k.tail = Null THEN [k EXCEPT !.current = Null]
    ELSE [k EXCEPT !.current = k.tail, !.tail = k.next[k.tail]]

\* current_process = pull(): the next field of the answer stays as it is.
Pull(k) ==
    IF k.tail = Null THEN [k EXCEPT !.current = Null]
    ELSE [k EXCEPT !.current = k.tail,
                   !.tail = k.next[k.tail],
                   !.head = IF k.next[k.tail] = Null THEN Null ELSE @]

GetNextProcess(k) == Pull(IF k.current = Idle THEN k ELSE Push(k, k.current))

SleepCurrentProcess(k) ==
    [k EXCEPT !.next[k.current] = k.top, !.top = k.current, !.current = Null]

\* *previous = current->next, where previous is top or a field of the sleeper before p.
Unlinked(k, p) ==
    IF k.top = p THEN [k EXCEPT !.top = k.next[p]]
    ELSE [k EXCEPT !.next = [q \in Process |->
             IF q \in Range(Walk(k.next, k.top)) /\ @[q] = p THEN @[p] ELSE @[q]]]

\* A wake() that takes its process for the top of the list.
WakeTop(k, p) ==
    IF p \in Range(Walk(k.next, k.top)) THEN Push([k EXCEPT !.top = k.next[p]], p) ELSE k

\* wake(): the loop goes on from the next field of the process it has pushed,
\* which push() has made NULL.
WakeProcess(k, p) ==
    IF p \in Range(Walk(k.next, k.top)) THEN Push(Unlinked(k, p), p) ELSE k

SleepOne(k, s) ==
    [k EXCEPT !.next[k.current] = k.sleepers[s], !.sleepers[s] = k.current, !.current = Null]

WakeOne(k, s) ==
    LET got == k.sleepers[s] IN
    IF got = Null THEN k ELSE Push([k EXCEPT !.sleepers[s] = k.next[got]], got)

\* malloc() and free() of a process object.
Malloc(k)      == [k EXCEPT !.free = k.next[@]]
FreeCurrent(k) == [k EXCEPT !.next[k.current] = k.free, !.free = k.current, !.current = Null]

-----------------------------------------------------------------------------
(* The kernel entries, each with the context switch that ends it.  Whether a *)
(* semaphore's counter says to sleep or to wake is left open here.           *)

Switch(k) == kernel' = GetNextProcess(k)

\* The timer, ATOSE_yield, a pipe call that neither sleeps nor wakes, and a
\* wait() or a signal() that only counts.
Tick == Switch(kernel)

\* pipe_send() and pipe_receive() with nobody to wake.
Block == kernel.current # Null /\ Switch(SleepCurrentProcess(kernel))

\* pipe_reply() and pipe_post_event().
Wake(p) == kernel.current # Null /\ Switch(WakeProcess(kernel, p))

\* pipe_send() to a receiver that waits.
WakeAndBlock(p) ==
    /\ kernel.current # Null
    /\ Switch(SleepCurrentProcess(WakeProcess(kernel, p)))

SemWait(s) == kernel.current # Null /\ Switch(SleepOne(kernel, s))

\* signal() by a program, or by a device's interrupt handler while nobody runs.
SemSignal(s) == Switch(WakeOne(kernel, s))

\* acknowledge() of the USB host's interrupt, with both of its causes pending.
SemSignalTwice(s) == Switch(WakeOne(WakeOne(kernel, s), s))

\* clear() forgets the sleepers, whose next fields stay as they are.
SemClear(s) == kernel.current # Null /\ Switch([kernel EXCEPT !.sleepers[s] = Null])

\* create_thread(), and create_process() when it succeeds.
Begin ==
    /\ kernel.current # Null /\ kernel.free # Null
    /\ Switch(Push(Malloc(kernel), kernel.free))

\* create_process() that has no page for the page table.
BeginFails ==
    /\ kernel.current # Null /\ kernel.free # Null
    /\ Switch(Malloc(kernel))

\* terminate_current_process().
Exit == kernel.current # Null /\ Switch(FreeCurrent(kernel))

FirstOf(list)  == IF list = <<>> THEN Null ELSE list[1]
LastOf(list)   == IF list = <<>> THEN Null ELSE list[Len(list)]
After(list, p) == FirstOf(SubSeq(list, 1 + CHOOSE i \in 1..Len(list) : list[i] = p, Len(list)))

\* The lists as process_allocator.initialise() and the pushes of reset() leave
\* them.  Idle was the first off the free list, and still points into it.
Init ==
    kernel = [current  |-> Null,
              head     |-> LastOf(Boot),
              tail     |-> FirstOf(Boot),
              top      |-> Null,
              sleepers |-> [s \in Semaphore |-> Null],
              free     |-> FirstOf(Spare),
              next     |-> [p \in Process |-> IF p = Idle THEN FirstOf(Boot \o Spare)
                                              ELSE IF p \in Range(Boot) THEN After(Boot, p)
                                              ELSE After(Spare, p)]]

Next ==
    \/ Tick \/ Block \/ Begin \/ BeginFails \/ Exit
    \/ \E p \in Process \ {Idle} : Wake(p) \/ WakeAndBlock(p)
    \/ \E s \in Semaphore : SemWait(s) \/ SemSignal(s) \/ SemSignalTwice(s) \/ SemClear(s)

Spec == Init /\ [][Next]_kernel

-----------------------------------------------------------------------------
(* Properties *)

ReadyList == Walk(kernel.next, kernel.tail)
Lists == <<ReadyList, Walk(kernel.next, kernel.top), Walk(kernel.next, kernel.free)>>
Waiting(s) == Walk(kernel.next, kernel.sleepers[s])

\* However stale the next fields get, no list runs into itself or into another:
\* each process is on one list at most, once, and the one that runs is on none.
ListsDisjoint ==
    /\ \A i \in 1..3 : IsInjective(Lists[i]) /\ kernel.current \notin Range(Lists[i])
    /\ \A i, j \in 1..3 : i # j => Range(Lists[i]) \cap Range(Lists[j]) = {}
    /\ \A s \in Semaphore :
          /\ IsInjective(Waiting(s)) /\ kernel.current \notin Range(Waiting(s))
          /\ \A i \in 1..3 : Range(Waiting(s)) \cap Range(Lists[i]) = {}
          /\ \A t \in Semaphore \ {s} : Range(Waiting(s)) \cap Range(Waiting(t)) = {}

\* active_head is the end of the list that starts at active_tail, or both are
\* NULL: a push() through a stale active_head would link a process behind one
\* that has left the queue.
EndsMeet ==
    IF kernel.tail = Null THEN kernel.head = Null
    ELSE kernel.head = ReadyList[Len(ReadyList)]

\* The pointers implement the queues: pushing, pulling, sleeping and waking do
\* to the lists what Dispatcher.tla says a kernel entry does to the queues.
Queues == INSTANCE Dispatcher WITH
    current <- kernel.current,
    ready   <- ReadyList,
    asleep  <- Range(Walk(kernel.next, kernel.top))

ImplementsQueues ==
    Queues!QueueInit(Boot) /\ [][Queues!QueueNext]_(Queues!queueVars)

=============================================================================
