------------------------------ MODULE Processes ------------------------------
(***************************************************************************)
(* Processes, threads and the memory they hold: create_process(),          *)
(* create_thread() and terminate_current_process() of process_manager.c,   *)
(* the pools of process_allocator.c, and of address_space.c the thread     *)
(* count and the number of pages (not where they are mapped).              *)
(***************************************************************************)
EXTENDS Dispatcher, FiniteSets

CONSTANTS Space,    \* the address_space objects of process_allocator
          System,   \* system_address_space
          Boot,     \* the threads reset() pushes: BOOTSTRAP, SHELL, SERVER_DISK
          Pages     \* physical pages left in the MMU's list after boot

ASSUME ProcessAssumption ==
    /\ IsFiniteSet(Process) /\ IsFiniteSet(Space)
    /\ System \in Space
    /\ Null \notin Space
    /\ Boot \in Seq(Process \ {Idle})
    /\ IsInjective(Boot)
    /\ Pages \in Nat

VARIABLES freeProcs,    \* free_processes_head ..
          space,        \* space[p], ATOSE_process::address_space
          freeSpaces,   \* free_address_space_head ..
          threads,      \* threads[a], ATOSE_address_space::thread_count
          freePages,    \* length of the MMU's page list
          held          \* held[a], length of ATOSE_address_space::page_list

procVars == <<freeProcs, space, freeSpaces, threads, freePages, held>>

\* reset() gives create() two pages and maps two for IDLE, one for each other
\* boot thread: each stack also touches the page above it.
BootPages == 4 + Len(Boot)

ProcTypeOK ==
    /\ freeProcs \subseteq Process
    /\ space \in [Process -> Space \cup {Null}]
    /\ freeSpaces \subseteq Space
    /\ threads \in [Space -> Nat]
    /\ freePages \in Nat
    /\ held \in [Space -> Nat]

-----------------------------------------------------------------------------

\* A mapping that takes pages without noting them in page_list.
TakeUnlisted(a, n) ==
    /\ freePages' = freePages - n
    /\ held' = held

\* mmu->pull() n times, each page pushed on the space's page_list.
Take(a, n) ==
    /\ freePages' = freePages - n
    /\ held' = [held EXCEPT ![a] = @ + n]

\* add() of n unmapped pages: it stops, keeping what it has, when the MMU has
\* no more, and no caller looks at its answer.
AddPages(a, n) == Take(a, IF n <= freePages THEN n ELSE freePages)

\* malloc() fails: no process object, or no address space object.
SpawnFails ==
    /\ freeProcs = {} \/ freeSpaces = {}
    /\ ContextSwitch(current, ready)
    /\ UNCHANGED <<asleep, procVars>>

\* create() fails: the process, the space and the page table's page, if there
\* was one, are left where they are.
SpawnOutOfPages(a) ==
    /\ freePages < 2
    /\ Take(a, freePages)
    /\ ContextSwitch(current, ready)
    /\ UNCHANGED <<asleep, threads>>

SpawnSucceeds(p, a) ==
    /\ freePages >= 2
    /\ Take(a, 2)
    /\ threads' = [threads EXCEPT ![a] = @ + 1]
    /\ ContextSwitch(current, Append(ready, p))
    /\ UNCHANGED asleep

\* ATOSE_spawn: create_process().
Spawn ==
    /\ current # Null
    /\ \/ SpawnFails
       \/ \E p \in freeProcs, a \in freeSpaces :
             /\ freeProcs' = freeProcs \ {p}
             /\ freeSpaces' = freeSpaces \ {a}
             /\ space' = [space EXCEPT ![p] = a]
             /\ SpawnOutOfPages(a) \/ SpawnSucceeds(p, a)

\* A create_thread() that forgets get_reference().
BeginThreadUncounted ==
    /\ current # Null
    /\ \E p \in freeProcs, n \in 0..2 :
             /\ freeProcs' = freeProcs \ {p}
             /\ space' = [space EXCEPT ![p] = space[current]]
             /\ AddPages(space[current], n)
             /\ ContextSwitch(current, Append(ready, p))
    /\ UNCHANGED <<asleep, freeSpaces, threads>>

\* ATOSE_begin_thread: create_thread() in the caller's space.  The stack takes
\* two pages when the page above it is unmapped, else one, and none when the
\* heap has grown into it.
BeginThread ==
    /\ current # Null
    /\ \/ /\ freeProcs = {}
          /\ ContextSwitch(current, ready)
          /\ UNCHANGED procVars
       \/ \E p \in freeProcs, n \in 0..2 :
             LET a == space[current] IN
             /\ freeProcs' = freeProcs \ {p}
             /\ space' = [space EXCEPT ![p] = a]
             /\ threads' = [threads EXCEPT ![a] = @ + 1]
             /\ AddPages(a, n)
             /\ ContextSwitch(current, Append(ready, p))
             /\ UNCHANGED freeSpaces
    /\ UNCHANGED asleep

\* ATOSE_set_heap_break: the new break lies any number of unmapped pages further.
SetHeapBreak ==
    /\ current # Null
    /\ \E n \in 0..freePages : AddPages(space[current], n)
    /\ ContextSwitch(current, ready)
    /\ UNCHANGED <<asleep, freeProcs, space, freeSpaces, threads>>

\* A destroy() that frees the pages of a space other threads still use.
DestroyEarly(a) ==
    /\ threads' = [threads EXCEPT ![a] = @ - 1]
    /\ freePages' = freePages + held[a]
    /\ held' = [held EXCEPT ![a] = 0]
    /\ freeSpaces' = IF threads'[a] > 0 THEN freeSpaces ELSE freeSpaces \cup {a}

\* process_allocator.free() of a space and destroy(): the last thread's exit
\* gives the pages and the object back.
Release(a) ==
    /\ threads' = [threads EXCEPT ![a] = @ - 1]
    /\ IF threads'[a] > 0
       THEN UNCHANGED <<freePages, held, freeSpaces>>
       ELSE /\ freePages' = freePages + held[a]
            /\ held' = [held EXCEPT ![a] = 0]
            /\ freeSpaces' = freeSpaces \cup {a}

\* A terminate_current_process() that does not free the process object.
ExitUnfreed ==
    /\ current # Null
    /\ Release(space[current])
    /\ ContextSwitch(Null, ready)
    /\ UNCHANGED <<asleep, space, freeProcs>>

\* ATOSE_exit: terminate_current_process().
Exit ==
    /\ current # Null
    /\ Release(space[current])
    /\ freeProcs' = freeProcs \cup {current}
    /\ ContextSwitch(Null, ready)
    /\ UNCHANGED <<asleep, space>>

\* process_allocator.initialise() and the boot threads of reset(), all of them
\* in the system address space.
ProcInit ==
    LET booted == {Idle} \cup Range(Boot) IN
    /\ freeProcs = Process \ booted
    /\ space = [p \in Process |-> IF p \in booted THEN System ELSE Null]
    /\ freeSpaces = Space \ {System}
    /\ threads = [a \in Space |-> IF a = System THEN 1 + Len(Boot) ELSE 0]
    /\ freePages = Pages
    /\ held = [a \in Space |-> IF a = System THEN BootPages ELSE 0]

ProcNext == Spawn \/ BeginThread \/ SetHeapBreak \/ Exit

-----------------------------------------------------------------------------
(* Properties *)

\* thread_count is the number of live threads in the space, for every space
\* in use.  If it ran low the last threads would run in freed memory, if it
\* ran high the space would never come back.  (A count of zero on a space not
\* on the free list is the remains of a failed create_process().)
ThreadCount ==
    \A a \in Space : threads[a] > 0 =>
        /\ a \notin freeSpaces
        /\ threads[a] = Cardinality({p \in Process \ freeProcs : space[p] = a})

\* Pages are neither lost nor counted twice, whatever fails half way: the free
\* list and the page lists of the spaces always add up to the pages at boot.
PageConservation == freePages + SumFunction(held) = Pages + BootPages

=============================================================================
