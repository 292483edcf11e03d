--------------------------- MODULE AddressSpaces ---------------------------
(***************************************************************************)
(* Where the pages go: address_space.c and the page list of mmu.c, under   *)
(* create_process(), create_thread() and terminate_current_process().      *)
(* Processes.tla counts pages; here each has an identity, a space has its  *)
(* page table and its two breaks, and addresses wrap as 32 bits do.        *)
(*                                                                         *)
(* An address space has Entries pages of PageSize units.  Entry 0 stands   *)
(* for the 256 of the register map and the OCRAM, entry 1 is the page      *)
(* table's own; the heap grows up from entry 2, the stacks down from the   *)
(* last.  Which page pull() gives is left open.                            *)
(***************************************************************************)
EXTENDS Dispatcher, Integers, FiniteSets

CONSTANTS Space,     \* the address_space objects of process_allocator
          System,    \* system_address_space
          Boot,      \* the threads reset() pushes
          Page,      \* the pages left in free_list after boot
          PageSize,  \* mmu->page_size
          Entries,   \* mmu->pages_in_address_space
          Grow,      \* the sizes programs extend their heap by
          Asked,     \* the rights they ask for
          HighestBreak, \* bound: no space extends its heap from beyond this address
          LowestStack   \* bound: no space starts a thread below this entry

TableEntry == 1
HeapStart  == 2
StackTop   == Entries - 1
Entry      == 0..StackTop
Limit      == PageSize * Entries     \* highest_address + 1

\* user_code_page, which a program cannot write to, and user_data_page.  (The
\* bad_page that permission NONE asks for counts as mapped like these.)
Rights  == {"code", "data"}

\* The pages of the system space are named by the entries they are mapped at.
BootStacks == (StackTop - 2 - Len(Boot))..StackTop
BootPage   == {TableEntry} \cup BootStacks
AnyPage    == Page \cup BootPage

\* What an entry of a page table says.
Mapping == [page : AnyPage \cup {Null}, rights : Rights \cup {"os"}]

ASSUME AddressSpaceAssumption ==
    /\ IsFiniteSet(Process)
    /\ System \in Space
    /\ Null \notin Space
    /\ Boot \in Seq(Process \ {Idle})
    /\ IsInjective(Boot)
    /\ PageSize \in Nat \ {0}
    /\ Entries \in Nat
    /\ Len(Boot) + 5 < Entries
    /\ IsFiniteSet(Page)
    /\ Page \cap (Entry \cup {Null}) = {}
    /\ Null \notin Entry
    /\ Grow \subseteq 0..(Limit - 1)
    /\ Asked \subseteq Rights
    /\ Null \notin Mapping

VARIABLES freeProcs,   \* as in Processes ..
          space,
          freeSpaces,
          threads,     \* .. thread_count
          free,        \* mmu->free_list
          pageList,    \* pageList[a], page_list
          tablePage,   \* tablePage[a], the page that page_table points to
          table,       \* table[a][e], the entry's page and rights, or Null
          heapBreak,   \* the_heap_break, an address
          stackBreak,  \* the_stack_break, as an entry
          stackOf,     \* stackOf[p], the entry below the stack pointer p starts with
          inForce,     \* the translation table base register, as the table's page
          spoilt       \* history: spaces that did not get what add() was asked

threadVars == <<freeProcs, space, freeSpaces, threads>>
pageVars   == <<free, pageList, tablePage, table>>
breakVars  == <<heapBreak, stackBreak, stackOf, spoilt>>
memVars    == <<queueVars, threadVars, pageVars, breakVars, inForce>>

PageTypeOK ==
    /\ free \subseteq AnyPage
    /\ pageList \in [Space -> SUBSET AnyPage]
    /\ tablePage \in [Space -> AnyPage \cup {Null}]
    /\ table \in [Space -> [Entry -> Mapping \cup {Null}]]

-----------------------------------------------------------------------------

\* A context_switch() that saves itself the assume() between two threads of one
\* space, a slip for the properties to catch.
SwitchLazily(p, queue, left) ==
    /\ ContextSwitch(p, queue)
    /\ inForce' = LET next == IF current' = Null THEN Idle ELSE current'
                      last == IF current = Null THEN Idle ELSE current
                  IN  IF space'[next] = space[last] THEN left ELSE tablePage'[space'[next]]

\* The end of a kernel entry: context_switch() with its mmu->assume(), whatever
\* table the handler has left in force.
Switch(p, queue, left) ==
    /\ ContextSwitch(p, queue)
    /\ inForce' = tablePage'[space'[IF current' = Null THEN Idle ELSE current']]

\* The identity table, which lies in a page of its own.
Identity == Null

\* A table of entries that are not mapped.
Unmapped == [e \in Entry |-> Null]

\* What create() writes into the page table in page pg.
FreshTable(pg) ==
    [Unmapped EXCEPT ![0] = [page |-> Null, rights |-> "os"],
                     ![TableEntry] = [page |-> pg, rights |-> "os"]]

\* The entries add() looks at: the end is computed in 32 bits, so that it may
\* come before the beginning, and the entry it lies in is among them.
Extent(address, size) ==
    {e \in Entry : /\ address \div PageSize <= e
                   /\ e <= ((address + size) % Limit) \div PageSize}

Wraps(address, size) == address + size >= Limit

\* The entries of an extent that are not in the space yet.
Missing(a, entries) == {e \in entries : table[a][e] = Null}

\* Those that get a page: in order, until pull() has no more.
Supplied(missing) ==
    {e \in missing : Cardinality({f \in missing : f < e}) < Cardinality(free)}

\* add_page() that forgets page_list.push().
MapUnlisted(a, entries, rights) ==
    \E give \in Injection(entries, free) :
        /\ free' = free \ Range(give)
        /\ pageList' = pageList
        /\ table' = [table EXCEPT ![a] = [e \in Entry |->
                        IF e \in entries THEN [page |-> give[e], rights |-> rights] ELSE @[e]]]

\* pull() and add_page() for each of these entries.
Map(a, entries, rights) ==
    \E give \in Injection(entries, free) :
        /\ free' = free \ Range(give)
        /\ pageList' = [pageList EXCEPT ![a] = @ \cup Range(give)]
        /\ table' = [table EXCEPT ![a] = [e \in Entry |->
                        IF e \in entries THEN [page |-> give[e], rights |-> rights] ELSE @[e]]]

\* The heap of a space has reached its stacks.
Met(a) == heapBreak'[a] \div PageSize >= stackBreak'[a]

\* add(), and whether it leaves the space without what its caller goes on to
\* use: no caller looks at its answer.
Add(a, address, size, rights) ==
    LET missing == Missing(a, Extent(address, size))
    IN  /\ Map(a, Supplied(missing), rights)
        /\ spoilt' = IF Supplied(missing) # missing \/ Wraps(address, size) \/ Met(a)
                     THEN spoilt \cup {a} ELSE spoilt

-----------------------------------------------------------------------------
(* System calls *)

\* malloc() finds no process object, or no address space object.
SpawnFails ==
    /\ freeProcs = {} \/ freeSpaces = {}
    /\ UNCHANGED <<asleep, threadVars, pageVars, breakVars>>
    /\ Switch(current, ready, inForce)

\* create() without a page for the table: everything in the space stays as the
\* last program left it.
SpawnNoPage ==
    /\ free = {}
    /\ UNCHANGED <<asleep, threads, pageVars, breakVars>>
    /\ Switch(current, ready, inForce)

\* create() with a page for the table and none for the stack.
SpawnOnePage(a) ==
    /\ Cardinality(free) = 1
    /\ \E pg \in free :
          /\ tablePage' = [tablePage EXCEPT ![a] = pg]
          /\ table' = [table EXCEPT ![a] = FreshTable(pg)]
    /\ free' = {}
    /\ pageList' = [pageList EXCEPT ![a] = @ \cup free]
    /\ heapBreak' = [heapBreak EXCEPT ![a] = HeapStart * PageSize]
    /\ UNCHANGED <<asleep, threads, stackBreak, stackOf, spoilt>>
    /\ Switch(current, ready, inForce)

\* (To write the file name on the new stack create_process() goes into the new
\* space, and stays there.)
SpawnSucceeds(p, a) ==
    /\ \E pg \in free : \E stack \in free \ {pg} :
          /\ tablePage' = [tablePage EXCEPT ![a] = pg]
          /\ table' = [table EXCEPT ![a] = [FreshTable(pg) EXCEPT
                          ![StackTop] = [page |-> stack, rights |-> "data"]]]
          /\ free' = free \ {pg, stack}
          /\ pageList' = [pageList EXCEPT ![a] = @ \cup {pg, stack}]
    /\ heapBreak' = [heapBreak EXCEPT ![a] = HeapStart * PageSize]
    /\ stackBreak' = [stackBreak EXCEPT ![a] = StackTop - 1]
    /\ stackOf' = [stackOf EXCEPT ![p] = StackTop]
    /\ spoilt' = spoilt \ {a}
    /\ threads' = [threads EXCEPT ![a] = @ + 1]
    /\ UNCHANGED asleep
    /\ Switch(current, Append(ready, p), tablePage'[a])

\* ATOSE_spawn: create_process().
Spawn ==
    /\ current # Null
    /\ \/ SpawnFails
       \/ \E p \in freeProcs, a \in freeSpaces :
             /\ freeProcs' = freeProcs \ {p}
             /\ freeSpaces' = freeSpaces \ {a}
             /\ space' = [space EXCEPT ![p] = a]
             /\ SpawnNoPage \/ SpawnOnePage(a) \/ SpawnSucceeds(p, a)

\* A create_thread() that gives a thread the stack of the one before.
SameStack(e) == e

\* Where create_thread() moves the_stack_break, which nothing moves back.
NextStack(e) == (e - 1) % Entries

\* ATOSE_begin_thread: create_thread() in the caller's space.
BeginThread ==
    /\ current # Null
    /\ \/ /\ freeProcs = {}
          /\ UNCHANGED <<threadVars, pageVars, breakVars>>
          /\ Switch(current, ready, inForce)
       \/ \E p \in freeProcs :
             LET a == space[current]
                 stack == NextStack(stackBreak[a])
             IN  /\ stack >= LowestStack
                 /\ freeProcs' = freeProcs \ {p}
                 /\ space' = [space EXCEPT ![p] = a]
                 /\ threads' = [threads EXCEPT ![a] = @ + 1]
                 /\ stackBreak' = [stackBreak EXCEPT ![a] = stack]
                 /\ stackOf' = [stackOf EXCEPT ![p] = stack]
                 /\ UNCHANGED <<heapBreak, tablePage, freeSpaces>>
                 /\ Add(a, stack * PageSize, PageSize, "data")
                 /\ Switch(current, Append(ready, p), inForce)
    /\ UNCHANGED asleep

\* A set_heap_break() that asks add() for the old break's page only.
BreakOnly(a, bytes, rights) ==
    /\ heapBreak' = [heapBreak EXCEPT ![a] = (@ + bytes) % Limit]
    /\ UNCHANGED <<stackBreak, stackOf, tablePage>>
    /\ Add(a, heapBreak[a], 0, rights)

\* address_space->set_heap_break(): the break moves whatever add() answers.
MoveBreak(a, bytes, rights) ==
    /\ heapBreak' = [heapBreak EXCEPT ![a] = (@ + bytes) % Limit]
    /\ UNCHANGED <<stackBreak, stackOf, tablePage>>
    /\ Add(a, heapBreak[a], bytes, rights)

\* ATOSE_set_heap_break.
SetHeapBreak(bytes, rights) ==
    /\ current # Null
    /\ heapBreak[space[current]] <= HighestBreak
    /\ MoveBreak(space[current], bytes, rights)
    /\ UNCHANGED <<asleep, threadVars>>
    /\ Switch(current, ready, inForce)

\* A destroy() that frees the pages of a space other threads still use.
DestroyEarly(a) ==
    /\ threads' = [threads EXCEPT ![a] = @ - 1]
    /\ free' = free \cup pageList[a]
    /\ pageList' = [pageList EXCEPT ![a] = {}]
    /\ freeSpaces' = IF threads'[a] > 0 THEN freeSpaces ELSE freeSpaces \cup {a}
    /\ UNCHANGED <<tablePage, table, heapBreak, stackBreak, spoilt>>

\* process_allocator.free() of a space and destroy().  The fields of a space
\* without threads are never read again: they are blanked here.
Release(a) ==
    /\ threads' = [threads EXCEPT ![a] = @ - 1]
    /\ IF threads'[a] > 0
       THEN UNCHANGED <<pageVars, heapBreak, stackBreak, spoilt, freeSpaces>>
       ELSE /\ free' = free \cup pageList[a]
            /\ pageList' = [pageList EXCEPT ![a] = {}]
            /\ freeSpaces' = freeSpaces \cup {a}
            /\ tablePage' = [tablePage EXCEPT ![a] = Null]
            /\ table' = [table EXCEPT ![a] = Unmapped]
            /\ heapBreak' = [heapBreak EXCEPT ![a] = HeapStart * PageSize]
            /\ stackBreak' = [stackBreak EXCEPT ![a] = StackTop]
            /\ spoilt' = spoilt \ {a}

\* ATOSE_exit: terminate_current_process().  destroy() leaves the identity table
\* in force when threads remain, else that of the space it has freed.
Exit ==
    /\ current # Null
    /\ freeProcs' = freeProcs \cup {current}
    /\ stackOf' = [stackOf EXCEPT ![current] = Null]
    /\ Release(space[current])
    /\ UNCHANGED <<asleep, space>>
    /\ Switch(Null, ready, IF threads'[space[current]] > 0 THEN Identity ELSE inForce)

\* The timer, ATOSE_yield, and every kernel entry that touches no memory.
Tick ==
    /\ UNCHANGED <<asleep, threadVars, pageVars, breakVars>>
    /\ Switch(current, ready, inForce)

-----------------------------------------------------------------------------

\* initialise() of the process manager and the threads of reset(): create()
\* takes a page for the table and one for the last entry, IDLE's stack touches
\* the entry above its own, each other thread takes one more.
MemInit ==
    LET booted == {Idle} \cup Range(Boot) IN
    /\ QueueInit(Boot)
    /\ freeProcs = Process \ booted
    /\ space = [p \in Process |-> IF p \in booted THEN System ELSE Null]
    /\ freeSpaces = Space \ {System}
    /\ threads = [a \in Space |-> IF a = System THEN 1 + Len(Boot) ELSE 0]
    /\ free = Page
    /\ pageList = [a \in Space |-> IF a = System THEN BootPage ELSE {}]
    /\ tablePage = [a \in Space |-> IF a = System THEN TableEntry ELSE Null]
    /\ table = [a \in Space |-> IF a # System THEN Unmapped ELSE
                    [e \in Entry |-> IF e \in BootStacks
                                     THEN [page |-> e, rights |-> "data"]
                                     ELSE FreshTable(TableEntry)[e]]]
    /\ heapBreak = [a \in Space |-> HeapStart * PageSize]
    /\ stackBreak = [a \in Space |-> IF a = System THEN StackTop - 2 - Len(Boot) ELSE StackTop]
    /\ stackOf = [p \in Process |->
                    IF p = Idle THEN StackTop - 2
                    ELSE IF p \in Range(Boot)
                         THEN StackTop - 2 - (CHOOSE i \in 1..Len(Boot) : Boot[i] = p)
                         ELSE Null]
    /\ inForce = TableEntry
    /\ spoilt = {}

MemNext ==
    \/ Spawn
    \/ BeginThread
    \/ \E bytes \in Grow, rights \in Asked : SetHeapBreak(bytes, rights)
    \/ Exit
    \/ Tick

MemSpec == MemInit /\ [][MemNext]_memVars

-----------------------------------------------------------------------------
(* Properties *)

Live == Process \ freeProcs

Running == IF current = Null THEN Idle ELSE current

\* The spaces some thread lives in.
Inhabited == {a \in Space : threads[a] > 0}

\* The pages the table of a space leads to.
Mapped(a) == {table[a][e].page : e \in {f \in Entry : table[a][f] # Null}} \ {Null}

\* No two programs share memory: a page is on the free list or on the page list
\* of one space, no table leads to a page of another space or to a free one,
\* and no page is mapped at two entries of a table.  add(), create() and
\* destroy() move pages between three kinds of lists, some of which fail half
\* way.
PageInOnePlace ==
    /\ \A a \in Space :
          /\ pageList[a] \cap free = {}
          /\ \A b \in Space \ {a} : pageList[a] \cap pageList[b] = {}
    /\ \A a \in Space :
          /\ Mapped(a) \subseteq pageList[a]
          /\ \A e, f \in Entry :
                e # f /\ table[a][e] # Null /\ table[a][f] # Null => table[a][e].page # table[a][f].page

\* When a kernel entry is over, the processor translates by the table of the
\* process that runs, and this table is in a page its space still owns:
\* whatever destroy() freed and whatever table create() and add() left the
\* kernel with on the way.
RunsInItsSpace ==
    /\ inForce = tablePage[space[Running]]
    /\ inForce \in pageList[space[Running]]

\* As long as add() has given a space all it was asked for and its heap has not
\* reached its stacks, each of its threads has a stack to write to that is its
\* own: no other thread's, and no part of the heap.
StacksUsable ==
    \A p \in Live : LET a == space[p] IN
        a \in Inhabited \ spoilt =>
            /\ table[a][stackOf[p]] # Null
            /\ table[a][stackOf[p]].rights = "data"
            /\ stackOf[p] > heapBreak[a] \div PageSize
            /\ \A q \in Live \ {p} : space[q] = a => stackOf[q] # stackOf[p]

\* And every page of its heap up to the break is mapped.
HeapUsable ==
    \A a \in Inhabited \ spoilt :
        \A e \in HeapStart..((heapBreak[a] - 1) \div PageSize) : table[a][e] # Null

\* Whatever ran out elsewhere, a space that got what add() was asked for has the
\* memory its threads and its break imply.
MemoryUsable == StacksUsable /\ HeapUsable

\* The counts of pages in Processes are right: each step here takes and gives
\* back as many pages as one there says.
Counts == INSTANCE Processes
            WITH Pages <- Cardinality(Page),
                 freePages <- Cardinality(free),
                 held <- [a \in Space |-> Cardinality(pageList[a])]

CountsPages ==
    /\ QueueInit(Boot) /\ Counts!ProcInit
    /\ [][Counts!ProcNext \/ (Interrupt /\ UNCHANGED Counts!procVars)]_<<queueVars, Counts!procVars>>

=============================================================================
