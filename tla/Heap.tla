-------------------------------- MODULE Heap --------------------------------
(***************************************************************************)
(* The K&R allocator of malloc.c over set_heap_break(), used as the system *)
(* uses it: by the disk server alone (server_disk.c:59-64), which takes a  *)
(* file structure and a buffer of one cluster for each file it opens and   *)
(* gives a structure back when the open fails.  Other programs start,      *)
(* grow and exit around it (AddressSpaces).                                *)
(*                                                                         *)
(* A unit is a Header of 8 bytes.  The circular list in address order is   *)
(* the set of its blocks, each with its size; base, the first of them, is  *)
(* static memory below the heap, at address 0 here.                        *)
(***************************************************************************)
EXTENDS AddressSpaces, FiniteSetsExt

CONSTANTS Server,      \* the thread of server_disk.c
          NALLOC,      \* minimum number of units to request
          FileUnits,   \* units of an ATOSE_server_disk_file, its header included
          BufferUnits, \* units a cluster may take, one size for each kind of disk
          MaxBlocks    \* bound: blocks the server holds

ASSUME HeapAssumption ==
    /\ Server \in Range(Boot)
    /\ NALLOC \in 2..(PageSize * Entries)
    /\ FileUnits \in 2..NALLOC
    /\ BufferUnits \subseteq Nat \ {0}
    /\ MaxBlocks \in Nat

VARIABLES heap,     \* size: of each block on the free list; freep: where the next search starts
          blocks,   \* handed out: where, with the header, and how many units
          opening,  \* the file structure of the OPEN the server is at, or Null
          cluster,  \* units of a buffer on the mounted disk
          asked,    \* units morecore() last asked for
          shrunk    \* history: it asked for less than the time before

heapVars == <<heap, blocks, opening, cluster, asked, shrunk>>

Base == 0

-----------------------------------------------------------------------------

\* The last block of the list that comes before this address.
Before(size, at) == Max({p \in DOMAIN size : p < at})

\* A list with one more block.
With(size, at, units) == [p \in DOMAIN size \cup {at} |-> IF p = at THEN units ELSE size[p]]

\* A KR_free() that does not look at its lower neighbour.
FreedApart(h, at, units) ==
    LET upper == at + units
        joined == units + (IF upper \in DOMAIN h.size THEN h.size[upper] ELSE 0)
    IN  [size |-> With(Restrict(h.size, DOMAIN h.size \ {upper}), at, joined),
         freep |-> Before(h.size, at)]

\* KR_free(): the block joins its neighbours on either side, if they touch.
Freed(h, at, units) ==
    LET p == Before(h.size, at)
        upper == at + units
        joined == units + (IF upper \in DOMAIN h.size THEN h.size[upper] ELSE 0)
        others == Restrict(h.size, DOMAIN h.size \ {upper})
    IN  [size |-> IF p + h.size[p] = at
                  THEN [others EXCEPT ![p] = @ + joined]
                  ELSE With(others, at, joined),
         freep |-> p]

\* The blocks that are big enough.
Fits(h, units) == {p \in DOMAIN h.size : h.size[p] >= units}

\* The first of them after freep, around the circle.
FirstFit(h, units) ==
    LET after == {p \in Fits(h, units) : p > h.freep}
    IN  Min(IF after # {} THEN after ELSE Fits(h, units))

\* The tail end of block p.
TailEnd(h, p, units) == p + h.size[p] - units

\* What is left of the list when block p gives its tail end.
Taken(h, p, units) ==
    [size |-> IF h.size[p] = units THEN Restrict(h.size, DOMAIN h.size \ {p})
              ELSE [h.size EXCEPT ![p] = @ - units],
     freep |-> Before(h.size, p)]

\* Where morecore() puts its block: sbrk() returns what set_heap_break()
\* returns, the new break.
NewBlock(units) == (heapBreak[System] + units) % Limit

\* KR_malloc(units) from list h, for a file structure or for its buffer.
Allocate(h, units, forFile) ==
    LET p == FirstFit(h, units)
        block == [at |-> TailEnd(h, p, units), units |-> units]
    IN  /\ heap' = Taken(h, p, units)
        /\ blocks' = blocks \cup {block}
        /\ opening' = IF forFile THEN block ELSE Null

\* KR_malloc() when a block of the list is big enough: no system call.
MallocHere(units, forFile) ==
    /\ Fits(heap, units) # {}
    /\ Allocate(heap, units, forFile)
    /\ UNCHANGED <<asked, shrunk, memVars>>

\* KR_malloc() with morecore(), whose system call may hand the processor on.
MallocMore(units, forFile) ==
    LET more == Max({units, NALLOC}) IN
    /\ Fits(heap, units) = {}
    /\ MoveBreak(System, more, "data")
    /\ Allocate(Freed(heap, NewBlock(more), more), units, forFile)
    /\ asked' = more
    /\ shrunk' = (shrunk \/ more < asked)
    /\ UNCHANGED <<asleep, threadVars>>
    /\ Switch(current, ready, inForce)

Malloc(units, forFile) == MallocHere(units, forFile) \/ MallocMore(units, forFile)

-----------------------------------------------------------------------------

Touch(b) == {e \in Entry : e * PageSize < b.at + b.units /\ b.at < (e + 1) * PageSize}

FreeBlocks == {[at |-> p, units |-> heap.size[p]] : p \in DOMAIN heap.size \ {Base}}

\* No two blocks share a unit.
Apart ==
    \A b, c \in blocks \cup FreeBlocks :
        b.at + b.units <= c.at \/ c.at + c.units <= b.at \/ (b = c /\ ~(b \in blocks /\ b \in FreeBlocks))

\* The server runs, its headers are not written over, and what it was given is
\* memory: an access to an unmapped page ends in the abort handler, which
\* hangs, and what a spoilt header leads to is not followed.
ServerRuns ==
    /\ current = Server
    /\ Apart
    /\ \A b \in blocks : \A e \in Touch(b) : table[System][e] # Null

\* COMMAND_OPEN: the file structure.
OpenFile ==
    /\ ServerRuns
    /\ opening = Null
    /\ Cardinality(blocks) + 1 < MaxBlocks
    /\ Malloc(FileUnits, TRUE)
    /\ UNCHANGED cluster

\* file_system.open() finds no such file.
OpenFails ==
    /\ ServerRuns
    /\ opening # Null
    /\ heap' = Freed(heap, opening.at, opening.units)
    /\ blocks' = blocks \ {opening}
    /\ opening' = Null
    /\ UNCHANGED <<cluster, asked, shrunk, memVars>>

\* It finds it: the file gets a buffer.
OpenSucceeds ==
    /\ ServerRuns
    /\ opening # Null
    /\ Malloc(cluster, FALSE)
    /\ UNCHANGED cluster

\* What goes on around the server.  The boot threads start programs; only
\* those start threads and move their break.
Others ==
    /\ \/ Tick
       \/ Spawn
       \/ /\ space[Running] # System
          /\ \/ BeginThread
             \/ Exit
             \/ \E bytes \in Grow, rights \in Asked : SetHeapBreak(bytes, rights)
    /\ UNCHANGED heapVars

Init ==
    /\ MemInit
    /\ heap = [size |-> [p \in {Base} |-> 0], freep |-> Base]
    /\ blocks = {}
    /\ opening = Null
    /\ cluster \in BufferUnits
    /\ asked = 0
    /\ shrunk = FALSE

Next == OpenFile \/ OpenFails \/ OpenSucceeds \/ Others

Spec == Init /\ [][Next]_<<memVars, heapVars>>

-----------------------------------------------------------------------------
(* Properties *)

\* The address space has room for the blocks that the server may hold.
Roomy == \A u \in BufferUnits : HeapStart * PageSize + MaxBlocks * Max({u, NALLOC}) < Limit

\* Blocks in use and blocks on the free list never share memory, and free
\* neighbours are joined -- as long as morecore() never asks for less than it
\* did before: its block begins at the new break and not at the old one, so that
\* a smaller request ends inside the block of a larger one.  On a disk whose
\* clusters fit in NALLOC units it never does; on others the structure of a
\* later file may lie in the buffer of an earlier one.
HeapSound ==
    /\ ~shrunk =>
          /\ Apart
          /\ \A p \in DOMAIN heap.size \ {Base} : p + heap.size[p] \notin DOMAIN heap.size
    /\ cluster <= NALLOC => ~shrunk

=============================================================================
