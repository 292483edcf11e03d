----------------------------- MODULE SpaceProofs -----------------------------
(***************************************************************************)
(* Proofs about AddressSpaces.tla, for any programs, pages and sizes, with *)
(* the disk server's heap growing among them: no page is ever in two       *)
(* places, whoever runs does so in its own table, a space that got its     *)
(* pages has usable stacks and a usable heap, the pages are counted as     *)
(* Processes.tla counts them, and the blocks of the server's heap are      *)
(* apart.                                                                  *)
(***************************************************************************)
EXTENDS Heap, DispatcherProofs, FiniteSetTheorems, WellFoundedInduction, TLAPS

-----------------------------------------------------------------------------
(* Pages in one place: PageInOnePlace is inductive with the types of the   *)
(* page tables and lists; it does not matter which thread is in which      *)
(* space, nor what addresses add() computes.                               *)

PagesInv == PageTypeOK /\ PageInOnePlace

\* The pages the boot took are named by entries of the table.
LEMMA BootPagesAreEntries ==
    /\ Len(Boot) \in Nat
    /\ 0 \in Entry /\ TableEntry \in Entry /\ StackTop \in Entry
    /\ StackTop \notin {0, TableEntry}
    /\ BootStacks \subseteq Entry
    /\ 0 \notin BootStacks /\ TableEntry \notin BootStacks
    /\ Page \cap BootPage = {}
    /\ Null \notin AnyPage
<1>1. Len(Boot) \in Nat
  BY AddressSpaceAssumption
<1>2. Entries \in Nat /\ Len(Boot) + 5 < Entries
  BY AddressSpaceAssumption
<1>3. /\ 0 \in Entry /\ TableEntry \in Entry /\ StackTop \in Entry
      /\ StackTop \notin {0, TableEntry}
      /\ BootStacks \subseteq Entry
      /\ 0 \notin BootStacks /\ TableEntry \notin BootStacks
  BY <1>1, <1>2 DEF Entry, TableEntry, StackTop, BootStacks
<1>4. Page \cap BootPage = {} /\ Null \notin AnyPage
  BY <1>3, AddressSpaceAssumption DEF AnyPage, BootPage
<1>5. QED
  BY <1>1, <1>3, <1>4

\* Pages move from the free list to the page list of a space, whose table
\* becomes t and leads to nothing else.
Move(a, taken, t) ==
    /\ taken \subseteq free
    /\ t \in [Entry -> Mapping \cup {Null}]
    /\ \A e \in Entry : t[e] # Null => t[e].page \in pageList[a] \cup taken \cup {Null}
    /\ \A e, f \in Entry : e # f /\ t[e] # Null /\ t[f] # Null => t[e].page # t[f].page
    /\ free' = free \ taken
    /\ pageList' = [pageList EXCEPT ![a] = @ \cup taken]
    /\ table' = [table EXCEPT ![a] = t]
    /\ tablePage' \in [Space -> AnyPage \cup {Null}]

\* Then nobody comes to share a page.
LEMMA PagesMove ==
    ASSUME NEW a \in Space, NEW taken, NEW t, PagesInv, Move(a, taken, t)
    PROVE  PagesInv'
<1> USE DEF PagesInv, PageTypeOK, Move
<1>1. /\ pageList'[a] = pageList[a] \cup taken
      /\ table'[a] = t
      /\ \A b \in Space \ {a} : pageList'[b] = pageList[b] /\ table'[b] = table[b]
  OBVIOUS
<1>2. PageTypeOK'
  OBVIOUS
<1>3. \A b \in Space :
         /\ pageList'[b] \cap free' = {}
         /\ \A c \in Space \ {b} : pageList'[b] \cap pageList'[c] = {}
  BY <1>1 DEF PageInOnePlace
<1>4. ASSUME NEW b \in Space
      PROVE  /\ Mapped(b)' \subseteq pageList'[b]
             /\ \A e, f \in Entry :
                   e # f /\ table'[b][e] # Null /\ table'[b][f] # Null => table'[b][e].page # table'[b][f].page
  <2>1. CASE b = a
    <3>1. ASSUME NEW x \in Mapped(b)' PROVE x \in pageList'[b]
      <4>1. PICK e \in Entry : table'[b][e] # Null /\ x = table'[b][e].page /\ x # Null
        BY <3>1 DEF Mapped
      <4>2. QED
        BY <4>1, <1>1, <2>1
    <3>2. QED
      BY <3>1, <1>1, <2>1
  <2>2. CASE b # a
    <3>1. Mapped(b)' = Mapped(b)
      BY <1>1, <2>2 DEF Mapped
    <3>2. QED
      BY <3>1, <1>1, <2>2 DEF PageInOnePlace
  <2>3. QED
    BY <2>1, <2>2
<1>5. QED
  BY <1>2, <1>3, <1>4 DEF PageInOnePlace

\* add_page() of free pages at entries that are not mapped.
LEMMA MapKeeps ==
    ASSUME NEW a \in Space, NEW entries \in SUBSET Entry, NEW rights \in Rights,
           \A e \in entries : table[a][e] = Null,
           PagesInv, Map(a, entries, rights), UNCHANGED tablePage
    PROVE  PagesInv'
<1> USE DEF PagesInv, PageTypeOK
<1>1. PICK give \in Injection(entries, free) :
        /\ free' = free \ Range(give)
        /\ pageList' = [pageList EXCEPT ![a] = @ \cup Range(give)]
        /\ table' = [table EXCEPT ![a] = [e \in Entry |->
                        IF e \in entries THEN [page |-> give[e], rights |-> rights] ELSE @[e]]]
  BY DEF Map
<1>2. /\ give \in [entries -> free]
      /\ \A e, f \in entries : give[e] = give[f] => e = f
  BY DEF Injection, IsInjective
<1>3. Range(give) \subseteq free /\ \A e \in entries : give[e] \in Range(give)
  BY <1>2 DEF Range
<1> DEFINE t == [e \in Entry |-> IF e \in entries THEN [page |-> give[e], rights |-> rights]
                                 ELSE table[a][e]]
<1>4. t \in [Entry -> Mapping \cup {Null}]
  <2>1. \A e \in entries : [page |-> give[e], rights |-> rights] \in Mapping
    BY <1>2 DEF Mapping
  <2>2. QED
    BY <2>1
<1>5. table' = [table EXCEPT ![a] = t]
  BY <1>1
<1>6. \A e \in Entry : t[e] # Null =>
         \/ e \in entries /\ t[e].page = give[e]
         \/ e \notin entries /\ t[e] = table[a][e]
  OBVIOUS
<1> HIDE DEF t
<1>7. \A e \in Entry : table[a][e] # Null => table[a][e].page \in pageList[a] \cup {Null}
  BY DEF PageInOnePlace, Mapped
<1>8. Null \notin free
  BY BootPagesAreEntries
<1>9. \A e \in Entry : t[e] # Null => t[e].page \in pageList[a] \cup Range(give) \cup {Null}
  BY <1>6, <1>7, <1>3
<1>10. \A e, f \in Entry : e # f /\ t[e] # Null /\ t[f] # Null => t[e].page # t[f].page
  BY <1>6, <1>7, <1>8, <1>2, <1>3 DEF PageInOnePlace
<1>11. tablePage' \in [Space -> AnyPage \cup {Null}] /\ Range(give) \in SUBSET free
  BY <1>3
<1> HIDE DEF PagesInv, PageTypeOK
<1>12. Move(a, Range(give), t)
  BY <1>1, <1>4, <1>5, <1>9, <1>10, <1>11 DEF Move
<1>13. QED
  BY <1>12, PagesMove

\* add(), whatever the extent.
LEMMA AddKeeps ==
    ASSUME NEW a \in Space, NEW address, NEW size, NEW rights \in Rights,
           PagesInv, Add(a, address, size, rights), UNCHANGED tablePage
    PROVE  PagesInv'
<1> DEFINE entries == Supplied(Missing(a, Extent(address, size)))
<1>1. Map(a, entries, rights)
  BY DEF Add
<1>2. entries \in SUBSET Entry /\ \A e \in entries : table[a][e] = Null
  BY DEF Supplied, Missing, Extent
<1>3. QED
  BY <1>1, <1>2, MapKeeps

-----------------------------------------------------------------------------

\* The processes that live in a space.
Home == {p \in Process : space[p] \in Space}

\* Whoever runs or is ready does.
Housed ==
    /\ space \in [Process -> Space \cup {Null}]
    /\ freeSpaces \subseteq Space
    /\ freeProcs \subseteq Process
    /\ current \in Home \cup {Null}
    /\ ready \in Seq(Home)

MemInv == PagesInv /\ Housed

\* A context switch brings in nobody from elsewhere.
LEMMA SwitchStays ==
    ASSUME NEW S, Null \notin S, NEW p \in S \cup {Null}, NEW q \in Seq(S), ContextSwitch(p, q)
    PROVE  current' \in S \cup {Null} /\ ready' \in Seq(S)
<1> DEFINE r == Requeue(q, p)
<1>1. r \in Seq(S)
  BY DEF Requeue
<1>2. r # <<>> => Head(r) \in S /\ Tail(r) \in Seq(S)
  BY <1>1
<1>3. <<>> \in Seq(S)
  OBVIOUS
<1>4. QED
  BY <1>2, <1>3 DEF ContextSwitch

\* A kernel entry that puts nobody new in the queue.
LEMMA SameProcesses ==
    ASSUME Housed, NEW left, NEW p \in {current, Null},
           UNCHANGED <<space, freeSpaces, freeProcs>>, Switch(p, ready, left)
    PROVE  Housed'
<1>1. Null \notin Home
  BY DispatcherAssumption DEF Home
<1>2. current' \in Home \cup {Null} /\ ready' \in Seq(Home)
  BY <1>1, SwitchStays DEF Housed, Switch
<1>3. Home' = Home
  BY DEF Home
<1>4. QED
  BY <1>2, <1>3 DEF Housed

\* One that starts a process in a space.
LEMMA Newcomer ==
    ASSUME Housed, NEW left, NEW p \in freeProcs, NEW a \in Space,
           space' = [space EXCEPT ![p] = a],
           freeSpaces' \subseteq freeSpaces, freeProcs' \subseteq freeProcs,
           Switch(current, ready, left) \/ Switch(current, Append(ready, p), left)
    PROVE  Housed'
<1> USE DEF Housed
<1>1. p \in Home' /\ Home \subseteq Home' /\ space' \in [Process -> Space \cup {Null}]
  BY DEF Home
<1>2. Null \notin Home'
  BY DispatcherAssumption DEF Home
<1>3. \A s \in Seq(Home) : s \in Seq(Home')
  BY <1>1
<1>4. ready \in Seq(Home') /\ Append(ready, p) \in Seq(Home') /\ current \in Home' \cup {Null}
  BY <1>1, <1>3
<1>5. current' \in Home' \cup {Null} /\ ready' \in Seq(Home')
  BY <1>2, <1>4, SwitchStays DEF Switch
<1>6. QED
  BY <1>1, <1>5

\* create_process(), whatever it finds in the pools and in the MMU.
LEMMA SpawnKeeps ==
    ASSUME MemInv, Spawn
    PROVE  MemInv'
<1> USE DEF MemInv
<1>1. CASE SpawnFails
  <2>1. PagesInv'
    BY <1>1 DEF SpawnFails, pageVars, PagesInv, PageTypeOK, PageInOnePlace, Mapped
  <2>2. Housed'
    BY <1>1, SameProcesses DEF SpawnFails, threadVars
  <2>3. QED
    BY <2>1, <2>2
<1>2. ASSUME NEW p \in freeProcs, NEW a \in freeSpaces,
             freeProcs' = freeProcs \ {p}, freeSpaces' = freeSpaces \ {a},
             space' = [space EXCEPT ![p] = a],
             SpawnNoPage \/ SpawnOnePage(a) \/ SpawnSucceeds(p, a)
      PROVE  MemInv'
  <2>1. a \in Space
    BY DEF Housed
  <2>2. \A pg \in free : /\ FreshTable(pg) \in [Entry -> Mapping \cup {Null}]
                         /\ FreshTable(pg)[0].page = Null
                         /\ FreshTable(pg)[TableEntry].page = pg
                         /\ \A e \in Entry \ {0, TableEntry} : FreshTable(pg)[e] = Null
    <3>1. TableEntry # 0
      BY DEF TableEntry
    <3>2. \A pg \in free : [page |-> Null, rights |-> "os"] \in Mapping
                           /\ [page |-> pg, rights |-> "os"] \in Mapping
      BY DEF Mapping, PagesInv, PageTypeOK
    <3>3. QED
      BY <3>1, <3>2, BootPagesAreEntries DEF FreshTable, Unmapped
  <2>3. Null \notin free
    BY BootPagesAreEntries DEF PagesInv, PageTypeOK
  <2>4. CASE SpawnNoPage
    <3>1. PagesInv'
      BY <2>4 DEF SpawnNoPage, pageVars, PagesInv, PageTypeOK, PageInOnePlace, Mapped
    <3>2. Housed'
      BY <1>2, <2>1, <2>4, Newcomer DEF SpawnNoPage
    <3>3. QED
      BY <3>1, <3>2
  <2>5. CASE SpawnOnePage(a)
    <3>1. PICK pg \in free : /\ tablePage' = [tablePage EXCEPT ![a] = pg]
                             /\ table' = [table EXCEPT ![a] = FreshTable(pg)]
      BY <2>5 DEF SpawnOnePage
    <3>2. free' = free \ free /\ pageList' = [pageList EXCEPT ![a] = @ \cup free]
      BY <2>5 DEF SpawnOnePage
    <3> DEFINE t == FreshTable(pg)
    <3>3. /\ t \in [Entry -> Mapping \cup {Null}]
          /\ \A e \in Entry : t[e] # Null => t[e].page \in pageList[a] \cup free \cup {Null}
          /\ \A e, f \in Entry : e # f /\ t[e] # Null /\ t[f] # Null => t[e].page # t[f].page
      BY <2>2, <2>3
    <3>4. tablePage' \in [Space -> AnyPage \cup {Null}]
      BY <3>1 DEF PagesInv, PageTypeOK
    <3> HIDE DEF t
    <3>5. table' = [table EXCEPT ![a] = t]
      BY <3>1 DEF t
    <3> DEFINE taken == free
    <3>6. Move(a, taken, t)
      BY <3>2, <3>3, <3>4, <3>5 DEF Move
    <3>7. PagesInv'
      BY <2>1, <3>6, PagesMove
    <3>8. Housed'
      BY <1>2, <2>1, <2>5, Newcomer DEF SpawnOnePage
    <3>9. QED
      BY <3>7, <3>8
  <2>6. CASE SpawnSucceeds(p, a)
    <3>1. PICK pg \in free : \E stack \in free \ {pg} :
             /\ tablePage' = [tablePage EXCEPT ![a] = pg]
             /\ table' = [table EXCEPT ![a] = [FreshTable(pg) EXCEPT
                             ![StackTop] = [page |-> stack, rights |-> "data"]]]
             /\ free' = free \ {pg, stack}
             /\ pageList' = [pageList EXCEPT ![a] = @ \cup {pg, stack}]
      BY <2>6 DEF SpawnSucceeds
    <3>2. PICK stack \in free \ {pg} :
             /\ tablePage' = [tablePage EXCEPT ![a] = pg]
             /\ table' = [table EXCEPT ![a] = [FreshTable(pg) EXCEPT
                             ![StackTop] = [page |-> stack, rights |-> "data"]]]
             /\ free' = free \ {pg, stack}
             /\ pageList' = [pageList EXCEPT ![a] = @ \cup {pg, stack}]
      BY <3>1
    <3> DEFINE t == [FreshTable(pg) EXCEPT ![StackTop] = [page |-> stack, rights |-> "data"]]
    <3>3. [page |-> stack, rights |-> "data"] \in Mapping
      BY DEF Mapping, Rights, PagesInv, PageTypeOK
    <3>4. /\ t \in [Entry -> Mapping \cup {Null}]
          /\ t[0].page = Null /\ t[TableEntry].page = pg /\ t[StackTop].page = stack
          /\ \A e \in Entry \ {0, TableEntry, StackTop} : t[e] = Null
      BY <2>2, <3>3, BootPagesAreEntries
    <3> HIDE DEF t
    <3>5. /\ \A e \in Entry : t[e] # Null => t[e].page \in pageList[a] \cup {pg, stack} \cup {Null}
          /\ \A e, f \in Entry : e # f /\ t[e] # Null /\ t[f] # Null => t[e].page # t[f].page
      BY <3>4, <2>3
    <3>6. tablePage' \in [Space -> AnyPage \cup {Null}]
      BY <3>2 DEF PagesInv, PageTypeOK
    <3>7. table' = [table EXCEPT ![a] = t]
      BY <3>2 DEF t
    <3>8. Move(a, {pg, stack}, t)
      BY <3>2, <3>4, <3>5, <3>6, <3>7 DEF Move
    <3>9. PagesInv'
      BY <2>1, <3>8, PagesMove
    <3>10. Housed'
      BY <1>2, <2>1, <2>6, Newcomer DEF SpawnSucceeds
    <3>11. QED
      BY <3>9, <3>10
  <2>7. QED
    BY <1>2, <2>4, <2>5, <2>6
<1>3. QED
  BY <1>1, <1>2 DEF Spawn

\* A kernel entry of somebody who runs is made in a space.
LEMMA CallerHasASpace ==
    ASSUME Housed, current # Null
    PROVE  space[current] \in Space
BY DEF Housed, Home

\* create_thread(): its stack is one page, or none if the heap is there.
LEMMA BeginThreadKeeps ==
    ASSUME MemInv, BeginThread
    PROVE  MemInv'
<1> USE DEF MemInv
<1>1. CASE /\ freeProcs = {}
           /\ UNCHANGED <<threadVars, pageVars, breakVars>>
           /\ Switch(current, ready, inForce)
  <2>1. PagesInv'
    BY <1>1 DEF pageVars, PagesInv, PageTypeOK, PageInOnePlace, Mapped
  <2>2. Housed'
    BY <1>1, SameProcesses DEF threadVars
  <2>3. QED
    BY <2>1, <2>2
<1>2. ASSUME NEW p \in freeProcs,
             freeProcs' = freeProcs \ {p},
             space' = [space EXCEPT ![p] = space[current]],
             UNCHANGED <<tablePage, freeSpaces>>,
             Add(space[current], NextStack(stackBreak[space[current]]) * PageSize, PageSize, "data"),
             Switch(current, Append(ready, p), inForce),
             current # Null
      PROVE  MemInv'
  <2>1. space[current] \in Space /\ "data" \in Rights
    BY <1>2, CallerHasASpace DEF Rights
  <2>2. PagesInv'
    BY <1>2, <2>1, AddKeeps
  <2>3. Housed'
    BY <1>2, <2>1, Newcomer
  <2>4. QED
    BY <2>2, <2>3
<1>3. QED
  BY <1>1, <1>2 DEF BeginThread

\* set_heap_break(), by a program or by morecore().
LEMMA BreakKeeps ==
    ASSUME MemInv, NEW a \in Space, NEW bytes, NEW rights \in Rights,
           MoveBreak(a, bytes, rights), UNCHANGED threadVars, Switch(current, ready, inForce)
    PROVE  MemInv'
<1>1. PagesInv'
  BY AddKeeps DEF MemInv, MoveBreak
<1>2. Housed'
  BY SameProcesses DEF MemInv, threadVars
<1>3. QED
  BY <1>1, <1>2 DEF MemInv

\* terminate_current_process(): all the pages of a space go back at once, or
\* none.
LEMMA ExitKeeps ==
    ASSUME MemInv, Exit
    PROVE  MemInv'
<1> DEFINE a == space[current]
<1>1. a \in Space /\ current \in Process
  BY CallerHasASpace DEF MemInv, Exit, Housed, Home
<1>2. Release(a)
  BY DEF Exit
<1>3. PagesInv'
  <2>1. CASE threads'[a] > 0
    BY <1>2, <2>1 DEF Release, pageVars, MemInv, PagesInv, PageTypeOK, PageInOnePlace, Mapped
  <2>2. CASE ~(threads'[a] > 0)
    <3> HIDE DEF a
    <3>1. /\ free' = free \cup pageList[a]
          /\ pageList' = [pageList EXCEPT ![a] = {}]
          /\ tablePage' = [tablePage EXCEPT ![a] = Null]
          /\ table' = [table EXCEPT ![a] = Unmapped]
      BY <1>2, <2>2 DEF Release
    <3> USE DEF MemInv, PagesInv
    <3>2. PageTypeOK'
      <4>1. Unmapped \in [Entry -> Mapping \cup {Null}]
        BY DEF Unmapped
      <4>2. QED
        BY <1>1, <3>1, <4>1 DEF PageTypeOK
    <3>3. /\ pageList'[a] = {} /\ table'[a] = Unmapped
          /\ \A b \in Space \ {a} : pageList'[b] = pageList[b] /\ table'[b] = table[b]
      BY <1>1, <3>1 DEF PageTypeOK
    <3>4. \A b \in Space :
             /\ pageList'[b] \cap free' = {}
             /\ \A c \in Space \ {b} : pageList'[b] \cap pageList'[c] = {}
      BY <1>1, <3>1, <3>3 DEF PageInOnePlace
    <3>5. ASSUME NEW b \in Space
          PROVE  /\ Mapped(b)' \subseteq pageList'[b]
                 /\ \A e, f \in Entry :
                       e # f /\ table'[b][e] # Null /\ table'[b][f] # Null => table'[b][e].page # table'[b][f].page
      <4>1. CASE b = a
        <5>1. \A e \in Entry : table'[b][e] = Null
          BY <3>3, <4>1 DEF Unmapped
        <5>2. Mapped(b)' = {}
          BY <5>1 DEF Mapped
        <5>3. QED
          BY <5>1, <5>2
      <4>2. CASE b # a
        <5>1. Mapped(b)' = Mapped(b)
          BY <3>3, <4>2 DEF Mapped
        <5>2. QED
          BY <5>1, <3>3, <4>2 DEF PageInOnePlace
      <4>3. QED
        BY <4>1, <4>2
    <3>6. QED
      BY <3>2, <3>4, <3>5 DEF PageInOnePlace
  <2>3. QED
    BY <2>1, <2>2
<1>4. Housed'
  <2>1. Null \notin Home /\ Home' = Home
    BY DispatcherAssumption DEF Home, Exit
  <2>2. current' \in Home \cup {Null} /\ ready' \in Seq(Home)
    BY <2>1, SwitchStays DEF Exit, Switch, MemInv, Housed
  <2>3. freeSpaces' \subseteq Space /\ freeProcs' \subseteq Process
    BY <1>1, <1>2 DEF Release, Exit, MemInv, Housed
  <2>4. QED
    BY <2>1, <2>2, <2>3 DEF Exit, MemInv, Housed
<1>5. QED
  BY <1>3, <1>4 DEF MemInv

LEMMA TickKeeps ==
    ASSUME MemInv, Tick
    PROVE  MemInv'
<1>1. PagesInv'
  BY DEF Tick, pageVars, MemInv, PagesInv, PageTypeOK, PageInOnePlace, Mapped
<1>2. Housed'
  BY SameProcesses DEF Tick, threadVars, MemInv
<1>3. QED
  BY <1>1, <1>2 DEF MemInv

LEMMA StutterKeeps ==
    ASSUME MemInv, UNCHANGED memVars
    PROVE  MemInv'
BY DEF memVars, queueVars, threadVars, pageVars, MemInv, PagesInv, PageTypeOK, PageInOnePlace,
       Mapped, Housed, Home

\* KR_malloc() grows the heap of the system space, or does not enter the kernel.
LEMMA MallocKeeps ==
    ASSUME MemInv, NEW units, NEW forFile, Malloc(units, forFile)
    PROVE  MemInv'
<1>1. CASE MallocHere(units, forFile)
  BY <1>1, StutterKeeps DEF MallocHere
<1>2. CASE MallocMore(units, forFile)
  <2>1. System \in Space /\ "data" \in Rights
    BY AddressSpaceAssumption DEF Rights
  <2>2. QED
    BY <1>2, <2>1, BreakKeeps DEF MallocMore
<1>3. QED
  BY <1>1, <1>2 DEF Malloc

-----------------------------------------------------------------------------

\* The boot leaves the pages of the system space on its list, and all others free.
LEMMA MemInitHolds == MemInit => MemInv
<1> SUFFICES ASSUME MemInit PROVE MemInv
  OBVIOUS
<1> USE AddressSpaceAssumption, DispatcherAssumption, BootPagesAreEntries
<1> DEFINE boot == [e \in Entry |-> IF e \in BootStacks
                                    THEN [page |-> e, rights |-> "data"]
                                    ELSE FreshTable(TableEntry)[e]]
<1>1. /\ free = Page
      /\ pageList = [a \in Space |-> IF a = System THEN BootPage ELSE {}]
      /\ tablePage = [a \in Space |-> IF a = System THEN TableEntry ELSE Null]
      /\ table = [a \in Space |-> IF a # System THEN Unmapped ELSE boot]
  BY DEF MemInit
<1>2. /\ TableEntry # 0
      /\ boot[0] = [page |-> Null, rights |-> "os"]
      /\ boot[TableEntry] = [page |-> TableEntry, rights |-> "os"]
      /\ \A e \in BootStacks : boot[e] = [page |-> e, rights |-> "data"]
      /\ \A e \in Entry \ (BootStacks \cup {0, TableEntry}) : boot[e] = Null
  BY DEF FreshTable, Unmapped, TableEntry
<1>3. boot \in [Entry -> Mapping \cup {Null}]
  <2>1. BootPage \subseteq AnyPage
    BY DEF AnyPage
  <2>2. \A e \in BootStacks : [page |-> e, rights |-> "data"] \in Mapping
    BY <2>1 DEF Mapping, Rights, BootPage
  <2>3. [page |-> Null, rights |-> "os"] \in Mapping /\ [page |-> TableEntry, rights |-> "os"] \in Mapping
    BY <2>1 DEF Mapping, BootPage
  <2>4. \A e \in Entry : boot[e] \in Mapping \cup {Null}
    BY <1>2, <2>2, <2>3
  <2>5. QED
    BY <2>4
<1> HIDE DEF boot
<1>4. Unmapped \in [Entry -> Mapping \cup {Null}] /\ \A e \in Entry : Unmapped[e] = Null
  BY DEF Unmapped
<1>5. PageTypeOK
  BY <1>1, <1>3, <1>4 DEF PageTypeOK, AnyPage, BootPage
<1>6. \A a \in Space :
         /\ pageList[a] \cap free = {}
         /\ \A b \in Space \ {a} : pageList[a] \cap pageList[b] = {}
  BY <1>1
<1>7. ASSUME NEW a \in Space
      PROVE  /\ Mapped(a) \subseteq pageList[a]
             /\ \A e, f \in Entry :
                   e # f /\ table[a][e] # Null /\ table[a][f] # Null => table[a][e].page # table[a][f].page
  <2>1. CASE a # System
    BY <1>1, <1>4, <2>1 DEF Mapped
  <2>2. CASE a = System
    <3>1. \A e \in Entry : boot[e] # Null => boot[e].page = (IF e = 0 THEN Null ELSE e)
                                           /\ boot[e].page \in BootPage \cup {Null}
      <4>1. boot[0].page = Null /\ boot[TableEntry].page = TableEntry
        BY <1>2
      <4>2. ASSUME NEW e \in BootStacks PROVE boot[e].page = e /\ e # 0
        <5>1. boot[e] = [page |-> e, rights |-> "data"]
          BY <1>2
        <5>2. QED
          BY <5>1
      <4>3. \A e \in Entry : boot[e] # Null => e \in BootStacks \cup {0, TableEntry}
        BY <1>2
      <4>4. QED
        BY <1>2, <4>1, <4>2, <4>3 DEF BootPage
    <3>2. table[a] = boot /\ pageList[a] = BootPage
      BY <1>1, <2>2
    <3>3. Mapped(a) \subseteq pageList[a]
      BY <3>1, <3>2 DEF Mapped
    <3>4. \A e, f \in Entry : e # f /\ boot[e] # Null /\ boot[f] # Null => boot[e].page # boot[f].page
      BY <3>1
    <3>5. QED
      BY <3>2, <3>3, <3>4
  <2>3. QED
    BY <2>1, <2>2
<1>8. PagesInv
  BY <1>5, <1>6, <1>7 DEF PagesInv, PageInOnePlace
<1>9. Housed
  <2>1. \A p \in Range(Boot) : p \in Home
    BY DEF MemInit, Home, Range
  <2>2. Boot \in Seq(Home)
    BY <2>1 DEF Range
  <2>3. QED
    BY <2>2 DEF MemInit, Housed, QueueInit
<1>10. QED
  BY <1>8, <1>9 DEF MemInv

\* No step lets two programs share a page.
LEMMA MemStep ==
    ASSUME MemInv, [Next]_<<memVars, heapVars>>
    PROVE  MemInv'
<1>1. CASE OpenFile
  BY <1>1, MallocKeeps DEF OpenFile
<1>2. CASE OpenFails
  BY <1>2, StutterKeeps DEF OpenFails
<1>3. CASE OpenSucceeds
  BY <1>3, MallocKeeps DEF OpenSucceeds
<1>4. CASE Others
  <2>1. CASE Tick
    BY <2>1, TickKeeps
  <2>2. CASE Spawn
    BY <2>2, SpawnKeeps
  <2>3. CASE BeginThread
    BY <2>3, BeginThreadKeeps
  <2>4. CASE Exit
    BY <2>4, ExitKeeps
  <2>5. ASSUME NEW bytes \in Grow, NEW rights \in Asked, SetHeapBreak(bytes, rights)
        PROVE  MemInv'
    <3>1. space[current] \in Space
      BY <2>5, CallerHasASpace DEF SetHeapBreak, MemInv
    <3>2. rights \in Rights
      BY AddressSpaceAssumption
    <3>3. QED
      BY <2>5, <3>1, <3>2, BreakKeeps DEF SetHeapBreak
  <2>6. QED
    BY <1>4, <2>1, <2>2, <2>3, <2>4, <2>5 DEF Others
<1>5. CASE UNCHANGED <<memVars, heapVars>>
  BY <1>5, StutterKeeps
<1>6. QED
  BY <1>1, <1>2, <1>3, <1>4, <1>5 DEF Next

\* No page is ever in two places: whatever programs spawn, grow, begin and exit,
\* and whatever the disk server opens, for every number of pages and spaces.
THEOREM PagesStayInPlace == Spec => []PageInOnePlace
<1>1. Init => MemInv
  BY MemInitHolds DEF Init
<1>2. MemInv /\ [Next]_<<memVars, heapVars>> => MemInv'
  BY MemStep, AddressSpaceAssumption
<1>3. MemInv => PageInOnePlace
  BY DEF MemInv, PagesInv
<1>4. QED
  BY <1>1, <1>2, <1>3, PTL DEF Spec

-----------------------------------------------------------------------------
(* The processes in their spaces *)

\* The processes that run or wait to.
Runner == Scheduled \cup {Idle}

\* The threads of a space.
ThreadsOf(a) == {p \in Live : space[p] = a}

\* thread_count counts the threads of every space that somebody may run in, and
\* the pool holds no space with a thread.
ThreadsInv ==
    /\ QueueTypeOK /\ OnePlace
    /\ threads \in [Space -> Nat]
    /\ Runner \cap freeProcs = {}
    /\ \A p \in Runner : space[p] \in Inhabited
    /\ \A a \in freeSpaces : threads[a] = 0 /\ ThreadsOf(a) = {}
    /\ \A a \in Inhabited : threads[a] = Cardinality(ThreadsOf(a))
    /\ Server \notin freeProcs /\ space[Server] = System

\* A space with threads owns the page its table is in.
TablesInv == \A a \in Inhabited : tablePage[a] \in pageList[a]

-----------------------------------------------------------------------------
(* Threads *)

\* What MemInv says of the pools.
LEMMA Pools ==
    MemInv => /\ space \in [Process -> Space \cup {Null}]
              /\ freeSpaces \subseteq Space /\ freeProcs \subseteq Process
              /\ Null \notin Space
  BY AddressSpaceAssumption DEF MemInv, Housed

\* What a context switch does to those who run or wait to.
LEMMA SwitchRunners ==
    ASSUME QueueTypeOK, OnePlace, UNCHANGED asleep, NEW left
    PROVE  /\ Switch(current, ready, left) =>
                 QueueTypeOK' /\ OnePlace' /\ Runner' = Runner
           /\ \A p \in Process \ Runner : Switch(current, Append(ready, p), left) =>
                 QueueTypeOK' /\ OnePlace' /\ Runner' = Runner \cup {p}
           /\ current # Null /\ Switch(Null, ready, left) =>
                 QueueTypeOK' /\ OnePlace' /\ Runner' = Runner \ {current}
<1>1. ASSUME Switch(current, ready, left)
      PROVE  QueueTypeOK' /\ OnePlace' /\ Runner' = Runner
  <2>1. Interrupt
    BY <1>1 DEF Switch, Interrupt
  <2> QED
    BY <2>1, QueueStep DEF Runner
<1>2. ASSUME NEW p \in Process \ Runner, Switch(current, Append(ready, p), left)
      PROVE  QueueTypeOK' /\ OnePlace' /\ Runner' = Runner \cup {p}
  <2>1. Admit(p)
    BY <1>2 DEF Switch, Admit, Runner
  <2> QED
    BY <2>1, QueueStep DEF Runner
<1>3. ASSUME current # Null, Switch(Null, ready, left)
      PROVE  QueueTypeOK' /\ OnePlace' /\ Runner' = Runner \ {current}
  <2>1. Retire
    BY <1>3 DEF Switch, Retire
  <2>2. current # Idle
    BY <1>3 DEF OnePlace, Scheduled
  <2> QED
    BY <2>1, <2>2, QueueStep DEF Runner
<1> QED
  BY <1>1, <1>2, <1>3

\* Those who run or wait to are processes, and the current one is among them.
LEMMA RunnersAre ==
    ASSUME QueueTypeOK
    PROVE  /\ Runner \subseteq Process
           /\ current # Null => current \in Runner
           /\ Running \in Runner
  BY DispatcherAssumption DEF QueueTypeOK, Runner, Scheduled, Ready, Running, Range

\* A space's threads are finitely many.
LEMMA ThreadsFinite ==
    ASSUME NEW a
    PROVE  IsFiniteSet(ThreadsOf(a)) /\ Cardinality(ThreadsOf(a)) \in Nat
<1>1. ThreadsOf(a) \in SUBSET Process /\ IsFiniteSet(Process)
  BY AddressSpaceAssumption DEF ThreadsOf, Live
<1> QED
  BY <1>1, FS_Subset, FS_CardinalityType

\* Nobody comes, nobody goes.
LEMMA ThreadsStay ==
    ASSUME MemInv, ThreadsInv, UNCHANGED <<asleep, threadVars>>, NEW left,
           Switch(current, ready, left)
    PROVE  ThreadsInv'
<1>1. QueueTypeOK' /\ OnePlace' /\ Runner' = Runner
  BY SwitchRunners DEF ThreadsInv
<1>2. Inhabited' = Inhabited /\ \A a : ThreadsOf(a)' = ThreadsOf(a)
  BY DEF Inhabited, ThreadsOf, Live, threadVars
<1> QED
  BY <1>1, <1>2 DEF ThreadsInv, threadVars

\* A process joins a new space, or one that is in use.
LEMMA ThreadJoins ==
    ASSUME MemInv, ThreadsInv, UNCHANGED asleep,
           NEW p \in freeProcs, NEW a \in Space, NEW left,
           freeProcs' = freeProcs \ {p},
           space' = [space EXCEPT ![p] = a],
           threads' = [threads EXCEPT ![a] = @ + 1],
           a \in freeSpaces \cup Inhabited,
           freeSpaces' = freeSpaces \ {a},
           Switch(current, Append(ready, p), left)
    PROVE  /\ ThreadsInv'
           /\ Inhabited' = Inhabited \cup {a}
           /\ ThreadsOf(a)' = ThreadsOf(a) \cup {p} /\ p \notin ThreadsOf(a)
           /\ \A b \in Space \ {a} : ThreadsOf(b)' = ThreadsOf(b)
<1>0. /\ space \in [Process -> Space \cup {Null}] /\ threads \in [Space -> Nat]
      /\ freeSpaces \subseteq Space /\ p \in Process /\ freeProcs \subseteq Process
      /\ p \notin Runner
  BY Pools DEF ThreadsInv
<1>1. /\ space'[p] = a /\ \A q \in Process \ {p} : space'[q] = space[q]
      /\ threads'[a] = threads[a] + 1 /\ \A b \in Space \ {a} : threads'[b] = threads[b]
      /\ threads[a] \in Nat /\ threads' \in [Space -> Nat]
  BY <1>0
<1>2. QueueTypeOK' /\ OnePlace' /\ Runner' = Runner \cup {p} /\ Runner \subseteq Process
  BY <1>0, SwitchRunners, RunnersAre DEF ThreadsInv
<1>3. ThreadsOf(a)' = ThreadsOf(a) \cup {p} /\ p \notin ThreadsOf(a)
  BY <1>0, <1>1 DEF ThreadsOf, Live
<1>4. \A b \in Space \ {a} : ThreadsOf(b)' = ThreadsOf(b)
  BY <1>0, <1>1 DEF ThreadsOf, Live
<1>5. Inhabited' = Inhabited \cup {a}
  BY <1>1 DEF Inhabited
<1>6. threads[a] = Cardinality(ThreadsOf(a))
  BY FS_EmptySet DEF ThreadsInv
<1>7. threads'[a] = Cardinality(ThreadsOf(a)')
  <2>1. Cardinality(ThreadsOf(a) \cup {p}) = Cardinality(ThreadsOf(a)) + 1
    BY <1>3, ThreadsFinite, FS_AddElement
  <2> QED
    BY <1>1, <1>3, <1>6, <2>1
<1>8. \A b \in Inhabited' : threads'[b] = Cardinality(ThreadsOf(b)')
  <2> SUFFICES ASSUME NEW b \in Inhabited'  PROVE threads'[b] = Cardinality(ThreadsOf(b)')
    OBVIOUS
  <2>1. CASE b = a
    BY <1>7, <2>1
  <2>2. CASE b # a
    BY <1>1, <1>4, <1>5, <2>2 DEF ThreadsInv, Inhabited
  <2> QED
    BY <2>1, <2>2
<1>9. \A b \in freeSpaces' : threads'[b] = 0 /\ ThreadsOf(b)' = {}
  BY <1>0, <1>1, <1>4 DEF ThreadsInv
<1>10. \A q \in Runner' : space'[q] \in Inhabited'
  BY <1>1, <1>2, <1>5 DEF ThreadsInv
<1>11. Server \notin freeProcs' /\ space'[Server] = System /\ Runner' \cap freeProcs' = {}
  BY <1>0, <1>2 DEF ThreadsInv
<1> QED
  BY <1>1, <1>2, <1>3, <1>4, <1>5, <1>8, <1>9, <1>10, <1>11 DEF ThreadsInv

\* create_process() runs out of pages: a process and a space leave their pools
\* for good.
LEMMA ThreadStranded ==
    ASSUME MemInv, ThreadsInv, UNCHANGED <<asleep, threads>>,
           NEW p \in freeProcs, NEW a \in freeSpaces, NEW left,
           freeProcs' = freeProcs \ {p},
           space' = [space EXCEPT ![p] = a],
           freeSpaces' = freeSpaces \ {a},
           Switch(current, ready, left)
    PROVE  /\ ThreadsInv'
           /\ Inhabited' = Inhabited /\ a \notin Inhabited
           /\ \A b \in Inhabited : ThreadsOf(b)' = ThreadsOf(b)
<1>0. /\ space \in [Process -> Space \cup {Null}] /\ threads \in [Space -> Nat]
      /\ freeSpaces \subseteq Space /\ p \in Process /\ freeProcs \subseteq Process
      /\ p \notin Runner /\ a \in Space /\ threads[a] = 0
  BY Pools DEF ThreadsInv
<1>1. \A q \in Process \ {p} : space'[q] = space[q]
  BY <1>0
<1>2. QueueTypeOK' /\ OnePlace' /\ Runner' = Runner /\ Runner \subseteq Process
  BY SwitchRunners, RunnersAre DEF ThreadsInv
<1>3. Inhabited' = Inhabited /\ a \notin Inhabited
  BY <1>0 DEF Inhabited
<1>4. \A b \in Space \ {a} : ThreadsOf(b)' = ThreadsOf(b)
  BY <1>0, <1>1 DEF ThreadsOf, Live
<1>5. \A b \in Inhabited : b \in Space \ {a}
  BY <1>3 DEF Inhabited
<1>6. \A b \in freeSpaces' : threads'[b] = 0 /\ ThreadsOf(b)' = {}
  BY <1>0, <1>4 DEF ThreadsInv
<1>7. \A q \in Runner' : space'[q] \in Inhabited'
  BY <1>0, <1>1, <1>2, <1>3 DEF ThreadsInv
<1>8. Server \notin freeProcs' /\ space'[Server] = System /\ Runner' \cap freeProcs' = {}
  BY <1>0, <1>2 DEF ThreadsInv
<1> QED
  BY <1>2, <1>3, <1>4, <1>5, <1>6, <1>7, <1>8 DEF ThreadsInv

\* A thread exits; the last one of a space gives the space back.
LEMMA ThreadLeaves ==
    ASSUME MemInv, ThreadsInv, Exit,
           NEW p, p = current, NEW a, a = space[p], a # System
    PROVE  /\ ThreadsInv'
           /\ a \in Inhabited /\ a \in Space
           /\ threads'[a] \in Nat
           /\ Inhabited' = IF threads'[a] > 0 THEN Inhabited ELSE Inhabited \ {a}
           /\ ThreadsOf(a)' = ThreadsOf(a) \ {p}
           /\ \A b \in Space \ {a} : ThreadsOf(b)' = ThreadsOf(b)
<1>0. /\ current # Null /\ freeProcs' = freeProcs \cup {p} /\ Release(a)
      /\ UNCHANGED <<asleep, space>>
  BY DEF Exit
<1>1. /\ space \in [Process -> Space \cup {Null}] /\ threads \in [Space -> Nat]
      /\ freeSpaces \subseteq Space /\ freeProcs \subseteq Process
      /\ Runner \subseteq Process /\ p \in Runner /\ p \notin freeProcs
      /\ a \in Inhabited /\ a \in Space /\ threads[a] > 0 /\ threads[a] \in Nat
      /\ p # Server
  BY <1>0, Pools, RunnersAre DEF ThreadsInv, Inhabited, Running
<1>2. /\ threads'[a] = threads[a] - 1 /\ threads' \in [Space -> Nat] /\ threads'[a] \in Nat
      /\ \A b \in Space \ {a} : threads'[b] = threads[b]
  BY <1>0, <1>1 DEF Release
<1>2a. threads'[a] \in Nat /\ (threads'[a] = 0 \/ threads'[a] > 0)
  <2>1. \A n \in Nat : n > 0 => n - 1 \in Nat /\ (n - 1 = 0 \/ n - 1 > 0)
    OBVIOUS
  <2> QED
    BY <1>1, <1>2, <2>1
<1>3. QueueTypeOK' /\ OnePlace' /\ Runner' = Runner \ {p}
  BY <1>0, SwitchRunners DEF ThreadsInv, Exit
<1>4. ThreadsOf(a)' = ThreadsOf(a) \ {p} /\ p \in ThreadsOf(a)
  BY <1>0, <1>1 DEF ThreadsOf, Live
<1>5. \A b \in Space \ {a} : ThreadsOf(b)' = ThreadsOf(b)
  BY <1>0, <1>1 DEF ThreadsOf, Live
<1>6. Inhabited' = IF threads'[a] > 0 THEN Inhabited ELSE Inhabited \ {a}
  BY <1>1, <1>2 DEF Inhabited
<1>7. threads'[a] = Cardinality(ThreadsOf(a)')
  <2>1. Cardinality(ThreadsOf(a)) = threads[a]
    BY <1>1 DEF ThreadsInv
  <2>2. Cardinality(ThreadsOf(a) \ {p}) = Cardinality(ThreadsOf(a)) - 1
    BY <1>4, ThreadsFinite, FS_RemoveElement
  <2> QED
    BY <1>2, <1>4, <2>1, <2>2
<1>8. threads'[a] = 0 => ThreadsOf(a)' = {}
  <2>1. IsFiniteSet(ThreadsOf(a) \ {p})
    BY ThreadsFinite, FS_RemoveElement
  <2> QED
    BY <1>4, <1>7, <2>1, FS_EmptySet
<1>9. \A b \in Inhabited' : threads'[b] = Cardinality(ThreadsOf(b)')
  <2> SUFFICES ASSUME NEW b \in Inhabited'  PROVE threads'[b] = Cardinality(ThreadsOf(b)')
    OBVIOUS
  <2>1. b \in Inhabited /\ b \in Space
    BY <1>6 DEF Inhabited
  <2>2. CASE b = a
    BY <1>7, <2>2
  <2>3. CASE b # a
    BY <1>2, <1>5, <2>1, <2>3 DEF ThreadsInv
  <2> QED
    BY <2>2, <2>3
<1>10. \A b \in freeSpaces' : threads'[b] = 0 /\ ThreadsOf(b)' = {}
  <2>1. threads'[a] > 0 => freeSpaces' = freeSpaces
    BY <1>0 DEF Release
  <2>2. threads'[a] = 0 => freeSpaces' = freeSpaces \cup {a}
    BY <1>0 DEF Release
  <2>3. a \notin freeSpaces
    BY <1>1 DEF ThreadsInv
  <2>4. \A b \in freeSpaces : b # a /\ threads'[b] = 0 /\ ThreadsOf(b)' = {}
    BY <1>1, <1>2, <1>5, <2>3 DEF ThreadsInv
  <2>5. CASE threads'[a] > 0
    BY <2>1, <2>4, <2>5
  <2>6. CASE threads'[a] = 0
    BY <1>8, <2>2, <2>4, <2>6
  <2> QED
    BY <1>2a, <2>5, <2>6
<1>11. ASSUME NEW q \in Runner'  PROVE space'[q] \in Inhabited'
  <2>1. q \in Runner /\ q # p /\ q \in Process /\ space[q] \in Inhabited /\ q \notin freeProcs
    BY <1>1, <1>3, <1>11 DEF ThreadsInv
  <2>2. CASE space[q] = a
    <3>1. q \in ThreadsOf(a)'
      BY <1>0, <2>1, <2>2 DEF ThreadsOf, Live
    <3>2. threads'[a] # 0
      BY <1>8, <3>1
    <3>3. threads'[a] > 0
      BY <1>2a, <3>2
    <3> QED
      BY <1>0, <1>6, <2>1, <3>3
  <2>3. CASE space[q] # a
    BY <1>0, <1>6, <2>1, <2>3
  <2> QED
    BY <2>2, <2>3
<1>12. Server \notin freeProcs' /\ space'[Server] = System /\ Runner' \cap freeProcs' = {}
  BY <1>0, <1>1, <1>3 DEF ThreadsInv
<1> QED
  BY <1>1, <1>2, <1>3, <1>4, <1>5, <1>6, <1>9, <1>10, <1>11, <1>12 DEF ThreadsInv

-----------------------------------------------------------------------------
(* Tables *)

\* A context switch puts the table of whoever runs next in force.
LEMMA SwitchInForce ==
    ASSUME NEW p, NEW queue, NEW left, Switch(p, queue, left)
    PROVE  inForce' = tablePage'[space'[Running']]
  BY DEF Switch, Running

\* add_page() for each of these entries.
LEMMA MapEffect ==
    ASSUME PageTypeOK, NEW a \in Space, NEW entries \in SUBSET Entry, NEW rights \in Rights,
           Map(a, entries, rights)
    PROVE  /\ \A b \in Space \ {a} : table'[b] = table[b] /\ pageList'[b] = pageList[b]
           /\ pageList[a] \subseteq pageList'[a]
           /\ \A e \in entries : table'[a][e] # Null /\ table'[a][e].rights = rights
           /\ \A e \in Entry \ entries : table'[a][e] = table[a][e]
<1>1. PICK give \in Injection(entries, free) :
        /\ pageList' = [pageList EXCEPT ![a] = @ \cup Range(give)]
        /\ table' = [table EXCEPT ![a] = [e \in Entry |->
                        IF e \in entries THEN [page |-> give[e], rights |-> rights] ELSE @[e]]]
  BY DEF Map
<1>2. /\ pageList'[a] = pageList[a] \cup Range(give)
      /\ table'[a] = [e \in Entry |->
                        IF e \in entries THEN [page |-> give[e], rights |-> rights] ELSE table[a][e]]
      /\ \A b \in Space \ {a} : table'[b] = table[b] /\ pageList'[b] = pageList[b]
  BY <1>1 DEF PageTypeOK
<1>3. \A e \in entries : [page |-> give[e], rights |-> rights] \in Mapping
  BY DEF Injection, Mapping, PageTypeOK
<1>4. \A e \in entries : table'[a][e] = [page |-> give[e], rights |-> rights]
  BY <1>2
<1>5. \A e \in entries : table'[a][e] # Null
  BY <1>3, <1>4, AddressSpaceAssumption
<1>6. \A e \in entries : table'[a][e].rights = rights
  <2>1. \A x : [page |-> x, rights |-> rights].rights = rights
    OBVIOUS
  <2> QED
    BY <1>4, <2>1
<1>7. \A e \in Entry \ entries : table'[a][e] = table[a][e]
  BY <1>2
<1> QED
  BY <1>2, <1>5, <1>6, <1>7

\* add(), and what it means that the space is not spoilt by it.
LEMMA AddEffect ==
    ASSUME PageTypeOK, NEW a \in Space, NEW address, NEW size, NEW rights \in Rights,
           Add(a, address, size, rights)
    PROVE  /\ \A b \in Space \ {a} : /\ table'[b] = table[b] /\ pageList'[b] = pageList[b]
                                     /\ b \in spoilt' <=> b \in spoilt
           /\ pageList[a] \subseteq pageList'[a]
           /\ \A e \in Entry : table[a][e] # Null => table'[a][e] = table[a][e]
           /\ a \notin spoilt' =>
                 /\ a \notin spoilt /\ ~Wraps(address, size) /\ ~Met(a)
                 /\ \A e \in Extent(address, size) :
                       /\ table'[a][e] # Null
                       /\ table[a][e] = Null => table'[a][e].rights = rights
                 /\ \A e \in Entry \ Extent(address, size) : table'[a][e] = table[a][e]
<1> DEFINE missing == Missing(a, Extent(address, size))
           entries == Supplied(missing)
<1>1. /\ Map(a, entries, rights)
      /\ spoilt' = IF entries # missing \/ Wraps(address, size) \/ Met(a)
                   THEN spoilt \cup {a} ELSE spoilt
  BY DEF Add
<1>2. /\ Extent(address, size) \subseteq Entry
      /\ missing = {e \in Extent(address, size) : table[a][e] = Null}
      /\ entries \subseteq missing
  BY DEF Missing, Supplied, Extent
<1> HIDE DEF missing, entries
<1>3. /\ \A b \in Space \ {a} : table'[b] = table[b] /\ pageList'[b] = pageList[b]
      /\ pageList[a] \subseteq pageList'[a]
      /\ \A e \in entries : table'[a][e] # Null /\ table'[a][e].rights = rights
      /\ \A e \in Entry \ entries : table'[a][e] = table[a][e]
  BY <1>1, <1>2, MapEffect
<1>4. \A b \in Space \ {a} : b \in spoilt' <=> b \in spoilt
  BY <1>1
<1>5. ASSUME a \notin spoilt'
      PROVE  a \notin spoilt /\ ~Wraps(address, size) /\ ~Met(a) /\ entries = missing
  BY <1>1, <1>5
<1>6. \A e \in Entry : table[a][e] # Null => table'[a][e] = table[a][e]
  BY <1>2, <1>3
<1>7. ASSUME entries = missing
      PROVE  /\ \A e \in Extent(address, size) :
                       /\ table'[a][e] # Null
                       /\ table[a][e] = Null => table'[a][e].rights = rights
             /\ \A e \in Entry \ Extent(address, size) : table'[a][e] = table[a][e]
  BY <1>2, <1>3, <1>7
<1> QED
  BY <1>3, <1>4, <1>5, <1>6, <1>7

-----------------------------------------------------------------------------
(* Addresses and entries *)

\* Division of addresses by the size of a page.
LEMMA Division ==
    ASSUME NEW d \in Nat \ {0}, NEW x \in Nat, NEW e \in Nat
    PROVE  /\ x \div d \in Nat
           /\ d * e <= x => e <= x \div d
           /\ x < d * e => x \div d < e
           /\ (e * d) \div d = e
  OBVIOUS

\* A higher address is in no lower page.
LEMMA DivisionGrows ==
    ASSUME NEW d \in Nat \ {0}, NEW x \in Nat, NEW y \in Nat, x <= y
    PROVE  x \div d <= y \div d
<1>1. d * (x \div d) <= x /\ x \div d \in Nat
  OBVIOUS
<1> QED
  BY <1>1, Division

\* 32 bits hold the addresses of an address space.
LEMMA Remainder ==
    ASSUME NEW d \in Nat \ {0}, NEW x \in Nat
    PROVE  x % d \in 0..(d - 1) /\ (x < d => x % d = x)
  OBVIOUS

\* The entries and addresses of a space.
LEMMA Sizes ==
    /\ PageSize \in Nat \ {0} /\ Limit \in Nat \ {0}
    /\ StackTop \in Nat /\ StackTop = Entries - 1 /\ StackTop > 4 /\ Entries \in Nat \ {0}
    /\ StackTop - 2 - Len(Boot) > HeapStart /\ Len(Boot) \in Nat
    /\ HeapStart = 2 /\ HeapStart * PageSize \in 0..(Limit - 1)
    /\ \A e \in Entry : e \in Nat /\ e <= StackTop /\ e * PageSize + PageSize <= Limit
    /\ \A e \in Nat : e <= StackTop => e \in Entry
<1>1. /\ PageSize \in Nat \ {0} /\ Entries \in Nat /\ Len(Boot) + 5 < Entries
      /\ Len(Boot) \in Nat /\ StackTop = Entries - 1 /\ HeapStart = 2
  BY AddressSpaceAssumption DEF StackTop, HeapStart
<1>2. Limit = PageSize * Entries /\ Limit \in Nat
  BY <1>1 DEF Limit
<1>3. 2 * PageSize < PageSize * Entries
  BY <1>1
<1>4. \A e \in 0..StackTop : e * PageSize + PageSize <= PageSize * Entries
  <2> SUFFICES ASSUME NEW e \in 0..StackTop  PROVE e * PageSize + PageSize <= PageSize * Entries
    OBVIOUS
  <2>1. e + 1 <= Entries /\ e \in Nat
    BY <1>1
  <2>2. (e + 1) * PageSize <= Entries * PageSize
    BY <1>1, <2>1
  <2> QED
    BY <1>1, <2>1, <2>2
<1> QED
  BY <1>1, <1>2, <1>3, <1>4 DEF Entry

-----------------------------------------------------------------------------
(* Stacks and heaps *)

\* The entry the break of a space is in.
HeapTop(a) == heapBreak[a] \div PageSize

\* What is mapped in a space lies below the break or is a stack; every page of
\* the heap is there, and so is a stack of its own for each of these threads.
Sound(a, members) ==
    /\ HeapStart * PageSize <= heapBreak[a]
    /\ HeapTop(a) < stackBreak[a]
    /\ \A e \in Entry : table[a][e] # Null /\ e > HeapTop(a) =>
          e >= stackBreak[a] /\ table[a][e].rights = "data"
    /\ \A e \in HeapStart..((heapBreak[a] - 1) \div PageSize) : table[a][e] # Null
    /\ \A p \in members :
          /\ stackOf[p] \in stackBreak[a]..StackTop
          /\ table[a][stackOf[p]] # Null
          /\ \A q \in members : q # p => stackOf[q] # stackOf[p]

\* As long as a space got what add() was asked for, it is sound.
BreaksInv ==
    /\ heapBreak \in [Space -> 0..(Limit - 1)]
    /\ stackBreak \in [Space -> Entry]
    /\ stackOf \in [Process -> Entry \cup {Null}]
    /\ \A a \in Inhabited \ spoilt : Sound(a, ThreadsOf(a))

\* Nothing a space consists of changes; some of its threads may leave.
LEMMA SoundStays ==
    ASSUME NEW a, NEW old, NEW new, new \subseteq old, Sound(a, old),
           heapBreak'[a] = heapBreak[a], stackBreak'[a] = stackBreak[a], table'[a] = table[a],
           \A p \in new : stackOf'[p] = stackOf[p]
    PROVE  Sound(a, new)'
  BY DEF Sound, HeapTop

\* set_heap_break(): the heap grows by the pages it was given.
LEMMA SoundGrows ==
    ASSUME PageTypeOK, BreaksInv, NEW a \in Space, NEW bytes \in Nat, NEW rights \in Rights,
           NEW members, Sound(a, members), MoveBreak(a, bytes, rights), a \notin spoilt'
    PROVE  Sound(a, members)'
<1> DEFINE old == heapBreak[a]
           new == heapBreak'[a]
<1>0. /\ PageSize \in Nat \ {0} /\ Limit \in Nat \ {0} /\ StackTop \in Nat
      /\ HeapStart = 2 /\ HeapStart * PageSize \in Nat /\ HeapStart * PageSize > 0
      /\ \A e : e \in Entry <=> e \in Nat /\ e <= StackTop
  BY Sizes DEF Entry
<1>1. /\ old \in 0..(Limit - 1) /\ old \in Nat /\ stackBreak[a] \in Entry /\ stackBreak[a] \in Nat
      /\ heapBreak' = [heapBreak EXCEPT ![a] = (@ + bytes) % Limit]
      /\ new = (old + bytes) % Limit
      /\ stackBreak' = stackBreak /\ stackOf' = stackOf
  BY <1>0 DEF BreaksInv, MoveBreak
<1>2. /\ a \notin spoilt /\ ~Wraps(old, bytes) /\ ~Met(a)
      /\ \A e \in Entry : table[a][e] # Null => table'[a][e] = table[a][e]
      /\ \A e \in Extent(old, bytes) : table'[a][e] # Null
      /\ \A e \in Entry \ Extent(old, bytes) : table'[a][e] = table[a][e]
  BY AddEffect DEF MoveBreak
<1>3. old + bytes \in Nat /\ old + bytes < Limit
  BY <1>0, <1>1, <1>2 DEF Wraps
<1>4. new = old + bytes /\ new \in Nat /\ old <= new
  BY <1>0, <1>1, <1>3, Remainder
<1>5. HeapTop(a)' < stackBreak'[a] /\ HeapTop(a) <= HeapTop(a)' /\ HeapTop(a)' \in Nat /\ HeapTop(a) \in Nat
  <2>1. new \div PageSize \in Nat /\ old \div PageSize \in Nat
    BY <1>0, <1>1, <1>4, Division
  <2>2. old \div PageSize <= new \div PageSize
    BY <1>0, <1>1, <1>4, DivisionGrows
  <2>3. ~(new \div PageSize >= stackBreak'[a])
    BY <1>2 DEF Met
  <2>4. stackBreak'[a] \in Nat
    BY <1>1
  <2> QED
    BY <2>1, <2>2, <2>3, <2>4 DEF HeapTop
<1>6. \A e \in Entry : e \in Extent(old, bytes) <=> HeapTop(a) <= e /\ e <= HeapTop(a)'
  <2>1. (old + bytes) % Limit = new
    BY <1>1
  <2> QED
    BY <2>1 DEF Extent, HeapTop
<1>7. HeapStart * PageSize <= new
  BY <1>0, <1>1, <1>4 DEF Sound
<1>8. \A e \in Entry : table'[a][e] # Null /\ e > HeapTop(a)' =>
         e >= stackBreak[a] /\ table'[a][e].rights = "data"
  <2> SUFFICES ASSUME NEW e \in Entry, table'[a][e] # Null, e > HeapTop(a)'
               PROVE  e >= stackBreak[a] /\ table'[a][e].rights = "data"
    OBVIOUS
  <2>1. e \notin Extent(old, bytes) /\ e > HeapTop(a)
    BY <1>0, <1>5, <1>6
  <2>2. table'[a][e] = table[a][e]
    BY <1>2, <2>1
  <2> QED
    BY <2>1, <2>2 DEF Sound
<1>9. ASSUME NEW e \in HeapStart..((new - 1) \div PageSize)
      PROVE  table'[a][e] # Null
  <2>1. new - 1 \in Nat /\ old - 1 \in Nat
    BY <1>0, <1>1, <1>4 DEF Sound
  <2>2. e \in Nat /\ e <= HeapTop(a)' /\ e \in Entry
    <3>1. (new - 1) \div PageSize <= new \div PageSize /\ (new - 1) \div PageSize \in Nat
      <4>1. PICK x \in Nat : x = new - 1
        BY <2>1
      <4>2. x \in Nat /\ new \in Nat /\ x <= new /\ PageSize \in Nat \ {0}
        BY <1>0, <1>4, <4>1
      <4>3. x \div PageSize <= new \div PageSize
        BY <4>2, DivisionGrows
      <4>4. x \div PageSize \in Nat
        BY <4>2, Division
      <4> QED
        BY <4>1, <4>3, <4>4
    <3>2. e \in Nat /\ e <= (new - 1) \div PageSize
      <4>1. PICK top : top = (new - 1) \div PageSize
        OBVIOUS
      <4>2. HeapStart = 2 /\ top \in Nat /\ e \in HeapStart..top
        BY <1>0, <3>1, <4>1
      <4> QED
        BY <4>1, <4>2
    <3>3. e \in Nat /\ e <= HeapTop(a)'
      <4>1. HeapTop(a)' = new \div PageSize
        BY DEF HeapTop
      <4>2. new \div PageSize \in Nat
        BY <1>5, <4>1
      <4> QED
        BY <3>1, <3>2, <4>1, <4>2
    <3>4. stackBreak'[a] = stackBreak[a] /\ stackBreak[a] \in Nat /\ stackBreak[a] <= StackTop
      BY <1>0, <1>1
    <3>5. e <= StackTop
      BY <1>0, <1>5, <3>3, <3>4
    <3> QED
      BY <1>0, <3>3, <3>5
  <2>3. CASE e <= (old - 1) \div PageSize
    <3>1. e \in HeapStart..((old - 1) \div PageSize)
      BY <1>0, <2>1, <2>2, <2>3, Division
    <3>2. table[a][e] # Null
      BY <3>1 DEF Sound
    <3> QED
      BY <1>2, <2>2, <3>2
  <2>4. CASE ~(e <= (old - 1) \div PageSize)
    <3>1. ~(PageSize * e <= old - 1)
      BY <1>0, <2>1, <2>2, <2>4, Division
    <3>2. PageSize * e \in Nat /\ old < PageSize * (e + 1) 
      BY <3>1, <1>0, <1>1, <2>2
    <3>3. old \div PageSize <= e
      <4>1. e + 1 \in Nat
        BY <2>2
      <4>2. old \div PageSize < e + 1 /\ old \div PageSize \in Nat
        BY <1>0, <1>1, <3>2, <4>1, Division
      <4> QED
        BY <2>2, <4>2
    <3>4. e \in Extent(old, bytes)
      BY <1>6, <2>2, <3>3 DEF HeapTop
    <3> QED
      BY <1>2, <3>4
  <2> QED
    BY <2>3, <2>4
<1>10. \A p \in members : table'[a][stackOf[p]] # Null
  <2>1. \A p \in members : stackOf[p] \in Entry /\ table[a][stackOf[p]] # Null
    BY <1>0, <1>1 DEF Sound
  <2> QED
    BY <1>2, <2>1
<1>11. stackBreak'[a] = stackBreak[a] /\ \A p \in members : stackOf'[p] = stackOf[p]
  BY <1>1
<1> QED
  BY <1>5, <1>7, <1>8, <1>9, <1>10, <1>11 DEF Sound

\* create_thread(): the new stack is the entry below the last, and new.
LEMMA SoundBegins ==
    ASSUME PageTypeOK, BreaksInv, NEW a \in Space, NEW stack,
           stack = NextStack(stackBreak[a]),
           NEW members, members \subseteq Process, NEW p \in Process \ members,
           Sound(a, members),
           Add(a, stack * PageSize, PageSize, "data"),
           heapBreak' = heapBreak,
           stackBreak' = [stackBreak EXCEPT ![a] = stack],
           stackOf' = [stackOf EXCEPT ![p] = stack],
           a \notin spoilt'
    PROVE  Sound(a, members \cup {p})'
<1> DEFINE top == HeapTop(a)
           below == stackBreak[a]
<1>0. /\ PageSize \in Nat \ {0} /\ Limit \in Nat \ {0} /\ StackTop \in Nat
      /\ StackTop = Entries - 1 /\ Entries \in Nat \ {0} /\ Limit = PageSize * Entries
      /\ HeapStart = 2 /\ "data" \in Rights
      /\ \A e : e \in Entry <=> e \in Nat /\ e <= StackTop
  BY Sizes DEF Entry, Rights, Limit
<1>1. /\ heapBreak[a] \in Nat /\ below \in Nat /\ below <= StackTop
      /\ stackOf \in [Process -> Entry \cup {Null}]
  BY <1>0 DEF BreaksInv
<1>2. top \in Nat /\ top < below /\ 2 <= top
  <2>1. HeapStart * PageSize <= heapBreak[a] /\ top < below
    BY DEF Sound
  <2>2. PageSize * HeapStart <= heapBreak[a] /\ HeapStart \in Nat
    BY <1>0, <2>1
  <2>3. HeapStart <= top /\ top \in Nat
    BY <1>0, <1>1, <2>2, Division DEF HeapTop
  <2> QED
    BY <1>0, <2>1, <2>3
<1>3. stack = below - 1 /\ stack \in Nat /\ stack \in Entry
  <2>1. below - 1 \in Nat /\ below - 1 < Entries
    BY <1>0, <1>1, <1>2
  <2>2. (below - 1) % Entries = below - 1
    BY <1>0, <2>1, Remainder
  <2> QED
    BY <1>0, <1>1, <2>1, <2>2 DEF NextStack
<1>4. /\ a \notin spoilt /\ ~Wraps(stack * PageSize, PageSize) /\ ~Met(a)
      /\ \A e \in Entry : table[a][e] # Null => table'[a][e] = table[a][e]
      /\ \A e \in Extent(stack * PageSize, PageSize) :
            table'[a][e] # Null /\ (table[a][e] = Null => table'[a][e].rights = "data")
      /\ \A e \in Entry \ Extent(stack * PageSize, PageSize) : table'[a][e] = table[a][e]
  BY <1>0, AddEffect
<1>5. \A e \in Entry : e \in Extent(stack * PageSize, PageSize) <=> e \in {stack, below}
  <2>1. stack * PageSize \in Nat /\ stack * PageSize + PageSize = below * PageSize
    BY <1>0, <1>1, <1>3
  <2>2. below * PageSize \in Nat /\ below * PageSize < Limit
    BY <1>0, <1>1, <1>4, <2>1 DEF Wraps
  <2>3. (below * PageSize) % Limit = below * PageSize
    BY <1>0, <2>2, Remainder
  <2>4. (stack * PageSize) \div PageSize = stack /\ (below * PageSize) \div PageSize = below
    BY <1>0, <1>1, <1>3, <2>1, <2>2, Division
  <2>5. \A e \in Entry : e \in Extent(stack * PageSize, PageSize) <=> stack <= e /\ e <= below
    BY <2>1, <2>3, <2>4 DEF Extent
  <2> QED
    BY <1>0, <1>1, <1>3, <2>5
<1>6. stackBreak'[a] = stack /\ top < stack /\ HeapTop(a)' = top /\ heapBreak'[a] = heapBreak[a]
  <2>1. stackBreak'[a] = stack /\ heapBreak'[a] = heapBreak[a]
    BY DEF BreaksInv
  <2>2. ~(top >= stack)
    BY <1>4, <2>1 DEF Met, HeapTop
  <2> QED
    BY <1>2, <1>3, <2>1, <2>2 DEF HeapTop
<1>7. \A e \in Entry : table'[a][e] # Null /\ e > top => e >= stack /\ table'[a][e].rights = "data"
  <2> SUFFICES ASSUME NEW e \in Entry, table'[a][e] # Null, e > top
               PROVE  e >= stack /\ table'[a][e].rights = "data"
    OBVIOUS
  <2>0. e \in Nat
    BY <1>0
  <2>1. CASE table[a][e] # Null
    <3>1. e >= below /\ table[a][e].rights = "data"
      BY <2>1 DEF Sound
    <3> QED
      BY <1>1, <1>3, <1>4, <2>0, <2>1, <3>1
  <2>2. CASE table[a][e] = Null
    <3>1. e \in {stack, below}
      BY <1>4, <1>5, <2>2
    <3>2. e >= stack
      BY <1>1, <1>3, <3>1
    <3> QED
      BY <1>4, <1>5, <2>2, <3>1, <3>2
  <2> QED
    BY <2>1, <2>2
<1>8. \A e \in HeapStart..((heapBreak[a] - 1) \div PageSize) : table'[a][e] # Null
  <2> SUFFICES ASSUME NEW e \in HeapStart..((heapBreak[a] - 1) \div PageSize)  PROVE table'[a][e] # Null
    OBVIOUS
  <2>1. heapBreak[a] - 1 \in Nat /\ heapBreak[a] - 1 <= heapBreak[a]
    <3>1. 2 * PageSize <= heapBreak[a]
      BY <1>0 DEF Sound
    <3>2. heapBreak[a] > 0
      BY <1>0, <1>1, <3>1
    <3> QED
      BY <1>1, <3>2
  <2>2. (heapBreak[a] - 1) \div PageSize <= top /\ (heapBreak[a] - 1) \div PageSize \in Nat
    BY <1>0, <1>1, <2>1, DivisionGrows, Division DEF HeapTop
  <2>3. e \in Nat /\ e <= top
    BY <1>0, <1>2, <2>2
  <2>4. e \in Entry
    BY <1>0, <1>1, <1>2, <2>3
  <2>5. table[a][e] # Null
    BY DEF Sound
  <2> QED
    BY <1>4, <2>4, <2>5
<1>9. stackOf'[p] = stack /\ \A q \in members : stackOf'[q] = stackOf[q]
  BY <1>1
<1>10. \A q \in members : /\ stackOf[q] \in below..StackTop /\ table[a][stackOf[q]] # Null
                          /\ \A r \in members : r # q => stackOf[r] # stackOf[q]
  BY DEF Sound
<1>11. \A q \in members : /\ stackOf[q] \in stack..StackTop /\ stackOf[q] # stack
                          /\ stackOf[q] \in Entry
  BY <1>0, <1>1, <1>3, <1>10
<1>12. stack \in stack..StackTop /\ table'[a][stack] # Null
  BY <1>0, <1>1, <1>3, <1>4, <1>5
<1>13. \A q \in members \cup {p} :
          /\ stackOf'[q] \in stack..StackTop
          /\ table'[a][stackOf'[q]] # Null
          /\ \A r \in members \cup {p} : r # q => stackOf'[r] # stackOf'[q]
  BY <1>4, <1>9, <1>10, <1>11, <1>12
<1>14. HeapStart * PageSize <= heapBreak'[a]
  BY <1>6 DEF Sound
<1> HIDE DEF top
<1> QED
  BY <1>6, <1>7, <1>8, <1>13, <1>14 DEF Sound

\* create(): a fresh table, the heap empty, one stack at the top.
LEMMA SoundStarts ==
    ASSUME BreaksInv, NEW a \in Space, NEW p \in Process, NEW pg, NEW stack,
           [page |-> stack, rights |-> "data"] \in Mapping,
           table'[a] = [FreshTable(pg) EXCEPT ![StackTop] = [page |-> stack, rights |-> "data"]],
           heapBreak' = [heapBreak EXCEPT ![a] = HeapStart * PageSize],
           stackBreak' = [stackBreak EXCEPT ![a] = StackTop - 1],
           stackOf' = [stackOf EXCEPT ![p] = StackTop]
    PROVE  Sound(a, {p})'
<1>0. /\ PageSize \in Nat \ {0} /\ StackTop \in Nat /\ StackTop > 4 /\ HeapStart = 2
      /\ \A e : e \in Entry <=> e \in Nat /\ e <= StackTop
      /\ TableEntry = 1
  BY Sizes DEF Entry, TableEntry
<1>1. /\ heapBreak'[a] = 2 * PageSize /\ stackBreak'[a] = StackTop - 1 /\ stackOf'[p] = StackTop
  BY <1>0 DEF BreaksInv
<1>2. HeapTop(a)' = 2
  BY <1>0, <1>1, Division DEF HeapTop
<1>3. /\ \A e \in Entry \ {0, 1, StackTop} : table'[a][e] = Null
      /\ table'[a][StackTop] = [page |-> stack, rights |-> "data"]
  BY <1>0 DEF FreshTable, Unmapped
<1>4. table'[a][StackTop] # Null /\ table'[a][StackTop].rights = "data"
  BY <1>3, AddressSpaceAssumption
<1>5. \A e \in Entry : table'[a][e] # Null /\ e > 2 => e >= StackTop - 1 /\ table'[a][e].rights = "data"
  BY <1>0, <1>3, <1>4
<1>6. \A e \in HeapStart..((2 * PageSize - 1) \div PageSize) : table'[a][e] # Null
  <2>1. 2 * PageSize - 1 \in Nat /\ 2 * PageSize - 1 < PageSize * 2
    BY <1>0
  <2>2. (2 * PageSize - 1) \div PageSize < 2 /\ (2 * PageSize - 1) \div PageSize \in Nat
    BY <1>0, <2>1, Division
  <2> QED
    BY <1>0, <2>2
<1>7. StackTop \in (StackTop - 1)..StackTop /\ 2 < StackTop - 1
  BY <1>0
<1> QED
  BY <1>0, <1>1, <1>2, <1>4, <1>5, <1>6, <1>7 DEF Sound

\* The larger of two.
LEMMA MaxOfTwo ==
    ASSUME NEW m \in Nat, NEW n \in Nat
    PROVE  /\ Max({m, n}) \in {m, n}
           /\ Max({m, n}) >= m /\ Max({m, n}) >= n
<1>1. \E x \in {m, n} : \A y \in {m, n} : x >= y
  BY m >= n \/ n >= m
<1> QED
  BY <1>1 DEF Max

-----------------------------------------------------------------------------
(* The steps *)

\* The inductive invariant of address spaces, with the heap of the disk server.
SpaceInv ==
    /\ MemInv /\ ThreadsInv /\ TablesInv /\ BreaksInv
    /\ inForce = tablePage[space[Running]]
    /\ cluster \in BufferUnits

\* A kernel entry that touches no memory.
LEMMA NothingMoves ==
    ASSUME SpaceInv, UNCHANGED <<asleep, threadVars, pageVars, breakVars>>,
           NEW left, Switch(current, ready, left)
    PROVE  ThreadsInv' /\ TablesInv' /\ BreaksInv'
<1>1. ThreadsInv'
  BY ThreadsStay DEF SpaceInv
<1>2. Inhabited' = Inhabited /\ \A a : ThreadsOf(a)' = ThreadsOf(a)
  BY DEF Inhabited, ThreadsOf, Live, threadVars
<1>3. TablesInv'
  BY <1>2 DEF TablesInv, pageVars, SpaceInv
<1>4. BreaksInv'
  <2>1. \A a \in Inhabited' \ spoilt' : Sound(a, ThreadsOf(a))'
    BY <1>2 DEF BreaksInv, SpaceInv, Sound, HeapTop, pageVars, breakVars
  <2> QED
    BY <2>1 DEF BreaksInv, SpaceInv, breakVars
<1> QED
  BY <1>1, <1>3, <1>4

\* create_process().
LEMMA SpawnMoves ==
    ASSUME SpaceInv, Spawn
    PROVE  ThreadsInv' /\ TablesInv' /\ BreaksInv'
<1> DEFINE Goal == ThreadsInv' /\ TablesInv' /\ BreaksInv'
<1>0. MemInv /\ ThreadsInv /\ TablesInv /\ BreaksInv /\ PageTypeOK
  BY DEF SpaceInv, MemInv, PagesInv
<1>1. ASSUME SpawnFails  PROVE Goal
  BY <1>1, NothingMoves DEF SpawnFails
<1>2. ASSUME NEW p \in freeProcs, NEW a \in freeSpaces,
             freeProcs' = freeProcs \ {p}, freeSpaces' = freeSpaces \ {a},
             space' = [space EXCEPT ![p] = a],
             SpawnNoPage \/ SpawnOnePage(a) \/ SpawnSucceeds(p, a)
      PROVE  Goal
  <2>1. /\ a \in Space /\ p \in Process /\ heapBreak \in [Space -> 0..(Limit - 1)]
        /\ HeapStart * PageSize \in 0..(Limit - 1)
        /\ pageList \in [Space -> SUBSET AnyPage] /\ tablePage \in [Space -> AnyPage \cup {Null}]
        /\ table \in [Space -> [Entry -> Mapping \cup {Null}]]
    BY <1>0, Pools, Sizes DEF BreaksInv, PageTypeOK
  <2>2. ASSUME SpawnNoPage \/ SpawnOnePage(a)  PROVE Goal
    <3>1. UNCHANGED <<asleep, threads, stackBreak, stackOf, spoilt>> /\ Switch(current, ready, inForce)
      BY <2>2 DEF SpawnNoPage, SpawnOnePage, breakVars
    <3>2. /\ ThreadsInv' /\ Inhabited' = Inhabited /\ a \notin Inhabited
          /\ \A b \in Inhabited : ThreadsOf(b)' = ThreadsOf(b)
      BY <1>0, <1>2, <3>1, ThreadStranded
    <3>3. /\ \A b \in Space \ {a} : /\ tablePage'[b] = tablePage[b] /\ pageList'[b] = pageList[b]
                                    /\ table'[b] = table[b] /\ heapBreak'[b] = heapBreak[b]
          /\ heapBreak' \in [Space -> 0..(Limit - 1)]
      BY <2>1, <2>2 DEF SpawnNoPage, SpawnOnePage, pageVars, breakVars
    <3>4. \A b \in Inhabited : b \in Space \ {a}
      BY <3>2 DEF Inhabited
    <3>5. TablesInv'
      BY <1>0, <3>2, <3>3, <3>4 DEF TablesInv
    <3>6. \A b \in Inhabited' \ spoilt' : Sound(b, ThreadsOf(b))'
      <4> SUFFICES ASSUME NEW b \in Inhabited' \ spoilt'  PROVE Sound(b, ThreadsOf(b))'
        OBVIOUS
      <4>1. b \in Inhabited \ spoilt /\ b \in Space \ {a} /\ Sound(b, ThreadsOf(b))
        BY <1>0, <3>1, <3>2, <3>4 DEF BreaksInv
      <4>2. ThreadsOf(b)' = ThreadsOf(b)
        BY <3>2, <4>1
      <4>3. PICK m : m = ThreadsOf(b) /\ m = ThreadsOf(b)'
        BY <4>2
      <4>4. Sound(b, m)'
        BY <3>1, <3>3, <4>1, <4>3, SoundStays
      <4> QED
        BY <4>3, <4>4 DEF Sound, HeapTop
    <3>7. BreaksInv'
      BY <1>0, <3>1, <3>3, <3>6 DEF BreaksInv
    <3> QED
      BY <3>2, <3>5, <3>7
  <2>3. ASSUME SpawnSucceeds(p, a)  PROVE Goal
    <3>1. /\ UNCHANGED asleep /\ threads' = [threads EXCEPT ![a] = @ + 1]
          /\ heapBreak' = [heapBreak EXCEPT ![a] = HeapStart * PageSize]
          /\ stackBreak' = [stackBreak EXCEPT ![a] = StackTop - 1]
          /\ stackOf' = [stackOf EXCEPT ![p] = StackTop]
          /\ spoilt' = spoilt \ {a}
          /\ Switch(current, Append(ready, p), tablePage'[a])
      BY <2>3 DEF SpawnSucceeds
    <3>2. /\ ThreadsInv' /\ Inhabited' = Inhabited \cup {a}
          /\ ThreadsOf(a)' = ThreadsOf(a) \cup {p} /\ p \notin ThreadsOf(a)
          /\ \A b \in Space \ {a} : ThreadsOf(b)' = ThreadsOf(b)
      BY <1>0, <1>2, <2>1, <3>1, ThreadJoins
    <3>3. ThreadsOf(a)' = {p} /\ a \notin Inhabited
      BY <1>0, <3>2, <2>1 DEF ThreadsInv, Inhabited
    <3>4. PICK pg \in free, stack \in free :
            /\ tablePage' = [tablePage EXCEPT ![a] = pg]
            /\ table' = [table EXCEPT ![a] = [FreshTable(pg) EXCEPT
                            ![StackTop] = [page |-> stack, rights |-> "data"]]]
            /\ pageList' = [pageList EXCEPT ![a] = @ \cup {pg, stack}]
      BY <2>3 DEF SpawnSucceeds
    <3>5. [page |-> stack, rights |-> "data"] \in Mapping
      BY <1>0 DEF Mapping, Rights, PageTypeOK
    <3>6. /\ \A b \in Space \ {a} : /\ tablePage'[b] = tablePage[b] /\ pageList'[b] = pageList[b]
                                    /\ table'[b] = table[b] /\ heapBreak'[b] = heapBreak[b]
                                    /\ stackBreak'[b] = stackBreak[b]
          /\ tablePage'[a] \in pageList'[a]
          /\ table'[a] = [FreshTable(pg) EXCEPT ![StackTop] = [page |-> stack, rights |-> "data"]]
      BY <1>0, <2>1, <3>1, <3>4 DEF BreaksInv
    <3>7. TablesInv'
      BY <1>0, <3>2, <3>6 DEF TablesInv, Inhabited
    <3>8. Sound(a, {p})'
      BY <1>0, <2>1, <3>1, <3>5, <3>6, SoundStarts
    <3>9. \A b \in Inhabited' \ spoilt' : Sound(b, ThreadsOf(b))'
      <4> SUFFICES ASSUME NEW b \in Inhabited' \ spoilt'  PROVE Sound(b, ThreadsOf(b))'
        OBVIOUS
      <4>1. CASE b = a
        BY <3>3, <3>8, <4>1 DEF Sound, HeapTop
      <4>2. CASE b # a
        <5>1. b \in Inhabited \ spoilt /\ b \in Space \ {a} /\ Sound(b, ThreadsOf(b))
          BY <1>0, <3>1, <3>2, <4>2 DEF BreaksInv, Inhabited
        <5>2. ThreadsOf(b)' = ThreadsOf(b) /\ p \notin ThreadsOf(b)
          BY <1>2, <3>2, <5>1 DEF ThreadsOf, Live
        <5>3. \A q \in ThreadsOf(b) : stackOf'[q] = stackOf[q]
          BY <1>0, <3>1, <5>2 DEF BreaksInv, ThreadsOf, Live
        <5>4. PICK m : m = ThreadsOf(b) /\ m = ThreadsOf(b)'
          BY <5>2
        <5>5. Sound(b, m)'
          BY <3>6, <5>1, <5>3, <5>4, SoundStays
        <5> QED
          BY <5>4, <5>5 DEF Sound, HeapTop
      <4> QED
        BY <4>1, <4>2
    <3>10. /\ heapBreak' \in [Space -> 0..(Limit - 1)] /\ stackBreak' \in [Space -> Entry]
           /\ stackOf' \in [Process -> Entry \cup {Null}]
      <4>1. StackTop - 1 \in Entry /\ StackTop \in Entry
        BY Sizes
      <4> QED
        BY <1>0, <2>1, <3>1, <4>1 DEF BreaksInv
    <3> QED
      BY <3>2, <3>7, <3>9, <3>10 DEF BreaksInv
  <2> QED
    BY <1>2, <2>2, <2>3
<1> QED
  BY <1>1, <1>2 DEF Spawn

\* create_thread().
LEMMA BeginThreadMoves ==
    ASSUME SpaceInv, BeginThread
    PROVE  ThreadsInv' /\ TablesInv' /\ BreaksInv'
<1> DEFINE Goal == ThreadsInv' /\ TablesInv' /\ BreaksInv'
<1>0. MemInv /\ ThreadsInv /\ TablesInv /\ BreaksInv /\ PageTypeOK
  BY DEF SpaceInv, MemInv, PagesInv
<1>1. ASSUME UNCHANGED <<asleep, threadVars, pageVars, breakVars>>, Switch(current, ready, inForce)
      PROVE  Goal
  BY <1>1, NothingMoves
<1>2. ASSUME NEW p \in freeProcs, NEW a, a = space[current],
             NEW stack, stack = NextStack(stackBreak[a]),
             current # Null,
             freeProcs' = freeProcs \ {p},
             space' = [space EXCEPT ![p] = a],
             threads' = [threads EXCEPT ![a] = @ + 1],
             stackBreak' = [stackBreak EXCEPT ![a] = stack],
             stackOf' = [stackOf EXCEPT ![p] = stack],
             UNCHANGED <<asleep, heapBreak, tablePage, freeSpaces>>,
             Add(a, stack * PageSize, PageSize, "data"),
             Switch(current, Append(ready, p), inForce)
      PROVE  Goal
  <2>1. a \in Inhabited /\ a \in Space /\ a \notin freeSpaces /\ p \in Process
    BY <1>0, <1>2, RunnersAre, Pools DEF ThreadsInv, Inhabited
  <2>2. freeSpaces' = freeSpaces \ {a}
    BY <1>2, <2>1
  <2>3. /\ ThreadsInv' /\ Inhabited' = Inhabited \cup {a}
        /\ ThreadsOf(a)' = ThreadsOf(a) \cup {p} /\ p \notin ThreadsOf(a)
        /\ \A b \in Space \ {a} : ThreadsOf(b)' = ThreadsOf(b)
    BY <1>0, <1>2, <2>1, <2>2, ThreadJoins
  <2>4. /\ \A b \in Space \ {a} : /\ table'[b] = table[b] /\ pageList'[b] = pageList[b]
                                  /\ b \in spoilt' <=> b \in spoilt
        /\ pageList[a] \subseteq pageList'[a]
        /\ a \notin spoilt' => a \notin spoilt
    BY <1>0, <1>2, <2>1, AddEffect DEF Rights
  <2>5. TablesInv'
    <3> SUFFICES ASSUME NEW b \in Inhabited'  PROVE tablePage'[b] \in pageList'[b]
      BY DEF TablesInv
    <3>1. b \in Inhabited /\ b \in Space /\ tablePage'[b] = tablePage[b]
      BY <1>2, <2>1, <2>3 DEF Inhabited
    <3> QED
      BY <1>0, <2>4, <3>1 DEF TablesInv
  <2>6. \A b \in Inhabited' \ spoilt' : Sound(b, ThreadsOf(b))'
    <3> SUFFICES ASSUME NEW b \in Inhabited' \ spoilt'  PROVE Sound(b, ThreadsOf(b))'
      OBVIOUS
    <3>0. b \in Inhabited \ spoilt /\ b \in Space /\ Sound(b, ThreadsOf(b))
      BY <1>0, <2>1, <2>3, <2>4 DEF BreaksInv, Inhabited
    <3>1. CASE b = a
      <4>1. PICK m : m = ThreadsOf(a)
        OBVIOUS
      <4>2. m \subseteq Process /\ p \in Process \ m /\ Sound(a, m) /\ a \notin spoilt'
        BY <2>1, <2>3, <3>0, <3>1, <4>1 DEF ThreadsOf, Live
      <4>3. Sound(a, m \cup {p})'
        BY <1>0, <1>2, <2>1, <4>2, SoundBegins
      <4>4. ThreadsOf(a)' = m \cup {p}
        BY <2>3, <4>1
      <4> QED
        BY <3>1, <4>3, <4>4 DEF Sound, HeapTop
    <3>2. CASE b # a
      <4>1. PICK m : m = ThreadsOf(b) /\ m = ThreadsOf(b)'
        BY <2>3, <3>0, <3>2
      <4>2. /\ heapBreak'[b] = heapBreak[b] /\ stackBreak'[b] = stackBreak[b] /\ table'[b] = table[b]
            /\ \A q \in m : stackOf'[q] = stackOf[q]
        BY <1>0, <1>2, <2>4, <3>0, <3>2, <4>1 DEF BreaksInv, ThreadsOf, Live
      <4>3. Sound(b, m)'
        BY <3>0, <4>1, <4>2, SoundStays
      <4> QED
        BY <4>1, <4>3 DEF Sound, HeapTop
    <3> QED
      BY <3>1, <3>2
  <2>7. stack \in Entry
    <3>0. /\ Entries \in Nat \ {0} /\ StackTop = Entries - 1
          /\ \A e \in Entry : e \in Nat
      BY Sizes
    <3>1. stackBreak[a] - 1 \in Int
      BY <1>0, <2>1, <3>0 DEF BreaksInv
    <3>2. \A x \in Int, d \in Nat \ {0} : x % d \in 0..(d - 1)
      OBVIOUS
    <3> QED
      BY <1>2, <3>0, <3>1, <3>2 DEF NextStack, Entry
  <2>8. BreaksInv'
    BY <1>0, <1>2, <2>1, <2>6, <2>7 DEF BreaksInv
  <2> QED
    BY <2>3, <2>5, <2>8
<1> HIDE DEF Goal
<1>3. Goal
  <2>1. CASE freeProcs = {} /\ UNCHANGED <<threadVars, pageVars, breakVars>> /\ Switch(current, ready, inForce)
    BY <1>1, <2>1 DEF BeginThread
  <2> QED
    BY <1>2, <2>1 DEF BeginThread
<1> QED
  BY <1>3 DEF Goal

\* set_heap_break() in a space that somebody may run in.
LEMMA BreakMoves ==
    ASSUME SpaceInv, NEW a \in Inhabited, NEW bytes \in Nat, NEW rights \in Rights,
           MoveBreak(a, bytes, rights), UNCHANGED <<asleep, threadVars>>,
           Switch(current, ready, inForce)
    PROVE  ThreadsInv' /\ TablesInv' /\ BreaksInv'
<1>0. MemInv /\ ThreadsInv /\ TablesInv /\ BreaksInv /\ PageTypeOK /\ a \in Space
  BY DEF SpaceInv, MemInv, PagesInv, Inhabited
<1>1. ThreadsInv'
  BY <1>0, ThreadsStay
<1>2. Inhabited' = Inhabited /\ \A b : ThreadsOf(b)' = ThreadsOf(b)
  BY DEF Inhabited, ThreadsOf, Live, threadVars
<1>3. /\ \A b \in Space \ {a} : /\ table'[b] = table[b] /\ pageList'[b] = pageList[b]
                                /\ b \in spoilt' <=> b \in spoilt
      /\ pageList[a] \subseteq pageList'[a]
      /\ a \notin spoilt' => a \notin spoilt
  BY <1>0, AddEffect DEF MoveBreak
<1>4. /\ tablePage' = tablePage /\ stackBreak' = stackBreak /\ stackOf' = stackOf
      /\ heapBreak' = [heapBreak EXCEPT ![a] = (@ + bytes) % Limit]
  BY DEF MoveBreak
<1>5. TablesInv'
  <2> SUFFICES ASSUME NEW b \in Inhabited'  PROVE tablePage'[b] \in pageList'[b]
    BY DEF TablesInv
  <2>1. b \in Inhabited /\ b \in Space
    BY <1>2 DEF Inhabited
  <2> QED
    BY <1>0, <1>3, <1>4, <2>1 DEF TablesInv
<1>6. \A b \in Inhabited' \ spoilt' : Sound(b, ThreadsOf(b))'
  <2> SUFFICES ASSUME NEW b \in Inhabited' \ spoilt'  PROVE Sound(b, ThreadsOf(b))'
    OBVIOUS
  <2>0. b \in Inhabited \ spoilt /\ b \in Space /\ Sound(b, ThreadsOf(b))
    BY <1>0, <1>2, <1>3 DEF BreaksInv, Inhabited
  <2>1. PICK m : m = ThreadsOf(b) /\ m = ThreadsOf(b)'
    BY <1>2
  <2>2. Sound(b, m)'
    <3>1. CASE b = a
      BY <1>0, <2>0, <2>1, <3>1, SoundGrows
    <3>2. CASE b # a
      <4>1. heapBreak'[b] = heapBreak[b] /\ table'[b] = table[b]
        BY <1>0, <1>3, <1>4, <2>0, <3>2 DEF BreaksInv
      <4> QED
        BY <1>4, <2>0, <2>1, <4>1, SoundStays
    <3> QED
      BY <3>1, <3>2
  <2> QED
    BY <2>1, <2>2 DEF Sound, HeapTop
<1>7. heapBreak' \in [Space -> 0..(Limit - 1)]
  <2>1. heapBreak[a] + bytes \in Nat /\ Limit \in Nat \ {0}
    <3>1. heapBreak[a] \in 0..(Limit - 1)
      BY <1>0 DEF BreaksInv
    <3>2. Limit \in Nat \ {0}
      BY Sizes
    <3>3. heapBreak[a] \in Nat
      BY <3>1, <3>2
    <3> QED
      BY <3>2, <3>3
  <2>2. (heapBreak[a] + bytes) % Limit \in 0..(Limit - 1)
    BY <2>1, Remainder
  <2> QED
    BY <1>0, <1>4, <2>2 DEF BreaksInv
<1>8. BreaksInv'
  BY <1>0, <1>4, <1>6, <1>7 DEF BreaksInv
<1> QED
  BY <1>1, <1>5, <1>8

\* terminate_current_process(), of a thread that does not belong to the system.
LEMMA ExitMoves ==
    ASSUME SpaceInv, Exit, space[Running] # System
    PROVE  ThreadsInv' /\ TablesInv' /\ BreaksInv'
<1> DEFINE Goal == ThreadsInv' /\ TablesInv' /\ BreaksInv'
<1>0. MemInv /\ ThreadsInv /\ TablesInv /\ BreaksInv /\ PageTypeOK
  BY DEF SpaceInv, MemInv, PagesInv
<1>1. ASSUME NEW p, p = current, NEW a, a = space[p]  PROVE Goal
  <2>1. a # System /\ Release(a) /\ stackOf' = [stackOf EXCEPT ![p] = Null]
    BY <1>1 DEF Exit, Running
  <2>2. /\ ThreadsInv'
        /\ a \in Inhabited /\ a \in Space
        /\ threads'[a] \in Nat
        /\ Inhabited' = IF threads'[a] > 0 THEN Inhabited ELSE Inhabited \ {a}
        /\ ThreadsOf(a)' = ThreadsOf(a) \ {p}
        /\ \A b \in Space \ {a} : ThreadsOf(b)' = ThreadsOf(b)
    BY <1>0, <1>1, <2>1, ThreadLeaves
  <2>3. ASSUME NEW b \in Inhabited'
        PROVE  /\ b \in Inhabited /\ b \in Space
               /\ tablePage'[b] = tablePage[b] /\ pageList'[b] = pageList[b] /\ table'[b] = table[b]
               /\ heapBreak'[b] = heapBreak[b] /\ stackBreak'[b] = stackBreak[b]
               /\ b \in spoilt' <=> b \in spoilt
               /\ ThreadsOf(b)' = ThreadsOf(b) \ {p}
    <3>1. b \in Inhabited /\ b \in Space
      BY <2>2, <2>3 DEF Inhabited
    <3>2. ThreadsOf(b)' = ThreadsOf(b) \ {p}
      BY <1>1, <2>2, <3>1 DEF ThreadsOf
    <3>3. CASE threads'[a] > 0
      BY <2>1, <3>1, <3>2, <3>3 DEF Release, pageVars
    <3>4. CASE ~(threads'[a] > 0)
      <4>1. b # a
        BY <2>2, <2>3, <3>4
      <4> QED
        BY <1>0, <2>1, <3>1, <3>2, <3>4, <4>1 DEF Release, PageTypeOK, BreaksInv
    <3> QED
      BY <3>3, <3>4
  <2>4. TablesInv'
    BY <1>0, <2>3 DEF TablesInv
  <2>5. \A b \in Inhabited' \ spoilt' : Sound(b, ThreadsOf(b))'
    <3> SUFFICES ASSUME NEW b \in Inhabited' \ spoilt'  PROVE Sound(b, ThreadsOf(b))'
      OBVIOUS
    <3>1. PICK old : old = ThreadsOf(b)
      OBVIOUS
    <3>2. PICK new : new = ThreadsOf(b)'
      OBVIOUS
    <3>3. new \subseteq old /\ Sound(b, old) /\ \A q \in new : stackOf'[q] = stackOf[q]
      BY <1>0, <2>1, <2>3, <3>1, <3>2 DEF BreaksInv, ThreadsOf, Live
    <3>4. Sound(b, new)'
      BY <2>3, <3>3, SoundStays
    <3> QED
      BY <3>2, <3>4 DEF Sound, HeapTop
  <2>6. /\ heapBreak' \in [Space -> 0..(Limit - 1)] /\ stackBreak' \in [Space -> Entry]
        /\ stackOf' \in [Process -> Entry \cup {Null}]
    <3>1. StackTop \in Entry /\ HeapStart * PageSize \in 0..(Limit - 1)
      BY Sizes
    <3> QED
      BY <1>0, <2>1, <3>1 DEF Release, BreaksInv
  <2> QED
    BY <2>2, <2>4, <2>5, <2>6 DEF BreaksInv
<1> HIDE DEF Goal
<1>2. Goal
  BY <1>1
<1> QED
  BY <1>2 DEF Goal

\* Boot threads and the stacks they were given.
LEMMA SpaceInitHolds == Init => SpaceInv
<1> DEFINE booted == {Idle} \cup Range(Boot)
<1> SUFFICES ASSUME Init  PROVE SpaceInv
  OBVIOUS
<1>0. MemInit /\ cluster \in BufferUnits
  BY DEF Init
<1>1. /\ freeProcs = Process \ booted
      /\ space = [p \in Process |-> IF p \in booted THEN System ELSE Null]
      /\ freeSpaces = Space \ {System}
      /\ threads = [a \in Space |-> IF a = System THEN 1 + Len(Boot) ELSE 0]
      /\ pageList = [a \in Space |-> IF a = System THEN BootPage ELSE {}]
      /\ tablePage = [a \in Space |-> IF a = System THEN TableEntry ELSE Null]
      /\ heapBreak = [a \in Space |-> HeapStart * PageSize]
      /\ stackBreak = [a \in Space |-> IF a = System THEN StackTop - 2 - Len(Boot) ELSE StackTop]
      /\ current = Null /\ ready = Boot /\ asleep = {}
      /\ inForce = TableEntry
  BY <1>0 DEF MemInit, QueueInit
<1>2. /\ Boot \in Seq(Process \ {Idle}) /\ IsInjective(Boot)
      /\ Len(Boot) \in Nat /\ System \in Space /\ Null \notin Space
      /\ Server \in Range(Boot) /\ Idle \in Process /\ Null \notin Process
  BY AddressSpaceAssumption, HeapAssumption, DispatcherAssumption
<1>3. booted \subseteq Process /\ Idle \notin Range(Boot) /\ Server \in Process
  BY <1>2 DEF Range
<1>4. Cardinality(booted) = 1 + Len(Boot)
  <2>1. Boot \in Bijection(1..Len(Boot), Range(Boot))
    BY <1>2 DEF Bijection, Injection, Surjection, Range
  <2>2. ExistsBijection(1..Len(Boot), Range(Boot))
    BY <2>1 DEF ExistsBijection
  <2>3. Cardinality(Range(Boot)) = Len(Boot) /\ IsFiniteSet(Range(Boot))
    BY <1>2, <2>2, FS_CountingElements, FS_NatBijection
  <2>4. Cardinality(Range(Boot) \cup {Idle}) = Cardinality(Range(Boot)) + 1
    BY <1>3, <2>3, FS_AddElement
  <2>5. booted = Range(Boot) \cup {Idle}
    OBVIOUS
  <2> HIDE DEF booted
  <2>6. Cardinality(booted) = Len(Boot) + 1
    BY <2>3, <2>4, <2>5
  <2> QED
    BY <1>2, <2>6
<1>5. Runner = booted
  BY <1>1 DEF Runner, Scheduled, Ready
<1> HIDE DEF booted
<1>6. ThreadsOf(System) = booted /\ \A a \in Space \ {System} : ThreadsOf(a) = {}
  BY <1>1, <1>2, <1>3 DEF ThreadsOf, Live
<1>7. Inhabited = {System}
  BY <1>1, <1>2 DEF Inhabited
<1>8. ThreadsInv
  <2>1. QueueTypeOK /\ OnePlace
    <3>1. Boot \in Seq(Process) /\ Null \notin Range(Boot) \cup {}
      BY <1>2 DEF Range
    <3> QED
      BY <1>1, <1>2, <1>3, <3>1 DEF QueueTypeOK, OnePlace, Scheduled, Ready
  <2>2. \A p \in Runner : space[p] \in Inhabited
    BY <1>1, <1>3, <1>5, <1>7
  <2>3. \A a \in freeSpaces : threads[a] = 0 /\ ThreadsOf(a) = {}
    BY <1>1, <1>6
  <2>4. \A a \in Inhabited : threads[a] = Cardinality(ThreadsOf(a))
    BY <1>1, <1>2, <1>4, <1>6, <1>7
  <2>5. Server \notin freeProcs /\ space[Server] = System
    BY <1>1, <1>2, <1>3 DEF booted
  <2>6. threads \in [Space -> Nat] /\ Runner \cap freeProcs = {}
    BY <1>1, <1>2, <1>5
  <2> QED
    BY <2>1, <2>2, <2>3, <2>4, <2>5, <2>6 DEF ThreadsInv
<1>9. TablesInv /\ inForce = tablePage[space[Running]]
  BY <1>1, <1>2, <1>3, <1>7 DEF TablesInv, BootPage, Running, booted
<1>10. Sound(System, booted)
  <2> DEFINE lowest == StackTop - 2 - Len(Boot)
  <2>0. /\ PageSize \in Nat \ {0} /\ StackTop \in Nat /\ lowest \in Nat /\ lowest > 2
        /\ HeapStart = 2 /\ \A e : e \in Entry <=> e \in Nat /\ e <= StackTop
        /\ TableEntry = 1
    BY Sizes DEF Entry, TableEntry
  <2>1. heapBreak[System] = 2 * PageSize /\ stackBreak[System] = lowest /\ HeapTop(System) = 2
    BY <1>1, <1>2, <2>0, Division DEF HeapTop
  <2>2. /\ BootStacks \subseteq Entry
        /\ \A e : e \in BootStacks <=> e \in Nat /\ lowest <= e /\ e <= StackTop
    BY <2>0 DEF BootStacks
  <2>3. /\ \A e \in BootStacks : table[System][e] = [page |-> e, rights |-> "data"]
        /\ \A e \in Entry \ (BootStacks \cup {0, 1}) : table[System][e] = Null
    BY <1>0, <1>2, <2>0, <2>2 DEF MemInit, FreshTable, Unmapped
  <2>4. \A e \in BootStacks : table[System][e] # Null /\ table[System][e].rights = "data"
    <3>1. \A e \in BootStacks : [page |-> e, rights |-> "data"] \in Mapping
                                /\ [page |-> e, rights |-> "data"].rights = "data"
      BY DEF Mapping, AnyPage, BootPage, Rights
    <3>2. Null \notin Mapping
      BY AddressSpaceAssumption
    <3> QED
      BY <2>3, <3>1, <3>2
  <2>5. \A e \in Entry : table[System][e] # Null /\ e > 2 => e >= lowest /\ table[System][e].rights = "data"
    BY <2>0, <2>2, <2>3, <2>4
  <2>6. \A e \in HeapStart..((2 * PageSize - 1) \div PageSize) : table[System][e] # Null
    <3>1. 2 * PageSize - 1 \in Nat /\ 2 * PageSize - 1 < PageSize * 2
      BY <2>0
    <3>2. (2 * PageSize - 1) \div PageSize < 2 /\ (2 * PageSize - 1) \div PageSize \in Nat
      BY <2>0, <3>1, Division
    <3> QED
      BY <2>0, <3>2
  <2>7. /\ stackOf[Idle] = StackTop - 2
        /\ \A p \in Range(Boot) : \E i \in 1..Len(Boot) : p = Boot[i] /\ stackOf[p] = StackTop - 2 - i
    <3>1. stackOf[Idle] = StackTop - 2
      BY <1>0, <1>2 DEF MemInit
    <3>2. ASSUME NEW p \in Range(Boot)
          PROVE  \E i \in 1..Len(Boot) : p = Boot[i] /\ stackOf[p] = StackTop - 2 - i
      <4> DEFINE i == CHOOSE j \in 1..Len(Boot) : Boot[j] = p
      <4>1. \E j \in 1..Len(Boot) : Boot[j] = p
        BY <1>2, <3>2 DEF Range
      <4>2. i \in 1..Len(Boot) /\ Boot[i] = p
        BY <4>1
      <4>3. p # Idle /\ p \in Process
        BY <1>3, <3>2 DEF booted
      <4>4. stackOf[p] = StackTop - 2 - i
        BY <1>0, <3>2, <4>3 DEF MemInit
      <4> QED
        BY <4>2, <4>4
    <3> QED
      BY <3>1, <3>2
  <2>8. \A p \in booted : /\ stackOf[p] \in lowest..StackTop /\ stackOf[p] \in BootStacks
    BY <1>2, <2>0, <2>2, <2>7 DEF booted
  <2>9. \A p, q \in booted : q # p => stackOf[q] # stackOf[p]
    <3>1. \A p, q \in Range(Boot) : q # p => stackOf[q] # stackOf[p]
      BY <1>2, <2>0, <2>7
    <3>2. \A p \in Range(Boot) : stackOf[p] # stackOf[Idle]
      BY <1>2, <2>0, <2>7
    <3> QED
      BY <3>1, <3>2 DEF booted
  <2>10. 2 < lowest /\ HeapStart * PageSize <= 2 * PageSize
    BY <2>0
  <2> HIDE DEF lowest
  <2> QED
    BY <2>1, <2>4, <2>5, <2>6, <2>8, <2>9, <2>10 DEF Sound
<1>11. BreaksInv
  <2>1. /\ HeapStart * PageSize \in 0..(Limit - 1) /\ StackTop \in Entry
        /\ StackTop - 2 - Len(Boot) \in Entry
    BY Sizes
  <2>2. stackOf \in [Process -> Entry \cup {Null}]
    <3>1. stackOf = [p \in Process |->
                       IF p = Idle THEN StackTop - 2
                       ELSE IF p \in Range(Boot)
                            THEN StackTop - 2 - (CHOOSE i \in 1..Len(Boot) : Boot[i] = p)
                            ELSE Null]
      BY <1>0 DEF MemInit
    <3>2. \A p \in Range(Boot) : (CHOOSE i \in 1..Len(Boot) : Boot[i] = p) \in 1..Len(Boot)
      BY <1>2 DEF Range
    <3>3. /\ StackTop - 2 \in Entry
          /\ \A i \in 1..Len(Boot) : StackTop - 2 - i \in Entry
      <4>1. StackTop \in Nat /\ Len(Boot) \in Nat /\ StackTop - 2 - Len(Boot) > 2
        BY Sizes
      <4> QED
        BY <4>1 DEF Entry
    <3> QED
      BY <3>1, <3>2, <3>3
  <2>3. \A a \in Inhabited \ spoilt : Sound(a, ThreadsOf(a))
    BY <1>6, <1>7, <1>10
  <2> QED
    BY <1>1, <2>1, <2>2, <2>3 DEF BreaksInv
<1> QED
  BY <1>0, <1>8, <1>9, <1>11, MemInitHolds DEF SpaceInv

\* What malloc() is asked for, and asks for.
LEMMA MallocSizes == FileUnits \in Nat /\ NALLOC \in Nat
<1>1. PageSize * Entries \in Nat
  BY AddressSpaceAssumption
<1> QED
  BY <1>1, HeapAssumption

\* Every step keeps the invariant.
LEMMA SpaceStep ==
    ASSUME SpaceInv, [Next]_<<memVars, heapVars>>
    PROVE  SpaceInv'
<1> DEFINE Goal == ThreadsInv' /\ TablesInv' /\ BreaksInv' /\ inForce' = tablePage'[space'[Running']]
<1>0. SpaceInv /\ MemInv'
  BY MemStep DEF SpaceInv
<1>1. cluster' \in BufferUnits
  BY <1>0 DEF Next, OpenFile, OpenFails, OpenSucceeds, Others, heapVars, SpaceInv
<1>2. ASSUME UNCHANGED memVars  PROVE Goal
  <2>1. UNCHANGED <<current, ready, asleep, freeProcs, space, freeSpaces, threads, tablePage,
                    pageList, table, heapBreak, stackBreak, stackOf, spoilt, inForce>>
    BY <1>2 DEF memVars, queueVars, threadVars, pageVars, breakVars
  <2>2. Inhabited' = Inhabited /\ Running' = Running /\ Runner' = Runner /\ \A a : ThreadsOf(a)' = ThreadsOf(a)
    BY <2>1 DEF Inhabited, Running, Runner, Scheduled, Ready, ThreadsOf, Live
  <2>3. ThreadsInv'
    BY <1>0, <2>1, <2>2 DEF ThreadsInv, SpaceInv, QueueTypeOK, OnePlace, Scheduled, Ready
  <2>4. TablesInv' /\ inForce' = tablePage'[space'[Running']]
    BY <1>0, <2>1, <2>2 DEF TablesInv, SpaceInv
  <2>5. BreaksInv'
    <3>1. \A a \in Inhabited' \ spoilt' : Sound(a, ThreadsOf(a))'
      BY <1>0, <2>1, <2>2 DEF BreaksInv, SpaceInv, Sound, HeapTop
    <3> QED
      BY <1>0, <2>1, <3>1 DEF BreaksInv, SpaceInv
  <2> QED
    BY <2>3, <2>4, <2>5
<1>3. ASSUME NEW units \in Nat, NEW forFile, Malloc(units, forFile), current = Server  PROVE Goal
  <2>1. CASE MallocHere(units, forFile)
    BY <1>2, <2>1 DEF MallocHere
  <2>2. CASE MallocMore(units, forFile)
    <3> DEFINE more == Max({units, NALLOC})
    <3>1. /\ MoveBreak(System, more, "data") /\ UNCHANGED <<asleep, threadVars>>
          /\ Switch(current, ready, inForce)
      BY <2>2 DEF MallocMore
    <3>2. more \in Nat
      BY MallocSizes, MaxOfTwo
    <3>3. System \in Inhabited /\ "data" \in Rights
      <4>1. Idle \in Runner /\ current \in Runner
        BY <1>0, <1>3, RunnersAre, HeapAssumption, AddressSpaceAssumption, DispatcherAssumption
        DEF Runner, SpaceInv, ThreadsInv, Range
      <4> QED
        BY <1>0, <1>3, <4>1 DEF SpaceInv, ThreadsInv, Rights
    <3> QED
      BY <1>0, <3>1, <3>2, <3>3, BreakMoves, SwitchInForce
  <2> QED
    BY <1>3, <2>1, <2>2 DEF Malloc
<1>4. ASSUME OpenFile  PROVE Goal
  <2>1. FileUnits \in Nat
    BY MallocSizes
  <2> QED
    BY <1>3, <1>4, <2>1 DEF OpenFile, ServerRuns
<1>5. ASSUME OpenFails  PROVE Goal
  BY <1>2, <1>5 DEF OpenFails
<1>6. ASSUME OpenSucceeds  PROVE Goal
  <2>1. cluster \in Nat
    BY <1>0, HeapAssumption DEF SpaceInv
  <2> QED
    BY <1>3, <1>6, <2>1 DEF OpenSucceeds, ServerRuns
<1>7. ASSUME Others  PROVE Goal
  <2>1. ASSUME Tick  PROVE Goal
    BY <1>0, <2>1, NothingMoves, SwitchInForce DEF Tick
  <2>2. ASSUME Spawn  PROVE Goal
    <3>1. \E queue, left : Switch(current, queue, left)
      BY <2>2 DEF Spawn, SpawnFails, SpawnNoPage, SpawnOnePage, SpawnSucceeds
    <3> QED
      BY <1>0, <2>2, <3>1, SpawnMoves, SwitchInForce
  <2>3. ASSUME BeginThread  PROVE Goal
    <3>1. \E queue, left : Switch(current, queue, left)
      BY <2>3 DEF BeginThread
    <3> QED
      BY <1>0, <2>3, <3>1, BeginThreadMoves, SwitchInForce
  <2>4. ASSUME space[Running] # System, Exit  PROVE Goal
    <3>1. \E left : Switch(Null, ready, left)
      BY <2>4 DEF Exit
    <3> QED
      BY <1>0, <2>4, <3>1, ExitMoves, SwitchInForce
  <2>5. ASSUME NEW bytes \in Grow, NEW rights \in Asked, SetHeapBreak(bytes, rights)  PROVE Goal
    <3>1. space[current] \in Inhabited
      BY <1>0, <2>5, RunnersAre DEF SetHeapBreak, SpaceInv, ThreadsInv
    <3>2. bytes \in Nat /\ rights \in Rights
      <4>1. Grow \subseteq 0..(Limit - 1) /\ Asked \subseteq Rights
        BY AddressSpaceAssumption
      <4>2. Limit \in Nat
        BY Sizes
      <4> QED
        BY <4>1, <4>2
    <3> QED
      BY <1>0, <2>5, <3>1, <3>2, BreakMoves, SwitchInForce DEF SetHeapBreak
  <2> QED
    BY <1>7, <2>1, <2>2, <2>3, <2>4, <2>5 DEF Others
<1>8. ASSUME UNCHANGED <<memVars, heapVars>>  PROVE Goal
  BY <1>2, <1>8
<1> HIDE DEF Goal
<1>9. Goal
  BY <1>4, <1>5, <1>6, <1>7, <1>8 DEF Next
<1> QED
  BY <1>0, <1>1, <1>9 DEF SpaceInv, Goal

\* The invariant of every behaviour.
THEOREM SpaceInvariant == Spec => []SpaceInv
<1>1. SpaceInv /\ [Next]_<<memVars, heapVars>> => SpaceInv'
  BY SpaceStep
<1> QED
  BY <1>1, SpaceInitHolds, PTL DEF Spec

\* Whoever runs does so in its own table, which lies in a page its space owns,
\* whatever the kernel entry created, freed or left in force on the way.
THEOREM RunnerInItsSpace == Spec => []RunsInItsSpace
<1>1. SpaceInv => RunsInItsSpace
  BY RunnersAre DEF SpaceInv, ThreadsInv, TablesInv, RunsInItsSpace
<1> QED
  BY <1>1, SpaceInvariant, PTL

\* In a space that got what add() was asked for, every thread has a stack of its
\* own, above the heap, and every page of the heap is mapped.
THEOREM UnspoiltMemoryUsable == Spec => []MemoryUsable
<1>1. SpaceInv => StacksUsable
  <2> SUFFICES ASSUME SpaceInv, NEW p \in Live, NEW a, a = space[p], a \in Inhabited \ spoilt
               PROVE  /\ table[a][stackOf[p]] # Null
                      /\ table[a][stackOf[p]].rights = "data"
                      /\ stackOf[p] > heapBreak[a] \div PageSize
                      /\ \A q \in Live \ {p} : space[q] = a => stackOf[q] # stackOf[p]
    BY DEF StacksUsable
  <2>1. Sound(a, ThreadsOf(a)) /\ a \in Space /\ p \in ThreadsOf(a)
    BY DEF SpaceInv, BreaksInv, Inhabited, ThreadsOf
  <2>2. /\ stackOf[p] \in stackBreak[a]..StackTop /\ table[a][stackOf[p]] # Null
        /\ \A q \in ThreadsOf(a) : q # p => stackOf[q] # stackOf[p]
        /\ HeapTop(a) < stackBreak[a]
    BY <2>1 DEF Sound
  <2>3. /\ stackBreak[a] \in Nat /\ StackTop \in Nat /\ HeapTop(a) \in Nat
        /\ stackOf[p] \in Entry
    <3>0. PageSize \in Nat \ {0} /\ Limit \in Nat /\ StackTop \in Nat
      BY Sizes
    <3>1. heapBreak[a] \in Nat /\ PageSize \in Nat \ {0} /\ stackBreak[a] \in Nat /\ StackTop \in Nat
      BY <2>1, <3>0 DEF SpaceInv, BreaksInv, Entry
    <3>2. stackOf[p] \in Entry
      BY <2>2, <3>1 DEF Entry
    <3> QED
      BY <3>1, <3>2, Division DEF HeapTop
  <2>4. stackOf[p] > HeapTop(a)
    BY <2>2, <2>3
  <2>5. table[a][stackOf[p]].rights = "data"
    BY <2>1, <2>2, <2>3, <2>4 DEF Sound
  <2>6. \A q \in Live \ {p} : space[q] = a => stackOf[q] # stackOf[p]
    BY <2>2 DEF ThreadsOf
  <2> QED
    BY <2>2, <2>4, <2>5, <2>6 DEF HeapTop
<1>2. SpaceInv => HeapUsable
  BY DEF SpaceInv, BreaksInv, HeapUsable, Sound
<1> QED
  BY <1>1, <1>2, SpaceInvariant, PTL DEF MemoryUsable

-----------------------------------------------------------------------------
(* The counts of Processes.tla *)

\* There are finitely many pages.
LEMMA PagesFinite ==
    ASSUME PageTypeOK
    PROVE  /\ IsFiniteSet(free) /\ Cardinality(free) \in Nat
           /\ \A a \in Space : IsFiniteSet(pageList[a]) /\ Cardinality(pageList[a]) \in Nat
<1>1. IsFiniteSet(AnyPage)
  <2>1. IsFiniteSet(BootStacks)
    <3>1. StackTop \in Int /\ StackTop - 2 - Len(Boot) \in Int
      BY Sizes
    <3> QED
      BY <3>1, FS_Interval DEF BootStacks
  <2>2. IsFiniteSet(BootPage)
    BY <2>1, FS_Singleton, FS_Union DEF BootPage
  <2> QED
    BY <2>2, FS_Union, AddressSpaceAssumption DEF AnyPage
<1>2. \A s \in SUBSET AnyPage : IsFiniteSet(s) /\ Cardinality(s) \in Nat
  BY <1>1, FS_Subset, FS_CardinalityType
<1> QED
  BY <1>2 DEF PageTypeOK

\* The two modules switch alike.
LEMMA SwitchCounted ==
    /\ \A p, queue : ContextSwitch(p, queue) => Counts!ContextSwitch(p, queue)
    /\ \A p, queue, left : Switch(p, queue, left) => Counts!ContextSwitch(p, queue)
<1>1. \A p, queue : ContextSwitch(p, queue) => Counts!ContextSwitch(p, queue)
  BY DEF ContextSwitch, Counts!ContextSwitch, Requeue, Counts!Requeue
<1> QED
  BY <1>1 DEF Switch

\* Pages that go from the free list to a space are taken as Processes says.
LEMMA TakeCounted ==
    ASSUME PageTypeOK, NEW a \in Space, pageList[a] \cap free = {},
           NEW taken, taken \subseteq free,
           free' = free \ taken,
           pageList' = [pageList EXCEPT ![a] = @ \cup taken]
    PROVE  /\ Counts!Take(a, Cardinality(taken))
           /\ Cardinality(taken) \in 0..Cardinality(free)
<1>1. /\ IsFiniteSet(free) /\ Cardinality(free) \in Nat
      /\ IsFiniteSet(pageList[a]) /\ Cardinality(pageList[a]) \in Nat
      /\ pageList \in [Space -> SUBSET AnyPage]
  BY PagesFinite DEF PageTypeOK
<1>2. IsFiniteSet(taken) /\ Cardinality(taken) \in Nat /\ Cardinality(taken) <= Cardinality(free)
  BY <1>1, FS_Subset, FS_CardinalityType
<1>3. Cardinality(free \ taken) = Cardinality(free) - Cardinality(taken)
  <2>1. free \cap taken = taken
    OBVIOUS
  <2>2. Cardinality(free \cap taken) = Cardinality(taken)
    BY <2>1, Zenon
  <2>3. Cardinality(free \ taken) = Cardinality(free) - Cardinality(free \cap taken)
    BY <1>1, FS_Difference
  <2> QED
    BY <1>1, <1>2, <2>2, <2>3
<1>4. Cardinality(pageList[a] \cup taken) = Cardinality(pageList[a]) + Cardinality(taken)
  <2>1. pageList[a] \cap taken = {}
    OBVIOUS
  <2>2. Cardinality(pageList[a] \cap taken) = 0
    BY <2>1, FS_EmptySet, Zenon
  <2>3. Cardinality(pageList[a] \cup taken)
          = Cardinality(pageList[a]) + Cardinality(taken) - Cardinality(pageList[a] \cap taken)
    BY <1>1, <1>2, FS_Union
  <2> QED
    BY <1>1, <1>2, <2>2, <2>3
<1>5. [b \in Space |-> Cardinality(pageList'[b])]
        = [[b \in Space |-> Cardinality(pageList[b])] EXCEPT ![a] = @ + Cardinality(taken)]
  <2>1. /\ pageList'[a] = pageList[a] \cup taken
        /\ \A b \in Space \ {a} : pageList'[b] = pageList[b]
    BY <1>1
  <2>2. Cardinality(pageList'[a]) = Cardinality(pageList[a]) + Cardinality(taken)
    BY <1>4, <2>1, Zenon
  <2>3. \A b \in Space \ {a} : Cardinality(pageList'[b]) = Cardinality(pageList[b])
    BY <2>1, Zenon
  <2> QED
    BY <2>2, <2>3
<1>6. Cardinality(free') = Cardinality(free) - Cardinality(taken)
  BY <1>3, Zenon
<1> QED
  BY <1>1, <1>2, <1>5, <1>6 DEF Counts!Take

\* add() takes no more pages than there are entries, nor than there are free.
LEMMA AddCounted ==
    ASSUME PageTypeOK, NEW a \in Space, pageList[a] \cap free = {},
           NEW address, NEW size, NEW rights, Add(a, address, size, rights)
    PROVE  \E n \in 0..Cardinality(free) :
              /\ Counts!AddPages(a, n)
              /\ IsFiniteSet(Extent(address, size)) => n <= Cardinality(Extent(address, size))
<1> DEFINE entries == Supplied(Missing(a, Extent(address, size)))
<1>1. PICK give \in Injection(entries, free) :
        /\ free' = free \ Range(give)
        /\ pageList' = [pageList EXCEPT ![a] = @ \cup Range(give)]
  BY DEF Add, Map
<1>2. entries \subseteq Extent(address, size)
  BY DEF Supplied, Missing
<1> HIDE DEF entries
<1>3. give \in [entries -> free] /\ Range(give) \subseteq free /\ give \in Surjection(entries, Range(give))
  BY DEF Injection, Surjection, Range
<1>4. PICK n : n = Cardinality(Range(give))
  OBVIOUS
<1>5. Counts!Take(a, n) /\ n \in 0..Cardinality(free)
  BY <1>1, <1>3, <1>4, TakeCounted
<1>6. Counts!AddPages(a, n)
  <2>1. (IF n <= Cardinality(free) THEN n ELSE Cardinality(free)) = n
    BY <1>5, PagesFinite
  <2> QED
    BY <1>5, <2>1 DEF Counts!AddPages
<1>7. ASSUME IsFiniteSet(Extent(address, size))  PROVE n <= Cardinality(Extent(address, size))
  <2>1. /\ IsFiniteSet(entries) /\ Cardinality(entries) <= Cardinality(Extent(address, size))
        /\ Cardinality(Extent(address, size)) \in Nat
    BY <1>2, <1>7, FS_Subset, FS_CardinalityType
  <2>2. Cardinality(Range(give)) <= Cardinality(entries)
    BY <1>3, <2>1, FS_Surjection
  <2>3. Cardinality(entries) \in Nat /\ n \in Nat
    BY <1>5, <2>1, FS_CardinalityType, PagesFinite
  <2> QED
    BY <1>4, <2>1, <2>2, <2>3
<1> QED
  BY <1>5, <1>6, <1>7

\* A new stack takes two pages at most: its own, and the one above it.
LEMMA StackExtent ==
    ASSUME NEW stack \in Entry
    PROVE  /\ IsFiniteSet(Extent(stack * PageSize, PageSize))
           /\ Cardinality(Extent(stack * PageSize, PageSize)) <= 2
<1>0. /\ PageSize \in Nat \ {0} /\ Limit \in Nat \ {0} /\ StackTop \in Nat
      /\ StackTop = Entries - 1 /\ Entries \in Nat \ {0} /\ Limit = PageSize * Entries
      /\ \A e : e \in Entry <=> e \in Nat /\ e <= StackTop
  BY Sizes DEF Entry, Limit
<1>1. stack \in Nat /\ stack <= StackTop /\ stack + 1 \in Nat
  BY <1>0
<1>2. /\ stack * PageSize \in Nat
      /\ stack * PageSize + PageSize = (stack + 1) * PageSize
      /\ (stack + 1) * PageSize \in Nat
      /\ (stack * PageSize) \div PageSize = stack
      /\ ((stack + 1) * PageSize) \div PageSize = stack + 1
  <2>1. /\ stack * PageSize \in Nat /\ (stack + 1) * PageSize \in Nat
        /\ stack * PageSize + PageSize = (stack + 1) * PageSize
    BY <1>0, <1>1
  <2> QED
    BY <1>0, <1>1, <2>1, Division
<1>3. Extent(stack * PageSize, PageSize) \subseteq {stack, stack + 1}
  <2>1. CASE stack = StackTop
    <3>1. (stack + 1) * PageSize = Limit
      BY <1>0, <1>1, <2>1
    <3>2. Limit % Limit = 0 /\ 0 \div PageSize = 0
      BY <1>0
    <3>3. \A e \in Extent(stack * PageSize, PageSize) : stack <= e /\ e <= 0 /\ e \in Entry
      BY <1>2, <3>1, <3>2 DEF Extent
    <3> QED
      BY <1>0, <1>1, <3>3
  <2>2. CASE stack # StackTop
    <3>1. stack + 1 < Entries
      BY <1>0, <1>1, <2>2
    <3>2. (stack + 1) * PageSize < Limit
      BY <1>0, <1>1, <3>1
    <3>3. ((stack + 1) * PageSize) % Limit = (stack + 1) * PageSize
      BY <1>0, <1>2, <3>2, Remainder
    <3>4. \A e \in Extent(stack * PageSize, PageSize) : stack <= e /\ e <= stack + 1 /\ e \in Entry
      BY <1>2, <3>3 DEF Extent
    <3> QED
      BY <1>0, <1>1, <3>4
  <2> QED
    BY <2>1, <2>2
<1>4. IsFiniteSet({stack, stack + 1}) /\ Cardinality({stack, stack + 1}) <= 2
  <2>1. IsFiniteSet({stack}) /\ Cardinality({stack}) = 1
    BY FS_Singleton
  <2>2. {stack, stack + 1} = {stack} \cup {stack + 1}
    OBVIOUS
  <2> QED
    BY <2>1, <2>2, FS_AddElement
<1> QED
  <2>1. /\ Cardinality({stack, stack + 1}) \in Nat
        /\ IsFiniteSet(Extent(stack * PageSize, PageSize))
        /\ Cardinality(Extent(stack * PageSize, PageSize)) <= Cardinality({stack, stack + 1})
    BY <1>3, <1>4, FS_Subset, FS_CardinalityType
  <2>2. Cardinality(Extent(stack * PageSize, PageSize)) \in Nat
    BY <2>1, FS_CardinalityType
  <2> QED
    BY <1>4, <2>1, <2>2

\* Nothing is taken when neither list changes.
LEMMA NothingTaken ==
    ASSUME UNCHANGED <<free, pageList>>
    PROVE  /\ Cardinality(free') = Cardinality(free)
           /\ [b \in Space |-> Cardinality(pageList'[b])] = [b \in Space |-> Cardinality(pageList[b])]
<1>1. Cardinality(free') = Cardinality(free)
  BY Zenon
<1>2. \A b \in Space : Cardinality(pageList'[b]) = Cardinality(pageList[b])
  BY Zenon
<1> QED
  BY <1>1, <1>2

\* create_process() takes two pages, or those there are.
LEMMA SpawnCounted ==
    ASSUME MemInv, Spawn
    PROVE  Counts!Spawn
<1>0. /\ PageTypeOK /\ freeSpaces \subseteq Space
      /\ \A b \in Space : pageList[b] \cap free = {}
      /\ IsFiniteSet(free) /\ Cardinality(free) \in Nat
  BY PagesFinite DEF MemInv, PagesInv, Housed, PageInOnePlace
<1>1. CASE SpawnFails
  <2>1. UNCHANGED <<asleep, freeProcs, space, freeSpaces, threads, free, pageList>>
    BY <1>1 DEF SpawnFails, threadVars, pageVars
  <2>2. Counts!SpawnFails
    BY <1>1, <2>1, NothingTaken, SwitchCounted DEF SpawnFails, Counts!SpawnFails, Counts!procVars
  <2> QED
    BY <2>2 DEF Spawn, Counts!Spawn
<1>2. ASSUME NEW p \in freeProcs, NEW a \in freeSpaces,
             freeProcs' = freeProcs \ {p}, freeSpaces' = freeSpaces \ {a},
             space' = [space EXCEPT ![p] = a],
             SpawnNoPage \/ SpawnOnePage(a) \/ SpawnSucceeds(p, a)
      PROVE  Counts!SpawnOutOfPages(a) \/ Counts!SpawnSucceeds(p, a)
  <2>0. a \in Space /\ pageList[a] \cap free = {}
    BY <1>0
  <2>1. CASE SpawnNoPage
    <3>1. Cardinality(free) = 0
      BY <2>1, FS_EmptySet, Zenon DEF SpawnNoPage
    <3>2. free' = free \ {} /\ pageList' = [pageList EXCEPT ![a] = @ \cup {}]
      BY <1>0, <2>0, <2>1 DEF SpawnNoPage, pageVars, PageTypeOK
    <3>3. Counts!Take(a, Cardinality({}))
      BY <1>0, <2>0, <3>2, TakeCounted
    <3>4. Counts!Take(a, Cardinality(free))
      BY <2>1, <3>3 DEF SpawnNoPage
    <3> QED
      BY <2>1, <3>1, <3>4, SwitchCounted DEF SpawnNoPage, Counts!SpawnOutOfPages
  <2>2. CASE SpawnOnePage(a)
    <3>1. Cardinality(free) = 1 /\ UNCHANGED <<asleep, threads>>
      BY <2>2 DEF SpawnOnePage
    <3>2. free' = free \ free /\ pageList' = [pageList EXCEPT ![a] = @ \cup free]
      BY <2>2 DEF SpawnOnePage
    <3>3. Counts!Take(a, Cardinality(free))
      BY <1>0, <2>0, <3>2, TakeCounted
    <3> QED
      BY <2>2, <3>1, <3>3, SwitchCounted DEF SpawnOnePage, Counts!SpawnOutOfPages
  <2>3. CASE SpawnSucceeds(p, a)
    <3>0. PICK pg \in free : \E stack \in free \ {pg} :
             /\ free' = free \ {pg, stack}
             /\ pageList' = [pageList EXCEPT ![a] = @ \cup {pg, stack}]
      BY <2>3 DEF SpawnSucceeds
    <3>1. PICK stack \in free \ {pg} :
             /\ free' = free \ {pg, stack}
             /\ pageList' = [pageList EXCEPT ![a] = @ \cup {pg, stack}]
      BY <3>0
    <3>2. Counts!Take(a, Cardinality({pg, stack})) /\ Cardinality({pg, stack}) \in 0..Cardinality(free)
      <4>1. {pg, stack} \subseteq free
        OBVIOUS
      <4> QED
        BY <1>0, <2>0, <3>1, <4>1, TakeCounted
    <3>3. Cardinality({pg, stack}) = 2
      <4>1. IsFiniteSet({pg}) /\ Cardinality({pg}) = 1 /\ stack \notin {pg}
        BY FS_Singleton
      <4>2. Cardinality({pg} \cup {stack}) = 2
        <5>1. Cardinality({pg} \cup {stack}) =
                 IF stack \in {pg} THEN Cardinality({pg}) ELSE Cardinality({pg}) + 1
          BY <4>1, FS_AddElement, Zenon
        <5> QED
          BY <4>1, <5>1
      <4>3. {pg, stack} = {pg} \cup {stack}
        OBVIOUS
      <4> QED
        BY <4>2, <4>3, Zenon
    <3>4. Counts!Take(a, 2)
      BY <3>2, <3>3, Zenon
    <3>5. Cardinality(free) >= 2
      BY <1>0, <3>2, <3>3
    <3> QED
      BY <2>3, <3>4, <3>5, SwitchCounted DEF SpawnSucceeds, Counts!SpawnSucceeds
  <2> QED
    BY <1>2, <2>1, <2>2, <2>3
<1>3. CASE ~SpawnFails
  BY <1>2, <1>3 DEF Spawn, Counts!Spawn
<1> QED
  BY <1>1, <1>3

\* create_thread() takes two at most.
LEMMA BeginThreadCounted ==
    ASSUME SpaceInv, BeginThread
    PROVE  Counts!BeginThread
<1>0. /\ PageTypeOK /\ BreaksInv
      /\ \A b \in Space : pageList[b] \cap free = {}
      /\ current # Null
  BY DEF SpaceInv, MemInv, PagesInv, PageInOnePlace, BeginThread
<1>1. ASSUME freeProcs = {}, UNCHANGED <<threadVars, pageVars, breakVars>>,
             Switch(current, ready, inForce), UNCHANGED asleep
      PROVE  Counts!BeginThread
  <2>1. UNCHANGED <<freeProcs, space, freeSpaces, threads, free, pageList>>
    BY <1>1 DEF threadVars, pageVars
  <2> QED
    BY <1>0, <1>1, <2>1, NothingTaken, SwitchCounted DEF Counts!BeginThread, Counts!procVars
<1>2. ASSUME NEW p \in freeProcs, NEW a, a = space[current],
             NEW stack, stack = NextStack(stackBreak[a]),
             freeProcs' = freeProcs \ {p},
             space' = [space EXCEPT ![p] = a],
             threads' = [threads EXCEPT ![a] = @ + 1],
             UNCHANGED <<asleep, freeSpaces>>,
             Add(a, stack * PageSize, PageSize, "data"),
             Switch(current, Append(ready, p), inForce)
      PROVE  Counts!BeginThread
  <2>1. a \in Space
    BY <1>0, <1>2, RunnersAre DEF SpaceInv, ThreadsInv, Inhabited
  <2>2. stack \in Entry
    <3>0. /\ Entries \in Nat \ {0} /\ StackTop = Entries - 1
          /\ \A e \in Entry : e \in Nat
      BY Sizes
    <3>1. stackBreak[a] - 1 \in Int
      BY <1>0, <2>1, <3>0 DEF BreaksInv
    <3>2. \A x \in Int, d \in Nat \ {0} : x % d \in 0..(d - 1)
      OBVIOUS
    <3> QED
      BY <1>2, <3>0, <3>1, <3>2 DEF NextStack, Entry
  <2>3. PICK n \in 0..Cardinality(free) :
           /\ Counts!AddPages(a, n)
           /\ IsFiniteSet(Extent(stack * PageSize, PageSize)) =>
                 n <= Cardinality(Extent(stack * PageSize, PageSize))
    BY <1>0, <1>2, <2>1, AddCounted
  <2>4. n \in 0..2
    <3>1. PICK most : most = Cardinality(Extent(stack * PageSize, PageSize))
      OBVIOUS
    <3>2. most \in Nat /\ most <= 2 /\ n <= most /\ n \in Nat
      BY <1>0, <2>2, <2>3, <3>1, StackExtent, FS_CardinalityType, PagesFinite
    <3> QED
      BY <3>2
  <2> QED
    BY <1>0, <1>2, <2>3, <2>4, SwitchCounted DEF Counts!BeginThread
<1> QED
  BY <1>1, <1>2 DEF BeginThread

\* set_heap_break() takes as many as there are unmapped pages up to the new
\* break, or those there are.
LEMMA BreakCounted ==
    ASSUME MemInv, current # Null, space[current] \in Space,
           NEW bytes, NEW rights, MoveBreak(space[current], bytes, rights),
           UNCHANGED <<asleep, threadVars>>, Switch(current, ready, inForce)
    PROVE  Counts!SetHeapBreak
<1>1. /\ PageTypeOK /\ pageList[space[current]] \cap free = {}
      /\ Add(space[current], heapBreak[space[current]], bytes, rights)
  BY DEF MemInv, PagesInv, PageInOnePlace, MoveBreak
<1>2. \E n \in 0..Cardinality(free) : Counts!AddPages(space[current], n)
  BY <1>1, AddCounted
<1> QED
  BY <1>2, SwitchCounted DEF Counts!SetHeapBreak, threadVars

\* terminate_current_process() gives back all that the space holds, or nothing.
LEMMA ExitCounted ==
    ASSUME MemInv, Exit, space[current] \in Space
    PROVE  Counts!Exit
<1>1. ASSUME NEW a \in Space, a = space[current]  PROVE Counts!Release(a)
  <2>0. /\ PageTypeOK /\ pageList[a] \cap free = {}
        /\ threads' = [threads EXCEPT ![a] = @ - 1]
    BY <1>1 DEF MemInv, PagesInv, PageInOnePlace, Exit, Release
  <2>1. CASE threads'[a] > 0
    <3>1. UNCHANGED <<free, pageList, freeSpaces>>
      BY <1>1, <2>1 DEF Exit, Release, pageVars
    <3> QED
      BY <2>0, <2>1, <3>1, NothingTaken DEF Counts!Release
  <2>2. CASE ~(threads'[a] > 0)
    <3>1. /\ free' = free \cup pageList[a]
          /\ pageList' = [pageList EXCEPT ![a] = {}]
          /\ freeSpaces' = freeSpaces \cup {a}
      BY <1>1, <2>2 DEF Exit, Release
    <3>2. Cardinality(free') = Cardinality(free) + Cardinality(pageList[a])
      <4>1. /\ IsFiniteSet(free) /\ Cardinality(free) \in Nat
            /\ IsFiniteSet(pageList[a]) /\ Cardinality(pageList[a]) \in Nat
        BY <2>0, PagesFinite
      <4>2. Cardinality(free \cap pageList[a]) = 0
        <5>1. free \cap pageList[a] = {}
          BY <2>0
        <5> QED
          BY <5>1, FS_EmptySet, Zenon
      <4>3. Cardinality(free \cup pageList[a])
              = Cardinality(free) + Cardinality(pageList[a]) - Cardinality(free \cap pageList[a])
        BY <4>1, FS_Union
      <4>4. Cardinality(free \cup pageList[a]) = Cardinality(free) + Cardinality(pageList[a])
        BY <4>1, <4>2, <4>3
      <4> QED
        BY <3>1, <4>4, Zenon
    <3>3. [b \in Space |-> Cardinality(pageList'[b])]
            = [[b \in Space |-> Cardinality(pageList[b])] EXCEPT ![a] = 0]
      <4>1. pageList'[a] = {} /\ \A b \in Space \ {a} : pageList'[b] = pageList[b]
        BY <2>0, <3>1 DEF PageTypeOK
      <4>2. Cardinality(pageList'[a]) = 0
        BY <4>1, FS_EmptySet, Zenon
      <4>3. \A b \in Space \ {a} : Cardinality(pageList'[b]) = Cardinality(pageList[b])
        BY <4>1, Zenon
      <4> QED
        BY <4>2, <4>3
    <3> QED
      BY <2>0, <2>2, <3>1, <3>2, <3>3 DEF Counts!Release
  <2> QED
    BY <2>1, <2>2
<1> QED
  BY <1>1, SwitchCounted DEF Exit, Counts!Exit

\* At boot the system space holds a page for its table, one for the last entry,
\* two for IDLE and one for each other thread.
LEMMA InitCounted == Init => QueueInit(Boot) /\ Counts!ProcInit
<1> SUFFICES ASSUME MemInit  PROVE QueueInit(Boot) /\ Counts!ProcInit
  BY DEF Init
<1>1. Cardinality(BootPage) = 4 + Len(Boot)
  <2>1. /\ StackTop \in Nat /\ Len(Boot) \in Nat /\ StackTop - 2 - Len(Boot) > 2
    BY Sizes
  <2>2. IsFiniteSet(BootStacks) /\ Cardinality(BootStacks) = Len(Boot) + 3
    <3>1. PICK low \in Int : low = StackTop - 2 - Len(Boot)
      <4>1. StackTop - 2 - Len(Boot) \in Int
        BY <2>1
      <4> QED
        BY <4>1, Zenon
    <3>2. IsFiniteSet(low..StackTop) /\ Cardinality(low..StackTop) = StackTop - low + 1
      <4>1. low <= StackTop /\ StackTop \in Int
        BY <2>1, <3>1
      <4>2. IsFiniteSet(low..StackTop)
        BY <4>1, FS_Interval
      <4>3. Cardinality(low..StackTop) = IF low > StackTop THEN 0 ELSE StackTop - low + 1
        BY <4>1, FS_Interval, Zenon
      <4> QED
        BY <4>1, <4>2, <4>3
    <3>3. BootStacks = low..StackTop
      BY <3>1 DEF BootStacks
    <3>4. IsFiniteSet(BootStacks) /\ Cardinality(BootStacks) = StackTop - low + 1
      BY <3>2, <3>3, Zenon
    <3> QED
      BY <2>1, <3>1, <3>4
  <2>3. TableEntry \notin BootStacks
    BY <2>1 DEF TableEntry, BootStacks
  <2>4. Cardinality(BootStacks \cup {TableEntry}) = Cardinality(BootStacks) + 1
    BY <2>2, <2>3, FS_AddElement
  <2>5. BootPage = BootStacks \cup {TableEntry}
    BY DEF BootPage
  <2>6. Cardinality(BootPage) = Cardinality(BootStacks \cup {TableEntry})
    BY <2>5, Zenon
  <2> QED
    BY <2>1, <2>2, <2>4, <2>6
<1>2. [a \in Space |-> Cardinality(pageList[a])]
        = [a \in Space |-> IF a = System THEN Counts!BootPages ELSE 0]
  <2>1. pageList[System] = BootPage /\ \A a \in Space \ {System} : pageList[a] = {}
    BY AddressSpaceAssumption DEF MemInit
  <2>2. Cardinality(pageList[System]) = Counts!BootPages
    <3>1. Cardinality(pageList[System]) = Cardinality(BootPage)
      BY <2>1, Zenon
    <3> QED
      BY <1>1, <3>1 DEF Counts!BootPages
  <2>3. \A a \in Space \ {System} : Cardinality(pageList[a]) = 0
    BY <2>1, FS_EmptySet, Zenon
  <2> QED
    BY <2>2, <2>3
<1>3. Cardinality(free) = Cardinality(Page)
  BY Zenon DEF MemInit
<1> QED
  BY <1>2, <1>3 DEF MemInit, Counts!ProcInit, Range, Counts!Range

\* Every step takes and gives back the pages of a step of Processes.
LEMMA StepCounted ==
    ASSUME SpaceInv, [Next]_<<memVars, heapVars>>
    PROVE  [Counts!ProcNext \/ (Interrupt /\ UNCHANGED Counts!procVars)]_<<queueVars, Counts!procVars>>
<1> DEFINE Goal == \/ Counts!ProcNext
                   \/ Interrupt /\ UNCHANGED Counts!procVars
                   \/ UNCHANGED <<queueVars, Counts!procVars>>
<1>0. MemInv /\ (current # Null => space[current] \in Space)
  BY RunnersAre DEF SpaceInv, ThreadsInv, Inhabited
<1>1. ASSUME UNCHANGED memVars  PROVE Goal
  <2>1. UNCHANGED <<current, ready, asleep, freeProcs, space, freeSpaces, threads, free, pageList>>
    BY <1>1 DEF memVars, queueVars, threadVars, pageVars
  <2> QED
    BY <2>1, NothingTaken DEF queueVars, Counts!procVars
<1>2. ASSUME NEW units, NEW forFile, Malloc(units, forFile), current = Server  PROVE Goal
  <2>1. CASE MallocHere(units, forFile)
    BY <1>1, <2>1 DEF MallocHere
  <2>2. CASE MallocMore(units, forFile)
    <3>1. space[current] = System /\ current # Null /\ System \in Space
      BY <1>2, HeapAssumption, AddressSpaceAssumption, DispatcherAssumption
      DEF SpaceInv, ThreadsInv, Range
    <3>2. /\ MoveBreak(space[current], Max({units, NALLOC}), "data")
          /\ UNCHANGED <<asleep, threadVars>> /\ Switch(current, ready, inForce)
      BY <2>2, <3>1 DEF MallocMore
    <3> QED
      BY <1>0, <3>1, <3>2, BreakCounted DEF Counts!ProcNext
  <2> QED
    BY <1>2, <2>1, <2>2 DEF Malloc
<1>3. ASSUME OpenFile \/ OpenFails \/ OpenSucceeds  PROVE Goal
  BY <1>1, <1>2, <1>3 DEF OpenFile, OpenFails, OpenSucceeds, ServerRuns
<1>4. ASSUME Others  PROVE Goal
  <2>1. ASSUME Tick  PROVE Goal
    <3>1. Interrupt /\ UNCHANGED <<freeProcs, space, freeSpaces, threads, free, pageList>>
      BY <2>1 DEF Tick, Switch, Interrupt, threadVars, pageVars
    <3> QED
      BY <3>1, NothingTaken DEF Counts!procVars
  <2>2. ASSUME Spawn  PROVE Goal
    BY <1>0, <2>2, SpawnCounted DEF Counts!ProcNext
  <2>3. ASSUME BeginThread  PROVE Goal
    BY <2>3, BeginThreadCounted DEF Counts!ProcNext
  <2>4. ASSUME Exit  PROVE Goal
    BY <1>0, <2>4, ExitCounted DEF Counts!ProcNext, Exit
  <2>5. ASSUME NEW bytes \in Grow, NEW rights \in Asked, SetHeapBreak(bytes, rights)  PROVE Goal
    BY <1>0, <2>5, BreakCounted DEF Counts!ProcNext, SetHeapBreak
  <2> QED
    BY <1>4, <2>1, <2>2, <2>3, <2>4, <2>5 DEF Others
<1>5. ASSUME UNCHANGED <<memVars, heapVars>>  PROVE Goal
  BY <1>1, <1>5
<1> HIDE DEF Goal
<1>6. Goal
  BY <1>3, <1>4, <1>5 DEF Next
<1> QED
  BY <1>6 DEF Goal

\* The counts of Processes.tla are the sizes of the lists here, after every step
\* of every behaviour: what is proved and checked of its threads and spaces
\* holds of the pages, tables and addresses of this module.
THEOREM PagesAreCounted == Spec => CountsPages
<1>1. Init => QueueInit(Boot) /\ Counts!ProcInit
  BY InitCounted
<1>2. SpaceInv /\ [Next]_<<memVars, heapVars>>
        => [Counts!ProcNext \/ (Interrupt /\ UNCHANGED Counts!procVars)]_<<queueVars, Counts!procVars>>
  BY StepCounted
<1> QED
  BY <1>1, <1>2, SpaceInvariant, PTL DEF Spec, CountsPages

-----------------------------------------------------------------------------
(* The heap of the disk server *)

IsList(size) ==
    /\ size \in [DOMAIN size -> Nat]
    /\ DOMAIN size \subseteq Nat
    /\ Base \in DOMAIN size /\ size[Base] = 0
    /\ \A p \in DOMAIN size \ {Base} : size[p] > 0

IsBlock(b) == b.at \in Nat \ {0} /\ b.units \in Nat \ {0}

\* The blocks of a free list and those that are held are apart and end at top, and
\* free blocks do not touch.
Disjoint(size, held, top) ==
    /\ IsList(size)
    /\ \A b \in held : IsBlock(b)
    /\ \A p, q \in DOMAIN size \ {Base} : p < q => p + size[p] < q
    /\ \A b, c \in held : b = c \/ b.at + b.units <= c.at \/ c.at + c.units <= b.at
    /\ \A p \in DOMAIN size \ {Base} : \A b \in held : p + size[p] <= b.at \/ b.at + b.units <= p
    /\ \A p \in DOMAIN size : p + size[p] <= top
    /\ \A b \in held : b.at + b.units <= top

\* A set of numbers that is not empty has a least one.
LEMMA LeastNumber ==
    ASSUME NEW S, S \subseteq Nat, S # {}
    PROVE  \E x \in S : \A y \in S : x <= y
<1> DEFINE R == {ss \in Nat \X Nat : ss[1] < ss[2]}
<1>1. IsWellFoundedOn(R, Nat)
  BY NatLessThanWellFounded DEF OpToRel
<1>2. PICK x \in S : \A y \in S : ~ (<<y, x>> \in R)
  BY <1>1, WFMin
<1>3. ASSUME NEW y \in S PROVE x <= y
  <2>1. <<y, x>> \notin R /\ y \in Nat /\ x \in Nat
    BY <1>2
  <2>2. ~(y < x)
    BY <2>1
  <2> QED
    BY <2>1, <2>2
<1> QED
  BY <1>3

\* The last of a list before an address.
LEMMA BeforeIs ==
    ASSUME NEW size, IsList(size), NEW at \in Nat, at > 0
    PROVE  /\ Before(size, at) \in DOMAIN size /\ Before(size, at) < at
           /\ \A q \in DOMAIN size : q < at => q <= Before(size, at)
<1> DEFINE S == {p \in DOMAIN size : p < at}  T == {at - p : p \in S}
<1>1. DOMAIN size \subseteq Nat /\ Base \in S
  BY DEF IsList, Base
<1>2. T \subseteq Nat /\ T # {}
  BY <1>1
<1>3. PICK x \in T : \A y \in T : x <= y
  BY <1>2, LeastNumber
<1>4. PICK p \in S : x = at - p
  BY <1>3
<1>5. \A q \in S : p >= q
  <2> TAKE q \in S
  <2>1. at - q \in T /\ x <= at - q /\ p \in Nat /\ q \in Nat
    BY <1>1, <1>3
  <2> QED
    BY <2>1, <1>4
<1>6. Max(S) \in S /\ \A q \in S : Max(S) >= q
  BY <1>5 DEF Max
<1>7. Before(size, at) = Max(S)
  BY DEF Before
<1> QED
  BY <1>6, <1>7, <1>1

\* The one that a search takes is big enough.
LEMMA FirstFitIs ==
    ASSUME NEW h, IsList(h.size), NEW units, Fits(h, units) # {}
    PROVE  FirstFit(h, units) \in Fits(h, units)
<1> DEFINE after == {p \in Fits(h, units) : p > h.freep}
           S == IF after # {} THEN after ELSE Fits(h, units)
<1>1. S \subseteq Fits(h, units) /\ S # {} /\ S \subseteq Nat
  BY DEF IsList, Fits
<1>2. PICK x \in S : \A y \in S : x <= y
  BY <1>1, LeastNumber
<1>3. Min(S) \in S
  BY <1>2 DEF Min
<1> QED
  BY <1>1, <1>3 DEF FirstFit

\* What an allocation takes is apart from the rest.
LEMMA TakenIs ==
    ASSUME NEW h, NEW held, NEW top \in Nat, Disjoint(h.size, held, top),
           NEW units \in Nat, units > 0, NEW p \in Fits(h, units),
           NEW b, b = [at |-> TailEnd(h, p, units), units |-> units]
    PROVE  Disjoint(Taken(h, p, units).size, held \cup {b}, top) /\ b \notin held
<1> DEFINE s == h.size  t == Taken(h, p, units).size
<1>1. /\ s \in [DOMAIN s -> Nat] /\ DOMAIN s \subseteq Nat /\ Base \in DOMAIN s /\ s[Base] = 0
      /\ \A q \in DOMAIN s \ {Base} : s[q] > 0
  BY DEF Disjoint, IsList
<1>2. p \in DOMAIN s /\ s[p] >= units /\ p # Base /\ p \in Nat /\ s[p] \in Nat
  BY <1>1 DEF Fits
<1>3. b.at = p + s[p] - units /\ b.units = units /\ b.at \in Nat /\ b.at >= p
  BY <1>2 DEF TailEnd
<1>4. b.at > 0 /\ IsBlock(b)
  BY <1>2, <1>3 DEF IsBlock, Base
<1>5. t = IF s[p] = units THEN [q \in DOMAIN s \ {p} |-> s[q]] ELSE [s EXCEPT ![p] = @ - units]
  BY DEF Taken, Restrict
<1>6. /\ DOMAIN t = IF s[p] = units THEN DOMAIN s \ {p} ELSE DOMAIN s
      /\ \A q \in DOMAIN t : t[q] = IF q = p THEN s[p] - units ELSE s[q]
      /\ p \in DOMAIN t => s[p] > units
  BY <1>1, <1>2, <1>5
<1> HIDE DEF t, s
<1>7. /\ \A q \in DOMAIN t : q \in DOMAIN s /\ q \in Nat /\ s[q] \in Nat /\ t[q] \in Nat /\ t[q] <= s[q]
      /\ \A q \in DOMAIN t \ {Base} : t[q] > 0
      /\ Base \in DOMAIN t /\ t[Base] = 0
  BY <1>1, <1>2, <1>6
<1>8. IsList(t)
  <2>1. t \in [DOMAIN t -> Nat]
    <3>1. t = [q \in DOMAIN t |-> t[q]]
      BY <1>5, <1>1
    <3> QED
      BY <3>1, <1>7
  <2> QED
    BY <2>1, <1>7 DEF IsList
<1>9. \A q, r \in DOMAIN t \ {Base} : q < r => q + t[q] < r
  <2> TAKE q, r \in DOMAIN t \ {Base}
  <2>1. q < r => q + s[q] < r
    BY <1>7 DEF Disjoint, s
  <2> QED
    BY <2>1, <1>7
<1>10. \A c \in held : p + s[p] <= c.at \/ c.at + c.units <= p
  BY <1>2 DEF Disjoint, s
<1>11. \A c \in held : IsBlock(c)
  BY DEF Disjoint
<1>12. \A c \in held : b.at + b.units <= c.at \/ c.at + c.units <= b.at
  BY <1>10, <1>11, <1>2, <1>3 DEF IsBlock
<1>13. \A c, d \in held \cup {b} : c = d \/ c.at + c.units <= d.at \/ d.at + d.units <= c.at
  BY <1>12 DEF Disjoint
<1>14. \A q \in DOMAIN t \ {Base} : q + t[q] <= b.at \/ b.at + b.units <= q
  <2> TAKE q \in DOMAIN t \ {Base}
  <2>1. q < p => q + s[q] < p
    BY <1>2, <1>7 DEF Disjoint, s
  <2>2. p < q => p + s[p] < q
    BY <1>2, <1>7 DEF Disjoint, s
  <2> QED
    BY <2>1, <2>2, <1>2, <1>3, <1>6, <1>7
<1>15. \A q \in DOMAIN t \ {Base} : \A c \in held : q + t[q] <= c.at \/ c.at + c.units <= q
  <2> TAKE q \in DOMAIN t \ {Base}
  <2> TAKE c \in held
  <2>1. q + s[q] <= c.at \/ c.at + c.units <= q
    BY <1>7 DEF Disjoint, s
  <2> QED
    BY <2>1, <1>7, <1>11 DEF IsBlock
<1>16. \A q \in DOMAIN t : q + t[q] <= top
  <2> TAKE q \in DOMAIN t
  <2>1. q + s[q] <= top
    BY <1>7 DEF Disjoint, s
  <2> QED
    BY <2>1, <1>7
<1>17. b.at + b.units <= top
  <2>1. p + s[p] <= top
    BY <1>2 DEF Disjoint, s
  <2> QED
    BY <2>1, <1>2, <1>3
<1>18. b \notin held
  BY <1>12, <1>3, <1>4 DEF IsBlock
<1>19. Disjoint(t, held \cup {b}, top)
  BY <1>4, <1>8, <1>9, <1>11, <1>13, <1>14, <1>15, <1>16, <1>17 DEF Disjoint
<1> QED
  BY <1>18, <1>19 DEF t

\* A block that nothing shares goes to the free list, and there is room for as much.
LEMMA FreedIs ==
    ASSUME NEW h, NEW held, NEW top \in Nat, Disjoint(h.size, held, top),
           NEW at \in Nat, at > 0, NEW units \in Nat, units > 0, at + units <= top,
           \A q \in DOMAIN h.size \ {Base} : q + h.size[q] <= at \/ at + units <= q,
           \A c \in held : c.at + c.units <= at \/ at + units <= c.at
    PROVE  /\ Disjoint(Freed(h, at, units).size, held, top)
           /\ Fits(Freed(h, at, units), units) # {}
<1> DEFINE s == h.size  p == Before(s, at)  upper == at + units
           joined == units + (IF upper \in DOMAIN s THEN s[upper] ELSE 0)
           others == Restrict(s, DOMAIN s \ {upper})
           t == Freed(h, at, units).size
           x == IF p + s[p] = at THEN p ELSE at
           n == IF p + s[p] = at THEN s[p] + joined ELSE joined
<1>1. /\ s \in [DOMAIN s -> Nat] /\ DOMAIN s \subseteq Nat /\ Base \in DOMAIN s /\ s[Base] = 0
      /\ \A q \in DOMAIN s \ {Base} : s[q] > 0
  BY DEF Disjoint, IsList
<1>2. p \in DOMAIN s /\ p < at /\ \A q \in DOMAIN s : q < at => q <= p
  BY BeforeIs DEF Disjoint
<1>3. t = IF p + s[p] = at THEN [others EXCEPT ![p] = @ + joined] ELSE With(others, at, joined)
  BY DEF Freed
<1>4. others = [q \in DOMAIN s \ {upper} |-> s[q]]
  BY DEF Restrict
<1>5. /\ upper \in Nat /\ joined \in Nat /\ joined >= units /\ p \in Nat /\ p # upper /\ at # upper
      /\ s[p] \in Nat
  BY <1>1, <1>2
<1>6. at \notin DOMAIN s
  BY <1>1 DEF Base
<1> HIDE DEF s, p, joined, others, upper, t
<1>7. t = [q \in (DOMAIN s \ {upper}) \cup {x} |-> IF q = x THEN n ELSE s[q]]
  <2>1. CASE p + s[p] = at
    <3>1. p \in DOMAIN others /\ others[p] = s[p]
      BY <1>2, <1>4, <1>5
    <3> QED
      BY <2>1, <3>1, <1>3, <1>4
  <2>2. CASE p + s[p] # at
    BY <2>2, <1>3, <1>4, <1>5, <1>6 DEF With
  <2> QED
    BY <2>1, <2>2
<1>8. x \in Nat /\ x <= at /\ n \in Nat /\ n >= units /\ x > 0 /\ at <= x + n - units
  <2>1. p + s[p] = at => p # Base
    BY <1>1 DEF Base
  <2> QED
    BY <2>1, <1>5 DEF Base
<1>9. x # Base
  BY <1>8 DEF Base
<1>10. /\ upper \in DOMAIN s => x + n = upper + s[upper]
       /\ upper \notin DOMAIN s => x + n = upper
  BY <1>1, <1>5 DEF joined, upper
<1> HIDE DEF x, n
\* The other free blocks: as before, none in reach of the new one.
<1>11. \A q \in DOMAIN t \ {x} : q \in DOMAIN s /\ q # upper /\ t[q] = s[q] /\ q \in Nat /\ s[q] \in Nat
  BY <1>1, <1>7
<1>12. x \in DOMAIN t /\ t[x] = n
  BY <1>7
<1>13. IsList(t)
  <2>1. t = [q \in DOMAIN t |-> t[q]]
    BY <1>7
  <2>2. \A q \in DOMAIN t : q \in Nat /\ t[q] \in Nat
    BY <1>8, <1>11, <1>12
  <2>3. \A q \in DOMAIN t \ {Base} : t[q] > 0
    BY <1>1, <1>8, <1>11, <1>12
  <2>4. Base \in DOMAIN t /\ t[Base] = 0
    <3>1. Base # upper
      BY <1>5 DEF upper, Base
    <3> QED
      BY <3>1, <1>1, <1>7, <1>9
  <2> QED
    BY <2>1, <2>2, <2>3, <2>4 DEF IsList
<1>14. ASSUME NEW q \in DOMAIN t \ {x, Base} PROVE (q < x => q + s[q] < x) /\ (x < q => x + n < q)
  <2>1. /\ q \in DOMAIN s /\ q # Base /\ q # upper /\ q \in Nat /\ s[q] \in Nat /\ s[q] > 0
        /\ q + s[q] <= at \/ upper <= q
    BY <1>1, <1>11 DEF s, upper
  <2>2. q < p => q + s[q] < p
    BY <2>1, <1>2 DEF Disjoint, s, Base
  <2>3. upper \in DOMAIN s /\ upper < q => upper + s[upper] < q
    <3>1. upper # Base
      BY <1>5 DEF upper, Base
    <3> QED
      BY <3>1, <2>1 DEF Disjoint, s
  <2>4. q < at => q <= p
    BY <1>2, <2>1
  <2>5. upper = at + units
    BY DEF upper
  <2>6. ASSUME q < x PROVE q + s[q] < x
    <3>1. q < at /\ q <= p
      BY <2>1, <2>4, <2>6, <1>8
    <3>2. CASE x = p
      BY <3>2, <2>2, <2>6
    <3>3. CASE x # p
      <4>1. x = at /\ p + s[p] # at
        BY <3>3 DEF x
      <4>2. CASE q = p
        BY <4>1, <4>2, <2>1, <2>5, <1>2, <1>5
      <4>3. CASE q # p
        <5>1. q + s[q] < p
          BY <4>3, <3>1, <2>1, <2>2, <1>5
        <5> QED
          BY <5>1, <4>1, <1>2, <1>5, <2>1
      <4> QED
        BY <4>2, <4>3
    <3> QED
      BY <3>2, <3>3
  <2>7. ASSUME x < q PROVE x + n < q
    <3>1. upper <= q
      <4>1. CASE q < at
        <5>1. q <= p /\ x # at
          BY <4>1, <2>1, <2>4, <2>7, <1>8
        <5>2. x = p
          BY <5>1 DEF x
        <5> QED
          BY <5>1, <5>2, <2>7, <2>1, <1>5
      <4>2. CASE ~(q < at)
        BY <4>2, <2>1, <2>5
      <4> QED
        BY <4>1, <4>2
    <3>2. upper < q
      BY <3>1, <2>1, <1>5
    <3> QED
      BY <3>2, <2>3, <1>10
  <2> QED
    BY <2>6, <2>7
<1>15. \A q, r \in DOMAIN t \ {Base} : q < r => q + t[q] < r
  <2> TAKE q, r \in DOMAIN t \ {Base}
  <2>1. CASE q = x /\ r = x
    BY <2>1, <1>8
  <2>2. CASE q = x /\ r # x
    BY <2>2, <1>12, <1>14
  <2>3. CASE q # x /\ r = x
    BY <2>3, <1>11, <1>14
  <2>4. CASE q # x /\ r # x
    BY <2>4, <1>11 DEF Disjoint, s
  <2> QED
    BY <2>1, <2>2, <2>3, <2>4
<1>16. \A c \in held : IsBlock(c)
  BY DEF Disjoint
<1>17. ASSUME NEW c \in held PROVE x + n <= c.at \/ c.at + c.units <= x
  <2>1. c.at \in Nat /\ c.units \in Nat /\ c.units > 0 /\ (c.at + c.units <= at \/ upper <= c.at) /\ upper = at + units
    BY <1>16 DEF IsBlock, upper
  <2>2. p # Base => p + s[p] <= c.at \/ c.at + c.units <= p
    BY <1>2 DEF Disjoint, s
  <2>3. upper \in DOMAIN s => upper + s[upper] <= c.at \/ c.at + c.units <= upper
    <3>1. upper # Base
      BY <1>5 DEF upper, Base
    <3> QED
      BY <3>1 DEF Disjoint, s
  <2>4. upper \in DOMAIN s => s[upper] \in Nat
    BY <1>1
  <2>5. x = at \/ (x = p /\ p + s[p] = at)
    BY DEF x
  <2>6. CASE upper <= c.at
    <3>1. upper \in DOMAIN s => upper + s[upper] <= c.at
      BY <2>1, <2>3, <2>4, <2>6, <1>5
    <3> QED
      BY <3>1, <2>6, <1>10
  <2>7. CASE c.at + c.units <= at
    <3>1. x = p => p # Base
      BY <1>9
    <3> QED
      BY <3>1, <2>1, <2>2, <2>5, <2>7, <1>5
  <2> QED
    BY <2>1, <2>6, <2>7
<1>18. \A q \in DOMAIN t \ {Base} : \A c \in held : q + t[q] <= c.at \/ c.at + c.units <= q
  <2> TAKE q \in DOMAIN t \ {Base}
  <2> TAKE c \in held
  <2>1. CASE q = x
    BY <2>1, <1>12, <1>17
  <2>2. CASE q # x
    BY <2>2, <1>11 DEF Disjoint, s
  <2> QED
    BY <2>1, <2>2
<1>19. \A q \in DOMAIN t : q + t[q] <= top
  <2> TAKE q \in DOMAIN t
  <2>1. CASE q = x
    <3>1. upper \in DOMAIN s => upper + s[upper] <= top
      BY DEF Disjoint, s
    <3>2. upper <= top
      BY DEF upper
    <3> QED
      BY <3>1, <3>2, <2>1, <1>10, <1>12
  <2>2. CASE q # x
    BY <2>2, <1>11 DEF Disjoint, s
  <2> QED
    BY <2>1, <2>2
<1>20. Disjoint(t, held, top)
  BY <1>13, <1>15, <1>18, <1>19 DEF Disjoint
<1>21. x \in {q \in DOMAIN t : t[q] >= units}
  BY <1>8, <1>12
<1> QED
  BY <1>20, <1>21 DEF t, Fits

\* More blocks take more room.
LEMMA Grows ==
    ASSUME NEW k \in Nat, NEW m \in Nat, NEW n \in Nat, m <= n
    PROVE  m * k \in Nat /\ n * k \in Nat /\ m * k <= n * k /\ (m + 1) * k = m * k + k
<1>1. PICK d \in Nat : n = m + d
  <2>1. n - m \in Nat /\ n = m + (n - m)
    OBVIOUS
  <2> QED
    BY <2>1
<1>2. (m + d) * k = m * k + d * k /\ d * k \in Nat /\ m * k \in Nat
  OBVIOUS
<1> QED
  BY <1>1, <1>2

\* The most that the heap is asked to grow by.
Request == Max({cluster, NALLOC})

\* A block that went back is there for the next file.
Reserve == IF opening = Null /\ Fits(heap, FileUnits) # {} THEN 1 ELSE 0

\* As long as requests do not shrink, blocks lie one behind the other up to the
\* last one asked for, and the heap has grown for each of them at most once.
Stacked ==
    /\ asked \in Nat
    /\ Disjoint(heap.size, blocks, heapBreak[System] + asked)
    /\ IsFiniteSet(blocks) /\ Cardinality(blocks) <= MaxBlocks
    /\ opening # Null =>
          opening \in blocks /\ opening.units = FileUnits /\ Cardinality(blocks) < MaxBlocks
    /\ heapBreak[System] <= HeapStart * PageSize + (Cardinality(blocks) + Reserve) * Request

HeapInv ==
    /\ ~shrunk => Stacked
    /\ cluster <= NALLOC => asked \in {0, NALLOC} /\ ~shrunk

\* The sizes of requests.
LEMMA Requests ==
    ASSUME SpaceInv
    PROVE  /\ NALLOC \in Nat /\ FileUnits \in Nat /\ FileUnits > 0 /\ cluster \in Nat /\ cluster > 0
           /\ Request \in Nat /\ NALLOC <= Request /\ FileUnits <= NALLOC /\ cluster <= Request
           /\ cluster <= NALLOC => Request = NALLOC
           /\ heapBreak[System] \in 0 .. (Limit - 1) /\ heapBreak[System] \in Nat
           /\ PageSize \in Nat /\ Limit \in Nat \ {0}
           /\ MaxBlocks \in Nat
           /\ Roomy => HeapStart * PageSize + MaxBlocks * Request < Limit
<1>1. NALLOC \in Nat /\ FileUnits \in Nat
  BY MallocSizes
<1>2. FileUnits > 0 /\ FileUnits <= NALLOC
  BY <1>1, HeapAssumption
<1>3. cluster \in BufferUnits /\ cluster \in Nat /\ cluster > 0
  BY HeapAssumption DEF SpaceInv
<1>4. Request \in {cluster, NALLOC} /\ Request >= cluster /\ Request >= NALLOC
  BY <1>1, <1>3, MaxOfTwo DEF Request
<1>5. System \in Space /\ heapBreak[System] \in 0 .. (Limit - 1)
  BY AddressSpaceAssumption DEF SpaceInv, BreaksInv
<1>6. PageSize \in Nat /\ Limit \in Nat \ {0}
  BY Sizes
<1>7. Roomy => HeapStart * PageSize + MaxBlocks * Request < Limit
  BY <1>3 DEF Roomy, Request
<1> QED
  BY <1>1, <1>2, <1>3, <1>4, <1>5, <1>6, <1>7, HeapAssumption

\* What fits a larger request fits a smaller one.
LEMMA FitsLess ==
    ASSUME NEW h, IsList(h.size), NEW m \in Nat, NEW n \in Nat, n <= m, Fits(h, m) # {}
    PROVE  Fits(h, n) # {}
<1>1. PICK p \in DOMAIN h.size : h.size[p] >= m
  BY DEF Fits
<1>2. h.size[p] \in Nat
  BY DEF IsList
<1>3. h.size[p] >= n
  BY <1>1, <1>2
<1> QED
  BY <1>1, <1>3 DEF Fits

\* KR_malloc() when a block is big enough.
LEMMA Allocated ==
    ASSUME NEW h, NEW top \in Nat, Disjoint(h.size, blocks, top), IsFiniteSet(blocks),
           NEW units \in Nat, units > 0, Fits(h, units) # {}, NEW forFile, Allocate(h, units, forFile)
    PROVE  /\ Disjoint(heap'.size, blocks', top)
           /\ IsFiniteSet(blocks') /\ Cardinality(blocks) \in Nat
           /\ Cardinality(blocks') = Cardinality(blocks) + 1
           /\ forFile => opening' \in blocks' /\ opening'.units = units
           /\ ~forFile => opening' = Null
<1> DEFINE p == FirstFit(h, units)  b == [at |-> TailEnd(h, p, units), units |-> units]
<1>1. p \in Fits(h, units)
  BY FirstFitIs DEF Disjoint
<1>2. heap' = Taken(h, p, units) /\ blocks' = blocks \cup {b} /\ opening' = IF forFile THEN b ELSE Null
  BY DEF Allocate
<1>3. b.units = units
  OBVIOUS
<1> HIDE DEF p
<1>4. b = [at |-> TailEnd(h, p, units), units |-> units]
  OBVIOUS
<1> HIDE DEF b
<1>5. Disjoint(Taken(h, p, units).size, blocks \cup {b}, top) /\ b \notin blocks
  BY <1>1, <1>4, TakenIs
<1>6. /\ IsFiniteSet(blocks \cup {b}) /\ Cardinality(blocks) \in Nat
      /\ Cardinality(blocks \cup {b}) = Cardinality(blocks) + 1
  BY <1>5, FS_AddElement, FS_CardinalityType
<1> QED
  BY <1>2, <1>3, <1>5, <1>6

\* morecore(): the new block begins at the new break, behind all that there is.
LEMMA MoreCore ==
    ASSUME NEW h, NEW held, NEW old \in Nat, Disjoint(h.size, held, old),
           NEW at \in Nat, old <= at, at > 0, NEW more \in Nat, more > 0
    PROVE  /\ Disjoint(Freed(h, at, more).size, held, at + more)
           /\ Fits(Freed(h, at, more), more) # {}
<1>1. \A q \in DOMAIN h.size : q \in Nat /\ h.size[q] \in Nat
  BY DEF Disjoint, IsList
<1>2. \A c \in held : c.at \in Nat /\ c.units \in Nat
  BY DEF Disjoint, IsBlock
<1>3. \A q \in DOMAIN h.size : q + h.size[q] <= at /\ q + h.size[q] <= at + more
  BY <1>1 DEF Disjoint
<1>4. \A c \in held : c.at + c.units <= at /\ c.at + c.units <= at + more
  BY <1>2 DEF Disjoint
<1>5. Disjoint(h.size, held, at + more)
  BY <1>3, <1>4 DEF Disjoint
<1>6. at + more \in Nat /\ at + more <= at + more
  OBVIOUS
<1> QED
  BY <1>3, <1>4, <1>5, <1>6, FreedIs

\* KR_malloc() for the file structure or for the buffer.
LEMMA MallocSound ==
    ASSUME Roomy, SpaceInv, HeapInv, NEW units \in Nat, units > 0, units <= Request,
           NEW forFile \in BOOLEAN, Malloc(units, forFile), cluster' = cluster,
           ~shrunk => Cardinality(blocks) < MaxBlocks,
           forFile => units = FileUnits /\ opening = Null /\ Cardinality(blocks) + 1 < MaxBlocks,
           ~forFile => opening # Null
    PROVE  HeapInv'
<1> DEFINE n == Cardinality(blocks)
<1>1. /\ NALLOC \in Nat /\ Request \in Nat /\ NALLOC <= Request
      /\ cluster <= NALLOC => Request = NALLOC
      /\ heapBreak[System] \in 0 .. (Limit - 1) /\ heapBreak[System] \in Nat
      /\ PageSize \in Nat /\ Limit \in Nat \ {0}
      /\ MaxBlocks \in Nat /\ HeapStart * PageSize + MaxBlocks * Request < Limit
  BY Requests
<1>2. Request' = Request
  BY DEF Request
<1> DEFINE more == Max({units, NALLOC})
<1>3. more \in Nat /\ more >= units /\ more >= NALLOC /\ more <= Request /\ (cluster <= NALLOC => more = NALLOC)
  BY <1>1, MaxOfTwo
<1> HIDE DEF more, Request
<1>4. CASE MallocHere(units, forFile)
  <2>1. /\ Fits(heap, units) # {} /\ Allocate(heap, units, forFile)
        /\ asked' = asked /\ shrunk' = shrunk /\ heapBreak' = heapBreak
    BY <1>4 DEF MallocHere, memVars, breakVars
  <2>2. ASSUME ~shrunk' PROVE Stacked'
    <3>1. /\ asked \in Nat /\ Disjoint(heap.size, blocks, heapBreak[System] + asked) /\ IsFiniteSet(blocks)
          /\ heapBreak[System] <= HeapStart * PageSize + (n + Reserve) * Request
      BY <2>1, <2>2 DEF HeapInv, Stacked
    <3>2. heapBreak[System] + asked \in Nat
      BY <1>1, <3>1
    <3>3. /\ Disjoint(heap'.size, blocks', heapBreak[System] + asked)
          /\ IsFiniteSet(blocks') /\ n \in Nat /\ Cardinality(blocks') = n + 1
          /\ forFile => opening' \in blocks' /\ opening'.units = units
          /\ ~forFile => opening' = Null
      BY <2>1, <3>1, <3>2, Allocated
    <3>4. Reserve \in {0, 1} /\ Reserve' \in {0, 1}
      BY DEF Reserve
    <3> HIDE DEF n
    <3>5. /\ (n + Reserve) * Request <= (n + 1 + Reserve') * Request
          /\ (n + Reserve) * Request \in Nat /\ (n + 1 + Reserve') * Request \in Nat
      <4> DEFINE r == Reserve  q == Reserve'
      <4>0. r \in {0, 1} /\ q \in {0, 1}
        BY <3>4
      <4> HIDE DEF r, q
      <4>1. n + r \in Nat /\ n + 1 + q \in Nat /\ n + r <= n + 1 + q
        BY <3>3, <4>0
      <4> QED
        BY <4>1, <1>1, Grows DEF r, q
    <3>6. heapBreak[System] <= HeapStart * PageSize + (n + 1 + Reserve') * Request
      <4>1. HeapStart * PageSize \in Nat
        BY <1>1 DEF HeapStart
      <4> HIDE DEF HeapStart
      <4> QED
        BY <4>1, <3>1, <3>5, <1>1
    <3>7. ~shrunk
      BY <2>1, <2>2
    <3>8. (n < MaxBlocks /\ (forFile => n + 1 < MaxBlocks)) => n + 1 <= MaxBlocks
      BY <3>3, <1>1
    <3>9. Cardinality(blocks') <= MaxBlocks /\ (forFile => Cardinality(blocks') < MaxBlocks)
      BY <3>3, <3>7, <3>8 DEF n
    <3> QED
      BY <1>2, <2>1, <3>1, <3>3, <3>6, <3>9 DEF n, Stacked
  <2> QED
    BY <2>1, <2>2 DEF HeapInv
<1>5. CASE MallocMore(units, forFile)
  <2>1. /\ Fits(heap, units) = {} /\ Allocate(Freed(heap, NewBlock(more), more), units, forFile)
        /\ asked' = more /\ shrunk' = (shrunk \/ more < asked)
        /\ heapBreak' = [heapBreak EXCEPT ![System] = (@ + more) % Limit]
    BY <1>5 DEF MallocMore, MoveBreak, more
  <2>2. System \in DOMAIN heapBreak
    BY AddressSpaceAssumption DEF SpaceInv, BreaksInv
  <2>3. heapBreak'[System] = (heapBreak[System] + more) % Limit /\ NewBlock(more) = heapBreak'[System]
    BY <2>1, <2>2 DEF NewBlock
  <2>4. cluster' <= NALLOC => asked' \in {0, NALLOC} /\ ~shrunk'
    <3>1. cluster <= NALLOC => ~shrunk /\ ~(more < asked)
      BY <1>1, <1>3 DEF HeapInv
    <3> QED
      BY <3>1, <2>1, <1>3
  <2>5. ASSUME ~shrunk' PROVE Stacked'
    <3>1. /\ asked \in Nat /\ Disjoint(heap.size, blocks, heapBreak[System] + asked) /\ IsFiniteSet(blocks)
          /\ heapBreak[System] <= HeapStart * PageSize + (n + Reserve) * Request /\ more >= asked
      <4>1. ~shrunk /\ ~(more < asked)
        BY <2>1, <2>5
      <4>2. Stacked
        BY <4>1 DEF HeapInv
      <4>3. asked \in Nat
        BY <4>2 DEF Stacked
      <4> QED
        BY <4>1, <4>2, <4>3, <1>3 DEF Stacked
    <3>2. n \in Nat /\ n + 1 <= MaxBlocks
      <4>1. n \in Nat /\ n < MaxBlocks
        BY <2>1, <2>5, <3>1, FS_CardinalityType
      <4> HIDE DEF n
      <4> QED
        BY <4>1, <1>1
    <3>3. Reserve = 0
      BY <2>1 DEF Reserve
    <3> HIDE DEF n
    <3>4. heapBreak[System] + more <= HeapStart * PageSize + (n + 1) * Request
      BY <3>1, <3>2, <3>3, <1>1, <1>3 DEF HeapStart
    <3>5. HeapStart * PageSize + (n + 1) * Request < Limit
      <4>1. (n + 1) * Request <= MaxBlocks * Request /\ (n + 1) * Request \in Nat /\ MaxBlocks * Request \in Nat
        BY <1>1, <3>2
      <4> QED
        BY <4>1, <1>1 DEF HeapStart
    <3>6. heapBreak[System] + more \in Nat /\ heapBreak[System] + more < Limit
      <4>1. (n + 1) * Request \in Nat
        BY <1>1, <3>2
      <4> QED
        BY <4>1, <3>4, <3>5, <1>1, <1>3 DEF HeapStart
    <3>7. heapBreak'[System] = heapBreak[System] + more
      BY <2>3, <3>6, <1>1, Remainder
    <3> DEFINE at == NewBlock(more)
    <3>8. at = heapBreak[System] + more /\ at \in Nat /\ at > 0 /\ more > 0
          /\ heapBreak[System] + asked \in Nat /\ heapBreak[System] + asked <= at
      BY <2>3, <3>1, <3>6, <3>7, <1>1, <1>3
    <3> HIDE DEF at
    <3>9. Disjoint(Freed(heap, at, more).size, blocks, at + more) /\ Fits(Freed(heap, at, more), more) # {}
      BY <3>1, <3>8, <1>3, MoreCore
    <3>10. Fits(Freed(heap, at, more), units) # {}
      BY <3>9, <1>3, FitsLess DEF Disjoint
    <3>11. Allocate(Freed(heap, at, more), units, forFile) /\ at + more \in Nat
      BY <2>1, <3>8, <1>3 DEF at
    <3>12. /\ Disjoint(heap'.size, blocks', at + more)
           /\ IsFiniteSet(blocks') /\ Cardinality(blocks') = n + 1
           /\ forFile => opening' \in blocks' /\ opening'.units = units
           /\ ~forFile => opening' = Null
      BY <3>1, <3>9, <3>10, <3>11, Allocated DEF n
    <3>13. Reserve' \in {0, 1}
      BY DEF Reserve
    <3>14. /\ (n + 1) * Request <= (n + 1 + Reserve') * Request
           /\ (n + 1) * Request \in Nat /\ (n + 1 + Reserve') * Request \in Nat
      <4> DEFINE q == Reserve'
      <4>0. q \in {0, 1}
        BY <3>13
      <4> HIDE DEF q
      <4>1. n + 1 \in Nat /\ n + 1 + q \in Nat /\ n + 1 <= n + 1 + q
        BY <3>2, <4>0
      <4> QED
        BY <4>1, <1>1, Grows DEF q
    <3>15. heapBreak'[System] <= HeapStart * PageSize + (n + 1 + Reserve') * Request
      <4>1. HeapStart * PageSize \in Nat
        BY <1>1 DEF HeapStart
      <4> HIDE DEF HeapStart
      <4> QED
        BY <4>1, <3>4, <3>6, <3>7, <3>14
    <3>16. heapBreak'[System] + asked' = at + more
      BY <2>1, <3>7, <3>8
    <3>17. Cardinality(blocks') <= MaxBlocks /\ (forFile => Cardinality(blocks') < MaxBlocks)
      BY <3>2, <3>12, <1>1 DEF n
    <3> QED
      BY <1>2, <1>3, <2>1, <3>12, <3>15, <3>16, <3>17 DEF Stacked
  <2> QED
    BY <2>4, <2>5 DEF HeapInv
<1> QED
  BY <1>4, <1>5 DEF Malloc

\* What goes on around the server leaves the heap of the system space alone.
LEMMA OthersApart ==
    ASSUME SpaceInv, Others
    PROVE  heapBreak'[System] = heapBreak[System]
<1>1. heapBreak \in [Space -> 0 .. (Limit - 1)] /\ System \in Space
  BY AddressSpaceAssumption DEF SpaceInv, BreaksInv
<1>2. System \notin freeSpaces
  <2>1. Server \in ThreadsOf(System)
    <3>1. Server \in Process
      BY HeapAssumption, AddressSpaceAssumption DEF Range
    <3> QED
      BY <3>1 DEF ThreadsOf, Live, SpaceInv, ThreadsInv
  <2> QED
    BY <2>1 DEF SpaceInv, ThreadsInv
<1>3. CASE Tick
  BY <1>3 DEF Tick, breakVars
<1>4. CASE Spawn
  <2>1. CASE SpawnFails
    BY <2>1 DEF SpawnFails, breakVars
  <2>2. ASSUME NEW p \in freeProcs, NEW a \in freeSpaces, SpawnNoPage \/ SpawnOnePage(a) \/ SpawnSucceeds(p, a)
        PROVE  heapBreak'[System] = heapBreak[System]
    <3>1. a # System
      BY <1>2
    <3>2. heapBreak' = heapBreak \/ heapBreak' = [heapBreak EXCEPT ![a] = HeapStart * PageSize]
      BY <2>2 DEF SpawnNoPage, SpawnOnePage, SpawnSucceeds, breakVars
    <3> QED
      BY <3>1, <3>2, <1>1
  <2> QED
    BY <1>4, <2>1, <2>2 DEF Spawn
<1>5. CASE BeginThread
  BY <1>5 DEF BeginThread, breakVars
<1>6. ASSUME space[Running] # System, current # Null PROVE space[current] # System
  BY <1>6 DEF Running
<1>7. CASE space[Running] # System /\ Exit
  <2>1. space[current] # System
    BY <1>6, <1>7 DEF Exit
  <2>2. heapBreak' = heapBreak \/ heapBreak' = [heapBreak EXCEPT ![space[current]] = HeapStart * PageSize]
    BY <1>7 DEF Exit, Release
  <2> QED
    BY <2>1, <2>2, <1>1
<1>8. ASSUME space[Running] # System, NEW bytes \in Grow, NEW rights \in Asked, SetHeapBreak(bytes, rights)
      PROVE  heapBreak'[System] = heapBreak[System]
  <2>1. space[current] # System
    BY <1>6, <1>8 DEF SetHeapBreak
  <2>2. heapBreak' = [heapBreak EXCEPT ![space[current]] = (@ + bytes) % Limit]
    BY <1>8 DEF SetHeapBreak, MoveBreak
  <2> QED
    BY <2>1, <2>2, <1>1
<1> QED
  BY <1>3, <1>4, <1>5, <1>7, <1>8 DEF Others

\* The heap as it is stays as it is.
LEMMA HeapStays ==
    ASSUME HeapInv, UNCHANGED heapVars, heapBreak'[System] = heapBreak[System]
    PROVE  HeapInv'
<1>1. Reserve' = Reserve /\ Request' = Request
  BY DEF heapVars, Reserve, Request
<1>2. Stacked => Stacked'
  BY <1>1 DEF Stacked, heapVars
<1> QED
  BY <1>2 DEF HeapInv, heapVars

\* The structure of a file that is not there goes back, and the next one fits.
LEMMA OpenFailsSound ==
    ASSUME SpaceInv, HeapInv, OpenFails
    PROVE  HeapInv'
<1>1. /\ opening # Null /\ heap' = Freed(heap, opening.at, opening.units)
      /\ blocks' = blocks \ {opening} /\ opening' = Null
      /\ UNCHANGED <<cluster, asked, shrunk, heapBreak>>
  BY DEF OpenFails, memVars, breakVars
<1>2. ASSUME Stacked PROVE Stacked'
  <2>1. /\ asked \in Nat /\ Disjoint(heap.size, blocks, heapBreak[System] + asked) /\ IsFiniteSet(blocks)
        /\ opening \in blocks /\ opening.units = FileUnits
        /\ heapBreak[System] <= HeapStart * PageSize + (Cardinality(blocks) + Reserve) * Request
        /\ Cardinality(blocks) <= MaxBlocks
    BY <1>1, <1>2 DEF Stacked
  <2>2. Reserve = 0 /\ Request' = Request
    BY <1>1 DEF Reserve, Request
  <2>3. heapBreak[System] + asked \in Nat
    BY <2>1, Requests
  <2> DEFINE top == heapBreak[System] + asked
             held == blocks \ {opening}
             b == opening
  <2>4. IsBlock(b) /\ b.at + b.units <= top
    BY <2>1 DEF Disjoint
  <2> HIDE DEF top
  <2>5. Disjoint(heap.size, held, top)
    BY <2>1 DEF Disjoint, top
  <2>6. \A q \in DOMAIN heap.size \ {Base} : q + heap.size[q] <= b.at \/ b.at + b.units <= q
    BY <2>1 DEF Disjoint
  <2>7. \A c \in held : c.at + c.units <= b.at \/ b.at + b.units <= c.at
    BY <2>1 DEF Disjoint
  <2>8. top \in Nat /\ b.at \in Nat /\ b.at > 0 /\ b.units \in Nat /\ b.units > 0
    BY <2>3, <2>4 DEF top, IsBlock
  <2>9. Disjoint(Freed(heap, b.at, b.units).size, held, top) /\ Fits(Freed(heap, b.at, b.units), b.units) # {}
    BY <2>4, <2>5, <2>6, <2>7, <2>8, FreedIs
  <2>10. Disjoint(heap'.size, blocks', heapBreak'[System] + asked') /\ Fits(heap', FileUnits) # {}
    BY <1>1, <2>1, <2>9 DEF top
  <2>11. Reserve' = 1
    BY <2>10, <1>1 DEF Reserve, Fits
  <2>12. IsFiniteSet(blocks') /\ Cardinality(blocks) \in Nat /\ Cardinality(blocks') = Cardinality(blocks) - 1
    BY <1>1, <2>1, FS_RemoveElement, FS_CardinalityType
  <2>13. Cardinality(blocks') + Reserve' = Cardinality(blocks) + Reserve
    BY <2>2, <2>11, <2>12
  <2>14. Cardinality(blocks') <= MaxBlocks
    <3> DEFINE k == Cardinality(blocks)  m == Cardinality(blocks')
    <3>1. k \in Nat /\ m = k - 1 /\ k <= MaxBlocks /\ MaxBlocks \in Nat
      BY <2>1, <2>12, Requests
    <3> HIDE DEF k, m
    <3>2. m <= MaxBlocks
      BY <3>1
    <3> QED
      BY <3>2 DEF m
  <2> QED
    BY <1>1, <2>1, <2>2, <2>10, <2>12, <2>13, <2>14 DEF Stacked
<1> QED
  BY <1>1, <1>2 DEF HeapInv

\* Every step keeps the blocks apart.
LEMMA HeapStep ==
    ASSUME Roomy, SpaceInv, HeapInv, [Next]_<<memVars, heapVars>>
    PROVE  HeapInv'
<1>1. /\ FileUnits \in Nat /\ FileUnits > 0 /\ FileUnits <= Request
      /\ cluster \in Nat /\ cluster > 0 /\ cluster <= Request
  BY Requests
<1>2. CASE OpenFile
  <2>1. /\ opening = Null /\ Cardinality(blocks) + 1 < MaxBlocks /\ Malloc(FileUnits, TRUE) /\ cluster' = cluster
    BY <1>2 DEF OpenFile
  <2>2. ~shrunk => Cardinality(blocks) < MaxBlocks
    <3>1. ~shrunk => IsFiniteSet(blocks) /\ MaxBlocks \in Nat
      BY Requests DEF HeapInv, Stacked
    <3>2. ~shrunk => Cardinality(blocks) \in Nat
      BY <3>1, FS_CardinalityType
    <3> QED
      BY <2>1, <3>1, <3>2
  <2> QED
    BY <2>1, <2>2, <1>1, MallocSound
<1>3. CASE OpenFails
  BY <1>3, OpenFailsSound
<1>4. CASE OpenSucceeds
  <2>1. opening # Null /\ Malloc(cluster, FALSE) /\ cluster' = cluster
    BY <1>4 DEF OpenSucceeds
  <2>2. ~shrunk => Cardinality(blocks) < MaxBlocks
    BY <2>1 DEF HeapInv, Stacked
  <2> QED
    BY <2>1, <2>2, <1>1, MallocSound
<1>5. CASE Others
  BY <1>5, OthersApart, HeapStays DEF Others
<1>6. CASE UNCHANGED <<memVars, heapVars>>
  BY <1>6, HeapStays DEF memVars, breakVars
<1> QED
  BY <1>2, <1>3, <1>4, <1>5, <1>6 DEF Next

\* The heap begins with no block but the static one.
LEMMA HeapBegins == Init => HeapInv
<1> SUFFICES ASSUME Init PROVE HeapInv
  OBVIOUS
<1>1. /\ heap.size = [p \in {Base} |-> 0] /\ blocks = {} /\ opening = Null /\ asked = 0 /\ shrunk = FALSE
      /\ heapBreak = [a \in Space |-> HeapStart * PageSize] /\ System \in Space
  BY AddressSpaceAssumption DEF Init, MemInit
<1>2. SpaceInv
  BY SpaceInitHolds
<1>3. heapBreak[System] = HeapStart * PageSize /\ heapBreak[System] \in Nat /\ heapBreak[System] + asked \in Nat
  BY <1>1, <1>2, Requests
<1>4. Disjoint(heap.size, blocks, heapBreak[System] + asked)
  BY <1>1, <1>3 DEF Disjoint, IsList, Base
<1>5. IsFiniteSet(blocks) /\ Cardinality(blocks) = 0
  BY <1>1, FS_EmptySet
<1>6. heapBreak[System] <= HeapStart * PageSize + (Cardinality(blocks) + Reserve) * Request
  <2> DEFINE r == Reserve  k == Request
  <2>1. r \in {0, 1} /\ k \in Nat
    BY <1>2, Requests DEF Reserve
  <2> HIDE DEF r, k
  <2>2. (0 + r) * k \in Nat
    BY <2>1
  <2>3. heapBreak[System] <= HeapStart * PageSize + (0 + r) * k
    BY <2>2, <1>3
  <2> QED
    BY <2>3, <1>5 DEF r, k
<1>7. Stacked
  BY <1>1, <1>4, <1>5, <1>6, <1>2, Requests DEF Stacked
<1> QED
  BY <1>1, <1>7 DEF HeapInv

\* Blocks in these places share no unit.
LEMMA HeapInvSound == HeapInv => HeapSound
<1> SUFFICES ASSUME ~shrunk, Stacked
             PROVE  /\ Apart
                    /\ \A p \in DOMAIN heap.size \ {Base} : p + heap.size[p] \notin DOMAIN heap.size
  BY DEF HeapInv, HeapSound
<1> DEFINE s == heap.size
<1>1. Disjoint(s, blocks, heapBreak[System] + asked)
  BY DEF Stacked
<1>2. \A p \in DOMAIN s : p \in Nat /\ s[p] \in Nat /\ (p # Base => s[p] > 0)
  BY <1>1 DEF Disjoint, IsList
<1>3. \A p, q \in DOMAIN s \ {Base} : p < q => p + s[p] < q
  BY <1>1 DEF Disjoint
<1>4. \A b \in blocks : b.at \in Nat /\ b.units \in Nat /\ b.units > 0
  BY <1>1 DEF Disjoint, IsBlock
<1>5. \A p \in DOMAIN s \ {Base} : p + s[p] \notin DOMAIN s
  <2> SUFFICES ASSUME NEW p \in DOMAIN s \ {Base}, p + s[p] \in DOMAIN s PROVE FALSE
    OBVIOUS
  <2>1. p + s[p] # Base /\ p < p + s[p]
    BY <1>2 DEF Base
  <2> QED
    BY <2>1, <1>2, <1>3
<1>6. ASSUME NEW b \in blocks \cup FreeBlocks, NEW c \in blocks \cup FreeBlocks
      PROVE  \/ b.at + b.units <= c.at \/ c.at + c.units <= b.at
             \/ (b = c /\ ~(b \in blocks /\ b \in FreeBlocks))
  <2>1. \A d \in FreeBlocks : d.at \in DOMAIN s \ {Base} /\ d.units = s[d.at] /\ d = [at |-> d.at, units |-> d.units]
    BY DEF FreeBlocks
  <2>2. \A d \in blocks : d \notin FreeBlocks
    <3> SUFFICES ASSUME NEW d \in blocks, d \in FreeBlocks PROVE FALSE
      OBVIOUS
    <3>1. d.at \in DOMAIN s \ {Base} /\ d.units = s[d.at]
      BY <2>1
    <3>2. d.at + s[d.at] <= d.at \/ d.at + d.units <= d.at
      BY <1>1, <3>1 DEF Disjoint
    <3> QED
      BY <3>1, <3>2, <1>4
  <2>3. CASE b \in blocks /\ c \in blocks
    BY <2>2, <2>3, <1>1 DEF Disjoint
  <2>4. CASE b \in blocks /\ c \in FreeBlocks
    <3>1. c.at + s[c.at] <= b.at \/ b.at + b.units <= c.at
      BY <2>1, <2>4, <1>1 DEF Disjoint
    <3> QED
      BY <3>1, <2>1, <2>4
  <2>5. CASE b \in FreeBlocks /\ c \in blocks
    <3>1. b.at + s[b.at] <= c.at \/ c.at + c.units <= b.at
      BY <2>1, <2>5, <1>1 DEF Disjoint
    <3> QED
      BY <3>1, <2>1, <2>5
  <2>6. CASE b \in FreeBlocks /\ c \in FreeBlocks
    <3>1. /\ b.at \in DOMAIN s \ {Base} /\ c.at \in DOMAIN s \ {Base} /\ b.at \in Nat /\ c.at \in Nat
          /\ b.units = s[b.at] /\ c.units = s[c.at] /\ s[b.at] \in Nat /\ s[c.at] \in Nat
      BY <2>1, <2>6, <1>2
    <3>2. CASE b.at = c.at
      BY <3>1, <3>2, <2>1, <2>2, <2>6
    <3>3. CASE b.at < c.at
      BY <3>1, <3>3, <1>3
    <3>4. CASE c.at < b.at
      BY <3>1, <3>4, <1>3
    <3> QED
      BY <3>1, <3>2, <3>3, <3>4
  <2> QED
    BY <2>3, <2>4, <2>5, <2>6
<1>7. Apart
  BY <1>6 DEF Apart
<1> QED
  BY <1>5, <1>7

\* Blocks in use and free ones never share memory, and free neighbours are joined,
\* as long as no request for more is smaller than the one before, which none is on a
\* disk whose clusters fit in NALLOC units: for any sizes and files, if the
\* address space has room for them.
THEOREM HeapStaysSound == ASSUME Roomy PROVE Spec => []HeapSound
<1>1. Init => HeapInv
  BY SpaceInitHolds, HeapBegins
<1>2. SpaceInv /\ HeapInv /\ [Next]_<<memVars, heapVars>> => HeapInv'
  BY HeapStep
<1>3. HeapInv => HeapSound
  BY HeapInvSound
<1> QED
  BY <1>1, <1>2, <1>3, SpaceInvariant, PTL DEF Spec

=============================================================================
