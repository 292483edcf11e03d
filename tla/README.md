# Verification of ATOSE

ATOSE is a small operating system for ARM boards: a microkernel in C++ with round-robin
scheduling, semaphores and message-passing pipes, and on top of it a disk
server, a FAT file system and a USB stack.  This project models the current
system, `src/source-imx6/` (Freescale i.MX6Q), in TLA+, checks it with TLC and
proves its kernel with TLAPS.  The repository has no written documentation:
the code and its comments are the reference.  Paths below are relative to
`src/source-imx6/`.

## 1. The system

One rule shapes everything: system calls (SWI) and interrupts (IRQ) run with
interrupts masked, and both end in `context_switch()` (`atose.c:260-281`,
`interrupt_arm_gic.c:84-149`).  So a *kernel entry*, from the trap to the
context switch, is atomic with respect to the rest of the kernel, and is one
action of the models.  Two handlers poll, masked, for something outside the
program: `ATOSE_getc` for a key (`uart_imx6q.c:165`) and `acknowledge()` of the
USB host for a connection (`host_usb.c:294`).  Concurrency is the order of kernel entries: which
program runs, when the timer cuts in, when a device interrupts.

| Component | State | Operations | Talks to | What makes it correct |
|---|---|---|---|---|
| Scheduler (`process_manager.c`, `sleep_wake.c`, `idle.c`) | `current_process`, ready queue, list of sleepers, idle | push, pull, sleep_current_process, wake, context_switch | everything | a process is in one list at most; never idle with work ready; first come first served; everyone ready runs |
| Semaphores (`semaphore.c`) | value, stack of sleepers, pool of 10 | create, clear, signal, wait | scheduler; signalled by interrupts | value and sleepers agree; no wake-up is lost |
| Process manager, pools (`process_manager.c`, `process_allocator.c`) | pools of 10 processes and 10 address spaces | create_process, create_thread, terminate | address spaces, scheduler | thread counts are right; no thread runs in freed memory; nothing is lost |
| Address spaces, MMU pages (`address_space.c`, `mmu.c`, `mmu_page_list.c`) | page list, thread count, breaks; free page list | create, add, set_heap_break, destroy | process manager | pages are conserved |
| System calls, boot, interrupts (`atose.c`, `interrupt_arm_gic.c`, `timer_imx6q.c`) | call table, device table | isr_swi, isr_irq, reset | all of the kernel | each entry ends in a context switch |
| Pipes (`pipe.c`) | `pipelist`, queues of tasks, pools of 10 pipes and 30 tasks | create, bind, connect, close, send, post_event, receive, memcpy, reply | scheduler | each call is received once, in order, and answered; a task has one owner |
| Disk server, clients (`server_disk.c`, `client_file.c`) | open files; one pipe per program | OPEN, CLOSE, SEEK, TELL, READ | pipes, file system | one reply per message; READ fills the caller's buffer |
| File system (`file_system.c`) | file control blocks | open, read, write, seek, close | FAT | bytes read are the bytes of the file, in order |
| FAT (`fat.c`) | the table, directories, one sector buffer | chains, allocation, unlink, extend | disk | a cluster is in one chain; copies of the table agree |
| USB host (`host_usb*.c`) | semaphore, static transfer descriptors, `device_list` | perform_transaction, acknowledge, enumerate, drivers of hubs and disks, mount | semaphores, interrupts, FAT | a transaction returns when its own transfer is done; one device hears each request; both ends agree on toggles, which the host keeps by endpoint number; a good disk is mounted |
| User heap (`malloc.c`) | circular free list | KR_malloc, KR_free, morecore | set_heap_break | blocks do not overlap; free blocks coalesce |
| ELF loader, USB device stack, API stubs, UART, clock, debug, kernel allocator | little or none | | | not modelled, see section 7 |

Hard behaviours: interrupts that signal a semaphore while programs use it, or
while idle runs; the two ways a message can be delivered (receiver waiting or
not); lists that share one link field; pools that run dry (most callers do not
look at a NULL); failures half way through process creation; objects recycled
while something still points to them; a semaphore that is signalled for two reasons and
static descriptors that two threads fill.  But for a disk that is not ready there is no retry, timeout or
persistence in the kernel; the file system has writes that a power failure
splits.  `PROJECT.json` lists each hazard at its line.

## 2. Modules

```
 Dispatcher          queues of the scheduler; abstract specification of kernel entries
   |- Semaphores     semaphore.c
   |- Processes      process_manager.c, process_allocator.c, address_space.c (counts)
   |- Kernel         Semaphores + Processes + timer           MCKernel
   |- AddressSpaces  address_space.c, mmu.c page by page; implements Processes' counts
   |    |- Heap      malloc.c over set_heap_break()           MCMemory
   |- Pipes          pipe.c over the same queues              MCPipes
 Rendezvous          what pipes promise; implemented by Pipes
   |- DiskServer     server_disk.c, client_file.c, loaders; over FileSystem   MCDiskServer
 FileSystem          file_system.c, read() as an operator
 FatVolume           fat.c and write(), sector by sector      MCFatVolume
 UsbTransfer         transactions, their interrupt, the controller and the devices
   |- UsbBus         enumeration, drivers, mounting, the server's reads      MCUsbBus
 ProcessList         the queues pointer by pointer; implements Dispatcher   MCProcessList
 DispatcherProofs, ProcessListProofs, KernelProofs, SpaceProofs, PipeProofs,
 DiskServerProofs, UsbBusProofs, FatVolumeProofs   theorems
```

**Dispatcher** is both the vocabulary the others are written in and an abstract
specification.  `current` is `current_process` (`Null` while idle runs),
`ready` the queue from `active_tail` to `active_head`, `asleep` the list
`inactive_queue`.  `ContextSwitch(p, queue)` ends every kernel entry: requeue
p unless it is NULL or idle, run the head.  Its actions (`Interrupt`, `Block`,
`Wake`, `WakeAndBlock`, `Admit`, `AdmitTwo`, `Retire`) are all a kernel entry
may do to the queues.  The property `KeepsQueueDiscipline` of `Kernel`, and
`ImplementsQueues` of `ProcessList`, say that these refine it.  `Pipes` is
written in these actions, so that nothing would be said by claiming it there.

**Semaphores** has one action per system call, and `DeviceInterrupt`, which
signals with or without a running process.  The USB host's `acknowledge()` may
signal twice in one interrupt (`host_usb.c:267`, `:297`): `SignalTwice`.

**Processes** keeps the pools, the owner of each thread (`space`), the thread
counts, and pages as *numbers*: `freePages` and `held[a]`.  Page exhaustion
half way through a creation is modelled as the code has it: create_process()
returns and frees nothing, create_thread() goes on.

**Kernel** puts the three together.  Of the pipe calls it keeps what they do to
the queues (`PipeCall`): block, wake, or both, as the actions of `Pipes` do.
`polled` is what a handler polls for, if one does: from `Getc` to `KeyArrives`,
and from `PortChanges` to `Connected`, nothing else happens, the timer included.
The handler's work and its context switch are in the second step; that an
interrupt may have signalled once before it polls cannot be seen meanwhile.

**AddressSpaces** has the kernel entries of `Processes` with pages that have an
identity: each space has its `pageList`, its page `table` and its two breaks, and
`inForce` is the table the processor translates by when the entry is over.
`Extent` wraps as the 32-bit sum of `add()` does; `Supplied` is as far as it gets
before `pull()` has no more; the callers, like the code's, do not look.
`CountsPages` says that this implements `Processes`, with `freePages` and `held`
as the numbers of pages.

**Heap** is the K&R allocator in units of 8 bytes: the circular list is a function
from block to size and a place to search from.  `sbrk()` answers what
`set_heap_break()` does, the new break, so `NewBlock` begins there.  Its one
user is the disk server, which is one more program of `AddressSpaces`.

**Pipes** has one action per pipe call, sharing helpers for the paths of
`enqueue()` and `receive()`: `Queue` / `HandOver` / `HandOverEvent`, and
`ReceiveWork` / `ReceiveNothing` after the walk over the dead tasks in front.
`task[t]` keeps the three fields that are read again.  Message
contents are left out: `pipe_memcpy` changes nothing the kernel keeps.  So is the
list `open_pipes` of a process (`pipe.c:29-30`), which nothing modelled reads.

**Rendezvous** is the promise: a call stands in line, is taken once, in order,
by one server, answered once; an event stands in the same line (`Post`), is taken
once, and nobody waits for an answer to it.  `Pipes!KeepsPromise` is the refinement, by the
mapping *calls = senders of the messages in line*, *serving = senders of the
messages in hand*.

**FileSystem** names the bytes of a file by their positions, and gives for a
`read()` the positions it copies and the `file_offset` it leaves: a first part,
whole blocks, a last part.  The chain of blocks is taken to be sound.

**FatVolume** is the writing half, a sector write being a step.  `job` is how far
the one call under way has come, with the local variables of the code that are
read after a write: `job.sector` is the sector buffer of
`allocate_free_cluster()`, which `Scan`, `Mark`, `Reread` and `Link` share.  Every
write may be refused, having happened or not, and the power may fail between two
(`PowerFails` mounts again with what `fsinfo` holds).  Directories are real: names
are runs of long entries closed by a short one, `AddToDirectory` and `Grow` place
them, `Delete` frees what `DELETE_FILE` frees.  `unlink()` comes to free clusters
when `DELETE_FILE` was refused a write, whose error number, 1, it takes for the
first cluster (`Misled`): `Unchain` reads the sector of an entry and looks for it
at a place in bytes of a buffer of words (`fat.c:760`), which is another entry or
lies behind the sector, where the stack holds anything; `Zero` writes the sector
to each copy and goes on with what was found; `WriteCount` ends it.  Of data it
keeps which cluster is written.

**DiskServer** composes the serve() loop with loaders (`exec()`, `elf_load()`)
over the actions of `Rendezvous`: `Line!Call` is a library call's `pipe_send()`,
`Line!Take` the server's `pipe_receive()`, `Line!Answer` its `pipe_reply()`.  A
server that is already waiting takes the call in a step of its own.  Between two
system calls the server touches only what is its own, so one action is one
`pipe_memcpy()` with the `read()` before it; the clamp of `pipe.c:439` is left
out, since the library's buffers are as long as what it asks for.  `got[c]` is a loader's destination,
with `Junk` where nothing was written.  The files themselves never change.  A
request also says where its sender means to read (`start`), which the program's
messages do not and the properties need.

**ProcessList** goes below `Dispatcher`: one record of pointers (`head`, `tail`,
`top`, `sleepers`, `free`, and `next` of every process) and one operator per
function of the code, which leaves stale `next` fields where the code does.

**UsbTransfer** is one transaction: `Fill`, `Start`, `SemaphoreWait` and `Finish`
are the parts of perform_transaction() between which an interrupt may come;
`Acknowledge` and `AcknowledgePort` the handler, in two steps because it waits in
the middle, with interrupts masked, until something is connected.  A request is
`[do, device, to, n]`: what is asked, of which device, at which bus address.  The
controller (`Perform`, `Halt`, `PortChange`) and the devices are external: a
descriptor is performed by a device that listens to the address and expects the
toggle; only the last descriptor interrupts.  `expects[d]` are a device's own
toggles, one for each endpoint, and `toggle[d]` the host's word of bits, one for
each endpoint *number*: the disk's driver strips the direction
(`host_usb_device_disk.c:304-322`), so that `Save` of IN and OUT may set the same
bit, and `Saved` has them in the code's order.

**UsbBus** adds what the threads ask for.  `todo[t]` is the rest of thread t's
work as a sequence of items: requests, and steps between them such as
`enumerate` or `up`.  A call puts its items in front, so that the recursion of
enumerate() through hubs is a stack, and an early return drops the items of its
device.  A descriptor that never arrived leaves the buffer as it was on the
stack, so that any part of the items of that device may be skipped.  Left out:
what descriptors say beyond the kind of a device, delays, writing, disks beyond
2 TB, and the setting up of registers.

### Undefined behaviour

Address 0 of the i.MX6Q is its boot ROM: following NULL does not trap, it reads
junk and goes on.  `Pipes` keeps this as `wild = TRUE`, an absorbing state where
the model ends; nothing is claimed after it, and `Answered` says "or wild"
where it applies.  `Semaphores` simply has no creation from an empty pool.

### Assumptions on programs

The kernel checks no argument of a system call.  The programs of `Pipes` are
assumed to use a pipe they created, to send on one that is connected, and to
reply only to messages they received and have not answered.  `OneAtATime`
programs also reply before they receive again, as `server_disk.c` does.
`Closers` may close, exit, and be started again.

## 3. Runs

| Run | Instance | Checks |
|---|---|---|
| `kernel` | 2 boot threads, 1 spare process, 2 spare spaces, 4 pages, 2 semaphores up to 1 | type, one list per process, value/sleepers, thread counts, pages, memory of what runs, discipline, losses, every ready process runs unless a handler polls for ever |
| `pipes` | server and 2 clients, 3 pipes, 3 tasks | ownership and sleep invariants, refinement of Rendezvous, every call answered |
| `pipes_close` | 2 peers and a client, one closer, 3 pipes, 2 tasks | ownership and sleep invariants when pipes and tasks are recycled; whom recycling may forget |
| `process_list` | 2 boot threads, 2 spare processes, 2 semaphores | lists disjoint, ends meet, refinement of Dispatcher |
| `disk_server` | server and 2 loaders, 5 pipes, a file of 11 bytes in blocks of 2, read in pieces of 4 | what fread() delivers and where it leaves the file, no NULL followed while pipes last, every call answered |
| `disk_server_segments` | as `disk_server` | finding: `SegmentsLoaded` fails |
| `usb_bus` | 5 buses of up to 5 devices and one of a disk alone, a boot thread and a server; one disk uses a single endpoint number | whose signal a transaction goes on at, who hears a request, toggles, descriptors shared by nobody, a disk is mounted |
| `memory` | the server and 2 spare processes, 2 spare spaces of 7 entries, 6 pages | a page is in one place, whoever runs does so in its own table, stacks and heaps are mapped and apart, blocks of the heap do not overlap, refinement of Processes |
| `fat_volume` | 9 entries of FAT in 3 sectors, twice; 2 names, 4 calls, 1 refused write or power failure | chains are chains in every copy at any moment, copies and counts agree after calls, no other file leaves the directory |
| `usb_two_disks` | a hub with two disks, the second without FAT32 | finding: `DeadIfUnreadable` fails |
| `pipes_close_event` | as `pipes_close` | finding: `CloseReachesOtherEnd` fails |
| `pipes_leak` | as `pipes` | finding: `TasksReturned` fails |

Bounds.  `MaxValue` is the only counter bound: a semaphore is signalled up to
it, so values run from minus the number of processes to 1, which has both signs,
the crossing, and the double signal.  Four pages make a spawn succeed twice, or
a thread and a heap extension compete with it, and run out in the middle of
each.  Two semaphores are needed for a process to be on the wrong one; three
processes beside idle for one to overtake another while a third runs.  Three
tasks let a client's message be in line while another is in the server's hands
and a receiver waits; fewer tasks in `pipes_close` keep closing and recycling
small, and two still give one dead and one live.  Pools smaller than the code's
make exhaustion reachable.  In `disk_server` the reads are of nothing, of exactly one piece and of
three; from the start, from the middle of a block, and of the last byte; five
pipes serve the server and two loads, and the next goes wild.  `Fseek` with
`SEEK_CUR` stays within the file.
`usb_bus` has five devices, a hub behind a hub, an empty port, and a
`MAX_USB_DEVICES` of 5, so that `device_list` fills up; three port changes are
plugging in, pulling out and plugging in again, which leaves signals nobody
waited for; one refusal may hit any descriptor.  There is one disk in each of
its buses: with two, the boot thread and the server share descriptors, and
`Exclusive` says so in its condition.  The disk of the second bus has one
number for IN and OUT, for which `TogglesAgree` claims less and `Boots` nothing;
without these conditions TLC finds both violated there, with no refusal, port
change or mouse.

In `memory` six pages are what one program needs to bring its stacks down to its
heap (its table, its first stack, two further threads, of which the first takes
two pages because `add()` counts one too many, and a page of heap), and
two programs and the server's heap compete for them, so that a spawn, a thread and
an extension run out at each point of each.  `Grow` asks for less than a page, from
`HighestBreak` at most, and for so much that the end wraps; `LowestStack` lets a
stack meet the heap, and without that case among the conditions of `MemoryUsable`
TLC finds it violated.  Clusters of 2 and 5 units lie on either side of `NALLOC`,
and `MaxBlocks` lets a third file be opened, which is the one to ask for less.
Pages, and spare spaces, are symmetric: no action and no property tells them
apart, and the property that is temporal is a refinement of safety.

In `fat_volume` three sectors make the table longer than the buffer, two copies
disagree for as long as it takes to write the second, five entries to a directory
cluster and two to a name make the directory grow on the second creation, and
`Lengths` are one, three and four clusters: more than `longest <= 3` allows, so
that the condition is seen to be needed. Of 16 cluster numbers the table has 9:
the numbers with their halves exchanged are those of other clusters, of the
sectors in front of them, and of none. Four calls reach create, write, delete and
create again in freed entries; one fault may fall on any of their writes.  With
entries of 2 bytes, 3 to a sector, `Unchain` finds some entries at another's place
and others behind the sector; without its condition `~misled` TLC finds
`ChainsSound` violated, and with entries of 3 bytes `FilesStay` too, when the
directory's first cluster is freed and given to a file.
A volume that gives a file what is in front of its clusters, after entry 0 or 1
was freed, is followed no further (`Wild`).

Fairness.  `reset()` enables the timer and nothing disables it, so it interrupts
again and again whoever runs with interrupts enabled: `WF(Tick)` in `Kernel`,
where `Tick` waits until no handler polls.  Keys and connections have no
fairness, since nothing makes them come, and `EventuallyRuns` says *or a handler
polls for ever*.  (A program that takes an abort hangs the machine in its
handler, `atose.c:130-166`; no program of the models does.)  The models of one
subsystem leave the polls out and assume that they end: in `Pipes`, `WF(Tick)`
is the timer while no program asks for a key and no port is being connected;
`DiskServer` and `UsbBus` assume as much of keys, and `UsbBus` has the wait for the
port itself (`isr = "port"`).  For `Answered`, a program that binds a port
is assumed to *serve*: `SF` on receiving when work waits at its pipe, and `SF`
on answering what it has received, since a server acts only while it has the
processor, over and over (`server_disk.c:42-127` is such a loop).  Nothing is
assumed of clients.  `FairSpec` of `DiskServer` gives the server's own steps weak
fairness, which is `EventuallyRuns` for that one thread.  `FairSpec` of
`UsbBus` gives weak fairness to the two threads (again `EventuallyRuns`), to the
interrupt, and to a controller with descriptors to perform; none to refusals and
port changes.  Deadlock is checked in the kernel, memory and process list runs;
the pipe runs may end in `wild`, on the bus the boot thread exits and an
unanswered transfer hangs, and in `fat_volume` a call may hang or go wild.  The
safety of `memory` and `fat_volume` needs no fairness and assumes none.

## 4. Proofs

* `DispatcherProofs`: every behaviour of `QueueNext` keeps `OnePlace`, never
  idles with work (`WorkConserving`) and never overtakes (`NoOvertaking`).  The
  invariant is inductive as it stands, given types.
* `KernelProofs`: `OneList` and `SemaphoreBalance` together form the inductive
  invariant.  Neither is inductive alone: a signal that pops a stack needs the
  value to say that there is a sleeper, and pushing that sleeper keeps it in one
  list only if it was in no other.  From it follow the refinement
  (`KernelKeepsQueueDiscipline`: each semaphore and process action is a
  `QueueNext` step), hence `KernelWorkConserving` and `KernelNoOvertaking`
  by the theorems about `Dispatcher`, and `KernelLosesNoOther`.
  Then, on top of these, the address spaces: `TypeOK`, `ThreadCount` and
  `RunnableHasMemory`.  What makes
  `ThreadCount` inductive: whoever runs or may be woken is *housed* (its space is
  not in the pool, has a positive count and at least two pages), and nobody's
  space is in the pool.  An exit needs all of it, with the list invariant saying
  that the process that leaves is on no other list.  `PageConservation` follows
  step by step, since every entry moves pages between the MMU and one space
  (`PagesMoved`); that the space exists is `Housed` again.
* `ProcessListProofs`: `ListsDisjoint`, `EndsMeet` and `ImplementsQueues`.  The
  pointers *hold* lists: one for each place a list starts at, tidy, that is
  without repeats and without a common member, and nobody on them is Idle or
  running (`Settled`).  Each function of the model then has a lemma that says
  which list it changes, and the argument is always that the next fields it
  writes belong to nobody on another list (`Replaced`).  A process that is taken
  off a list keeps its next field, which is why the invariant has to say that it
  is *loose* until it is pushed.  `WalkIs`, by induction along the list, turns
  this into statements about what a loop over the pointers finds, and
  `EntryStands` into steps of `Dispatcher`.
* `SpaceProofs`, in six parts.  `PagesStayInPlace`: `PageInOnePlace` holds of every
  behaviour of `Heap`, and so of `AddressSpaces` under it.  The inductive
  invariant `MemInv` adds the types of the page tables, and `Housed`: whoever runs
  or is ready has a space.  Without it the page a system call maps would go to
  no space in particular.  Each kernel entry is one or two of three moves: `Move`
  takes free pages to one space, a release gives all of one back, a switch
  touches none (`PagesMove`, `MapKeeps`, `AddKeeps`).
  On top of `MemInv`, `ThreadsInv` is the argument
  of `KernelProofs` again, for the steps with real pages: counts are right, and
  whoever runs or may be woken is in a space with a count.  `TablesInv`: a space with
  threads owns the page its table is in; a failed spawn takes a table's page for
  a space nobody is in, so that its condition is the count.  With the register
  set by every context switch these give `RunnerInItsSpace`.  `Sound(a, members)`
  is what addresses have to do with entries: the break is below the lowest stack,
  whatever is mapped above the heap is a writable stack's, and the heap is mapped
  up to the break.  `UnspoiltMemoryUsable` needs all of it, since a new stack is
  writable only if no heap page was there before, and is nobody's only if the
  stack break is below every stack given out; the lemmas compute with the
  quotients and remainders of `Extent`.  `PagesAreCounted` is the refinement of
  `Processes`: the pages a step maps are as many as the entries it supplies, a
  new stack has at most two (`StackExtent`), and what an exit gives back was not
  free already, which is `PageInOnePlace`.  `HeapStaysSound` assumes `Roomy`, that
  the address space has room for `MaxBlocks` blocks (the run's instance has): the code has no such
  limit, and a break that wraps would hand out the heap a second time.  Its invariant
  `Stacked` has every block, in use or free, below the last one that `morecore()` asked for,
  so that a new one begins behind them all as long as requests do not shrink; and the heap has grown
  at most once for each block in use, counting a free one that the next file fits in
  (`Reserve`): a failed open gives its structure back, and the next one grows nothing.
  `FreedIs` and `TakenIs` are what KR_free() and KR_malloc() make of the list.
* `PipeProofs`: the invariant `PipeInv` has the tasks in line, in hand, used to
  wait and in the pool disjoint, each task in line or in hand naming a living
  sender, whoever has one asleep and without another (`OwnTask`, `OneHolder`), and
  nobody waiting in receive() at a pipe with work.  `OneOwner` alone says where a
  task is and not what wakes when it moves; `WaiterSleeps` alone breaks when a
  task is handed out twice.  From it: `PipesWaiterSleeps`, `PipesOneOwner`,
  `PipesNoneWaitsByWork` and `PipesForgottenOnlyByReuse`, whoever closes or exits.
  `PipesKeepPromise`, the refinement of
  `Rendezvous`, assumes that nobody closes or exits, as the property's run
  does: the code forgets messages otherwise.  It needs one more invariant, that
  then no pipe or task in use is recycled (`NothingReused`).
* `DiskServerProofs`: `FreadDelivers`, `FreadKeepsPosition` and `NullOnlyBetween`
  (`ReadDelivers`, `PositionKept`, `WildOnly`), by `ServerInv`.  A loader that waits
  has one message, in line or in the server's hands (`LineInv`); so the server's
  steps are about that loader alone, and every other keeps its file and its
  destination (`Others`).  Of a read under way, `Reading` says that the server has
  done a number of whole pieces and `Progress` what they amount to: unless one of
  them was split, the file is where they end and the destination holds them.
  `PositionKept` alone is not inductive, for it says nothing until the answer is
  there.  One more piece is `Advances`, from `ReadReturnsTheFile` and
  `ReadMovesOffset`; a last one that the file cannot fill is part of it.
  `WildOnly` needs `JoinedInv`: whoever may send has joined the shared pipe after
  it was last made, or somebody is between making and joining it.
  Under these, about `FileSystem`: `ReadReturnsTheFile`, that a `read()` copies exactly the
  bytes from the offset on, in order, to the end of the file at most, whatever
  the sizes of block and file; `ReadMovesOffset`, where it leaves the offset,
  which is finding 3 stated exactly.  The argument: the three parts are runs of
  positions, each starting where the one before ends (`PartsAddUp`, `JoinRuns`).
* `UsbBusProofs`: what is to be done is a sequence, so the invariants say what
  that sequence may be. `Stages` (`Valid`, `Shape`, `Tree`): its items name
  devices that are in the list of addresses, the opening comes before the
  enumerations and these before the mounts, no device is enumerated twice, and the
  server has work only when the volume is good. With one disk, the boot thread has
  none by then: `SpecExclusive`. `Phased` says in which order a transaction goes
  (descriptors are prepared before anybody sleeps), and `Tokens` counts: the
  signals that are in the semaphore, in a status bit not yet acknowledged, half
  way through `acknowledge()` or just taken by the thread that woke (`Given`) are
  as many as the waits that are due (`Due`). `SpecWaitsForReply` is not inductive
  without it: a single signal too many ends some later wait before its reply. For
  `SpecOneListener` the addresses have to agree with what is left of the sequence
  (`SpecAddressed`, while nothing goes wrong, `Calm`): a request goes to a device
  that has the address or is given it on the way (`Renamed`); those to address 0
  come first and are one device's, up to its renaming (`Unnamed`); nobody else is
  at 0 but a device whose enumeration comes before any other and before another
  reset (`Awaited`); each enumeration follows the reset of its port (`Resets`,
  `Reset`). A request that changes an address has done so with its last
  descriptor, before the thread that asked goes on; `Remaining` is the sequence as
  the devices see it then. `SpecTogglesAgree` adds `InStep`: while a transfer is
  under way the record of the host may differ from the devices at the endpoints
  that this request is going to save, and nowhere else. It is about the endpoints
  that are `Tracked`: every IN, and OUT where it has a number of its own. `SavedIs`
  has what two writes to one word leave: IN is saved last, so its bit is its own.
* `FatVolumeProofs`: `ChainsStaySound`, `VolumeSettles` and `FilesStayThere`. A
  sector is written from a buffer, so the first thing to show is that one write
  changes one entry of the table and leaves the rest of the sector as the first
  copy has it (`PutIs`, `MarkEffect`, `LinkEffect`); this is where the buffer
  shared by the scan and the link counts, and where a fourth cluster breaks it.
  `AllocInv` says for each point of an allocation what the buffer holds, and that
  the sectors the scan has passed are full: with three clusters at most, either
  the buffer was read again or there is nothing free in it. `Sound` is more than
  `ChainsSound`: that no cluster, in use or not, leads to a free one, in any copy;
  and that the first copy, which is written first, has every link the others have.
  For `Settled`, `Agreeing` counts the free entries with the one that is taken and
  not yet subtracted (`Ahead`), and lets the copies differ in the entry that is
  being written (`Odd`). For `FilesStay`, the search is a path of clusters, and
  what a step has to leave alone is `KeepsWay`: each cluster the search may pass
  keeps its successor, unless it was the last; it keeps its entries of the file,
  and gets no end of the list in front of them. Then the search after the step
  goes the same way (`StaysFound`). What an allocation writes to cannot be on that
  way, because a cluster that is allocated has not been a directory (`Fresh`). The
  exception of the property, a file with a short name alone, is needed in one
  place, `DeleteKeeps`: `DELETE_FILE` begins in another file's entries. The
  exception of both, a deletion that was refused a write, needs an invariant of its
  own (`MisledInv`): `unlink()` is freeing clusters only after such a refusal, so that
  no other step has to be shown to leave these clusters alone. The last
  two theorems assume that the volume has a second copy of the table, as FAT32
  volumes do: with one copy, the bytes of a file without clusters may go to the
  only table.
* Where a proof goes through a number of steps (along a list, a path, or a sum
  over a finite set), it rests on `EveryNumber` or a least element, proved in the
  same module from the well-foundedness of <: induction over the numbers as a fact
  about sets.

They hold for any number of processes, semaphores, spaces, boot threads and pages,
under the named assumptions of `Dispatcher`, `Semaphores`, `Processes`,
`ProcessList`, `AddressSpaces`, `Heap`, `Pipes`, `DiskServer`, `UsbTransfer`,
`UsbBus` and `FatVolume`: Idle is a process, Null is none and no entry of a page
table, the boot threads are distinct, processes, spaces and pages are finitely
many, a buffer takes at least a unit, the address space has room for the boot's
stacks, the disk server is none of its clients, some read is the longest, the boot
thread and the server are two, the devices on a bus are a finite forest (nobody is
behind two ports, and the root behind none) with endpoint numbers below 16, a volume's table has no more entries
than there are cluster numbers, and a name takes two entries of its directory
cluster or more.

Every invariant and action property that a run checks, and every refinement, is a
theorem. Only model-checked: the liveness properties `EventuallyRuns`, `Answered`,
`CallsAnswered` and `Boots`, which need fairness and ENABLED and are out of the
prover's reach. The findings are TLC's counterexamples.

## 5. Findings

1. `pipe.c:95`: close() announces itself at the other end's other end, not "to
   the other end of the pipe".
2. `pipe.c:344`: the task a receive() waits with is never freed.  A server that
   does nothing wrong uses up the pool of 30, and the 31st blocking receive()
   follows NULL.
3. `file_system.c:128`: a read() that ends in part of a block after others moves
   the file on by too much; serve() reads in pieces, so the rest of a long read
   that starts in the middle of a block is wrong (`ReadDelivers` says when it is
   right).
4. `fat.c:33`: initialise() turns the file system to the disk before it knows
   whether it can be read, and leaves `dead_volume` as it was: after a second
   disk without FAT32, "dead" is false of a volume that cannot be read.

Not findings, for want of a line that says otherwise, but real:

*Kernel and server.*  create_process() without pages leaks the process and the
space (`process_manager.c:421`); sleepers of a semaphore are a stack, so that the
first may wait for ever (`semaphore.c:41`); elf_load() never notices that pages
ran out; each load takes two pipes of the pool of ten and returns neither; a call
made while another loader has made but not connected `ATOSE_file_pipe` follows
NULL (`WildOnly` allows both and nothing else); fread() beyond the end of a file
answers as though it had read.

*Memory.*  `sbrk()` hands out the new break as the start of the block
(`malloc.c:71`), which works only because the heap was one extension ahead: a
request smaller than the one before lies in the block of that one.
`HeapSound` says so by `shrunk`, and that no disk with clusters of at most
`NALLOC` units can bring it about.  A data page inside an extent that is already mapped keeps
the rights it had.

*Bus*, as the conditions of the properties name it: of a disk that uses one number
for both endpoints, as 0x81 and 0x01 are, the host keeps one toggle (`host_usb.c:489`,
`:574`): it comes up, and the first read of its mount is dropped as a
repetition and never answered (`Apart`); after a port change a
signal is left over, and every later transaction returns before its transfer
(`Quiet`); the handler clears a transfer's interrupt that comes while it waits
for the port (`host_usb.c:298`); a transfer that fails before its last
descriptor never interrupts, and its thread sleeps for ever (`stalls`); a device given up before
set_address() still answers at address 0, where the next one is
(`AllAddressed`); a mouse's constructor never returns, so that no disk is
mounted (`Boots`).

*FAT*, which no program of the system writes to yet.  The model follows all of
these, and what the properties except is named beside each:

- four clusters added at once corrupt the table: linking to the last cluster
  leaves another sector in the buffer the scan goes on in (`fat.c:915`;
  `longest <= 3`);
- extend() hangs for a file with clusters that is not read to its end
  (`fat.c:1002`; `Hung`), and wastes a cluster and fails for one that is
  (`wasted`);
- the halves of the first cluster's number are stored in each other's place
  (`fat.c:1258` against `:1211`): a file that is closed and opened again
  starts elsewhere (`Swapped`), most often at a number beyond the table (`Wild`);
- unlink() frees no cluster of the file; after a refused write it takes the error
  for a cluster's number, and frees the chain it comes to from there, whoever's it
  is, in every copy of the table (`fat.c:728`, `:743-780`; `misled`);
- unlink() looks for an entry of 4 bytes at its place in bytes of an array of words
  (`fat.c:760`), so that it clears another entry than it means to, or none;
- a file with a short name alone takes others along when it is deleted
  (`fat.c:1228`; the exception of `FilesStay`);
- a short or refused write to an empty file goes to cluster 0, the tail of the
  last copy of the table (`Text` in `Settled`); a new last cluster of the directory
  has stale entries behind the new name; a cluster is linked before it is
  blanked, so that a power failure in between leaves old data to be read as a
  directory (`Astray`, where nothing more is called); the free count on disk is
  not brought up to date when the directory grows.

## 6. Plan

All the modules of section 2 and the proofs of section 4 are done.  What would
come next, in this order:

1. reading and writing at once, when a program of the system calls `write()`: then
   `FatVolume` and `DiskServer` share the file control blocks;
2. names that lie in two clusters of a directory, which `FatVolume` leaves at
   `Wild`;
3. the setting up of the EHCI registers, if a second controller is used.

## 7. Not modelled, and why

Register images and modes (data that no property tells apart); contents of
messages; the ELF loader's checks, API stubs, UART but for the wait in its read(), clock, debug output and the kernel's
bump allocator (sequential, no state worth exploring); the USB device stack and
the set-up of the EHCI registers (hardware); the older i.MX233 system in `src/source`, tests,
tools, examples.  Abort handlers hang the machine, so no behaviour continues
from one.

Of the FAT: names as text (8.3 forms, UCS-2, checksums), FAT+ sizes, dates, and
clusters of several sectors; names that this code wrote lie in one cluster, and
one that would not goes beyond a buffer (`Wild`).  Its caller is assumed to make
one call at a time and to unlink only what it has closed; reads succeed.  The
empty loop of extend() is taken to be kept by the compiler.

Most of the repository is not ATOSE: `src/systems` holds the Freescale platform
SDK and the i.MX boot streams, some 1.9 million lines of register headers,
drivers, image data and demonstration programs as their vendor delivers them.
Measured against all of that the models cover a fraction of a percent; of the
10,500 lines of C++ in `src/source-imx6/` they map some 4,400, which are nearly all
of the scheduler, semaphores, pipes, pools, address spaces, disk server, file
system and heap, most of the FAT, and half of the USB host.
