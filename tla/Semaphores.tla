----------------------------- MODULE Semaphores -----------------------------
(***************************************************************************)
(* Counting semaphores (semaphore.c) as the system calls and the interrupt *)
(* handlers use them.  Sleepers form a stack, and the pool never gets one  *)
(* back: there is no system call that frees a semaphore.                   *)
(***************************************************************************)
EXTENDS Dispatcher, Integers

CONSTANTS Semaphore,   \* the semaphore objects of process_allocator
          MaxValue     \* bound: signal() is not modelled beyond this value

ASSUME SemaphoreAssumption == MaxValue \in Nat

VARIABLES value,       \* value[s], negative when processes sleep on s
          sleepers,    \* sleepers[s], the most recent first
          freeSems     \* free_semaphore_head ..

semVars == <<value, sleepers, freeSems>>

OnSemaphore == UNION {Range(sleepers[s]) : s \in Semaphore}

SemTypeOK ==
    /\ value \in [Semaphore -> Int]
    /\ sleepers \in [Semaphore -> Seq(Process)]
    /\ freeSems \subseteq Semaphore

-----------------------------------------------------------------------------

\* A signal() that wakes only once the value is positive.
SignalTooLate(s) ==
    /\ value' = [value EXCEPT ![s] = @ + 1]
    /\ IF value'[s] < 0 \/ sleepers[s] = <<>>
       THEN /\ ContextSwitch(current, ready)
            /\ UNCHANGED sleepers
       ELSE /\ sleepers' = [sleepers EXCEPT ![s] = Tail(@)]
            /\ ContextSwitch(current, Append(ready, Head(sleepers[s])))

\* A wake_one() that leaves the process it pushes on the list.
SignalKeepsSleeper(s) ==
    /\ value' = [value EXCEPT ![s] = @ + 1]
    /\ ContextSwitch(current, IF value'[s] > 0 \/ sleepers[s] = <<>>
                              THEN ready ELSE Append(ready, Head(sleepers[s])))
    /\ UNCHANGED sleepers

\* signal(), wake_one() and the context switch that ends the kernel entry.
Signal(s) ==
    /\ value' = [value EXCEPT ![s] = @ + 1]
    /\ IF value'[s] > 0 \/ sleepers[s] = <<>>
       THEN /\ ContextSwitch(current, ready)
            /\ UNCHANGED sleepers
       ELSE /\ sleepers' = [sleepers EXCEPT ![s] = Tail(@)]
            /\ ContextSwitch(current, Append(ready, Head(sleepers[s])))

\* acknowledge() of the USB host's interrupt signals its semaphore once for a
\* finished transfer and once for a change at the port, and both may be pending.
SignalTwice(s) ==
    LET line == sleepers[s]
        alone == value[s] + 2 > 0 \/ Len(line) = 1
    IN
    /\ value' = [value EXCEPT ![s] = @ + 2]
    /\ \/ /\ value[s] + 1 > 0 \/ line = <<>>
          /\ ContextSwitch(current, ready)
          /\ UNCHANGED sleepers
       \/ /\ value[s] + 1 <= 0 /\ line # <<>> /\ alone
          /\ sleepers' = [sleepers EXCEPT ![s] = Tail(@)]
          /\ ContextSwitch(current, Append(ready, line[1]))
       \/ /\ value[s] + 1 <= 0 /\ line # <<>> /\ ~alone
          /\ sleepers' = [sleepers EXCEPT ![s] = Tail(Tail(@))]
          /\ ContextSwitch(current, Append(Append(ready, line[1]), line[2]))

\* ATOSE_semaphore_create.  With the pool empty the handler calls clear()
\* through NULL; the model stops short of that.
SemCreate ==
    /\ current # Null
    /\ \E s \in freeSems :
          /\ freeSems' = freeSems \ {s}
          /\ value' = [value EXCEPT ![s] = 0]
          /\ sleepers' = [sleepers EXCEPT ![s] = <<>>]
    /\ ContextSwitch(current, ready)
    /\ UNCHANGED asleep

\* ATOSE_semaphore_clear: sleepers, if any, are forgotten, not woken.
SemClear(s) ==
    /\ current # Null
    /\ value' = [value EXCEPT ![s] = 0]
    /\ sleepers' = [sleepers EXCEPT ![s] = <<>>]
    /\ ContextSwitch(current, ready)
    /\ UNCHANGED <<asleep, freeSems>>

\* ATOSE_semaphore_signal.
SemSignal(s) ==
    /\ current # Null
    /\ value[s] < MaxValue
    /\ Signal(s)
    /\ UNCHANGED <<asleep, freeSems>>

\* A device driver's acknowledge() signals its semaphore, with or without a
\* current process, and isr_irq() switches context.
DeviceInterrupt(s) ==
    /\ \/ value[s] < MaxValue /\ Signal(s)
       \/ value[s] + 1 < MaxValue /\ SignalTwice(s)
    /\ UNCHANGED <<asleep, freeSems>>

\* ATOSE_semaphore_wait.
SemWait(s) ==
    /\ current # Null
    /\ value' = [value EXCEPT ![s] = @ - 1]
    /\ IF value'[s] < 0
       THEN /\ sleepers' = [sleepers EXCEPT ![s] = <<current>> \o @]
            /\ ContextSwitch(Null, ready)
       ELSE /\ ContextSwitch(current, ready)
            /\ UNCHANGED sleepers
    /\ UNCHANGED <<asleep, freeSems>>

SemInit ==
    /\ value = [s \in Semaphore |-> 0]
    /\ sleepers = [s \in Semaphore |-> <<>>]
    /\ freeSems = Semaphore

SemNext ==
    \/ SemCreate
    \/ \E s \in Semaphore \ freeSems :
          SemWait(s) \/ SemSignal(s) \/ SemClear(s) \/ DeviceInterrupt(s)

-----------------------------------------------------------------------------
(* Properties *)

\* The counter and the list agree: a negative value counts exactly the
\* processes asleep on the semaphore, a value of zero or more means nobody
\* sleeps.  Were it to break, a signal would wake nobody while someone waits,
\* or a wait would not sleep when it should.
SemaphoreBalance ==
    \A s \in Semaphore : Len(sleepers[s]) = IF value[s] < 0 THEN -value[s] ELSE 0

=============================================================================
