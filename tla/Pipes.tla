-------------------------------- MODULE Pipes --------------------------------
(***************************************************************************)
(* Message passing (pipe.c) and the pools of pipes and pipe tasks, on top  *)
(* of the scheduler's queues.  A pipe_send() or pipe_post_event() takes a  *)
(* task from the pool and leaves it at the other end; pipe_receive() takes *)
(* it from there, or leaves a task of its own to be filled in.             *)
(*                                                                         *)
(* A program holds at most one pipe at a time, sends only on one that is   *)
(* connected, and answers only a message it has received: it is the kernel *)
(* that is modelled, not its lack of argument checks.                      *)
(*                                                                         *)
(* The boot ROM is mapped at address 0, so a kernel that follows NULL      *)
(* reads junk and goes on with it.  That is kept as wild = TRUE, where the *)
(* model ends: nothing can be said of the steps after it.                  *)
(***************************************************************************)
EXTENDS Dispatcher, FiniteSets

CONSTANTS Pipe, Task,     \* the objects of process_allocator's pools
          Port,           \* the pipe_ids, indexes of pipelist
          Boot,           \* the programs in the ready queue to begin with
          Listens, Talks, \* the ports each program binds, and connects to
          Closers,        \* the programs that close their pipe, and exit
          OneAtATime      \* those that reply before they receive again

ASSUME PipeAssumption ==
    /\ Boot \in Seq(Process \ {Idle}) /\ IsInjective(Boot)
    /\ Null \notin Pipe \cup Task
    /\ {Listens, Talks} \subseteq [Process -> SUBSET Port]
    /\ Closers \subseteq Process /\ OneAtATime \subseteq Process

VARIABLES
    freePipes,   \* free_pipe_head ..
    freeTasks,   \* free_pipe_task_head ..
    pipelist,    \* pipelist[n], the pipe bound to port n
    otherEnd,    \* otherEnd[q], ATOSE_pipe::other_end
    sendQ,       \* sendQ[q], tasks waiting to be received at q
    recvQ,       \* recvQ[q], tasks of the processes blocked in receive at q
    task,        \* task[t], the fields of ATOSE_pipe_task that are read again
    curTask,     \* curTask[p], ATOSE_process::current_pipe_task
    handle,      \* handle[p], the pipe p has created and not closed
    unanswered,  \* unanswered[p], message ids p has received and not replied to
    wild         \* the kernel has followed a NULL pointer

pipeVars == <<freePipes, pipelist, otherEnd, handle>>
mailVars == <<freeTasks, sendQ, recvQ, task, curTask, unanswered>>
vars     == <<queueVars, pipeVars, mailVars, wild>>

\* A task of the pool: what its fields hold is rewritten before it is read.
Blank == [process |-> Null, event |-> FALSE, dead |-> FALSE]

InSendQ == UNION {Range(sendQ[q]) : q \in Pipe}
InRecvQ == UNION {Range(recvQ[q]) : q \in Pipe}
InHand  == UNION {unanswered[p] : p \in Process}

-----------------------------------------------------------------------------
(* Making and joining pipes *)

\* The kernel follows NULL; what it overwrites is not modelled.
GoWild == wild' = TRUE /\ UNCHANGED <<queueVars, pipeVars, mailVars>>

\* ATOSE_pipe_create: malloc_pipe() and initialise().
Create(p) ==
    /\ p = current /\ handle[p] = Null
    /\ \/ freePipes = {} /\ GoWild
       \/ /\ \E q \in freePipes :
                /\ freePipes' = freePipes \ {q}
                /\ otherEnd' = [otherEnd EXCEPT ![q] = Null]
                /\ sendQ' = [sendQ EXCEPT ![q] = <<>>]
                /\ recvQ' = [recvQ EXCEPT ![q] = <<>>]
                /\ handle' = [handle EXCEPT ![p] = q]
          /\ Interrupt
          /\ UNCHANGED <<pipelist, freeTasks, task, curTask, unanswered, wild>>

\* ATOSE_pipe_bind: nothing changes when the port is in use.
Bind(p, n) ==
    /\ p = current /\ handle[p] # Null
    /\ pipelist' = [pipelist EXCEPT ![n] = IF @ = Null THEN handle[p] ELSE @]
    /\ Interrupt
    /\ UNCHANGED <<freePipes, otherEnd, handle, mailVars, wild>>

\* ATOSE_pipe_connect: nothing changes when the port is not bound.
Connect(p, n) ==
    /\ p = current /\ handle[p] # Null
    /\ otherEnd' = [otherEnd EXCEPT ![handle[p]] = IF pipelist[n] = Null THEN @ ELSE pipelist[n]]
    /\ Interrupt
    /\ UNCHANGED <<freePipes, pipelist, handle, mailVars, wild>>

-----------------------------------------------------------------------------
(* Messages and events *)

\* Slips for the properties to catch: an enqueue() that does not look for a
\* receiver, one that stacks the tasks, and a send() that does not sleep.
NeverAnybody(q)   == TRUE
InFront(line, t)  == <<t>> \o line
NeverSleep(event) == Interrupt

\* enqueue() asks whether a receiver is blocked at q; if none is, the task goes
\* to the end of the line.  send() sleeps, but not when it posts an event.
NobodyWaits(q)     == recvQ[q] = <<>>
AtTheEnd(line, t)  == Append(line, t)
SleepUnless(event) == IF event THEN Interrupt ELSE Block

\* enqueue() of a new task t at q with nobody waiting there; tasks is what the
\* handler has made of the task objects so far.
Queue(tasks, q, t, event) ==
    /\ NobodyWaits(q)
    /\ freeTasks' = freeTasks \ {t}
    /\ task' = [tasks EXCEPT ![t] = [process |-> current, event |-> event, dead |-> FALSE]]
    /\ curTask' = [curTask EXCEPT ![current] = t]
    /\ sendQ' = [sendQ EXCEPT ![q] = AtTheEnd(@, t)]
    /\ SleepUnless(event)
    /\ UNCHANGED <<recvQ, unanswered>>

\* enqueue() of a message at q with a receiver waiting: the receiver gets it,
\* and its own task is not given back to the pool.
HandOver(q, t) ==
    LET into == Head(recvQ[q])  s == task[into].process IN
    /\ recvQ[q] # <<>>
    /\ freeTasks' = freeTasks \ {t}
    /\ task' = [task EXCEPT ![into] = Blank,
                            ![t] = [process |-> current, event |-> FALSE, dead |-> FALSE]]
    /\ curTask' = [curTask EXCEPT ![current] = t]
    /\ recvQ' = [recvQ EXCEPT ![q] = Tail(@)]
    /\ unanswered' = [unanswered EXCEPT ![s] = @ \cup {t}]
    /\ WakeAndBlock(s)
    /\ UNCHANGED sendQ

\* enqueue() of an event at q with a receiver waiting: task t goes straight
\* back to the pool, the receiver's does not.
HandOverEvent(tasks, q, t) ==
    LET into == Head(recvQ[q])  s == task[into].process IN
    /\ recvQ[q] # <<>>
    /\ task' = [tasks EXCEPT ![into] = Blank, ![t] = Blank]
    /\ curTask' = [curTask EXCEPT ![current] = Null]
    /\ recvQ' = [recvQ EXCEPT ![q] = Tail(@)]
    /\ Wake(s)
    /\ UNCHANGED <<freeTasks, sendQ, unanswered>>

\* ATOSE_pipe_send, with a reply buffer.
Send(p) ==
    /\ p = current /\ handle[p] # Null /\ otherEnd[handle[p]] # Null
    /\ \/ freeTasks = {} /\ GoWild
       \/ /\ \E t \in freeTasks, q \in {otherEnd[handle[p]]} :
                Queue(task, q, t, FALSE) \/ HandOver(q, t)
          /\ UNCHANGED <<pipeVars, wild>>

\* ATOSE_pipe_post_event.
PostEvent(p) ==
    /\ p = current /\ handle[p] # Null /\ otherEnd[handle[p]] # Null
    /\ \/ freeTasks = {} /\ GoWild
       \/ /\ \E t \in freeTasks, q \in {otherEnd[handle[p]]} :
                Queue(task, q, t, TRUE) \/ HandOverEvent(task, q, t)
          /\ UNCHANGED <<pipeVars, wild>>

\* free() of each task in a set: its sender loses its current_pipe_task,
\* whichever task that is by now.
Freed(ts) == [t \in Task |-> IF t \in ts THEN Blank ELSE task[t]]
FreeAll(ts) ==
    curTask' = [p \in Process |->
                   IF p \in {task[t].process : t \in ts} THEN Null ELSE curTask[p]]

\* Slips: a receive() that leaves the task in line, or loses the whole line.
LeaveHead(line) == line
LoseLine(line)  == <<>>

\* receive() takes the head off the line.
TakeHead(line) == Tail(line)

\* receive() finds live work: an event is finished with, a message is kept.
ReceiveWork(p, q, skipped, line) ==
    LET t == Head(line)
        done == IF task[t].event THEN skipped \cup {t} ELSE skipped
    IN
    /\ line # <<>>
    /\ sendQ' = [sendQ EXCEPT ![q] = TakeHead(line)]
    /\ task' = Freed(done) /\ FreeAll(done)
    /\ freeTasks' = freeTasks \cup done
    /\ unanswered' = [unanswered EXCEPT ![p] = IF task[t].event THEN @ ELSE @ \cup {t}]
    /\ Interrupt
    /\ UNCHANGED <<recvQ, wild>>

\* receive() finds none and queues a task of its own to wait with.
ReceiveNothing(p, q, skipped, line) ==
    /\ line = <<>>
    /\ \/ freeTasks \cup skipped = {} /\ GoWild
       \/ \E t \in freeTasks \cup skipped :
             /\ task' = [Freed(skipped) EXCEPT
                          ![t] = [process |-> p, event |-> FALSE, dead |-> FALSE]]
             /\ FreeAll(skipped)
             /\ freeTasks' = (freeTasks \cup skipped) \ {t}
             /\ sendQ' = [sendQ EXCEPT ![q] = <<>>]
             /\ recvQ' = [recvQ EXCEPT ![q] = Append(@, t)]
             /\ Block
             /\ UNCHANGED <<unanswered, wild>>

\* ATOSE_pipe_receive: the dead tasks at the front of the line are thrown away.
Receive(p) ==
    /\ p = current /\ handle[p] # Null
    /\ p \in OneAtATime => unanswered[p] = {}
    /\ \E n \in 0 .. Len(sendQ[handle[p]]) :
          LET q == handle[p]
              skipped == {sendQ[q][i] : i \in 1 .. n}
              line == SubSeq(sendQ[q], n + 1, Len(sendQ[q]))
          IN
          /\ \A t \in skipped : task[t].dead
          /\ line # <<>> => ~task[Head(line)].dead
          /\ ReceiveWork(p, q, skipped, line) \/ ReceiveNothing(p, q, skipped, line)
    /\ UNCHANGED pipeVars

\* A reply() that wakes nobody.
WakeNobody(t) == Interrupt

\* reply() wakes the process that sent the message.
WakeClient(t) == Wake(task[t].process)

\* ATOSE_pipe_reply: the message is freed whether or not it is dead.
Reply(p, t) ==
    /\ p = current /\ t \in unanswered[p]
    /\ unanswered' = [unanswered EXCEPT ![p] = @ \ {t}]
    /\ task' = Freed({t}) /\ FreeAll({t})
    /\ freeTasks' = freeTasks \cup {t}
    /\ WakeClient(t)
    /\ UNCHANGED <<pipeVars, sendQ, recvQ, wild>>

\* ATOSE_pipe_close by the owner: the last thing it sent is marked dead, and an
\* event goes to the other end of the other end.
Close(p) ==
    LET h == handle[p]
        r == otherEnd[h]
        q == otherEnd[r]
        killed == IF curTask[p] = Null THEN task ELSE [task EXCEPT ![curTask[p]].dead = TRUE]
    IN
    /\ p = current /\ p \in Closers /\ h # Null
    /\ \/ r = Null /\ GoWild
       \/ r # Null /\ (q = Null \/ freeTasks = {}) /\ GoWild
       \/ /\ r # Null /\ q # Null
          /\ \E t \in freeTasks : Queue(killed, q, t, TRUE) \/ HandOverEvent(killed, q, t)
          /\ handle' = [handle EXCEPT ![p] = Null]
          /\ freePipes' = freePipes \cup {h}
          /\ UNCHANGED <<pipelist, otherEnd, wild>>

\* ATOSE_exit, as far as pipes are concerned: nothing of them is cleaned up,
\* but the message ids the program knew are gone.
Exit(p) ==
    /\ p = current /\ p \in Closers
    /\ unanswered' = [unanswered EXCEPT ![p] = {}]
    /\ Retire
    /\ UNCHANGED <<pipeVars, freeTasks, sendQ, recvQ, task, curTask, wild>>

\* ATOSE_spawn or ATOSE_begin_thread: the process object starts afresh.
Start(p) ==
    /\ current # Null /\ p \in Closers
    /\ Admit(p)
    /\ handle' = [handle EXCEPT ![p] = Null]
    /\ curTask' = [curTask EXCEPT ![p] = Null]
    /\ UNCHANGED <<freePipes, pipelist, otherEnd, freeTasks, sendQ, recvQ, task,
                   unanswered, wild>>

-----------------------------------------------------------------------------

Init ==
    /\ QueueInit(Boot)
    /\ freePipes = Pipe /\ freeTasks = Task
    /\ pipelist = [n \in Port |-> Null]
    /\ otherEnd = [q \in Pipe |-> Null]
    /\ sendQ = [q \in Pipe |-> <<>>] /\ recvQ = [q \in Pipe |-> <<>>]
    /\ task = [t \in Task |-> Blank]
    /\ curTask = [p \in Process |-> Null]
    /\ handle = [p \in Process |-> Null]
    /\ unanswered = [p \in Process |-> {}]
    /\ wild = FALSE

\* The timer; also ATOSE_yield, and ATOSE_pipe_memcpy, which copies into the
\* blocked client's buffer and changes nothing the kernel keeps.
Tick == Interrupt /\ UNCHANGED <<pipeVars, mailVars, wild>>

Next ==
    /\ ~wild
    /\ \/ Tick
       \/ \E p \in Process :
             \/ Create(p) \/ Send(p) \/ PostEvent(p) \/ Receive(p)
             \/ Close(p) \/ Exit(p) \/ Start(p)
             \/ \E n \in Listens[p] : Bind(p, n)
             \/ \E n \in Talks[p] : Connect(p, n)
             \/ \E t \in Task : Reply(p, t)

\* The timer is taken: no program here asks for a key, and no handler waits for
\* a port (Kernel.tla has both), which it could do for ever.
\*
\* A program that is given the processor again and again receives the calls
\* that wait for it, and answers each call it has received.
Serves(p) ==
    /\ SF_vars(~wild /\ handle[p] # Null /\ sendQ[handle[p]] # <<>> /\ Receive(p))
    /\ \A t \in Task : SF_vars(~wild /\ Reply(p, t))

Spec == Init /\ [][Next]_vars

FairSpec ==
    /\ Spec
    /\ WF_vars(~wild /\ Tick)
    /\ \A p \in {s \in Process : Listens[s] # {}} : Serves(p)

-----------------------------------------------------------------------------
(* Properties *)

\* What p sleeps for: its message, or the task it blocked in receive() with.
WaitsFor(p) ==
    {t \in InSendQ \cup InHand \cup InRecvQ : task[t].process = p /\ ~task[t].event}

\* pipe.c, reply(): "the other end *must* be blocking waiting for this reply".
\* Whoever has a message in line or in a server's hands, or a task waiting to
\* receive with, has no other and is asleep: nothing copies into the buffers
\* of a program that runs.
WaiterSleeps ==
    \A p \in Process : WaitsFor(p) # {} => p \in asleep /\ Cardinality(WaitsFor(p)) = 1

\* A task object is in one place: the pool, one queue of one pipe, or one
\* program's hands.  Twice freed or twice queued, its next field would tie
\* two lists together.
OneOwner ==
    \A t \in Task :
        Cardinality({q \in Pipe : t \in Range(sendQ[q])})
        + Cardinality({q \in Pipe : t \in Range(recvQ[q])})
        + Cardinality({p \in Process : t \in unanswered[p]})
        + (IF t \in freeTasks THEN 1 ELSE 0) <= 1

\* No process is blocked in receive() at a pipe where work waits.
NoneWaitsByWork == \A q \in Pipe : sendQ[q] = <<>> \/ recvQ[q] = <<>>

\* A sleeper is not forgotten: what it waits for goes on existing until it is
\* woken, but for a pipe_create() that recycles the pipe its message is in,
\* and for the exit of the program that has received the message.
ForgottenOnlyByReuse ==
    [][\A p \in asleep : WaitsFor(p) # {} =>
          \/ p \notin asleep'
          \/ WaitsFor(p)' = WaitsFor(p)
          \/ \E q \in freePipes \ freePipes' : WaitsFor(p) \subseteq Range(sendQ[q])
          \/ current # Null /\ WaitsFor(p) \subseteq unanswered[current] /\ current \notin Scheduled']_vars

\* With nobody closing or exiting, a pipe is a line of calls and events, each
\* received once, in order, and each call answered once.
Caller == [t \in Task |-> IF task[t].event THEN Null ELSE task[t].process]

Promise == INSTANCE Rendezvous WITH
    Event   <- Null,
    calls   <- [q \in Pipe |-> [i \in DOMAIN sendQ[q] |-> Caller[sendQ[q][i]]]],
    serving <- [p \in Process |-> {Caller[t] : t \in unanswered[p]}]

KeepsPromise == Promise!Spec

\* Whoever calls is answered and runs again, unless the kernel runs out of tasks first.
Calling(p) == \E t \in InSendQ \cup InHand : task[t].process = p /\ ~task[t].event
Answered == \A p \in Process : Calling(p) ~> (p \notin asleep \/ wild)

\* pipe.c:475, "Return the task back to the task pool": with no work in any
\* queue and every message answered, every task is in the pool again.
TasksReturned == InSendQ \cup InRecvQ \cup InHand = {} => freeTasks = Task

\* pipe.c:93, "Deliver an event to the other end of the pipe": whoever closes
\* its pipe leaves an event in line at the other end, or wakes a receiver there.
CloseReachesOtherEnd ==
    [][\A p \in {current} \ {Null} :
          handle[p] # Null /\ handle'[p] = Null =>
             LET q == otherEnd[handle[p]] IN
             \/ Len(sendQ'[q]) > Len(sendQ[q])
             \/ Len(recvQ'[q]) < Len(recvQ[q])]_vars

=============================================================================
