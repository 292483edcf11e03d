------------------------------ MODULE PipeProofs ------------------------------
(***************************************************************************)
(* Proofs about Pipes.tla, for any processes, pipes and tasks and for any  *)
(* programs: where a task object may be, who sleeps for which, and that    *)
(* pipes keep what Rendezvous promises.                                    *)
(***************************************************************************)
EXTENDS Pipes, DispatcherProofs, SequenceTheorems, FiniteSetTheorems

\* The places a task that somebody holds may be in.
InUse == InSendQ \cup InRecvQ \cup InHand

\* The types of what says who holds which pipe, and where it leads.
EndsTypeOK ==
    /\ freePipes \subseteq Pipe
    /\ pipelist \in [Port -> Pipe \cup {Null}]
    /\ otherEnd \in [Pipe -> Pipe \cup {Null}]
    /\ handle \in [Process -> Pipe \cup {Null}]

\* The three fields that every task has.
TaskTypeOK(tasks) ==
    tasks \in [Task -> [process : Process \cup {Null}, event : BOOLEAN, dead : BOOLEAN]]

\* The types of the task objects and of the places they may be in.
MailTypeOK ==
    /\ freeTasks \subseteq Task
    /\ sendQ \in [Pipe -> Seq(Task)] /\ recvQ \in [Pipe -> Seq(Task)]
    /\ TaskTypeOK(task)
    /\ curTask \in [Process -> Task \cup {Null}]
    /\ unanswered \in [Process -> SUBSET Task]

\* The queues, the programs' hands and the pool are disjoint, and no queue
\* holds a task twice.
Apart ==
    /\ \A q \in Pipe : IsInjective(sendQ[q]) /\ IsInjective(recvQ[q])
    /\ \A q, r \in Pipe, t \in Task :
          \/ t \in Range(sendQ[q]) /\ t \in Range(sendQ[r])
          \/ t \in Range(recvQ[q]) /\ t \in Range(recvQ[r])
          => q = r
    /\ \A p, s \in Process, t \in Task :
          t \in unanswered[p] /\ t \in unanswered[s] => p = s
    /\ InSendQ \cap InRecvQ = {} /\ InSendQ \cap InHand = {} /\ InRecvQ \cap InHand = {}
    /\ freeTasks \cap InUse = {}

\* Only a message is received or answered, and only an event is ever dead.
MessagesLive ==
    /\ \A t \in InUse : task[t].process \in Process /\ (task[t].dead => task[t].event)
    /\ \A t \in InRecvQ \cup InHand : ~task[t].event

\* Whoever has a message or a receiver's task in use sleeps, and has no other.
CallersSleep ==
    \A t, u \in InUse :
        ~task[t].event =>
            /\ task[t].process \in asleep
            /\ ~task[u].event /\ task[u].process = task[t].process => t = u

\* current_pipe_task is a task of that process, neither free nor one it waits
\* in receive() with: close() can only mark what its caller has sent.
OwnTask ==
    \A p \in Process : curTask[p] # Null =>
        /\ task[curTask[p]].process = p
        /\ curTask[p] \notin freeTasks \cup InRecvQ

\* A pipe has one holder, only its holder is blocked in receive() at it.
OneHolder ==
    /\ \A p \in Process : handle[p] # Null =>
          /\ handle[p] \notin freePipes
          /\ \A s \in Process : handle[s] = handle[p] => s = p
    /\ \A q \in Pipe : \A t \in Range(recvQ[q]) : handle[task[t].process] = q

\* What the mail of the processes keeps to, whoever holds the pipes.
MailInv ==
    /\ QueueTypeOK /\ OnePlace
    /\ MailTypeOK /\ Apart /\ MessagesLive /\ CallersSleep /\ OwnTask /\ NoneWaitsByWork

\* The inductive invariant of the pipes.
PipeInv == MailInv /\ EndsTypeOK /\ OneHolder

-----------------------------------------------------------------------------
(* Queues of tasks *)

\* A task put at the end of a queue is added to it, once.
LEMMA PutLast ==
    ASSUME NEW line \in Seq(Task), IsInjective(line),
           NEW t \in Task, t \notin Range(line)
    PROVE  /\ Append(line, t) \in Seq(Task)
           /\ IsInjective(Append(line, t))
           /\ Range(Append(line, t)) = Range(line) \cup {t}
<1> DEFINE r == Append(line, t)
<1>1. r \in Seq(Task) /\ DOMAIN r = 1..(Len(line) + 1) /\ DOMAIN line = 1..Len(line)
  OBVIOUS
<1>2. \A i \in 1..Len(line) : r[i] = line[i]
  OBVIOUS
<1>3. r[Len(line) + 1] = t
  OBVIOUS
<1>4. IsInjective(r)
  BY <1>1, <1>2, <1>3 DEF IsInjective, Range
<1>5. Range(r) = Range(line) \cup {t}
  BY <1>1, <1>2, <1>3 DEF Range
<1> QED
  BY <1>1, <1>4, <1>5

\* Dropping n tasks from the front of a queue splits its tasks in two.
LEMMA DropFront ==
    ASSUME NEW line \in Seq(Task), IsInjective(line), NEW n \in 0 .. Len(line)
    PROVE  LET front == {line[i] : i \in 1 .. n}
               rest  == SubSeq(line, n + 1, Len(line))
           IN  /\ rest \in Seq(Task) /\ IsInjective(rest)
               /\ front \subseteq Task
               /\ Range(line) = front \cup Range(rest)
               /\ front \cap Range(rest) = {}
<1> DEFINE front == {line[i] : i \in 1 .. n}
           rest  == SubSeq(line, n + 1, Len(line))
<1>1. /\ rest \in Seq(Task) /\ DOMAIN rest = 1 .. (Len(line) - n)
      /\ DOMAIN line = 1 .. Len(line) /\ Len(line) \in Nat
  OBVIOUS
<1>2. \A i \in 1 .. (Len(line) - n) : rest[i] = line[n + i]
  OBVIOUS
<1> HIDE DEF rest
<1>3. IsInjective(rest)
  <2> SUFFICES ASSUME NEW i \in DOMAIN rest, NEW j \in DOMAIN rest, rest[i] = rest[j]
               PROVE  i = j
    BY DEF IsInjective
  <2>1. n + i \in DOMAIN line /\ n + j \in DOMAIN line /\ line[n + i] = line[n + j]
    BY <1>1, <1>2
  <2>2. n + i = n + j
    BY <2>1 DEF IsInjective
  <2> QED
    BY <1>1, <2>2
<1>4. front \subseteq Task /\ front \subseteq Range(line)
  BY <1>1 DEF Range
<1>5. Range(rest) \subseteq Range(line)
  BY <1>1, <1>2 DEF Range
<1>6. Range(line) \subseteq front \cup Range(rest)
  <2> SUFFICES ASSUME NEW i \in 1 .. Len(line)  PROVE line[i] \in front \cup Range(rest)
    BY <1>1 DEF Range
  <2>1. CASE i <= n
    BY <1>1, <2>1
  <2>2. CASE i > n
    <3>1. i - n \in DOMAIN rest /\ rest[i - n] = line[i]
      BY <1>1, <1>2, <2>2
    <3> QED
      BY <3>1 DEF Range
  <2> QED
    BY <1>1, <2>1, <2>2
<1>7. front \cap Range(rest) = {}
  <2> SUFFICES ASSUME NEW i \in 1 .. n, NEW j \in DOMAIN rest, line[i] = rest[j]
               PROVE  FALSE
    BY DEF Range
  <2>1. n + j \in DOMAIN line /\ i \in DOMAIN line /\ i # n + j /\ line[i] = line[n + j]
    BY <1>1, <1>2
  <2> QED
    BY <2>1 DEF IsInjective
<1> QED
  BY <1>1, <1>3, <1>4, <1>5, <1>6, <1>7 DEF rest

\* Taking the head off a queue splits its tasks in two.
LEMMA TakeFirst ==
    ASSUME NEW line \in Seq(Task), IsInjective(line), line # <<>>
    PROVE  /\ Head(line) \in Task
           /\ Tail(line) \in Seq(Task) /\ IsInjective(Tail(line))
           /\ Head(line) \notin Range(Tail(line))
           /\ Range(line) = {Head(line)} \cup Range(Tail(line))
<1>1. Len(line) \in Nat /\ 1 \in 0 .. Len(line)
  OBVIOUS
<1>2. /\ SubSeq(line, 1 + 1, Len(line)) \in Seq(Task)
      /\ IsInjective(SubSeq(line, 1 + 1, Len(line)))
      /\ {line[i] : i \in 1 .. 1} \subseteq Task
      /\ Range(line) = {line[i] : i \in 1 .. 1} \cup Range(SubSeq(line, 1 + 1, Len(line)))
      /\ {line[i] : i \in 1 .. 1} \cap Range(SubSeq(line, 1 + 1, Len(line))) = {}
  BY <1>1, DropFront
<1>3. Head(line) = line[1] /\ {line[i] : i \in 1 .. 1} = {line[1]}
  OBVIOUS
<1>4. Tail(line) = SubSeq(line, 1 + 1, Len(line))
  BY <1>1, SubSeqProperties, HeadTailProperties, SeqEqual
<1> QED
  BY <1>2, <1>3, <1>4

-----------------------------------------------------------------------------
(* Steps of the mail *)

\* What close() has made of the task objects when it comes to enqueue(): the
\* last one its caller sent may have been marked dead.
Marked(tasks) ==
    /\ TaskTypeOK(tasks)
    /\ \A x \in Task :
          /\ tasks[x].process = task[x].process /\ tasks[x].event = task[x].event
          /\ tasks[x].dead => task[x].dead \/ x = curTask[current]

\* Nobody new waits in receive() after the step.
OnlyOldReceivers ==
    \A r \in Pipe : \A x \in Range(recvQ'[r]) :
        x \in Range(recvQ[r]) /\ task'[x].process = task[x].process

\* Whoever slept for a message or in receive() is woken, or sleeps on for it.
NoneForgotten ==
    \A x \in InUse : ~task[x].event =>
        \/ task[x].process \notin asleep'
        \/ x \in InUse' /\ task'[x].process = task[x].process /\ ~task'[x].event

\* The mark never falls on a message that somebody waits by.
LEMMA MarkedLive ==
    ASSUME MailInv, current \in Process, NEW tasks, Marked(tasks), NEW x \in InUse,
           tasks[x].dead
    PROVE  task[x].event
<1>1. x \in Task /\ current \notin asleep
  BY DEF MailInv, MailTypeOK, OnePlace, InUse, InSendQ, InRecvQ, InHand, Range
<1>2. CASE task[x].dead
  BY <1>2 DEF MailInv, MessagesLive
<1>3. CASE x = curTask[current]
  <2>1. curTask[current] # Null
    BY <1>1, <1>3, PipeAssumption
  <2>2. task[x].process = current
    BY <1>3, <2>1 DEF MailInv, OwnTask
  <2> QED
    BY <1>1, <2>2 DEF MailInv, CallersSleep
<1> QED
  BY <1>1, <1>2, <1>3 DEF Marked

\* The tasks in use are task objects.
LEMMA InUseTasks ==
    ASSUME MailTypeOK
    PROVE  InSendQ \subseteq Task /\ InRecvQ \subseteq Task /\ InHand \subseteq Task
  BY DEF MailTypeOK, InSendQ, InRecvQ, InHand, Range

\* enqueue() with nobody waiting keeps the mail in order.
LEMMA QueueKeeps ==
    ASSUME MailInv, current \in Process, NEW tasks, Marked(tasks),
           NEW q \in Pipe, NEW t \in freeTasks, NEW event \in BOOLEAN,
           Queue(tasks, q, t, event)
    PROVE  MailInv' /\ OnlyOldReceivers /\ NoneForgotten
<1> DEFINE new == [process |-> current, event |-> event, dead |-> FALSE]
<1>1. /\ recvQ[q] = <<>>
      /\ freeTasks' = freeTasks \ {t}
      /\ task' = [tasks EXCEPT ![t] = new]
      /\ curTask' = [curTask EXCEPT ![current] = t]
      /\ sendQ' = [sendQ EXCEPT ![q] = Append(sendQ[q], t)]
      /\ recvQ' = recvQ /\ unanswered' = unanswered
  BY DEF Queue, NobodyWaits, AtTheEnd
<1>2. IF event THEN Interrupt ELSE Block
  BY DEF Queue, SleepUnless
<1>3. t \in Task /\ t \notin InUse /\ InUse \subseteq Task /\ current \notin asleep
  BY InUseTasks DEF MailInv, MailTypeOK, Apart, OnePlace, InUse
<1>4. QueueTypeOK' /\ OnePlace'
  BY <1>2, QueueStep DEF MailInv
<1>5. asleep' = IF event THEN asleep ELSE asleep \cup {current}
  BY <1>2 DEF Interrupt, Block
<1>6. /\ Append(sendQ[q], t) \in Seq(Task)
      /\ IsInjective(Append(sendQ[q], t))
      /\ Range(Append(sendQ[q], t)) = Range(sendQ[q]) \cup {t}
  <2>1. sendQ[q] \in Seq(Task) /\ IsInjective(sendQ[q]) /\ t \notin Range(sendQ[q])
    BY <1>3 DEF MailInv, MailTypeOK, Apart, InUse, InSendQ
  <2> QED
    BY <1>3, <2>1, PutLast
<1>7. /\ \A x \in Task : task'[x] = IF x = t THEN new ELSE tasks[x]
      /\ \A r \in Pipe : sendQ'[r] = IF r = q THEN Append(sendQ[q], t) ELSE sendQ[r]
      /\ \A p \in Process : curTask'[p] = IF p = current THEN t ELSE curTask[p]
  BY <1>1 DEF Marked, TaskTypeOK, MailInv, MailTypeOK
<1>8. MailTypeOK'
  BY <1>1, <1>3, <1>6 DEF MailInv, MailTypeOK, TaskTypeOK, Marked
<1>9. InSendQ' = InSendQ \cup {t} /\ InRecvQ' = InRecvQ /\ InHand' = InHand
  BY <1>1, <1>6, <1>7 DEF InSendQ, InRecvQ, InHand
<1>10. Apart'
  BY <1>1, <1>3, <1>6, <1>7, <1>9 DEF MailInv, Apart, InUse, InSendQ
<1>11. MessagesLive'
  BY <1>3, <1>7, <1>9, MarkedLive DEF MailInv, MessagesLive, Marked, InUse
<1>12. CallersSleep'
  BY <1>3, <1>5, <1>7, <1>9 DEF MailInv, CallersSleep, Marked, InUse
<1>13. OwnTask'
  <2> SUFFICES ASSUME NEW p \in Process, curTask'[p] # Null
               PROVE  /\ task'[curTask'[p]].process = p
                      /\ curTask'[p] \notin freeTasks' \cup InRecvQ'
    BY DEF OwnTask
  <2>1. CASE p = current
    BY <1>1, <1>3, <1>7, <1>9, <2>1 DEF InUse
  <2>2. CASE p # current
    <3>1. /\ curTask'[p] = curTask[p] /\ curTask[p] \in Task
          /\ task[curTask[p]].process = p /\ curTask[p] \notin freeTasks \cup InRecvQ
      BY <1>7, <2>2 DEF MailInv, MailTypeOK, OwnTask
    <3> QED
      BY <1>1, <1>7, <1>9, <3>1 DEF Marked
  <2> QED
    BY <2>1, <2>2
<1>14. NoneWaitsByWork'
  BY <1>1, <1>7 DEF MailInv, NoneWaitsByWork
<1>15. OnlyOldReceivers
  BY <1>1, <1>3, <1>7 DEF OnlyOldReceivers, InUse, InRecvQ, Marked
<1>16. NoneForgotten
  BY <1>3, <1>7, <1>9 DEF NoneForgotten, InUse, Marked
<1> QED
  BY <1>4, <1>8, <1>10, <1>11, <1>12, <1>13, <1>14, <1>15, <1>16 DEF MailInv

\* The first receiver at a pipe is asleep, and its task is nobody's last one.
LEMMA FirstReceiver ==
    ASSUME MailInv, NEW q \in Pipe, recvQ[q] # <<>>
    PROVE  LET into == Head(recvQ[q]) IN
           /\ into \in Task /\ into \in InRecvQ /\ ~task[into].event
           /\ into \notin freeTasks \cup InSendQ \cup InHand
           /\ task[into].process \in asleep /\ task[into].process \in Process
           /\ \A p \in Process : curTask[p] # into
           /\ sendQ[q] = <<>>
           /\ Tail(recvQ[q]) \in Seq(Task) /\ IsInjective(Tail(recvQ[q]))
           /\ into \notin Range(Tail(recvQ[q]))
           /\ Range(recvQ[q]) = {into} \cup Range(Tail(recvQ[q]))
<1> DEFINE into == Head(recvQ[q])
<1>1. recvQ[q] \in Seq(Task) /\ IsInjective(recvQ[q])
  BY DEF MailInv, MailTypeOK, Apart
<1>2. /\ into \in Task
      /\ Tail(recvQ[q]) \in Seq(Task) /\ IsInjective(Tail(recvQ[q]))
      /\ into \notin Range(Tail(recvQ[q]))
      /\ Range(recvQ[q]) = {into} \cup Range(Tail(recvQ[q]))
  BY <1>1, TakeFirst
<1>3. into \in InRecvQ /\ into \in InUse
  BY <1>2 DEF InRecvQ, InUse
<1>4. into \notin freeTasks \cup InSendQ \cup InHand
  BY <1>3 DEF MailInv, Apart
<1>5. ~task[into].event /\ task[into].process \in Process /\ task[into].process \in asleep
  BY <1>3 DEF MailInv, MessagesLive, CallersSleep
<1>6. \A p \in Process : curTask[p] # into
  BY <1>2, <1>3, PipeAssumption DEF MailInv, OwnTask
<1>7. sendQ[q] = <<>>
  BY DEF MailInv, NoneWaitsByWork
<1> HIDE DEF into
<1> QED
  BY <1>2, <1>3, <1>4, <1>5, <1>6, <1>7 DEF into

\* enqueue() of a message with a receiver waiting keeps the mail in order.
LEMMA HandOverKeeps ==
    ASSUME MailInv, current \in Process,
           NEW q \in Pipe, NEW t \in freeTasks, HandOver(q, t)
    PROVE  MailInv' /\ OnlyOldReceivers /\ NoneForgotten
<1> DEFINE into == Head(recvQ[q])
           s    == task[into].process
           new  == [process |-> current, event |-> FALSE, dead |-> FALSE]
<1>1. /\ recvQ[q] # <<>>
      /\ freeTasks' = freeTasks \ {t}
      /\ task' = [task EXCEPT ![into] = Blank, ![t] = new]
      /\ curTask' = [curTask EXCEPT ![current] = t]
      /\ recvQ' = [recvQ EXCEPT ![q] = Tail(recvQ[q])]
      /\ unanswered' = [unanswered EXCEPT ![s] = unanswered[s] \cup {t}]
      /\ WakeAndBlock(s)
      /\ sendQ' = sendQ
  BY DEF HandOver
<1>2. t \in Task /\ t \notin InUse /\ InUse \subseteq Task /\ current \notin asleep
  BY InUseTasks DEF MailInv, MailTypeOK, Apart, OnePlace, InUse
<1>3. /\ into \in Task /\ into \in InRecvQ /\ ~task[into].event
      /\ into \notin freeTasks \cup InSendQ \cup InHand
      /\ s \in asleep /\ s \in Process
      /\ \A p \in Process : curTask[p] # into
      /\ Tail(recvQ[q]) \in Seq(Task) /\ IsInjective(Tail(recvQ[q]))
      /\ into \notin Range(Tail(recvQ[q]))
      /\ Range(recvQ[q]) = {into} \cup Range(Tail(recvQ[q]))
  BY <1>1, FirstReceiver
<1> HIDE DEF into, s
<1>4. QueueTypeOK' /\ OnePlace'
  BY <1>1, <1>3, QueueStep DEF MailInv
<1>5. asleep' = (asleep \ {s}) \cup {current}
  BY <1>1 DEF WakeAndBlock
<1>6. /\ \A x \in Task : task'[x] = IF x = t THEN new ELSE IF x = into THEN Blank ELSE task[x]
      /\ \A r \in Pipe : recvQ'[r] = IF r = q THEN Tail(recvQ[q]) ELSE recvQ[r]
      /\ \A p \in Process : curTask'[p] = IF p = current THEN t ELSE curTask[p]
      /\ \A p \in Process : unanswered'[p] = IF p = s THEN unanswered[s] \cup {t} ELSE unanswered[p]
  BY <1>1, <1>3 DEF TaskTypeOK, MailInv, MailTypeOK
<1>7. MailTypeOK'
  BY <1>1, <1>2, <1>3 DEF MailInv, MailTypeOK, TaskTypeOK, Blank
<1>8. InSendQ' = InSendQ
  BY <1>1 DEF InSendQ
<1>9. InRecvQ' = InRecvQ \ {into}
  <2>1. \A r \in Pipe \ {q} : into \notin Range(recvQ[r])
    BY <1>3 DEF MailInv, Apart
  <2> QED
    BY <1>3, <1>6, <2>1 DEF InRecvQ
<1>10. InHand' = InHand \cup {t}
  BY <1>3, <1>6 DEF InHand
<1>11. InUse' = (InUse \ {into}) \cup {t}
  BY <1>2, <1>3, <1>8, <1>9, <1>10 DEF InUse
<1>12. Apart'
  <2>1. \A p \in Process : t \notin unanswered[p]
    BY <1>2 DEF InUse, InHand
  <2> QED
    BY <1>1, <1>2, <1>3, <1>6, <1>8, <1>9, <1>10, <1>11, <2>1 DEF MailInv, Apart, InUse
<1>13. MessagesLive'
  BY <1>2, <1>6, <1>9, <1>10, <1>11 DEF MailInv, MessagesLive, InUse
<1>14. CallersSleep'
  <2>1. \A x \in InUse \ {into} : ~task[x].event => task[x].process # s
    BY <1>3 DEF MailInv, CallersSleep, InUse, s
  <2> QED
    BY <1>2, <1>5, <1>6, <1>11, <2>1 DEF MailInv, CallersSleep
<1>15. OwnTask'
  <2> SUFFICES ASSUME NEW p \in Process, curTask'[p] # Null
               PROVE  /\ task'[curTask'[p]].process = p
                      /\ curTask'[p] \notin freeTasks' \cup InRecvQ'
    BY DEF OwnTask
  <2>1. CASE p = current
    <3>1. curTask'[p] = t /\ task'[t] = new /\ t \notin InRecvQ
      BY <1>2, <1>6, <2>1 DEF InUse
    <3> QED
      BY <1>1, <1>9, <2>1, <3>1
  <2>2. CASE p # current
    <3>1. /\ curTask'[p] = curTask[p] /\ curTask[p] \in Task
          /\ task[curTask[p]].process = p /\ curTask[p] \notin freeTasks \cup InRecvQ
      BY <1>6, <2>2 DEF MailInv, MailTypeOK, OwnTask
    <3>2. curTask[p] # t /\ curTask[p] # into
      BY <1>3, <3>1
    <3>3. task'[curTask[p]] = task[curTask[p]]
      BY <1>6, <3>1, <3>2
    <3> QED
      BY <1>1, <1>9, <3>1, <3>3
  <2> QED
    BY <2>1, <2>2
<1>16. NoneWaitsByWork'
  <2>1. sendQ[q] = <<>>
    BY <1>1, FirstReceiver
  <2> QED
    BY <1>1, <1>6, <2>1 DEF MailInv, NoneWaitsByWork
<1>17. OnlyOldReceivers
  <2> SUFFICES ASSUME NEW r \in Pipe, NEW x \in Range(recvQ'[r])
               PROVE  x \in Range(recvQ[r]) /\ task'[x].process = task[x].process
    BY DEF OnlyOldReceivers
  <2>1. x \in Range(recvQ[r])
    BY <1>3, <1>6
  <2>2. x \in InRecvQ'
    BY DEF InRecvQ
  <2> QED
    BY <1>2, <1>6, <1>9, <2>1, <2>2 DEF InUse
<1>18. NoneForgotten
  BY <1>2, <1>3, <1>5, <1>6, <1>11 DEF NoneForgotten, MailInv, OnePlace, s
<1> QED
  BY <1>4, <1>7, <1>12, <1>13, <1>14, <1>15, <1>16, <1>17, <1>18 DEF MailInv

\* enqueue() of an event with a receiver waiting keeps the mail in order.
LEMMA HandOverEventKeeps ==
    ASSUME MailInv, current \in Process, NEW tasks, Marked(tasks),
           NEW q \in Pipe, NEW t \in freeTasks, HandOverEvent(tasks, q, t)
    PROVE  MailInv' /\ OnlyOldReceivers /\ NoneForgotten
<1> DEFINE into == Head(recvQ[q])
           s    == task[into].process
<1>1. /\ recvQ[q] # <<>>
      /\ task' = [tasks EXCEPT ![into] = Blank, ![t] = Blank]
      /\ curTask' = [curTask EXCEPT ![current] = Null]
      /\ recvQ' = [recvQ EXCEPT ![q] = Tail(recvQ[q])]
      /\ Wake(s)
      /\ freeTasks' = freeTasks /\ sendQ' = sendQ /\ unanswered' = unanswered
  BY DEF HandOverEvent
<1>2. t \in Task /\ t \notin InUse /\ InUse \subseteq Task
  BY InUseTasks DEF MailInv, MailTypeOK, Apart, InUse
<1>3. /\ into \in Task /\ into \in InRecvQ /\ ~task[into].event
      /\ into \notin freeTasks \cup InSendQ \cup InHand
      /\ s \in Process
      /\ \A p \in Process : curTask[p] # into
      /\ Tail(recvQ[q]) \in Seq(Task) /\ IsInjective(Tail(recvQ[q]))
      /\ into \notin Range(Tail(recvQ[q]))
      /\ Range(recvQ[q]) = {into} \cup Range(Tail(recvQ[q]))
  BY <1>1, FirstReceiver
<1> HIDE DEF into, s
<1>4. QueueTypeOK' /\ OnePlace'
  BY <1>1, <1>3, QueueStep DEF MailInv
<1>5. asleep' = asleep \ {s}
  BY <1>1 DEF Wake
<1>6. /\ \A x \in Task : task'[x] = IF x \in {t, into} THEN Blank ELSE tasks[x]
      /\ \A r \in Pipe : recvQ'[r] = IF r = q THEN Tail(recvQ[q]) ELSE recvQ[r]
      /\ \A p \in Process : curTask'[p] = IF p = current THEN Null ELSE curTask[p]
  BY <1>1, <1>3 DEF Marked, TaskTypeOK, MailInv, MailTypeOK
<1>7. MailTypeOK'
  BY <1>1, <1>2, <1>3 DEF MailInv, MailTypeOK, TaskTypeOK, Marked, Blank
<1>8. InSendQ' = InSendQ /\ InHand' = InHand
  BY <1>1 DEF InSendQ, InHand
<1>9. InRecvQ' = InRecvQ \ {into}
  <2>1. \A r \in Pipe \ {q} : into \notin Range(recvQ[r])
    BY <1>3 DEF MailInv, Apart
  <2> QED
    BY <1>3, <1>6, <2>1 DEF InRecvQ
<1>10. InUse' = InUse \ {into}
  BY <1>3, <1>8, <1>9 DEF InUse
<1>11. Apart'
  BY <1>1, <1>3, <1>6, <1>8, <1>9, <1>10 DEF MailInv, Apart
<1>12. \A x \in InUse' : /\ task'[x].process = task[x].process
                         /\ task'[x].event = task[x].event
                         /\ task'[x].dead => task[x].event
  BY <1>2, <1>6, <1>10, MarkedLive DEF Marked
<1>13. MessagesLive'
  BY <1>8, <1>9, <1>10, <1>12 DEF MailInv, MessagesLive, InUse
<1>14. CallersSleep'
  <2>1. \A x \in InUse \ {into} : ~task[x].event => task[x].process # s
    BY <1>3 DEF MailInv, CallersSleep, InUse, s
  <2> QED
    BY <1>5, <1>10, <1>12, <2>1 DEF MailInv, CallersSleep
<1>15. OwnTask'
  <2> SUFFICES ASSUME NEW p \in Process, curTask'[p] # Null
               PROVE  /\ task'[curTask'[p]].process = p
                      /\ curTask'[p] \notin freeTasks' \cup InRecvQ'
    BY DEF OwnTask
  <2>1. /\ curTask'[p] = curTask[p] /\ curTask[p] \in Task
        /\ task[curTask[p]].process = p /\ curTask[p] \notin freeTasks \cup InRecvQ
    BY <1>6 DEF MailInv, MailTypeOK, OwnTask
  <2>2. curTask[p] # t /\ curTask[p] # into
    BY <1>3, <2>1
  <2>3. task'[curTask[p]].process = task[curTask[p]].process
    BY <1>6, <2>1, <2>2 DEF Marked
  <2> QED
    BY <1>1, <1>9, <2>1, <2>3
<1>16. NoneWaitsByWork'
  <2>1. sendQ[q] = <<>>
    BY <1>1, FirstReceiver
  <2> QED
    BY <1>1, <1>6, <2>1 DEF MailInv, NoneWaitsByWork
<1>17. OnlyOldReceivers
  <2> SUFFICES ASSUME NEW r \in Pipe, NEW x \in Range(recvQ'[r])
               PROVE  x \in Range(recvQ[r]) /\ task'[x].process = task[x].process
    BY DEF OnlyOldReceivers
  <2>1. x \in Range(recvQ[r])
    BY <1>3, <1>6
  <2>2. x \in InUse'
    BY DEF InRecvQ, InUse
  <2> QED
    BY <1>12, <2>1, <2>2
<1>18. NoneForgotten
  BY <1>5, <1>10, <1>12 DEF NoneForgotten, s
<1> QED
  BY <1>4, <1>7, <1>11, <1>13, <1>14, <1>15, <1>16, <1>17, <1>18 DEF MailInv

\* free() of a set of tasks that goes with nobody's last task but their own.
LEMMA FreeForgets ==
    ASSUME MailInv, NEW ts \in SUBSET Task, FreeAll(ts)
    PROVE  /\ curTask' \in [Process -> Task \cup {Null}]
           /\ \A p \in Process : curTask'[p] # Null =>
                 /\ curTask'[p] = curTask[p] /\ curTask[p] \in Task \ ts
                 /\ task[curTask[p]].process = p
                 /\ curTask[p] \notin freeTasks \cup InRecvQ
<1>1. /\ curTask \in [Process -> Task \cup {Null}]
      /\ curTask' = [p \in Process |->
                       IF p \in {task[t].process : t \in ts} THEN Null ELSE curTask[p]]
  BY DEF FreeAll, MailInv, MailTypeOK
<1>2. curTask' \in [Process -> Task \cup {Null}]
  BY <1>1
<1>3. ASSUME NEW p \in Process, curTask'[p] # Null
      PROVE  /\ curTask'[p] = curTask[p] /\ curTask[p] \in Task \ ts
             /\ task[curTask[p]].process = p
             /\ curTask[p] \notin freeTasks \cup InRecvQ
  <2>1. curTask'[p] = curTask[p] /\ p \notin {task[t].process : t \in ts}
    BY <1>1, <1>3
  <2>2. /\ curTask[p] \in Task /\ task[curTask[p]].process = p
        /\ curTask[p] \notin freeTasks \cup InRecvQ
    BY <1>1, <1>3, <2>1 DEF MailInv, OwnTask
  <2> QED
    BY <2>1, <2>2
<1> QED
  BY <1>2, <1>3

\* receive() of live work keeps the mail in order.
LEMMA ReceiveWorkKeeps ==
    ASSUME MailInv, current \in Process, NEW q \in Pipe,
           NEW skipped \in SUBSET Task,
           NEW line \in Seq(Task), IsInjective(line),
           Range(sendQ[q]) = skipped \cup Range(line), skipped \cap Range(line) = {},
           \A x \in skipped : task[x].dead,
           ReceiveWork(current, q, skipped, line)
    PROVE  MailInv' /\ OnlyOldReceivers /\ NoneForgotten
<1> DEFINE t    == Head(line)
           rest == Tail(line)
           done == IF task[t].event THEN skipped \cup {t} ELSE skipped
<1>1. /\ line # <<>>
      /\ sendQ' = [sendQ EXCEPT ![q] = rest]
      /\ task' = Freed(done) /\ FreeAll(done)
      /\ freeTasks' = freeTasks \cup done
      /\ unanswered' = [unanswered EXCEPT ![current] =
                           IF task[t].event THEN unanswered[current]
                           ELSE unanswered[current] \cup {t}]
      /\ Interrupt
      /\ recvQ' = recvQ
  BY DEF ReceiveWork, TakeHead
<1>3. /\ t \in Task
      /\ rest \in Seq(Task) /\ IsInjective(rest)
      /\ t \notin Range(rest)
      /\ Range(line) = {t} \cup Range(rest)
  BY <1>1, TakeFirst
<1> HIDE DEF t, rest
<1>4. /\ done \subseteq Task
      /\ Range(sendQ[q]) = done \cup {t} \cup Range(rest)
      /\ (done \cup {t}) \cap Range(rest) = {}
      /\ task[t].event <=> t \in done
      /\ \A x \in done : task[x].event
  <2>1. \A x \in skipped : x \in InUse /\ task[x].event
    BY DEF InUse, InSendQ, MailInv, MessagesLive
  <2> QED
    BY <1>3, <2>1
<1> HIDE DEF done
<1>5. /\ done \cup {t} \subseteq InSendQ
      /\ (done \cup {t}) \cap (freeTasks \cup InRecvQ \cup InHand) = {}
      /\ InUse \subseteq Task
  BY <1>4, InUseTasks DEF MailInv, Apart, InUse, InSendQ
<1>6. QueueTypeOK' /\ OnePlace' /\ asleep' = asleep
  BY <1>1, QueueStep DEF MailInv, Interrupt
<1>7. /\ \A x \in Task : task'[x] = IF x \in done THEN Blank ELSE task[x]
      /\ \A r \in Pipe : sendQ'[r] = IF r = q THEN rest ELSE sendQ[r]
      /\ \A p \in Process :
            unanswered'[p] = IF p = current /\ t \notin done
                             THEN unanswered[p] \cup {t} ELSE unanswered[p]
  BY <1>1, <1>4 DEF Freed, MailInv, MailTypeOK
<1>8. MailTypeOK'
  <2>1. TaskTypeOK(task')
    BY <1>1 DEF Freed, Blank, TaskTypeOK, MailInv, MailTypeOK
  <2>2. curTask' \in [Process -> Task \cup {Null}]
    BY <1>1, <1>4, FreeForgets
  <2> QED
    BY <1>1, <1>3, <1>4, <2>1, <2>2 DEF MailInv, MailTypeOK
<1>9. InSendQ' = InSendQ \ (done \cup {t})
  <2>1. \A r \in Pipe \ {q} : Range(sendQ[r]) \cap (done \cup {t}) = {}
    BY <1>3, <1>4 DEF MailInv, Apart
  <2> QED
    BY <1>4, <1>7, <2>1 DEF InSendQ
<1>10. InRecvQ' = InRecvQ /\ InHand' = InHand \cup ({t} \ done)
  <2>1. InRecvQ' = InRecvQ
    BY <1>1 DEF InRecvQ
  <2>2. \A x : x \in InHand' <=> x \in InHand \/ (x = t /\ t \notin done)
    <3>1. \A x : /\ x \in InHand' <=> \E p \in Process : x \in unanswered'[p]
                 /\ x \in InHand  <=> \E p \in Process : x \in unanswered[p]
      BY DEF InHand
    <3>2. \A p \in Process : \A x :
             x \in unanswered'[p] <=> x \in unanswered[p] \/ (p = current /\ x = t /\ t \notin done)
      BY <1>7
    <3> QED
      BY <3>1, <3>2
  <2> QED
    BY <2>1, <2>2
<1>11. InUse' = InUse \ done
  BY <1>5, <1>9, <1>10 DEF InUse
<1>12. Apart'
  <2>1. \A r \in Pipe : IsInjective(sendQ[r])' /\ Range(sendQ'[r]) \subseteq Range(sendQ[r])
    BY <1>3, <1>4, <1>7 DEF MailInv, Apart
  <2>2. \A p \in Process : done \cap unanswered[p] = {} /\ t \notin unanswered[p]
    BY <1>5 DEF InHand
  <2>3. \A p, r \in Process, x \in Task :
           x \in unanswered'[p] /\ x \in unanswered'[r] => p = r
    <3>1. \A p \in Process, x \in Task :
             x \in unanswered'[p] => x \in unanswered[p] \/ (x = t /\ p = current)
      BY <1>7
    <3> QED
      BY <2>2, <3>1 DEF MailInv, Apart
  <2>4. /\ InSendQ' \cap InRecvQ' = {} /\ InSendQ' \cap InHand' = {}
        /\ InRecvQ' \cap InHand' = {} /\ freeTasks' \cap InUse' = {}
    BY <1>1, <1>5, <1>9, <1>10, <1>11 DEF MailInv, Apart, InUse
  <2> QED
    BY <1>1, <2>1, <2>3, <2>4 DEF MailInv, Apart
<1>13. MessagesLive'
  BY <1>3, <1>4, <1>5, <1>7, <1>10, <1>11 DEF MailInv, MessagesLive, InUse
<1>14. CallersSleep'
  BY <1>5, <1>6, <1>7, <1>11 DEF MailInv, CallersSleep
<1>15. OwnTask'
  <2> SUFFICES ASSUME NEW p \in Process, curTask'[p] # Null
               PROVE  /\ task'[curTask'[p]].process = p
                      /\ curTask'[p] \notin freeTasks' \cup InRecvQ'
    BY DEF OwnTask
  <2>1. /\ curTask'[p] = curTask[p] /\ curTask[p] \in Task \ done
        /\ task[curTask[p]].process = p
        /\ curTask[p] \notin freeTasks \cup InRecvQ
    BY <1>1, <1>4, FreeForgets
  <2> QED
    BY <1>1, <1>7, <1>10, <2>1
<1>16. NoneWaitsByWork'
  <2>1. sendQ[q] # <<>>
    BY <1>3, <1>4 DEF Range
  <2> QED
    BY <1>1, <1>7, <2>1 DEF MailInv, NoneWaitsByWork
<1>17. OnlyOldReceivers
  BY <1>1, <1>5, <1>7 DEF OnlyOldReceivers, InRecvQ, InUse
<1>18. NoneForgotten
  BY <1>4, <1>5, <1>7, <1>11 DEF NoneForgotten
<1> QED
  BY <1>6, <1>8, <1>12, <1>13, <1>14, <1>15, <1>16, <1>17, <1>18 DEF MailInv

\* receive() that finds no live work and blocks keeps the mail in order; its
\* own task is the only new one that waits.
LEMMA ReceiveNothingKeeps ==
    ASSUME MailInv, current \in Process, NEW q \in Pipe,
           NEW skipped \in SUBSET Task, Range(sendQ[q]) = skipped,
           \A x \in skipped : task[x].dead,
           NEW t \in freeTasks \cup skipped,
           task' = [Freed(skipped) EXCEPT
                       ![t] = [process |-> current, event |-> FALSE, dead |-> FALSE]],
           FreeAll(skipped),
           freeTasks' = (freeTasks \cup skipped) \ {t},
           sendQ' = [sendQ EXCEPT ![q] = <<>>],
           recvQ' = [recvQ EXCEPT ![q] = Append(recvQ[q], t)],
           Block,
           unanswered' = unanswered
    PROVE  /\ MailInv' /\ NoneForgotten
           /\ \A r \in Pipe : \A x \in Range(recvQ'[r]) :
                 \/ x \in Range(recvQ[r]) /\ task'[x].process = task[x].process
                 \/ r = q /\ task'[x].process = current
<1> DEFINE mine == [process |-> current, event |-> FALSE, dead |-> FALSE]
<1>1. Range(<<>>) = {} /\ IsInjective(<<>>)
  BY DEF Range, IsInjective
<1>2. sendQ[q] \in Seq(Task) /\ recvQ[q] \in Seq(Task) /\ IsInjective(recvQ[q])
  BY DEF MailInv, MailTypeOK, Apart
<1>3. /\ t \in Task /\ current \notin asleep
      /\ skipped \cap (freeTasks \cup InRecvQ \cup InHand) = {}
      /\ t \notin InRecvQ \cup InHand
      /\ InUse \subseteq Task
  BY <1>2, InUseTasks DEF MailInv, MailTypeOK, Apart, OnePlace, InUse, InSendQ
<1>4. /\ Append(recvQ[q], t) \in Seq(Task)
      /\ IsInjective(Append(recvQ[q], t))
      /\ Range(Append(recvQ[q], t)) = Range(recvQ[q]) \cup {t}
  <2>1. t \notin Range(recvQ[q])
    BY <1>3 DEF InRecvQ
  <2> QED
    BY <1>2, <1>3, <2>1, PutLast
<1>5. QueueTypeOK' /\ OnePlace' /\ asleep' = asleep \cup {current}
  BY QueueStep DEF MailInv, Block
<1>6. /\ \A x \in Task : task'[x] = IF x = t THEN mine ELSE IF x \in skipped THEN Blank ELSE task[x]
      /\ \A r \in Pipe : sendQ'[r] = IF r = q THEN <<>> ELSE sendQ[r]
      /\ \A r \in Pipe : recvQ'[r] = IF r = q THEN Append(recvQ[q], t) ELSE recvQ[r]
  <2>1. \A x \in Task : task'[x] = IF x = t THEN mine ELSE IF x \in skipped THEN Blank ELSE task[x]
    BY <1>3 DEF Freed
  <2> QED
    BY <2>1 DEF MailInv, MailTypeOK
<1>7. MailTypeOK'
  <2>1. TaskTypeOK(task')
    BY DEF Freed, Blank, TaskTypeOK, MailInv, MailTypeOK
  <2>2. curTask' \in [Process -> Task \cup {Null}]
    BY <1>2, FreeForgets
  <2> QED
    BY <1>2, <1>4, <2>1, <2>2 DEF MailInv, MailTypeOK
<1>8. InSendQ' = InSendQ \ skipped
  <2>1. \A r \in Pipe \ {q} : Range(sendQ[r]) \cap skipped = {}
    BY <1>2 DEF MailInv, Apart
  <2>2. \A r \in Pipe : Range(sendQ'[r]) = Range(sendQ[r]) \ skipped
    <3> SUFFICES ASSUME NEW r \in Pipe  PROVE Range(sendQ'[r]) = Range(sendQ[r]) \ skipped
      OBVIOUS
    <3>1. CASE r = q
      BY <1>1, <1>2, <1>6, <3>1
    <3>2. CASE r # q
      BY <1>6, <2>1, <3>2
    <3> QED
      BY <3>1, <3>2
  <2>3. /\ \A x : x \in InSendQ' <=> \E r \in Pipe : x \in Range(sendQ'[r])
        /\ \A x : x \in InSendQ <=> \E r \in Pipe : x \in Range(sendQ[r])
    BY DEF InSendQ
  <2>4. \A x : x \in InSendQ' <=> x \in InSendQ /\ x \notin skipped
    BY <2>2, <2>3
  <2> QED
    BY <2>4
<1>9. InRecvQ' = InRecvQ \cup {t} /\ InHand' = InHand
  <2>1. \A x : /\ x \in InRecvQ' <=> \E r \in Pipe : x \in Range(recvQ'[r])
               /\ x \in InRecvQ  <=> \E r \in Pipe : x \in Range(recvQ[r])
    BY DEF InRecvQ
  <2>2. \A r \in Pipe : \A x : x \in Range(recvQ'[r]) <=> x \in Range(recvQ[r]) \/ (r = q /\ x = t)
    BY <1>4, <1>6
  <2>3. InRecvQ' = InRecvQ \cup {t}
    BY <2>1, <2>2
  <2> QED
    BY <2>3 DEF InHand
<1>10. InUse' = (InUse \ skipped) \cup {t} /\ t \notin InUse \ skipped
  BY <1>2, <1>3, <1>8, <1>9 DEF InUse, MailInv, Apart
<1>11. Apart'
  <2>1. \A r \in Pipe : IsInjective(sendQ[r])' /\ Range(sendQ'[r]) \subseteq Range(sendQ[r])
    BY <1>1, <1>6 DEF MailInv, Apart
  <2>2. \A r \in Pipe : t \notin Range(recvQ[r])
    BY <1>3 DEF InRecvQ
  <2>3. t \notin InSendQ'
    BY <1>2, <1>3, <1>8 DEF MailInv, Apart, InUse
  <2>4. \A r \in Pipe : IsInjective(recvQ[r])'
    BY <1>4, <1>6 DEF MailInv, Apart
  <2>5. \A r, u \in Pipe, x \in Task :
           x \in Range(recvQ'[r]) /\ x \in Range(recvQ'[u]) => r = u
    BY <1>4, <1>6, <2>2 DEF MailInv, Apart
  <2>6. /\ InSendQ' \cap InRecvQ' = {} /\ InSendQ' \cap InHand' = {}
        /\ InRecvQ' \cap InHand' = {} /\ freeTasks' \cap InUse' = {}
    BY <1>3, <1>8, <1>9, <1>10, <2>3 DEF MailInv, Apart, InUse
  <2> QED
    BY <2>1, <2>4, <2>5, <2>6 DEF MailInv, Apart
<1>12. MessagesLive'
  BY <1>3, <1>6, <1>9, <1>10 DEF MailInv, MessagesLive, InUse
<1>13. CallersSleep'
  BY <1>3, <1>5, <1>6, <1>10 DEF MailInv, CallersSleep
<1>14. OwnTask'
  <2> SUFFICES ASSUME NEW p \in Process, curTask'[p] # Null
               PROVE  /\ task'[curTask'[p]].process = p
                      /\ curTask'[p] \notin freeTasks' \cup InRecvQ'
    BY DEF OwnTask
  <2>1. /\ curTask'[p] = curTask[p] /\ curTask[p] \in Task \ skipped
        /\ task[curTask[p]].process = p
        /\ curTask[p] \notin freeTasks \cup InRecvQ
    BY <1>2, FreeForgets
  <2> QED
    BY <1>6, <1>9, <2>1
<1>15. NoneWaitsByWork'
  BY <1>6 DEF MailInv, NoneWaitsByWork
<1>16. ASSUME NEW r \in Pipe, NEW x \in Range(recvQ'[r])
       PROVE  \/ x \in Range(recvQ[r]) /\ task'[x].process = task[x].process
              \/ r = q /\ task'[x].process = current
  <2>1. x \in Range(recvQ[r]) \/ (r = q /\ x = t)
    BY <1>4, <1>6
  <2>2. x \in Range(recvQ[r]) => x \in Task /\ x # t /\ x \notin skipped
    BY <1>3 DEF InRecvQ, InUse
  <2> QED
    BY <1>3, <1>6, <2>1, <2>2
<1>17. NoneForgotten
  <2>1. \A x \in skipped : x \in InUse /\ task[x].event
    BY DEF InUse, InSendQ, MailInv, MessagesLive
  <2> QED
    BY <1>3, <1>6, <1>10, <2>1 DEF NoneForgotten
<1> QED
  BY <1>5, <1>7, <1>11, <1>12, <1>13, <1>14, <1>15, <1>16, <1>17 DEF MailInv

\* reply() keeps the mail in order.
LEMMA ReplyKeeps ==
    ASSUME MailInv, current \in Process, NEW t \in Task, Reply(current, t)
    PROVE  MailInv' /\ OnlyOldReceivers /\ NoneForgotten
<1> DEFINE c == task[t].process
<1>1. /\ t \in unanswered[current]
      /\ unanswered' = [unanswered EXCEPT ![current] = unanswered[current] \ {t}]
      /\ task' = Freed({t}) /\ FreeAll({t})
      /\ freeTasks' = freeTasks \cup {t}
      /\ Wake(c)
      /\ sendQ' = sendQ /\ recvQ' = recvQ
  BY DEF Reply, WakeClient
<1>2. t \in InHand /\ t \in InUse /\ t \notin InSendQ \cup InRecvQ \cup freeTasks
  BY <1>1 DEF MailInv, Apart, InHand, InUse
<1>3. c \in Process /\ ~task[t].event /\ InUse \subseteq Task
  BY <1>2, InUseTasks DEF MailInv, MessagesLive, InUse
<1> HIDE DEF c
<1>4. QueueTypeOK' /\ OnePlace' /\ asleep' = asleep \ {c}
  BY <1>1, <1>3, QueueStep DEF MailInv, Wake
<1>5. /\ \A x \in Task : task'[x] = IF x = t THEN Blank ELSE task[x]
      /\ \A p \in Process :
            unanswered'[p] = IF p = current THEN unanswered[p] \ {t} ELSE unanswered[p]
  BY <1>1 DEF Freed, MailInv, MailTypeOK
<1>6. MailTypeOK'
  <2>1. TaskTypeOK(task')
    BY <1>1 DEF Freed, Blank, TaskTypeOK, MailInv, MailTypeOK
  <2>2. curTask' \in [Process -> Task \cup {Null}]
    BY <1>1, FreeForgets
  <2> QED
    BY <1>1, <2>1, <2>2 DEF MailInv, MailTypeOK
<1>7. InSendQ' = InSendQ /\ InRecvQ' = InRecvQ
  BY <1>1 DEF InSendQ, InRecvQ
<1>8. InHand' = InHand \ {t}
  <2>1. \A p \in Process : t \in unanswered[p] => p = current
    BY <1>1 DEF MailInv, Apart
  <2>2. \A x : x \in InHand' <=> x \in InHand /\ x # t
    BY <1>5, <2>1 DEF InHand
  <2> QED
    BY <2>2
<1>9. InUse' = InUse \ {t}
  BY <1>2, <1>7, <1>8 DEF InUse
<1>10. Apart'
  BY <1>1, <1>5, <1>7, <1>8, <1>9 DEF MailInv, Apart
<1>11. MessagesLive'
  BY <1>2, <1>3, <1>5, <1>7, <1>8, <1>9 DEF MailInv, MessagesLive, InUse
<1>12. CallersSleep'
  <2>1. \A x \in InUse \ {t} : ~task[x].event => task[x].process # c
    BY <1>2, <1>3 DEF MailInv, CallersSleep, c
  <2> QED
    BY <1>3, <1>4, <1>5, <1>9, <2>1 DEF MailInv, CallersSleep
<1>13. OwnTask'
  <2> SUFFICES ASSUME NEW p \in Process, curTask'[p] # Null
               PROVE  /\ task'[curTask'[p]].process = p
                      /\ curTask'[p] \notin freeTasks' \cup InRecvQ'
    BY DEF OwnTask
  <2>1. /\ curTask'[p] = curTask[p] /\ curTask[p] \in Task \ {t}
        /\ task[curTask[p]].process = p
        /\ curTask[p] \notin freeTasks \cup InRecvQ
    BY <1>1, FreeForgets
  <2> QED
    BY <1>1, <1>5, <1>7, <2>1
<1>14. NoneWaitsByWork'
  BY <1>1 DEF MailInv, NoneWaitsByWork
<1>15. OnlyOldReceivers
  BY <1>1, <1>2, <1>3, <1>5 DEF OnlyOldReceivers, InRecvQ, InUse
<1>16. NoneForgotten
  BY <1>3, <1>4, <1>5, <1>9 DEF NoneForgotten, c
<1> QED
  BY <1>4, <1>6, <1>10, <1>11, <1>12, <1>13, <1>14, <1>15, <1>16 DEF MailInv

\* A step that puts no task anywhere and wakes nobody keeps the mail in order,
\* whatever it takes out of the queues and hands.
LEMMA NothingPutKeeps ==
    ASSUME MailInv, QueueTypeOK', OnePlace', asleep' = asleep,
           task' = task, freeTasks' = freeTasks,
           sendQ' \in [Pipe -> Seq(Task)], recvQ' \in [Pipe -> Seq(Task)],
           \A q \in Pipe : sendQ'[q] \in {sendQ[q], <<>>} /\ recvQ'[q] \in {recvQ[q], <<>>},
           curTask' \in [Process -> Task \cup {Null}],
           \A p \in Process : curTask'[p] \in {curTask[p], Null},
           unanswered' \in [Process -> SUBSET Task],
           \A p \in Process : unanswered'[p] \subseteq unanswered[p]
    PROVE  MailInv' /\ OnlyOldReceivers
<1>1. \A q \in Pipe : /\ Range(sendQ'[q]) \subseteq Range(sendQ[q])
                      /\ Range(recvQ'[q]) \subseteq Range(recvQ[q])
                      /\ IsInjective(sendQ'[q]) /\ IsInjective(recvQ'[q])
  <2>1. Range(<<>>) = {} /\ IsInjective(<<>>)
    BY DEF Range, IsInjective
  <2> QED
    BY <2>1 DEF MailInv, Apart
<1>2. /\ InSendQ' \subseteq InSendQ /\ InRecvQ' \subseteq InRecvQ /\ InHand' \subseteq InHand
      /\ InUse' \subseteq InUse
  BY <1>1 DEF InSendQ, InRecvQ, InHand, InUse
<1>3. MailTypeOK'
  BY DEF MailInv, MailTypeOK
<1>4. Apart'
  <2>1. \A p, s \in Process, t \in Task : t \in unanswered'[p] /\ t \in unanswered'[s] => p = s
    BY DEF MailInv, Apart
  <2>2. freeTasks' \cap InUse' = {}
    BY <1>2 DEF MailInv, Apart
  <2> QED
    BY <1>1, <1>2, <2>1, <2>2 DEF MailInv, Apart
<1>5. MessagesLive' /\ CallersSleep'
  BY <1>2 DEF MailInv, MessagesLive, CallersSleep
<1>6. OwnTask'
  BY <1>2 DEF MailInv, OwnTask
<1>7. NoneWaitsByWork'
  BY DEF MailInv, NoneWaitsByWork
<1>8. OnlyOldReceivers
  BY <1>1 DEF OnlyOldReceivers
<1> QED
  BY <1>3, <1>4, <1>5, <1>6, <1>7, <1>8 DEF MailInv

\* Pipes change hands only by create(), close() and the start of a process.
LEMMA HandleKept ==
    ASSUME PipeInv, OnlyOldReceivers, UNCHANGED <<freePipes, handle>>
    PROVE  OneHolder'
  BY DEF PipeInv, OneHolder, OnlyOldReceivers

-----------------------------------------------------------------------------
(* The steps *)

\* Nobody is forgotten while no task moves.
LEMMA NothingMoves == UNCHANGED <<sendQ, recvQ, unanswered, task>> => NoneForgotten
  BY DEF NoneForgotten, InUse, InSendQ, InRecvQ, InHand

\* A kernel that follows NULL changes nothing that is modelled.
LEMMA WildKeeps ==
    PipeInv /\ UNCHANGED <<queueVars, pipeVars, mailVars>> => PipeInv' /\ NoneForgotten
<1> SUFFICES ASSUME PipeInv, UNCHANGED <<queueVars, pipeVars, mailVars>>
             PROVE  PipeInv' /\ NoneForgotten
  OBVIOUS
<1>1. QueueTypeOK' /\ OnePlace' /\ asleep' = asleep
  BY DEF queueVars, PipeInv, MailInv, QueueTypeOK, OnePlace, Scheduled, Ready
<1>2. MailInv' /\ OnlyOldReceivers
  BY <1>1, NothingPutKeeps DEF pipeVars, mailVars, PipeInv, MailInv, MailTypeOK
<1> QED
  BY <1>2, HandleKept, NothingMoves DEF pipeVars, mailVars, PipeInv, EndsTypeOK

\* The timer leaves the pipes alone.
LEMMA TickKeeps == PipeInv /\ Tick => PipeInv' /\ NoneForgotten
<1> SUFFICES ASSUME PipeInv, Tick  PROVE PipeInv' /\ NoneForgotten
  OBVIOUS
<1>1. QueueTypeOK' /\ OnePlace' /\ asleep' = asleep
  BY QueueStep DEF PipeInv, MailInv, Tick, Interrupt
<1>2. UNCHANGED <<pipeVars, mailVars>>
  BY DEF Tick
<1>3. MailInv' /\ OnlyOldReceivers
  BY <1>1, <1>2, NothingPutKeeps DEF pipeVars, mailVars, PipeInv, MailInv, MailTypeOK
<1> QED
  BY <1>2, <1>3, HandleKept, NothingMoves DEF pipeVars, mailVars, PipeInv, EndsTypeOK

\* pipe_create() recycles a pipe, and forgets what was in its queues.
LEMMA CreateKeeps == \A p \in Process : PipeInv /\ Create(p) => PipeInv'
<1> SUFFICES ASSUME PipeInv, NEW p \in Process, Create(p)  PROVE PipeInv'
  OBVIOUS
<1>1. CASE GoWild
  BY <1>1, WildKeeps DEF GoWild
<1>2. CASE ~GoWild
  <2>1. PICK q \in freePipes :
           /\ freePipes' = freePipes \ {q}
           /\ otherEnd' = [otherEnd EXCEPT ![q] = Null]
           /\ sendQ' = [sendQ EXCEPT ![q] = <<>>]
           /\ recvQ' = [recvQ EXCEPT ![q] = <<>>]
           /\ handle' = [handle EXCEPT ![p] = q]
    BY <1>2 DEF Create
  <2>2. /\ p = current /\ handle[p] = Null /\ Interrupt
        /\ UNCHANGED <<pipelist, freeTasks, task, curTask, unanswered>>
    BY <1>2 DEF Create
  <2>3. QueueTypeOK' /\ OnePlace' /\ asleep' = asleep /\ current \notin asleep
    BY <2>2, QueueStep DEF PipeInv, MailInv, Interrupt, OnePlace
  <2>4. MailInv' /\ OnlyOldReceivers
    <3>1. /\ sendQ \in [Pipe -> Seq(Task)] /\ recvQ \in [Pipe -> Seq(Task)] /\ <<>> \in Seq(Task)
          /\ curTask \in [Process -> Task \cup {Null}]
          /\ unanswered \in [Process -> SUBSET Task]
      BY DEF PipeInv, MailInv, MailTypeOK
    <3>2. /\ sendQ' \in [Pipe -> Seq(Task)] /\ recvQ' \in [Pipe -> Seq(Task)]
          /\ \A r \in Pipe : sendQ'[r] \in {sendQ[r], <<>>} /\ recvQ'[r] \in {recvQ[r], <<>>}
      BY <2>1, <3>1
    <3> QED
      BY <2>2, <2>3, <3>1, <3>2, NothingPutKeeps DEF PipeInv
  <2>5. EndsTypeOK'
    BY <2>1, <2>2 DEF PipeInv, EndsTypeOK
  <2>6. OneHolder'
    <3>1. \A s \in Process : handle'[s] = IF s = p THEN q ELSE handle[s]
      BY <2>1 DEF PipeInv, EndsTypeOK
    <3>2. q \in Pipe /\ q # Null /\ \A s \in Process : handle[s] # q
      BY <2>1, PipeAssumption DEF PipeInv, EndsTypeOK, OneHolder
    <3>3. \A s \in Process : handle'[s] # Null =>
             /\ handle'[s] \notin freePipes'
             /\ \A r \in Process : handle'[r] = handle'[s] => r = s
      BY <2>1, <3>1, <3>2 DEF PipeInv, OneHolder
    <3>4. ASSUME NEW r \in Pipe, NEW x \in Range(recvQ'[r])
          PROVE  handle'[task'[x].process] = r
      <4>1. x \in Range(recvQ[r]) /\ task'[x].process = task[x].process
        BY <2>4, <3>4 DEF OnlyOldReceivers
      <4>2. x \in InRecvQ /\ x \in InUse
        BY <4>1 DEF InRecvQ, InUse
      <4>3. task[x].process \in Process /\ task[x].process # p
        BY <2>2, <2>3, <4>2 DEF PipeInv, MailInv, MessagesLive, CallersSleep
      <4> QED
        BY <3>1, <4>1, <4>3 DEF PipeInv, OneHolder
    <3> QED
      BY <3>3, <3>4 DEF OneHolder
  <2> QED
    BY <2>4, <2>5, <2>6 DEF PipeInv
<1> QED
  BY <1>1, <1>2

\* Naming a pipe and connecting to a name move no task.
LEMMA BindConnectKeep ==
    \A p \in Process, n \in Port : 
        PipeInv /\ (Bind(p, n) \/ Connect(p, n)) => PipeInv' /\ NoneForgotten
<1> SUFFICES ASSUME PipeInv, NEW p \in Process, NEW n \in Port, Bind(p, n) \/ Connect(p, n)
             PROVE  PipeInv' /\ NoneForgotten
  OBVIOUS
<1>1. /\ handle[p] # Null /\ Interrupt
      /\ UNCHANGED <<freePipes, handle, mailVars>>
  BY DEF Bind, Connect
<1>2. QueueTypeOK' /\ OnePlace' /\ asleep' = asleep
  BY <1>1, QueueStep DEF PipeInv, MailInv, Interrupt
<1>3. MailInv' /\ OnlyOldReceivers
  BY <1>1, <1>2, NothingPutKeeps DEF mailVars, PipeInv, MailInv, MailTypeOK
<1>4. EndsTypeOK'
  BY <1>1 DEF Bind, Connect, PipeInv, EndsTypeOK
<1> QED
  BY <1>1, <1>3, <1>4, HandleKept, NothingMoves DEF mailVars, PipeInv

\* pipe_send() and pipe_post_event(): the task is handed over or stands in line.
LEMMA SendKeeps ==
    \A p \in Process : PipeInv /\ (Send(p) \/ PostEvent(p)) => PipeInv' /\ NoneForgotten
<1> SUFFICES ASSUME PipeInv, NEW p \in Process, Send(p) \/ PostEvent(p)
             PROVE  PipeInv' /\ NoneForgotten
  OBVIOUS
<1>1. CASE GoWild
  BY <1>1, WildKeeps DEF GoWild
<1>2. CASE ~GoWild
  <2>1. p = current /\ UNCHANGED pipeVars /\ otherEnd[handle[p]] # Null /\ handle[p] # Null
    BY <1>2 DEF Send, PostEvent
  <2>2. PICK t \in freeTasks, q \in {otherEnd[handle[p]]} :
           \/ Queue(task, q, t, FALSE) \/ HandOver(q, t)
           \/ Queue(task, q, t, TRUE) \/ HandOverEvent(task, q, t)
    BY <1>2 DEF Send, PostEvent
  <2>3. q \in Pipe /\ Marked(task)
    BY <2>1 DEF PipeInv, EndsTypeOK, Marked, MailInv, MailTypeOK
  <2>4. MailInv' /\ OnlyOldReceivers /\ NoneForgotten
    BY <2>1, <2>2, <2>3, QueueKeeps, HandOverKeeps, HandOverEventKeeps DEF PipeInv
  <2> QED
    BY <2>1, <2>4, HandleKept DEF pipeVars, PipeInv, EndsTypeOK
<1> QED
  BY <1>1, <1>2

\* pipe_receive(): the dead are freed, and what comes next is taken or awaited.
LEMMA ReceiveKeeps ==
    \A p \in Process : PipeInv /\ Receive(p) => PipeInv' /\ NoneForgotten
<1> SUFFICES ASSUME PipeInv, NEW p \in Process, Receive(p)
             PROVE  PipeInv' /\ NoneForgotten
  OBVIOUS
<1> DEFINE q == handle[p]
           skippedBy(n) == {sendQ[q][i] : i \in 1 .. n}
           lineAfter(n) == SubSeq(sendQ[q], n + 1, Len(sendQ[q]))
<1>1. PICK n \in 0 .. Len(sendQ[q]) :
         /\ \A x \in skippedBy(n) : task[x].dead
         /\ \/ ReceiveWork(p, q, skippedBy(n), lineAfter(n))
            \/ ReceiveNothing(p, q, skippedBy(n), lineAfter(n))
  BY DEF Receive
<1>2. p = current /\ q # Null /\ UNCHANGED pipeVars
  BY DEF Receive
<1>3. q \in Pipe /\ sendQ[q] \in Seq(Task) /\ IsInjective(sendQ[q])
  BY <1>2 DEF PipeInv, EndsTypeOK, MailInv, MailTypeOK, Apart
<1> DEFINE skipped == skippedBy(n)
           line    == lineAfter(n)
<1>4. /\ skipped \in SUBSET Task
      /\ line \in Seq(Task) /\ IsInjective(line)
      /\ Range(sendQ[q]) = skipped \cup Range(line) /\ skipped \cap Range(line) = {}
  BY <1>3, DropFront
<1>5. /\ \A x \in skipped : task[x].dead
      /\ \/ ReceiveWork(current, q, skipped, line)
         \/ ReceiveNothing(current, q, skipped, line)
  BY <1>1, <1>2
<1> HIDE DEF q, skipped, line
<1>6. CASE ReceiveWork(current, q, skipped, line)
  <2>1. MailInv' /\ OnlyOldReceivers /\ NoneForgotten
    BY <1>2, <1>3, <1>4, <1>5, <1>6, ReceiveWorkKeeps DEF PipeInv
  <2> QED
    BY <1>2, <2>1, HandleKept DEF pipeVars, PipeInv, EndsTypeOK
<1>7. CASE ReceiveNothing(current, q, skipped, line)
  <2>1. CASE GoWild
    BY <2>1, WildKeeps DEF GoWild
  <2>2. CASE ~GoWild
    <3>1. line = <<>> /\ Range(sendQ[q]) = skipped
      BY <1>4, <1>7 DEF ReceiveNothing, Range
    <3>2. PICK t \in freeTasks \cup skipped :
             /\ task' = [Freed(skipped) EXCEPT
                            ![t] = [process |-> current, event |-> FALSE, dead |-> FALSE]]
             /\ FreeAll(skipped)
             /\ freeTasks' = (freeTasks \cup skipped) \ {t}
             /\ sendQ' = [sendQ EXCEPT ![q] = <<>>]
             /\ recvQ' = [recvQ EXCEPT ![q] = Append(recvQ[q], t)]
             /\ Block
             /\ unanswered' = unanswered
      BY <1>7, <2>2 DEF ReceiveNothing
    <3>3. /\ MailInv' /\ NoneForgotten
          /\ \A r \in Pipe : \A x \in Range(recvQ'[r]) :
                \/ x \in Range(recvQ[r]) /\ task'[x].process = task[x].process
                \/ r = q /\ task'[x].process = current
      BY <1>2, <1>3, <1>4, <1>5, <3>1, <3>2, ReceiveNothingKeeps DEF PipeInv
    <3>4. OneHolder'
      BY <1>2, <3>3 DEF PipeInv, OneHolder, pipeVars, q
    <3> QED
      BY <1>2, <3>3, <3>4 DEF pipeVars, PipeInv, EndsTypeOK
  <2> QED
    BY <2>1, <2>2
<1> QED
  BY <1>5, <1>6, <1>7

\* pipe_reply(), wherever the task it is given may be.
LEMMA ReplyKeepsAll ==
    \A p \in Process, t \in Task : PipeInv /\ Reply(p, t) => PipeInv' /\ NoneForgotten
<1> SUFFICES ASSUME PipeInv, NEW p \in Process, NEW t \in Task, Reply(p, t)
             PROVE  PipeInv' /\ NoneForgotten
  OBVIOUS
<1>1. p = current /\ UNCHANGED pipeVars
  BY DEF Reply
<1>2. MailInv' /\ OnlyOldReceivers /\ NoneForgotten
  BY <1>1, ReplyKeeps DEF PipeInv
<1> QED
  BY <1>1, <1>2, HandleKept DEF pipeVars, PipeInv, EndsTypeOK

\* A handle that a running process, or one that is not scheduled, gives up.
LEMMA HandleGone ==
    ASSUME PipeInv, OnlyOldReceivers, NEW p \in Process \ asleep,
           handle' = [handle EXCEPT ![p] = Null],
           freePipes' \in {freePipes, freePipes \cup {handle[p]}}
    PROVE  OneHolder'
<1>1. \A s \in Process : handle'[s] = IF s = p THEN Null ELSE handle[s]
  BY DEF PipeInv, EndsTypeOK
<1>2. \A s \in Process : handle'[s] # Null =>
         /\ handle'[s] \notin freePipes'
         /\ \A r \in Process : handle'[r] = handle'[s] => r = s
  BY <1>1 DEF PipeInv, OneHolder
<1>3. ASSUME NEW r \in Pipe, NEW x \in Range(recvQ'[r])
      PROVE  handle'[task'[x].process] = r
  <2>1. x \in Range(recvQ[r]) /\ task'[x].process = task[x].process
    BY <1>3 DEF OnlyOldReceivers
  <2>2. x \in InRecvQ /\ x \in InUse
    BY <2>1 DEF InRecvQ, InUse
  <2>3. task[x].process \in Process /\ task[x].process # p
    BY <2>2 DEF PipeInv, MailInv, MessagesLive, CallersSleep
  <2> QED
    BY <1>1, <2>1, <2>3 DEF PipeInv, OneHolder
<1> QED
  BY <1>2, <1>3 DEF OneHolder

\* close(): the caller loses its pipe, its current task dies, an event is sent.
LEMMA CloseKeeps ==
    \A p \in Process : PipeInv /\ Close(p) => PipeInv' /\ NoneForgotten
<1> SUFFICES ASSUME PipeInv, NEW p \in Process, Close(p)
             PROVE  PipeInv' /\ NoneForgotten
  OBVIOUS
<1>1. CASE GoWild
  BY <1>1, WildKeeps DEF GoWild
<1>2. CASE ~GoWild
  <2> DEFINE r == otherEnd[handle[p]]
             killed == IF curTask[p] = Null THEN task ELSE [task EXCEPT ![curTask[p]].dead = TRUE]
  <2>1. p = current /\ handle[p] # Null /\ r # Null /\ otherEnd[r] # Null
    BY <1>2 DEF Close
  <2>2. PICK t \in freeTasks :
           Queue(killed, otherEnd[r], t, TRUE) \/ HandOverEvent(killed, otherEnd[r], t)
    BY <1>2 DEF Close
  <2>3. /\ handle' = [handle EXCEPT ![p] = Null]
        /\ freePipes' = freePipes \cup {handle[p]}
        /\ UNCHANGED <<pipelist, otherEnd>>
    BY <1>2 DEF Close
  <2>4. handle[p] \in Pipe /\ r \in Pipe /\ otherEnd[r] \in Pipe
    BY <2>1 DEF PipeInv, EndsTypeOK
  <2>5. Marked(killed)
    BY <2>1 DEF Marked, TaskTypeOK, PipeInv, MailInv, MailTypeOK
  <2>6. p \notin asleep
    BY <2>1 DEF PipeInv, MailInv, OnePlace
  <2> HIDE DEF killed, r
  <2>7. MailInv' /\ OnlyOldReceivers /\ NoneForgotten
    BY <2>1, <2>2, <2>4, <2>5, QueueKeeps, HandOverEventKeeps DEF PipeInv
  <2>8. EndsTypeOK'
    BY <2>3, <2>4 DEF PipeInv, EndsTypeOK
  <2>9. OneHolder'
    BY <2>3, <2>6, <2>7, HandleGone
  <2> QED
    BY <2>7, <2>8, <2>9 DEF PipeInv
<1> QED
  BY <1>1, <1>2

\* A program that leaves forgets what it has received; one that starts has nothing.
LEMMA ExitStartKeep ==
    \A p \in Process :
        PipeInv /\ (Exit(p) \/ Start(p)) => PipeInv' /\ (NoneForgotten \/ Exit(p))
<1> SUFFICES ASSUME PipeInv, NEW p \in Process, Exit(p) \/ Start(p)
             PROVE  PipeInv' /\ (NoneForgotten \/ Exit(p))
  OBVIOUS
<1>0. /\ sendQ \in [Pipe -> Seq(Task)] /\ recvQ \in [Pipe -> Seq(Task)]
      /\ curTask \in [Process -> Task \cup {Null}]
      /\ unanswered \in [Process -> SUBSET Task]
  BY DEF PipeInv, MailInv, MailTypeOK
<1>1. CASE Exit(p)
  <2>1. QueueTypeOK' /\ OnePlace' /\ asleep' = asleep
    BY <1>1, QueueStep DEF PipeInv, MailInv, Exit, Retire
  <2>2. /\ unanswered' = [unanswered EXCEPT ![p] = {}]
        /\ UNCHANGED <<pipeVars, freeTasks, sendQ, recvQ, task, curTask>>
    BY <1>1 DEF Exit
  <2>3. /\ unanswered' \in [Process -> SUBSET Task]
        /\ \A s \in Process : unanswered'[s] \subseteq unanswered[s]
    BY <1>0, <2>2
  <2>4. MailInv' /\ OnlyOldReceivers
    BY <1>0, <2>1, <2>2, <2>3, NothingPutKeeps DEF PipeInv
  <2> QED
    BY <1>1, <2>2, <2>4, HandleKept DEF pipeVars, PipeInv, EndsTypeOK
<1>2. CASE Start(p)
  <2>1. Admit(p) /\ p \notin asleep
    BY <1>2 DEF Start, Admit, Scheduled
  <2>2. QueueTypeOK' /\ OnePlace' /\ asleep' = asleep
    BY <2>1, QueueStep DEF PipeInv, MailInv, Admit
  <2>3. /\ handle' = [handle EXCEPT ![p] = Null]
        /\ curTask' = [curTask EXCEPT ![p] = Null]
        /\ UNCHANGED <<freePipes, pipelist, otherEnd, freeTasks, sendQ, recvQ, task, unanswered>>
    BY <1>2 DEF Start
  <2>4. /\ curTask' \in [Process -> Task \cup {Null}]
        /\ \A s \in Process : curTask'[s] \in {curTask[s], Null}
    BY <1>0, <2>3
  <2>5. MailInv' /\ OnlyOldReceivers
    BY <1>0, <2>2, <2>3, <2>4, NothingPutKeeps DEF PipeInv
  <2>6. EndsTypeOK'
    BY <2>3 DEF PipeInv, EndsTypeOK
  <2>7. OneHolder'
    BY <2>1, <2>3, <2>5, HandleGone
  <2> QED
    BY <2>3, <2>5, <2>6, <2>7, NothingMoves DEF PipeInv
<1> QED
  BY <1>1, <1>2

\* Initially nothing is anywhere but in the pools.
LEMMA PipeInvInit == Init => PipeInv
<1> SUFFICES ASSUME Init  PROVE PipeInv
  OBVIOUS
<1>1. QueueTypeOK /\ OnePlace
  <2>1. Boot \in Seq(Process) /\ IsInjective(Boot) /\ Range(Boot) \subseteq Process \ {Idle}
    BY PipeAssumption DEF Range
  <2> QED
    BY <2>1, DispatcherAssumption DEF Init, QueueInit, QueueTypeOK, OnePlace, Scheduled, Ready
<1>2. MailTypeOK /\ EndsTypeOK
  BY DEF Init, MailTypeOK, EndsTypeOK, TaskTypeOK, Blank
<1>3. Range(<<>>) = {} /\ IsInjective(<<>>)
  BY DEF Range, IsInjective
<1>4. InSendQ = {} /\ InRecvQ = {} /\ InHand = {} /\ InUse = {}
  BY <1>3 DEF Init, InSendQ, InRecvQ, InHand, InUse
<1>5. Apart /\ MessagesLive /\ CallersSleep
  BY <1>3, <1>4 DEF Init, Apart, MessagesLive, CallersSleep
<1>6. OwnTask /\ OneHolder /\ NoneWaitsByWork
  BY <1>3 DEF Init, OwnTask, OneHolder, NoneWaitsByWork
<1> QED
  BY <1>1, <1>2, <1>5, <1>6 DEF PipeInv, MailInv

\* The inductive invariant of the pipes; and which steps forget a sleeper.
LEMMA PipeInvStep ==
    PipeInv /\ [Next]_vars =>
        PipeInv' /\ (NoneForgotten \/ \E p \in Process : Create(p) \/ Exit(p))
<1> DEFINE Goal == PipeInv' /\ (NoneForgotten \/ \E p \in Process : Create(p) \/ Exit(p))
<1> SUFFICES ASSUME PipeInv, [Next]_vars  PROVE Goal
  OBVIOUS
<1>1. CASE UNCHANGED vars
  BY <1>1, WildKeeps DEF vars
<1>2. CASE Next
  <2>1. \A p \in Process : Listens[p] \subseteq Port /\ Talks[p] \subseteq Port
    BY PipeAssumption
  <2>2. CASE Tick
    BY <2>2, TickKeeps
  <2>3. ASSUME NEW p \in Process, Create(p)  PROVE Goal
    BY <2>3, CreateKeeps
  <2>4. ASSUME NEW p \in Process, Send(p) \/ PostEvent(p)  PROVE Goal
    BY <2>4, SendKeeps
  <2>5. ASSUME NEW p \in Process, Receive(p)  PROVE Goal
    BY <2>5, ReceiveKeeps
  <2>6. ASSUME NEW p \in Process, Close(p)  PROVE Goal
    BY <2>6, CloseKeeps
  <2>7. ASSUME NEW p \in Process, Exit(p) \/ Start(p)  PROVE Goal
    BY <2>7, ExitStartKeep
  <2>8. ASSUME NEW p \in Process, NEW n \in Listens[p] \cup Talks[p], Bind(p, n) \/ Connect(p, n)
        PROVE  Goal
    BY <2>1, <2>8, BindConnectKeep
  <2>9. ASSUME NEW p \in Process, NEW t \in Task, Reply(p, t)  PROVE Goal
    BY <2>9, ReplyKeepsAll
  <2> HIDE DEF Goal
  <2> QED
    BY <1>2, <2>2, <2>3, <2>4, <2>5, <2>6, <2>7, <2>8, <2>9 DEF Next
<1> QED
  BY <1>1, <1>2

\* The invariant of the whole specification.
THEOREM PipeInvariant == Spec => []PipeInv
  BY PipeInvInit, PipeInvStep, PTL DEF Spec

-----------------------------------------------------------------------------
(* What the runs check, for any instance *)

\* A set whose members are all the same one has at most one member.
LEMMA AtMostOne ==
    ASSUME NEW S, \A x, y \in S : x = y
    PROVE  Cardinality(S) = IF S = {} THEN 0 ELSE 1
<1>1. CASE S = {}
  BY <1>1, FS_EmptySet
<1>2. CASE S # {}
  <2>1. PICK x : S = {x}
    BY <1>2
  <2> QED
    BY <1>2, <2>1, FS_Singleton
<1> QED
  BY <1>1, <1>2

\* Whoever waits for an answer or in receive() sleeps, and waits for one thing.
THEOREM PipesWaiterSleeps == Spec => []WaiterSleeps
<1>1. PipeInv => WaiterSleeps
  <2> SUFFICES ASSUME PipeInv, NEW p \in Process, WaitsFor(p) # {}
               PROVE  p \in asleep /\ Cardinality(WaitsFor(p)) = 1
    BY DEF WaiterSleeps
  <2>1. \A t, u \in WaitsFor(p) : p \in asleep /\ t = u
    BY DEF WaitsFor, PipeInv, MailInv, CallersSleep, InUse
  <2> QED
    BY <2>1, AtMostOne
<1> QED
  BY <1>1, PipeInvariant, PTL

\* A task object is in one place: no list ever shares a member with another.
THEOREM PipesOneOwner == Spec => []OneOwner
<1>1. PipeInv => OneOwner
  <2> SUFFICES ASSUME PipeInv, NEW t \in Task
               PROVE  Cardinality({q \in Pipe : t \in Range(sendQ[q])})
                      + Cardinality({q \in Pipe : t \in Range(recvQ[q])})
                      + Cardinality({p \in Process : t \in unanswered[p]})
                      + (IF t \in freeTasks THEN 1 ELSE 0) <= 1
    BY DEF OneOwner
  <2> DEFINE S == {q \in Pipe : t \in Range(sendQ[q])}
             R == {q \in Pipe : t \in Range(recvQ[q])}
             U == {p \in Process : t \in unanswered[p]}
  <2>1. /\ \A x, y \in S : x = y
        /\ \A x, y \in R : x = y
        /\ \A x, y \in U : x = y
    BY DEF PipeInv, MailInv, Apart
  <2>2. /\ S # {} => t \in InSendQ
        /\ R # {} => t \in InRecvQ
        /\ U # {} => t \in InHand
    BY DEF InSendQ, InRecvQ, InHand
  <2>3. /\ Cardinality(S) = IF S = {} THEN 0 ELSE 1
        /\ Cardinality(R) = IF R = {} THEN 0 ELSE 1
        /\ Cardinality(U) = IF U = {} THEN 0 ELSE 1
    <3> HIDE DEF S, R, U
    <3> QED
      BY <2>1, AtMostOne
  <2> HIDE DEF S, R, U
  <2>4. /\ S = {} \/ (R = {} /\ U = {} /\ t \notin freeTasks)
        /\ R = {} \/ (U = {} /\ t \notin freeTasks)
        /\ U = {} \/ t \notin freeTasks
    BY <2>2 DEF PipeInv, MailInv, Apart, InUse
  <2>5. Cardinality(S) + Cardinality(R) + Cardinality(U)
           + (IF t \in freeTasks THEN 1 ELSE 0) <= 1
    BY <2>3, <2>4
  <2> QED
    BY <2>5 DEF S, R, U
<1> QED
  BY <1>1, PipeInvariant, PTL

\* No process is blocked in receive() at a pipe where work waits.
THEOREM PipesNoneWaitsByWork == Spec => []NoneWaitsByWork
<1>1. PipeInv => NoneWaitsByWork
  BY DEF PipeInv, MailInv
<1> QED
  BY <1>1, PipeInvariant, PTL

\* A sleeper is forgotten only when a pipe is recycled, or by the exit of the
\* program that has received its message.
THEOREM PipesForgottenOnlyByReuse == Spec => ForgottenOnlyByReuse
<1> DEFINE Kept(p) ==
       \/ p \notin asleep'
       \/ WaitsFor(p)' = WaitsFor(p)
       \/ \E q \in freePipes \ freePipes' : WaitsFor(p) \subseteq Range(sendQ[q])
       \/ current # Null /\ WaitsFor(p) \subseteq unanswered[current] /\ current \notin Scheduled'
<1>1. PipeInv /\ [Next]_vars => [\A p \in asleep : WaitsFor(p) # {} => Kept(p)]_vars
  <2> SUFFICES ASSUME PipeInv, Next, NEW p \in asleep, WaitsFor(p) # {}  PROVE Kept(p)
    OBVIOUS
  <2>1. PICK t \in WaitsFor(p) : WaitsFor(p) = {t}
    BY DEF WaitsFor, PipeInv, MailInv, CallersSleep, InUse
  <2>2. t \in InUse /\ ~task[t].event /\ task[t].process = p /\ p \in Process
    BY DEF WaitsFor, InUse, PipeInv, MailInv, QueueTypeOK
  <2>3. PipeInv'
    BY PipeInvStep
  <2>4. CASE NoneForgotten
    <3>1. CASE p \notin asleep'
      BY <3>1
    <3>2. CASE p \in asleep'
      <4>1. t \in InUse' /\ task'[t].process = p /\ ~task'[t].event
        BY <2>2, <2>4, <3>2 DEF NoneForgotten
      <4>2. WaitsFor(p)' = {t}
        BY <2>3, <4>1 DEF WaitsFor, PipeInv, MailInv, CallersSleep, InUse
      <4> QED
        BY <2>1, <4>2
    <3> QED
      BY <3>1, <3>2
  <2>5. ASSUME NEW c \in Process, Create(c)  PROVE Kept(p)
    <3>1. CASE GoWild
      BY <3>1, WildKeeps, <2>4 DEF GoWild
    <3>2. CASE ~GoWild
      <4>1. PICK q \in freePipes :
               /\ freePipes' = freePipes \ {q}
               /\ sendQ' = [sendQ EXCEPT ![q] = <<>>]
               /\ recvQ' = [recvQ EXCEPT ![q] = <<>>]
               /\ task' = task /\ unanswered' = unanswered
        BY <2>5, <3>2 DEF Create
      <4>2. CASE t \in Range(sendQ[q])
        BY <2>1, <4>1, <4>2
      <4>3. CASE t \notin Range(sendQ[q])
        <5>1. t \notin Range(recvQ[q])
          BY <2>2, PipeAssumption DEF PipeInv, EndsTypeOK, OneHolder
        <5>2. t \in InUse'
          BY <2>2, <4>1, <4>3, <5>1 DEF InUse, InSendQ, InRecvQ, InHand, PipeInv, MailInv, MailTypeOK
        <5>3. WaitsFor(p)' = {t}
          BY <2>2, <2>3, <4>1, <5>2 DEF WaitsFor, PipeInv, MailInv, CallersSleep, InUse
        <5> QED
          BY <2>1, <5>3
      <4> QED
        BY <4>2, <4>3
    <3> QED
      BY <3>1, <3>2
  <2>6. ASSUME NEW c \in Process, Exit(c)  PROVE Kept(p)
    <3>1. /\ c = current /\ Retire /\ c # Null
          /\ unanswered' = [unanswered EXCEPT ![c] = {}]
          /\ UNCHANGED <<sendQ, recvQ, task>>
      BY <2>6, DispatcherAssumption DEF Exit
    <3>2. CASE t \in unanswered[c]
      <4>1. Scheduled' = Scheduled \ {current}
        BY <3>1, QueueStep DEF PipeInv, MailInv
      <4> QED
        BY <2>1, <3>1, <3>2, <4>1
    <3>3. CASE t \notin unanswered[c]
      <4>1. t \in InUse'
        BY <2>2, <3>1, <3>3 DEF InUse, InSendQ, InRecvQ, InHand, PipeInv, MailInv, MailTypeOK
      <4>2. WaitsFor(p)' = {t}
        BY <2>2, <2>3, <3>1, <4>1 DEF WaitsFor, PipeInv, MailInv, CallersSleep, InUse
      <4> QED
        BY <2>1, <4>2
    <3> QED
      BY <3>2, <3>3
  <2> HIDE DEF Kept
  <2> QED
    BY <2>4, <2>5, <2>6, PipeInvStep
<1> QED
  BY <1>1, PipeInvariant, PTL DEF Spec, ForgottenOnlyByReuse

-----------------------------------------------------------------------------
(* What the pipes promise, while nobody closes or exits *)

\* With no program that closes its pipe or exits, no pipe comes back to the
\* pool, so none in it has an end, a port or a line; and no task is dead.
NothingReused ==
    /\ \A q \in freePipes : sendQ[q] = <<>>
    /\ \A q \in Pipe : otherEnd[q] \notin freePipes
    /\ \A n \in Port : pipelist[n] \notin freePipes
    /\ \A t \in Task : ~task[t].dead

\* Who the tasks of a line are from, as calls of Rendezvous.
CallsOf(f, line) == [i \in DOMAIN line |-> f[line[i]]]

\* The line of calls grows, and is served, as the line of tasks.
LEMMA CallsGrow ==
    ASSUME NEW f, NEW line \in Seq(Task), NEW t \in Task
    PROVE  CallsOf(f, Append(line, t)) = Append(CallsOf(f, line), f[t])
<1> DEFINE r == Append(line, t)
           c == CallsOf(f, line)
           S == {f[x] : x \in Task}
<1>1. /\ r \in Seq(Task) /\ Len(r) = Len(line) + 1 /\ r[Len(line) + 1] = t
      /\ \A i \in 1 .. Len(line) : r[i] = line[i]
      /\ DOMAIN line = 1 .. Len(line) /\ DOMAIN r = 1 .. Len(r)
      /\ Len(line) \in Nat
  OBVIOUS
<1>2. c \in Seq(S) /\ Len(c) = Len(line) /\ \A i \in 1 .. Len(line) : c[i] = f[line[i]]
  BY <1>1 DEF CallsOf
<1>3. /\ Append(c, f[t]) \in Seq(S) /\ Len(Append(c, f[t])) = Len(line) + 1
      /\ Append(c, f[t])[Len(line) + 1] = f[t]
      /\ \A i \in 1 .. Len(line) : Append(c, f[t])[i] = f[line[i]]
  <2> HIDE DEF c
  <2> QED
    BY <1>1, <1>2
<1>4. /\ CallsOf(f, r) \in Seq(S) /\ Len(CallsOf(f, r)) = Len(line) + 1
      /\ \A i \in 1 .. (Len(line) + 1) : CallsOf(f, r)[i] = f[r[i]]
  <2> HIDE DEF r
  <2> QED
    BY <1>1 DEF CallsOf
<1> HIDE DEF r, c, S
<1>5. \A i \in 1 .. (Len(line) + 1) : CallsOf(f, r)[i] = Append(c, f[t])[i]
  BY <1>1, <1>3, <1>4
<1>6. CallsOf(f, r) = Append(c, f[t])
  BY <1>3, <1>4, <1>5, SeqEqual
<1> QED
  BY <1>6 DEF r, c

\* The line of calls without its first is the line of the remaining tasks.
LEMMA CallsServed ==
    ASSUME NEW f, NEW line \in Seq(Task), line # <<>>
    PROVE  /\ CallsOf(f, line) # <<>>
           /\ Head(CallsOf(f, line)) = f[Head(line)]
           /\ Tail(CallsOf(f, line)) = CallsOf(f, Tail(line))
<1> DEFINE c == CallsOf(f, line)
           r == Tail(line)
           S == {f[x] : x \in Task}
<1>1. /\ r \in Seq(Task) /\ Len(r) = Len(line) - 1
      /\ \A i \in 1 .. (Len(line) - 1) : r[i] = line[i + 1]
      /\ DOMAIN line = 1 .. Len(line) /\ DOMAIN r = 1 .. Len(r)
      /\ Len(line) \in Nat \ {0} /\ Head(line) = line[1]
  OBVIOUS
<1>2. c \in Seq(S) /\ Len(c) = Len(line) /\ \A i \in 1 .. Len(line) : c[i] = f[line[i]]
  BY <1>1 DEF CallsOf
<1>3. /\ CallsOf(f, r) \in Seq(S) /\ Len(CallsOf(f, r)) = Len(line) - 1
      /\ \A i \in 1 .. (Len(line) - 1) : CallsOf(f, r)[i] = f[r[i]]
  <2> HIDE DEF r
  <2> QED
    BY <1>1 DEF CallsOf
<1> HIDE DEF c, r, S
<1>4. /\ c # <<>> /\ Head(c) = f[line[1]]
      /\ Tail(c) \in Seq(S) /\ Len(Tail(c)) = Len(line) - 1
      /\ \A i \in 1 .. (Len(line) - 1) : Tail(c)[i] = f[line[i + 1]]
  BY <1>1, <1>2
<1>5. ASSUME NEW i \in 1 .. (Len(line) - 1)  PROVE Tail(c)[i] = CallsOf(f, r)[i]
  <2>1. Tail(c)[i] = f[line[i + 1]] /\ CallsOf(f, r)[i] = f[r[i]] /\ r[i] = line[i + 1]
    BY <1>1, <1>3, <1>4
  <2> QED
    BY <2>1
<1>6. Tail(c) = CallsOf(f, r)
  BY <1>3, <1>4, <1>5, SeqEqual
<1> QED
  BY <1>1, <1>4, <1>6 DEF c, r

\* What is not in the line does not matter to it.
LEMMA CallsSame ==
    ASSUME NEW f, NEW g, NEW line, \A t \in Range(line) : f[t] = g[t]
    PROVE  CallsOf(f, line) = CallsOf(g, line)
  BY DEF CallsOf, Range

\* The state of Rendezvous that the pipes are in.
CallsNow   == [q \in Pipe |-> CallsOf(Caller, sendQ[q])]
\* Whose messages each process has in hand.
ServingNow == [p \in Process |-> {Caller[t] : t \in unanswered[p]}]

\* A process that is not asleep is engaged in no call.
LEMMA AwakeNotEngaged ==
    ASSUME PipeInv, NEW p \in Process \ asleep
    PROVE  p \notin Promise!Engaged
<1>1. \A t \in InUse : Caller[t] # p
  <2> SUFFICES ASSUME NEW t \in InUse, Caller[t] = p  PROVE FALSE
    OBVIOUS
  <2>1. t \in Task /\ p # Null
    BY InUseTasks, DispatcherAssumption DEF InUse, PipeInv, MailInv
  <2>2. ~task[t].event /\ task[t].process = p
    BY <2>1 DEF Caller
  <2> QED
    BY <2>2 DEF PipeInv, MailInv, CallersSleep
<1> HIDE DEF Caller
<1>2. p \notin Promise!InLine
  <2> DEFINE calls(q) == [i \in DOMAIN sendQ[q] |-> Caller[sendQ[q][i]]]
  <2>0. Promise!InLine = (UNION {Promise!Range([q \in Pipe |-> calls(q)][r]) : r \in Pipe}) \ {Null}
    BY DEF Promise!InLine
  <2> HIDE DEF calls
  <2> SUFFICES ASSUME NEW q \in Pipe, p \in Promise!Range(calls(q))  PROVE FALSE
    BY <2>0
  <2> USE DEF calls
  <2>1. PICK i \in DOMAIN sendQ[q] : p = Caller[sendQ[q][i]]
    BY DEF Promise!Range
  <2>2. sendQ[q][i] \in InUse
    BY DEF InUse, InSendQ, Range
  <2> QED
    BY <1>1, <2>1, <2>2
<1>3. ASSUME NEW s \in Process  PROVE p \notin {Caller[t] : t \in unanswered[s]}
  BY <1>1 DEF InUse, InHand
<1> QED
  BY <1>2, <1>3 DEF Promise!Engaged

\* Nothing shows while the tasks in line and in hand stay as they are.
LEMMA PromiseStutter ==
    ASSUME PipeInv, UNCHANGED <<sendQ, unanswered>>,
           \A t \in InSendQ \cup InHand : Caller'[t] = Caller[t]
    PROVE  CallsNow' = CallsNow /\ ServingNow' = ServingNow
<1>1. \A q \in Pipe : CallsOf(Caller, sendQ[q])' = CallsOf(Caller, sendQ[q])
  <2> SUFFICES ASSUME NEW q \in Pipe
               PROVE  CallsOf(Caller', sendQ[q]) = CallsOf(Caller, sendQ[q])
    BY DEF CallsOf
  <2>1. \A t \in Range(sendQ[q]) : Caller'[t] = Caller[t]
    BY DEF InSendQ
  <2> HIDE DEF Caller
  <2> QED
    BY <2>1, CallsSame
<1>2. \A p \in Process : {Caller[t] : t \in unanswered[p]}' = {Caller[t] : t \in unanswered[p]}
  BY DEF InHand
<1> QED
  BY <1>1, <1>2 DEF CallsNow, ServingNow

\* A message or event that finds nobody waiting joins the line.
LEMMA QueuePromised ==
    ASSUME PipeInv, current \in Process, NEW q \in Pipe, NEW t \in freeTasks,
           NEW event \in BOOLEAN, Queue(task, q, t, event)
    PROVE  Promise!Next
<1>1. t \in Task /\ t \notin InUse /\ InUse \subseteq Task /\ current \notin asleep
  BY InUseTasks DEF PipeInv, MailInv, MailTypeOK, Apart, OnePlace, InUse
<1>2. /\ task' = [task EXCEPT ![t] = [process |-> current, event |-> event, dead |-> FALSE]]
      /\ sendQ' = [sendQ EXCEPT ![q] = Append(sendQ[q], t)]
      /\ unanswered' = unanswered
      /\ sendQ \in [Pipe -> Seq(Task)]
      /\ task \in [Task -> [process : Process \cup {Null}, event : BOOLEAN, dead : BOOLEAN]]
  BY DEF Queue, AtTheEnd, PipeInv, MailInv, MailTypeOK, TaskTypeOK
<1>3. /\ \A x \in InUse : Caller'[x] = Caller[x]
      /\ Caller'[t] = IF event THEN Null ELSE current
  BY <1>1, <1>2 DEF Caller
<1>4. ServingNow' = ServingNow
  <2>1. \A p \in Process : \A x \in unanswered[p] : Caller'[x] = Caller[x]
    BY <1>3 DEF InUse, InHand
  <2>2. ServingNow' = [p \in Process |-> {Caller'[x] : x \in unanswered'[p]}]
    BY DEF ServingNow
  <2> HIDE DEF Caller
  <2>3. \A p \in Process : {Caller'[x] : x \in unanswered'[p]} = {Caller[x] : x \in unanswered[p]}
    BY <1>2, <2>1
  <2> QED
    BY <2>2, <2>3 DEF ServingNow
<1>5. CallsNow' = [CallsNow EXCEPT ![q] = Append(CallsNow[q], IF event THEN Null ELSE current)]
  <2>1. \A r \in Pipe : CallsOf(Caller', sendQ[r]) = CallsOf(Caller, sendQ[r])
    <3> SUFFICES ASSUME NEW r \in Pipe, NEW x \in Range(sendQ[r])  PROVE Caller'[x] = Caller[x]
      BY CallsSame
    <3> QED
      BY <1>3 DEF InUse, InSendQ
  <2>2. CallsOf(Caller', Append(sendQ[q], t)) = Append(CallsOf(Caller', sendQ[q]), Caller'[t])
    BY <1>1, <1>2, CallsGrow
  <2>3. CallsNow' = [r \in Pipe |-> CallsOf(Caller', sendQ'[r])]
    BY DEF CallsNow, CallsOf
  <2> HIDE DEF Caller, CallsOf
  <2> QED
    BY <1>2, <1>3, <2>1, <2>2, <2>3 DEF CallsNow
<1>6. current \notin Promise!Engaged
  BY <1>1, AwakeNotEngaged
<1> QED
  BY <1>4, <1>5, <1>6
  DEF Promise!Next, Promise!Call, Promise!Post, CallsNow, ServingNow, CallsOf

\* A message that finds a receiver waiting is in its hands at once.
LEMMA HandOverPromised ==
    ASSUME PipeInv, current \in Process, NEW q \in Pipe, NEW t \in freeTasks, HandOver(q, t)
    PROVE  Promise!Next
<1> DEFINE into == Head(recvQ[q])
           s    == task[into].process
           new  == [process |-> current, event |-> FALSE, dead |-> FALSE]
<1>1. /\ recvQ[q] # <<>> /\ sendQ' = sendQ
      /\ task' = [task EXCEPT ![into] = Blank, ![t] = new]
      /\ unanswered' = [unanswered EXCEPT ![s] = unanswered[s] \cup {t}]
  BY DEF HandOver
<1>2. t \in Task /\ t \notin InUse /\ InUse \subseteq Task /\ current \notin asleep
  BY InUseTasks DEF PipeInv, MailInv, MailTypeOK, Apart, OnePlace, InUse
<1>3. /\ into \in Task /\ into \notin InSendQ \cup InHand
      /\ s \in asleep /\ s \in Process /\ sendQ[q] = <<>>
  BY <1>1, FirstReceiver DEF PipeInv
<1> HIDE DEF into, s
<1>4. /\ \A x \in InSendQ \cup InHand : Caller'[x] = Caller[x]
      /\ Caller'[t] = current
  <2>1. \A x \in Task : task'[x] = IF x = t THEN new ELSE IF x = into THEN Blank ELSE task[x]
    BY <1>1, <1>2, <1>3 DEF PipeInv, MailInv, MailTypeOK, TaskTypeOK
  <2> QED
    BY <1>2, <1>3, <2>1 DEF Caller, InUse
<1>5. CallsNow' = CallsNow
  <2>1. \A r \in Pipe : CallsOf(Caller', sendQ[r]) = CallsOf(Caller, sendQ[r])
    <3> SUFFICES ASSUME NEW r \in Pipe, NEW x \in Range(sendQ[r])  PROVE Caller'[x] = Caller[x]
      BY CallsSame
    <3> QED
      BY <1>4 DEF InSendQ
  <2>2. CallsNow' = [r \in Pipe |-> CallsOf(Caller', sendQ'[r])]
    BY DEF CallsNow, CallsOf
  <2> HIDE DEF Caller, CallsOf
  <2> QED
    BY <1>1, <2>1, <2>2 DEF CallsNow
<1>6. ServingNow' = [ServingNow EXCEPT ![s] = ServingNow[s] \cup {current}]
  <2>1. \A p \in Process :
           unanswered'[p] = IF p = s THEN unanswered[s] \cup {t} ELSE unanswered[p]
    BY <1>1, <1>3 DEF PipeInv, MailInv, MailTypeOK
  <2>2. \A p \in Process : \A x \in unanswered[p] : Caller'[x] = Caller[x]
    BY <1>4 DEF InHand
  <2> HIDE DEF Caller
  <2>3. ASSUME NEW p \in Process
        PROVE  {Caller'[x] : x \in unanswered'[p]} =
                  IF p = s THEN {Caller[x] : x \in unanswered[p]} \cup {current}
                           ELSE {Caller[x] : x \in unanswered[p]}
    BY <1>4, <2>1, <2>2
  <2>4. ServingNow' = [p \in Process |-> {Caller'[x] : x \in unanswered'[p]}]
    BY DEF ServingNow
  <2> QED
    BY <1>3, <2>3, <2>4 DEF ServingNow
<1>7. current \notin Promise!Engaged /\ current # s
  BY <1>2, <1>3, AwakeNotEngaged
<1>8. CallsNow[q] = <<>>
  BY <1>3 DEF CallsNow, CallsOf
<1> QED
  BY <1>3, <1>5, <1>6, <1>7, <1>8
  DEF Promise!Next, Promise!CallTaken, CallsNow, ServingNow, CallsOf

\* An event that finds a receiver waiting leaves no trace.
LEMMA HandOverEventPromised ==
    ASSUME PipeInv, current \in Process, NEW q \in Pipe, NEW t \in freeTasks,
           HandOverEvent(task, q, t)
    PROVE  CallsNow' = CallsNow /\ ServingNow' = ServingNow
<1> DEFINE into == Head(recvQ[q])
<1>1. /\ recvQ[q] # <<>> /\ UNCHANGED <<sendQ, unanswered>>
      /\ task' = [task EXCEPT ![into] = Blank, ![t] = Blank]
  BY DEF HandOverEvent
<1>2. t \notin InUse /\ InUse \subseteq Task
  BY InUseTasks DEF PipeInv, MailInv, Apart, InUse
<1>3. into \notin InSendQ \cup InHand
  BY <1>1, FirstReceiver DEF PipeInv
<1> HIDE DEF into
<1>4. \A x \in InSendQ \cup InHand : Caller'[x] = Caller[x]
  BY <1>1, <1>2, <1>3 DEF Caller, InUse, PipeInv, MailInv, MailTypeOK, TaskTypeOK
<1> QED
  BY <1>1, <1>4, PromiseStutter

\* reply() answers one call, its sender's only one.
LEMMA ReplyPromised ==
    ASSUME PipeInv, current \in Process, NEW t \in Task, Reply(current, t)
    PROVE  Promise!Next
<1> DEFINE c == task[t].process
<1>1. /\ t \in unanswered[current]
      /\ unanswered' = [unanswered EXCEPT ![current] = unanswered[current] \ {t}]
      /\ task' = Freed({t}) /\ sendQ' = sendQ
  BY DEF Reply
<1>2. t \in InHand /\ t \in InUse /\ t \notin InSendQ /\ InUse \subseteq Task /\ current \notin asleep
  BY <1>1, InUseTasks DEF PipeInv, MailInv, Apart, InHand, InUse, OnePlace
<1>3. c \in Process /\ ~task[t].event /\ Caller[t] = c
  BY <1>2 DEF PipeInv, MailInv, MessagesLive, Caller
<1>4. \A x \in InUse \ {t} : Caller[x] # c /\ Caller'[x] = Caller[x]
  <2> SUFFICES ASSUME NEW x \in InUse \ {t}  PROVE Caller[x] # c /\ Caller'[x] = Caller[x]
    OBVIOUS
  <2>1. x \in Task /\ task'[x] = task[x] /\ c # Null
    BY <1>1, <1>2, <1>3, DispatcherAssumption DEF Freed
  <2>2. ~task[x].event => task[x].process # c
    BY <1>2, <1>3 DEF PipeInv, MailInv, CallersSleep
  <2> QED
    BY <2>1, <2>2 DEF Caller
<1> HIDE DEF c, Caller
<1>5. CallsNow' = CallsNow
  <2>1. \A r \in Pipe : CallsOf(Caller', sendQ[r]) = CallsOf(Caller, sendQ[r])
    <3> SUFFICES ASSUME NEW r \in Pipe, NEW x \in Range(sendQ[r])  PROVE Caller'[x] = Caller[x]
      BY CallsSame
    <3> QED
      BY <1>2, <1>4 DEF InSendQ, InUse
  <2>2. CallsNow' = [r \in Pipe |-> CallsOf(Caller', sendQ'[r])]
    BY DEF CallsNow, CallsOf
  <2> HIDE DEF CallsOf
  <2> QED
    BY <1>1, <2>1, <2>2 DEF CallsNow
<1>6. ServingNow' = [ServingNow EXCEPT ![current] = ServingNow[current] \ {c}]
  <2>1. \A p \in Process :
           unanswered'[p] = IF p = current THEN unanswered[p] \ {t} ELSE unanswered[p]
    BY <1>1 DEF PipeInv, MailInv, MailTypeOK
  <2>2. \A p \in Process : t \in unanswered[p] => p = current
    BY <1>1 DEF PipeInv, MailInv, Apart
  <2>3. \A p \in Process : \A x \in unanswered'[p] : x \in InUse \ {t}
    BY <2>1, <2>2 DEF InUse, InHand
  <2>4. ASSUME NEW p \in Process
        PROVE  {Caller'[x] : x \in unanswered'[p]} =
                  IF p = current THEN {Caller[x] : x \in unanswered[p]} \ {c}
                                 ELSE {Caller[x] : x \in unanswered[p]}
    <3>1. {Caller'[x] : x \in unanswered'[p]} = {Caller[x] : x \in unanswered'[p]}
      BY <1>4, <2>3
    <3>2. CASE p = current
      <4>1. \A x \in unanswered[p] : x # t <=> Caller[x] # c
        BY <1>3, <1>4 DEF InUse, InHand
      <4> QED
        BY <2>1, <3>1, <3>2, <4>1
    <3>3. CASE p # current
      BY <2>1, <3>1, <3>3
    <3> QED
      BY <3>2, <3>3
  <2>5. ServingNow' = [p \in Process |-> {Caller'[x] : x \in unanswered'[p]}]
    BY DEF ServingNow
  <2> QED
    BY <2>4, <2>5 DEF ServingNow
<1>7. current \notin Promise!Engaged
  BY <1>2, AwakeNotEngaged
<1>8. c \in ServingNow[current]
  BY <1>1, <1>3 DEF ServingNow
<1> QED
  BY <1>3, <1>5, <1>6, <1>7, <1>8
  DEF Promise!Next, Promise!Answer, CallsNow, ServingNow, CallsOf

\* While no task is dead, receive() takes the head of the line or blocks.
LEMMA ReceiveHead ==
    ASSUME PipeInv, NothingReused, NEW p \in Process, Receive(p)
    PROVE  LET q == handle[p] IN
           /\ p = current /\ q \in Pipe
           /\ ReceiveWork(p, q, {}, sendQ[q]) \/ ReceiveNothing(p, q, {}, sendQ[q])
<1> DEFINE q == handle[p]
           skippedBy(n) == {sendQ[q][i] : i \in 1 .. n}
           lineAfter(n) == SubSeq(sendQ[q], n + 1, Len(sendQ[q]))
<1>1. PICK n \in 0 .. Len(sendQ[q]) :
         /\ \A x \in skippedBy(n) : task[x].dead
         /\ \/ ReceiveWork(p, q, skippedBy(n), lineAfter(n))
            \/ ReceiveNothing(p, q, skippedBy(n), lineAfter(n))
  BY DEF Receive
<1>2. p = current /\ q \in Pipe /\ sendQ[q] \in Seq(Task)
  BY DEF Receive, PipeInv, EndsTypeOK, MailInv, MailTypeOK
<1>3. n = 0
  <2> SUFFICES ASSUME n # 0  PROVE FALSE
    OBVIOUS
  <2>1. 1 \in 1 .. n /\ sendQ[q][1] \in Task
    BY <1>2
  <2> QED
    BY <1>1, <2>1 DEF NothingReused
<1>4. skippedBy(n) = {} /\ lineAfter(n) = sendQ[q]
  <2>1. \A line \in Seq(Task) : SubSeq(line, 1, Len(line)) = line
    BY SubSeqProperties, SeqEqual
  <2> QED
    BY <1>2, <1>3, <2>1
<1> QED
  BY <1>1, <1>2, <1>4

\* receive() of the head of the line is what Rendezvous calls Take.
LEMMA ReceiveWorkPromised ==
    ASSUME PipeInv, current \in Process, NEW q \in Pipe,
           ReceiveWork(current, q, {}, sendQ[q])
    PROVE  Promise!Next
<1> DEFINE t == Head(sendQ[q])
<1>1. /\ sendQ[q] # <<>>
      /\ sendQ' = [sendQ EXCEPT ![q] = Tail(sendQ[q])]
      /\ task' = Freed(IF task[t].event THEN {t} ELSE {})
      /\ unanswered' = [unanswered EXCEPT ![current] =
                           IF task[t].event THEN unanswered[current]
                           ELSE unanswered[current] \cup {t}]
  BY DEF ReceiveWork, TakeHead
<1>2. sendQ[q] \in Seq(Task) /\ IsInjective(sendQ[q])
  BY DEF PipeInv, MailInv, MailTypeOK, Apart
<1>3. /\ t \in Task /\ t \notin Range(Tail(sendQ[q]))
      /\ Range(sendQ[q]) = {t} \cup Range(Tail(sendQ[q]))
  BY <1>1, <1>2, TakeFirst
<1>4. /\ t \in InUse /\ InUse \subseteq Task /\ current \notin asleep
      /\ \A r \in Pipe \ {q} : t \notin Range(sendQ[r])
      /\ t \notin InHand
  BY <1>3, InUseTasks DEF PipeInv, MailInv, Apart, InUse, InSendQ, OnePlace
<1> HIDE DEF t
<1>5. /\ \A x \in InUse \ {t} : Caller'[x] = Caller[x]
      /\ task[t].event => Caller[t] = Null
      /\ ~task[t].event => /\ Caller[t] = task[t].process /\ Caller[t] \in Process
                           /\ Caller'[t] = Caller[t]
  BY <1>1, <1>3, <1>4 DEF Freed, Caller, PipeInv, MailInv, MessagesLive
<1> HIDE DEF Caller
<1>6. CallsNow' = [CallsNow EXCEPT ![q] = Tail(CallsNow[q])]
  <2>1. \A r \in Pipe : sendQ'[r] = IF r = q THEN Tail(sendQ[q]) ELSE sendQ[r]
    BY <1>1 DEF PipeInv, MailInv, MailTypeOK
  <2>2. ASSUME NEW r \in Pipe
        PROVE  CallsOf(Caller', sendQ'[r]) = CallsOf(Caller, sendQ'[r])
    <3> SUFFICES ASSUME NEW x \in Range(sendQ'[r])  PROVE Caller'[x] = Caller[x]
      BY CallsSame
    <3>1. x # t /\ x \in Range(sendQ[r])
      BY <1>3, <1>4, <2>1
    <3> QED
      BY <1>5, <3>1 DEF InUse, InSendQ
  <2>3. CallsOf(Caller, Tail(sendQ[q])) = Tail(CallsOf(Caller, sendQ[q]))
    BY <1>1, <1>2, CallsServed
  <2>4. CallsNow' = [r \in Pipe |-> CallsOf(Caller', sendQ'[r])]
    BY DEF CallsNow, CallsOf
  <2> HIDE DEF CallsOf
  <2> QED
    BY <2>1, <2>2, <2>3, <2>4 DEF CallsNow
<1>7. CallsNow[q] # <<>> /\ Head(CallsNow[q]) = Caller[t]
  BY <1>1, <1>2, CallsServed DEF CallsNow, t
<1>8. ServingNow' = [ServingNow EXCEPT ![current] = ServingNow[current] \cup ({Caller[t]} \ {Null})]
  <2>1. \A p \in Process :
           unanswered'[p] = IF p = current /\ ~task[t].event
                            THEN unanswered[p] \cup {t} ELSE unanswered[p]
    BY <1>1 DEF PipeInv, MailInv, MailTypeOK
  <2>2. \A p \in Process : \A x \in unanswered[p] : Caller'[x] = Caller[x]
    BY <1>4, <1>5 DEF InUse, InHand
  <2>3. ASSUME NEW p \in Process
        PROVE  {Caller'[x] : x \in unanswered'[p]} =
                  IF p = current THEN {Caller[x] : x \in unanswered[p]} \cup ({Caller[t]} \ {Null})
                                 ELSE {Caller[x] : x \in unanswered[p]}
    <3>1. CASE p = current /\ ~task[t].event
      <4>1. {Caller[t]} \ {Null} = {Caller[t]}
        BY <1>5, <3>1, DispatcherAssumption
      <4>2. unanswered'[p] = unanswered[p] \cup {t} /\ \A x \in unanswered'[p] : Caller'[x] = Caller[x]
        BY <1>5, <2>1, <2>2, <3>1
      <4> QED
        BY <3>1, <4>1, <4>2
    <3>2. CASE p # current \/ task[t].event
      <4>1. unanswered'[p] = unanswered[p] /\ (task[t].event => {Caller[t]} \ {Null} = {})
        BY <1>5, <2>1, <3>2
      <4> QED
        BY <2>2, <3>2, <4>1
    <3> QED
      BY <3>1, <3>2
  <2>4. ServingNow' = [p \in Process |-> {Caller'[x] : x \in unanswered'[p]}]
    BY DEF ServingNow
  <2> QED
    BY <2>3, <2>4 DEF ServingNow
<1>9. current \notin Promise!Engaged
  BY <1>4, AwakeNotEngaged
<1> QED
  BY <1>6, <1>7, <1>8, <1>9
  DEF Promise!Next, Promise!Take, CallsNow, ServingNow, CallsOf

\* receive() that blocks changes nothing of the calls.
LEMMA ReceiveNothingPromised ==
    ASSUME PipeInv, NEW p \in Process, NEW q \in Pipe, ReceiveNothing(p, q, {}, sendQ[q])
    PROVE  CallsNow' = CallsNow /\ ServingNow' = ServingNow
<1>1. CASE GoWild
  BY <1>1, PromiseStutter DEF GoWild, mailVars, Caller
<1>2. CASE ~GoWild
  <2>1. PICK t \in freeTasks :
           task' = [Freed({}) EXCEPT ![t] = [process |-> p, event |-> FALSE, dead |-> FALSE]]
    BY <1>2 DEF ReceiveNothing
  <2>2. sendQ' = sendQ /\ unanswered' = unanswered
    BY <1>2 DEF ReceiveNothing, PipeInv, MailInv, MailTypeOK
  <2>3. t \notin InUse /\ InUse \subseteq Task
    BY <2>1, InUseTasks DEF PipeInv, MailInv, Apart, InUse
  <2>4. \A x \in InSendQ \cup InHand : Caller'[x] = Caller[x]
    BY <2>1, <2>3 DEF Freed, Caller, InUse
  <2> QED
    BY <2>2, <2>4, PromiseStutter
<1> QED
  BY <1>1, <1>2

\* A pipe from the pool has no calls in its line.
LEMMA CreatePromised ==
    ASSUME PipeInv, NothingReused, NEW p \in Process, Create(p)
    PROVE  CallsNow' = CallsNow /\ ServingNow' = ServingNow
<1>1. CASE GoWild
  BY <1>1, PromiseStutter DEF GoWild, mailVars, Caller
<1>2. CASE ~GoWild
  <2>1. UNCHANGED <<task, unanswered>> /\ sendQ' = sendQ
    BY <1>2 DEF Create, NothingReused, PipeInv, MailInv, MailTypeOK
  <2> QED
    BY <2>1, PromiseStutter DEF Caller
<1> QED
  BY <1>1, <1>2

\* While nobody closes or exits, the pipes in the pool stay as good as new.
LEMMA NothingReusedStep ==
    ASSUME Closers = {}, PipeInv, NothingReused, [Next]_vars
    PROVE  NothingReused'
<1> DEFINE Fresh == /\ freePipes' \subseteq freePipes
                    /\ \A q \in freePipes' : sendQ'[q] = sendQ[q]
                    /\ \A q \in Pipe : otherEnd'[q] \notin freePipes'
                    /\ \A n \in Port : pipelist'[n] \notin freePipes'
                    /\ \A t \in Task : ~task'[t].dead
<1>0. /\ freePipes \subseteq Pipe /\ sendQ \in [Pipe -> Seq(Task)]
      /\ TaskTypeOK(task) /\ Null \notin Pipe
  BY PipeAssumption DEF PipeInv, EndsTypeOK, MailInv, MailTypeOK
<1>1. CASE UNCHANGED <<freePipes, otherEnd, pipelist, sendQ, task>>
  BY <1>1 DEF NothingReused
<1>2. ASSUME NEW p \in Process, Create(p)  PROVE Fresh
  <2>1. CASE GoWild
    BY <2>1 DEF GoWild, pipeVars, mailVars, NothingReused
  <2>2. CASE ~GoWild
    <3>1. PICK q \in freePipes :
             /\ freePipes' = freePipes \ {q}
             /\ otherEnd' = [otherEnd EXCEPT ![q] = Null]
             /\ sendQ' = [sendQ EXCEPT ![q] = <<>>]
      BY <1>2, <2>2 DEF Create
    <3>2. UNCHANGED <<pipelist, task>>
      BY <1>2, <2>2 DEF Create
    <3> QED
      BY <1>0, <3>1, <3>2 DEF NothingReused, PipeInv, EndsTypeOK
  <2> QED
    BY <2>1, <2>2
<1>3. ASSUME NEW p \in Process, NEW n \in Port, Bind(p, n) \/ Connect(p, n)  PROVE Fresh
  BY <1>0, <1>3 DEF Bind, Connect, mailVars, NothingReused, PipeInv, EndsTypeOK, OneHolder
<1>4. ASSUME NEW p \in Process, Send(p) \/ PostEvent(p)  PROVE Fresh
  <2>1. CASE GoWild
    BY <2>1 DEF GoWild, pipeVars, mailVars, NothingReused
  <2>2. CASE ~GoWild
    <3> DEFINE q == otherEnd[handle[p]]
    <3>1. q \in Pipe \ freePipes /\ UNCHANGED pipeVars
      BY <1>4, <2>2 DEF Send, PostEvent, NothingReused, PipeInv, EndsTypeOK
    <3>2. PICK t \in freeTasks :
             \/ Queue(task, q, t, FALSE) \/ HandOver(q, t)
             \/ Queue(task, q, t, TRUE) \/ HandOverEvent(task, q, t)
      BY <1>4, <2>2 DEF Send, PostEvent
    <3> HIDE DEF q
    <3>3. \A r \in Pipe \ {q} : sendQ'[r] = sendQ[r]
      BY <1>0, <3>2 DEF Queue, HandOver, HandOverEvent
    <3>4. \A x \in Task : ~task'[x].dead
      <4>1. CASE Queue(task, q, t, FALSE) \/ Queue(task, q, t, TRUE)
        <5>1. PICK e : task' = [task EXCEPT
                                    ![t] = [process |-> current, event |-> e, dead |-> FALSE]]
          BY <4>1 DEF Queue
        <5> QED
          BY <1>0, <5>1 DEF NothingReused, TaskTypeOK
      <4>2. CASE HandOver(q, t)
        <5>1. PICK into : task' = [task EXCEPT ![into] = Blank,
                      ![t] = [process |-> current, event |-> FALSE, dead |-> FALSE]]
          BY <4>2 DEF HandOver
        <5>2. \A x \in Task : task'[x] \in {task[x], Blank,
                      [process |-> current, event |-> FALSE, dead |-> FALSE]}
          BY <1>0, <5>1 DEF TaskTypeOK
        <5> QED
          BY <5>2 DEF NothingReused, Blank
      <4>3. CASE HandOverEvent(task, q, t)
        BY <1>0, <4>3 DEF HandOverEvent, NothingReused, TaskTypeOK, Blank
      <4> QED
        BY <3>2, <4>1, <4>2, <4>3
    <3> QED
      BY <1>0, <3>1, <3>3, <3>4 DEF NothingReused, pipeVars
  <2> QED
    BY <2>1, <2>2
<1>5. ASSUME NEW p \in Process, Receive(p)  PROVE Fresh
  <2> DEFINE q == handle[p]
  <2>1. q \in Pipe \ freePipes /\ UNCHANGED pipeVars
    BY <1>5 DEF Receive, PipeInv, EndsTypeOK, OneHolder
  <2>2. ReceiveWork(p, q, {}, sendQ[q]) \/ ReceiveNothing(p, q, {}, sendQ[q])
    BY <1>5, ReceiveHead
  <2> HIDE DEF q
  <2>3. \A r \in Pipe \ {q} : sendQ'[r] = sendQ[r]
    BY <1>0, <2>2 DEF ReceiveWork, ReceiveNothing, GoWild, mailVars
  <2>4. \A x \in Task : ~task'[x].dead
    <3>1. CASE ReceiveWork(p, q, {}, sendQ[q])
      BY <3>1 DEF ReceiveWork, Freed, Blank, NothingReused
    <3>2. CASE GoWild
      BY <3>2 DEF GoWild, mailVars, NothingReused
    <3>3. CASE ReceiveNothing(p, q, {}, sendQ[q]) /\ ~GoWild
      <4>1. PICK t : task' = [Freed({}) EXCEPT
                                 ![t] = [process |-> p, event |-> FALSE, dead |-> FALSE]]
        BY <3>3 DEF ReceiveNothing
      <4> QED
        BY <4>1 DEF Freed, NothingReused
    <3> QED
      BY <2>2, <3>1, <3>2, <3>3
  <2> QED
    BY <1>0, <2>1, <2>3, <2>4 DEF NothingReused, pipeVars
<1>6. ASSUME NEW p \in Process, NEW t \in Task, Reply(p, t)  PROVE Fresh
  BY <1>6 DEF Reply, pipeVars, Freed, Blank, NothingReused
<1>7. Fresh => NothingReused'
  BY DEF NothingReused
<1>8. ASSUME NEW p \in Process  PROVE ~Close(p) /\ ~Exit(p) /\ ~Start(p)
  BY DEF Close, Exit, Start
<1>9. \A p \in Process : Listens[p] \subseteq Port /\ Talks[p] \subseteq Port
  BY PipeAssumption
<1>10. CASE Tick
  BY <1>1, <1>10 DEF Tick, pipeVars, mailVars
<1> HIDE DEF Fresh
<1> QED
  BY <1>1, <1>2, <1>3, <1>4, <1>5, <1>6, <1>7, <1>8, <1>9, <1>10
  DEF Next, vars, pipeVars, mailVars

\* Each step of the pipes is a step of Rendezvous, or one that it does not see.
LEMMA PromiseStep ==
    ASSUME Closers = {}, PipeInv, NothingReused, [Next]_vars
    PROVE  Promise!Next \/ (CallsNow' = CallsNow /\ ServingNow' = ServingNow)
<1> DEFINE Goal == Promise!Next \/ (CallsNow' = CallsNow /\ ServingNow' = ServingNow)
<1>1. CASE UNCHANGED <<sendQ, unanswered, task>>
  BY <1>1, PromiseStutter DEF Caller
<1>2. ASSUME NEW p \in Process, Create(p)  PROVE Goal
  BY <1>2, CreatePromised
<1>3. ASSUME NEW p \in Process, Send(p) \/ PostEvent(p)  PROVE Goal
  <2>1. CASE GoWild
    BY <1>1, <2>1 DEF GoWild, mailVars
  <2>2. CASE ~GoWild
    <3> DEFINE q == otherEnd[handle[p]]
    <3>1. q \in Pipe /\ p = current
      BY <1>3 DEF Send, PostEvent, PipeInv, EndsTypeOK
    <3>2. PICK t \in freeTasks :
             \/ Queue(task, q, t, FALSE) \/ HandOver(q, t)
             \/ Queue(task, q, t, TRUE) \/ HandOverEvent(task, q, t)
      BY <1>3, <2>2 DEF Send, PostEvent
    <3> HIDE DEF q
    <3> QED
      BY <3>1, <3>2, QueuePromised, HandOverPromised, HandOverEventPromised
  <2> QED
    BY <2>1, <2>2
<1>4. ASSUME NEW p \in Process, Receive(p)  PROVE Goal
  BY <1>4, ReceiveHead, ReceiveWorkPromised, ReceiveNothingPromised
<1>5. ASSUME NEW p \in Process, NEW t \in Task, Reply(p, t)  PROVE Goal
  <2>1. p = current
    BY <1>5 DEF Reply
  <2> QED
    BY <1>5, <2>1, ReplyPromised
<1>6. ASSUME NEW p \in Process  PROVE ~Close(p) /\ ~Exit(p) /\ ~Start(p)
  BY DEF Close, Exit, Start
<1>7. ASSUME NEW p \in Process, NEW n, Bind(p, n) \/ Connect(p, n)  PROVE Goal
  BY <1>1, <1>7 DEF Bind, Connect, mailVars
<1>8. CASE Tick
  BY <1>1, <1>8 DEF Tick, mailVars
<1> HIDE DEF Goal
<1>9. Goal
  BY <1>1, <1>2, <1>3, <1>4, <1>5, <1>6, <1>7, <1>8 DEF Next, vars, mailVars, Goal
<1> QED
  BY <1>9 DEF Goal

\* With nobody closing or exiting, the pipes implement Rendezvous.
THEOREM PipesKeepPromise ==
    ASSUME Closers = {}
    PROVE  Spec => KeepsPromise
<1>1. Init => Promise!Init /\ NothingReused
  BY PipeAssumption DEF Init, Promise!Init, NothingReused, Blank
<1>2. PipeInv /\ NothingReused /\ [Next]_vars =>
        /\ NothingReused'
        /\ [Promise!Next]_<<CallsNow, ServingNow>>
  BY NothingReusedStep, PromiseStep
<1> QED
  BY <1>1, <1>2, PipeInvariant, PTL
  DEF Spec, KeepsPromise, Promise!Spec, CallsNow, ServingNow, CallsOf

=============================================================================
