-------------------------- MODULE DispatcherProofs --------------------------
(***************************************************************************)
(* What the queue operations of Dispatcher.tla do, for any processes:      *)
(* lemmas that the proofs about the kernel's components rest on.           *)
(***************************************************************************)
EXTENDS Dispatcher, TLAPS

\* Pushing a newcomer adds it, once, behind those already queued.
LEMMA PushNewcomer ==
    ASSUME NEW q \in Seq(Process), IsInjective(q),
           NEW p \in Process, p \notin Range(q)
    PROVE  /\ Append(q, p) \in Seq(Process)
           /\ IsInjective(Append(q, p))
           /\ Range(Append(q, p)) = Range(q) \cup {p}
<1> DEFINE r == Append(q, p)
<1>1. r \in Seq(Process) /\ DOMAIN r = 1..(Len(q) + 1) /\ DOMAIN q = 1..Len(q)
  OBVIOUS
<1>2. \A i \in 1..Len(q) : r[i] = q[i]
  OBVIOUS
<1>3. r[Len(q) + 1] = p
  OBVIOUS
<1>4. IsInjective(r)
  BY <1>1, <1>2, <1>3 DEF IsInjective, Range
<1>5. Range(r) = Range(q) \cup {p}
  BY <1>1, <1>2, <1>3 DEF Range
<1> QED
  BY <1>1, <1>4, <1>5

\* Taking the head off a queue without repeats splits its members in two.
LEMMA PullHead ==
    ASSUME NEW q \in Seq(Process), IsInjective(q), q # <<>>
    PROVE  /\ Head(q) \in Process
           /\ Tail(q) \in Seq(Process)
           /\ IsInjective(Tail(q))
           /\ Head(q) \notin Range(Tail(q))
           /\ Range(q) = {Head(q)} \cup Range(Tail(q))
<1> DEFINE t == Tail(q)
<1>1. Head(q) = q[1] /\ Head(q) \in Process /\ Len(q) \in Nat \ {0}
  OBVIOUS
<1>2. t \in Seq(Process) /\ DOMAIN t = 1..(Len(q) - 1) /\ DOMAIN q = 1..Len(q)
  OBVIOUS
<1>3. \A i \in 1..(Len(q) - 1) : t[i] = q[i + 1]
  OBVIOUS
<1>4. IsInjective(t)
  BY <1>1, <1>2, <1>3 DEF IsInjective
<1>5. Head(q) \notin Range(t)
  BY <1>1, <1>2, <1>3 DEF IsInjective, Range
<1>6. Range(q) = {Head(q)} \cup Range(t)
  <2>1. ASSUME NEW i \in DOMAIN q  PROVE q[i] \in {Head(q)} \cup Range(t)
    <3>1. CASE i = 1
      BY <1>1, <3>1
    <3>2. CASE i # 1
      <4>1. i - 1 \in DOMAIN t /\ t[i - 1] = q[i]
        BY <1>1, <1>2, <1>3, <3>2
      <4> QED
        BY <4>1 DEF Range
    <3> QED
      BY <3>1, <3>2
  <2>2. ASSUME NEW i \in DOMAIN t  PROVE t[i] \in Range(q)
    <3>1. i + 1 \in DOMAIN q /\ t[i] = q[i + 1]
      BY <1>1, <1>2, <1>3
    <3> QED
      BY <3>1 DEF Range
  <2>3. Head(q) \in Range(q)
    BY <1>1, <1>2 DEF Range
  <2> HIDE DEF t
  <2> QED
    BY <2>1, <2>2, <2>3 DEF Range
<1> QED
  BY <1>1, <1>2, <1>4, <1>5, <1>6

\* A context switch neither loses nor repeats a process: the processor and
\* the ready queue together hold those the handler left, each of them once.
LEMMA ContextSwitchKeepsAll ==
    ASSUME NEW p \in Process \cup {Null}, p # Idle,
           NEW q \in Seq(Process), IsInjective(q),
           p \notin Range(q), Idle \notin Range(q),
           ContextSwitch(p, q)
    PROVE  /\ current' \in Process \cup {Null}
           /\ ready' \in Seq(Process)
           /\ IsInjective(ready')
           /\ current' \notin Range(ready')
           /\ ({current'} \ {Null}) \cup Range(ready') = ({p} \ {Null}) \cup Range(q)
           /\ current' = Null => ready' = <<>>
<1> USE DispatcherAssumption
<1> DEFINE r == Requeue(q, p)
<1>1. /\ r \in Seq(Process)
      /\ IsInjective(r)
      /\ Range(r) = ({p} \ {Null}) \cup Range(q)
  BY PushNewcomer DEF Requeue
<1>2. CASE r = <<>>
  <2>1. Range(<<>>) = {} /\ IsInjective(<<>>) /\ <<>> \in Seq(Process)
    BY DEF Range, IsInjective
  <2>2. current' = Null /\ ready' = <<>>
    BY <1>2 DEF ContextSwitch
  <2>3. Range(r) = {}
    BY <1>2, <2>1
  <2> QED
    BY <1>1, <2>1, <2>2, <2>3
<1>3. CASE r # <<>>
  <2>1. current' = Head(r) /\ ready' = Tail(r)
    BY <1>3 DEF ContextSwitch
  <2>2. /\ Head(r) \in Process
        /\ Tail(r) \in Seq(Process)
        /\ IsInjective(Tail(r))
        /\ Head(r) \notin Range(Tail(r))
        /\ Range(r) = {Head(r)} \cup Range(Tail(r))
    BY <1>1, <1>3, PullHead
  <2> QED
    BY <1>1, <2>1, <2>2
<1> QED
  BY <1>2, <1>3

\* Stacking a newcomer on a list adds it, once, in front of the others.
LEMMA StackNewcomer ==
    ASSUME NEW q \in Seq(Process), IsInjective(q),
           NEW p \in Process, p \notin Range(q)
    PROVE  /\ <<p>> \o q \in Seq(Process)
           /\ IsInjective(<<p>> \o q)
           /\ Range(<<p>> \o q) = Range(q) \cup {p}
           /\ Len(<<p>> \o q) = Len(q) + 1
<1> DEFINE r == <<p>> \o q
<1>1. /\ r \in Seq(Process) /\ Len(r) = Len(q) + 1
      /\ DOMAIN r = 1..(Len(q) + 1) /\ DOMAIN q = 1..Len(q) /\ Len(q) \in Nat
  OBVIOUS
<1>2. \A i \in 1..Len(q) : r[i + 1] = q[i]
  OBVIOUS
<1>3. r[1] = p
  OBVIOUS
<1>4. \A i \in 2..(Len(q) + 1) : i - 1 \in DOMAIN q /\ r[i] = q[i - 1]
  BY <1>1, <1>2
<1> HIDE DEF r
<1>5. IsInjective(r)
  <2> SUFFICES ASSUME NEW i \in DOMAIN r, NEW j \in DOMAIN r, r[i] = r[j]
               PROVE  i = j
    BY DEF IsInjective
  <2>1. \A k \in DOMAIN q : q[k] # p
    BY DEF Range
  <2>2. CASE i = 1 \/ j = 1
    <3>1. \A k \in DOMAIN r : k # 1 => r[k] # p
      <4> SUFFICES ASSUME NEW k \in DOMAIN r, k # 1  PROVE r[k] # p
        OBVIOUS
      <4>1. k - 1 \in DOMAIN q /\ r[k] = q[k - 1]
        BY <1>1, <1>4
      <4> QED
        BY <2>1, <4>1
    <3> QED
      BY <1>3, <2>2, <3>1
  <2>3. CASE i # 1 /\ j # 1
    <3>1. i - 1 \in DOMAIN q /\ j - 1 \in DOMAIN q /\ q[i - 1] = q[j - 1]
      BY <1>1, <1>4, <2>3
    <3> QED
      BY <1>1, <3>1 DEF IsInjective
  <2> QED
    BY <2>2, <2>3
<1>6. Range(r) = Range(q) \cup {p}
  <2>1. ASSUME NEW i \in DOMAIN r  PROVE r[i] \in Range(q) \cup {p}
    <3>1. CASE i = 1
      BY <1>3, <3>1
    <3>2. CASE i # 1
      BY <1>1, <1>4, <3>2 DEF Range
    <3> QED
      BY <3>1, <3>2
  <2>2. ASSUME NEW i \in DOMAIN q  PROVE q[i] \in Range(r)
    <3>1. i + 1 \in DOMAIN r /\ r[i + 1] = q[i]
      BY <1>1, <1>2 DEF r
    <3> QED
      BY <3>1 DEF Range
  <2>3. p \in Range(r)
    BY <1>1, <1>3 DEF Range
  <2> QED
    BY <2>1, <2>2, <2>3 DEF Range
<1> QED
  BY <1>1, <1>5, <1>6 DEF r

-----------------------------------------------------------------------------

\* The invariant a kernel entry keeps, stated on what its handler leaves for
\* the context switch: p in current_process, q on the ready list.
LEMMA SwitchKeepsOnePlace ==
    ASSUME NEW p \in Process \cup {Null}, p # Idle,
           NEW q \in Seq(Process), IsInjective(q),
           p \notin Range(q), Idle \notin Range(q),
           asleep' \subseteq Process, Idle \notin asleep',
           p \notin asleep', Range(q) \cap asleep' = {},
           ContextSwitch(p, q)
    PROVE  /\ QueueTypeOK' /\ OnePlace'
           /\ Scheduled' = ({p} \ {Null}) \cup Range(q) \cup asleep'
           /\ current' = Null => ready' = <<>>
<1> USE DispatcherAssumption
<1>1. /\ current' \in Process \cup {Null}
      /\ ready' \in Seq(Process)
      /\ IsInjective(ready')
      /\ current' \notin Range(ready')
      /\ ({current'} \ {Null}) \cup Range(ready') = ({p} \ {Null}) \cup Range(q)
      /\ current' = Null => ready' = <<>>
  BY ContextSwitchKeepsAll
<1>2. Scheduled' = ({p} \ {Null}) \cup Range(q) \cup asleep'
  BY <1>1 DEF Scheduled, Ready
<1>3. QueueTypeOK'
  BY <1>1 DEF QueueTypeOK
<1>4. current' \notin asleep'
  BY <1>1
<1>5. Range(ready') \cap asleep' = {}
  BY <1>1, Null \notin Process, \A i \in DOMAIN ready' : ready'[i] \in Process DEF Range
<1>6. Idle \notin Scheduled'
  BY <1>2
<1> QED
  BY <1>1, <1>2, <1>3, <1>4, <1>5, <1>6 DEF OnePlace, Ready

\* What each kind of kernel entry does to the set of scheduled processes.
LEMMA QueueStep ==
    ASSUME QueueTypeOK, OnePlace
    PROVE  /\ Interrupt \/ Block => QueueTypeOK' /\ OnePlace' /\ Scheduled' = Scheduled
           /\ \A p \in Process : Wake(p) \/ WakeAndBlock(p) =>
                 QueueTypeOK' /\ OnePlace' /\ Scheduled' = Scheduled
           /\ \A p \in Process : Admit(p) =>
                 QueueTypeOK' /\ OnePlace' /\ Scheduled' = Scheduled \cup {p}
           /\ \A p, r \in Process : AdmitTwo(p, r) =>
                 QueueTypeOK' /\ OnePlace' /\ Scheduled' = Scheduled \cup {p, r}
           /\ Retire => QueueTypeOK' /\ OnePlace' /\ Scheduled' = Scheduled \ {current}
<1> USE DispatcherAssumption
<1>0. /\ Range(ready) \subseteq Process
      /\ IsInjective(ready) /\ ready \in Seq(Process)
      /\ asleep \subseteq Process /\ current \in Process \cup {Null}
      /\ current \notin Range(ready) \cup asleep
      /\ Range(ready) \cap asleep = {}
      /\ Idle \notin Range(ready) \cup asleep \cup {current}
      /\ Scheduled = ({current} \ {Null}) \cup Range(ready) \cup asleep
  BY DEF QueueTypeOK, OnePlace, Scheduled, Ready, Range
<1>1. ASSUME Interrupt  PROVE QueueTypeOK' /\ OnePlace' /\ Scheduled' = Scheduled
  <2>1. asleep' = asleep /\ ContextSwitch(current, ready)
    BY <1>1 DEF Interrupt
  <2> QED
    BY <1>0, <2>1, SwitchKeepsOnePlace
<1>2. ASSUME Block  PROVE QueueTypeOK' /\ OnePlace' /\ Scheduled' = Scheduled
  <2>1. current # Null /\ asleep' = asleep \cup {current} /\ ContextSwitch(Null, ready)
    BY <1>2 DEF Block
  <2> QED
    BY <1>0, <2>1, SwitchKeepsOnePlace
<1>3. ASSUME NEW p \in Process, Wake(p)
      PROVE  QueueTypeOK' /\ OnePlace' /\ Scheduled' = Scheduled
  <2> DEFINE q == Woken(ready, p)
  <2>1. current # Null /\ asleep' = asleep \ {p} /\ ContextSwitch(current, q)
    BY <1>3 DEF Wake
  <2>2. CASE p \in asleep
    <3>1. /\ q \in Seq(Process) /\ IsInjective(q)
          /\ Range(q) = Range(ready) \cup {p}
      BY <1>0, <2>2, PushNewcomer DEF Woken
    <3> HIDE DEF q
    <3> QED
      BY <1>0, <2>1, <2>2, <3>1, SwitchKeepsOnePlace
  <2>3. CASE p \notin asleep
    BY <1>0, <2>1, <2>3, SwitchKeepsOnePlace DEF Woken
  <2> QED
    BY <2>2, <2>3
<1>4. ASSUME NEW p \in Process, WakeAndBlock(p)
      PROVE  QueueTypeOK' /\ OnePlace' /\ Scheduled' = Scheduled
  <2> DEFINE q == Woken(ready, p)
  <2>1. /\ current # Null /\ p \in asleep
        /\ asleep' = (asleep \ {p}) \cup {current}
        /\ ContextSwitch(Null, q)
    BY <1>4 DEF WakeAndBlock
  <2>2. /\ q \in Seq(Process) /\ IsInjective(q)
        /\ Range(q) = Range(ready) \cup {p}
    BY <1>0, <2>1, PushNewcomer DEF Woken
  <2> HIDE DEF q
  <2> QED
    BY <1>0, <2>1, <2>2, SwitchKeepsOnePlace
<1>5. ASSUME NEW p \in Process, Admit(p)
      PROVE  QueueTypeOK' /\ OnePlace' /\ Scheduled' = Scheduled \cup {p}
  <2> DEFINE q == Append(ready, p)
  <2>1. /\ p \notin Scheduled \cup {Idle}
        /\ asleep' = asleep /\ ContextSwitch(current, q)
    BY <1>5 DEF Admit
  <2>2. /\ q \in Seq(Process) /\ IsInjective(q)
        /\ Range(q) = Range(ready) \cup {p}
    BY <1>0, <2>1, PushNewcomer
  <2>3. p # current
    BY <1>0, <2>1
  <2> HIDE DEF q
  <2> QED
    BY <1>0, <2>1, <2>2, <2>3, SwitchKeepsOnePlace
<1>6. ASSUME Retire
      PROVE  QueueTypeOK' /\ OnePlace' /\ Scheduled' = Scheduled \ {current}
  <2>1. current # Null /\ asleep' = asleep /\ ContextSwitch(Null, ready)
    BY <1>6 DEF Retire
  <2>2. Scheduled \ {current} = ({Null} \ {Null}) \cup Range(ready) \cup asleep
    BY <1>0
  <2> QED
    BY <1>0, <2>1, <2>2, SwitchKeepsOnePlace
<1>7. ASSUME NEW p \in Process, NEW r \in Process, AdmitTwo(p, r)
      PROVE  QueueTypeOK' /\ OnePlace' /\ Scheduled' = Scheduled \cup {p, r}
  <2> DEFINE h == Append(ready, p)
             q == Append(h, r)
  <2>1. /\ p \notin Scheduled \cup {Idle} /\ r \notin Scheduled \cup {Idle} /\ r # p
        /\ asleep' = asleep /\ ContextSwitch(current, q)
    BY <1>7 DEF AdmitTwo
  <2>2. /\ h \in Seq(Process) /\ IsInjective(h)
        /\ Range(h) = Range(ready) \cup {p}
    BY <1>0, <2>1, PushNewcomer
  <2>3. /\ q \in Seq(Process) /\ IsInjective(q)
        /\ Range(q) = Range(ready) \cup {p, r}
    <3>1. r \notin Range(h)
      BY <1>0, <2>1, <2>2
    <3> HIDE DEF h
    <3>2. q \in Seq(Process) /\ IsInjective(q) /\ Range(q) = Range(h) \cup {r}
      BY <2>2, <3>1, PushNewcomer
    <3> QED
      BY <2>2, <3>2
  <2>4. p # current /\ r # current
    BY <1>0, <2>1
  <2> HIDE DEF q
  <2> QED
    BY <1>0, <2>1, <2>3, <2>4, SwitchKeepsOnePlace
<1> QED
  BY <1>1, <1>2, <1>3, <1>4, <1>5, <1>6, <1>7

\* The dispatcher on its own: no sequence of kernel entries ever puts a
\* process in two places (Dispatcher.tla's OnePlace, for every boot list).
THEOREM DispatcherOnePlace ==
    ASSUME NEW boot \in Seq(Process \ {Idle}), IsInjective(boot)
    PROVE  QueueInit(boot) /\ [][QueueNext]_queueVars => [](QueueTypeOK /\ OnePlace)
<1>1. QueueInit(boot) => QueueTypeOK /\ OnePlace
  <2>1. Range(boot) \subseteq Process \ {Idle} /\ boot \in Seq(Process)
    BY DEF Range
  <2> QED
    BY <2>1, DispatcherAssumption
    DEF QueueInit, QueueTypeOK, OnePlace, Scheduled, Ready, Range
<1>2. QueueTypeOK /\ OnePlace /\ [QueueNext]_queueVars => QueueTypeOK' /\ OnePlace'
  <2> SUFFICES ASSUME QueueTypeOK, OnePlace, [QueueNext]_queueVars
               PROVE  QueueTypeOK' /\ OnePlace'
    OBVIOUS
  <2>1. CASE QueueNext
    BY <2>1, QueueStep DEF QueueNext
  <2>2. CASE UNCHANGED queueVars
    BY <2>2 DEF queueVars, QueueTypeOK, OnePlace, Scheduled, Ready
  <2> QED
    BY <2>1, <2>2
<1> QED
  BY <1>1, <1>2, PTL

\* A context switch runs the head of the queue, if the queue has one.
LEMMA SwitchRunsHead ==
    ASSUME NEW p \in Process \cup {Null}, NEW q \in Seq(Process), ContextSwitch(p, q)
    PROVE  /\ current' = Null => ready' = <<>>
           /\ q # <<>> => current' = Head(q)
<1> DEFINE r == Requeue(q, p)
<1>1. r \in Seq(Process) /\ (q # <<>> => r # <<>> /\ Head(r) = Head(q))
  BY DEF Requeue
<1>2. r # <<>> => Head(r) \in Process
  BY <1>1
<1> QED
  BY <1>1, <1>2, DispatcherAssumption DEF ContextSwitch

\* Whatever the kernel entry, it runs the head of the ready queue, and idles
\* only when nobody is ready.
LEMMA QueueRunsHead ==
    ASSUME QueueTypeOK, [QueueNext]_queueVars
    PROVE  [/\ current' = Null => ready' = <<>>
            /\ ready # <<>> => current' = Head(ready)]_queueVars
<1> SUFFICES ASSUME QueueNext
             PROVE  /\ current' = Null => ready' = <<>>
                    /\ ready # <<>> => current' = Head(ready)
  OBVIOUS
<1>0. ready \in Seq(Process) /\ current \in Process \cup {Null}
  BY DEF QueueTypeOK
<1>1. \A q \in Seq(Process), x \in Process :
         /\ Append(q, x) \in Seq(Process) /\ Append(q, x) # <<>>
         /\ q # <<>> => Head(Append(q, x)) = Head(q)
  OBVIOUS
<1>2. PICK p \in Process \cup {Null}, q \in Seq(Process) :
         /\ ContextSwitch(p, q)
         /\ ready # <<>> => q # <<>> /\ Head(q) = Head(ready)
  <2>1. CASE \E x, y \in Process : AdmitTwo(x, y)
    <3>1. PICK x \in Process, y \in Process :
             ContextSwitch(current, Append(Append(ready, x), y))
      BY <2>1 DEF AdmitTwo
    <3> DEFINE h == Append(ready, x)
               q == Append(h, y)
    <3>2. h \in Seq(Process) /\ (ready # <<>> => h # <<>> /\ Head(h) = Head(ready))
      BY <1>0, <1>1
    <3>3. q \in Seq(Process) /\ (ready # <<>> => q # <<>> /\ Head(q) = Head(ready))
      <4> HIDE DEF h
      <4> QED
        BY <1>1, <3>2
    <3>4. ContextSwitch(current, q)
      BY <3>1
    <3> HIDE DEF h, q
    <3> QED
      BY <1>0, <3>3, <3>4
  <2>2. CASE \E x \in Process : Wake(x) \/ WakeAndBlock(x) \/ Admit(x)
    BY <1>0, <1>1, <2>2 DEF Wake, WakeAndBlock, Admit, Woken
  <2>3. CASE Interrupt \/ Block \/ Retire
    BY <1>0, <2>3 DEF Interrupt, Block, Retire
  <2> QED
    BY <2>1, <2>2, <2>3 DEF QueueNext
<1> QED
  BY <1>0, <1>2, SwitchRunsHead

\* The ready queue is served in order (Dispatcher.tla's NoOvertaking).
LEMMA QueueIsFair ==
    ASSUME QueueTypeOK, OnePlace, [QueueNext]_queueVars
    PROVE  [\A i, j \in 1..Len(ready) :
              (i < j /\ current' = ready[j]) => ready[i] \notin Range(ready')]_queueVars
<1> SUFFICES ASSUME ~UNCHANGED queueVars,
                    NEW i \in 1..Len(ready), NEW j \in 1..Len(ready),
                    i < j, current' = ready[j]
             PROVE  FALSE
  OBVIOUS
<1>1. ready \in Seq(Process) /\ IsInjective(ready)
  BY DEF QueueTypeOK, OnePlace
<1>2. ready # <<>> /\ Head(ready) = ready[1]
  BY <1>1
<1>3. current' = ready[1]
  BY <1>2, QueueRunsHead
<1>4. 1 \in DOMAIN ready /\ j \in DOMAIN ready /\ j # 1
  BY <1>1
<1> QED
  BY <1>1, <1>3, <1>4 DEF IsInjective

\* The processor never idles while somebody is ready.
THEOREM DispatcherWorkConserving ==
    ASSUME NEW boot \in Seq(Process \ {Idle}), IsInjective(boot)
    PROVE  QueueInit(boot) /\ [][QueueNext]_queueVars => WorkConserving
<1>1. QueueTypeOK /\ [QueueNext]_queueVars => [current' = Null => ready' = <<>>]_queueVars
  BY QueueRunsHead
<1> QED
  BY <1>1, DispatcherOnePlace, PTL DEF WorkConserving

\* The ready queue is served in the order it was filled.
THEOREM DispatcherNoOvertaking ==
    ASSUME NEW boot \in Seq(Process \ {Idle}), IsInjective(boot)
    PROVE  QueueInit(boot) /\ [][QueueNext]_queueVars => NoOvertaking
<1>1. QueueTypeOK /\ OnePlace /\ [QueueNext]_queueVars =>
        [\A i, j \in 1..Len(ready) :
           (i < j /\ current' = ready[j]) => ready[i] \notin Range(ready')]_queueVars
  BY QueueIsFair
<1> QED
  BY <1>1, DispatcherOnePlace, PTL DEF NoOvertaking

=============================================================================
