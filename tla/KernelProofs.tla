---------------------------- MODULE KernelProofs ----------------------------
(***************************************************************************)
(* Proofs about Kernel.tla for any number of processes, semaphores, spaces *)
(* and pages.                                                              *)
(*                                                                         *)
(* ListInv, the inductive invariant behind the queues, says that the lists *)
(* are disjoint AND that each semaphore's counter agrees with its list:    *)
(* signal() looks at the counter to decide whether to take from the list,  *)
(* so neither part is inductive alone.                                     *)
(*                                                                         *)
(* ThreadsInv, about the address spaces, adds to ThreadCount what makes it *)
(* inductive: those who run, or wait to, are in a space with a positive    *)
(* count, and a space on the free list has nobody in it.  It rests on      *)
(* ListInv, from which it has that the process that exits is on no list.   *)
(***************************************************************************)
EXTENDS Kernel, DispatcherProofs, FiniteSetTheorems, WellFoundedInduction, TLAPS

SleepersApart ==
    \A s \in Semaphore :
        /\ IsInjective(sleepers[s])
        /\ \A t \in Semaphore \ {s} : Range(sleepers[s]) \cap Range(sleepers[t]) = {}

ListInv ==
    /\ QueueTypeOK
    /\ SemTypeOK
    /\ freeProcs \subseteq Process
    /\ OneList
    /\ SemaphoreBalance

\* OneList, taken apart once for all the proofs below.
ListsApart ==
    /\ SleepersApart
    /\ OnSemaphore \cap (Scheduled \cup {Idle}) = {}
    /\ freeProcs \cap (Scheduled \cup OnSemaphore \cup {Idle}) = {}

LEMMA OneListParts ==
    /\ OneList <=> OnePlace /\ ListsApart
    /\ OneList' <=> OnePlace' /\ ListsApart'
BY DEF OneList, ListsApart, SleepersApart

-----------------------------------------------------------------------------
(* The queues *)

\* Replacing one semaphore's list by one that shares nothing with the others.
LEMMA ListReplaced ==
    ASSUME sleepers \in [Semaphore -> Seq(Process)], SleepersApart,
           NEW s \in Semaphore,
           NEW L \in Seq(Process), IsInjective(L),
           \A t \in Semaphore \ {s} : Range(L) \cap Range(sleepers[t]) = {},
           sleepers' = [sleepers EXCEPT ![s] = L]
    PROVE  /\ sleepers' \in [Semaphore -> Seq(Process)]
           /\ SleepersApart'
           /\ OnSemaphore' = (OnSemaphore \ Range(sleepers[s])) \cup Range(L)
<1>1. /\ sleepers' \in [Semaphore -> Seq(Process)]
      /\ sleepers'[s] = L
      /\ \A t \in Semaphore \ {s} : sleepers'[t] = sleepers[t]
  OBVIOUS
<1>2. SleepersApart'
  <2> SUFFICES ASSUME NEW u \in Semaphore
               PROVE  /\ IsInjective(sleepers'[u])
                      /\ \A t \in Semaphore \ {u} :
                            Range(sleepers'[u]) \cap Range(sleepers'[t]) = {}
    BY DEF SleepersApart
  <2>1. CASE u = s
    BY <1>1, <2>1
  <2>2. CASE u # s
    BY <1>1, <2>2 DEF SleepersApart
  <2> QED
    BY <2>1, <2>2
<1>3. \A p : p \in OnSemaphore' <=> \E t \in Semaphore : p \in Range(sleepers'[t])
  BY DEF OnSemaphore
<1>4. \A p : p \in OnSemaphore <=> \E t \in Semaphore : p \in Range(sleepers[t])
  BY DEF OnSemaphore
<1>5. \A t \in Semaphore \ {s} : Range(sleepers[s]) \cap Range(sleepers[t]) = {}
  BY DEF SleepersApart
<1>6. OnSemaphore' = (OnSemaphore \ Range(sleepers[s])) \cup Range(L)
  BY <1>1, <1>3, <1>4, <1>5
<1> QED
  BY <1>1, <1>2, <1>6

\* signal(): a sleeper, if there is one, moves from the list to the queue.
LEMMA SignalStep ==
    ASSUME ListInv, NEW s \in Semaphore, Signal(s),
           UNCHANGED <<asleep, freeSems, freeProcs>>
    PROVE  /\ ListInv'
           /\ Interrupt \/ \E p \in Process : Admit(p)
           /\ Scheduled' \cup OnSemaphore' = Scheduled \cup OnSemaphore
<1> DEFINE L == sleepers[s]
<1>0. /\ QueueTypeOK /\ OnePlace /\ SleepersApart
      /\ sleepers \in [Semaphore -> Seq(Process)] /\ L \in Seq(Process)
      /\ value \in [Semaphore -> Int] /\ value[s] \in Int
      /\ freeSems \subseteq Semaphore /\ freeProcs \subseteq Process
      /\ IsInjective(L) /\ Range(L) \subseteq OnSemaphore
      /\ OnSemaphore \cap (Scheduled \cup {Idle}) = {}
      /\ freeProcs \cap (Scheduled \cup OnSemaphore \cup {Idle}) = {}
      /\ SemaphoreBalance /\ Len(L) = IF value[s] < 0 THEN -value[s] ELSE 0
  BY OneListParts DEF ListInv, ListsApart, SemTypeOK, SleepersApart, OnSemaphore, SemaphoreBalance
<1>1. /\ value' = [value EXCEPT ![s] = @ + 1] /\ value' \in [Semaphore -> Int]
      /\ value'[s] = value[s] + 1
      /\ \A t \in Semaphore \ {s} : value'[t] = value[t]
  BY <1>0 DEF Signal
<1>2. CASE value'[s] > 0 \/ L = <<>>
  <2>1. ContextSwitch(current, ready) /\ sleepers' = sleepers
    BY <1>2 DEF Signal
  <2>2. Interrupt
    BY <2>1 DEF Interrupt
  <2>3. QueueTypeOK' /\ OnePlace' /\ Scheduled' = Scheduled
    BY <1>0, <2>2, QueueStep
  <2>4. Len(L) = IF value'[s] < 0 THEN -value'[s] ELSE 0
    BY <1>0, <1>1, <1>2
  <2>5. SemTypeOK' /\ SemaphoreBalance'
    <3>1. SemTypeOK'
      BY <1>0, <1>1, <2>1 DEF SemTypeOK
    <3> QED
      BY <1>0, <1>1, <2>1, <2>4, <3>1 DEF SemaphoreBalance
  <2>6. SleepersApart' /\ OnSemaphore' = OnSemaphore
    BY <1>0, <2>1 DEF SleepersApart, OnSemaphore
  <2> QED
    BY <1>0, <2>2, <2>3, <2>5, <2>6, OneListParts DEF ListInv, ListsApart
<1>3. CASE ~(value'[s] > 0 \/ L = <<>>)
  <2> DEFINE h == Head(L)
  <2>1. /\ sleepers' = [sleepers EXCEPT ![s] = Tail(L)]
        /\ ContextSwitch(current, Append(ready, h))
    BY <1>3, <1>0 DEF Signal
  <2>2. /\ h \in Process /\ Tail(L) \in Seq(Process) /\ IsInjective(Tail(L))
        /\ h \notin Range(Tail(L)) /\ Range(L) = {h} \cup Range(Tail(L))
    BY <1>0, <1>3, PullHead
  <2>3. Len(Tail(L)) = Len(L) - 1
    <3>1. L \in Seq(Process) /\ L # <<>>
      BY <1>0, <1>3
    <3> HIDE DEF L
    <3> QED
      BY <3>1
  <2>4. h \notin Scheduled \cup {Idle}
    BY <1>0, <2>2
  <2>5. Admit(h)
    BY <2>1, <2>2, <2>4 DEF Admit
  <2>6. QueueTypeOK' /\ OnePlace' /\ Scheduled' = Scheduled \cup {h}
    BY <1>0, <2>2, <2>5, QueueStep
  <2>7. \A t \in Semaphore \ {s} : Range(Tail(L)) \cap Range(sleepers[t]) = {}
    BY <1>0, <2>2 DEF SleepersApart
  <2>8. /\ sleepers' \in [Semaphore -> Seq(Process)] /\ SleepersApart'
        /\ OnSemaphore' = (OnSemaphore \ Range(L)) \cup Range(Tail(L))
    BY <1>0, <2>1, <2>2, <2>7, ListReplaced
  <2>9. OnSemaphore' = OnSemaphore \ {h}
    BY <1>0, <2>2, <2>8
  <2>10. SemTypeOK' /\ SemaphoreBalance'
    <3>1. SemTypeOK'
      BY <1>0, <1>1, <2>8 DEF SemTypeOK
    <3>2. Len(sleepers'[s]) = IF value'[s] < 0 THEN -value'[s] ELSE 0
      BY <1>0, <1>1, <1>3, <2>1, <2>3
    <3>3. \A t \in Semaphore \ {s} : sleepers'[t] = sleepers[t]
      BY <1>0, <2>1
    <3> QED
      BY <1>0, <1>1, <3>1, <3>2, <3>3 DEF SemaphoreBalance
  <2> HIDE DEF L, h
  <2>11. OneList'
    <3>1. h \in OnSemaphore /\ freeProcs' = freeProcs
      BY <1>0, <2>2
    <3>2. OnSemaphore' \cap (Scheduled' \cup {Idle}) = {}
      BY <1>0, <2>4, <2>6, <2>9, <3>1
    <3>3. freeProcs' \cap (Scheduled' \cup OnSemaphore' \cup {Idle}) = {}
      BY <1>0, <2>6, <2>9, <3>1
    <3> QED
      BY <2>6, <2>8, <3>2, <3>3, OneListParts DEF ListsApart
  <2> QED
    BY <1>0, <2>2, <2>5, <2>6, <2>9, <2>10, <2>11 DEF ListInv
<1> QED
  BY <1>2, <1>3

\* Two calls of signal() before one context switch: none, one or two sleepers
\* move, as many as the counter says there are, up to two.
LEMMA SignalTwiceStep ==
    ASSUME ListInv, NEW s \in Semaphore, SignalTwice(s),
           UNCHANGED <<asleep, freeSems, freeProcs>>
    PROVE  /\ ListInv'
           /\ Interrupt \/ \E p, q \in Process : Admit(p) \/ AdmitTwo(p, q)
           /\ Scheduled' \cup OnSemaphore' = Scheduled \cup OnSemaphore
<1> DEFINE L == sleepers[s]
<1>0. /\ QueueTypeOK /\ OnePlace /\ SleepersApart
      /\ sleepers \in [Semaphore -> Seq(Process)] /\ L \in Seq(Process)
      /\ value \in [Semaphore -> Int] /\ value[s] \in Int
      /\ freeSems \subseteq Semaphore /\ freeProcs \subseteq Process
      /\ IsInjective(L) /\ Range(L) \subseteq OnSemaphore
      /\ OnSemaphore \cap (Scheduled \cup {Idle}) = {}
      /\ freeProcs \cap (Scheduled \cup OnSemaphore \cup {Idle}) = {}
      /\ SemaphoreBalance /\ Len(L) = IF value[s] < 0 THEN -value[s] ELSE 0
  BY OneListParts DEF ListInv, ListsApart, SemTypeOK, SleepersApart, OnSemaphore, SemaphoreBalance
<1>1. /\ value' \in [Semaphore -> Int]
      /\ value'[s] = value[s] + 2
      /\ \A t \in Semaphore \ {s} : value'[t] = value[t]
      /\ asleep' = asleep /\ freeSems' = freeSems /\ freeProcs' = freeProcs
  BY <1>0 DEF SignalTwice
<1>2. \* What is left of the list, and who leaves it.
      \E M \in Seq(Process), W \in SUBSET Process :
         /\ sleepers' = [sleepers EXCEPT ![s] = M]
         /\ IsInjective(M) /\ Range(L) = W \cup Range(M) /\ W \cap Range(M) = {}
         /\ Len(M) = IF value'[s] < 0 THEN -value'[s] ELSE 0
         /\ \/ Interrupt /\ W = {}
            \/ \E p \in Process : Admit(p) /\ W = {p}
            \/ \E p, q \in Process : AdmitTwo(p, q) /\ W = {p, q}
  <2>1. CASE value[s] + 1 > 0 \/ L = <<>>
    <3>1. ContextSwitch(current, ready) /\ sleepers' = sleepers
      BY <1>0, <2>1 DEF SignalTwice
    <3>2. Interrupt
      BY <1>1, <3>1 DEF Interrupt
    <3>3. Len(L) = IF value'[s] < 0 THEN -value'[s] ELSE 0
      BY <1>0, <1>1, <2>1
    <3>4. sleepers' = [sleepers EXCEPT ![s] = L]
      BY <1>0, <3>1
    <3> HIDE DEF L
    <3> QED
      BY <1>0, <3>2, <3>3, <3>4
  <2>2. CASE ~(value[s] + 1 > 0 \/ L = <<>>)
    <3> DEFINE M == Tail(L)
               p == Head(L)
    <3>1. /\ p \in Process /\ M \in Seq(Process) /\ IsInjective(M)
          /\ p \notin Range(M) /\ Range(L) = {p} \cup Range(M)
      BY <1>0, <2>2, PullHead
    <3>2. /\ Len(M) = Len(L) - 1 /\ p = L[1] /\ L # <<>>
          /\ (Len(M) > 0 => Head(M) = L[2] /\ M # <<>>)
      <4>1. L \in Seq(Process) /\ L # <<>>
        BY <1>0, <2>2
      <4> HIDE DEF L
      <4>2. Len(M) = Len(L) - 1 /\ p = L[1] /\ M \in Seq(Process)
        BY <4>1
      <4>3. ASSUME Len(M) > 0  PROVE Head(M) = L[2] /\ M # <<>>
        <5>1. M[1] = L[2]
          BY <4>1, <4>2, <4>3
        <5> HIDE DEF M
        <5> QED
          BY <4>2, <4>3, <5>1
      <4> QED
        BY <4>1, <4>2, <4>3
    <3>3. p \notin Scheduled \cup {Idle}
      BY <1>0, <3>1
    <3>4. CASE value[s] + 2 > 0 \/ Len(L) = 1
      <4>1. /\ sleepers' = [sleepers EXCEPT ![s] = M]
            /\ ContextSwitch(current, Append(ready, p))
        BY <1>0, <2>2, <3>2, <3>4 DEF SignalTwice
      <4>2. Admit(p)
        BY <1>1, <3>1, <3>3, <4>1 DEF Admit
      <4>3. Len(M) = IF value'[s] < 0 THEN -value'[s] ELSE 0
        BY <1>0, <1>1, <2>2, <3>2, <3>4
      <4> HIDE DEF M, p, L
      <4> QED
        BY <3>1, <4>1, <4>2, <4>3
    <3>5. CASE ~(value[s] + 2 > 0 \/ Len(L) = 1)
      <4> DEFINE N == Tail(M)
                 q == Head(M)
      <4>0. Len(M) > 0 /\ M # <<>> /\ q = L[2]
        BY <1>0, <2>2, <3>2, <3>5
      <4>1. /\ q \in Process /\ N \in Seq(Process) /\ IsInjective(N)
            /\ q \notin Range(N) /\ Range(M) = {q} \cup Range(N)
        BY <3>1, <4>0, PullHead
      <4>2. Len(N) = Len(M) - 1
        <5>1. M \in Seq(Process) /\ M # <<>>
          BY <3>1, <4>0
        <5> HIDE DEF M
        <5> QED
          BY <5>1
      <4>3. /\ sleepers' = [sleepers EXCEPT ![s] = N]
            /\ ContextSwitch(current, Append(Append(ready, p), q))
        BY <1>0, <2>2, <3>2, <3>5, <4>0 DEF SignalTwice
      <4>4. q # p /\ q \notin Scheduled \cup {Idle}
        BY <1>0, <3>1, <4>1
      <4>5. AdmitTwo(p, q)
        BY <1>1, <3>1, <3>3, <4>1, <4>3, <4>4 DEF AdmitTwo
      <4>6. Len(N) = IF value'[s] < 0 THEN -value'[s] ELSE 0
        BY <1>0, <1>1, <2>2, <3>2, <3>5, <4>2
      <4> HIDE DEF M, N, p, q, L
      <4>7. Range(L) = {p, q} \cup Range(N) /\ {p, q} \cap Range(N) = {}
        BY <3>1, <4>1, <4>4
      <4>8. {p, q} \in SUBSET Process
        BY <3>1, <4>1
      <4> QED
        BY <3>1, <4>1, <4>3, <4>5, <4>6, <4>7, <4>8
    <3> QED
      BY <3>4, <3>5
  <2> QED
    BY <2>1, <2>2
<1>3. PICK M \in Seq(Process), W \in SUBSET Process :
         /\ sleepers' = [sleepers EXCEPT ![s] = M]
         /\ IsInjective(M) /\ Range(L) = W \cup Range(M) /\ W \cap Range(M) = {}
         /\ Len(M) = IF value'[s] < 0 THEN -value'[s] ELSE 0
         /\ \/ Interrupt /\ W = {}
            \/ \E p \in Process : Admit(p) /\ W = {p}
            \/ \E p, q \in Process : AdmitTwo(p, q) /\ W = {p, q}
  BY <1>2
<1>4. QueueTypeOK' /\ OnePlace' /\ Scheduled' = Scheduled \cup W
  BY <1>0, <1>3, QueueStep
<1>5. /\ sleepers' \in [Semaphore -> Seq(Process)] /\ SleepersApart'
      /\ OnSemaphore' = (OnSemaphore \ Range(L)) \cup Range(M)
  <2>1. \A t \in Semaphore \ {s} : Range(M) \cap Range(sleepers[t]) = {}
    BY <1>0, <1>3 DEF SleepersApart
  <2> QED
    BY <1>0, <1>3, <2>1, ListReplaced
<1>6. OnSemaphore' = OnSemaphore \ W /\ W \subseteq OnSemaphore
  BY <1>0, <1>3, <1>5
<1>7. SemTypeOK' /\ SemaphoreBalance'
  <2>1. sleepers'[s] = M /\ \A t \in Semaphore \ {s} : sleepers'[t] = sleepers[t]
    BY <1>0, <1>3
  <2> QED
    BY <1>0, <1>1, <1>3, <1>5, <2>1 DEF SemTypeOK, SemaphoreBalance
<1>8. OneList'
  <2>1. OnSemaphore' \cap (Scheduled' \cup {Idle}) = {}
    BY <1>0, <1>4, <1>6
  <2>2. freeProcs' \cap (Scheduled' \cup OnSemaphore' \cup {Idle}) = {}
    BY <1>0, <1>1, <1>4, <1>6
  <2> QED
    BY <1>4, <1>5, <2>1, <2>2, OneListParts DEF ListsApart
<1> QED
  BY <1>0, <1>1, <1>3, <1>4, <1>6, <1>7, <1>8 DEF ListInv

\* wait(): the caller moves to the list when the counter drops below zero.
LEMMA WaitStep ==
    ASSUME ListInv, NEW s \in Semaphore, SemWait(s), freeProcs' = freeProcs
    PROVE  /\ ListInv'
           /\ Interrupt \/ Retire
           /\ Scheduled' \cup OnSemaphore' = Scheduled \cup OnSemaphore
<1> DEFINE L == sleepers[s]
<1>0. /\ QueueTypeOK /\ OnePlace /\ SleepersApart
      /\ sleepers \in [Semaphore -> Seq(Process)] /\ L \in Seq(Process)
      /\ value \in [Semaphore -> Int] /\ value[s] \in Int
      /\ freeSems \subseteq Semaphore /\ freeProcs \subseteq Process
      /\ IsInjective(L) /\ Range(L) \subseteq OnSemaphore
      /\ OnSemaphore \cap (Scheduled \cup {Idle}) = {}
      /\ freeProcs \cap (Scheduled \cup OnSemaphore \cup {Idle}) = {}
      /\ SemaphoreBalance /\ Len(L) = IF value[s] < 0 THEN -value[s] ELSE 0
  BY OneListParts DEF ListInv, ListsApart, SemTypeOK, SleepersApart, OnSemaphore,
                      SemaphoreBalance
<1>1. /\ value' \in [Semaphore -> Int]
      /\ value'[s] = value[s] - 1
      /\ \A t \in Semaphore \ {s} : value'[t] = value[t]
      /\ asleep' = asleep /\ freeSems' = freeSems /\ current # Null
  BY <1>0 DEF SemWait
<1>2. CASE value'[s] >= 0
  <2>1. ContextSwitch(current, ready) /\ sleepers' = sleepers
    BY <1>0, <1>1, <1>2 DEF SemWait
  <2>2. Interrupt
    BY <1>1, <2>1 DEF Interrupt
  <2>3. QueueTypeOK' /\ OnePlace' /\ Scheduled' = Scheduled
    BY <1>0, <2>2, QueueStep
  <2>4. Len(L) = IF value'[s] < 0 THEN -value'[s] ELSE 0
    BY <1>0, <1>1, <1>2
  <2>5. SemTypeOK' /\ SemaphoreBalance'
    BY <1>0, <1>1, <2>1, <2>4 DEF SemTypeOK, SemaphoreBalance
  <2>6. SleepersApart' /\ OnSemaphore' = OnSemaphore
    BY <1>0, <2>1 DEF SleepersApart, OnSemaphore
  <2> QED
    BY <1>0, <2>2, <2>3, <2>5, <2>6, OneListParts DEF ListInv, ListsApart
<1>3. CASE ~(value'[s] >= 0)
  <2> DEFINE M == <<current>> \o L
  <2>1. /\ sleepers' = [sleepers EXCEPT ![s] = M]
        /\ ContextSwitch(Null, ready)
    BY <1>0, <1>1, <1>3 DEF SemWait
  <2>2. Retire
    BY <1>1, <2>1 DEF Retire
  <2>3. QueueTypeOK' /\ OnePlace' /\ Scheduled' = Scheduled \ {current}
    BY <1>0, <2>2, QueueStep
  <2>4. current \in Process /\ current \in Scheduled /\ current \notin OnSemaphore
    BY <1>0, <1>1 DEF QueueTypeOK, Scheduled
  <2>5. /\ M \in Seq(Process) /\ IsInjective(M) /\ Len(M) = Len(L) + 1
        /\ Range(M) = Range(L) \cup {current}
    BY <1>0, <2>4, StackNewcomer
  <2> HIDE DEF L, M
  <2>6. \A t \in Semaphore \ {s} : Range(M) \cap Range(sleepers[t]) = {}
    <3>1. \A t \in Semaphore \ {s} : Range(L) \cap Range(sleepers[t]) = {}
      BY <1>0 DEF SleepersApart, L
    <3>2. \A t \in Semaphore : Range(sleepers[t]) \subseteq OnSemaphore
      BY DEF OnSemaphore
    <3> QED
      BY <2>4, <2>5, <3>1, <3>2
  <2>7. /\ sleepers' \in [Semaphore -> Seq(Process)] /\ SleepersApart'
        /\ OnSemaphore' = (OnSemaphore \ Range(sleepers[s])) \cup Range(M)
    BY <1>0, <2>1, <2>5, <2>6, ListReplaced
  <2>8. OnSemaphore' = OnSemaphore \cup {current}
    BY <1>0, <2>5, <2>7 DEF L
  <2>9. SemTypeOK' /\ SemaphoreBalance'
    <3>1. SemTypeOK'
      BY <1>0, <1>1, <2>7 DEF SemTypeOK
    <3>2. sleepers'[s] = M /\ \A t \in Semaphore \ {s} : sleepers'[t] = sleepers[t]
      BY <1>0, <2>1
    <3>3. Len(M) = IF value'[s] < 0 THEN -value'[s] ELSE 0
      BY <1>0, <1>1, <1>3, <2>5
    <3> QED
      BY <1>0, <1>1, <3>1, <3>2, <3>3 DEF SemaphoreBalance
  <2>10. OneList'
    <3>1. current # Idle
      BY <1>0, <2>4 DEF OnePlace
    <3>2. OnSemaphore' \cap (Scheduled' \cup {Idle}) = {}
      BY <1>0, <2>3, <2>8, <3>1
    <3>3. freeProcs' \cap (Scheduled' \cup OnSemaphore' \cup {Idle}) = {}
      BY <1>0, <2>3, <2>4, <2>8
    <3> QED
      BY <2>3, <2>7, <3>2, <3>3, OneListParts DEF ListsApart
  <2>11. Scheduled' \cup OnSemaphore' = Scheduled \cup OnSemaphore
    BY <2>3, <2>4, <2>8
  <2> QED
    BY <1>0, <2>2, <2>3, <2>9, <2>10, <2>11 DEF ListInv
<1> QED
  BY <1>2, <1>3

\* clear(), alone or on a new semaphore: the list and the counter are reset.
LEMMA ClearStep ==
    ASSUME ListInv, NEW s \in Semaphore, Interrupt,
           value' = [value EXCEPT ![s] = 0],
           sleepers' = [sleepers EXCEPT ![s] = <<>>],
           freeSems' \subseteq Semaphore, freeProcs' = freeProcs
    PROVE  /\ ListInv'
           /\ Scheduled' = Scheduled
           /\ OnSemaphore' = OnSemaphore \ Range(sleepers[s])
<1>0. /\ QueueTypeOK /\ OnePlace /\ SleepersApart
      /\ sleepers \in [Semaphore -> Seq(Process)] /\ value \in [Semaphore -> Int]
      /\ freeProcs \subseteq Process /\ SemaphoreBalance
      /\ OnSemaphore \cap (Scheduled \cup {Idle}) = {}
      /\ freeProcs \cap (Scheduled \cup OnSemaphore \cup {Idle}) = {}
  BY OneListParts DEF ListInv, ListsApart, SemTypeOK
<1>1. QueueTypeOK' /\ OnePlace' /\ Scheduled' = Scheduled
  BY <1>0, QueueStep
<1>2. <<>> \in Seq(Process) /\ IsInjective(<<>>) /\ Range(<<>>) = {} /\ Len(<<>>) = 0
  BY DEF IsInjective, Range
<1>3. /\ sleepers' \in [Semaphore -> Seq(Process)] /\ SleepersApart'
      /\ OnSemaphore' = OnSemaphore \ Range(sleepers[s])
  BY <1>0, <1>2, ListReplaced
<1>4. SemTypeOK'
  BY <1>0, <1>3 DEF SemTypeOK
<1>5. SemaphoreBalance'
  <2>1. value'[s] = 0 /\ sleepers'[s] = <<>>
    BY <1>0
  <2>2. \A t \in Semaphore \ {s} : value'[t] = value[t] /\ sleepers'[t] = sleepers[t]
    BY <1>0
  <2> QED
    BY <1>0, <1>2, <2>1, <2>2 DEF SemaphoreBalance
<1> QED
  BY <1>0, <1>1, <1>3, <1>4, <1>5, OneListParts DEF ListInv, ListsApart

\* Kernel entries that leave the semaphores alone.
LEMMA ListsKept ==
    ASSUME ListInv, UNCHANGED semVars,
           QueueTypeOK', OnePlace', freeProcs' \subseteq Process,
           Scheduled' \cap OnSemaphore = {},
           freeProcs' \cap (Scheduled' \cup OnSemaphore \cup {Idle}) = {}
    PROVE  ListInv' /\ OnSemaphore' = OnSemaphore
<1>1. value' = value /\ sleepers' = sleepers /\ freeSems' = freeSems
  BY DEF semVars
<1>2. /\ OnSemaphore' = OnSemaphore
      /\ SemTypeOK' <=> SemTypeOK
      /\ SemaphoreBalance' <=> SemaphoreBalance
      /\ SleepersApart' <=> SleepersApart
  BY <1>1 DEF OnSemaphore, SemTypeOK, SemaphoreBalance, SleepersApart
<1> QED
  BY <1>2, OneListParts DEF ListInv, ListsApart

\* How the lists may change in one kernel entry, whichever it is.
Loses(p) ==
    \/ \E s \in Semaphore : p \in Range(sleepers[s]) /\ sleepers'[s] = <<>> /\ value'[s] = 0
    \/ p \in freeProcs /\ freePages < 2

ListStep ==
    /\ ListInv'
    /\ [QueueNext]_queueVars
    /\ \A p \in Accounted : p \in Accounted' \/ Loses(p)

\* No process joins those that run, or wait to.
NoNewcomer == Scheduled' \cup OnSemaphore' \subseteq Scheduled \cup OnSemaphore

LEMMA SemaphoreSteps ==
    ASSUME ListInv, SemNext, UNCHANGED procVars
    PROVE  ListStep /\ NoNewcomer
<1>0. freeProcs' = freeProcs /\ QueueTypeOK /\ OnePlace
  BY OneListParts DEF procVars, ListInv
<1>1. ASSUME NEW s \in Semaphore, SemWait(s)  PROVE ListStep /\ NoNewcomer
  <2>1. /\ ListInv' /\ (Interrupt \/ Retire)
        /\ Scheduled' \cup OnSemaphore' = Scheduled \cup OnSemaphore
    BY <1>0, <1>1, WaitStep
  <2> QED
    BY <1>0, <2>1 DEF ListStep, NoNewcomer, Accounted, QueueNext
<1>2. ASSUME NEW s \in Semaphore, SemSignal(s) \/ DeviceInterrupt(s)  PROVE ListStep /\ NoNewcomer
  <2>1. Signal(s) \/ SignalTwice(s)
    BY <1>2 DEF SemSignal, DeviceInterrupt
  <2>2. UNCHANGED <<asleep, freeSems, freeProcs>>
    BY <1>0, <1>2 DEF SemSignal, DeviceInterrupt
  <2>3. /\ ListInv'
        /\ Interrupt \/ \E p, q \in Process : Admit(p) \/ AdmitTwo(p, q)
        /\ Scheduled' \cup OnSemaphore' = Scheduled \cup OnSemaphore
    BY <2>1, <2>2, SignalStep, SignalTwiceStep
  <2> QED
    BY <1>0, <2>3 DEF ListStep, NoNewcomer, Accounted, QueueNext
<1>3. ASSUME NEW s \in Semaphore, Interrupt,
             value' = [value EXCEPT ![s] = 0],
             sleepers' = [sleepers EXCEPT ![s] = <<>>],
             freeSems' \subseteq Semaphore
      PROVE  ListStep /\ NoNewcomer
  <2>1. /\ ListInv' /\ Scheduled' = Scheduled
        /\ OnSemaphore' = OnSemaphore \ Range(sleepers[s])
    BY <1>0, <1>3, ClearStep
  <2>2. \A p \in Range(sleepers[s]) : Loses(p)
    BY <1>3 DEF Loses, ListInv, SemTypeOK
  <2> QED
    BY <1>0, <1>3, <2>1, <2>2 DEF ListStep, NoNewcomer, Accounted, QueueNext
<1>4. ASSUME NEW s \in Semaphore, SemClear(s)  PROVE ListStep /\ NoNewcomer
  <2>1. /\ Interrupt /\ value' = [value EXCEPT ![s] = 0]
        /\ sleepers' = [sleepers EXCEPT ![s] = <<>>] /\ freeSems' \subseteq Semaphore
    BY <1>4 DEF SemClear, Interrupt, ListInv, SemTypeOK
  <2> QED
    BY <1>3, <2>1
<1>5. ASSUME SemCreate  PROVE ListStep /\ NoNewcomer
  <2>1. PICK s \in freeSems : /\ freeSems' = freeSems \ {s}
                              /\ value' = [value EXCEPT ![s] = 0]
                              /\ sleepers' = [sleepers EXCEPT ![s] = <<>>]
    BY <1>5 DEF SemCreate
  <2>2. Interrupt /\ s \in Semaphore /\ freeSems' \subseteq Semaphore
    BY <1>5, <2>1 DEF SemCreate, Interrupt, ListInv, SemTypeOK
  <2> QED
    BY <1>3, <2>1, <2>2
<1> QED
  BY <1>1, <1>2, <1>4, <1>5 DEF SemNext

\* A new process or thread comes off the free list and onto the ready queue.
LEMMA StartStep ==
    ASSUME ListInv, UNCHANGED semVars, asleep' = asleep,
           NEW p \in freeProcs, freeProcs' = freeProcs \ {p},
           ContextSwitch(current, Append(ready, p))
    PROVE  ListStep /\ Scheduled' = Scheduled \cup {p} /\ OnSemaphore' = OnSemaphore
<1>1. /\ QueueTypeOK /\ OnePlace /\ freeProcs \subseteq Process
      /\ OnSemaphore \cap (Scheduled \cup {Idle}) = {}
      /\ freeProcs \cap (Scheduled \cup OnSemaphore \cup {Idle}) = {}
  BY OneListParts DEF ListInv, ListsApart
<1>2. p \in Process /\ Admit(p)
  BY <1>1 DEF Admit
<1>3. QueueTypeOK' /\ OnePlace' /\ Scheduled' = Scheduled \cup {p}
  BY <1>1, <1>2, QueueStep
<1>4. ListInv' /\ OnSemaphore' = OnSemaphore
  BY <1>1, <1>3, ListsKept
<1> QED
  BY <1>2, <1>3, <1>4 DEF ListStep, QueueNext, Accounted

\* A kernel entry that only switches context; p leaves the free list, if at
\* all, because create_process() ran out of pages.
LEMMA SwitchStep ==
    ASSUME ListInv, UNCHANGED semVars, Interrupt,
           freeProcs' = freeProcs \/
              (\E p \in freeProcs : freeProcs' = freeProcs \ {p} /\ freePages < 2)
    PROVE  ListStep /\ Scheduled' = Scheduled /\ OnSemaphore' = OnSemaphore
<1>1. /\ QueueTypeOK /\ OnePlace /\ freeProcs \subseteq Process
      /\ OnSemaphore \cap (Scheduled \cup {Idle}) = {}
      /\ freeProcs \cap (Scheduled \cup OnSemaphore \cup {Idle}) = {}
  BY OneListParts DEF ListInv, ListsApart
<1>2. QueueTypeOK' /\ OnePlace' /\ Scheduled' = Scheduled
  BY <1>1, QueueStep
<1>3. freeProcs' \subseteq freeProcs
  OBVIOUS
<1>4. ListInv' /\ OnSemaphore' = OnSemaphore
  BY <1>1, <1>2, <1>3, ListsKept
<1>5. \A p \in Accounted : p \in Accounted' \/ Loses(p)
  BY <1>2, <1>4 DEF Accounted, Loses
<1> QED
  BY <1>2, <1>4, <1>5 DEF ListStep, QueueNext

\* The current process moves to the free list.
LEMMA ExitStep ==
    ASSUME ListInv, Exit, UNCHANGED semVars
    PROVE  /\ ListStep /\ Scheduled' = Scheduled \ {current} /\ OnSemaphore' = OnSemaphore
           /\ current \in Scheduled \ (OnSemaphore \cup freeProcs \cup {Idle})
<1>1. Retire /\ freeProcs' = freeProcs \cup {current} /\ current # Null
  BY DEF Exit, Retire
<1>2. /\ QueueTypeOK /\ OnePlace /\ freeProcs \subseteq Process
      /\ OnSemaphore \cap (Scheduled \cup {Idle}) = {}
      /\ freeProcs \cap (Scheduled \cup OnSemaphore \cup {Idle}) = {}
  BY OneListParts DEF ListInv, ListsApart
<1>3. current \in Process /\ current \in Scheduled /\ current # Idle
  BY <1>1, <1>2 DEF QueueTypeOK, OnePlace, Scheduled
<1>4. QueueTypeOK' /\ OnePlace' /\ Scheduled' = Scheduled \ {current}
  BY <1>1, <1>2, QueueStep
<1>5. ListInv' /\ OnSemaphore' = OnSemaphore
  BY <1>1, <1>2, <1>3, <1>4, ListsKept
<1> QED
  BY <1>1, <1>2, <1>3, <1>4, <1>5 DEF ListStep, QueueNext, Accounted

\* A pipe call moves processes between the queues of the scheduler.
LEMMA PipeStep ==
    ASSUME ListInv, PipeCall
    PROVE  ListStep /\ Scheduled' = Scheduled /\ OnSemaphore' = OnSemaphore
<1>1. /\ QueueTypeOK /\ OnePlace /\ asleep \subseteq Process /\ freeProcs \subseteq Process
      /\ OnSemaphore \cap (Scheduled \cup {Idle}) = {}
      /\ freeProcs \cap (Scheduled \cup OnSemaphore \cup {Idle}) = {}
  BY OneListParts DEF ListInv, ListsApart, QueueTypeOK
<1>2. /\ Block \/ \E p \in Process : Wake(p) \/ WakeAndBlock(p)
      /\ UNCHANGED semVars /\ freeProcs' = freeProcs
  BY <1>1 DEF PipeCall, procVars
<1>3. QueueTypeOK' /\ OnePlace' /\ Scheduled' = Scheduled
  BY <1>1, <1>2, QueueStep
<1>4. ListInv' /\ OnSemaphore' = OnSemaphore
  BY <1>1, <1>2, <1>3, ListsKept
<1> QED
  BY <1>2, <1>3, <1>4 DEF ListStep, QueueNext, Accounted

LEMMA ProcessSteps ==
    ASSUME ListInv, ProcNext, UNCHANGED semVars
    PROVE  ListStep
<1>1. CASE Spawn
  <2>1. CASE SpawnFails
    BY <2>1, SwitchStep DEF SpawnFails, Interrupt, procVars
  <2>2. CASE ~SpawnFails
    <3>1. PICK p \in freeProcs, a \in freeSpaces :
             /\ freeProcs' = freeProcs \ {p}
             /\ SpawnOutOfPages(a) \/ SpawnSucceeds(p, a)
      BY <1>1, <2>2 DEF Spawn
    <3>2. CASE SpawnOutOfPages(a)
      BY <3>1, <3>2, SwitchStep DEF SpawnOutOfPages, Interrupt
    <3>3. CASE SpawnSucceeds(p, a)
      BY <3>1, <3>3, StartStep DEF SpawnSucceeds
    <3> QED
      BY <3>1, <3>2, <3>3
  <2> QED
    BY <2>1, <2>2
<1>2. CASE BeginThread
  <2>1. CASE freeProcs = {}
    BY <1>2, <2>1, SwitchStep DEF BeginThread, Interrupt, procVars
  <2>2. CASE freeProcs # {}
    BY <1>2, <2>2, StartStep DEF BeginThread
  <2> QED
    BY <2>1, <2>2
<1>3. CASE SetHeapBreak
  BY <1>3, SwitchStep DEF SetHeapBreak, Interrupt
<1>4. CASE Exit
  BY <1>4, ExitStep
<1> QED
  BY <1>1, <1>2, <1>3, <1>4 DEF ProcNext

\* What a kernel entry does, whether a handler had to poll for it or not.
Untouched == UNCHANGED <<queueVars, semVars, procVars>>
SemEntry  == SemNext /\ UNCHANGED procVars

LEMMA KernelSteps ==
    [Next]_vars => \/ Tick \/ KeyArrives \/ PipeCall \/ SemEntry
                   \/ ProcNext /\ UNCHANGED semVars
                   \/ Untouched
<1> SUFFICES ASSUME [Next]_vars
             PROVE  \/ Tick \/ KeyArrives \/ PipeCall \/ SemEntry
                    \/ ProcNext /\ UNCHANGED semVars
                    \/ Untouched
  OBVIOUS
<1>1. CASE Getc \/ PortChanges
  BY <1>1 DEF Getc, PortChanges, StartsPolling, Untouched
<1>2. CASE Connected
  BY <1>2 DEF Connected, SemNext, SemEntry
<1>3. CASE UNCHANGED vars
  BY <1>3 DEF vars, Untouched
<1>4. CASE Prompt /\ SemNext /\ UNCHANGED procVars
  BY <1>4 DEF SemEntry
<1> QED
  BY <1>1, <1>2, <1>3, <1>4 DEF Next

LEMMA ListNext == ListInv /\ [Next]_vars => ListStep
<1> SUFFICES ASSUME ListInv, [Next]_vars  PROVE ListStep
  OBVIOUS
<1>1. CASE Tick \/ KeyArrives
  BY <1>1, SwitchStep DEF Tick, KeyArrives, procVars
<1>2. CASE PipeCall
  BY <1>2, PipeStep
<1>3. CASE SemEntry
  BY <1>3, SemaphoreSteps DEF SemEntry
<1>4. CASE ProcNext /\ UNCHANGED semVars
  BY <1>4, ProcessSteps
<1>5. CASE Untouched
  <2>1. UNCHANGED queueVars /\ UNCHANGED semVars /\ UNCHANGED procVars
    BY <1>5 DEF Untouched
  <2>2. /\ OnePlace' <=> OnePlace
        /\ QueueTypeOK' <=> QueueTypeOK
        /\ Scheduled' = Scheduled
    BY <2>1 DEF queueVars, OnePlace, QueueTypeOK, Scheduled, Ready
  <2>3. /\ QueueTypeOK /\ OnePlace /\ freeProcs \subseteq Process /\ freeProcs' = freeProcs
        /\ OnSemaphore \cap (Scheduled \cup {Idle}) = {}
        /\ freeProcs \cap (Scheduled \cup OnSemaphore \cup {Idle}) = {}
    BY <2>1, OneListParts DEF ListInv, ListsApart, procVars
  <2>4. ListInv' /\ OnSemaphore' = OnSemaphore
    BY <2>1, <2>2, <2>3, ListsKept
  <2> QED
    BY <2>1, <2>2, <2>3, <2>4 DEF ListStep, Accounted
<1> QED
  BY <1>1, <1>2, <1>3, <1>4, <1>5, KernelSteps

LEMMA ListInit == Init => ListInv
<1> SUFFICES ASSUME Init  PROVE ListInv
  OBVIOUS
<1>0. /\ current = Null /\ ready = Boot /\ asleep = {}
      /\ value = [s \in Semaphore |-> 0] /\ sleepers = [s \in Semaphore |-> <<>>]
      /\ freeSems = Semaphore /\ freeProcs = Process \ ({Idle} \cup Range(Boot))
  BY DEF Init, QueueInit, SemInit, ProcInit
<1>1. Boot \in Seq(Process) /\ IsInjective(Boot) /\ Range(Boot) \subseteq Process \ {Idle}
  BY ProcessAssumption DEF Range
<1>2. QueueTypeOK /\ OnePlace /\ Scheduled = Range(Boot)
  BY <1>0, <1>1, DispatcherAssumption DEF QueueTypeOK, OnePlace, Scheduled, Ready
<1>3. <<>> \in Seq(Process) /\ IsInjective(<<>>) /\ Range(<<>>) = {} /\ Len(<<>>) = 0
  BY DEF IsInjective, Range
<1>4. SemTypeOK /\ SemaphoreBalance /\ SleepersApart
  BY <1>0, <1>3 DEF SemTypeOK, SemaphoreBalance, SleepersApart
<1>5. OnSemaphore = {}
  BY <1>0, <1>3 DEF OnSemaphore
<1> QED
  BY <1>0, <1>1, <1>2, <1>4, <1>5, OneListParts DEF ListInv, ListsApart

\* The invariant behind the theorems that follow.
THEOREM ListsInvariant == Spec => []ListInv
<1>1. ListInv /\ [Next]_vars => ListInv'
  BY ListNext DEF ListStep
<1> QED
  BY ListInit, <1>1, PTL DEF Spec

\* No process object is ever on two of the lists that share its next field,
\* however syscalls and interrupts interleave.
THEOREM KernelOneList == Spec => []OneList
BY ListsInvariant, PTL DEF ListInv

\* Every semaphore's counter agrees with its list of sleepers: signal() never
\* misses a sleeper, and wait() never sleeps on a semaphore that has a unit.
THEOREM KernelSemaphoreBalance == Spec => []SemaphoreBalance
BY ListsInvariant, PTL DEF ListInv

\* The semaphores and the process manager move processes through the queues
\* only as the dispatcher's own specification allows.
THEOREM KernelKeepsQueueDiscipline == Spec => KeepsQueueDiscipline
<1>1. Init => QueueInit(Boot)
  BY DEF Init
<1>2. ListInv /\ [Next]_vars => [QueueNext]_queueVars
  BY ListNext DEF ListStep
<1> QED
  BY <1>1, <1>2, ListsInvariant, PTL DEF Spec, KeepsQueueDiscipline

\* A process drops out of every list only by clear() of its semaphore or by a
\* create_process() that runs out of pages.
THEOREM KernelLosesNoOther == Spec => LostOnlyByClearOrNoPages
<1>1. ListInv /\ [Next]_vars =>
        [\A p \in Accounted : p \in Accounted' \/
          \/ \E s \in Semaphore : p \in Range(sleepers[s]) /\ sleepers'[s] = <<>> /\ value'[s] = 0
          \/ p \in freeProcs /\ freePages < 2]_vars
  BY ListNext DEF ListStep, Loses
<1> QED
  BY <1>1, ListsInvariant, PTL DEF Spec, LostOnlyByClearOrNoPages

\* So the kernel inherits the dispatcher's properties: it never idles while a
\* process is ready.
THEOREM KernelWorkConserving == Spec => WorkConserving
<1>1. Boot \in Seq(Process \ {Idle}) /\ IsInjective(Boot)
  BY ProcessAssumption
<1>2. KeepsQueueDiscipline => WorkConserving
  BY <1>1, DispatcherWorkConserving DEF KeepsQueueDiscipline
<1> QED
  BY <1>2, KernelKeepsQueueDiscipline

\* And nobody overtakes in the ready queue.
THEOREM KernelNoOvertaking == Spec => NoOvertaking
<1>1. Boot \in Seq(Process \ {Idle}) /\ IsInjective(Boot)
  BY ProcessAssumption
<1>2. KeepsQueueDiscipline => NoOvertaking
  BY <1>1, DispatcherNoOvertaking DEF KeepsQueueDiscipline
<1> QED
  BY <1>2, KernelKeepsQueueDiscipline

-----------------------------------------------------------------------------
(* Threads and address spaces *)

Runnable == Scheduled \cup OnSemaphore \cup {Idle}
Live(a)  == {p \in Process \ freeProcs : space[p] = a}

Housed(p) ==
    /\ space[p] \in Space \ freeSpaces
    /\ threads[space[p]] > 0
    /\ held[space[p]] >= 2

ThreadsInv ==
    /\ ProcTypeOK
    /\ \A p \in Runnable : Housed(p)
    /\ \A a \in freeSpaces : threads[a] = 0 /\ Live(a) = {}
    /\ ThreadCount

\* What the proofs below use of ListInv.
LEMMA RunnableNotFree ==
    ListInv => /\ freeProcs \subseteq Process
               /\ Runnable \subseteq Process
               /\ freeProcs \cap Runnable = {}
               /\ current # Null => current \in Runnable
<1> SUFFICES ASSUME ListInv
             PROVE  /\ freeProcs \subseteq Process
                    /\ Runnable \subseteq Process
                    /\ freeProcs \cap Runnable = {}
                    /\ current # Null => current \in Runnable
  OBVIOUS
<1>1. /\ current \in Process \cup {Null} /\ ready \in Seq(Process) /\ asleep \subseteq Process
      /\ freeProcs \subseteq Process /\ sleepers \in [Semaphore -> Seq(Process)]
      /\ freeProcs \cap (Scheduled \cup OnSemaphore \cup {Idle}) = {}
  BY OneListParts DEF ListInv, ListsApart, QueueTypeOK, SemTypeOK
<1>2. Scheduled \subseteq Process
  BY <1>1 DEF Scheduled, Ready, Range
<1>3. OnSemaphore \subseteq Process
  BY <1>1 DEF OnSemaphore, Range
<1> QED
  BY <1>1, <1>2, <1>3, DispatcherAssumption DEF Runnable, Scheduled

\* A space's members are finitely many: the pool of processes is finite.
LEMMA LiveFinite ==
    \A a : /\ IsFiniteSet(Live(a)) /\ Cardinality(Live(a)) \in Nat
           /\ Cardinality(Live(a)) = 0 <=> Live(a) = {}
<1> SUFFICES ASSUME NEW a
             PROVE  /\ IsFiniteSet(Live(a)) /\ Cardinality(Live(a)) \in Nat
                    /\ Cardinality(Live(a)) = 0 <=> Live(a) = {}
  OBVIOUS
<1>1. IsFiniteSet(Process) /\ Live(a) \in SUBSET Process
  BY ProcessAssumption DEF Live
<1>2. IsFiniteSet(Live(a))
  BY <1>1, FS_Subset
<1> QED
  BY <1>2, FS_CardinalityType, FS_EmptySet

\* Taking pages off the MMU's list: no space has fewer pages after it.
LEMMA TakePages ==
    ASSUME ProcTypeOK, NEW a \in Space, NEW n \in Nat,
           AddPages(a, n) \/ (n <= freePages /\ Take(a, n))
    PROVE  /\ freePages' \in Nat /\ held' \in [Space -> Nat]
           /\ \A b \in Space : held'[b] >= held[b]
           /\ n <= freePages => held'[a] = held[a] + n
<1>1. freePages \in Nat /\ held \in [Space -> Nat]
  BY DEF ProcTypeOK
<1>2. PICK m \in Nat : /\ m <= freePages /\ (n <= freePages => m = n)
                       /\ freePages' = freePages - m
                       /\ held' = [held EXCEPT ![a] = @ + m]
  BY <1>1 DEF AddPages, Take
<1> QED
  BY <1>1, <1>2

-----------------------------------------------------------------------------
(* One lemma for each way a kernel entry changes the spaces *)

\* Nobody comes, nobody goes; pages may be added.
LEMMA QuietStep ==
    ASSUME ThreadsInv, Runnable' \subseteq Runnable,
           UNCHANGED <<freeProcs, space, freeSpaces, threads>>,
           freePages' \in Nat, held' \in [Space -> Nat],
           \A b \in Space : held'[b] >= held[b]
    PROVE  ThreadsInv'
<1>1. \A a : Live(a)' = Live(a)
  BY DEF Live
<1>2. ProcTypeOK'
  BY DEF ThreadsInv, ProcTypeOK
<1>3. ASSUME NEW p \in Runnable'  PROVE Housed(p)'
  <2>1. space[p] \in Space \ freeSpaces /\ threads[space[p]] > 0 /\ held[space[p]] >= 2
    BY <1>3 DEF ThreadsInv, Housed
  <2>2. held'[space[p]] \in Nat /\ held[space[p]] \in Nat
    BY <2>1 DEF ThreadsInv, ProcTypeOK
  <2> QED
    BY <2>1, <2>2 DEF Housed
<1>4. ThreadCount'
  BY <1>1 DEF ThreadsInv, ThreadCount, Live
<1> QED
  BY <1>1, <1>2, <1>3, <1>4 DEF ThreadsInv

\* A process joins space a: a new space, or one that is in use.
LEMMA JoinStep ==
    ASSUME ThreadsInv, freeProcs \subseteq Process,
           NEW p \in freeProcs, NEW a \in Space, freeProcs' = freeProcs \ {p},
           space' = [space EXCEPT ![p] = a],
           threads' = [threads EXCEPT ![a] = @ + 1],
           a \in freeSpaces \/ threads[a] > 0,
           freeSpaces' = freeSpaces \ {a},
           p \notin Runnable, Runnable' \subseteq Runnable \cup {p},
           freePages' \in Nat, held' \in [Space -> Nat], held'[a] >= 2,
           \A b \in Space : held'[b] >= held[b]
    PROVE  ThreadsInv'
<1>0. /\ space \in [Process -> Space \cup {Null}] /\ threads \in [Space -> Nat]
      /\ held \in [Space -> Nat] /\ freeSpaces \subseteq Space /\ p \in Process
  BY DEF ThreadsInv, ProcTypeOK
<1>1. /\ space'[p] = a /\ \A q \in Process \ {p} : space'[q] = space[q]
      /\ threads'[a] = threads[a] + 1 /\ \A b \in Space \ {a} : threads'[b] = threads[b]
      /\ threads[a] \in Nat
  BY <1>0
<1>2. ProcTypeOK'
  BY <1>0 DEF ThreadsInv, ProcTypeOK
<1>3. Live(a)' = Live(a) \cup {p} /\ p \notin Live(a)
  BY <1>0, <1>1 DEF Live
<1>4. \A b \in Space \ {a} : Live(b)' = Live(b)
  BY <1>0, <1>1 DEF Live
<1>5. Cardinality(Live(a)) = threads[a]
  <2>1. CASE a \in freeSpaces
    BY <2>1, LiveFinite DEF ThreadsInv
  <2>2. CASE threads[a] > 0
    BY <2>2 DEF ThreadsInv, ThreadCount, Live
  <2> QED
    BY <2>1, <2>2
<1>6. Cardinality(Live(a)') = threads'[a]
  <2>1. IsFiniteSet(Live(a))
    BY LiveFinite
  <2>2. Cardinality(Live(a) \cup {p}) = Cardinality(Live(a)) + 1
    BY <1>3, <2>1, FS_AddElement
  <2> QED
    BY <1>1, <1>3, <1>5, <2>2
<1>7. ASSUME NEW q \in Runnable'  PROVE Housed(q)'
  <2>1. CASE q = p
    BY <1>0, <1>1, <2>1 DEF Housed
  <2>2. CASE q # p
    <3>1. q \in Runnable /\ Housed(q)
      BY <1>7, <2>2 DEF ThreadsInv
    <3>2. space[q] \in Space \ freeSpaces /\ threads[space[q]] > 0 /\ held[space[q]] >= 2
      BY <3>1 DEF Housed
    <3>3. space'[q] = space[q]
      BY <1>0, <2>2
    <3>4. threads'[space[q]] > 0
      BY <1>0, <1>1, <3>2
    <3>5. held'[space[q]] \in Nat /\ held[space[q]] \in Nat /\ held'[space[q]] >= held[space[q]]
      BY <1>0, <3>2
    <3> QED
      BY <3>2, <3>3, <3>4, <3>5 DEF Housed
  <2> QED
    BY <2>1, <2>2
<1>8. \A b \in freeSpaces' : threads'[b] = 0 /\ Live(b)' = {}
  BY <1>0, <1>1, <1>4 DEF ThreadsInv
<1>9. ThreadCount'
  <2> SUFFICES ASSUME NEW b \in Space, threads'[b] > 0
               PROVE  b \notin freeSpaces' /\ threads'[b] = Cardinality(Live(b)')
    BY DEF ThreadCount, Live
  <2>1. CASE b = a
    BY <1>6, <2>1
  <2>2. CASE b # a
    BY <1>1, <1>4, <2>2 DEF ThreadsInv, ThreadCount, Live
  <2> QED
    BY <2>1, <2>2
<1> QED
  BY <1>2, <1>7, <1>8, <1>9 DEF ThreadsInv

\* create_process() runs out of pages: process and space leave their pools for
\* good, with a count of zero.
LEMMA StrandStep ==
    ASSUME ThreadsInv, freeProcs \subseteq Process,
           NEW p \in freeProcs, NEW a \in freeSpaces, freeProcs' = freeProcs \ {p},
           space' = [space EXCEPT ![p] = a], freeSpaces' = freeSpaces \ {a},
           threads' = threads,
           p \notin Runnable, Runnable' \subseteq Runnable,
           freePages' \in Nat, held' \in [Space -> Nat],
           \A b \in Space : held'[b] >= held[b]
    PROVE  ThreadsInv'
<1>0. /\ space \in [Process -> Space \cup {Null}] /\ threads \in [Space -> Nat]
      /\ held \in [Space -> Nat] /\ freeSpaces \subseteq Space /\ p \in Process
      /\ a \in Space /\ threads[a] = 0
  BY DEF ThreadsInv, ProcTypeOK
<1>1. \A q \in Process \ {p} : space'[q] = space[q]
  BY <1>0
<1>2. ProcTypeOK'
  BY <1>0 DEF ThreadsInv, ProcTypeOK
<1>3. \A b \in Space \ {a} : Live(b)' = Live(b)
  BY <1>0 DEF Live
<1>4. ASSUME NEW q \in Runnable'  PROVE Housed(q)'
  <2>1. q \in Runnable /\ q # p
    BY <1>4
  <2>2. space[q] \in Space \ freeSpaces /\ threads[space[q]] > 0 /\ held[space[q]] >= 2
    BY <2>1 DEF ThreadsInv, Housed
  <2>3. space'[q] = space[q]
    BY <1>0, <2>1
  <2>4. held'[space[q]] \in Nat /\ held[space[q]] \in Nat /\ held'[space[q]] >= held[space[q]]
    BY <1>0, <2>2
  <2> QED
    BY <2>2, <2>3, <2>4 DEF Housed
<1>5. \A b \in freeSpaces' : threads'[b] = 0 /\ Live(b)' = {}
  BY <1>0, <1>3 DEF ThreadsInv
<1>6. ThreadCount'
  <2> SUFFICES ASSUME NEW b \in Space, threads'[b] > 0
               PROVE  b \notin freeSpaces' /\ threads'[b] = Cardinality(Live(b)')
    BY DEF ThreadCount, Live
  <2>1. b # a
    BY <1>0
  <2> QED
    BY <1>3, <2>1 DEF ThreadsInv, ThreadCount, Live
<1> QED
  BY <1>2, <1>4, <1>5, <1>6 DEF ThreadsInv

\* A thread exits; the last one of a space gives the space back.
LEMMA LeaveStep ==
    ASSUME ThreadsInv, freeProcs \subseteq Process, Runnable \subseteq Process,
           NEW p \in Runnable \ freeProcs, freeProcs' = freeProcs \cup {p},
           space' = space, Release(space[p]),
           Runnable' \subseteq Runnable \ {p}, freeProcs' \cap Runnable' = {}
    PROVE  ThreadsInv'
<1> DEFINE a == space[p]
<1>0. /\ space \in [Process -> Space \cup {Null}] /\ threads \in [Space -> Nat]
      /\ held \in [Space -> Nat] /\ freeSpaces \subseteq Space /\ p \in Process
      /\ freePages \in Nat /\ a \in Space \ freeSpaces /\ threads[a] > 0 /\ threads[a] \in Nat
  BY DEF ThreadsInv, ProcTypeOK, Housed
<1>1. threads' = [threads EXCEPT ![a] = @ - 1] /\ threads'[a] = threads[a] - 1
  BY <1>0 DEF Release
<1>2. \A b \in Space \ {a} : threads'[b] = threads[b] /\ Live(b)' = Live(b)
  BY <1>0, <1>1 DEF Live
<1>3. Live(a)' = Live(a) \ {p} /\ p \in Live(a)
  BY <1>0 DEF Live
<1>4. Cardinality(Live(a)') = threads'[a]
  <2>1. IsFiniteSet(Live(a)) /\ Cardinality(Live(a)) = threads[a]
    BY <1>0, LiveFinite DEF ThreadsInv, ThreadCount, Live
  <2>2. Cardinality(Live(a) \ {p}) = Cardinality(Live(a)) - 1
    BY <1>3, <2>1, FS_RemoveElement
  <2> QED
    BY <1>1, <1>3, <2>1, <2>2
<1>5. threads'[a] = 0 => Live(a)' = {}
  <2>1. IsFiniteSet(Live(a))
    BY LiveFinite
  <2>2. IsFiniteSet(Live(a) \ {p})
    BY <2>1, FS_RemoveElement
  <2> QED
    BY <1>3, <1>4, <2>2, FS_EmptySet
<1>6. ThreadCount' /\ \A b \in freeSpaces' : threads'[b] = 0 /\ Live(b)' = {}
  <2>1. threads'[a] > 0 => freeSpaces' = freeSpaces
    BY DEF Release
  <2>2. threads'[a] = 0 => freeSpaces' = freeSpaces \cup {a} /\ Live(a)' = {}
    BY <1>5 DEF Release
  <2>3. threads'[a] \in Nat
    BY <1>0, <1>1
  <2>4. \A b \in freeSpaces' : threads'[b] = 0 /\ Live(b)' = {}
    BY <1>0, <1>2, <2>1, <2>2, <2>3 DEF ThreadsInv
  <2>5. ASSUME NEW b \in Space, threads'[b] > 0
        PROVE  b \notin freeSpaces' /\ threads'[b] = Cardinality(Live(b)')
    <3>1. CASE b = a
      BY <1>4, <2>5, <2>4, <3>1
    <3>2. CASE b # a
      BY <1>2, <2>4, <2>5, <3>2 DEF ThreadsInv, ThreadCount, Live
    <3> QED
      BY <3>1, <3>2
  <2> QED
    BY <2>4, <2>5 DEF ThreadCount, Live
<1>7. ProcTypeOK'
  <2>1. freeProcs' \subseteq Process /\ threads' \in [Space -> Nat]
    BY <1>0, <1>1
  <2>2. freePages' \in Nat /\ held' \in [Space -> Nat] /\ freeSpaces' \subseteq Space
    BY <1>0 DEF Release
  <2> QED
    BY <1>0, <2>1, <2>2 DEF ProcTypeOK
<1>8. ASSUME NEW q \in Runnable'  PROVE Housed(q)'
  <2>1. /\ q \in Runnable /\ q \in Process /\ q \notin freeProcs'
        /\ space[q] \in Space \ freeSpaces /\ threads[space[q]] > 0 /\ held[space[q]] >= 2
    BY <1>8 DEF ThreadsInv, Housed
  <2>2. CASE space[q] = a
    <3>1. q \in Live(a)'
      BY <2>1, <2>2 DEF Live
    <3>2. threads'[a] # 0
      BY <3>1, <1>5
    <3>3. threads'[a] > 0
      BY <3>2, <1>0, <1>1
    <3> QED
      BY <2>1, <2>2, <3>3 DEF Housed, Release
  <2>3. CASE space[q] # a
    <3>1. threads'[space[q]] > 0
      BY <1>2, <2>1, <2>3
    <3>2. space[q] \notin freeSpaces' /\ held'[space[q]] = held[space[q]]
      BY <1>0, <2>1, <2>3 DEF Release
    <3> QED
      BY <2>1, <3>1, <3>2 DEF Housed
  <2> QED
    BY <2>2, <2>3
<1> QED
  BY <1>6, <1>7, <1>8 DEF ThreadsInv

-----------------------------------------------------------------------------

LEMMA ThreadsProcess ==
    ASSUME ListInv, ThreadsInv, ProcNext, UNCHANGED semVars
    PROVE  ThreadsInv'
<1>0. /\ freeProcs \subseteq Process /\ Runnable \subseteq Process
      /\ freeProcs \cap Runnable = {} /\ (current # Null => current \in Runnable)
      /\ space \in [Process -> Space \cup {Null}] /\ freeSpaces \subseteq Space
      /\ freePages \in Nat /\ held \in [Space -> Nat] /\ ProcTypeOK
  BY RunnableNotFree DEF ThreadsInv, ProcTypeOK
<1>1. ASSUME current # Null
      PROVE  /\ space[current] \in Space \ freeSpaces
             /\ threads[space[current]] > 0 /\ held[space[current]] >= 2
  BY <1>0, <1>1 DEF ThreadsInv, Housed
<1>2. CASE Spawn
  <2>1. CASE SpawnFails
    <3>1. Interrupt /\ UNCHANGED procVars
      BY <2>1 DEF SpawnFails, Interrupt
    <3>2. Runnable' = Runnable
      BY <3>1, SwitchStep DEF procVars, Runnable
    <3> QED
      BY <1>0, <3>1, <3>2, QuietStep DEF procVars
  <2>2. CASE ~SpawnFails
    <3>1. PICK p \in freeProcs, a \in freeSpaces :
             /\ freeProcs' = freeProcs \ {p}
             /\ freeSpaces' = freeSpaces \ {a}
             /\ space' = [space EXCEPT ![p] = a]
             /\ SpawnOutOfPages(a) \/ SpawnSucceeds(p, a)
      BY <1>2, <2>2 DEF Spawn
    <3>2. a \in Space /\ held[a] \in Nat /\ p \notin Runnable
      BY <1>0, <3>1
    <3>3. CASE SpawnOutOfPages(a)
      <4>1. Interrupt /\ freePages < 2 /\ Take(a, freePages) /\ threads' = threads
        BY <3>3 DEF SpawnOutOfPages, Interrupt
      <4>2. Runnable' = Runnable
        BY <3>1, <4>1, SwitchStep DEF Runnable
      <4>3. /\ freePages' \in Nat /\ held' \in [Space -> Nat]
            /\ \A b \in Space : held'[b] >= held[b]
        BY <1>0, <3>2, <4>1, TakePages
      <4> QED
        BY <1>0, <3>1, <3>2, <4>1, <4>2, <4>3, StrandStep
    <3>4. CASE SpawnSucceeds(p, a)
      <4>1. /\ freePages >= 2 /\ Take(a, 2) /\ threads' = [threads EXCEPT ![a] = @ + 1]
            /\ ContextSwitch(current, Append(ready, p)) /\ asleep' = asleep
        BY <3>4 DEF SpawnSucceeds
      <4>2. Runnable' = Runnable \cup {p}
        BY <3>1, <4>1, StartStep DEF Runnable
      <4>3. /\ freePages' \in Nat /\ held' \in [Space -> Nat]
            /\ \A b \in Space : held'[b] >= held[b]
            /\ held'[a] >= 2
        BY <1>0, <3>2, <4>1, TakePages
      <4> QED
        BY <1>0, <3>1, <3>2, <4>1, <4>2, <4>3, JoinStep
    <3> QED
      BY <3>1, <3>3, <3>4
  <2> QED
    BY <2>1, <2>2
<1>3. CASE BeginThread
  <2>1. CASE freeProcs = {}
    <3>1. Interrupt /\ UNCHANGED procVars
      BY <1>3, <2>1 DEF BeginThread, Interrupt
    <3>2. Runnable' = Runnable
      BY <3>1, SwitchStep DEF procVars, Runnable
    <3> QED
      BY <1>0, <3>1, <3>2, QuietStep DEF procVars
  <2>2. CASE freeProcs # {}
    <3> DEFINE a == space[current]
    <3>1. PICK p \in freeProcs, n \in 0..2 :
             /\ freeProcs' = freeProcs \ {p}
             /\ space' = [space EXCEPT ![p] = a]
             /\ threads' = [threads EXCEPT ![a] = @ + 1]
             /\ AddPages(a, n)
             /\ ContextSwitch(current, Append(ready, p))
             /\ freeSpaces' = freeSpaces
      BY <1>3, <2>2 DEF BeginThread
    <3>2. asleep' = asleep /\ a \in Space \ freeSpaces /\ threads[a] > 0 /\ held[a] >= 2
      BY <1>1, <1>3 DEF BeginThread
    <3> HIDE DEF a
    <3>3. Runnable' = Runnable \cup {p}
      BY <3>1, <3>2, StartStep DEF Runnable
    <3>4. /\ freePages' \in Nat /\ held' \in [Space -> Nat]
          /\ \A b \in Space : held'[b] >= held[b]
      BY <1>0, <3>1, <3>2, TakePages
    <3>5. held'[a] >= 2 /\ freeSpaces' = freeSpaces \ {a}
      <4>1. held'[a] \in Nat /\ held[a] \in Nat /\ held'[a] >= held[a]
        BY <1>0, <3>2, <3>4
      <4> QED
        BY <3>1, <3>2, <4>1
    <3> QED
      BY <1>0, <3>1, <3>2, <3>3, <3>4, <3>5, JoinStep
  <2> QED
    BY <2>1, <2>2
<1>4. CASE SetHeapBreak
  <2>1. PICK n \in 0..freePages : AddPages(space[current], n)
    BY <1>4 DEF SetHeapBreak
  <2>2. Interrupt /\ UNCHANGED <<freeProcs, space, freeSpaces, threads>> /\ current # Null
    BY <1>4 DEF SetHeapBreak, Interrupt
  <2>3. Runnable' = Runnable
    BY <2>2, SwitchStep DEF Runnable
  <2>4. /\ freePages' \in Nat /\ held' \in [Space -> Nat]
        /\ \A b \in Space : held'[b] >= held[b]
    BY <1>0, <1>1, <2>1, <2>2, TakePages
  <2> QED
    BY <2>2, <2>3, <2>4, QuietStep
<1>5. CASE Exit
  <2>1. /\ Release(space[current]) /\ freeProcs' = freeProcs \cup {current}
        /\ space' = space /\ current # Null
    BY <1>5 DEF Exit
  <2>2. /\ ListInv' /\ Scheduled' = Scheduled \ {current} /\ OnSemaphore' = OnSemaphore
        /\ current \in Scheduled \ (OnSemaphore \cup freeProcs \cup {Idle})
    BY <1>5, ExitStep DEF ListStep
  <2>3. Runnable' = Runnable \ {current} /\ current \in Runnable \ freeProcs
    BY <2>2 DEF Runnable
  <2>4. freeProcs' \cap Runnable' = {}
    BY <1>0, <2>1, <2>3
  <2> QED
    BY <1>0, <2>1, <2>3, <2>4, LeaveStep
<1> QED
  BY <1>2, <1>3, <1>4, <1>5 DEF ProcNext

LEMMA ThreadsNext == ListInv /\ ThreadsInv /\ [Next]_vars => ThreadsInv'
<1> SUFFICES ASSUME ListInv, ThreadsInv, [Next]_vars  PROVE ThreadsInv'
  OBVIOUS
<1>1. ASSUME UNCHANGED procVars, NoNewcomer  PROVE ThreadsInv'
  <2>1. /\ freePages' \in Nat /\ held' \in [Space -> Nat]
        /\ \A b \in Space : held'[b] >= held[b]
    BY <1>1 DEF procVars, ThreadsInv, ProcTypeOK
  <2>2. Runnable' \subseteq Runnable
    BY <1>1 DEF NoNewcomer, Runnable
  <2> QED
    BY <1>1, <2>1, <2>2, QuietStep DEF procVars
<1>2. CASE Tick \/ KeyArrives
  BY <1>1, <1>2, SwitchStep DEF Tick, KeyArrives, procVars, NoNewcomer
<1>3. CASE PipeCall
  BY <1>1, <1>3, PipeStep DEF PipeCall, NoNewcomer
<1>4. CASE SemEntry
  BY <1>1, <1>4, SemaphoreSteps DEF SemEntry
<1>5. CASE ProcNext /\ UNCHANGED semVars
  BY <1>5, ThreadsProcess
<1>6. CASE Untouched
  <2>1. UNCHANGED procVars /\ UNCHANGED queueVars /\ UNCHANGED semVars
    BY <1>6 DEF Untouched
  <2>2. NoNewcomer
    BY <2>1 DEF queueVars, semVars, NoNewcomer, Scheduled, Ready, OnSemaphore
  <2> QED
    BY <1>1, <2>1, <2>2
<1> QED
  BY <1>2, <1>3, <1>4, <1>5, <1>6, KernelSteps

LEMMA ThreadsInit == Init => ThreadsInv
<1> DEFINE booted == {Idle} \cup Range(Boot)
<1> SUFFICES ASSUME Init  PROVE ThreadsInv
  OBVIOUS
<1>0. /\ freeProcs = Process \ booted
      /\ space = [p \in Process |-> IF p \in booted THEN System ELSE Null]
      /\ freeSpaces = Space \ {System}
      /\ threads = [a \in Space |-> IF a = System THEN 1 + Len(Boot) ELSE 0]
      /\ freePages = Pages
      /\ held = [a \in Space |-> IF a = System THEN 4 + Len(Boot) ELSE 0]
      /\ current = Null /\ ready = Boot /\ asleep = {}
      /\ sleepers = [s \in Semaphore |-> <<>>]
  BY DEF Init, ProcInit, QueueInit, SemInit, BootPages
<1>1. /\ Boot \in Seq(Process \ {Idle}) /\ IsInjective(Boot)
      /\ Len(Boot) \in Nat /\ Pages \in Nat /\ System \in Space /\ Null \notin Space
  BY ProcessAssumption
<1>2. booted \subseteq Process /\ Idle \notin Range(Boot)
  BY <1>1, DispatcherAssumption DEF Range
<1>3. Cardinality(booted) = 1 + Len(Boot)
  <2>1. Boot \in Bijection(1..Len(Boot), Range(Boot))
    BY <1>1 DEF Bijection, Injection, Surjection, Range
  <2>2. ExistsBijection(1..Len(Boot), Range(Boot))
    BY <2>1 DEF ExistsBijection
  <2>3. Cardinality(Range(Boot)) = Len(Boot)
    BY <1>1, <2>2, FS_CountingElements
  <2>4. IsFiniteSet(Range(Boot))
    BY <1>1, <2>2, FS_NatBijection
  <2>5. Cardinality(Range(Boot) \cup {Idle}) = Cardinality(Range(Boot)) + 1
    BY <1>2, <2>4, FS_AddElement
  <2>6. booted = Range(Boot) \cup {Idle}
    OBVIOUS
  <2> HIDE DEF booted
  <2>7. Cardinality(booted) = Len(Boot) + 1
    BY <2>3, <2>5, <2>6
  <2> QED
    BY <1>1, <2>7
<1> HIDE DEF booted
<1>4. Live(System) = booted /\ \A a \in Space \ {System} : Live(a) = {}
  BY <1>0, <1>1, <1>2 DEF Live
<1>5. ProcTypeOK
  BY <1>0, <1>1, <1>2 DEF ProcTypeOK
<1>6. Runnable = booted
  <2>1. Range(<<>>) = {}
    BY DEF Range
  <2> QED
    BY <1>0, <2>1 DEF Runnable, Scheduled, Ready, OnSemaphore, booted
<1>7. \A p \in Runnable : Housed(p)
  BY <1>0, <1>1, <1>2, <1>6 DEF Housed
<1>8. ThreadCount
  <2> SUFFICES ASSUME NEW a \in Space, threads[a] > 0
               PROVE  a \notin freeSpaces /\ threads[a] = Cardinality(Live(a))
    BY DEF ThreadCount, Live
  <2>1. a = System
    BY <1>0
  <2> QED
    BY <1>0, <1>1, <1>3, <1>4, <2>1
<1>9. \A a \in freeSpaces : threads[a] = 0 /\ Live(a) = {}
  BY <1>0, <1>4
<1> QED
  BY <1>5, <1>7, <1>8, <1>9 DEF ThreadsInv

THEOREM ThreadsInvariant == Spec => []ThreadsInv
BY ThreadsInit, ThreadsNext, ListsInvariant, PTL DEF Spec

\* The kernel's variables keep their types, for any pools.
THEOREM KernelTypeOK == Spec => []TypeOK
<1> DEFINE Polls == polled \in {"nothing", "key", "port"}
<1>1. Init => Polls
  BY DEF Init
<1>2. Polls /\ [Next]_vars => Polls'
  BY DEF Next, Tick, PipeCall, Prompt, Getc, KeyArrives, PortChanges, Connected,
         StartsPolling, EndsPolling, vars
<1>3. Polls /\ ListInv /\ ThreadsInv => TypeOK
  BY DEF ListInv, ThreadsInv, TypeOK
<1> QED
  BY <1>1, <1>2, <1>3, ListsInvariant, ThreadsInvariant, PTL DEF Spec

\* thread_count is exactly the number of live threads of every space in use.
THEOREM KernelThreadCount == Spec => []ThreadCount
BY ThreadsInvariant, PTL DEF ThreadsInv

\* Whoever runs, or can be woken to run, still has its page table and a stack.
THEOREM KernelRunnableHasMemory == Spec => []RunnableHasMemory
<1>1. ThreadsInv => RunnableHasMemory
  BY DEF ThreadsInv, Runnable, Housed, RunnableHasMemory
<1> QED
  BY <1>1, ThreadsInvariant, PTL

-----------------------------------------------------------------------------
(* The pages *)

\* Pages go from the MMU's list to one space, or back, or stay.
LEMMA PagesMoved ==
    ASSUME ListInv, ThreadsInv, [Next]_vars
    PROVE  \/ UNCHANGED <<freePages, held>>
           \/ \E a \in Space, v \in Nat :
                 /\ held' = [held EXCEPT ![a] = v]
                 /\ freePages' + v = freePages + held[a]
<1>0. /\ freePages \in Nat /\ held \in [Space -> Nat] /\ freeSpaces \subseteq Space
      /\ current # Null => space[current] \in Space
  <2>1. current # Null => current \in Runnable
    BY RunnableNotFree
  <2> QED
    BY <2>1 DEF ThreadsInv, ProcTypeOK, Housed
<1> DEFINE Moved == \/ UNCHANGED <<freePages, held>>
                    \/ \E a \in Space, v \in Nat :
                          /\ held' = [held EXCEPT ![a] = v]
                          /\ freePages' + v = freePages + held[a]
<1>1. ASSUME NEW a \in Space, NEW n \in Nat, n <= freePages, Take(a, n) PROVE Moved
  <2>1. /\ held[a] + n \in Nat /\ held' = [held EXCEPT ![a] = held[a] + n]
        /\ freePages' + (held[a] + n) = freePages + held[a]
    BY <1>0, <1>1 DEF Take
  <2> QED
    BY <2>1
<1>2. ASSUME NEW a \in Space, NEW n \in Nat, AddPages(a, n) PROVE Moved
  <2>1. PICK m \in Nat : m <= freePages /\ Take(a, m)
    BY <1>0, <1>2 DEF AddPages
  <2> QED
    BY <2>1, <1>1
<1>3. CASE UNCHANGED procVars
  BY <1>3 DEF procVars
<1>4. CASE Spawn
  <2>1. CASE SpawnFails
    BY <2>1 DEF SpawnFails, procVars
  <2>2. CASE ~SpawnFails
    <3>1. PICK a \in freeSpaces : \/ freePages < 2 /\ Take(a, freePages)
                                  \/ freePages >= 2 /\ Take(a, 2)
      BY <1>4, <2>2 DEF Spawn, SpawnOutOfPages, SpawnSucceeds
    <3> QED
      BY <3>1, <1>0, <1>1
  <2> QED
    BY <2>1, <2>2
<1>5. CASE BeginThread
  <2>1. CASE UNCHANGED procVars
    BY <2>1 DEF procVars
  <2>2. CASE ~UNCHANGED procVars
    <3>1. current # Null /\ \E n \in 0..2 : AddPages(space[current], n)
      BY <1>5, <2>2 DEF BeginThread
    <3> QED
      BY <3>1, <1>0, <1>2
  <2> QED
    BY <2>1, <2>2
<1>6. CASE SetHeapBreak
  <2>1. current # Null /\ \E n \in 0..freePages : AddPages(space[current], n)
    BY <1>6 DEF SetHeapBreak
  <2> QED
    BY <2>1, <1>0, <1>2
<1>7. CASE Exit
  <2> DEFINE a == space[current]
  <2>1. Release(a) /\ a \in Space
    BY <1>0, <1>7 DEF Exit
  <2> HIDE DEF a
  <2>2. CASE UNCHANGED <<freePages, held>>
    BY <2>2
  <2>3. CASE ~UNCHANGED <<freePages, held>>
    <3>1. held' = [held EXCEPT ![a] = 0] /\ freePages' = freePages + held[a]
      BY <2>1, <2>3 DEF Release
    <3>2. held[a] \in Nat
      BY <1>0, <2>1
    <3>3. freePages' + 0 = freePages + held[a] /\ 0 \in Nat
      BY <1>0, <3>1, <3>2
    <3> QED
      BY <2>1, <3>1, <3>3
  <2> QED
    BY <2>2, <2>3
<1> QED
  <2>1. UNCHANGED procVars \/ ProcNext
    BY KernelSteps DEF Tick, KeyArrives, PipeCall, SemEntry, Untouched
  <2> QED
    BY <2>1, <1>3, <1>4, <1>5, <1>6, <1>7 DEF ProcNext

(* What becomes of the sum of a function's values when one of them changes: *)
(* SumFunction folds over a finite set, one element at a time, and what it  *)
(* comes to is followed by the number of elements.                          *)

\* A set that holds 0, and n + 1 with n, holds every number: what it does not
\* hold would have a least number, since < is well founded.
LEMMA EveryNumber ==
    ASSUME NEW S, 0 \in S, \A n \in Nat : n \in S => n + 1 \in S
    PROVE  Nat \subseteq S
<1> DEFINE R == {ss \in Nat \X Nat : ss[1] < ss[2]}
           T == Nat \ S
<1> SUFFICES ASSUME T # {} PROVE FALSE
  OBVIOUS
<1>1. IsWellFoundedOn(R, Nat)
  BY NatLessThanWellFounded DEF OpToRel
<1>2. PICK x \in T : \A y \in T : ~ (<<y, x>> \in R)
  BY <1>1, WFMin
<1>3. x \in Nat /\ x # 0 /\ x - 1 \in Nat /\ x - 1 < x /\ (x - 1) + 1 = x
  BY <1>2
<1>4. x - 1 \notin T
  BY <1>2, <1>3
<1> QED
  BY <1>2, <1>3, <1>4

\* The element that SumFunction takes first, and what it then adds.
First(s)       == CHOOSE x \in s : TRUE
Total(g, f, s) == IF s = {} THEN 0 ELSE f[First(s)] + g[s \ {First(s)}]

\* g is the total of f over each subset of S; and over those of n elements at most.
Totals(g, f, S) == g = [s \in SUBSET S |-> Total(g, f, s)]

TotalsTo(g, f, S, n) ==
    /\ g = [s \in SUBSET S |-> g[s]]
    /\ \A s \in SUBSET S : Cardinality(s) <= n => g[s] = Total(g, f, s)

\* The subset without its first element has one less.
LEMMA FirstIn ==
    ASSUME NEW S, IsFiniteSet(S), NEW s \in SUBSET S
    PROVE  /\ IsFiniteSet(s) /\ Cardinality(s) \in Nat /\ Cardinality(s) <= Cardinality(S)
           /\ Cardinality(s) = 0 <=> s = {}
           /\ s # {} => /\ First(s) \in s /\ s \ {First(s)} \in SUBSET S
                        /\ Cardinality(s \ {First(s)}) = Cardinality(s) - 1
<1>1. IsFiniteSet(s) /\ Cardinality(s) <= Cardinality(S)
  BY FS_Subset
<1>2. s # {} => First(s) \in s
  BY DEF First
<1> QED
  BY <1>1, <1>2, FS_CardinalityType, FS_EmptySet, FS_RemoveElement

\* There is such a function: what reaches n elements is continued to n + 1.
LEMMA TotalsExist ==
    ASSUME NEW S, IsFiniteSet(S), NEW f
    PROVE  \E g : Totals(g, f, S)
<1> DEFINE N == {n \in Nat : \E g : TotalsTo(g, f, S, n)}
<1>1. 0 \in N
  <2> DEFINE g == [s \in SUBSET S |-> 0]
  <2>1. \A s \in SUBSET S : Cardinality(s) <= 0 => g[s] = Total(g, f, s)
    <3> SUFFICES ASSUME NEW s \in SUBSET S, Cardinality(s) <= 0 PROVE g[s] = Total(g, f, s)
      OBVIOUS
    <3>1. Cardinality(s) \in Nat /\ (Cardinality(s) = 0 <=> s = {})
      BY FirstIn
    <3>2. s = {}
      BY <3>1
    <3> QED
      BY <3>2 DEF Total
  <2>2. TotalsTo(g, f, S, 0)
    BY <2>1 DEF TotalsTo
  <2> QED
    BY <2>2
<1>2. ASSUME NEW n \in Nat, n \in N PROVE n + 1 \in N
  <2>1. PICK g : TotalsTo(g, f, S, n)
    BY <1>2
  <2> DEFINE h == [s \in SUBSET S |-> IF Cardinality(s) <= n THEN g[s] ELSE Total(g, f, s)]
  <2>2. ASSUME NEW s \in SUBSET S, Cardinality(s) <= n + 1 PROVE h[s] = Total(h, f, s)
    <3>1. /\ Cardinality(s) \in Nat /\ (Cardinality(s) = 0 <=> s = {})
          /\ s # {} => /\ s \ {First(s)} \in SUBSET S
                       /\ Cardinality(s \ {First(s)}) = Cardinality(s) - 1
      BY FirstIn
    <3>2. s # {} => h[s \ {First(s)}] = g[s \ {First(s)}]
      BY <3>1, <2>2
    <3>3. h[s] = Total(g, f, s)
      BY <2>1 DEF TotalsTo
    <3> HIDE DEF h
    <3> QED
      BY <3>2, <3>3 DEF Total
  <2>3. TotalsTo(h, f, S, n + 1)
    BY <2>2 DEF TotalsTo
  <2> QED
    BY <2>3
<1>3. Nat \subseteq N
  <2> HIDE DEF N
  <2> QED
    BY <1>1, <1>2, EveryNumber
<1>4. Cardinality(S) \in Nat
  BY FS_CardinalityType
<1>5. PICK g : TotalsTo(g, f, S, Cardinality(S))
  BY <1>3, <1>4
<1>6. \A s \in SUBSET S : g[s] = Total(g, f, s)
  BY <1>5, FirstIn DEF TotalsTo
<1>7. Totals(g, f, S)
  BY <1>5, <1>6 DEF TotalsTo, Totals
<1> QED
  BY <1>7

\* SumFunction is the total over the domain.
LEMMA SumTotals ==
    ASSUME NEW S, IsFiniteSet(S), NEW f, DOMAIN f = S
    PROVE  \E h : Totals(h, f, S) /\ SumFunction(f) = h[S]
<1>1. \E h : Totals(h, f, S)
  BY TotalsExist
<1> DEFINE h == CHOOSE h : Totals(h, f, S)
<1>2. Totals(h, f, S)
  BY <1>1
<1>3. SumFunction(f) = h[S]
  BY DEF SumFunction, SumFunctionOnSet, FoldFunctionOnSet, MapThenFoldSet, Totals, Total, First
<1> HIDE DEF h
<1> QED
  BY <1>2, <1>3

\* A total is what is first and the total of the rest.
LEMMA TotalStep ==
    ASSUME NEW S, NEW f, NEW h, Totals(h, f, S), NEW s \in SUBSET S
    PROVE  h[s] = Total(h, f, s)
  BY DEF Totals

\* When one value changes, the sum changes by as much.
LEMMA SumChange ==
    ASSUME NEW S, IsFiniteSet(S), NEW f \in [S -> Nat], NEW a \in S, NEW v \in Nat
    PROVE  /\ SumFunction(f) \in Nat
           /\ SumFunction([f EXCEPT ![a] = v]) = SumFunction(f) - f[a] + v
<1> DEFINE e == [f EXCEPT ![a] = v]
<1>1. e \in [S -> Nat] /\ e[a] = v /\ \A x \in S \ {a} : e[x] = f[x]
  OBVIOUS
<1>2. DOMAIN f = S /\ DOMAIN e = S
  OBVIOUS
<1>3. PICK g : Totals(g, f, S) /\ SumFunction(f) = g[S]
  BY <1>2, SumTotals
<1> HIDE DEF e
<1>4. PICK h : Totals(h, e, S) /\ SumFunction(e) = h[S]
  BY <1>2, SumTotals
<1> DEFINE Agrees(s) == g[s] \in Nat /\ h[s] = IF a \in s THEN g[s] - f[a] + v ELSE g[s]
           N == {n \in Nat : \A s \in SUBSET S : Cardinality(s) = n => Agrees(s)}
<1>5. 0 \in N
  <2> SUFFICES ASSUME NEW s \in SUBSET S, Cardinality(s) = 0 PROVE Agrees(s)
    OBVIOUS
  <2>1. s = {}
    BY FirstIn
  <2>2. g[s] = 0 /\ h[s] = 0
    BY <2>1, <1>3, <1>4, TotalStep DEF Total
  <2> QED
    BY <2>1, <2>2
<1>6. ASSUME NEW n \in Nat, n \in N PROVE n + 1 \in N
  <2> SUFFICES ASSUME NEW s \in SUBSET S, Cardinality(s) = n + 1 PROVE Agrees(s)
    OBVIOUS
  <2> DEFINE x == First(s)  t == s \ {First(s)}
  <2>1. s # {} /\ x \in s /\ t \in SUBSET S /\ Cardinality(t) = n /\ x \in S
    BY FirstIn
  <2>2. Agrees(t)
    BY <2>1, <1>6
  <2>3. g[s] = f[x] + g[t]
    BY <2>1, <1>3, TotalStep DEF Total
  <2>4. h[s] = e[x] + h[t]
    BY <2>1, <1>4, TotalStep DEF Total
  <2>5. (a \in t <=> a \in s /\ a # x) /\ (a \notin s => a # x)
    BY <2>1
  <2> HIDE DEF x, t
  <2>6. f[x] \in Nat /\ f[a] \in Nat /\ g[t] \in Nat
    BY <2>1, <2>2
  <2>7. CASE a = x
    <3>1. a \notin t /\ a \in s /\ e[x] = v
      BY <2>1, <2>5, <2>7, <1>1
    <3>2. h[t] = g[t]
      BY <3>1, <2>2
    <3> QED
      BY <3>1, <3>2, <2>3, <2>4, <2>6, <2>7
  <2>8. CASE a # x
    <3>1. (a \in t <=> a \in s) /\ e[x] = f[x]
      BY <2>1, <2>5, <2>8, <1>1
    <3> QED
      BY <3>1, <2>2, <2>3, <2>4, <2>6
  <2> QED
    BY <2>7, <2>8
<1>7. Nat \subseteq N
  <2> HIDE DEF N
  <2> QED
    BY <1>5, <1>6, EveryNumber
<1>8. Agrees(S)
  BY <1>7, FS_CardinalityType
<1> QED
  BY <1>3, <1>4, <1>8 DEF e

\* Nothing adds up to nothing.
LEMMA SumNothing ==
    ASSUME NEW S, IsFiniteSet(S)
    PROVE  SumFunction([x \in S |-> 0]) = 0
<1> DEFINE f == [x \in S |-> 0]
<1>1. \A x \in S : f[x] = 0
  OBVIOUS
<1>2. DOMAIN f = S
  OBVIOUS
<1> HIDE DEF f
<1>3. PICK g : Totals(g, f, S) /\ SumFunction(f) = g[S]
  BY <1>2, SumTotals
<1> DEFINE N == {n \in Nat : \A s \in SUBSET S : Cardinality(s) = n => g[s] = 0}
<1>4. 0 \in N
  <2> SUFFICES ASSUME NEW s \in SUBSET S, Cardinality(s) = 0 PROVE g[s] = 0
    OBVIOUS
  <2>1. s = {}
    BY FirstIn
  <2> QED
    BY <2>1, <1>3, TotalStep DEF Total
<1>5. ASSUME NEW n \in Nat, n \in N PROVE n + 1 \in N
  <2> SUFFICES ASSUME NEW s \in SUBSET S, Cardinality(s) = n + 1 PROVE g[s] = 0
    OBVIOUS
  <2>1. /\ s # {} /\ First(s) \in S /\ s \ {First(s)} \in SUBSET S
        /\ Cardinality(s \ {First(s)}) = n
    BY FirstIn
  <2>2. g[s] = Total(g, f, s)
    BY <1>3, TotalStep
  <2>3. g[s] = f[First(s)] + g[s \ {First(s)}]
    BY <2>1, <2>2 DEF Total
  <2> QED
    BY <2>1, <2>3, <1>1, <1>5
<1>6. Nat \subseteq N
  <2> HIDE DEF N
  <2> QED
    BY <1>4, <1>5, EveryNumber
<1>7. g[S] = 0
  BY <1>6, FS_CardinalityType
<1> QED
  BY <1>3, <1>7 DEF f

\* What leaves one side of the books arrives on the other.
LEMMA PagesBalance ==
    ASSUME NEW f \in Nat, NEW g \in Nat, NEW s \in Nat, NEW h \in Nat, NEW v \in Nat, NEW u,
           u = s - h + v, g + v = f + h
    PROVE  g + u = f + s
  OBVIOUS

\* Pages are neither lost nor counted twice, whatever a spawn, a thread, a heap
\* or an exit does and wherever create_process() and add() run out of them: what
\* the MMU's list and the page lists of all spaces hold is what there was at boot.
THEOREM KernelConservesPages == Spec => []PageConservation
<1>0. IsFiniteSet(Space) /\ System \in Space /\ Pages \in Nat /\ BootPages \in Nat
  BY ProcessAssumption DEF BootPages
<1>1. Init => PageConservation
  <2> SUFFICES ASSUME Init PROVE PageConservation
    OBVIOUS
  <2> DEFINE none == [a \in Space |-> 0]
  <2>1. /\ none \in [Space -> Nat] /\ none[System] = 0
        /\ held = [none EXCEPT ![System] = BootPages] /\ freePages = Pages
    BY <1>0 DEF Init, ProcInit
  <2>2. SumFunction(none) = 0
    BY <1>0, SumNothing
  <2> HIDE DEF none
  <2>3. SumFunction(held) = SumFunction(none) - none[System] + BootPages
    BY <1>0, <2>1, SumChange
  <2> QED
    BY <1>0, <2>1, <2>2, <2>3 DEF PageConservation
<1>2. PageConservation /\ ListInv /\ ThreadsInv /\ [Next]_vars => PageConservation'
  <2> SUFFICES ASSUME PageConservation, ListInv, ThreadsInv, [Next]_vars
               PROVE  PageConservation'
    OBVIOUS
  <2>1. freePages \in Nat /\ held \in [Space -> Nat] /\ freePages' \in Nat
    BY ThreadsNext DEF ThreadsInv, ProcTypeOK
  <2>2. CASE UNCHANGED <<freePages, held>>
    BY <2>2 DEF PageConservation
  <2>3. CASE ~UNCHANGED <<freePages, held>>
    <3>1. PICK a \in Space, v \in Nat : /\ held' = [held EXCEPT ![a] = v]
                                        /\ freePages' + v = freePages + held[a]
      BY <2>3, PagesMoved
    <3>2. /\ SumFunction(held) \in Nat /\ held[a] \in Nat
          /\ SumFunction(held') = SumFunction(held) - held[a] + v
      BY <1>0, <2>1, <3>1, SumChange
    <3>3. freePages + SumFunction(held) = Pages + BootPages
      BY DEF PageConservation
    <3>4. freePages' + SumFunction(held') = freePages + SumFunction(held)
      BY <2>1, <3>1, <3>2, PagesBalance
    <3> QED
      BY <3>3, <3>4 DEF PageConservation, BootPages
  <2> QED
    BY <2>2, <2>3
<1> QED
  BY <1>1, <1>2, ListsInvariant, ThreadsInvariant, PTL DEF Spec

=============================================================================
