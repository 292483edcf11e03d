-------------------------- MODULE ProcessListProofs --------------------------
(***************************************************************************)
(* Proofs about ProcessList.tla, for any number of processes and           *)
(* semaphores: whatever the next fields of processes that have left a list *)
(* still point to, the lists stay apart, active_head stays the end of the  *)
(* ready queue, and each kernel entry does to the queues what Dispatcher   *)
(* says.                                                                   *)
(*                                                                         *)
(* The argument names the lists that the pointers make (Links, and Tidy    *)
(* for all of them together), and says of each function of the model which *)
(* list it changes and that it writes the next field of no process on any  *)
(* other.  What Walk reads off the pointers is that list (WalkIs), by      *)
(* induction along it.                                                     *)
(***************************************************************************)
EXTENDS ProcessList, SequenceTheorems, FiniteSetTheorems, WellFoundedInduction, TLAPS

-----------------------------------------------------------------------------
(* Lists *)

\* A set that holds 0, and n + 1 with n, holds every number: what it does not
\* hold would have a least number, since < is well founded.
LEMMA EveryNumber ==
    ASSUME NEW S, 0 \in S, \A n \in Nat : n \in S => n + 1 \in S
    PROVE  Nat \subseteq S
<1> DEFINE R == {ss \in Nat \X Nat : ss[1] < ss[2]}
           T == Nat \ S
<1> SUFFICES ASSUME T # {} PROVE FALSE
  OBVIOUS
<1>1. IsWellFoundedOn(R, Nat)
  BY NatLessThanWellFounded DEF OpToRel
<1>2. PICK x \in T : \A y \in T : ~ (<<y, x>> \in R)
  BY <1>1, WFMin
<1>3. x \in Nat /\ x # 0 /\ x - 1 \in Nat /\ x - 1 < x /\ (x - 1) + 1 = x
  BY <1>2
<1>4. x - 1 \notin T
  BY <1>2, <1>3
<1> QED
  BY <1>2, <1>3, <1>4

Pointer == Process \cup {Null}

\* s is the list that starts at p.
Links(next, p, s) ==
    /\ s \in Seq(Process) /\ IsInjective(s)
    /\ p = FirstOf(s)
    /\ \A i \in 1..Len(s) : next[s[i]] = IF i < Len(s) THEN s[i + 1] ELSE Null

\* f is what the loop of Walk comes to.
Follows(f, next, p) ==
    f = [n \in 0..Cardinality(Process) |-> IF n = 0 THEN p ELSE Follow(next, f[n - 1])]

\* The list that Walk makes of it.
Cut(f) == [n \in {m \in 1..Cardinality(Process) + 1 : f[m - 1] # Null} |-> f[n - 1]]

\* There are finitely many process objects.
LEMMA ProcessCount == Cardinality(Process) \in Nat
  BY FS_CardinalityType, ProcessListAssumption

\* A list without repeats is no longer than there are processes.
LEMMA ShortList ==
    ASSUME NEW s \in Seq(Process), IsInjective(s)
    PROVE  Len(s) <= Cardinality(Process)
<1>1. s \in Injection(1..Len(s), Process)
  BY DEF Injection, IsInjective
<1>2. Len(s) \in Nat
  OBVIOUS
<1>3. IsFiniteSet(1..Len(s)) /\ Cardinality(1..Len(s)) = Len(s)
  BY <1>2, FS_Interval
<1> QED
  BY <1>1, <1>3, FS_Injection, ProcessListAssumption

\* The loop of Walk is the function its definition says, if there is one.
LEMMA WalkFollows ==
    ASSUME NEW next, NEW p, NEW g, Follows(g, next, p)
    PROVE  \E f : Follows(f, next, p) /\ Walk(next, p) = Cut(f)
<1> DEFINE f == CHOOSE h : Follows(h, next, p)
<1>1. Follows(f, next, p)
  OBVIOUS
<1>2. Walk(next, p) = Cut(f)
  BY DEF Walk, Follows, Cut
<1> HIDE DEF f
<1> QED
  BY <1>1, <1>2

\* From the pointer at its start, Walk comes to the whole list.
LEMMA WalkIs ==
    ASSUME NEW next, NEW p, NEW s, Links(next, p, s)
    PROVE  Walk(next, p) = s
<1> DEFINE N == Cardinality(Process)
           g == [n \in 0..N |-> IF n < Len(s) THEN s[n + 1] ELSE Null]
<1>1. s \in Seq(Process) /\ Len(s) \in Nat /\ N \in Nat /\ Len(s) <= N
  BY ProcessCount, ShortList DEF Links
<1>2. /\ p = IF Len(s) = 0 THEN Null ELSE s[1]
      /\ \A i \in 1..Len(s) : /\ s[i] \in Process /\ s[i] # Null
                              /\ next[s[i]] = IF i < Len(s) THEN s[i + 1] ELSE Null
  BY <1>1, ProcessListAssumption DEF Links, FirstOf
<1> HIDE DEF N
<1>3. ASSUME NEW n \in 0..N
      PROVE  g[n] = IF n = 0 THEN p ELSE Follow(next, g[n - 1])
  <2>1. CASE n = 0
    BY <2>1, <1>1, <1>2
  <2>2. CASE n # 0 /\ n - 1 < Len(s)
    <3>1. n \in 1..Len(s) /\ n - 1 \in 0..N /\ (n - 1) + 1 = n
      BY <2>2, <1>1
    <3>2. g[n - 1] = s[n] /\ g[n] = IF n < Len(s) THEN s[n + 1] ELSE Null
      BY <3>1, <2>2, <1>1
    <3> QED
      BY <3>1, <3>2, <2>2, <1>2 DEF Follow
  <2>3. CASE n # 0 /\ ~(n - 1 < Len(s))
    <3>1. n - 1 \in 0..N /\ ~(n < Len(s))
      BY <2>3, <1>1
    <3>2. g[n - 1] = Null /\ g[n] = Null
      BY <3>1, <2>3
    <3> QED
      BY <3>2, <2>3 DEF Follow
  <2> QED
    BY <2>1, <2>2, <2>3
<1>4. Follows(g, next, p)
  BY <1>3 DEF Follows, N
<1>5. PICK f : Follows(f, next, p) /\ Walk(next, p) = Cut(f)
  BY <1>4, WalkFollows
<1>6. \A n \in 0..N : f[n] = IF n = 0 THEN p ELSE Follow(next, f[n - 1])
  BY <1>5 DEF Follows, N
<1> DEFINE S == {n \in Nat : n \in 0..N => f[n] = g[n]}
<1> HIDE DEF g
<1>7. 0 \in S
  BY <1>1, <1>3, <1>6
<1>8. ASSUME NEW n \in Nat, n \in S PROVE n + 1 \in S
  <2>1. n + 1 \in 0..N => n \in 0..N /\ (n + 1) - 1 = n /\ n + 1 # 0
    BY <1>1
  <2> QED
    BY <2>1, <1>3, <1>6, <1>8
<1>9. \A n \in 0..N : f[n] = g[n]
  <2>1. Nat \subseteq S
    <3> HIDE DEF S
    <3> QED
      BY <1>7, <1>8, EveryNumber
  <2> QED
    BY <2>1, <1>1
<1>10. {m \in 1..N + 1 : f[m - 1] # Null} = 1..Len(s)
  <2>1. ASSUME NEW m \in 1..N + 1 PROVE f[m - 1] = IF m <= Len(s) THEN s[m] ELSE Null
    <3>1. m - 1 \in 0..N /\ (m - 1 < Len(s) <=> m <= Len(s)) /\ (m - 1) + 1 = m
      BY <1>1
    <3> QED
      BY <3>1, <1>9 DEF g
  <2> QED
    BY <2>1, <1>1, <1>2
<1>11. \A m \in 1..Len(s) : f[m - 1] = s[m]
  <2>1. ASSUME NEW m \in 1..Len(s) PROVE m - 1 \in 0..N /\ m - 1 < Len(s) /\ (m - 1) + 1 = m
    BY <1>1
  <2> QED
    BY <2>1, <1>9 DEF g
<1>12. s = [n \in 1..Len(s) |-> s[n]]
  BY <1>1
<1> QED
  BY <1>5, <1>10, <1>11, <1>12 DEF Cut, N

\* Writing the next fields of others leaves a list as it is.
LEMMA LinksSame ==
    ASSUME NEW next, NEW p, NEW s, Links(next, p, s),
           NEW other, \A q \in Range(s) : other[q] = next[q]
    PROVE  Links(other, p, s)
<1>1. s \in Seq(Process) /\ \A i \in 1..Len(s) : s[i] \in Range(s)
  BY DEF Links, Range
<1> QED
  BY <1>1 DEF Links

\* What follows the first of a list is a list.
LEMMA LinksTail ==
    ASSUME NEW next, NEW p, NEW s, Links(next, p, s), p # Null
    PROVE  /\ p \in Process /\ s # <<>> /\ p = Head(s)
           /\ Links(next, next[p], Tail(s))
           /\ p \notin Range(Tail(s)) /\ Range(s) = {p} \cup Range(Tail(s))
<1> DEFINE t == Tail(s)
<1>1. /\ s \in Seq(Process) /\ IsInjective(s)
      /\ \A i \in 1..Len(s) : next[s[i]] = IF i < Len(s) THEN s[i + 1] ELSE Null
  BY DEF Links
<1>2. s # <<>> /\ p = s[1] /\ Len(s) \in Nat \ {0} /\ p = Head(s) /\ p \in Process
  BY <1>1 DEF Links, FirstOf
<1>3. /\ t \in Seq(Process) /\ Len(t) = Len(s) - 1
      /\ \A i \in 1..Len(t) : t[i] = s[i + 1] /\ i + 1 \in 1..Len(s)
  BY <1>1, <1>2
<1>4. IsInjective(t) /\ p \notin Range(t)
  BY <1>1, <1>2, <1>3 DEF IsInjective, Range
<1>5. next[p] = FirstOf(t)
  <2>1. 1 \in 1..Len(s) /\ next[p] = IF 1 < Len(s) THEN s[2] ELSE Null
    BY <1>1, <1>2
  <2>2. CASE Len(s) = 1
    BY <2>1, <2>2, <1>3 DEF FirstOf
  <2>3. CASE Len(s) # 1
    <3>1. 1 \in 1..Len(t) /\ 1 < Len(s) /\ t # <<>>
      BY <2>3, <1>2, <1>3
    <3>2. t[1] = s[2]
      BY <3>1, <1>3
    <3> QED
      BY <3>1, <3>2, <2>1 DEF FirstOf
  <2> QED
    BY <2>2, <2>3
<1>6. ASSUME NEW i \in 1..Len(t)
      PROVE  next[t[i]] = IF i < Len(t) THEN t[i + 1] ELSE Null
  <2>1. t[i] = s[i + 1] /\ i + 1 \in 1..Len(s) /\ (i < Len(t) <=> i + 1 < Len(s))
    BY <1>2, <1>3
  <2>2. i < Len(t) => i + 1 \in 1..Len(t)
    BY <1>2, <1>3
  <2>3. i < Len(t) => t[i + 1] = s[(i + 1) + 1]
    BY <2>2, <1>3
  <2> QED
    BY <2>1, <2>3, <1>1
<1>7. Range(s) = {p} \cup Range(t)
  <2>1. ASSUME NEW i \in 1..Len(s) PROVE s[i] \in {p} \cup Range(t)
    <3>1. CASE i = 1
      BY <3>1, <1>2
    <3>2. CASE i # 1
      <4>1. i - 1 \in 1..Len(t) /\ (i - 1) + 1 = i
        BY <3>2, <1>2, <1>3
      <4>2. t[i - 1] = s[i] /\ i - 1 \in DOMAIN t
        BY <4>1, <1>3
      <4> QED
        BY <4>2 DEF Range
    <3> QED
      BY <3>1, <3>2
  <2> QED
    BY <2>1, <1>1, <1>2, <1>3 DEF Range
<1> QED
  BY <1>2, <1>3, <1>4, <1>5, <1>6, <1>7 DEF Links

\* A list that gets a new first.
LEMMA LinksFirst ==
    ASSUME NEW next \in [Process -> Pointer], NEW p, NEW s, Links(next, p, s),
           NEW q \in Process, q \notin Range(s)
    PROVE  /\ Links([next EXCEPT ![q] = p], q, <<q>> \o s)
           /\ Range(<<q>> \o s) = {q} \cup Range(s)
<1> DEFINE t == <<q>> \o s  n2 == [next EXCEPT ![q] = p]
<1>1. /\ s \in Seq(Process) /\ IsInjective(s) /\ p = FirstOf(s)
      /\ \A i \in 1..Len(s) : /\ next[s[i]] = IF i < Len(s) THEN s[i + 1] ELSE Null
                              /\ s[i] \in Range(s) /\ s[i] \in Process
  BY DEF Links, Range
<1>2. /\ t \in Seq(Process) /\ Len(t) = Len(s) + 1 /\ t[1] = q /\ t # <<>> /\ Len(s) \in Nat
      /\ \A i \in 1..Len(s) : t[i + 1] = s[i]
      /\ \A i \in 1..Len(t) : i # 1 => i - 1 \in 1..Len(s) /\ t[i] = s[i - 1]
  BY <1>1
<1>3. Range(t) = {q} \cup Range(s)
  <2>1. ASSUME NEW i \in 1..Len(t) PROVE t[i] \in {q} \cup Range(s)
    BY <1>1, <1>2
  <2>2. ASSUME NEW i \in 1..Len(s) PROVE s[i] \in Range(t)
    <3>1. i + 1 \in DOMAIN t /\ t[i + 1] = s[i]
      BY <1>2
    <3> QED
      BY <3>1 DEF Range
  <2>3. q \in Range(t)
    <3>1. 1 \in DOMAIN t
      BY <1>2
    <3> QED
      BY <3>1, <1>2 DEF Range
  <2>4. DOMAIN t = 1..Len(t) /\ DOMAIN s = 1..Len(s)
    BY <1>1, <1>2
  <2> HIDE DEF t
  <2>5. Range(t) \subseteq {q} \cup Range(s)
    BY <2>1, <2>4 DEF Range
  <2>6. Range(s) \subseteq Range(t)
    BY <2>2, <2>4 DEF Range
  <2> QED
    BY <2>3, <2>5, <2>6
<1>4. IsInjective(t)
  <2>1. ASSUME NEW i \in 1..Len(t), NEW j \in 1..Len(t), t[i] = t[j] PROVE i = j
    BY <2>1, <1>1, <1>2 DEF IsInjective
  <2> QED
    BY <2>1, <1>2 DEF IsInjective
<1>5. ASSUME NEW i \in 1..Len(t)
      PROVE  n2[t[i]] = IF i < Len(t) THEN t[i + 1] ELSE Null
  <2>1. CASE i = 1
    <3>1. n2[t[i]] = p
      BY <2>1, <1>2
    <3>2. CASE s = <<>>
      BY <3>1, <3>2, <2>1, <1>1, <1>2 DEF FirstOf
    <3>3. CASE s # <<>>
      <4>1. 1 \in 1..Len(s) /\ 1 < Len(t)
        BY <3>3, <1>1, <1>2
      <4>2. t[1 + 1] = s[1]
        BY <4>1, <1>2
      <4> QED
        BY <4>1, <4>2, <3>1, <3>3, <2>1, <1>1 DEF FirstOf
    <3> QED
      BY <3>2, <3>3
  <2>2. CASE i # 1
    <3>1. /\ i - 1 \in 1..Len(s) /\ t[i] = s[i - 1] /\ (i - 1 < Len(s) <=> i < Len(t))
          /\ (i - 1) + 1 = i
      BY <2>2, <1>2
    <3>2. n2[t[i]] = next[s[i - 1]]
      BY <3>1, <1>1
    <3>3. i < Len(t) => i \in 1..Len(s)
      BY <3>1, <1>2
    <3>4. i < Len(t) => t[i + 1] = s[i]
      BY <3>3, <1>2
    <3> QED
      BY <3>1, <3>2, <3>4, <1>1
  <2> QED
    BY <2>1, <2>2
<1>6. q = FirstOf(t)
  BY <1>2 DEF FirstOf
<1> QED
  BY <1>2, <1>3, <1>4, <1>5, <1>6 DEF Links

\* A list that gets a new last: what push() does behind active_head.
LEMMA LinksLast ==
    ASSUME NEW next \in [Process -> Pointer], NEW p, NEW s, Links(next, p, s),
           NEW q \in Process, q \notin Range(s),
           NEW other, other = [x \in Process |-> IF x = q THEN Null
                                                 ELSE IF x = LastOf(s) THEN q ELSE next[x]]
    PROVE  /\ Links(other, IF p = Null THEN q ELSE p, Append(s, q))
           /\ Range(Append(s, q)) = Range(s) \cup {q}
           /\ LastOf(Append(s, q)) = q
<1> DEFINE t == Append(s, q)
<1>1. /\ s \in Seq(Process) /\ IsInjective(s) /\ p = FirstOf(s) /\ Len(s) \in Nat
      /\ \A i \in 1..Len(s) : /\ next[s[i]] = IF i < Len(s) THEN s[i + 1] ELSE Null
                              /\ s[i] \in Range(s) /\ s[i] \in Process /\ s[i] # q
  BY DEF Links, Range
<1>2. /\ t \in Seq(Process) /\ Len(t) = Len(s) + 1 /\ t # <<>> /\ t[Len(s) + 1] = q
      /\ DOMAIN t = 1..(Len(s) + 1) /\ DOMAIN s = 1..Len(s)
      /\ \A i \in 1..Len(s) : t[i] = s[i]
  BY <1>1
<1> HIDE DEF t
<1>3. Range(t) = Range(s) \cup {q}
  <2>1. Range(t) \subseteq Range(s) \cup {q}
    BY <1>1, <1>2 DEF Range
  <2>2. Range(s) \subseteq Range(t)
    BY <1>1, <1>2 DEF Range
  <2>3. q \in Range(t)
    <3>1. Len(s) + 1 \in DOMAIN t
      BY <1>1, <1>2
    <3> QED
      BY <3>1, <1>2 DEF Range
  <2> QED
    BY <2>1, <2>2, <2>3
<1>4. IsInjective(t)
  <2>1. ASSUME NEW i \in 1..(Len(s) + 1), NEW j \in 1..(Len(s) + 1), t[i] = t[j] PROVE i = j
    <3>1. \A x, y \in 1..Len(s) : s[x] = s[y] => x = y
      BY <1>1, <1>2 DEF IsInjective
    <3>2. \A x \in 1..(Len(s) + 1) : x \in 1..Len(s) \/ x = Len(s) + 1
      BY <1>1
    <3> QED
      BY <2>1, <3>1, <3>2, <1>1, <1>2
  <2> QED
    BY <2>1, <1>2 DEF IsInjective
<1>5. (IF p = Null THEN q ELSE p) = FirstOf(t)
  <2>1. CASE s = <<>>
    BY <2>1, <1>1, <1>2 DEF FirstOf
  <2>2. CASE s # <<>>
    <3>1. 1 \in 1..Len(s)
      BY <2>2, <1>1
    <3> QED
      BY <3>1, <2>2, <1>1, <1>2, ProcessListAssumption DEF FirstOf
  <2> QED
    BY <2>1, <2>2
<1>6. ASSUME NEW i \in 1..Len(t)
      PROVE  other[t[i]] = IF i < Len(t) THEN t[i + 1] ELSE Null
  <2>1. CASE i = Len(s) + 1
    BY <2>1, <1>2
  <2>2. CASE i = Len(s)
    <3>1. t[i] = LastOf(s) /\ t[i] \in Process /\ t[i] # q
      BY <2>2, <1>1, <1>2 DEF LastOf
    <3>2. other[t[i]] = q
      BY <3>1
    <3> QED
      BY <3>2, <2>2, <1>1, <1>2
  <2>3. CASE i < Len(s)
    <3>1. i \in 1..Len(s) /\ i + 1 \in 1..Len(s) /\ i # Len(s) /\ Len(s) \in 1..Len(s) /\ s # <<>>
      BY <2>3, <1>1
    <3>2. t[i] = s[i] /\ t[i + 1] = s[i + 1]
      BY <3>1, <1>2
    <3>3. s[i] # LastOf(s)
      BY <3>1, <1>1, <1>2 DEF LastOf, IsInjective
    <3>4. other[t[i]] = next[s[i]]
      BY <3>1, <3>2, <3>3, <1>1
    <3>5. next[s[i]] = s[i + 1]
      BY <3>1, <2>3, <1>1
    <3>6. Len(t) = Len(s) + 1 /\ Len(s) \in Nat
      BY <1>1, <1>2
    <3>7. i < Len(t)
      BY <3>6, <2>3
    <3> QED
      BY <3>2, <3>4, <3>5, <3>7
  <2>4. Len(t) = Len(s) + 1 /\ Len(s) \in Nat
    BY <1>1, <1>2
  <2>5. i = Len(s) + 1 \/ i = Len(s) \/ i < Len(s)
    BY <2>4
  <2> QED
    BY <2>1, <2>2, <2>3, <2>5
<1>7. LastOf(t) = q
  BY <1>2 DEF LastOf
<1> QED
  BY <1>2, <1>3, <1>4, <1>5, <1>6, <1>7 DEF Links, t

\* The next fields when *previous = current->next has been done for q.
Skipped(next, s, q) ==
    [x \in Process |-> IF x \in Range(s) /\ next[x] = q THEN next[q] ELSE next[x]]

\* A list that loses one that is not its first: what wake() does.
LEMMA LinksOut ==
    ASSUME NEW next \in [Process -> Pointer], NEW p, NEW s, Links(next, p, s),
           NEW q \in Range(s), q # p
    PROVE  \E t : Links(Skipped(next, s, q), p, t) /\ Range(t) = Range(s) \ {q}
<1> DEFINE other == [x \in Process |-> IF x \in Range(s) /\ next[x] = q THEN next[q] ELSE next[x]]
<1>1. /\ s \in Seq(Process) /\ IsInjective(s) /\ p = FirstOf(s) /\ Len(s) \in Nat
      /\ \A i \in 1..Len(s) : /\ next[s[i]] = IF i < Len(s) THEN s[i + 1] ELSE Null
                              /\ s[i] \in Range(s) /\ s[i] \in Process /\ s[i] # Null
      /\ DOMAIN s = 1..Len(s)
  BY ProcessListAssumption DEF Links, Range
<1>2. PICK k \in 1..Len(s) : s[k] = q
  BY <1>1 DEF Range
<1>3. k # 1 /\ s # <<>> /\ Len(s) \in Nat \ {0}
  BY <1>1, <1>2 DEF FirstOf
<1> DEFINE t == [j \in 1..(Len(s) - 1) |-> IF j < k THEN s[j] ELSE s[j + 1]]
<1>4. /\ \A j \in 1..(Len(s) - 1) : j + 1 \in 1..Len(s) /\ j \in 1..Len(s)
      /\ Len(s) - 1 \in Nat
  BY <1>3
<1>5. t \in Seq(Process) /\ Len(t) = Len(s) - 1 /\ DOMAIN t = 1..(Len(s) - 1)
  BY <1>1, <1>4
<1>6. \A x, y \in 1..Len(s) : s[x] = s[y] => x = y
  BY <1>1 DEF IsInjective
<1>11. ASSUME NEW j \in 1..Len(t)
       PROVE  /\ t[j] = IF j < k THEN s[j] ELSE s[j + 1]
              /\ t[j] # q /\ t[j] \in Range(s)
  <2>1. /\ j \in 1..Len(s) /\ j + 1 \in 1..Len(s) /\ t[j] = IF j < k THEN s[j] ELSE s[j + 1]
        /\ ~(j < k) => j + 1 # k
    BY <1>2, <1>4, <1>5
  <2> QED
    BY <2>1, <1>1, <1>2, <1>6
<1> HIDE DEF t
<1>7. IsInjective(t)
  <2>1. ASSUME NEW i \in 1..Len(t), NEW j \in 1..Len(t), t[i] = t[j] PROVE i = j
    <3>1. /\ i \in 1..Len(s) /\ i + 1 \in 1..Len(s) /\ j \in 1..Len(s) /\ j + 1 \in 1..Len(s)
      BY <1>4, <1>5
    <3>2. (IF i < k THEN i ELSE i + 1) = (IF j < k THEN j ELSE j + 1)
      BY <3>1, <2>1, <1>6, <1>11
    <3> QED
      BY <3>1, <3>2, <1>2
  <2> QED
    BY <2>1, <1>5 DEF IsInjective
<1>8. p = FirstOf(t)
  BY <1>1, <1>2, <1>3, <1>5, <1>11 DEF FirstOf
<1>9. ASSUME NEW i \in 1..Len(t)
      PROVE  other[t[i]] = IF i < Len(t) THEN t[i + 1] ELSE Null
  <2>1. CASE i + 1 < k
    <3>1. /\ i \in 1..Len(s) /\ i + 1 \in 1..Len(s) /\ i < Len(s) /\ i < k
          /\ i + 1 \in 1..Len(t) /\ i < Len(t)
      BY <2>1, <1>2, <1>4, <1>5
    <3>2. t[i] = s[i] /\ t[i + 1] = s[i + 1] /\ t[i + 1] # q
      BY <3>1, <2>1, <1>11
    <3>3. next[t[i]] = t[i + 1] /\ t[i] \in Process
      BY <3>1, <3>2, <1>1
    <3> QED
      BY <3>1, <3>2, <3>3
  <2>2. CASE i + 1 = k
    <3>1. i \in 1..Len(s) /\ i < Len(s) /\ i < k /\ ~(i + 1 < k)
      BY <2>2, <1>2, <1>4, <1>5
    <3>2. t[i] = s[i] /\ next[s[i]] = q /\ s[i] \in Process /\ s[i] \in Range(s)
      BY <3>1, <2>2, <1>1, <1>2, <1>11
    <3>3. other[t[i]] = next[q]
      BY <3>2
    <3>4. next[q] = IF k < Len(s) THEN s[k + 1] ELSE Null
      BY <1>1, <1>2
    <3>5. (k < Len(s) <=> i < Len(t)) /\ (i < Len(t) => i + 1 \in 1..Len(t))
      BY <2>2, <1>2, <1>4, <1>5
    <3>6. i < Len(t) => t[i + 1] = s[k + 1]
      BY <3>5, <2>2, <3>1, <1>11
    <3> QED
      BY <3>3, <3>4, <3>5, <3>6
  <2>3. CASE i + 1 > k
    <3>1. i + 1 \in 1..Len(s) /\ ~(i < k) /\ (i < Len(t) <=> i + 1 < Len(s))
      BY <2>3, <1>2, <1>4, <1>5
    <3>2. t[i] = s[i + 1] /\ next[t[i]] = IF i + 1 < Len(s) THEN s[(i + 1) + 1] ELSE Null
      BY <3>1, <1>1, <1>11
    <3>3. i < Len(t) => i + 1 \in 1..Len(t) /\ ~(i + 1 < k)
      BY <3>1, <1>2, <1>4, <1>5
    <3>4. i < Len(t) => t[i + 1] = s[(i + 1) + 1] /\ t[i + 1] # q
      BY <3>3, <1>11
    <3>5. next[t[i]] = (IF i < Len(t) THEN t[i + 1] ELSE Null) /\ next[t[i]] # q
      BY <3>1, <3>2, <3>4, <1>1, <1>2
    <3>6. t[i] \in Process
      BY <3>1, <3>2, <1>1
    <3> QED
      BY <3>5, <3>6
  <2> QED
    BY <2>1, <2>2, <2>3, <1>2, <1>4, <1>5
<1>10. Range(t) = Range(s) \ {q}
  <2>1. Range(t) \subseteq Range(s) \ {q}
    BY <1>5, <1>11 DEF Range
  <2>2. ASSUME NEW i \in 1..Len(s), s[i] # q PROVE s[i] \in Range(t)
    <3>1. CASE i < k
      <4>1. i \in 1..Len(t)
        BY <3>1, <1>2, <1>5
      <4> QED
        BY <4>1, <3>1, <1>5, <1>11 DEF Range
    <3>2. CASE i > k
      <4>1. i - 1 \in 1..Len(t) /\ ~(i - 1 < k) /\ (i - 1) + 1 = i
        BY <3>2, <1>2, <1>5
      <4>2. t[i - 1] = s[i]
        BY <4>1, <1>11
      <4> QED
        BY <4>1, <4>2, <1>5 DEF Range
    <3> QED
      BY <3>1, <3>2, <2>2, <1>2
  <2>3. Range(s) \ {q} \subseteq Range(t)
    BY <2>2, <1>1 DEF Range
  <2> QED
    BY <2>1, <2>3
<1>12. Skipped(next, s, q) = other
  BY DEF Skipped
<1> QED
  BY <1>5, <1>7, <1>8, <1>9, <1>10, <1>12 DEF Links

-----------------------------------------------------------------------------
(* All the lists at once, by the places where they start *)

ReadyAt       == <<"active_tail", Null>>
SleepersAt    == <<"inactive_queue", Null>>
FreeAt        == <<"free_processes_head", Null>>
WaitingAt(s)  == <<"sleepers", s>>
Place         == {ReadyAt, SleepersAt, FreeAt} \cup {WaitingAt(s) : s \in Semaphore}

\* The places differ, and there are no others.
LEMMA Places ==
    /\ ReadyAt \in Place /\ SleepersAt \in Place /\ FreeAt \in Place
    /\ ReadyAt # SleepersAt /\ ReadyAt # FreeAt /\ SleepersAt # FreeAt
    /\ \A s \in Semaphore :
          /\ WaitingAt(s) \in Place /\ WaitingAt(s)[2] = s
          /\ WaitingAt(s) # ReadyAt /\ WaitingAt(s) # SleepersAt /\ WaitingAt(s) # FreeAt
    /\ \A i \in Place : \/ i \in {ReadyAt, SleepersAt, FreeAt}
                        \/ i[2] \in Semaphore /\ i = WaitingAt(i[2])
  BY DEF ReadyAt, SleepersAt, FreeAt, WaitingAt, Place

\* Where the list of a place starts.
Start(k, i) == IF i = ReadyAt THEN k.tail
               ELSE IF i = SleepersAt THEN k.top
               ELSE IF i = FreeAt THEN k.free
               ELSE k.sleepers[i[2]]
Starts(k)   == [i \in Place |-> Start(k, i)]

\* The lists L start at these places, and no two of them meet.
Tidy(next, start, L) ==
    /\ next \in [Process -> Pointer]
    /\ start \in [Place -> Pointer]
    /\ L \in [Place -> Seq(Process)]
    /\ \A i \in Place : Links(next, start[i], L[i]) /\ Idle \notin Range(L[i])
    /\ \A i, j \in Place : i # j => Range(L[i]) \cap Range(L[j]) = {}

\* p is on none of the lists.
Loose(p, L) == p \in Process \ {Idle} /\ \A i \in Place : p \notin Range(L[i])

\* The list of one place is replaced, by one that is made of what it held and of
\* what was loose; the next fields in the others' care stay.
LEMMA Replaced ==
    ASSUME NEW next, NEW start, NEW L, Tidy(next, start, L), NEW i \in Place,
           NEW next2 \in [Process -> Pointer], NEW p2 \in Pointer, NEW s2,
           Links(next2, p2, s2),
           \A x \in Range(s2) : x \in Range(L[i]) \/ Loose(x, L),
           \A j \in Place \ {i} : \A x \in Range(L[j]) : next2[x] = next[x]
    PROVE  /\ Tidy(next2, [start EXCEPT ![i] = p2], [L EXCEPT ![i] = s2])
           /\ \A q : Loose(q, L) /\ q \notin Range(s2) => Loose(q, [L EXCEPT ![i] = s2])
<1> DEFINE start2 == [start EXCEPT ![i] = p2]  L2 == [L EXCEPT ![i] = s2]
<1>1. /\ start \in [Place -> Pointer] /\ L \in [Place -> Seq(Process)]
      /\ \A j \in Place : Links(next, start[j], L[j]) /\ Idle \notin Range(L[j])
      /\ \A j, m \in Place : j # m => Range(L[j]) \cap Range(L[m]) = {}
  BY DEF Tidy
<1>2. s2 \in Seq(Process)
  BY DEF Links
<1>3. /\ start2 \in [Place -> Pointer] /\ L2 \in [Place -> Seq(Process)]
      /\ start2[i] = p2 /\ L2[i] = s2
      /\ \A j \in Place \ {i} : start2[j] = start[j] /\ L2[j] = L[j]
  BY <1>1, <1>2
<1> HIDE DEF start2, L2
<1>4. ASSUME NEW j \in Place PROVE Links(next2, start2[j], L2[j]) /\ Idle \notin Range(L2[j])
  <2>1. CASE j = i
    BY <2>1, <1>1, <1>3 DEF Loose
  <2>2. CASE j # i
    BY <2>2, <1>1, <1>3, LinksSame
  <2> QED
    BY <2>1, <2>2
<1>5. ASSUME NEW j \in Place, NEW m \in Place, j # m PROVE Range(L2[j]) \cap Range(L2[m]) = {}
  <2>1. \A n \in Place \ {i} : Range(s2) \cap Range(L[n]) = {}
    BY <1>1 DEF Loose
  <2> QED
    BY <2>1, <1>1, <1>3, <1>5
<1>6. \A q : Loose(q, L) /\ q \notin Range(s2) => Loose(q, L2)
  BY <1>3 DEF Loose
<1>7. Tidy(next2, start2, L2)
  BY <1>3, <1>4, <1>5 DEF Tidy
<1> QED
  BY <1>6, <1>7 DEF start2, L2

-----------------------------------------------------------------------------
(* The kernel's pointers *)

Kernels ==
    [current : Pointer, head : Pointer, tail : Pointer, top : Pointer,
     sleepers : [Semaphore -> Pointer], free : Pointer, next : [Process -> Pointer]]

\* The pointers of k make the lists L, and active_head is the last of the first.
Holds(k, L) ==
    /\ k \in Kernels
    /\ Tidy(k.next, Starts(k), L)
    /\ k.head = LastOf(L[ReadyAt])

\* A step that writes what k2 differs in moves the start of one list.
LEMMA StartMoves ==
    ASSUME NEW k \in Kernels, NEW k2 \in Kernels, NEW i \in Place,
           \A j \in Place \ {i} : Start(k2, j) = Start(k, j)
    PROVE  Starts(k2) = [Starts(k) EXCEPT ![i] = Start(k2, i)]
  BY DEF Starts

\* Each field that starts a list, by its place.
LEMMA StartFields ==
    ASSUME NEW k
    PROVE  /\ Start(k, ReadyAt) = k.tail /\ Start(k, SleepersAt) = k.top /\ Start(k, FreeAt) = k.free
           /\ \A s \in Semaphore : Start(k, WaitingAt(s)) = k.sleepers[s]
           /\ \A i \in Place : Starts(k)[i] = Start(k, i)
  BY Places DEF Start, Starts

\* Every list starts at a process or at NULL.
LEMMA StartType ==
    ASSUME NEW k \in Kernels, NEW i \in Place
    PROVE  Start(k, i) \in Pointer
  BY Places DEF Start, Kernels

\* push() of a loose process puts it at the end of the ready queue.
LEMMA PushHolds ==
    ASSUME NEW k, NEW L, Holds(k, L), NEW p, Loose(p, L)
    PROVE  LET L2 == [L EXCEPT ![ReadyAt] = Append(@, p)] IN
           /\ Holds(Push(k, p), L2) /\ Push(k, p).current = k.current
           /\ \A q : Loose(q, L) /\ q # p => Loose(q, L2)
<1> DEFINE k2 == Push(k, p)  s == L[ReadyAt]  L2 == [L EXCEPT ![ReadyAt] = Append(s, p)]
           other == [q \in Process |-> IF q = p THEN Null ELSE IF q = LastOf(s) THEN p ELSE k.next[q]]
<1>1. k \in Kernels /\ p \in Process /\ p # Null /\ Null \in Pointer
  BY ProcessListAssumption DEF Holds, Loose, Pointer
<1>2. other \in [Process -> Pointer]
  BY <1>1 DEF Kernels, Pointer
<1>3. /\ k2 = [k EXCEPT !.next = other, !.head = p, !.tail = IF @ = Null THEN p ELSE @]
      /\ k.head = LastOf(s)
  BY <1>1 DEF Push, Holds
<1> HIDE DEF k2, other
<1>4. /\ k2 \in Kernels /\ k2.current = k.current /\ k2.next = other /\ k2.head = p
      /\ k2.tail = (IF k.tail = Null THEN p ELSE k.tail)
      /\ k2.top = k.top /\ k2.free = k.free /\ k2.sleepers = k.sleepers
  BY <1>1, <1>2, <1>3 DEF Kernels, Pointer
<1>5. Starts(k2) = [Starts(k) EXCEPT ![ReadyAt] = IF k.tail = Null THEN p ELSE k.tail]
  <2>1. \A j \in Place \ {ReadyAt} : Start(k2, j) = Start(k, j)
    BY <1>4 DEF Start
  <2> QED
    BY <2>1, <1>1, <1>4, StartMoves, StartFields, Places
<1>6. Links(k.next, k.tail, s) /\ Tidy(k.next, Starts(k), L) /\ L \in [Place -> Seq(Process)]
  BY StartFields, Places DEF Holds, Tidy
<1>7. /\ Links(other, IF k.tail = Null THEN p ELSE k.tail, Append(s, p))
      /\ Range(Append(s, p)) = Range(s) \cup {p}
      /\ LastOf(Append(s, p)) = p
  <2>1. k.next \in [Process -> Pointer] /\ p \notin Range(s)
    BY <1>1, Places DEF Kernels, Loose
  <2> QED
    BY <2>1, <1>1, <1>6, LinksLast DEF other
<1>8. ASSUME NEW j \in Place \ {ReadyAt}, NEW x \in Range(L[j]) PROVE other[x] = k.next[x]
  <2>1. x # p /\ x \notin Range(s) /\ x \in Process
    <3>1. L[j] \in Seq(Process)
      BY <1>6
    <3>2. x \in Process
      BY <3>1 DEF Range
    <3> QED
      BY <3>2, <1>6, Places DEF Tidy, Loose
  <2>2. LastOf(s) = Null \/ LastOf(s) \in Range(s)
    <3>1. s \in Seq(Process)
      BY <1>6, Places
    <3>2. s # <<>> => Len(s) \in DOMAIN s
      BY <3>1
    <3> QED
      BY <3>2 DEF LastOf, Range
  <2> QED
    BY <2>1, <2>2, ProcessListAssumption DEF other
<1> DEFINE p2 == IF k.tail = Null THEN p ELSE k.tail  s2 == Append(s, p)
<1>9. /\ Tidy(other, [Starts(k) EXCEPT ![ReadyAt] = p2], [L EXCEPT ![ReadyAt] = s2])
      /\ \A q : Loose(q, L) /\ q \notin Range(s2) => Loose(q, [L EXCEPT ![ReadyAt] = s2])
  <2>1. p2 \in Pointer
    BY <1>1 DEF Kernels, Pointer
  <2>2. \A x \in Range(s2) : x \in Range(L[ReadyAt]) \/ Loose(x, L)
    BY <1>7
  <2>3. Links(other, p2, s2)
    BY <1>7
  <2>4. Tidy(k.next, Starts(k), L) /\ ReadyAt \in Place
    BY <1>6, Places
  <2> HIDE DEF p2, s2
  <2> QED
    BY <2>1, <2>2, <2>3, <2>4, <1>2, <1>8, Replaced
<1>10. \A q : Loose(q, L) => q \notin Range(s)
  BY Places DEF Loose
<1>11. L2[ReadyAt] = Append(s, p)
  BY <1>6, Places
<1>12. Holds(k2, L2)
  BY <1>4, <1>5, <1>7, <1>9, <1>11 DEF Holds
<1> QED
  BY <1>4, <1>7, <1>9, <1>10, <1>12 DEF k2

\* The list of i starts with p.
Begins(k, i, p) == Start(k, i) = p

\* No list but that of i starts elsewhere in k2.
Elsewhere(k, k2, i) == \A j \in Place \ {i} : Start(k2, j) = Start(k, j)

\* The lists when the first of one is taken off, and when p is put first.
Dropped(L, i)     == [L EXCEPT ![i] = Tail(@)]
Headed(L, i, p)   == [L EXCEPT ![i] = <<p>> \o @]
Linked(next, p, q) == [next EXCEPT ![p] = q]

\* The first of a list is taken off it: its own next field stays as it is.
LEMMA TakenFirst ==
    ASSUME NEW k, NEW L, Holds(k, L), NEW i \in Place, Start(k, i) # Null,
           NEW k2 \in Kernels, k2.next = k.next, Start(k2, i) = k.next[Start(k, i)],
           Elsewhere(k, k2, i)
    PROVE  /\ Tidy(k2.next, Starts(k2), Dropped(L, i))
           /\ L[i] # <<>> /\ Start(k, i) = Head(L[i])
           /\ Loose(Start(k, i), Dropped(L, i))
           /\ \A q : Loose(q, L) => Loose(q, Dropped(L, i)) /\ q # Start(k, i)
<1> DEFINE p == Start(k, i)  t == Tail(L[i])  L2 == [L EXCEPT ![i] = t]
<1>1. /\ k \in Kernels /\ Tidy(k.next, Starts(k), L) /\ L \in [Place -> Seq(Process)]
      /\ Links(k.next, p, L[i]) /\ Idle \notin Range(L[i])
      /\ k.next \in [Process -> Pointer]
  BY StartFields DEF Holds, Tidy
<1>2. /\ p \in Process /\ L[i] # <<>> /\ p = Head(L[i])
      /\ Links(k.next, k.next[p], t)
      /\ p \notin Range(t) /\ Range(L[i]) = {p} \cup Range(t)
  BY <1>1, LinksTail
<1>3. Starts(k2) = [Starts(k) EXCEPT ![i] = k.next[p]]
  BY <1>1, StartMoves DEF Elsewhere
<1>0. Dropped(L, i) = L2
  BY DEF Dropped
<1> HIDE DEF p, t
<1>4. /\ Tidy(k.next, [Starts(k) EXCEPT ![i] = k.next[p]], L2)
      /\ \A q : Loose(q, L) /\ q \notin Range(t) => Loose(q, L2)
  <2>1. k.next[p] \in Pointer /\ \A x \in Range(t) : x \in Range(L[i])
    BY <1>1, <1>2
  <2>2. \A j \in Place \ {i} : \A x \in Range(L[j]) : k.next[x] = k.next[x]
    OBVIOUS
  <2>3. [L EXCEPT ![i] = t] = L2
    BY DEF L2
  <2> HIDE DEF L2
  <2> QED
    BY <2>1, <2>2, <2>3, <1>1, <1>2, Replaced
<1>5. Loose(p, L2)
  <2>1. ASSUME NEW j \in Place PROVE p \notin Range(L2[j])
    <3>1. CASE j = i
      BY <3>1, <1>1, <1>2
    <3>2. CASE j # i
      BY <3>2, <1>1, <1>2 DEF Tidy
    <3> QED
      BY <3>1, <3>2
  <2>2. p # Idle
    BY <1>1, <1>2
  <2> QED
    BY <2>1, <2>2, <1>2 DEF Loose
<1>6. \A q : Loose(q, L) => q \notin Range(t) /\ q # p
  BY <1>2 DEF Loose
<1> HIDE DEF L2
<1> QED
  BY <1>0, <1>1, <1>2, <1>3, <1>4, <1>5, <1>6 DEF p, t

\* A process becomes the first of a list.
LEMMA PutFirst ==
    ASSUME NEW k, NEW L, Holds(k, L), NEW i \in Place, NEW p, Loose(p, L),
           NEW k2 \in Kernels, k2.next = Linked(k.next, p, Start(k, i)),
           Begins(k2, i, p), Elsewhere(k, k2, i)
    PROVE  /\ Tidy(k2.next, Starts(k2), Headed(L, i, p))
           /\ Range(Headed(L, i, p)[i]) = {p} \cup Range(L[i])
           /\ \A q : Loose(q, L) /\ q # p => Loose(q, Headed(L, i, p))
<1> DEFINE t == <<p>> \o L[i]  L2 == [L EXCEPT ![i] = t]  v == Start(k, i)
           other == [k.next EXCEPT ![p] = v]
<1>1. /\ k \in Kernels /\ Tidy(k.next, Starts(k), L) /\ L \in [Place -> Seq(Process)]
      /\ Links(k.next, v, L[i])
      /\ k.next \in [Process -> Pointer] /\ p \in Process /\ p \in Pointer
      /\ \A j \in Place : p \notin Range(L[j])
  BY StartFields DEF Holds, Tidy, Loose, Pointer
<1>2. Links(other, p, t) /\ Range(t) = {p} \cup Range(L[i])
  BY <1>1, LinksFirst
<1>3. Starts(k2) = [Starts(k) EXCEPT ![i] = p]
  BY <1>1, StartMoves DEF Elsewhere, Begins
<1>0. Headed(L, i, p) = L2 /\ k2.next = other
  BY DEF Headed, Linked
<1>4. other \in [Process -> Pointer] /\ \A x : x \in Process /\ x # p => other[x] = k.next[x]
  <2>1. v \in Pointer
    BY <1>1, StartType
  <2> QED
    BY <2>1, <1>1
<1>5. ASSUME NEW j \in Place \ {i}, NEW x \in Range(L[j]) PROVE other[x] = k.next[x]
  <2>1. L[j] \in Seq(Process) /\ x # p
    BY <1>1
  <2>2. x \in Process
    BY <2>1 DEF Range
  <2> QED
    BY <2>1, <2>2, <1>4
<1> HIDE DEF t, other, v
<1>6. /\ Tidy(other, [Starts(k) EXCEPT ![i] = p], L2)
      /\ \A q : Loose(q, L) /\ q \notin Range(t) => Loose(q, L2)
  <2>1. \A x \in Range(t) : x \in Range(L[i]) \/ Loose(x, L)
    BY <1>2
  <2>2. [L EXCEPT ![i] = t] = L2
    BY DEF L2
  <2> HIDE DEF L2
  <2> QED
    BY <2>1, <2>2, <1>1, <1>2, <1>4, <1>5, Replaced
<1>7. \A q : Loose(q, L) => q \notin Range(L[i])
  BY DEF Loose
<1>8. L2[i] = t
  BY <1>1
<1> HIDE DEF L2
<1> QED
  BY <1>0, <1>2, <1>3, <1>6, <1>7, <1>8

\* Writing current_process moves no list.
LEMMA CurrentHolds ==
    ASSUME NEW k, NEW L, Holds(k, L), NEW p \in Pointer
    PROVE  Holds([k EXCEPT !.current = p], L) /\ [k EXCEPT !.current = p].current = p
<1> DEFINE k2 == [k EXCEPT !.current = p]
<1>1. k \in Kernels
  BY DEF Holds
<1>2. /\ k2 \in Kernels /\ k2.current = p /\ k2.next = k.next /\ k2.head = k.head
      /\ k2.tail = k.tail /\ k2.top = k.top /\ k2.free = k.free /\ k2.sleepers = k.sleepers
  BY <1>1 DEF Kernels
<1> HIDE DEF k2
<1>3. Starts(k2) = Starts(k)
  BY <1>2 DEF Starts, Start
<1> QED
  BY <1>2, <1>3 DEF Holds, k2

-----------------------------------------------------------------------------
(* What the pointers stand for *)

\* The lists L are tidy and the running process is on none of them.
Settled(k, L) == Holds(k, L) /\ (k.current # Null => Loose(k.current, L))

Runs(k, c) == k.current = c

\* The kernel k stands for c running, r ready and a asleep.
Stands(k, c, r, a) ==
    \E L : /\ Settled(k, L) /\ Runs(k, c)
           /\ L[ReadyAt] = r /\ Range(L[SleepersAt]) = a

\* c comes off the processor to the front of the list of one place.
LEMMA PutAway ==
    ASSUME NEW k, NEW L, Settled(k, L), NEW c, Runs(k, c), c # Null,
           NEW i \in Place, i # ReadyAt,
           NEW k2 \in Kernels, k2.next = Linked(k.next, c, Start(k, i)),
           Begins(k2, i, c), k2.head = k.head, Runs(k2, Null), Elsewhere(k, k2, i)
    PROVE  \E L2 : /\ Settled(k2, L2) /\ L2[ReadyAt] = L[ReadyAt]
                   /\ Range(L2[i]) = Range(L[i]) \cup {c}
                   /\ \A j \in Place \ {i} : L2[j] = L[j]
<1> DEFINE L2 == Headed(L, i, c)
<1>1. Holds(k, L) /\ Loose(c, L)
  BY DEF Settled, Runs
<1>2. Tidy(k2.next, Starts(k2), L2) /\ Range(L2[i]) = {c} \cup Range(L[i])
  BY <1>1, PutFirst
<1>3. \A j \in Place \ {i} : L2[j] = L[j]
  BY <1>1 DEF Headed, Holds, Tidy
<1> HIDE DEF L2
<1>4. L2[ReadyAt] = L[ReadyAt]
  BY <1>3, Places
<1>5. Settled(k2, L2)
  BY <1>1, <1>2, <1>4 DEF Settled, Holds, Runs
<1> QED
  BY <1>2, <1>3, <1>4, <1>5

\* sleep_current_process().
LEMMA SleepStands ==
    ASSUME NEW k, NEW c, NEW r, NEW a, Stands(k, c, r, a), c # Null
    PROVE  Stands(SleepCurrentProcess(k), Null, r, a \cup {c})
<1> DEFINE k2 == SleepCurrentProcess(k)
<1>1. PICK L : Settled(k, L) /\ Runs(k, c) /\ L[ReadyAt] = r /\ Range(L[SleepersAt]) = a
  BY DEF Stands
<1>0. Settled(k, L) /\ Runs(k, c)
  BY <1>1
<1>2. k \in Kernels /\ c \in Process /\ Null \in Pointer
  BY <1>0 DEF Settled, Holds, Loose, Pointer, Runs
<1>3. /\ k2 \in Kernels /\ Runs(k2, Null) /\ k2.next = Linked(k.next, c, k.top)
      /\ k2.top = c /\ k2.head = k.head /\ k2.tail = k.tail /\ k2.free = k.free
      /\ k2.sleepers = k.sleepers
  BY <1>0, <1>2 DEF SleepCurrentProcess, Kernels, Pointer, Linked, Runs
<1> HIDE DEF k2
<1>4. /\ Start(k, SleepersAt) = k.top /\ Begins(k2, SleepersAt, c)
      /\ Elsewhere(k, k2, SleepersAt)
  BY <1>3, Places DEF Start, Elsewhere, Begins
<1>5. PICK L2 : /\ Settled(k2, L2) /\ L2[ReadyAt] = L[ReadyAt]
                /\ Range(L2[SleepersAt]) = Range(L[SleepersAt]) \cup {c}
  BY <1>0, <1>2, <1>3, <1>4, PutAway, Places
<1> QED
  BY <1>1, <1>3, <1>5 DEF Stands, k2

\* wait() that goes to sleep.
LEMMA SleepOneStands ==
    ASSUME NEW k, NEW c, NEW r, NEW a, Stands(k, c, r, a), c # Null, NEW s \in Semaphore
    PROVE  Stands(SleepOne(k, s), Null, r, a)
<1> DEFINE k2 == SleepOne(k, s)  i == WaitingAt(s)
<1>1. PICK L : Settled(k, L) /\ Runs(k, c) /\ L[ReadyAt] = r /\ Range(L[SleepersAt]) = a
  BY DEF Stands
<1>0. Settled(k, L) /\ Runs(k, c)
  BY <1>1
<1>2. k \in Kernels /\ c \in Process /\ Null \in Pointer
  BY <1>0 DEF Settled, Holds, Loose, Pointer, Runs
<1>3. /\ k2 \in Kernels /\ Runs(k2, Null) /\ k2.next = Linked(k.next, c, k.sleepers[s])
      /\ k2.top = k.top /\ k2.head = k.head /\ k2.tail = k.tail /\ k2.free = k.free
      /\ k2.sleepers = [k.sleepers EXCEPT ![s] = c] /\ k.sleepers \in [Semaphore -> Pointer]
  BY <1>0, <1>2 DEF SleepOne, Kernels, Pointer, Linked, Runs
<1> HIDE DEF k2, i
<1>4. /\ Start(k, i) = k.sleepers[s] /\ Begins(k2, i, c)
      /\ i \in Place /\ i # ReadyAt /\ i # SleepersAt
      /\ Elsewhere(k, k2, i)
  <2>1. i \in Place /\ i # ReadyAt /\ i # SleepersAt /\ i # FreeAt /\ i[2] = s
    BY Places DEF i
  <2>2. Start(k, i) = k.sleepers[s] /\ Start(k2, i) = c
    BY <2>1, <1>3 DEF Start
  <2>3. ASSUME NEW j \in Place \ {i} PROVE Start(k2, j) = Start(k, j)
    <3>1. \/ j \in {ReadyAt, SleepersAt, FreeAt}
          \/ j[2] \in Semaphore /\ j[2] # s /\ j \notin {ReadyAt, SleepersAt, FreeAt}
      BY Places DEF i
    <3> QED
      BY <3>1, <1>3 DEF Start
  <2> QED
    BY <2>1, <2>2, <2>3 DEF Elsewhere, Begins
<1>5. PICK L2 : /\ Settled(k2, L2) /\ L2[ReadyAt] = L[ReadyAt]
                /\ \A j \in Place \ {i} : L2[j] = L[j]
  BY <1>0, <1>2, <1>3, <1>4, PutAway
<1>6. L2[SleepersAt] = L[SleepersAt]
  BY <1>4, <1>5, Places
<1> QED
  BY <1>1, <1>3, <1>5, <1>6 DEF Stands, k2

\* free() of the process that exits.
LEMMA FreeStands ==
    ASSUME NEW k, NEW c, NEW r, NEW a, Stands(k, c, r, a), c # Null
    PROVE  Stands(FreeCurrent(k), Null, r, a)
<1> DEFINE k2 == FreeCurrent(k)
<1>1. PICK L : Settled(k, L) /\ Runs(k, c) /\ L[ReadyAt] = r /\ Range(L[SleepersAt]) = a
  BY DEF Stands
<1>0. Settled(k, L) /\ Runs(k, c)
  BY <1>1
<1>2. k \in Kernels /\ c \in Process /\ Null \in Pointer
  BY <1>0 DEF Settled, Holds, Loose, Pointer, Runs
<1>3. /\ k2 \in Kernels /\ Runs(k2, Null) /\ k2.next = Linked(k.next, c, k.free)
      /\ k2.free = c /\ k2.head = k.head /\ k2.tail = k.tail /\ k2.top = k.top
      /\ k2.sleepers = k.sleepers
  BY <1>0, <1>2 DEF FreeCurrent, Kernels, Pointer, Linked, Runs
<1> HIDE DEF k2
<1>4. /\ Start(k, FreeAt) = k.free /\ Begins(k2, FreeAt, c)
      /\ Elsewhere(k, k2, FreeAt)
  BY <1>3, Places DEF Start, Elsewhere, Begins
<1>5. PICK L2 : /\ Settled(k2, L2) /\ L2[ReadyAt] = L[ReadyAt]
                /\ \A j \in Place \ {FreeAt} : L2[j] = L[j]
  BY <1>0, <1>2, <1>3, <1>4, PutAway, Places
<1>6. L2[SleepersAt] = L[SleepersAt]
  BY <1>5, Places
<1> QED
  BY <1>1, <1>3, <1>5, <1>6 DEF Stands, k2

\* The first of a list other than the ready queue comes off it.
LEMMA TakenOff ==
    ASSUME NEW k, NEW L, Settled(k, L), NEW i \in Place, i # ReadyAt, Start(k, i) # Null,
           NEW k2 \in Kernels, k2.next = k.next, Start(k2, i) = k.next[Start(k, i)],
           k2.head = k.head, k2.current = k.current, Elsewhere(k, k2, i)
    PROVE  \E L2 : /\ Settled(k2, L2) /\ Loose(Start(k, i), L2) /\ Start(k, i) # k.current
                   /\ Range(L2[i]) = Range(L[i]) \ {Start(k, i)}
                   /\ Start(k, i) \in Range(L[i])
                   /\ \A j \in Place \ {i} : L2[j] = L[j]
<1> DEFINE p == Start(k, i)  L2 == Dropped(L, i)
<1>1. /\ Holds(k, L) /\ L \in [Place -> Seq(Process)] /\ (k.current # Null => Loose(k.current, L))
      /\ Links(k.next, p, L[i])
  BY StartFields DEF Settled, Holds, Tidy
<1>2. /\ Tidy(k2.next, Starts(k2), L2) /\ Loose(p, L2)
      /\ \A q : Loose(q, L) => Loose(q, L2) /\ q # p
  BY <1>1, TakenFirst
<1>3. p \in Range(L[i]) /\ Range(Tail(L[i])) = Range(L[i]) \ {p}
  BY <1>1, LinksTail
<1>4. L2[i] = Tail(L[i]) /\ \A j \in Place \ {i} : L2[j] = L[j]
  BY <1>1 DEF Dropped
<1> HIDE DEF L2, p
<1>5. L2[ReadyAt] = L[ReadyAt]
  BY <1>4, Places
<1>6. Settled(k2, L2)
  BY <1>1, <1>2, <1>5 DEF Settled, Holds
<1>7. p # k.current
  BY <1>1, <1>2 DEF p
<1> QED
  BY <1>2, <1>3, <1>4, <1>6, <1>7 DEF p

\* push() of a loose process that does not run.
LEMMA PushStands ==
    ASSUME NEW k, NEW L, Settled(k, L), NEW p, Loose(p, L), p # k.current
    PROVE  Stands(Push(k, p), k.current, Append(L[ReadyAt], p), Range(L[SleepersAt]))
<1> DEFINE L2 == [L EXCEPT ![ReadyAt] = Append(@, p)]
<1>1. Holds(k, L) /\ L \in [Place -> Seq(Process)] /\ (k.current # Null => Loose(k.current, L))
  BY DEF Settled, Holds, Tidy
<1>2. /\ Holds(Push(k, p), L2) /\ Push(k, p).current = k.current
      /\ \A q : Loose(q, L) /\ q # p => Loose(q, L2)
  BY <1>1, PushHolds
<1>3. L2[ReadyAt] = Append(L[ReadyAt], p) /\ L2[SleepersAt] = L[SleepersAt]
  BY <1>1, Places
<1> HIDE DEF L2
<1>4. Settled(Push(k, p), L2)
  BY <1>1, <1>2 DEF Settled
<1> QED
  BY <1>2, <1>3, <1>4 DEF Stands, Runs

\* The list of a semaphore starts elsewhere.
LEMMA SemaphoreMoves ==
    ASSUME NEW k \in Kernels, NEW k2 \in Kernels, NEW s \in Semaphore, NEW v,
           k2.sleepers = [k.sleepers EXCEPT ![s] = v],
           k2.tail = k.tail, k2.top = k.top, k2.free = k.free
    PROVE  /\ Elsewhere(k, k2, WaitingAt(s)) /\ Begins(k2, WaitingAt(s), v)
           /\ Start(k, WaitingAt(s)) = k.sleepers[s]
<1>1. k.sleepers \in [Semaphore -> Pointer]
  BY DEF Kernels
<1>2. ASSUME NEW j \in Place \ {WaitingAt(s)} PROVE Start(k2, j) = Start(k, j)
  <2>1. \/ j \in {ReadyAt, SleepersAt, FreeAt}
        \/ j[2] \in Semaphore /\ j[2] # s /\ j \notin {ReadyAt, SleepersAt, FreeAt}
    BY Places
  <2> QED
    BY <2>1, <1>1 DEF Start
<1> QED
  BY <1>1, <1>2, Places DEF Start, Elsewhere, Begins

\* The oldest sleeper of a semaphore comes off its list and is pushed, if there
\* is one.
LEMMA WakeOneStands ==
    ASSUME NEW k, NEW c, NEW r, NEW a, Stands(k, c, r, a), NEW s \in Semaphore
    PROVE  \/ Stands(WakeOne(k, s), c, r, a)
           \/ \E p \in Process \ {Idle} :
                 /\ p \notin {c} \cup Range(r) \cup a
                 /\ Stands(WakeOne(k, s), c, Append(r, p), a)
<1>1. PICK L : Settled(k, L) /\ Runs(k, c) /\ L[ReadyAt] = r /\ Range(L[SleepersAt]) = a
  BY DEF Stands
<1> DEFINE got == k.sleepers[s]  i == WaitingAt(s)
           k2 == [k EXCEPT !.sleepers[s] = k.next[got]]
<1>2. k \in Kernels /\ k.sleepers \in [Semaphore -> Pointer] /\ k.next \in [Process -> Pointer]
  BY <1>1 DEF Settled, Holds, Kernels
<1>3. CASE got = Null
  BY <1>3 DEF WakeOne
<1>4. CASE got # Null
  <2>1. got \in Process
    BY <1>2, <1>4 DEF Pointer
  <2>2. /\ k2 \in Kernels /\ k2.next = k.next /\ k2.head = k.head /\ k2.current = k.current
        /\ k2.sleepers = [k.sleepers EXCEPT ![s] = k.next[got]]
        /\ k2.tail = k.tail /\ k2.top = k.top /\ k2.free = k.free
    BY <1>2, <2>1 DEF Kernels
  <2>3. WakeOne(k, s) = Push(k2, got)
    BY <1>4 DEF WakeOne
  <2> HIDE DEF k2
  <2>4. /\ Elsewhere(k, k2, i) /\ Start(k2, i) = k.next[got] /\ Start(k, i) = got
        /\ i \in Place /\ i # ReadyAt /\ i # SleepersAt
    BY <1>2, <2>2, SemaphoreMoves, Places DEF Begins
  <2> HIDE DEF got, i
  <2>5. /\ Start(k2, i) = k.next[Start(k, i)] /\ Start(k, i) # Null
    BY <1>4, <2>4
  <2>6. PICK L2 : /\ Settled(k2, L2) /\ Loose(Start(k, i), L2) /\ Start(k, i) # k.current
                  /\ \A j \in Place \ {i} : L2[j] = L[j]
    BY <1>1, <2>2, <2>4, <2>5, TakenOff
  <2>7. L2[ReadyAt] = r /\ Range(L2[SleepersAt]) = a
    BY <1>1, <2>4, <2>6, Places
  <2>8. Loose(got, L2) /\ got # k2.current /\ k2.current = c
    BY <1>1, <2>2, <2>4, <2>6 DEF Runs
  <2>9. Stands(Push(k2, got), k2.current, Append(L2[ReadyAt], got), Range(L2[SleepersAt]))
    BY <2>6, <2>8, PushStands
  <2>10. Stands(WakeOne(k, s), c, Append(r, got), a)
    BY <2>3, <2>7, <2>8, <2>9
  <2>11. got \in Process \ {Idle} /\ got \notin {c} \cup Range(r) \cup a
    BY <2>7, <2>8, Places DEF Loose
  <2> QED
    BY <2>10, <2>11
<1> QED
  BY <1>3, <1>4

\* malloc() of a process object: it is on no list, and does not run.
LEMMA MallocSettles ==
    ASSUME NEW k, NEW c, NEW r, NEW a, Stands(k, c, r, a), k.free # Null
    PROVE  \E L : /\ Settled(Malloc(k), L) /\ Runs(Malloc(k), c)
                  /\ L[ReadyAt] = r /\ Range(L[SleepersAt]) = a
                  /\ Loose(k.free, L) /\ k.free # c
<1>1. PICK L : Settled(k, L) /\ Runs(k, c) /\ L[ReadyAt] = r /\ Range(L[SleepersAt]) = a
  BY DEF Stands
<1> DEFINE i == FreeAt  k2 == Malloc(k)
<1>2. k \in Kernels /\ k.next \in [Process -> Pointer] /\ k.free \in Process
  BY <1>1 DEF Settled, Holds, Kernels, Pointer
<1>3. /\ k2 \in Kernels /\ k2.next = k.next /\ k2.head = k.head /\ k2.current = k.current
      /\ k2.free = k.next[k.free]
      /\ k2.tail = k.tail /\ k2.top = k.top /\ k2.sleepers = k.sleepers
  BY <1>2 DEF Kernels, Malloc
<1> HIDE DEF k2
<1>4. /\ Elsewhere(k, k2, i) /\ Start(k2, i) = k.next[Start(k, i)] /\ Start(k, i) = k.free
      /\ i \in Place /\ i # ReadyAt /\ i # SleepersAt
  BY <1>3, Places DEF Start, Elsewhere
<1> HIDE DEF i
<1>5. PICK L2 : /\ Settled(k2, L2) /\ Loose(Start(k, i), L2) /\ Start(k, i) # k.current
                /\ \A j \in Place \ {i} : L2[j] = L[j]
  BY <1>1, <1>3, <1>4, TakenOff
<1>6. L2[ReadyAt] = r /\ Range(L2[SleepersAt]) = a
  BY <1>1, <1>4, <1>5, Places
<1>7. Runs(k2, c) /\ Loose(k.free, L2) /\ k.free # c
  BY <1>1, <1>3, <1>4, <1>5 DEF Runs
<1> QED
  BY <1>5, <1>6, <1>7 DEF k2

\* create_process() that fails takes a process object and no more.
LEMMA MallocStands ==
    ASSUME NEW k, NEW c, NEW r, NEW a, Stands(k, c, r, a), k.free # Null
    PROVE  Stands(Malloc(k), c, r, a)
  BY MallocSettles DEF Stands

\* A new process is pushed.
LEMMA BeginStands ==
    ASSUME NEW k, NEW c, NEW r, NEW a, Stands(k, c, r, a), k.free # Null
    PROVE  \E p \in Process \ {Idle} :
              /\ p \notin {c} \cup Range(r) \cup a
              /\ Stands(Push(Malloc(k), k.free), c, Append(r, p), a)
<1> DEFINE k2 == Malloc(k)
<1>1. PICK L : /\ Settled(k2, L) /\ Runs(k2, c) /\ L[ReadyAt] = r /\ Range(L[SleepersAt]) = a
               /\ Loose(k.free, L) /\ k.free # c
  BY MallocSettles
<1> HIDE DEF k2
<1>2. Stands(Push(k2, k.free), k2.current, Append(L[ReadyAt], k.free), Range(L[SleepersAt]))
  BY <1>1, PushStands DEF Runs
<1>3. k.free \in Process \ {Idle} /\ k.free \notin {c} \cup Range(r) \cup a
  BY <1>1, Places DEF Loose
<1> QED
  BY <1>1, <1>2, <1>3 DEF Runs, k2

\* Walk finds the sleepers.
LEMMA SleepersWalked ==
    ASSUME NEW k, NEW L, Settled(k, L)
    PROVE  /\ Walk(k.next, k.top) = L[SleepersAt]
           /\ Links(k.next, k.top, L[SleepersAt])
<1>1. Links(k.next, Starts(k)[SleepersAt], L[SleepersAt])
  BY Places DEF Settled, Holds, Tidy
<1>2. Links(k.next, k.top, L[SleepersAt])
  BY <1>1, StartFields, Places
<1> QED
  BY <1>2, WalkIs

\* A sleeper behind another is taken out of the list.
LEMMA TakenOut ==
    ASSUME NEW k, NEW L, Settled(k, L), NEW p \in Range(L[SleepersAt]), p # k.top,
           NEW k2, k2 = Unlinked(k, p)
    PROVE  \E L2 : /\ Settled(k2, L2) /\ Loose(p, L2) /\ k2.current = k.current /\ p # k.current
                   /\ L2[ReadyAt] = L[ReadyAt]
                   /\ Range(L2[SleepersAt]) = Range(L[SleepersAt]) \ {p}
<1> DEFINE s == L[SleepersAt]
           other == Skipped(k.next, s, p)
<1>1. /\ k \in Kernels /\ Holds(k, L) /\ Tidy(k.next, Starts(k), L) /\ L \in [Place -> Seq(Process)]
      /\ k.next \in [Process -> Pointer] /\ SleepersAt \in Place /\ ReadyAt \in Place
      /\ ReadyAt # SleepersAt
      /\ \A i, j \in Place : i # j => Range(L[i]) \cap Range(L[j]) = {}
      /\ Idle \notin Range(s)
      /\ k.top \in Pointer
  BY Places DEF Settled, Holds, Tidy, Kernels
<1>2. Walk(k.next, k.top) = s /\ Links(k.next, k.top, s)
  BY SleepersWalked
<1>3. k2 = [k EXCEPT !.next = other]
  BY <1>2 DEF Unlinked, Skipped
<1>4. p \in Process
  <2>1. s \in Seq(Process)
    BY <1>1
  <2> QED
    BY <2>1 DEF Range
<1>5. other \in [Process -> Pointer]
  BY <1>1, <1>4 DEF Skipped
<1>6. PICK t : Links(other, k.top, t) /\ Range(t) = Range(s) \ {p}
  <2>1. PICK n, q : n = k.next /\ q = k.top
    OBVIOUS
  <2>2. n \in [Process -> Pointer] /\ Links(n, q, s) /\ p \in Range(s) /\ p # q
    BY <2>1, <1>1, <1>2
  <2>3. Skipped(n, s, p) = other
    BY <2>1
  <2> HIDE DEF other, s
  <2>4. \E t : Links(Skipped(n, s, p), q, t) /\ Range(t) = Range(s) \ {p}
    BY <2>2, LinksOut
  <2> QED
    BY <2>1, <2>3, <2>4
<1> DEFINE L2 == [L EXCEPT ![SleepersAt] = t]
<1>7. /\ k2 \in Kernels /\ k2.current = k.current /\ k2.next = other /\ k2.head = k.head
      /\ Starts(k2) = Starts(k)
  <2>1. /\ k2 \in Kernels /\ k2.current = k.current /\ k2.next = other /\ k2.head = k.head
        /\ k2.tail = k.tail /\ k2.top = k.top /\ k2.free = k.free /\ k2.sleepers = k.sleepers
    BY <1>1, <1>3, <1>5 DEF Kernels
  <2> QED
    BY <2>1 DEF Starts, Start
<1>8. ASSUME NEW j \in Place \ {SleepersAt}, NEW x \in Range(L[j]) PROVE other[x] = k.next[x]
  <2>1. L[j] \in Seq(Process) /\ x \notin Range(s)
    BY <1>1
  <2>2. x \in Process
    BY <2>1 DEF Range
  <2> QED
    BY <2>1, <2>2 DEF Skipped
<1> HIDE DEF other, s
<1>9. /\ Tidy(other, [Starts(k) EXCEPT ![SleepersAt] = k.top], L2)
      /\ \A q : Loose(q, L) /\ q \notin Range(t) => Loose(q, L2)
  <2>1. \A x \in Range(t) : x \in Range(L[SleepersAt]) \/ Loose(x, L)
    BY <1>6 DEF s
  <2>2. [L EXCEPT ![SleepersAt] = t] = L2
    BY DEF L2
  <2> HIDE DEF L2
  <2> QED
    BY <2>1, <2>2, <1>1, <1>5, <1>6, <1>8, Replaced
<1>10. [Starts(k) EXCEPT ![SleepersAt] = k.top] = Starts(k)
  BY <1>1, StartFields DEF Starts
<1>11. L2[ReadyAt] = L[ReadyAt] /\ L2[SleepersAt] = t /\ \A j \in Place \ {SleepersAt} : L2[j] = L[j]
  BY <1>1
<1> HIDE DEF L2
<1>12. Holds(k2, L2)
  BY <1>1, <1>7, <1>9, <1>10, <1>11 DEF Holds
<1>13. k.current # Null => Loose(k.current, L2) /\ p # k.current
  <2>1. ASSUME k.current # Null PROVE Loose(k.current, L) /\ k.current \notin Range(t) /\ p # k.current
    <3>1. Loose(k.current, L)
      BY <2>1 DEF Settled
    <3> QED
      BY <3>1, <1>1, <1>6 DEF Loose, s
  <2> QED
    BY <2>1, <1>9
<1>14. Settled(k2, L2) /\ p # k.current
  BY <1>4, <1>7, <1>12, <1>13, ProcessListAssumption DEF Settled
<1>15. Loose(p, L2)
  <2>1. ASSUME NEW j \in Place PROVE p \notin Range(L2[j])
    <3>1. CASE j = SleepersAt
      BY <3>1, <1>6, <1>11
    <3>2. CASE j # SleepersAt
      BY <3>2, <1>1, <1>11 DEF s
    <3> QED
      BY <3>1, <3>2
  <2> QED
    BY <2>1, <1>1, <1>4 DEF Loose, s
<1> QED
  BY <1>6, <1>7, <1>11, <1>14, <1>15 DEF s

\* wake() of a sleeper.
LEMMA WakeStands ==
    ASSUME NEW k, NEW c, NEW r, NEW a, Stands(k, c, r, a), NEW p \in a
    PROVE  Stands(WakeProcess(k, p), c, Append(r, p), a \ {p})
<1>1. PICK L : Settled(k, L) /\ Runs(k, c) /\ L[ReadyAt] = r /\ Range(L[SleepersAt]) = a
  BY DEF Stands
<1> DEFINE k2 == Unlinked(k, p)
<1>2. WakeProcess(k, p) = Push(k2, p)
  BY <1>1, SleepersWalked DEF WakeProcess
<1>3. \E L2 : /\ Settled(k2, L2) /\ Loose(p, L2) /\ k2.current = k.current /\ p # k.current
              /\ L2[ReadyAt] = L[ReadyAt]
              /\ Range(L2[SleepersAt]) = Range(L[SleepersAt]) \ {p}
  <2>1. CASE p = k.top
    <3>1. k \in Kernels /\ k.next \in [Process -> Pointer]
      BY <1>1 DEF Settled, Holds, Kernels
    <3>2. p \in Process
      <4>1. L[SleepersAt] \in Seq(Process)
        BY <1>1, Places DEF Settled, Holds, Tidy
      <4> QED
        BY <4>1, <1>1 DEF Range
    <3>3. /\ k2 \in Kernels /\ k2.next = k.next /\ k2.head = k.head /\ k2.current = k.current
          /\ k2.top = k.next[k.top]
          /\ k2.tail = k.tail /\ k2.free = k.free /\ k2.sleepers = k.sleepers
      BY <3>1, <3>2, <2>1 DEF Kernels, Unlinked
    <3> HIDE DEF k2
    <3>4. /\ Elsewhere(k, k2, SleepersAt) /\ Start(k, SleepersAt) = k.top
          /\ Start(k2, SleepersAt) = k.next[Start(k, SleepersAt)]
          /\ SleepersAt \in Place /\ ReadyAt \in Place \ {SleepersAt}
      BY <3>3, Places DEF Start, Elsewhere
    <3>5. Start(k, SleepersAt) # Null
      BY <2>1, <3>2, <3>4, ProcessListAssumption
    <3>6. PICK L2 : /\ Settled(k2, L2) /\ Loose(Start(k, SleepersAt), L2)
                    /\ Start(k, SleepersAt) # k.current
                    /\ Range(L2[SleepersAt]) = Range(L[SleepersAt]) \ {Start(k, SleepersAt)}
                    /\ \A j \in Place \ {SleepersAt} : L2[j] = L[j]
      BY <1>1, <3>3, <3>4, <3>5, TakenOff
    <3> QED
      BY <2>1, <3>3, <3>4, <3>6
  <2>2. CASE p # k.top
    BY <1>1, <2>2, TakenOut
  <2> QED
    BY <2>1, <2>2
<1> HIDE DEF k2
<1>4. PICK L2 : /\ Settled(k2, L2) /\ Loose(p, L2) /\ k2.current = k.current /\ p # k.current
                /\ L2[ReadyAt] = L[ReadyAt]
                /\ Range(L2[SleepersAt]) = Range(L[SleepersAt]) \ {p}
  BY <1>3
<1>5. Stands(Push(k2, p), k2.current, Append(L2[ReadyAt], p), Range(L2[SleepersAt]))
  BY <1>4, PushStands
<1> QED
  BY <1>1, <1>2, <1>4, <1>5 DEF Runs

\* wake() of a process that does not sleep.
LEMMA WakeNobody ==
    ASSUME NEW k, NEW c, NEW r, NEW a, Stands(k, c, r, a), NEW p, p \notin a
    PROVE  WakeProcess(k, p) = k
  BY SleepersWalked DEF WakeProcess, Stands

\* clear() forgets the sleepers of a semaphore.
LEMMA ClearStands ==
    ASSUME NEW k, NEW c, NEW r, NEW a, Stands(k, c, r, a), NEW s \in Semaphore
    PROVE  Stands([k EXCEPT !.sleepers[s] = Null], c, r, a)
<1>1. PICK L : Settled(k, L) /\ Runs(k, c) /\ L[ReadyAt] = r /\ Range(L[SleepersAt]) = a
  BY DEF Stands
<1> DEFINE i == WaitingAt(s)  k2 == [k EXCEPT !.sleepers[s] = Null]  L2 == [L EXCEPT ![i] = <<>>]
<1>2. /\ k \in Kernels /\ k.sleepers \in [Semaphore -> Pointer] /\ k.next \in [Process -> Pointer]
      /\ Tidy(k.next, Starts(k), L) /\ L \in [Place -> Seq(Process)]
  BY <1>1 DEF Settled, Holds, Kernels, Tidy
<1>3. /\ k2 \in Kernels /\ k2.next = k.next /\ k2.head = k.head /\ k2.current = k.current
      /\ k2.sleepers = [k.sleepers EXCEPT ![s] = Null]
      /\ k2.tail = k.tail /\ k2.top = k.top /\ k2.free = k.free
  BY <1>2 DEF Kernels, Pointer
<1> HIDE DEF k2
<1>4. i \in Place /\ i # ReadyAt /\ i # SleepersAt
  BY Places
<1>5. Starts(k2) = [Starts(k) EXCEPT ![i] = Null]
  <2>1. Elsewhere(k, k2, i) /\ Begins(k2, i, Null)
    BY <1>2, <1>3, SemaphoreMoves
  <2>2. Start(k2, i) = Null
    BY <2>1 DEF Begins
  <2> QED
    BY <2>1, <2>2, <1>2, <1>3, <1>4, StartMoves DEF Elsewhere
<1>6. Links(k.next, Null, <<>>) /\ Range(<<>>) = {}
  BY DEF Links, FirstOf, Range, IsInjective
<1> HIDE DEF i
<1>7. /\ Tidy(k.next, [Starts(k) EXCEPT ![i] = Null], L2)
      /\ \A q : Loose(q, L) /\ q \notin Range(<<>>) => Loose(q, L2)
  <2>1. Null \in Pointer /\ \A x \in Range(<<>>) : x \in Range(L[i]) \/ Loose(x, L)
    BY <1>6 DEF Pointer
  <2>2. \A j \in Place \ {i} : \A x \in Range(L[j]) : k.next[x] = k.next[x]
    OBVIOUS
  <2>3. [L EXCEPT ![i] = <<>>] = L2
    BY DEF L2
  <2> HIDE DEF L2
  <2> QED
    BY <2>1, <2>2, <2>3, <1>2, <1>4, <1>6, Replaced
<1>8. L2[ReadyAt] = L[ReadyAt] /\ L2[SleepersAt] = L[SleepersAt]
  BY <1>2, <1>4, Places
<1> HIDE DEF L2
<1>9. Settled(k2, L2)
  BY <1>1, <1>3, <1>5, <1>6, <1>7, <1>8 DEF Settled, Holds
<1> QED
  BY <1>1, <1>3, <1>8, <1>9 DEF Stands, Runs, k2

\* The queue as push() leaves it when the running process goes behind it.
Rejoined(c, r) == IF c = Null THEN r ELSE Append(r, c)

\* Whom pull() answers, and what it leaves.
HeadOf(q) == IF q = <<>> THEN Null ELSE Head(q)
RestOf(q) == IF q = <<>> THEN <<>> ELSE Tail(q)

\* The last of a list is the last of what follows its first, if anything does.
LEMMA LastOfTail ==
    ASSUME NEW s \in Seq(Process), s # <<>>
    PROVE  LastOf(Tail(s)) = IF Tail(s) = <<>> THEN Null ELSE LastOf(s)
<1>1. CASE Tail(s) = <<>>
  BY <1>1 DEF LastOf
<1>2. CASE Tail(s) # <<>>
  <2>0. Tail(s) \in Seq(Process) /\ Len(Tail(s)) = Len(s) - 1
    OBVIOUS
  <2>1. Len(s) \in Nat /\ Len(Tail(s)) = Len(s) - 1 /\ Len(Tail(s)) # 0
    BY <1>2, <2>0, EmptySeq
  <2>2. Len(Tail(s)) \in 1..Len(Tail(s))
    BY <2>1
  <2>3. Tail(s)[Len(Tail(s))] = s[Len(Tail(s)) + 1]
    BY <2>2
  <2>4. Len(Tail(s)) + 1 = Len(s)
    BY <2>1
  <2> QED
    BY <1>2, <2>3, <2>4 DEF LastOf
<1> QED
  BY <1>1, <1>2

\* current_process = pull().
LEMMA PullStands ==
    ASSUME NEW k, NEW L, Holds(k, L)
    PROVE  Stands(Pull(k), HeadOf(L[ReadyAt]), RestOf(L[ReadyAt]), Range(L[SleepersAt]))
<1> DEFINE r == L[ReadyAt]  k2 == Pull(k)
<1>1. /\ k \in Kernels /\ L \in [Place -> Seq(Process)] /\ k.next \in [Process -> Pointer]
      /\ Links(k.next, k.tail, r) /\ r \in Seq(Process) /\ Null \in Pointer
      /\ ReadyAt \in Place /\ SleepersAt \in Place /\ ReadyAt # SleepersAt
      /\ k.head = LastOf(r)
  BY Places, StartFields DEF Holds, Tidy, Pointer
<1>2. k.tail = FirstOf(r) /\ (r # <<>> => r[1] \in Process /\ Head(r) = r[1])
  BY <1>1 DEF Links
<1>3. CASE k.tail = Null
  <2>1. r = <<>>
    BY <1>2, <1>3, ProcessListAssumption DEF FirstOf
  <2>2. Holds(k2, L) /\ k2.current = Null
    BY <1>1, <1>3, CurrentHolds DEF Pull
  <2> HIDE DEF k2
  <2>3. Settled(k2, L) /\ Runs(k2, Null)
    BY <2>2 DEF Settled, Runs
  <2> QED
    BY <2>1, <2>3 DEF Stands, HeadOf, RestOf, k2
<1>4. CASE k.tail # Null
  <2>1. r # <<>> /\ k.tail \in Process
    BY <1>2, <1>4 DEF FirstOf
  <2>2. /\ k2 \in Kernels /\ k2.next = k.next /\ k2.current = k.tail /\ k2.tail = k.next[k.tail]
        /\ k2.head = (IF k.next[k.tail] = Null THEN Null ELSE k.head)
        /\ k2.top = k.top /\ k2.free = k.free /\ k2.sleepers = k.sleepers
    BY <1>1, <1>4, <2>1 DEF Pull, Kernels, Pointer
  <2> HIDE DEF k2
  <2>3. /\ Elsewhere(k, k2, ReadyAt) /\ Start(k, ReadyAt) = k.tail
        /\ Start(k2, ReadyAt) = k.next[Start(k, ReadyAt)]
    BY <2>2, Places DEF Start, Elsewhere
  <2>4. Start(k, ReadyAt) # Null
    BY <2>3, <1>4
  <2> DEFINE L2 == Dropped(L, ReadyAt)
  <2>5. /\ Tidy(k2.next, Starts(k2), L2) /\ k.tail = Head(r) /\ Loose(k.tail, L2)
    <3>1. /\ Tidy(k2.next, Starts(k2), L2) /\ Start(k, ReadyAt) = Head(L[ReadyAt])
          /\ Loose(Start(k, ReadyAt), L2)
      BY <1>1, <2>2, <2>3, <2>4, TakenFirst
    <3> QED
      BY <3>1, <2>3
  <2>6. L2[ReadyAt] = Tail(r) /\ L2[SleepersAt] = L[SleepersAt]
    BY <1>1 DEF Dropped
  <2> HIDE DEF L2
  <2>7. k.next[k.tail] = FirstOf(Tail(r))
    <3>1. Links(k.next, k.next[k.tail], Tail(r))
      BY <1>1, <1>4, LinksTail
    <3> QED
      BY <3>1 DEF Links
  <2>8. k2.head = LastOf(L2[ReadyAt])
    <3>1. k.next[k.tail] = Null <=> Tail(r) = <<>>
      <4>1. Tail(r) # <<>> => Tail(r)[1] \in Process
        BY <1>1, <2>1
      <4> QED
        BY <4>1, <2>7, ProcessListAssumption DEF FirstOf
    <3>2. LastOf(Tail(r)) = IF Tail(r) = <<>> THEN Null ELSE LastOf(r)
      BY <1>1, <2>1, LastOfTail
    <3> QED
      BY <3>1, <3>2, <1>1, <2>2, <2>6
  <2>9. Settled(k2, L2) /\ Runs(k2, Head(r))
    BY <2>2, <2>5, <2>8 DEF Settled, Holds, Runs
  <2>10. HeadOf(r) = Head(r) /\ RestOf(r) = Tail(r)
    BY <2>1 DEF HeadOf, RestOf
  <2> HIDE DEF r
  <2>11. Stands(k2, Head(r), Tail(r), Range(L[SleepersAt]))
    BY <2>6, <2>9 DEF Stands
  <2> QED
    BY <2>10, <2>11 DEF k2, r
<1> QED
  BY <1>3, <1>4

\* context_switch(): the running process goes behind the ready queue, and the
\* first of the queue runs.
LEMMA SwitchStands ==
    ASSUME NEW k, NEW c, NEW r, NEW a, Stands(k, c, r, a)
    PROVE  Stands(GetNextProcess(k), HeadOf(Rejoined(c, r)), RestOf(Rejoined(c, r)), a)
<1>1. PICK L : Settled(k, L) /\ Runs(k, c) /\ L[ReadyAt] = r /\ Range(L[SleepersAt]) = a
  BY DEF Stands
<1>2. CASE c = Null
  <2>1. GetNextProcess(k) = Pull(k) /\ Rejoined(c, r) = r
    BY <1>1, <1>2, ProcessListAssumption DEF GetNextProcess, Push, Rejoined, Runs
  <2> QED
    BY <2>1, <1>1, PullStands DEF Settled
<1>3. CASE c # Null
  <2>1. Holds(k, L) /\ Loose(c, L) /\ k.current = c /\ L \in [Place -> Seq(Process)]
    BY <1>1, <1>3 DEF Settled, Runs, Holds, Tidy
  <2> DEFINE L2 == [L EXCEPT ![ReadyAt] = Append(@, c)]
  <2>2. GetNextProcess(k) = Pull(Push(k, c)) /\ Rejoined(c, r) = Append(r, c)
    BY <2>1, <1>3 DEF GetNextProcess, Rejoined, Loose
  <2>3. Holds(Push(k, c), L2)
    BY <2>1, PushHolds
  <2>4. L2[ReadyAt] = Append(r, c) /\ L2[SleepersAt] = L[SleepersAt]
    BY <1>1, <2>1, Places
  <2> HIDE DEF L2
  <2> QED
    BY <1>1, <2>2, <2>3, <2>4, PullStands
<1> QED
  BY <1>2, <1>3

-----------------------------------------------------------------------------
(* The initial state *)

\* What a list built in one go links each member to.
LEMMA AfterIs ==
    ASSUME NEW s \in Seq(Process), IsInjective(s), NEW i \in 1..Len(s)
    PROVE  After(s, s[i]) = IF i < Len(s) THEN s[i + 1] ELSE Null
<1> DEFINE j == CHOOSE m \in 1..Len(s) : s[m] = s[i]
<1>1. Len(s) \in Nat /\ DOMAIN s = 1..Len(s)
  OBVIOUS
<1>2. j = i
  <2>1. j \in 1..Len(s) /\ s[j] = s[i]
    OBVIOUS
  <2> HIDE DEF j
  <2> QED
    BY <2>1, <1>1 DEF IsInjective
<1>3. After(s, s[i]) = FirstOf(SubSeq(s, 1 + i, Len(s)))
  BY <1>2 DEF After
<1> DEFINE u == SubSeq(s, 1 + i, Len(s))
<1>4. CASE i < Len(s)
  <2>1. Len(u) = Len(s) - i /\ u[1] = s[i + 1] /\ Len(u) # 0
    BY <1>1, <1>4
  <2> HIDE DEF u
  <2>2. u # <<>>
    BY <2>1, EmptySeq
  <2> QED
    BY <1>3, <1>4, <2>1, <2>2 DEF FirstOf, u
<1>5. CASE ~(i < Len(s))
  <2>1. u = <<>>
    BY <1>1, <1>5
  <2> QED
    BY <1>3, <1>5, <2>1 DEF FirstOf
<1> QED
  BY <1>4, <1>5

\* The threads of reset() and the objects left share nothing, and are all there is.
LEMMA BootAndSpare ==
    /\ IsInjective(Boot) /\ IsInjective(Spare)
    /\ Range(Boot) \cap Range(Spare) = {}
    /\ Range(Boot) \cup Range(Spare) = Process \ {Idle}
    /\ FirstOf(Boot \o Spare) \in Pointer
<1> DEFINE all == Boot \o Spare
<1>1. Boot \in Seq(Process) /\ Spare \in Seq(Process) /\ Len(Boot) \in Nat /\ Len(Spare) \in Nat
  BY ProcessListAssumption
<1>2. /\ all \in Seq(Process) /\ Len(all) = Len(Boot) + Len(Spare)
      /\ \A i \in 1..Len(Boot) : all[i] = Boot[i] /\ i \in 1..Len(all)
      /\ \A i \in 1..Len(Spare) : all[Len(Boot) + i] = Spare[i] /\ Len(Boot) + i \in 1..Len(all)
      /\ \A i \in 1..Len(all) : i \notin 1..Len(Boot) =>
            i - Len(Boot) \in 1..Len(Spare) /\ Len(Boot) + (i - Len(Boot)) = i
      /\ DOMAIN all = 1..Len(all) /\ DOMAIN Boot = 1..Len(Boot) /\ DOMAIN Spare = 1..Len(Spare)
  BY <1>1
<1>3. \A i, j \in 1..Len(all) : all[i] = all[j] => i = j
  BY <1>2, ProcessListAssumption DEF IsInjective
<1>4. Range(all) = Process \ {Idle}
  BY ProcessListAssumption
<1>8. FirstOf(all) \in Pointer
  <2>1. all # <<>> => all[1] \in Process
    BY <1>2
  <2> QED
    BY <2>1 DEF FirstOf, Pointer
<1> HIDE DEF all
<1>5. ASSUME NEW i \in 1..Len(Boot), NEW j \in 1..Len(Boot), Boot[i] = Boot[j] PROVE i = j
  BY <1>2, <1>3, <1>5
<1>6. ASSUME NEW i \in 1..Len(Spare), NEW j \in 1..Len(Spare), Spare[i] = Spare[j] PROVE i = j
  <2>1. Len(Boot) + i = Len(Boot) + j
    BY <1>2, <1>3, <1>6
  <2> QED
    BY <2>1, <1>1
<1>7. ASSUME NEW i \in 1..Len(Boot), NEW j \in 1..Len(Spare), Boot[i] = Spare[j] PROVE FALSE
  <2>1. i = Len(Boot) + j
    BY <1>2, <1>3, <1>7
  <2> QED
    BY <2>1, <1>1
<1>9. Range(all) \subseteq Range(Boot) \cup Range(Spare)
  <2>1. ASSUME NEW i \in 1..Len(all) PROVE all[i] \in Range(Boot) \cup Range(Spare)
    <3>1. CASE i \in 1..Len(Boot)
      BY <3>1, <1>2 DEF Range
    <3>2. CASE i \notin 1..Len(Boot)
      <4>1. all[i] = Spare[i - Len(Boot)] /\ i - Len(Boot) \in DOMAIN Spare
        BY <3>2, <1>2
      <4> QED
        BY <4>1 DEF Range
    <3> QED
      BY <3>1, <3>2
  <2> QED
    BY <2>1, <1>2 DEF Range
<1>10. Range(Boot) \subseteq Range(all)
  BY <1>2 DEF Range
<1>11. Range(Spare) \subseteq Range(all)
  BY <1>2 DEF Range
<1>12. IsInjective(Boot) /\ IsInjective(Spare)
  BY <1>2, <1>5, <1>6 DEF IsInjective
<1>13. Range(Boot) \cap Range(Spare) = {}
  BY <1>2, <1>7 DEF Range
<1> QED
  BY <1>4, <1>8, <1>9, <1>10, <1>11, <1>12, <1>13 DEF all

\* The list that reset() makes of s.
LEMMA BuiltList ==
    ASSUME NEW s \in Seq(Process), IsInjective(s), NEW next,
           \A p \in Range(s) : next[p] = After(s, p)
    PROVE  Links(next, FirstOf(s), s)
<1>1. ASSUME NEW i \in 1..Len(s) PROVE next[s[i]] = IF i < Len(s) THEN s[i + 1] ELSE Null
  <2>1. s[i] \in Range(s)
    BY DEF Range
  <2> QED
    BY <2>1, AfterIs
<1> QED
  BY <1>1 DEF Links

\* process_allocator.initialise() and reset() leave tidy lists.
LEMMA InitStands == Init => Stands(kernel, Null, Boot, {})
<1> SUFFICES ASSUME Init PROVE Stands(kernel, Null, Boot, {})
  OBVIOUS
<1> DEFINE L == [i \in Place |-> IF i = ReadyAt THEN Boot ELSE IF i = FreeAt THEN Spare ELSE <<>>]
           n == [p \in Process |-> IF p = Idle THEN FirstOf(Boot \o Spare)
                                   ELSE IF p \in Range(Boot) THEN After(Boot, p)
                                   ELSE After(Spare, p)]
<1>1. /\ Boot \in Seq(Process) /\ Spare \in Seq(Process) /\ Null \in Pointer
      /\ DOMAIN Boot = 1..Len(Boot) /\ DOMAIN Spare = 1..Len(Spare)
  BY ProcessListAssumption DEF Pointer
<1>2. ASSUME NEW s \in Seq(Process), IsInjective(s)
      PROVE  /\ FirstOf(s) \in Pointer /\ LastOf(s) \in Pointer
             /\ \A p \in Range(s) : After(s, p) \in Pointer
  <2>1. ASSUME NEW i \in 1..Len(s) PROVE After(s, s[i]) \in Pointer
    <3>1. i < Len(s) => s[i + 1] \in Process
      OBVIOUS
    <3> QED
      BY <3>1, <1>2, AfterIs DEF Pointer
  <2>2. s # <<>> => s[1] \in Process /\ s[Len(s)] \in Process
    OBVIOUS
  <2> QED
    BY <2>1, <2>2 DEF FirstOf, LastOf, Pointer, Range
<1>3. /\ FirstOf(Boot) \in Pointer /\ LastOf(Boot) \in Pointer /\ FirstOf(Spare) \in Pointer
      /\ \A p \in Range(Boot) : After(Boot, p) \in Pointer
      /\ \A p \in Range(Spare) : After(Spare, p) \in Pointer
  BY <1>1, <1>2, BootAndSpare
<1>4. n \in [Process -> Pointer]
  <2>1. ASSUME NEW p \in Process PROVE n[p] \in Pointer
    BY <1>3, BootAndSpare
  <2> QED
    BY <2>1
<1>5. Links(n, FirstOf(Boot), Boot)
  <2>1. \A p \in Range(Boot) : n[p] = After(Boot, p)
    BY BootAndSpare
  <2> HIDE DEF n
  <2> QED
    BY <2>1, <1>1, BootAndSpare, BuiltList
<1>6. Links(n, FirstOf(Spare), Spare)
  <2>1. \A p \in Range(Spare) : n[p] = After(Spare, p)
    BY BootAndSpare
  <2> HIDE DEF n
  <2> QED
    BY <2>1, <1>1, BootAndSpare, BuiltList
<1>7. Links(n, Null, <<>>) /\ Range(<<>>) = {}
  BY DEF Links, FirstOf, Range, IsInjective
<1>8. /\ kernel.current = Null /\ kernel.head = LastOf(Boot) /\ kernel.tail = FirstOf(Boot)
      /\ kernel.top = Null /\ kernel.sleepers = [s \in Semaphore |-> Null]
      /\ kernel.free = FirstOf(Spare) /\ kernel.next = n
  BY DEF Init
<1>9. kernel \in Kernels
  <2>1. [s \in Semaphore |-> Null] \in [Semaphore -> Pointer]
    BY <1>1
  <2> HIDE DEF n
  <2> QED
    BY <2>1, <1>1, <1>3, <1>4 DEF Init, Kernels, n
<1> HIDE DEF n
<1>10. /\ L \in [Place -> Seq(Process)] /\ L[ReadyAt] = Boot /\ L[FreeAt] = Spare
       /\ \A i \in Place : i # ReadyAt /\ i # FreeAt => L[i] = <<>>
  <2>1. <<>> \in Seq(Process)
    OBVIOUS
  <2> QED
    BY <2>1, <1>1, Places
<1> HIDE DEF L
<1>11. ASSUME NEW i \in Place
       PROVE  Start(kernel, i) \in Pointer /\ Links(n, Start(kernel, i), L[i]) /\ Idle \notin Range(L[i])
  <2>1. CASE i = ReadyAt
    BY <2>1, <1>3, <1>5, <1>8, <1>10, StartFields, BootAndSpare
  <2>2. CASE i = FreeAt
    BY <2>2, <1>3, <1>6, <1>8, <1>10, StartFields, BootAndSpare
  <2>3. CASE i # ReadyAt /\ i # FreeAt
    <3>1. Start(kernel, i) = Null
      BY <2>3, <1>8, Places DEF Start
    <3> QED
      BY <3>1, <2>3, <1>1, <1>7, <1>10
  <2> QED
    BY <2>1, <2>2, <2>3
<1>12. ASSUME NEW i \in Place, NEW j \in Place, i # j PROVE Range(L[i]) \cap Range(L[j]) = {}
  BY <1>7, <1>10, <1>12, BootAndSpare
<1>13. Tidy(n, Starts(kernel), L)
  BY <1>4, <1>10, <1>11, <1>12 DEF Tidy, Starts
<1>14. Settled(kernel, L) /\ Runs(kernel, Null)
  BY <1>8, <1>9, <1>10, <1>13 DEF Settled, Holds, Runs
<1>15. L[SleepersAt] = <<>>
  BY <1>10, Places
<1> QED
  BY <1>7, <1>10, <1>14, <1>15 DEF Stands

-----------------------------------------------------------------------------
(* The kernel entries *)

\* The lists that the queues of Dispatcher.tla are made of.
LEMMA StandsFor ==
    ASSUME NEW k, NEW c, NEW r, NEW a, Stands(k, c, r, a)
    PROVE  /\ k.current = c /\ Walk(k.next, k.tail) = r /\ Range(Walk(k.next, k.top)) = a
           /\ c # Idle /\ (c # Null => c \in Process)
<1>1. PICK L : Settled(k, L) /\ Runs(k, c) /\ L[ReadyAt] = r /\ Range(L[SleepersAt]) = a
  BY DEF Stands
<1>2. Links(k.next, Starts(k)[ReadyAt], L[ReadyAt])
  BY <1>1, Places DEF Settled, Holds, Tidy
<1>3. Walk(k.next, k.tail) = r
  BY <1>1, <1>2, Places, StartFields, WalkIs
<1>4. Walk(k.next, k.top) = L[SleepersAt]
  BY <1>1, SleepersWalked
<1>5. c # Idle /\ (c # Null => c \in Process)
  BY <1>1, ProcessListAssumption DEF Settled, Loose, Runs
<1> QED
  BY <1>1, <1>3, <1>4, <1>5 DEF Runs

\* The ready queue is a sequence of processes.
LEMMA StandsType ==
    ASSUME NEW k, NEW c, NEW r, NEW a, Stands(k, c, r, a)
    PROVE  r \in Seq(Process)
  BY Places DEF Stands, Settled, Holds, Tidy

\* Whoever is on a list, or has been put behind it.
LEMMA RangeAppend ==
    ASSUME NEW s \in Seq(Process), NEW p
    PROVE  Range(Append(s, p)) = Range(s) \cup {p}
<1> DEFINE t == Append(s, p)
<1>1. /\ Len(s) \in Nat /\ DOMAIN t = 1..(Len(s) + 1) /\ DOMAIN s = 1..Len(s)
      /\ t[Len(s) + 1] = p /\ \A i \in 1..Len(s) : t[i] = s[i]
  OBVIOUS
<1> HIDE DEF t
<1>2. Range(t) \subseteq Range(s) \cup {p}
  BY <1>1 DEF Range
<1>3. Range(s) \subseteq Range(t)
  BY <1>1 DEF Range
<1>4. p \in Range(t)
  <2>1. Len(s) + 1 \in DOMAIN t
    BY <1>1
  <2> QED
    BY <2>1, <1>1 DEF Range
<1> QED
  BY <1>2, <1>3, <1>4 DEF t

\* The kernel entry has left the queue q for pull(), and a asleep.
Lands(q, a) == Stands(kernel', HeadOf(q), RestOf(q), a)

\* The switch that ends an entry is the context switch of Dispatcher.tla.
LEMMA LandsSwitch ==
    ASSUME NEW p, NEW r, NEW a, p # Idle, Lands(Rejoined(p, r), a)
    PROVE  Queues!ContextSwitch(p, r) /\ Range(Walk(kernel.next, kernel.top))' = a
<1> DEFINE q == Rejoined(p, r)
<1>1. Queues!Requeue(r, p) = q
  BY DEF Queues!Requeue, Rejoined
<1>2. /\ kernel'.current = HeadOf(q) /\ Walk(kernel'.next, kernel'.tail) = RestOf(q)
      /\ Range(Walk(kernel'.next, kernel'.top)) = a
  BY StandsFor DEF Lands
<1> HIDE DEF q
<1> QED
  BY <1>1, <1>2 DEF Queues!ContextSwitch, HeadOf, RestOf, ReadyList

\* Every entry leaves lists that are as tidy, and does to the queues what one
\* of the entries of Dispatcher.tla does.
LEMMA EntryStands ==
    ASSUME NEW c, NEW r, NEW a, Stands(kernel, c, r, a), Next
    PROVE  (\E q, b : Lands(q, b)) /\ Queues!QueueNext
<1>0. /\ kernel.current = c /\ ReadyList = r /\ Range(Walk(kernel.next, kernel.top)) = a
      /\ c # Idle /\ Null # Idle /\ (c # Null => c \in Process)
      /\ \A x : Rejoined(Null, x) = x
  BY StandsFor, ProcessListAssumption DEF ReadyList, Rejoined
<1> DEFINE P == (\E q, b : Lands(q, b)) /\ Queues!QueueNext
<1>s. Queues!Scheduled = ({c} \ {Null}) \cup Range(r) \cup a
  BY <1>0 DEF Queues!Scheduled, Queues!Ready, Queues!Range, Range
<1>a. ASSUME Lands(Rejoined(c, r), a) PROVE P
  <2>1. Queues!ContextSwitch(c, r) /\ Range(Walk(kernel.next, kernel.top))' = a
    BY <1>0, <1>a, LandsSwitch
  <2>2. Queues!Interrupt
    BY <2>1, <1>0 DEF Queues!Interrupt
  <2> QED
    BY <2>2, <1>a DEF Queues!QueueNext
<1>b. ASSUME c # Null, Lands(r, a) PROVE P
  <2>1. Queues!ContextSwitch(Null, r) /\ Range(Walk(kernel.next, kernel.top))' = a
    BY <1>0, <1>b, LandsSwitch
  <2>2. Queues!Retire
    BY <2>1, <1>0, <1>b DEF Queues!Retire
  <2> QED
    BY <2>2, <1>b DEF Queues!QueueNext
<1>c. ASSUME c # Null, Lands(r, a \cup {c}) PROVE P
  <2>0. Lands(Rejoined(Null, r), a \cup {c})
    BY <1>0, <1>c
  <2>1. Queues!ContextSwitch(Null, r) /\ Range(Walk(kernel.next, kernel.top))' = a \cup {c}
    BY <1>0, <2>0, LandsSwitch
  <2>2. Queues!Block
    BY <2>1, <1>0, <1>c DEF Queues!Block
  <2> QED
    BY <2>2, <1>c DEF Queues!QueueNext
<1>d. ASSUME NEW p \in Process \ {Idle}, p \notin {c} \cup Range(r) \cup a,
             Lands(Rejoined(c, Append(r, p)), a)
      PROVE  P
  <2>1. /\ Queues!ContextSwitch(c, Append(r, p))
        /\ Range(Walk(kernel.next, kernel.top))' = a
    BY <1>0, <1>d, LandsSwitch
  <2>2. Queues!Admit(p)
    <3>1. p \in Process \ (Queues!Scheduled \cup {Idle})
      BY <1>s, <1>d
    <3> QED
      BY <3>1, <2>1, <1>0 DEF Queues!Admit
  <2> QED
    BY <2>2, <1>d DEF Queues!QueueNext
<1>1. ASSUME Tick PROVE P
  <2>1. Lands(Rejoined(c, r), a)
    BY <1>1, SwitchStands DEF Tick, Switch, Lands
  <2> QED
    BY <2>1, <1>a
<1>2. ASSUME Block PROVE P
  <2>1. c # Null /\ Stands(SleepCurrentProcess(kernel), Null, r, a \cup {c})
    BY <1>0, <1>2, SleepStands DEF Block
  <2>2. Lands(r, a \cup {c})
    BY <2>1, <1>0, <1>2, SwitchStands DEF Block, Switch, Lands
  <2> QED
    BY <2>1, <2>2, <1>c
<1>3. ASSUME Begin PROVE P
  <2>1. PICK p \in Process \ {Idle} :
           /\ p \notin {c} \cup Range(r) \cup a
           /\ Stands(Push(Malloc(kernel), kernel.free), c, Append(r, p), a)
    BY <1>3, BeginStands DEF Begin
  <2>2. Lands(Rejoined(c, Append(r, p)), a)
    BY <2>1, <1>3, SwitchStands DEF Begin, Switch, Lands
  <2> QED
    BY <2>1, <2>2, <1>d
<1>4. ASSUME BeginFails PROVE P
  <2>1. Stands(Malloc(kernel), c, r, a)
    BY <1>4, MallocStands DEF BeginFails
  <2>2. Lands(Rejoined(c, r), a)
    BY <2>1, <1>4, SwitchStands DEF BeginFails, Switch, Lands
  <2> QED
    BY <2>2, <1>a
<1>5. ASSUME Exit PROVE P
  <2>1. c # Null /\ Stands(FreeCurrent(kernel), Null, r, a)
    BY <1>0, <1>5, FreeStands DEF Exit
  <2>2. Lands(r, a)
    BY <2>1, <1>0, <1>5, SwitchStands DEF Exit, Switch, Lands
  <2> QED
    BY <2>1, <2>2, <1>b
<1>6. ASSUME NEW p \in Process \ {Idle}, Wake(p) PROVE P
  <2>1. CASE p \in a
    <3>1. Stands(WakeProcess(kernel, p), c, Append(r, p), a \ {p})
      BY <2>1, WakeStands
    <3>2. Lands(Rejoined(c, Append(r, p)), a \ {p})
      BY <3>1, <1>6, SwitchStands DEF Wake, Switch, Lands
    <3>3. /\ Queues!ContextSwitch(c, Append(r, p))
          /\ Range(Walk(kernel.next, kernel.top))' = a \ {p}
      BY <3>2, <1>0, LandsSwitch
    <3>4. Queues!Wake(p)
      BY <3>3, <2>1, <1>0, <1>6 DEF Queues!Wake, Queues!Woken, Wake
    <3> QED
      BY <3>2, <3>4 DEF Queues!QueueNext
  <2>2. CASE p \notin a
    <3>1. Lands(Rejoined(c, r), a)
      BY <2>2, <1>6, WakeNobody, SwitchStands DEF Wake, Switch, Lands
    <3> QED
      BY <3>1, <1>a
  <2> QED
    BY <2>1, <2>2
<1>7. ASSUME NEW p \in Process \ {Idle}, WakeAndBlock(p) PROVE P
  <2>0. c # Null
    BY <1>0, <1>7 DEF WakeAndBlock
  <2>1. CASE p \in a
    <3>1. Stands(WakeProcess(kernel, p), c, Append(r, p), a \ {p})
      BY <2>1, WakeStands
    <3>2. Stands(SleepCurrentProcess(WakeProcess(kernel, p)), Null, Append(r, p), (a \ {p}) \cup {c})
      BY <2>0, <3>1, SleepStands
    <3>3. Lands(Append(r, p), (a \ {p}) \cup {c})
      BY <3>2, <1>0, <1>7, SwitchStands DEF WakeAndBlock, Switch, Lands
    <3>4. /\ Queues!ContextSwitch(Null, Append(r, p))
          /\ Range(Walk(kernel.next, kernel.top))' = (a \ {p}) \cup {c}
      BY <3>3, <1>0, LandsSwitch
    <3>5. Queues!WakeAndBlock(p)
      BY <3>4, <2>0, <2>1, <1>0 DEF Queues!WakeAndBlock, Queues!Woken
    <3> QED
      BY <3>3, <3>5 DEF Queues!QueueNext
  <2>2. CASE p \notin a
    <3>1. Stands(SleepCurrentProcess(WakeProcess(kernel, p)), Null, r, a \cup {c})
      BY <2>0, <2>2, WakeNobody, SleepStands
    <3>2. Lands(r, a \cup {c})
      BY <3>1, <1>0, <1>7, SwitchStands DEF WakeAndBlock, Switch, Lands
    <3> QED
      BY <2>0, <3>2, <1>c
  <2> QED
    BY <2>1, <2>2
<1>8. ASSUME NEW s \in Semaphore, SemWait(s) PROVE P
  <2>1. c # Null /\ Stands(SleepOne(kernel, s), Null, r, a)
    BY <1>0, <1>8, SleepOneStands DEF SemWait
  <2>2. Lands(r, a)
    BY <2>1, <1>0, <1>8, SwitchStands DEF SemWait, Switch, Lands
  <2> QED
    BY <2>1, <2>2, <1>b
<1>9. ASSUME NEW s \in Semaphore, SemSignal(s) PROVE P
  <2>1. CASE Stands(WakeOne(kernel, s), c, r, a)
    <3>1. Lands(Rejoined(c, r), a)
      BY <2>1, <1>9, SwitchStands DEF SemSignal, Switch, Lands
    <3> QED
      BY <3>1, <1>a
  <2>2. CASE \E p \in Process \ {Idle} : /\ p \notin {c} \cup Range(r) \cup a
                                         /\ Stands(WakeOne(kernel, s), c, Append(r, p), a)
    <3>1. PICK p \in Process \ {Idle} : /\ p \notin {c} \cup Range(r) \cup a
                                        /\ Stands(WakeOne(kernel, s), c, Append(r, p), a)
      BY <2>2
    <3>2. Lands(Rejoined(c, Append(r, p)), a)
      BY <3>1, <1>9, SwitchStands DEF SemSignal, Switch, Lands
    <3> QED
      BY <3>1, <3>2, <1>d
  <2> QED
    BY <2>1, <2>2, WakeOneStands
<1>10. ASSUME NEW s \in Semaphore, SemSignalTwice(s) PROVE P
  <2> DEFINE k2 == WakeOne(kernel, s)
  <2>0. kernel' = GetNextProcess(WakeOne(k2, s))
    BY <1>10 DEF SemSignalTwice, Switch
  <2>1. CASE Stands(k2, c, r, a)
    <3> HIDE DEF k2
    <3>1. CASE Stands(WakeOne(k2, s), c, r, a)
      <4>1. Lands(Rejoined(c, r), a)
        BY <3>1, <2>0, SwitchStands DEF Lands
      <4> QED
        BY <4>1, <1>a
    <3>2. CASE \E p \in Process \ {Idle} : /\ p \notin {c} \cup Range(r) \cup a
                                           /\ Stands(WakeOne(k2, s), c, Append(r, p), a)
      <4>1. PICK p \in Process \ {Idle} : /\ p \notin {c} \cup Range(r) \cup a
                                          /\ Stands(WakeOne(k2, s), c, Append(r, p), a)
        BY <3>2
      <4>2. Lands(Rejoined(c, Append(r, p)), a)
        BY <4>1, <2>0, SwitchStands DEF Lands
      <4> QED
        BY <4>1, <4>2, <1>d
    <3> QED
      BY <3>1, <3>2, <2>1, WakeOneStands
  <2>2. CASE \E p \in Process \ {Idle} : /\ p \notin {c} \cup Range(r) \cup a
                                         /\ Stands(k2, c, Append(r, p), a)
    <3>1. PICK p \in Process \ {Idle} : /\ p \notin {c} \cup Range(r) \cup a
                                        /\ Stands(k2, c, Append(r, p), a)
      BY <2>2
    <3> HIDE DEF k2
    <3>2. CASE Stands(WakeOne(k2, s), c, Append(r, p), a)
      <4>1. Lands(Rejoined(c, Append(r, p)), a)
        BY <3>2, <2>0, SwitchStands DEF Lands
      <4> QED
        BY <3>1, <4>1, <1>d
    <3>3. CASE \E q \in Process \ {Idle} :
                  /\ q \notin {c} \cup Range(Append(r, p)) \cup a
                  /\ Stands(WakeOne(k2, s), c, Append(Append(r, p), q), a)
      <4>1. PICK q \in Process \ {Idle} :
               /\ q \notin {c} \cup Range(Append(r, p)) \cup a
               /\ Stands(WakeOne(k2, s), c, Append(Append(r, p), q), a)
        BY <3>3
      <4>2. Lands(Rejoined(c, Append(Append(r, p), q)), a)
        BY <4>1, <2>0, SwitchStands DEF Lands
      <4>3. /\ Queues!ContextSwitch(c, Append(Append(r, p), q))
            /\ Range(Walk(kernel.next, kernel.top))' = a
        BY <4>2, <1>0, LandsSwitch
      <4>4. r \in Seq(Process)
        BY StandsType
      <4>5. q # p /\ q \notin Range(r)
        <5>1. Range(Append(r, p)) = Range(r) \cup {p}
          BY <4>4, RangeAppend
        <5> QED
          BY <4>1, <5>1
      <4>6. Queues!AdmitTwo(p, q)
        <5>1. /\ p \in Process \ (Queues!Scheduled \cup {Idle})
              /\ q \in Process \ (Queues!Scheduled \cup {Idle, p})
          BY <1>s, <3>1, <4>1, <4>5
        <5> QED
          BY <5>1, <4>3, <1>0 DEF Queues!AdmitTwo
      <4> QED
        BY <4>2, <4>6 DEF Queues!QueueNext
    <3> QED
      BY <3>1, <3>2, <3>3, WakeOneStands
  <2> QED
    BY <2>1, <2>2, WakeOneStands
<1>11. ASSUME NEW s \in Semaphore, SemClear(s) PROVE P
  <2>1. Stands([kernel EXCEPT !.sleepers[s] = Null], c, r, a)
    BY ClearStands
  <2>2. Lands(Rejoined(c, r), a)
    BY <2>1, <1>11, SwitchStands DEF SemClear, Switch, Lands
  <2> QED
    BY <2>2, <1>a
<1> QED
  BY <1>1, <1>2, <1>3, <1>4, <1>5, <1>6, <1>7, <1>8, <1>9, <1>10, <1>11 DEF Next

\* The inductive invariant: the pointers stand for queues.
Sound == \E c, r, a : Stands(kernel, c, r, a)

\* Sound is inductive, and every step is one of Dispatcher.tla or changes nothing.
LEMMA EveryStep ==
    ASSUME Sound, [Next]_kernel
    PROVE  Sound' /\ [Queues!QueueNext]_(Queues!queueVars)
<1>1. PICK c, r, a : Stands(kernel, c, r, a)
  BY DEF Sound
<1>2. CASE Next
  BY <1>1, <1>2, EntryStands DEF Sound, Lands
<1>3. CASE UNCHANGED kernel
  BY <1>3 DEF Sound, Queues!queueVars, ReadyList
<1> QED
  BY <1>2, <1>3

\* The pointers always stand for queues.
LEMMA AlwaysSound == Spec => []Sound
<1>1. Init => Sound
  BY InitStands DEF Sound
<1>2. Sound /\ [Next]_kernel => Sound'
  BY EveryStep
<1> QED
  BY <1>1, <1>2, PTL DEF Spec

\* Each process is on one list at most, once, and the one that runs is on none,
\* however stale the next fields get that the code leaves in processes it has
\* taken off a list (pull(), wake(), signal(), clear(), malloc()).
THEOREM SpecListsDisjoint == Spec => []ListsDisjoint
<1>1. Sound => ListsDisjoint
  <2> SUFFICES ASSUME NEW c, NEW r, NEW a, Stands(kernel, c, r, a) PROVE ListsDisjoint
    BY DEF Sound
  <2>1. PICK L : Settled(kernel, L)
    BY DEF Stands
  <2>2. ASSUME NEW i \in Place
        PROVE  /\ Walk(kernel.next, Start(kernel, i)) = L[i] /\ IsInjective(L[i])
               /\ kernel.current \notin Range(L[i])
    <3>1. Links(kernel.next, Start(kernel, i), L[i])
      BY <2>1, StartFields DEF Settled, Holds, Tidy
    <3>2. Null \notin Range(L[i])
      BY <3>1, ProcessListAssumption DEF Links, Range
    <3> QED
      BY <3>1, <3>2, <2>1, WalkIs DEF Links, Settled, Loose
  <2>3. \A i, j \in Place : i # j => Range(L[i]) \cap Range(L[j]) = {}
    BY <2>1 DEF Settled, Holds, Tidy
  <2> DEFINE at == <<ReadyAt, SleepersAt, FreeAt>>
  <2>4. /\ \A i \in 1..3 : at[i] \in Place /\ Lists[i] = L[at[i]]
        /\ \A i, j \in 1..3 : i # j => at[i] # at[j]
    <3>1. /\ Walk(kernel.next, kernel.tail) = L[ReadyAt]
          /\ Walk(kernel.next, kernel.top) = L[SleepersAt]
          /\ Walk(kernel.next, kernel.free) = L[FreeAt]
      BY <2>2, StartFields, Places
    <3> QED
      BY <3>1, Places DEF Lists, ReadyList
  <2>5. \A s \in Semaphore : /\ WaitingAt(s) \in Place /\ Waiting(s) = L[WaitingAt(s)]
                             /\ \A i \in 1..3 : WaitingAt(s) # at[i]
                             /\ \A t \in Semaphore \ {s} : WaitingAt(s) # WaitingAt(t)
    BY <2>2, StartFields, Places DEF Waiting
  <2> HIDE DEF at
  <2>6. \A i \in 1..3 : IsInjective(Lists[i]) /\ kernel.current \notin Range(Lists[i])
    BY <2>2, <2>4
  <2>7. \A i, j \in 1..3 : i # j => Range(Lists[i]) \cap Range(Lists[j]) = {}
    BY <2>3, <2>4
  <2>8. \A s \in Semaphore :
           /\ IsInjective(Waiting(s)) /\ kernel.current \notin Range(Waiting(s))
           /\ \A i \in 1..3 : Range(Waiting(s)) \cap Range(Lists[i]) = {}
           /\ \A t \in Semaphore \ {s} : Range(Waiting(s)) \cap Range(Waiting(t)) = {}
    BY <2>2, <2>3, <2>4, <2>5
  <2> QED
    BY <2>6, <2>7, <2>8 DEF ListsDisjoint
<1> QED
  BY <1>1, AlwaysSound, PTL

\* active_head is the last of the list that starts at active_tail, or both are
\* NULL: push() never links a process behind one that has left the queue.
THEOREM SpecEndsMeet == Spec => []EndsMeet
<1>1. Sound => EndsMeet
  <2> SUFFICES ASSUME NEW c, NEW r, NEW a, Stands(kernel, c, r, a) PROVE EndsMeet
    BY DEF Sound
  <2>1. PICK L : Settled(kernel, L)
    BY DEF Stands
  <2>2. Links(kernel.next, kernel.tail, L[ReadyAt]) /\ kernel.head = LastOf(L[ReadyAt])
    BY <2>1, StartFields, Places DEF Settled, Holds, Tidy
  <2>3. ReadyList = L[ReadyAt]
    BY <2>2, WalkIs DEF ReadyList
  <2>4. kernel.tail = Null <=> L[ReadyAt] = <<>>
    BY <2>2, ProcessListAssumption DEF Links, FirstOf
  <2> QED
    BY <2>2, <2>3, <2>4 DEF EndsMeet, LastOf
<1> QED
  BY <1>1, AlwaysSound, PTL

\* The pointers implement the queues of Dispatcher.tla: whatever pushes, pulls,
\* sleeps and wakes a kernel entry makes, it takes the ready queue and the sleepers
\* one step of QueueNext further.
THEOREM SpecImplementsQueues == Spec => ImplementsQueues
<1>1. Init => Queues!QueueInit(Boot)
  <2> SUFFICES ASSUME Init PROVE Queues!QueueInit(Boot)
    OBVIOUS
  <2>1. Stands(kernel, Null, Boot, {})
    BY InitStands
  <2> QED
    BY <2>1, StandsFor DEF Queues!QueueInit, ReadyList
<1>2. Sound /\ [Next]_kernel => [Queues!QueueNext]_(Queues!queueVars)
  BY EveryStep
<1> QED
  BY <1>1, <1>2, AlwaysSound, PTL DEF Spec, ImplementsQueues

=============================================================================
