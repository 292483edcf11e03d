---------------------------- MODULE UsbBusProofs ----------------------------
(***************************************************************************)
(* Proofs about UsbBus.tla, for any devices in any tree of hubs: one       *)
(* thread at a time uses the static descriptors, it goes on when its own   *)
(* transfer is over, a request reaches the device it is for and no other,  *)
(* and the data toggles stay in step.                                      *)
(***************************************************************************)
EXTENDS UsbBus, SequenceTheorems, FiniteSetTheorems, WellFoundedInduction, TLAPS

RequestDo == DOMAIN Descriptors
MountDo   == {"read", "reply", "initialise", "format", "good"}
LateDo    == {"manage", "initialise", "format", "good"}
PortDo    == {"order", "query", "restart", "enumerate"}
Dos       == RequestDo \cup LateDo \cup {"connect", "reset", "enumerate", "up"}

Items == [do : Dos, device : Device \cup {Nobody}, to : Nat, n : Nat]

Named(l, a, d) == a \in DOMAIN l /\ l[a].device = d

\* What an item may be when the devices of l have been given their addresses.
Valid(l, i) ==
    /\ i.device = Nobody <=> i.do \in {"connect", "reset", "manage"} \/ (i.do = "enumerate" /\ i.to = 0)
    /\ i.device = Nobody => i.to = 0
    /\ i.device # Nobody /\ i.to = 0 => i.do \in {"query", "rename"}
    /\ i.to > 0 => Named(l, i.to, i.device)
    /\ i.do = "rename" => i.to = 0 /\ i.n > 0 /\ Named(l, i.n, i.device)
    /\ i.do \in {"restart", "enumerate"} /\ i.device # Nobody =>
          /\ bus.kind[i.device] = "hub"
          /\ i.n \in DOMAIN bus.ports[i.device] /\ bus.ports[i.device][i.n] # Nobody
    /\ i.do = "test" => bus.kind[i.device] = "disk"

-----------------------------------------------------------------------------
(* Sequences *)

\* The names of the items.
LEMMA DosDistinct ==
    /\ RequestDo = {"query", "order", "rename", "restart", "test", "read", "reply", "poll"}
    /\ \A d \in RequestDo : Descriptors[d] \in Nat \ {0}
    /\ Dos = {"query", "order", "rename", "restart", "test", "read", "reply", "poll", "manage",
              "initialise", "format", "good", "connect", "reset", "enumerate", "up"}
<1>1. /\ RequestDo = {"query", "order", "rename", "restart", "test", "read", "reply", "poll"}
      /\ \A d \in RequestDo : Descriptors[d] \in Nat \ {0}
  BY DEF RequestDo, Descriptors
<1> QED
  BY <1>1 DEF Dos, LateDo

\* What is left of a sequence after its first c.
After(s, c) == SubSeq(s, c + 1, Len(s))

LEMMA Shifted ==
    ASSUME NEW S, NEW s \in Seq(S), NEW c \in 0 .. Len(s)
    PROVE  /\ After(s, c) \in Seq(S) /\ Len(After(s, c)) = Len(s) - c
           /\ DOMAIN After(s, c) = 1 .. Len(s) - c
           /\ \A k \in 1 .. Len(s) - c : k + c \in 1 .. Len(s) /\ After(s, c)[k] = s[k + c]
<1>1. Len(s) \in Nat /\ c \in Nat /\ c <= Len(s) /\ \A i \in c + 1 .. Len(s) : s[i] \in S
  BY LenProperties, ElementOfSeq
<1>2. /\ After(s, c) \in Seq(S)
      /\ Len(After(s, c)) = IF c + 1 <= Len(s) THEN Len(s) - (c + 1) + 1 ELSE 0
      /\ \A i \in 1 .. Len(s) - (c + 1) + 1 : After(s, c)[i] = s[(c + 1) + i - 1]
  <2>1. c + 1 \in Int /\ Len(s) \in Int
    BY <1>1
  <2> QED
    BY <1>1, <2>1, SubSeqProperties DEF After
<1>3. Len(After(s, c)) = Len(s) - c
  BY <1>1, <1>2
<1>4. DOMAIN After(s, c) = 1 .. Len(s) - c
  BY <1>2, <1>3, LenProperties
<1>5. ASSUME NEW k \in 1 .. Len(s) - c PROVE k + c \in 1 .. Len(s) /\ After(s, c)[k] = s[k + c]
  BY <1>1, <1>2
<1> QED
  BY <1>2, <1>3, <1>4, <1>5

LEMMA Joined ==
    ASSUME NEW S, NEW s \in Seq(S), NEW t \in Seq(S)
    PROVE  /\ s \o t \in Seq(S) /\ Len(s \o t) = Len(s) + Len(t)
           /\ DOMAIN (s \o t) = 1 .. Len(s) + Len(t) /\ Len(s) \in Nat /\ Len(t) \in Nat
           /\ DOMAIN s = 1 .. Len(s) /\ DOMAIN t = 1 .. Len(t)
           /\ \A k \in DOMAIN s : (s \o t)[k] = s[k]
           /\ \A k \in DOMAIN t : (s \o t)[Len(s) + k] = t[k]
           /\ \A k \in DOMAIN (s \o t) : k \in DOMAIN s \/ (k > Len(s) /\ k - Len(s) \in DOMAIN t
                                                            /\ (s \o t)[k] = t[k - Len(s)])
<1> DEFINE r == s \o t
<1>1. /\ r \in Seq(S) /\ Len(r) = Len(s) + Len(t)
      /\ \A i \in 1 .. Len(s) + Len(t) : r[i] = IF i <= Len(s) THEN s[i] ELSE t[i - Len(s)]
  BY ConcatProperties
<1>2. /\ Len(s) \in Nat /\ Len(t) \in Nat /\ DOMAIN s = 1 .. Len(s) /\ DOMAIN t = 1 .. Len(t)
      /\ DOMAIN r = 1 .. Len(r)
  BY <1>1, LenProperties
<1> HIDE DEF r
<1>3. \A k \in DOMAIN s : r[k] = s[k]
  BY <1>1, <1>2
<1>4. ASSUME NEW k \in DOMAIN t PROVE r[Len(s) + k] = t[k]
  BY <1>1, <1>2
<1>5. ASSUME NEW k \in DOMAIN r, k \notin DOMAIN s
      PROVE  k > Len(s) /\ k - Len(s) \in DOMAIN t /\ r[k] = t[k - Len(s)]
  BY <1>1, <1>2, <1>5
<1> QED
  BY <1>1, <1>2, <1>3, <1>4, <1>5 DEF r

\* A set that holds 0, and n + 1 with n, holds every number: what it does not
\* hold would have a least number, since < is well founded.
LEMMA EveryNumber ==
    ASSUME NEW S, 0 \in S, \A n \in Nat : n \in S => n + 1 \in S
    PROVE  Nat \subseteq S
<1> DEFINE R == {ss \in Nat \X Nat : ss[1] < ss[2]}
           T == Nat \ S
<1> SUFFICES ASSUME T # {} PROVE FALSE
  OBVIOUS
<1>1. IsWellFoundedOn(R, Nat)
  BY NatLessThanWellFounded DEF OpToRel
<1>2. PICK x \in T : \A y \in T : ~ (<<y, x>> \in R)
  BY <1>1, WFMin
<1>3. x \in Nat /\ x # 0 /\ x - 1 \in Nat /\ x - 1 < x /\ (x - 1) + 1 = x
  BY <1>2
<1>4. x - 1 \notin T
  BY <1>2, <1>3
<1> QED
  BY <1>2, <1>3, <1>4

\* FlattenSeq is what its loop comes to.
Flattens(f, seqs, m) ==
    f = [i \in 1 .. m |-> IF i = 1 THEN seqs[i] ELSE f[i - 1] \o seqs[i]]

LEMMA FlattenExists ==
    ASSUME NEW seqs, NEW m \in Nat
    PROVE  \E f : Flattens(f, seqs, m)
<1> DEFINE N == {n \in Nat : \E f : Flattens(f, seqs, n)}
<1>1. 0 \in N
  <2> DEFINE f == [i \in {} |-> 0]
  <2>1. 1 .. 0 = {}
    OBVIOUS
  <2>2. f = [i \in {} |-> IF i = 1 THEN seqs[i] ELSE f[i - 1] \o seqs[i]]
    OBVIOUS
  <2>3. Flattens(f, seqs, 0)
    BY <2>1, <2>2 DEF Flattens
  <2> QED
    BY <2>3
<1>2. ASSUME NEW n \in Nat, n \in N PROVE n + 1 \in N
  <2>1. PICK f : Flattens(f, seqs, n)
    BY <1>2
  <2>2. \A i \in 1 .. n : f[i] = IF i = 1 THEN seqs[i] ELSE f[i - 1] \o seqs[i]
    BY <2>1 DEF Flattens
  <2> DEFINE g == [i \in 1 .. n + 1 |-> IF i <= n THEN f[i]
                                        ELSE IF n = 0 THEN seqs[i] ELSE f[n] \o seqs[i]]
  <2>3. ASSUME NEW i \in 1 .. n + 1
        PROVE  g[i] = IF i = 1 THEN seqs[i] ELSE g[i - 1] \o seqs[i]
    <3>1. CASE i <= n
      <4>1. g[i] = f[i] /\ (i # 1 => i - 1 \in 1 .. n /\ g[i - 1] = f[i - 1])
        BY <3>1
      <4> QED
        BY <3>1, <4>1, <2>2
    <3>2. CASE ~(i <= n)
      <4>1. i = n + 1 /\ (i = 1 <=> n = 0) /\ i - 1 = n
        BY <3>2
      <4>2. n # 0 => g[i - 1] = f[n]
        BY <4>1
      <4> QED
        BY <4>1, <4>2, <3>2
    <3> QED
      BY <3>1, <3>2
  <2>4. g = [i \in 1 .. n + 1 |-> g[i]]
    OBVIOUS
  <2> HIDE DEF g
  <2>5. Flattens(g, seqs, n + 1)
    BY <2>3, <2>4 DEF Flattens
  <2> QED
    BY <2>5
<1>3. Nat \subseteq N
  <2> HIDE DEF N
  <2> QED
    BY <1>1, <1>2, EveryNumber
<1> QED
  BY <1>3

LEMMA FlattenIs ==
    ASSUME NEW S, NEW seqs \in Seq(S), seqs # <<>>
    PROVE  \E f : /\ FlattenSeq(seqs) = f[Len(seqs)] /\ f[1] = seqs[1]
                  /\ \A i \in 2 .. Len(seqs) : f[i] = f[i - 1] \o seqs[i]
<1> DEFINE f == CHOOSE h : Flattens(h, seqs, Len(seqs))
<1>1. Len(seqs) \in Nat /\ Len(seqs) # 0
  BY EmptySeq
<1>2. Flattens(f, seqs, Len(seqs))
  BY <1>1, FlattenExists
<1>3. FlattenSeq(seqs) = f[Len(seqs)]
  BY <1>1 DEF FlattenSeq, Flattens
<1> HIDE DEF f
<1>4. \A i \in 1 .. Len(seqs) : f[i] = IF i = 1 THEN seqs[i] ELSE f[i - 1] \o seqs[i]
  BY <1>2 DEF Flattens
<1>5. f[1] = seqs[1]
  BY <1>1, <1>4
<1>6. ASSUME NEW i \in 2 .. Len(seqs) PROVE f[i] = f[i - 1] \o seqs[i]
  <2>1. i \in 1 .. Len(seqs) /\ i # 1
    BY <1>1
  <2> QED
    BY <2>1, <1>4
<1> QED
  BY <1>3, <1>5, <1>6

-----------------------------------------------------------------------------
(* Scripts *)

\* The reset of a port, and the enumeration that it is for.
Pair(i, j) ==
    i.do = "restart" /\ j.do = "enumerate" /\ i.device = j.device /\ i.n = j.n

Windows(s) ==
    /\ \A k \in DOMAIN s : s[k].do = "restart" =>
          /\ k + 4 \in DOMAIN s /\ Pair(s[k], s[k + 4])
          /\ \A j \in k + 1 .. k + 3 : s[j].do \in {"order", "query"}
    /\ \A k \in DOMAIN s : s[k].do = "enumerate" =>
          k > 4 /\ k - 4 \in DOMAIN s /\ Pair(s[k - 4], s[k])

\* No port is enumerated twice.
OnceEach(s) ==
    \A j, k \in DOMAIN s :
       s[j].do = "enumerate" /\ s[k].do = "enumerate" /\ s[j].n = s[k].n => j = k

\* What the constructor of hub h does with its ports from the first to the last.
Ported(s, h, a, first, last) ==
    /\ s \in Seq(Items)
    /\ \A k \in DOMAIN s :
          /\ s[k].device = h /\ s[k].to = a /\ s[k].do \in PortDo /\ s[k].n \in first .. last
          /\ s[k].do \in {"restart", "enumerate"} => bus.ports[h][s[k].n] # Nobody
    /\ OnceEach(s)
    /\ Windows(s)

LEMMA ItemIn ==
    ASSUME NEW do \in Dos, NEW d \in Device \cup {Nobody}, NEW to \in Nat, NEW n \in Nat
    PROVE  /\ Item(do, d, to, n) \in Items
           /\ Item(do, d, to, n).do = do /\ Item(do, d, to, n).device = d
           /\ Item(do, d, to, n).to = to /\ Item(do, d, to, n).n = n
  BY DEF Item, Items

LEMMA TwoAndFive ==
    ASSUME NEW S, NEW u \in Seq(S), NEW v \in Seq(S), Len(u) = 2, Len(v) = 5
    PROVE  /\ u \o v \in Seq(S) /\ DOMAIN (u \o v) = 1 .. 7
           /\ (u \o v)[1] = u[1] /\ (u \o v)[2] = u[2] /\ (u \o v)[3] = v[1] /\ (u \o v)[4] = v[2]
           /\ (u \o v)[5] = v[3] /\ (u \o v)[6] = v[4] /\ (u \o v)[7] = v[5]
<1> DEFINE r == u \o v
<1>0. /\ r \in Seq(S) /\ Len(r) = Len(u) + Len(v)
      /\ \A i \in 1 .. Len(u) + Len(v) : r[i] = IF i <= Len(u) THEN u[i] ELSE v[i - Len(u)]
  BY ConcatProperties
<1> HIDE DEF r
<1>1. /\ r \in Seq(S) /\ Len(r) = 7
      /\ \A i \in 1 .. 7 : r[i] = IF i <= 2 THEN u[i] ELSE v[i - 2]
  BY <1>0
<1>2. DOMAIN r = 1 .. 7
  BY <1>1, LenProperties
<1> QED
  BY <1>1, <1>2 DEF r

LEMMA PortPorted ==
    ASSUME NEW h \in Device, NEW a \in Nat, NEW p \in Nat
    PROVE  Ported(Port(h, a, p), h, a, p, p)
<1> DEFINE I(do) == Item(do, h, a, p)
<1>1. \A do \in PortDo : /\ I(do) \in Items /\ I(do).do = do /\ I(do).device = h
                         /\ I(do).to = a /\ I(do).n = p
  <2>1. PortDo \subseteq Dos
    BY DosDistinct DEF PortDo
  <2> QED
    BY <2>1, ItemIn
<1> DEFINE A == I("order")  B == I("query")  C == I("restart")  E == I("enumerate")
<1>2. Port(h, a, p) = <<A, B>> \o IF bus.ports[h][p] = Nobody THEN <<>> ELSE <<C, A, A, B, E>>
  BY DEF Port
<1>3. /\ A \in Items /\ B \in Items /\ C \in Items /\ E \in Items
      /\ A.do = "order" /\ B.do = "query" /\ C.do = "restart" /\ E.do = "enumerate"
      /\ \A i \in {A, B, C, E} : i.device = h /\ i.to = a /\ i.n = p
  BY <1>1 DEF PortDo
<1> HIDE DEF A, B, C, E, I
<1>4. CASE bus.ports[h][p] = Nobody
  <2>1. Port(h, a, p) = <<A, B>>
    BY <1>2, <1>3, <1>4
  <2> DEFINE s == <<A, B>>
  <2>2. s \in Seq(Items) /\ DOMAIN s = 1 .. 2 /\ s[1] = A /\ s[2] = B
    BY <1>3
  <2> HIDE DEF s
  <2>3. \A k \in DOMAIN s : s[k] \in {A, B} /\ s[k].do \in {"order", "query"}
    BY <2>2, <1>3
  <2>4. Ported(s, h, a, p, p)
    BY <2>2, <2>3, <1>3 DEF Ported, OnceEach, Windows, PortDo
  <2> QED
    BY <2>1, <2>4 DEF s
<1>5. CASE bus.ports[h][p] # Nobody
  <2> DEFINE u == <<A, B>>  v == <<C, A, A, B, E>>  s == u \o v
  <2>1. Port(h, a, p) = s
    BY <1>2, <1>5
  <2>2. /\ s \in Seq(Items) /\ DOMAIN s = 1 .. 7 /\ s[1] = A /\ s[2] = B /\ s[3] = C /\ s[4] = A
        /\ s[5] = A /\ s[6] = B /\ s[7] = E
    <3>1. u \in Seq(Items) /\ Len(u) = 2 /\ u[1] = A /\ u[2] = B
      BY <1>3
    <3>2. v \in Seq(Items) /\ Len(v) = 5
      <4>1. v \in Seq(Items)
        BY <1>3
      <4>2. Len(v) = 5
        OBVIOUS
      <4> QED
        BY <4>1, <4>2
    <3>3. v[1] = C /\ v[2] = A /\ v[3] = A /\ v[4] = B /\ v[5] = E
      OBVIOUS
    <3> HIDE DEF u, v
    <3> QED
      BY <3>1, <3>2, <3>3, TwoAndFive
  <2> HIDE DEF s
  <2>3. \A k \in DOMAIN s : s[k] \in {A, B, C, E}
    BY <2>2
  <2>4. \A k \in DOMAIN s : (s[k].do = "restart" <=> k = 3) /\ (s[k].do = "enumerate" <=> k = 7)
    BY <2>2, <1>3
  <2>5. Windows(s)
    BY <2>2, <2>4, <1>3 DEF Windows, Pair
  <2>6. OnceEach(s)
    BY <2>4 DEF OnceEach
  <2>7. Ported(s, h, a, p, p)
    BY <2>2, <2>3, <2>5, <2>6, <1>3, <1>5 DEF Ported, PortDo
  <2> QED
    BY <2>1, <2>7
<1> QED
  BY <1>4, <1>5

LEMMA WindowsJoined ==
    ASSUME NEW S, NEW s \in Seq(S), NEW t \in Seq(S), Windows(s), Windows(t)
    PROVE  Windows(s \o t)
<1> DEFINE r == s \o t
<1>1. /\ DOMAIN r = 1 .. Len(s) + Len(t) /\ Len(s) \in Nat /\ Len(t) \in Nat
      /\ DOMAIN s = 1 .. Len(s) /\ DOMAIN t = 1 .. Len(t)
      /\ \A k \in DOMAIN s : r[k] = s[k]
      /\ \A k \in DOMAIN t : r[Len(s) + k] = t[k]
      /\ \A k \in DOMAIN r : k \in DOMAIN s \/ (k > Len(s) /\ k - Len(s) \in DOMAIN t /\ r[k] = t[k - Len(s)])
  BY Joined
<1> DEFINE n == Len(s)
<1> HIDE DEF r
<1>2. ASSUME NEW k \in DOMAIN r, r[k].do = "restart"
      PROVE  /\ k + 4 \in DOMAIN r /\ Pair(r[k], r[k + 4])
             /\ \A j \in k + 1 .. k + 3 : r[j].do \in {"order", "query"}
  <2>1. CASE k \in DOMAIN s
    <3>1. /\ k + 4 \in DOMAIN s /\ Pair(s[k], s[k + 4])
          /\ \A j \in k + 1 .. k + 3 : s[j].do \in {"order", "query"}
      BY <2>1, <1>1, <1>2 DEF Windows
    <3>2. k + 4 \in DOMAIN r /\ \A j \in k .. k + 4 : j \in DOMAIN s
      BY <3>1, <2>1, <1>1
    <3>3. k \in k .. k + 4 /\ k + 4 \in k .. k + 4 /\ \A j \in k + 1 .. k + 3 : j \in k .. k + 4
      BY <1>1
    <3> QED
      BY <3>1, <3>2, <3>3, <1>1
  <2>2. CASE k \notin DOMAIN s
    <3> DEFINE i == k - n
    <3>1. i \in DOMAIN t /\ r[k] = t[i] /\ k = n + i
      BY <2>2, <1>1
    <3> HIDE DEF i
    <3>2. /\ i + 4 \in DOMAIN t /\ Pair(t[i], t[i + 4])
          /\ \A j \in i + 1 .. i + 3 : t[j].do \in {"order", "query"}
      BY <3>1, <1>2 DEF Windows
    <3>3. k + 4 \in DOMAIN r /\ r[k + 4] = t[i + 4]
      <4>1. k + 4 = n + (i + 4) /\ k + 4 \in DOMAIN r
        BY <3>1, <3>2, <1>1
      <4> QED
        BY <4>1, <3>2, <1>1
    <3>4. ASSUME NEW j \in k + 1 .. k + 3 PROVE r[j].do \in {"order", "query"}
      <4>1. j - n \in i + 1 .. i + 3 /\ j - n \in DOMAIN t /\ j = n + (j - n)
        BY <3>1, <3>2, <1>1
      <4>2. r[j] = t[j - n]
        BY <4>1, <1>1
      <4> QED
        BY <4>1, <4>2, <3>2
    <3> QED
      BY <3>1, <3>2, <3>3, <3>4
  <2> QED
    BY <2>1, <2>2
<1>3. ASSUME NEW k \in DOMAIN r, r[k].do = "enumerate"
      PROVE  k > 4 /\ k - 4 \in DOMAIN r /\ Pair(r[k - 4], r[k])
  <2>1. CASE k \in DOMAIN s
    <3>1. k > 4 /\ k - 4 \in DOMAIN s /\ Pair(s[k - 4], s[k])
      BY <2>1, <1>1, <1>3 DEF Windows
    <3> QED
      BY <3>1, <2>1, <1>1
  <2>2. CASE k \notin DOMAIN s
    <3> DEFINE i == k - n
    <3>1. i \in DOMAIN t /\ r[k] = t[i] /\ k = n + i
      BY <2>2, <1>1
    <3> HIDE DEF i
    <3>2. i > 4 /\ i - 4 \in DOMAIN t /\ Pair(t[i - 4], t[i])
      BY <3>1, <1>3 DEF Windows
    <3>3. k > 4 /\ k - 4 = n + (i - 4) /\ k - 4 \in DOMAIN r
      BY <3>1, <3>2, <1>1
    <3>4. r[k - 4] = t[i - 4]
      BY <3>2, <3>3, <1>1
    <3> QED
      BY <3>1, <3>2, <3>3, <3>4
  <2> QED
    BY <2>1, <2>2
<1> QED
  BY <1>2, <1>3 DEF Windows, r

LEMMA PortedJoined ==
    ASSUME NEW h, NEW a, NEW m \in Nat, NEW p \in Nat, m < p, NEW s, NEW t,
           Ported(s, h, a, 1, m), Ported(t, h, a, p, p)
    PROVE  Ported(s \o t, h, a, 1, p)
<1> DEFINE r == s \o t
<1>1. s \in Seq(Items) /\ t \in Seq(Items) /\ Windows(s) /\ Windows(t)
  BY DEF Ported
<1>2. /\ r \in Seq(Items) /\ DOMAIN r = 1 .. Len(s) + Len(t) /\ Len(s) \in Nat /\ Len(t) \in Nat
      /\ DOMAIN s = 1 .. Len(s) /\ DOMAIN t = 1 .. Len(t)
      /\ \A k \in DOMAIN s : r[k] = s[k]
      /\ \A k \in DOMAIN r : k \in DOMAIN s \/ (k > Len(s) /\ k - Len(s) \in DOMAIN t /\ r[k] = t[k - Len(s)])
  BY <1>1, Joined
<1>3. Windows(r)
  BY <1>1, WindowsJoined
<1> HIDE DEF r
<1>4. ASSUME NEW k \in DOMAIN r
      PROVE  /\ r[k].device = h /\ r[k].to = a /\ r[k].do \in PortDo
             /\ r[k].do \in {"restart", "enumerate"} => bus.ports[h][r[k].n] # Nobody
             /\ r[k].n \in 1 .. p
             /\ k \in DOMAIN s => r[k].n # p
             /\ k \notin DOMAIN s => r[k].n = p
  BY <1>2 DEF Ported
<1>5. OnceEach(r)
  <2> SUFFICES ASSUME NEW j \in DOMAIN r, NEW k \in DOMAIN r, r[j].n = r[k].n,
                      r[j].do = "enumerate", r[k].do = "enumerate"
               PROVE  j = k
    BY DEF OnceEach
  <2>1. CASE j \in DOMAIN s
    <3>1. k \in DOMAIN s
      BY <2>1, <1>4
    <3> QED
      BY <2>1, <3>1, <1>2 DEF Ported, OnceEach
  <2>2. CASE j \notin DOMAIN s
    <3>1. k \notin DOMAIN s
      BY <2>2, <1>4
    <3>2. /\ j - Len(s) \in DOMAIN t /\ r[j] = t[j - Len(s)]
          /\ k - Len(s) \in DOMAIN t /\ r[k] = t[k - Len(s)]
      BY <2>2, <3>1, <1>2
    <3>3. j - Len(s) = k - Len(s)
      BY <3>2 DEF Ported, OnceEach
    <3> QED
      BY <3>3, <1>2
  <2> QED
    BY <2>1, <2>2
<1> QED
  BY <1>2, <1>3, <1>4, <1>5 DEF Ported, r

\* Neither resets nor enumerations.
Plain(s) == \A k \in DOMAIN s : s[k].do \notin {"restart", "enumerate"}

DriverDo == PortDo \cup {"up", "test", "read", "reply", "poll"}

\* What a driver may do with device d at address a.
Driving(i, d, a) ==
    /\ i.device = d /\ i.to = a /\ i.do \in DriverDo
    /\ i.do \in {"restart", "enumerate"} =>
          bus.kind[d] = "hub" /\ i.n \in DOMAIN bus.ports[d] /\ bus.ports[d][i.n] # Nobody
    /\ i.do \in {"test", "reply"} => bus.kind[d] = "disk"

Driven(s, d, a) ==
    /\ s \in Seq(Items)
    /\ \A k \in DOMAIN s : Driving(s[k], d, a)
    /\ OnceEach(s)
    /\ Windows(s)

LEMMA PlainDriven ==
    ASSUME NEW d, NEW a, NEW s \in Seq(Items), Plain(s), \A k \in DOMAIN s : Driving(s[k], d, a)
    PROVE  Driven(s, d, a)
  BY DEF Driven, Plain, OnceEach, Windows

LEMMA NothingDriven ==
    ASSUME NEW d, NEW a
    PROVE  Driven(<<>>, d, a)
<1> DEFINE e == <<>>
<1>1. e \in Seq(Items) /\ DOMAIN e = {}
  OBVIOUS
<1> HIDE DEF e
<1>2. Driven(e, d, a)
  BY <1>1 DEF Driven, OnceEach, Windows
<1> QED
  BY <1>2 DEF e

LEMMA OnceEachJoined ==
    ASSUME NEW S, NEW s \in Seq(S), NEW t \in Seq(S), OnceEach(s), OnceEach(t), Plain(s) \/ Plain(t)
    PROVE  OnceEach(s \o t)
<1> DEFINE r == s \o t
<1>1. /\ Len(s) \in Nat /\ DOMAIN t = 1 .. Len(t) /\ Len(t) \in Nat /\ DOMAIN r = 1 .. Len(s) + Len(t)
      /\ \A k \in DOMAIN s : r[k] = s[k]
      /\ \A k \in DOMAIN r : k \in DOMAIN s \/ (k > Len(s) /\ k - Len(s) \in DOMAIN t /\ r[k] = t[k - Len(s)])
  BY Joined
<1> HIDE DEF r
<1> SUFFICES ASSUME NEW j \in DOMAIN r, NEW k \in DOMAIN r, r[j].n = r[k].n,
                    r[j].do = "enumerate", r[k].do = "enumerate"
             PROVE  j = k
  BY DEF OnceEach, r
<1>2. CASE j \in DOMAIN s /\ k \in DOMAIN s
  BY <1>1, <1>2 DEF OnceEach
<1>3. CASE j \notin DOMAIN s /\ k \notin DOMAIN s
  <2>1. /\ j - Len(s) \in DOMAIN t /\ r[j] = t[j - Len(s)]
        /\ k - Len(s) \in DOMAIN t /\ r[k] = t[k - Len(s)]
    BY <1>3, <1>1
  <2>2. j - Len(s) = k - Len(s)
    BY <2>1 DEF OnceEach
  <2> QED
    BY <2>2, <1>1
<1>4. CASE j \in DOMAIN s /\ k \notin DOMAIN s
  BY <1>1, <1>4 DEF Plain
<1>5. CASE j \notin DOMAIN s /\ k \in DOMAIN s
  BY <1>1, <1>5 DEF Plain
<1> QED
  BY <1>2, <1>3, <1>4, <1>5

LEMMA DrivenJoined ==
    ASSUME NEW d, NEW a, NEW s, NEW t, Driven(s, d, a), Driven(t, d, a), Plain(s) \/ Plain(t)
    PROVE  Driven(s \o t, d, a)
<1> DEFINE r == s \o t
<1>1. s \in Seq(Items) /\ t \in Seq(Items) /\ Windows(s) /\ Windows(t) /\ OnceEach(s) /\ OnceEach(t)
  BY DEF Driven
<1>2. Windows(r) /\ OnceEach(r)
  BY <1>1, WindowsJoined, OnceEachJoined
<1>3. /\ r \in Seq(Items)
      /\ \A k \in DOMAIN s : r[k] = s[k]
      /\ \A k \in DOMAIN r : k \in DOMAIN s \/ (k > Len(s) /\ k - Len(s) \in DOMAIN t /\ r[k] = t[k - Len(s)])
  BY <1>1, Joined
<1> HIDE DEF r
<1>4. ASSUME NEW k \in DOMAIN r PROVE Driving(r[k], d, a)
  BY <1>3 DEF Driven
<1> QED
  BY <1>2, <1>3, <1>4 DEF Driven, r

LEMMA PortedDriven ==
    ASSUME NEW d \in Device, NEW a, NEW s, bus.kind[d] = "hub", NEW m,
           1 .. m \subseteq DOMAIN bus.ports[d], Ported(s, d, a, 1, m)
    PROVE  Driven(s, d, a)
<1>1. ASSUME NEW k \in DOMAIN s PROVE Driving(s[k], d, a)
  <2>1. /\ s[k].device = d /\ s[k].to = a /\ s[k].do \in PortDo /\ s[k].n \in DOMAIN bus.ports[d]
        /\ s[k].do \in {"restart", "enumerate"} => bus.ports[d][s[k].n] # Nobody
    BY DEF Ported
  <2> QED
    BY <2>1 DEF Driving, DriverDo, PortDo
<1> QED
  BY <1>1 DEF Ported, Driven

LEMMA TwoMore ==
    ASSUME NEW S, NEW u \in Seq(S), NEW x \in S, NEW y \in S
    PROVE  /\ u \o <<x, y>> \in Seq(S) /\ Len(u \o <<x, y>>) = Len(u) + 2
           /\ DOMAIN (u \o <<x, y>>) = 1 .. Len(u) + 2
           /\ \A k \in 1 .. Len(u) : (u \o <<x, y>>)[k] = u[k]
           /\ (u \o <<x, y>>)[Len(u) + 1] = x /\ (u \o <<x, y>>)[Len(u) + 2] = y
<1> DEFINE v == <<x, y>>  r == u \o v
<1>1. v \in Seq(S) /\ Len(v) = 2 /\ v[1] = x /\ v[2] = y
  OBVIOUS
<1> HIDE DEF v
<1>2. /\ r \in Seq(S) /\ Len(r) = Len(u) + Len(v)
      /\ \A i \in 1 .. Len(u) + Len(v) : r[i] = IF i <= Len(u) THEN u[i] ELSE v[i - Len(u)]
  BY <1>1, ConcatProperties
<1>3. Len(u) \in Nat
  BY LenProperties
<1> HIDE DEF r
<1>4. DOMAIN r = 1 .. Len(r)
  BY <1>2, LenProperties
<1>5. r[Len(u) + 1] = v[1] /\ r[Len(u) + 2] = v[2]
  <2>1. /\ Len(u) + 1 \in 1 .. Len(u) + Len(v) /\ ~(Len(u) + 1 <= Len(u)) /\ (Len(u) + 1) - Len(u) = 1
        /\ Len(u) + 2 \in 1 .. Len(u) + Len(v) /\ ~(Len(u) + 2 <= Len(u)) /\ (Len(u) + 2) - Len(u) = 2
    BY <1>1, <1>3
  <2>2. /\ r[Len(u) + 1] = v[(Len(u) + 1) - Len(u)]
        /\ r[Len(u) + 2] = v[(Len(u) + 2) - Len(u)]
    BY <2>1, <1>2
  <2> QED
    BY <2>1, <2>2
<1>6. \A k \in 1 .. Len(u) : r[k] = u[k]
  BY <1>1, <1>2, <1>3
<1> QED
  BY <1>1, <1>2, <1>4, <1>5, <1>6 DEF r, v

\* The two requests of get_descriptor().
LEMMA GetDescriptorIs ==
    ASSUME NEW d \in Device, NEW a \in Nat
    PROVE  /\ GetDescriptor(d, a) \in Seq(Items) /\ Len(GetDescriptor(d, a)) = 2
           /\ DOMAIN GetDescriptor(d, a) = 1 .. 2
           /\ \A k \in 1 .. 2 : /\ GetDescriptor(d, a)[k] \in Items
                                /\ GetDescriptor(d, a)[k].do = "query" /\ GetDescriptor(d, a)[k].device = d
                                /\ GetDescriptor(d, a)[k].to = a
           /\ Driven(GetDescriptor(d, a), d, a) /\ Plain(GetDescriptor(d, a))
<1> DEFINE Q == Item("query", d, a, 0)  g == <<Q, Q>>
<1>1. Q \in Items /\ Q.do = "query" /\ Q.device = d /\ Q.to = a
  <2>1. "query" \in Dos /\ d \in Device \cup {Nobody} /\ 0 \in Nat
    BY DosDistinct
  <2> QED
    BY <2>1, ItemIn
<1> HIDE DEF Q
<1>2. g \in Seq(Items) /\ Len(g) = 2 /\ DOMAIN g = 1 .. 2 /\ \A k \in 1 .. 2 : g[k] = Q
  BY <1>1
<1> HIDE DEF g
<1>3. Plain(g)
  BY <1>1, <1>2 DEF Plain
<1>4. \A k \in DOMAIN g : Driving(g[k], d, a)
  BY <1>1, <1>2 DEF Driving, DriverDo, PortDo
<1>5. Driven(g, d, a)
  BY <1>2, <1>3, <1>4, PlainDriven
<1>6. GetDescriptor(d, a) = g
  BY DEF GetDescriptor, g, Q
<1> QED
  BY <1>1, <1>2, <1>3, <1>5, <1>6

\* The bus that is there is one of Buses.
LEMMA BusIs ==
    ASSUME bus \in Buses
    PROVE  /\ bus.root \in Device
           /\ \A h \in Device : /\ bus.ports[h] \in Seq(Device \cup {Nobody})
                                /\ Len(bus.ports[h]) \in Nat /\ DOMAIN bus.ports[h] = 1 .. Len(bus.ports[h])
           /\ \A h \in Device : \A i \in DOMAIN bus.ports[h] :
                 /\ bus.ports[h][i] \in Device \cup {Nobody} /\ bus.ports[h][i] # bus.root
                 /\ bus.ports[h][i] # Nobody =>
                       \A g \in Device : \A j \in DOMAIN bus.ports[g] :
                          bus.ports[g][j] = bus.ports[h][i] => g = h /\ j = i
<1>1. /\ bus.root \in Device /\ bus.ports \in [Device -> Seq(Device \cup {Nobody})]
      /\ \A h \in Device : \A i \in DOMAIN bus.ports[h] :
            /\ bus.ports[h][i] # bus.root
            /\ bus.ports[h][i] # Nobody =>
                  \A g \in Device : \A j \in DOMAIN bus.ports[g] :
                     bus.ports[g][j] = bus.ports[h][i] => g = h /\ j = i
  BY BusesAssumption
<1>2. ASSUME NEW h \in Device
      PROVE  /\ bus.ports[h] \in Seq(Device \cup {Nobody})
             /\ Len(bus.ports[h]) \in Nat /\ DOMAIN bus.ports[h] = 1 .. Len(bus.ports[h])
             /\ \A i \in DOMAIN bus.ports[h] : bus.ports[h][i] \in Device \cup {Nobody}
  <2>1. bus.ports[h] \in Seq(Device \cup {Nobody})
    BY <1>1
  <2> QED
    BY <2>1, LenProperties, ElementOfSeq
<1> QED
  BY <1>1, <1>2

\* What the constructor of a hub does with its ports.
LEMMA PortsDriven ==
    ASSUME bus \in Buses, NEW d \in Device, bus.kind[d] = "hub", NEW a \in Nat
    PROVE  Driven(FlattenSeq([port \in DOMAIN bus.ports[d] |-> Port(d, a, port)]), d, a)
<1> DEFINE m == Len(bus.ports[d])
           q == [port \in DOMAIN bus.ports[d] |-> Port(d, a, port)]
<1>1. m \in Nat /\ DOMAIN bus.ports[d] = 1 .. m
  BY BusIs
<1>2. \A p \in 1 .. m : Ported(Port(d, a, p), d, a, p, p)
  BY <1>1, PortPorted
<1>3. q = [port \in 1 .. m |-> Port(d, a, port)]
  BY <1>1
<1>4. q \in Seq(Seq(Items)) /\ Len(q) = m /\ \A p \in 1 .. m : q[p] = Port(d, a, p)
  <2>1. \A p \in 1 .. m : Port(d, a, p) \in Seq(Items)
    BY <1>2 DEF Ported
  <2> QED
    BY <1>1, <1>3, <2>1
<1> HIDE DEF q, m
<1>5. CASE m = 0
  <2>1. q = <<>>
    BY <1>4, <1>5, EmptySeq
  <2>2. FlattenSeq(q) = <<>>
    BY <2>1, <1>4, <1>5 DEF FlattenSeq
  <2>3. Driven(<<>>, d, a)
    BY NothingDriven
  <2> QED
    BY <2>2, <2>3 DEF q
<1>6. CASE m # 0
  <2>1. q # <<>>
    BY <1>4, <1>6
  <2>2. PICK f : /\ FlattenSeq(q) = f[m] /\ f[1] = q[1]
                 /\ \A i \in 2 .. m : f[i] = f[i - 1] \o q[i]
    BY <1>4, <2>1, FlattenIs
  <2> DEFINE N == {n \in Nat : n \in 1 .. m => Ported(f[n], d, a, 1, n)}
  <2>3. 0 \in N
    OBVIOUS
  <2>4. ASSUME NEW n \in Nat, n \in N PROVE n + 1 \in N
    <3> SUFFICES ASSUME n + 1 \in 1 .. m PROVE Ported(f[n + 1], d, a, 1, n + 1)
      OBVIOUS
    <3>1. CASE n = 0
      BY <3>1, <2>2, <1>1, <1>2, <1>4, <1>6
    <3>2. CASE n # 0
      <4>1. n \in 1 .. m /\ n + 1 \in 2 .. m /\ (n + 1) - 1 = n
        BY <3>2, <1>1
      <4>2. f[n + 1] = f[n] \o q[n + 1]
        BY <4>1, <2>2
      <4>3. Ported(f[n], d, a, 1, n)
        BY <2>4, <4>1
      <4>4. Ported(q[n + 1], d, a, n + 1, n + 1)
        BY <1>2, <1>4
      <4> QED
        BY <4>2, <4>3, <4>4, PortedJoined
    <3> QED
      BY <3>1, <3>2
  <2>5. Nat \subseteq N
    <3> HIDE DEF N
    <3> QED
      BY <2>3, <2>4, EveryNumber
  <2>6. Ported(f[m], d, a, 1, m)
    BY <2>5, <1>1, <1>6
  <2>7. Driven(f[m], d, a)
    BY <2>6, <1>1, PortedDriven
  <2> QED
    BY <2>2, <2>7 DEF q
<1> QED
  BY <1>5, <1>6

\* What the constructors do.
LEMMA DriverDriven ==
    ASSUME bus \in Buses, NEW d \in Device, NEW a \in Nat
    PROVE  Driven(Driver(d, a), d, a)
<1> DEFINE g == GetDescriptor(d, a)
           I(do) == Item(do, d, a, 0)
<1>1. g \in Seq(Items) /\ Driven(g, d, a) /\ Plain(g)
  BY GetDescriptorIs
<1>2. \A do \in Dos : /\ I(do) \in Items /\ I(do).do = do /\ I(do).device = d /\ I(do).to = a
  BY ItemIn
<1>3. /\ "query" \in Dos /\ "test" \in Dos /\ "read" \in Dos /\ "reply" \in Dos /\ "up" \in Dos /\ "poll" \in Dos
  BY DosDistinct
<1> HIDE DEF g
<1>4. CASE bus.kind[d] = "hub"
  <2> DEFINE f == FlattenSeq([port \in DOMAIN bus.ports[d] |-> Port(d, a, port)])
             U == I("up")
  <2>1. Driven(f, d, a)
    BY <1>4, PortsDriven
  <2>2. U \in Items /\ U.do = "up" /\ U.device = d /\ U.to = a
    BY <1>2, <1>3
  <2>3. Driver(d, a) = (g \o f) \o <<U>>
    BY <1>4 DEF Driver, g
  <2> HIDE DEF f, U
  <2>4. Driven(g \o f, d, a)
    BY <1>1, <2>1, DrivenJoined
  <2> DEFINE u == <<U>>
  <2>5. u \in Seq(Items) /\ DOMAIN u = 1 .. 1 /\ u[1] = U
    BY <2>2
  <2> HIDE DEF u
  <2>6. Plain(u) /\ \A k \in DOMAIN u : Driving(u[k], d, a)
    BY <2>2, <2>5 DEF Plain, Driving, DriverDo
  <2>7. Driven(u, d, a)
    BY <2>5, <2>6, PlainDriven
  <2>8. Driven((g \o f) \o u, d, a)
    BY <2>4, <2>6, <2>7, DrivenJoined
  <2> QED
    BY <2>3, <2>8 DEF u
<1>5. CASE bus.kind[d] = "disk"
  <2> DEFINE Q == I("query")  T == I("test")  R == I("read")  P == I("reply")  U == I("up")
             u == <<Q, T, R, P, U>>
  <2>1. Driver(d, a) = g \o u
    BY <1>5 DEF Driver, g
  <2>2. /\ Q \in Items /\ T \in Items /\ R \in Items /\ P \in Items /\ U \in Items
        /\ \A i \in {Q, T, R, P, U} : i.device = d /\ i.to = a /\ i.do \in {"query", "test", "read", "reply", "up"}
    BY <1>2, <1>3
  <2> HIDE DEF Q, T, R, P, U, I
  <2>3. u \in Seq(Items) /\ \A k \in DOMAIN u : u[k] \in {Q, T, R, P, U}
    BY <2>2
  <2> HIDE DEF u
  <2>4. Plain(u) /\ \A k \in DOMAIN u : Driving(u[k], d, a)
    BY <2>2, <2>3, <1>5 DEF Plain, Driving, DriverDo, PortDo
  <2>5. Driven(u, d, a)
    BY <2>3, <2>4, PlainDriven
  <2> QED
    BY <2>1, <2>4, <2>5, <1>1, DrivenJoined
<1>6. CASE bus.kind[d] = "mouse"
  <2> DEFINE L == I("poll")  u == <<L>>
  <2>1. Driver(d, a) = u
    BY <1>6 DEF Driver
  <2>2. L \in Items /\ L.do = "poll" /\ L.device = d /\ L.to = a
    BY <1>2, <1>3
  <2> HIDE DEF L
  <2>3. u \in Seq(Items) /\ DOMAIN u = 1 .. 1 /\ u[1] = L
    BY <2>2
  <2> HIDE DEF u
  <2>4. Plain(u) /\ \A k \in DOMAIN u : Driving(u[k], d, a)
    BY <2>2, <2>3 DEF Plain, Driving, DriverDo
  <2> QED
    BY <2>1, <2>3, <2>4, PlainDriven
<1>7. CASE bus.kind[d] \notin {"hub", "disk", "mouse"}
  <2>1. Driver(d, a) = <<>>
    BY <1>7 DEF Driver
  <2>2. Driven(<<>>, d, a)
    BY NothingDriven
  <2> QED
    BY <2>1, <2>2
<1> QED
  BY <1>4, <1>5, <1>6, <1>7

\* What enumerate() does with device d, first at address 0, z requests, and then at
\* address a.
Identified(s, d, a, z) ==
    /\ s \in Seq(Items) /\ z \in 1 .. Len(s)
    /\ \A k \in 1 .. z :
          /\ s[k].device = d /\ s[k].to = 0
          /\ s[k].do = IF k = z THEN "rename" ELSE "query"
    /\ s[z].n = a
    /\ \A k \in z + 1 .. Len(s) : Driving(s[k], d, a)
    /\ OnceEach(s)
    /\ Windows(s)

LEMMA IdentifyIdentified ==
    ASSUME bus \in Buses, NEW d \in Device, NEW a \in Nat
    PROVE  \E z \in Nat : Identified(Identify(d, a), d, a, z)
<1> DEFINE g == GetDescriptor(d, 0)
           h == IF bus.kind[d] = "hub" THEN <<>> ELSE GetDescriptor(d, 0)
           R == Item("rename", d, 0, a)
           O == Item("order", d, a, 0)
           u == g \o h
           v == Driver(d, a)
           w == u \o <<R, O>>
           s == w \o v
           n == Len(u)
<1>1. Identify(d, a) = s
  BY DEF Identify, DefaultAddress
<1>2. /\ g \in Seq(Items) /\ Len(g) = 2
      /\ \A k \in 1 .. 2 : g[k].do = "query" /\ g[k].device = d /\ g[k].to = 0
  BY GetDescriptorIs
<1>3. /\ R \in Items /\ R.do = "rename" /\ R.device = d /\ R.to = 0 /\ R.n = a
      /\ O \in Items /\ O.do = "order" /\ O.device = d /\ O.to = a
  <2>1. "rename" \in Dos /\ "order" \in Dos /\ d \in Device \cup {Nobody} /\ 0 \in Nat
    BY DosDistinct
  <2> QED
    BY <2>1, ItemIn
<1>4. h \in Seq(Items) /\ \A k \in 1 .. Len(h) : h[k].do = "query" /\ h[k].device = d /\ h[k].to = 0
  BY <1>2
<1>5. Driven(v, d, a)
  BY DriverDriven
<1> HIDE DEF g, h, R, O, v
<1>6. /\ u \in Seq(Items) /\ n \in Nat
      /\ \A k \in 1 .. n : u[k].do = "query" /\ u[k].device = d /\ u[k].to = 0
  <2>1. /\ u \in Seq(Items) /\ Len(u) = Len(g) + Len(h) /\ Len(g) \in Nat /\ Len(h) \in Nat
        /\ \A i \in 1 .. Len(g) + Len(h) : u[i] = IF i <= Len(g) THEN g[i] ELSE h[i - Len(g)]
    BY <1>2, <1>4, ConcatProperties, LenProperties
  <2> HIDE DEF u
  <2>2. ASSUME NEW k \in 1 .. n PROVE u[k].do = "query" /\ u[k].device = d /\ u[k].to = 0
    <3>1. CASE k <= Len(g)
      BY <3>1, <2>1, <1>2
    <3>2. CASE ~(k <= Len(g))
      <4>1. k - Len(g) \in 1 .. Len(h) /\ u[k] = h[k - Len(g)]
        BY <3>2, <2>1
      <4> QED
        BY <4>1, <1>4
    <3> QED
      BY <3>1, <3>2
  <2> QED
    BY <2>1, <2>2
<1> HIDE DEF u
<1>7. /\ w \in Seq(Items) /\ Len(w) = n + 2 /\ DOMAIN w = 1 .. n + 2
      /\ \A k \in 1 .. n : w[k] = u[k]
      /\ w[n + 1] = R /\ w[n + 2] = O
  BY <1>3, <1>6, TwoMore
<1> HIDE DEF w
<1>8. \A k \in DOMAIN w : k \in 1 .. n \/ k = n + 1 \/ k = n + 2
  BY <1>6, <1>7
<1>9. Plain(w)
  <2>1. \A k \in DOMAIN w : w[k].do \in {"query", "rename", "order"}
    BY <1>3, <1>6, <1>7, <1>8
  <2> QED
    BY <2>1 DEF Plain
<1>10. OnceEach(w) /\ Windows(w)
  BY <1>9 DEF Plain, OnceEach, Windows
<1>11. v \in Seq(Items) /\ OnceEach(v) /\ Windows(v) /\ \A k \in DOMAIN v : Driving(v[k], d, a)
  BY <1>5 DEF Driven
<1>12. OnceEach(s) /\ Windows(s)
  BY <1>7, <1>9, <1>10, <1>11, WindowsJoined, OnceEachJoined
<1>13. /\ s \in Seq(Items) /\ Len(s) = Len(w) + Len(v) /\ DOMAIN s = 1 .. Len(w) + Len(v) /\ Len(v) \in Nat
       /\ \A k \in DOMAIN w : s[k] = w[k]
       /\ \A k \in DOMAIN s : k \in DOMAIN w \/ (k > Len(w) /\ k - Len(w) \in DOMAIN v
                                                 /\ s[k] = v[k - Len(w)])
  <2>1. w \in Seq(Items) /\ v \in Seq(Items)
    BY <1>7, <1>11
  <2> QED
    BY <2>1, Joined
<1> HIDE DEF s
<1> DEFINE z == n + 1
<1>14. z \in Nat /\ z \in 1 .. Len(s)
  BY <1>6, <1>7, <1>13
<1>15. ASSUME NEW k \in 1 .. z
       PROVE  /\ s[k].device = d /\ s[k].to = 0
              /\ s[k].do = IF k = z THEN "rename" ELSE "query"
  <2>1. s[k] = w[k]
    BY <1>6, <1>7, <1>13
  <2>2. CASE k = z
    BY <2>1, <2>2, <1>3, <1>7
  <2>3. CASE k # z
    <3>1. k \in 1 .. n
      BY <2>3, <1>6
    <3> QED
      BY <3>1, <2>1, <2>3, <1>6, <1>7
  <2> QED
    BY <2>2, <2>3
<1>16. s[z].n = a
  <2>1. z \in DOMAIN w /\ w[z] = R
    BY <1>6, <1>7
  <2> HIDE DEF z
  <2> QED
    BY <2>1, <1>3, <1>13
<1>17. ASSUME NEW k \in z + 1 .. Len(s) PROVE Driving(s[k], d, a)
  <2>1. CASE k = n + 2
    <3>1. s[k] = O
      BY <2>1, <1>6, <1>7, <1>13
    <3> QED
      BY <3>1, <1>3 DEF Driving, DriverDo, PortDo
  <2>2. CASE k # n + 2
    <3>1. k \in DOMAIN s /\ k \notin DOMAIN w
      BY <2>2, <1>6, <1>7, <1>13
    <3> QED
      BY <3>1, <1>11, <1>13
  <2> QED
    BY <2>1, <2>2
<1>18. Identified(s, d, a, z)
  BY <1>12, <1>13, <1>14, <1>15, <1>16, <1>17 DEF Identified
<1> QED
  BY <1>1, <1>14, <1>18

-----------------------------------------------------------------------------
(* What the boot thread has before it *)

Opening == <<Item("connect", Nobody, 0, 0), Item("reset", Nobody, 0, 0),
             Item("enumerate", Nobody, 0, 0), Item("manage", Nobody, 0, 0)>>

Mounting(s) == \A k \in DOMAIN s : s[k].do \in MountDo

\* The opening, then enumeration up to "manage", then mounts: with one disk, the
\* steps of its mount are the last that there are.
Shape(s) ==
    /\ s = Opening \/ s = Tail(Opening) \/ \A k \in DOMAIN s : s[k].do \notin {"connect", "reset"}
    /\ \/ Mounting(s)
       \/ /\ s # <<>> /\ s[Len(s)].do = "manage"
          /\ \A k \in DOMAIN s : k # Len(s) => s[k].do \notin LateDo
    /\ OneDisk => \A k \in DOMAIN s : s[k].do \in LateDo => k = Len(s)

Listed(l) == {l[a].device : a \in DOMAIN l}

Listing == Seq([device : Device, alive : BOOLEAN])

\* No device is enumerated twice, and none before the hub it is behind.
Tree(l, s) ==
    /\ \A a, b \in DOMAIN l : l[a].device = l[b].device => a = b
    /\ \A j, k \in DOMAIN s :
          s[j].do = "enumerate" /\ s[k].do = "enumerate" /\ Enumerated(s[j]) = Enumerated(s[k]) => j = k
    /\ \A k \in DOMAIN s : s[k].do = "enumerate" => Enumerated(s[k]) \notin Listed(l)
    /\ \A h \in Device : \A i \in DOMAIN bus.ports[h] : bus.ports[h][i] \in Listed(l) => h \in Listed(l)

Ordered(l, s) ==
    /\ s \in Seq(Items)
    /\ \A k \in DOMAIN s : Valid(l, s[k])
    /\ Shape(s)
    /\ Tree(l, s)

LEMMA OpeningIs ==
    /\ Opening \in Seq(Items) /\ Len(Opening) = 4 /\ DOMAIN Opening = 1 .. 4
    /\ Opening[1].do = "connect" /\ Opening[2].do = "reset"
    /\ Opening[3].do = "enumerate" /\ Opening[4].do = "manage"
    /\ \A k \in 1 .. 4 : Opening[k].device = Nobody /\ Opening[k].to = 0
    /\ Tail(Opening) = After(Opening, 1) /\ Opening # Tail(Opening)
<1> DEFINE I(do) == Item(do, Nobody, 0, 0)
           A == I("connect")  B == I("reset")  C == I("enumerate")  D == I("manage")
<1>1. \A do \in Dos : /\ I(do) \in Items /\ I(do).do = do /\ I(do).device = Nobody /\ I(do).to = 0
  <2>1. Nobody \in Device \cup {Nobody} /\ 0 \in Nat
    OBVIOUS
  <2> QED
    BY <2>1, ItemIn
<1>2. "connect" \in Dos /\ "reset" \in Dos /\ "enumerate" \in Dos /\ "manage" \in Dos
  BY DosDistinct
<1>3. /\ A \in Items /\ B \in Items /\ C \in Items /\ D \in Items
      /\ A.do = "connect" /\ B.do = "reset" /\ C.do = "enumerate" /\ D.do = "manage"
      /\ \A i \in {A, B, C, D} : i.device = Nobody /\ i.to = 0
  BY <1>1, <1>2
<1>4. Opening = <<A, B, C, D>>
  BY DEF Opening
<1> HIDE DEF A, B, C, D, I
<1>5. Opening \in Seq(Items) /\ Len(Opening) = 4 /\ DOMAIN Opening = 1 .. 4
  BY <1>3, <1>4
<1>6. Opening[1] = A /\ Opening[2] = B /\ Opening[3] = C /\ Opening[4] = D
  BY <1>4
<1>7. Opening # <<>>
  BY <1>4
<1>8. Tail(Opening) = SubSeq(Opening, 2, Len(Opening)) /\ Len(Tail(Opening)) = Len(Opening) - 1
  BY <1>5, <1>7, TailIsSubSeq, HeadTailProperties
<1>9. Tail(Opening) = After(Opening, 1) /\ Opening # Tail(Opening)
  BY <1>5, <1>8 DEF After
<1> QED
  BY <1>3, <1>5, <1>6, <1>9

LEMMA NobodyIs == Nobody \notin Device
  BY ThreadsAssumption

LEMMA ValidGrows ==
    ASSUME NEW l, NEW m, NEW i, Valid(l, i),
           \A a, d : Named(l, a, d) => Named(m, a, d)
    PROVE  Valid(m, i)
  BY DEF Valid

\* Dropping what is next.
LEMMA OrderedAfter ==
    ASSUME NEW l, NEW s, Ordered(l, s), NEW c \in 1 .. Len(s),
           \A j \in 1 .. c : s[j].do # "manage",
           s[1].do \in {"connect", "reset"} => c = 1
    PROVE  Ordered(l, After(s, c))
<1> DEFINE r == After(s, c)
<1>0. Len(s) \in Nat /\ c \in Nat /\ c <= Len(s) /\ (c # Len(s) => Len(s) - c \in Nat /\ Len(s) - c >= 1)
  BY LenProperties DEF Ordered
<1>1. /\ s \in Seq(Items) /\ Len(s) \in Nat /\ DOMAIN s = 1 .. Len(s) /\ c \in Nat /\ c >= 1 /\ c \in 0 .. Len(s)
      /\ \A k \in DOMAIN s : Valid(l, s[k])
  BY LenProperties DEF Ordered
<1>2. /\ r \in Seq(Items) /\ Len(r) = Len(s) - c /\ DOMAIN r = 1 .. Len(s) - c
      /\ \A k \in 1 .. Len(s) - c : k + c \in 1 .. Len(s) /\ r[k] = s[k + c]
  BY <1>1, Shifted
<1> HIDE DEF r
<1>3. \A k \in DOMAIN r : k + c \in DOMAIN s /\ r[k] = s[k + c]
  BY <1>1, <1>2
<1>4. \A k \in DOMAIN r : Valid(l, r[k])
  BY <1>1, <1>3
<1>5. Tree(l, r)
  <2>1. ASSUME NEW j \in DOMAIN r, NEW k \in DOMAIN r, r[j].do = "enumerate", r[k].do = "enumerate",
               Enumerated(r[j]) = Enumerated(r[k])
        PROVE  j = k
    <3>1. j + c = k + c
      BY <2>1, <1>3 DEF Ordered, Tree
    <3> QED
      BY <3>1, <1>1, <1>2
  <2> QED
    BY <2>1, <1>3 DEF Ordered, Tree
<1>6. \A k \in DOMAIN r : (k # Len(r) <=> k + c # Len(s))
  BY <1>1, <1>2
<1>7. OneDisk => \A k \in DOMAIN r : r[k].do \in LateDo => k = Len(r)
  BY <1>3, <1>6 DEF Ordered, Shape
<1>8. \/ Mounting(r)
      \/ /\ r # <<>> /\ r[Len(r)].do = "manage"
         /\ \A k \in DOMAIN r : k # Len(r) => r[k].do \notin LateDo
  <2>1. CASE Mounting(s)
    BY <2>1, <1>3 DEF Mounting
  <2>2. CASE ~Mounting(s)
    <3>1. /\ s[Len(s)].do = "manage"
          /\ \A k \in DOMAIN s : k # Len(s) => s[k].do \notin LateDo
      BY <2>2 DEF Ordered, Shape
    <3>2. c # Len(s)
      BY <3>1, <1>1
    <3>3. Len(r) \in DOMAIN r /\ Len(r) + c = Len(s) /\ Len(r) > 0
      <4>1. Len(s) - c \in 1 .. Len(s) - c /\ (Len(s) - c) + c = Len(s) /\ Len(s) - c > 0
        BY <3>2, <1>0
      <4>2. Len(r) = Len(s) - c /\ DOMAIN r = 1 .. Len(s) - c
        BY <1>2
      <4> QED
        BY <4>1, <4>2
    <3>4. r[Len(r)].do = "manage"
      BY <3>1, <3>3, <1>3
    <3>5. \A k \in DOMAIN r : k # Len(r) => r[k].do \notin LateDo
      BY <3>1, <1>3, <1>6
    <3>6. r # <<>>
      BY <3>3
    <3> QED
      BY <3>4, <3>5, <3>6
  <2> QED
    BY <2>1, <2>2
<1>9. r = Tail(Opening) \/ \A k \in DOMAIN r : r[k].do \notin {"connect", "reset"}
  <2>1. CASE s = Opening
    <3>1. c = 1
      BY <2>1, OpeningIs
    <3> QED
      BY <2>1, <3>1, OpeningIs DEF r
  <2>2. CASE s = Tail(Opening)
    <3>1. /\ Len(s) = 3 /\ \A k \in 1 .. 3 : k + 1 \in 1 .. 4 /\ s[k] = Opening[k + 1]
      <4>1. 1 \in 0 .. Len(Opening) /\ Opening \in Seq(Items)
        BY OpeningIs
      <4>2. /\ Len(After(Opening, 1)) = Len(Opening) - 1
            /\ \A k \in 1 .. Len(Opening) - 1 : k + 1 \in 1 .. Len(Opening) /\ After(Opening, 1)[k] = Opening[k + 1]
        BY <4>1, Shifted
      <4>3. s = After(Opening, 1) /\ Len(Opening) = 4
        BY <2>2, OpeningIs
      <4> QED
        BY <4>2, <4>3
    <3>2. s[1].do = "reset" /\ s[2].do = "enumerate" /\ s[3].do = "manage"
      <4>1. s[1] = Opening[1 + 1] /\ s[2] = Opening[2 + 1] /\ s[3] = Opening[3 + 1]
        BY <3>1
      <4> QED
        BY <4>1, OpeningIs
    <3>3. c = 1
      BY <3>2
    <3>4. \A k \in DOMAIN r : k = 1 \/ k = 2
      BY <3>1, <3>3, <1>2
    <3> QED
      BY <3>2, <3>3, <3>4, <1>3
  <2>3. CASE \A k \in DOMAIN s : s[k].do \notin {"connect", "reset"}
    BY <2>3, <1>3
  <2> QED
    BY <2>1, <2>2, <2>3 DEF Ordered, Shape
<1>10. Shape(r)
  BY <1>7, <1>8, <1>9 DEF Shape
<1> QED
  BY <1>2, <1>4, <1>5, <1>10 DEF Ordered, r

\* What Then makes of a sequence.
LEMMA Stacked ==
    ASSUME NEW x \in Seq(Items), NEW s \in Seq(Items), s # <<>>
    PROVE  /\ x \o Tail(s) \in Seq(Items) /\ Len(x \o Tail(s)) = Len(x) + Len(s) - 1
           /\ DOMAIN (x \o Tail(s)) = 1 .. Len(x) + Len(s) - 1
           /\ Len(x) \in Nat /\ Len(s) \in Nat /\ Len(s) >= 1 /\ DOMAIN s = 1 .. Len(s) /\ DOMAIN x = 1 .. Len(x)
           /\ \A k \in DOMAIN x : (x \o Tail(s))[k] = x[k]
           /\ \A k \in DOMAIN s : k # 1 => /\ Len(x) + k - 1 \in DOMAIN (x \o Tail(s))
                                           /\ (x \o Tail(s))[Len(x) + k - 1] = s[k]
           /\ \A k \in DOMAIN (x \o Tail(s)) : k \notin DOMAIN x =>
                 /\ k - Len(x) + 1 \in DOMAIN s /\ k - Len(x) + 1 # 1
                 /\ (x \o Tail(s))[k] = s[k - Len(x) + 1]
<1> DEFINE t == Tail(s)  r == x \o t  n == Len(x)
<1>1. /\ t \in Seq(Items) /\ Len(t) = Len(s) - 1 /\ \A k \in 1 .. Len(t) : t[k] = s[k + 1]
  BY HeadTailProperties
<1>2. Len(s) \in Nat /\ Len(s) >= 1 /\ DOMAIN s = 1 .. Len(s) /\ n \in Nat /\ DOMAIN x = 1 .. n
  BY LenProperties, EmptySeq
<1> HIDE DEF t
<1>3. /\ r \in Seq(Items) /\ Len(r) = n + Len(t)
      /\ DOMAIN r = 1 .. n + Len(t) /\ DOMAIN t = 1 .. Len(t)
      /\ \A k \in DOMAIN x : r[k] = x[k]
      /\ \A k \in DOMAIN t : r[n + k] = t[k]
      /\ \A k \in DOMAIN r : k \in DOMAIN x \/ (k > n /\ k - n \in DOMAIN t /\ r[k] = t[k - n])
  <2>1. t \in Seq(Items)
    BY <1>1
  <2> QED
    BY <2>1, Joined
<1> HIDE DEF r, n
<1>4. Len(r) = n + Len(s) - 1 /\ DOMAIN r = 1 .. n + Len(s) - 1
  BY <1>1, <1>2, <1>3
<1>5. ASSUME NEW k \in DOMAIN s, k # 1
      PROVE  n + k - 1 \in DOMAIN r /\ r[n + k - 1] = s[k]
  <2>1. k - 1 \in DOMAIN t /\ n + (k - 1) = n + k - 1 /\ (k - 1) + 1 = k /\ n + k - 1 \in 1 .. n + Len(s) - 1
    BY <1>1, <1>2, <1>3, <1>5
  <2>2. r[n + (k - 1)] = t[k - 1] /\ t[k - 1] = s[(k - 1) + 1]
    BY <2>1, <1>1, <1>3
  <2> QED
    BY <2>1, <2>2, <1>4
<1>6. ASSUME NEW k \in DOMAIN r, k \notin DOMAIN x
      PROVE  k - n + 1 \in DOMAIN s /\ k - n + 1 # 1 /\ r[k] = s[k - n + 1]
  <2>1. k - n \in 1 .. Len(t) /\ r[k] = t[k - n]
    BY <1>3, <1>6
  <2>2. k - n + 1 \in 1 .. Len(s) /\ k - n + 1 # 1
    BY <2>1, <1>1, <1>2
  <2> QED
    BY <2>1, <2>2, <1>1, <1>2
<1> QED
  BY <1>2, <1>3, <1>4, <1>5, <1>6 DEF r, t, n

\* A test is asked again.
LEMMA OrderedAgain ==
    ASSUME NEW l, NEW s, Ordered(l, s), s # <<>>, s[1].do = "test",
           NEW i \in Items, i.do = "test", i.device = s[1].device, i.to = s[1].to
    PROVE  Ordered(l, <<i>> \o Tail(s))
<1> DEFINE x == <<i>>  r == x \o Tail(s)
<1>1. s \in Seq(Items) /\ \A k \in DOMAIN s : Valid(l, s[k])
  BY DEF Ordered
<1>2. x \in Seq(Items) /\ Len(x) = 1 /\ DOMAIN x = 1 .. 1 /\ x[1] = i
  OBVIOUS
<1> HIDE DEF x
<1>3. /\ r \in Seq(Items) /\ Len(r) = Len(x) + Len(s) - 1 /\ DOMAIN r = 1 .. Len(x) + Len(s) - 1
      /\ Len(s) \in Nat /\ Len(s) >= 1 /\ DOMAIN s = 1 .. Len(s)
      /\ \A k \in DOMAIN x : r[k] = x[k]
      /\ \A k \in DOMAIN r : k \notin DOMAIN x =>
            k - Len(x) + 1 \in DOMAIN s /\ k - Len(x) + 1 # 1 /\ r[k] = s[k - Len(x) + 1]
  BY <1>1, <1>2, Stacked
<1> HIDE DEF r
<1>4. Len(r) = Len(s) /\ DOMAIN r = DOMAIN s /\ r[1] = i
  BY <1>2, <1>3
<1>5. ASSUME NEW k \in DOMAIN s, k # 1 PROVE r[k] = s[k]
  <2>1. k \notin DOMAIN x /\ k - Len(x) + 1 = k
    BY <1>2, <1>3, <1>5
  <2> QED
    BY <2>1, <1>3, <1>4
<1>6. \A k \in DOMAIN r : k # 1 => r[k] = s[k]
  BY <1>4, <1>5
<1>7. 1 \in DOMAIN s /\ Valid(l, s[1])
  BY <1>1, <1>3
<1>8. Valid(l, i)
  BY <1>7 DEF Valid
<1>9. \A k \in DOMAIN r : Valid(l, r[k]) /\ r[k].do = s[k].do
  BY <1>1, <1>4, <1>6, <1>8
<1>10. Tree(l, r)
  <2>1. \A k \in DOMAIN r : r[k].do = "enumerate" => k \in DOMAIN s /\ r[k] = s[k]
    BY <1>4, <1>6
  <2> QED
    BY <2>1 DEF Ordered, Tree
<1>11. Shape(r)
  <2>1. r # <<>> /\ Len(r) \in DOMAIN r
    BY <1>3, <1>4
  <2>2. \A k \in DOMAIN s : s[k].do \notin {"connect", "reset"}
    <3>1. s # Opening
      BY OpeningIs
    <3>2. s # Tail(Opening)
      <4>1. 1 \in 0 .. Len(Opening) /\ Opening \in Seq(Items) /\ 1 \in 1 .. Len(Opening) - 1
        BY OpeningIs
      <4>2. After(Opening, 1)[1] = Opening[1 + 1]
        BY <4>1, Shifted
      <4> QED
        BY <4>2, OpeningIs
    <3> QED
      BY <3>1, <3>2 DEF Ordered, Shape
  <2>3. \A k \in DOMAIN r : r[k].do \notin {"connect", "reset"}
    BY <2>2, <1>4, <1>9
  <2>4. /\ s[Len(s)].do = "manage"
        /\ \A k \in DOMAIN s : k # Len(s) => s[k].do \notin LateDo
    BY <1>7 DEF Ordered, Shape, Mounting, MountDo
  <2>5. /\ r[Len(r)].do = "manage"
        /\ \A k \in DOMAIN r : k # Len(r) => r[k].do \notin LateDo
    BY <2>1, <2>4, <1>4, <1>9
  <2>6. OneDisk => \A k \in DOMAIN r : r[k].do \in LateDo => k = Len(r)
    BY <2>5
  <2> QED
    BY <2>1, <2>3, <2>5, <2>6 DEF Shape
<1>12. Ordered(l, r)
  BY <1>3, <1>9, <1>10, <1>11 DEF Ordered
<1> QED
  BY <1>12 DEF r, x

\* A driver is up.
LEMMA OrderedUp ==
    ASSUME NEW l \in Listing, NEW m \in Listing, NEW s, Ordered(l, s),
           DOMAIN m = DOMAIN l, \A a \in DOMAIN l : m[a].device = l[a].device
    PROVE  Ordered(m, s)
<1>1. \A a, d : Named(l, a, d) => Named(m, a, d)
  BY DEF Named
<1>2. Listed(m) = Listed(l)
  BY DEF Listed
<1>3. Tree(m, s)
  BY <1>2 DEF Ordered, Tree
<1>4. \A k \in DOMAIN s : Valid(m, s[k])
  BY <1>1, ValidGrows DEF Ordered
<1> QED
  BY <1>3, <1>4 DEF Ordered

\* What enumerate() puts in front for device d at place a of the list.
Script(m, x, d) ==
    /\ x \in Seq(Items)
    /\ \A k \in DOMAIN x : x[k].device = d /\ Valid(m, x[k]) /\ x[k].do \in DriverDo \cup {"rename"}
    /\ OnceEach(x)

LEMMA IdentifiedScript ==
    ASSUME NEW m, NEW d \in Device, NEW a \in Nat, a > 0, Named(m, a, d),
           NEW x, NEW z, Identified(x, d, a, z)
    PROVE  Script(m, x, d)
<1>1. x \in Seq(Items) /\ Len(x) \in Nat /\ DOMAIN x = 1 .. Len(x) /\ z \in 1 .. Len(x)
  BY LenProperties DEF Identified
<1>2. d # Nobody
  BY NobodyIs
<1>3. ASSUME NEW k \in DOMAIN x
      PROVE  x[k].device = d /\ Valid(m, x[k]) /\ x[k].do \in DriverDo \cup {"rename"}
  <2>1. CASE k <= z
    <3>1. k \in 1 .. z
      BY <2>1, <1>1
    <3>2. /\ x[k].device = d /\ x[k].to = 0
          /\ x[k].do = IF k = z THEN "rename" ELSE "query"
      BY <3>1 DEF Identified
    <3>3. x[k].do = "rename" => x[k].n = a
      BY <3>2 DEF Identified
    <3>4. Valid(m, x[k])
      BY <3>2, <3>3, <1>2 DEF Valid
    <3> QED
      BY <3>2, <3>4 DEF DriverDo, PortDo
  <2>2. CASE ~(k <= z)
    <3>1. k \in z + 1 .. Len(x)
      BY <2>2, <1>1
    <3>2. Driving(x[k], d, a)
      BY <3>1 DEF Identified
    <3>3. x[k].do \in DriverDo
      BY <3>2 DEF Driving
    <3>4. Valid(m, x[k])
      BY <3>2, <3>3, <1>2 DEF Driving, Valid, DriverDo, PortDo
    <3> QED
      BY <3>2, <3>3, <3>4 DEF Driving
  <2> QED
    BY <2>1, <2>2
<1> QED
  BY <1>1, <1>3 DEF Script, Identified

LEMMA OversizeScript ==
    ASSUME NEW m, NEW d \in Device
    PROVE  Script(m, Oversize(d), d)
<1> DEFINE Q == Item("query", d, 0, 0)  x == <<Q, Q, Q>>
<1>1. Q \in Items /\ Q.do = "query" /\ Q.device = d /\ Q.to = 0
  <2>1. "query" \in Dos /\ d \in Device \cup {Nobody} /\ 0 \in Nat
    BY DosDistinct
  <2> QED
    BY <2>1, ItemIn
<1> HIDE DEF Q
<1>2. x \in Seq(Items) /\ \A k \in DOMAIN x : x[k] = Q
  BY <1>1
<1> HIDE DEF x
<1>3. Valid(m, Q)
  BY <1>1, NobodyIs DEF Valid
<1>4. Script(m, x, d)
  BY <1>1, <1>2, <1>3 DEF Script, OnceEach, DriverDo, PortDo
<1> QED
  BY <1>4 DEF Oversize, x, Q

\* enumerate() goes on with a device that is not yet listed.
LEMMA OrderedEnumerate ==
    ASSUME bus \in Buses, NEW l \in Listing, NEW s, Ordered(l, s), s # <<>>, s[1].do = "enumerate",
           NEW e \in BOOLEAN
    PROVE  LET d == Enumerated(s[1])
               m == Append(l, [device |-> d, alive |-> e])
           IN  /\ d \in Device /\ m \in Listing /\ Named(m, Len(l) + 1, d)
               /\ \A x : Script(m, x, d) => Ordered(m, x \o Tail(s))
<1> DEFINE d == Enumerated(s[1])
           m == Append(l, [device |-> d, alive |-> e])
           i1 == s[1]
<1>1. /\ s \in Seq(Items) /\ Len(s) \in Nat /\ DOMAIN s = 1 .. Len(s) /\ 1 \in DOMAIN s
      /\ \A k \in DOMAIN s : Valid(l, s[k]) /\ s[k] \in Items
  BY LenProperties, EmptySeq, ElementOfSeq DEF Ordered
<1>2. \A k \in DOMAIN s : s[k].do = "enumerate" =>
         \/ s[k].device = Nobody /\ Enumerated(s[k]) = bus.root
         \/ /\ s[k].device \in Listed(l) /\ s[k].device \in Device /\ s[k].n \in DOMAIN bus.ports[s[k].device]
            /\ Enumerated(s[k]) = bus.ports[s[k].device][s[k].n] /\ Enumerated(s[k]) # Nobody
  <2> SUFFICES ASSUME NEW k \in DOMAIN s, s[k].do = "enumerate", s[k].device # Nobody
               PROVE  /\ s[k].device \in Listed(l) /\ s[k].device \in Device
                      /\ s[k].n \in DOMAIN bus.ports[s[k].device]
                      /\ Enumerated(s[k]) = bus.ports[s[k].device][s[k].n] /\ Enumerated(s[k]) # Nobody
    BY DEF Enumerated
  <2>1. Valid(l, s[k]) /\ s[k] \in Items
    BY <1>1
  <2>2. s[k].to \in Nat /\ s[k].device \in Device
    BY <2>1 DEF Items
  <2>3. s[k].to > 0
    BY <2>1, <2>2 DEF Valid
  <2>4. s[k].device \in Listed(l)
    BY <2>1, <2>3 DEF Valid, Named, Listed
  <2> QED
    BY <2>1, <2>2, <2>4 DEF Valid, Enumerated
<1>3. /\ bus.root \in Device
      /\ \A h \in Device : \A i \in DOMAIN bus.ports[h] :
            /\ bus.ports[h][i] \in Device \cup {Nobody} /\ bus.ports[h][i] # bus.root
            /\ bus.ports[h][i] # Nobody =>
                  \A g \in Device : \A j \in DOMAIN bus.ports[g] :
                     bus.ports[g][j] = bus.ports[h][i] => g = h /\ j = i
  BY BusIs
<1>4. d \in Device /\ d \notin Listed(l)
  <2>1. d \in Device
    BY <1>1, <1>2, <1>3
  <2> QED
    BY <2>1, <1>1 DEF Ordered, Tree
\* No hub that is not listed has it, and none of its own ports does.
<1>5. \A h \in Device : \A i \in DOMAIN bus.ports[h] : bus.ports[h][i] = d => h \in Listed(l)
  BY <1>1, <1>2, <1>3
<1> HIDE DEF d
<1>6. /\ l \in Seq([device : Device, alive : BOOLEAN]) /\ Len(l) \in Nat /\ DOMAIN l = 1 .. Len(l)
  BY LenProperties DEF Listing
<1>7. [device |-> d, alive |-> e] \in [device : Device, alive : BOOLEAN]
  BY <1>4
<1>8. /\ m \in Listing /\ Len(m) = Len(l) + 1 /\ DOMAIN m = 1 .. Len(l) + 1
      /\ \A a \in DOMAIN l : m[a] = l[a]
      /\ m[Len(l) + 1] = [device |-> d, alive |-> e]
  <2>1. /\ m \in Seq([device : Device, alive : BOOLEAN]) /\ Len(m) = Len(l) + 1
        /\ \A a \in 1 .. Len(l) : m[a] = l[a]
        /\ m[Len(l) + 1] = [device |-> d, alive |-> e]
    BY <1>6, <1>7, AppendProperties
  <2> HIDE DEF m
  <2>2. DOMAIN m = 1 .. Len(m)
    BY <2>1, LenProperties
  <2> QED
    BY <2>1, <2>2, <1>6 DEF Listing
<1> HIDE DEF m
<1>9. m[Len(l) + 1].device = d /\ Len(l) + 1 \in DOMAIN m
  BY <1>6, <1>8
<1>10. \A a \in DOMAIN m : a \in DOMAIN l \/ a = Len(l) + 1
  BY <1>6, <1>8
<1>11. Named(m, Len(l) + 1, d)
  BY <1>9 DEF Named
<1>12. \A a, f : Named(l, a, f) => Named(m, a, f)
  BY <1>6, <1>8 DEF Named
<1>13. Listed(m) = Listed(l) \cup {d}
  <2>1. Listed(m) \subseteq Listed(l) \cup {d}
    BY <1>8, <1>9, <1>10 DEF Listed
  <2>2. Listed(l) \cup {d} \subseteq Listed(m)
    BY <1>6, <1>8, <1>9 DEF Listed
  <2> QED
    BY <2>1, <2>2
<1>14. ASSUME NEW x, Script(m, x, d) PROVE Ordered(m, x \o Tail(s))
  <2> DEFINE r == x \o Tail(s)
  <2>1. /\ r \in Seq(Items) /\ Len(r) = Len(x) + Len(s) - 1 /\ DOMAIN r = 1 .. Len(x) + Len(s) - 1
        /\ Len(x) \in Nat /\ Len(s) >= 1 /\ DOMAIN x = 1 .. Len(x)
        /\ \A k \in DOMAIN x : r[k] = x[k]
        /\ \A k \in DOMAIN r : k \notin DOMAIN x =>
              k - Len(x) + 1 \in DOMAIN s /\ k - Len(x) + 1 # 1 /\ r[k] = s[k - Len(x) + 1]
    <3>1. x \in Seq(Items) /\ s \in Seq(Items)
      BY <1>1, <1>14 DEF Script
    <3> QED
      BY <3>1, Stacked
  <2> HIDE DEF r
  <2>2. \A k \in DOMAIN x : x[k].device = d /\ Valid(m, x[k]) /\ x[k].do \in DriverDo \cup {"rename"}
    BY <1>14 DEF Script
  <2> DEFINE In(k) == k \in DOMAIN x
             Pos(k) == k - Len(x) + 1
  <2>3. \A k \in DOMAIN r : ~In(k) => Pos(k) \in DOMAIN s /\ Pos(k) # 1 /\ r[k] = s[Pos(k)]
    BY <2>1
  <2>4. \A k \in DOMAIN r : In(k) => r[k] = x[k]
    BY <2>1
  <2>5. \A k \in DOMAIN r : Valid(m, r[k])
    BY <2>2, <2>3, <2>4, <1>1, <1>12, ValidGrows
  \* Those of the hub's own ports, and those of before.
  <2>6. \A k \in DOMAIN r : r[k].do = "enumerate" /\ In(k) =>
           /\ r[k].n \in DOMAIN bus.ports[d] /\ Enumerated(r[k]) = bus.ports[d][r[k].n]
           /\ Enumerated(r[k]) # Nobody
    <3> SUFFICES ASSUME NEW k \in DOMAIN r, r[k].do = "enumerate", In(k)
                 PROVE  /\ r[k].n \in DOMAIN bus.ports[d] /\ Enumerated(r[k]) = bus.ports[d][r[k].n]
                        /\ Enumerated(r[k]) # Nobody
      OBVIOUS
    <3>1. r[k].device = d /\ Valid(m, r[k]) /\ d # Nobody
      BY <2>2, <2>4, <1>4, NobodyIs
    <3> QED
      BY <3>1 DEF Valid, Enumerated
  <2>7. \A k \in DOMAIN r : r[k].do = "enumerate" /\ ~In(k) =>
           Enumerated(r[k]) \notin Listed(l) /\ Enumerated(r[k]) # d
    BY <2>3, <1>1 DEF Ordered, Tree, d
  <2>8. \A k \in DOMAIN r : r[k].do = "enumerate" /\ In(k) =>
           Enumerated(r[k]) \notin Listed(l) /\ Enumerated(r[k]) # d
    BY <2>6, <1>4, <1>5 DEF Ordered, Tree
  <2>9. ASSUME NEW j \in DOMAIN r, NEW k \in DOMAIN r, r[j].do = "enumerate", r[k].do = "enumerate",
               Enumerated(r[j]) = Enumerated(r[k])
        PROVE  j = k
    <3>1. CASE In(j) /\ In(k)
      <4>1. r[j].n = r[k].n
        BY <3>1, <2>6, <2>9, <1>3, <1>4
      <4> QED
        BY <4>1, <3>1, <2>4, <2>9, <1>14 DEF Script, OnceEach
    <3>2. CASE ~In(j) /\ ~In(k)
      <4>1. Pos(j) = Pos(k)
        BY <3>2, <2>3, <2>9 DEF Ordered, Tree
      <4> QED
        BY <4>1, <2>1
    <3>3. ASSUME NEW p \in DOMAIN r, NEW q \in DOMAIN r, In(p), ~In(q),
                 r[p].do = "enumerate", r[q].do = "enumerate", Enumerated(r[p]) = Enumerated(r[q])
          PROVE  FALSE
      <4>1. r[q] = s[Pos(q)] /\ Pos(q) \in DOMAIN s
        BY <3>3, <2>3
      <4>2. Enumerated(r[p]) = bus.ports[d][r[p].n] /\ r[p].n \in DOMAIN bus.ports[d] /\ Enumerated(r[p]) # Nobody
        BY <3>3, <2>6
      <4> HIDE DEF Pos
      <4>3. CASE s[Pos(q)].device = Nobody
        <5>1. Enumerated(r[q]) = bus.root
          BY <4>1, <4>3, <3>3 DEF Enumerated
        <5> QED
          BY <5>1, <4>2, <3>3, <1>3, <1>4
      <4>4. CASE s[Pos(q)].device # Nobody
        <5>1. /\ r[q].device \in Listed(l) /\ r[q].device \in Device /\ r[q].n \in DOMAIN bus.ports[r[q].device]
              /\ Enumerated(r[q]) = bus.ports[r[q].device][r[q].n]
          BY <4>1, <4>4, <3>3, <1>2
        <5>2. r[q].device = d
          <6> DEFINE g == r[q].device  v == r[q].n  w == r[p].n
          <6>1. g \in Device /\ v \in DOMAIN bus.ports[g] /\ w \in DOMAIN bus.ports[d] /\ d \in Device
            BY <5>1, <4>2, <1>4
          <6>2. bus.ports[g][v] = bus.ports[d][w] /\ bus.ports[d][w] # Nobody
            BY <5>1, <4>2, <3>3
          <6> HIDE DEF g, v, w
          <6>3. g = d
            BY <6>1, <6>2, <1>3
          <6> QED
            BY <6>3 DEF g
        <5> QED
          BY <5>1, <5>2, <1>4
      <4> QED
        BY <4>3, <4>4
    <3> HIDE DEF In
    <3> QED
      BY <3>1, <3>2, <3>3, <2>9
  <2>10. \A a, b \in DOMAIN m : m[a].device = m[b].device => a = b
    <3> SUFFICES ASSUME NEW a \in DOMAIN m, NEW b \in DOMAIN m, m[a].device = m[b].device
                 PROVE  a = b
      OBVIOUS
    <3>1. \A p \in DOMAIN l : m[p].device # d
      BY <1>4, <1>8 DEF Listed
    <3>2. CASE a \in DOMAIN l /\ b \in DOMAIN l
      BY <3>2, <1>8 DEF Ordered, Tree
    <3> QED
      BY <3>1, <3>2, <1>9, <1>10
  <2>11. Tree(m, r)
    <3> HIDE DEF In
    <3>1. \A k \in DOMAIN r : r[k].do = "enumerate" => Enumerated(r[k]) \notin Listed(m)
      BY <2>7, <2>8, <1>13
    <3>2. \A h \in Device : \A i \in DOMAIN bus.ports[h] : bus.ports[h][i] \in Listed(m) => h \in Listed(m)
      BY <1>5, <1>13 DEF Ordered, Tree
    <3> QED
      BY <2>9, <2>10, <3>1, <3>2 DEF Tree
  <2>12. /\ Len(s) # 1 /\ s[Len(s)].do = "manage"
         /\ \A k \in DOMAIN s : k # Len(s) => s[k].do \notin LateDo
         /\ \A k \in DOMAIN s : s[k].do \notin {"connect", "reset"}
    <3>1. ~Mounting(s)
      BY <1>1 DEF Mounting, MountDo
    <3>2. s # Opening
      BY OpeningIs
    <3>3. s # Tail(Opening)
      <4>1. 1 \in 0 .. Len(Opening) /\ Opening \in Seq(Items) /\ 1 \in 1 .. Len(Opening) - 1
        BY OpeningIs
      <4>2. After(Opening, 1)[1] = Opening[1 + 1]
        BY <4>1, Shifted
      <4> QED
        BY <4>2, OpeningIs
    <3>4. /\ s[Len(s)].do = "manage"
          /\ \A k \in DOMAIN s : k # Len(s) => s[k].do \notin LateDo
          /\ \A k \in DOMAIN s : s[k].do \notin {"connect", "reset"}
      BY <3>1, <3>2, <3>3 DEF Ordered, Shape
    <3> QED
      BY <3>4
  <2>13. /\ Len(r) \in DOMAIN r /\ ~In(Len(r)) /\ Pos(Len(r)) = Len(s)
         /\ \A k \in DOMAIN r : ~In(k) /\ Pos(k) = Len(s) => k = Len(r)
    BY <2>1, <2>12, <1>1
  <2> HIDE DEF Pos
  <2>14. \A k \in DOMAIN r : In(k) => r[k].do \notin LateDo \cup {"connect", "reset"}
    BY <2>2, <2>4 DEF DriverDo, PortDo, LateDo
  <2> HIDE DEF In
  <2>15. r[Len(r)].do = "manage"
    BY <2>3, <2>12, <2>13
  <2>16. \A k \in DOMAIN r : k # Len(r) => r[k].do \notin LateDo
    BY <2>3, <2>12, <2>13, <2>14
  <2>17. \A k \in DOMAIN r : r[k].do \notin {"connect", "reset"}
    BY <2>3, <2>12, <2>14
  <2>18. r # <<>>
    BY <2>1, <2>13
  <2>19. Shape(r)
    BY <2>15, <2>16, <2>17, <2>18 DEF Shape
  <2>20. Ordered(m, r)
    BY <2>1, <2>5, <2>11, <2>19 DEF Ordered
  <2> QED
    BY <2>20 DEF r
<1> QED
  BY <1>4, <1>8, <1>11, <1>14 DEF d, m

-----------------------------------------------------------------------------
(* Mounts *)

LEMMA OneDiskIs ==
    ASSUME OneDisk, NEW d \in Device, NEW e \in Device, bus.kind[d] = "disk", bus.kind[e] = "disk"
    PROVE  d = e
<1> SUFFICES ASSUME d # e PROVE FALSE
  OBVIOUS
<1>1. IsFiniteSet(Disks)
  <2>1. Disks \subseteq Device
    BY DEF Disks
  <2> QED
    BY <2>1, BusesAssumption, FS_Subset
<1>2. {d, e} \subseteq Disks
  BY DEF Disks
<1>3. Cardinality({d, e}) <= Cardinality(Disks)
  BY <1>1, <1>2, FS_Subset
<1>4. Cardinality({d, e}) = 2
  <2>1. Cardinality({d}) = 1 /\ IsFiniteSet({d})
    BY FS_Singleton
  <2>2. Cardinality({d} \cup {e}) = Cardinality({d}) + 1
    BY <2>1, FS_AddElement
  <2>3. {d} \cup {e} = {d, e}
    OBVIOUS
  <2> QED
    BY <2>1, <2>2, <2>3
<1>5. Cardinality(Disks) \in Nat
  BY <1>1, FS_CardinalityType
<1> QED
  BY <1>3, <1>4, <1>5 DEF OneDisk

LEMMA ListingIs ==
    ASSUME NEW l \in Listing
    PROVE  /\ Len(l) \in Nat /\ DOMAIN l = 1 .. Len(l)
           /\ \A a \in DOMAIN l : /\ a \in Nat /\ a > 0 /\ l[a] \in [device : Device, alive : BOOLEAN]
                                  /\ l[a].device \in Device /\ l[a].alive \in BOOLEAN
<1>1. l \in Seq([device : Device, alive : BOOLEAN])
  BY DEF Listing
<1>2. Len(l) \in Nat /\ DOMAIN l = 1 .. Len(l)
  BY <1>1, LenProperties
<1>3. ASSUME NEW a \in DOMAIN l
      PROVE  a \in Nat /\ a > 0 /\ l[a] \in [device : Device, alive : BOOLEAN]
  <2>1. a \in 1 .. Len(l)
    BY <1>2
  <2>2. l[a] \in [device : Device, alive : BOOLEAN]
    BY <1>1, <2>1, ElementOfSeq
  <2> QED
    BY <2>1, <2>2, <1>2
<1> QED
  BY <1>2, <1>3

\* The items of a mount of the disk at place a of the list.
Mount(a) ==
    LET d == list[a].device IN
    IF list[a].alive /\ bus.kind[d] = "disk"
    THEN ReadSectors(d, a) \o <<Item("initialise", d, a, 0)>> ELSE <<>>

Mounted(s) ==
    /\ s \in Seq(Items)
    /\ \A k \in DOMAIN s :
          /\ s[k].do \in {"read", "reply", "initialise"}
          /\ s[k].device \in Device /\ Named(list, s[k].to, s[k].device) /\ s[k].to > 0
          /\ list[s[k].to].alive

LastOnly(s) == \A k \in DOMAIN s : s[k].do \in LateDo => k = Len(s)

LEMMA NoneMounted == Mounted(<<>>) /\ LastOnly(<<>>)
<1> DEFINE e == <<>>
<1>1. e \in Seq(Items) /\ DOMAIN e = {}
  OBVIOUS
<1> HIDE DEF e
<1>2. Mounted(e) /\ LastOnly(e)
  BY <1>1 DEF Mounted, LastOnly
<1> QED
  BY <1>2 DEF e

LEMMA MountIs ==
    ASSUME list \in Listing, NEW a \in DOMAIN list
    PROVE  /\ Mounted(Mount(a)) /\ LastOnly(Mount(a))
           /\ Mount(a) # <<>> => bus.kind[list[a].device] = "disk"
<1>1. a \in Nat /\ a > 0 /\ list[a] \in [device : Device, alive : BOOLEAN]
  BY ListingIs
<1> DEFINE d == list[a].device
<1>2. d \in Device
  BY <1>1
<1>3. CASE list[a].alive /\ bus.kind[d] = "disk"
  <2> DEFINE R == Item("read", d, a, 0)  P == Item("reply", d, a, 0)  I == Item("initialise", d, a, 0)
             u == <<R, P>>  v == <<I>>  s == u \o v
  <2>1. /\ R \in Items /\ P \in Items /\ I \in Items
        /\ R.do = "read" /\ P.do = "reply" /\ I.do = "initialise"
        /\ \A i \in {R, P, I} : i.device = d /\ i.to = a
    <3>1. "read" \in Dos /\ "reply" \in Dos /\ "initialise" \in Dos /\ d \in Device \cup {Nobody} /\ 0 \in Nat
      BY DosDistinct, <1>2
    <3> QED
      BY <3>1, <1>1, ItemIn
  <2>2. Mount(a) = s
    BY <1>3 DEF Mount, ReadSectors
  <2> HIDE DEF R, P, I
  <2>7. u \in Seq(Items) /\ v \in Seq(Items) /\ Len(u) = 2 /\ Len(v) = 1 /\ u[1] = R /\ u[2] = P /\ v[1] = I
    BY <2>1
  <2> HIDE DEF u, v
  <2>8. /\ s \in Seq(Items) /\ Len(s) = Len(u) + Len(v)
        /\ \A i \in 1 .. Len(u) + Len(v) : s[i] = IF i <= Len(u) THEN u[i] ELSE v[i - Len(u)]
    BY <2>7, ConcatProperties
  <2> HIDE DEF s
  <2>9. s \in Seq(Items) /\ Len(s) = 3 /\ s[1] = R /\ s[2] = P /\ s[3] = I
    BY <2>7, <2>8
  <2>3. s \in Seq(Items) /\ Len(s) = 3 /\ DOMAIN s = 1 .. 3 /\ s[1] = R /\ s[2] = P /\ s[3] = I
    BY <2>9, LenProperties
  <2> HIDE DEF s
  <2>4. \A k \in DOMAIN s : s[k] \in {R, P, I}
    BY <2>3
  <2>5. Mounted(s)
    BY <2>1, <2>3, <2>4, <1>1, <1>2, <1>3 DEF Mounted, Named
  <2>6. LastOnly(s)
    BY <2>1, <2>3 DEF LastOnly, LateDo
  <2> QED
    BY <2>2, <2>5, <2>6, <1>3
<1>4. CASE ~(list[a].alive /\ bus.kind[d] = "disk")
  <2>1. Mount(a) = <<>>
    BY <1>4 DEF Mount
  <2> QED
    BY <2>1, NoneMounted
<1> QED
  BY <1>3, <1>4

LEMMA MountedJoined ==
    ASSUME NEW s, NEW t, Mounted(s), Mounted(t)
    PROVE  Mounted(s \o t)
<1> DEFINE r == s \o t
<1>1. s \in Seq(Items) /\ t \in Seq(Items)
  BY DEF Mounted
<1>2. /\ r \in Seq(Items) /\ \A k \in DOMAIN s : r[k] = s[k]
      /\ \A k \in DOMAIN r : k \in DOMAIN s \/ (k > Len(s) /\ k - Len(s) \in DOMAIN t /\ r[k] = t[k - Len(s)])
  BY <1>1, Joined
<1> HIDE DEF r
<1>3. Mounted(r)
  BY <1>2 DEF Mounted
<1> QED
  BY <1>3 DEF r

\* mount() of each disk; of the only one, if there is one.
LEMMA MountsIs ==
    ASSUME list \in Listing, \A a, b \in DOMAIN list : list[a].device = list[b].device => a = b
    PROVE  Mounted(Mounts) /\ (OneDisk => LastOnly(Mounts))
<1> DEFINE m == Len(list)
           q == [a \in DOMAIN list |-> Mount(a)]
<1>1. m \in Nat /\ DOMAIN list = 1 .. m /\ \A a \in DOMAIN list : list[a].device \in Device
  BY ListingIs
<1>2. Mounts = FlattenSeq(q)
  BY DEF Mounts, Mount
<1>3. \A a \in 1 .. m : /\ Mounted(Mount(a)) /\ LastOnly(Mount(a)) /\ Mount(a) \in Seq(Items)
                        /\ Mount(a) # <<>> => bus.kind[list[a].device] = "disk"
  BY <1>1, MountIs DEF Mounted
<1>4. q \in Seq(Seq(Items)) /\ Len(q) = m /\ \A a \in 1 .. m : q[a] = Mount(a)
  <2>1. q = [a \in 1 .. m |-> Mount(a)]
    BY <1>1
  <2> QED
    BY <1>1, <1>3, <2>1
<1> HIDE DEF q, m
<1>5. CASE m = 0
  <2>1. q = <<>>
    BY <1>4, <1>5, EmptySeq
  <2>2. FlattenSeq(q) = <<>>
    BY <2>1, <1>4, <1>5 DEF FlattenSeq
  <2> QED
    BY <2>2, <1>2, NoneMounted
<1>6. CASE m # 0
  <2>1. q # <<>>
    BY <1>4, <1>6
  <2>0. PICK f : /\ FlattenSeq(q) = f[Len(q)] /\ f[1] = q[1]
                 /\ \A i \in 2 .. Len(q) : f[i] = f[i - 1] \o q[i]
    <3>1. q \in Seq(Seq(Items))
      BY <1>4
    <3> QED
      BY <3>1, <2>1, FlattenIs
  <2>2. /\ FlattenSeq(q) = f[m] /\ f[1] = q[1]
        /\ \A i \in 2 .. m : f[i] = f[i - 1] \o q[i]
    BY <2>0, <1>4
  <2> DEFINE G(n) == /\ Mounted(f[n])
                     /\ OneDisk => LastOnly(f[n])
                     /\ f[n] # <<>> => \E a \in 1 .. n : bus.kind[list[a].device] = "disk"
             N == {n \in Nat : n \in 1 .. m => G(n)}
  <2>3. 0 \in N
    OBVIOUS
  <2>4. ASSUME NEW n \in Nat, n \in N PROVE n + 1 \in N
    <3> SUFFICES ASSUME n + 1 \in 1 .. m PROVE G(n + 1)
      OBVIOUS
    <3>1. CASE n = 0
      <4>1. f[n + 1] = Mount(n + 1) /\ n + 1 \in 1 .. n + 1
        BY <3>1, <2>2, <1>4
      <4> QED
        BY <4>1, <1>3
    <3>2. CASE n # 0
      <4>1. n \in 1 .. m /\ n + 1 \in 2 .. m /\ (n + 1) - 1 = n
        BY <3>2, <1>1
      <4>2. f[n + 1] = f[n] \o Mount(n + 1)
        BY <4>1, <2>2, <1>4
      <4>3. G(n)
        BY <2>4, <4>1
      <4>4. Mounted(f[n + 1])
        BY <4>2, <4>3, <1>3, MountedJoined
      <4>5. CASE Mount(n + 1) = <<>>
        <5>1. f[n + 1] = f[n]
          <6>1. f[n] \in Seq(Items)
            BY <4>3 DEF Mounted
          <6> QED
            BY <6>1, <4>2, <4>5, ConcatEmptySeq
        <5>2. 1 .. n \subseteq 1 .. n + 1
          BY <3>2
        <5> QED
          BY <5>1, <5>2, <4>3
      <4>6. CASE Mount(n + 1) # <<>>
        <5>1. bus.kind[list[n + 1].device] = "disk" /\ n + 1 \in 1 .. n + 1
          BY <4>6, <1>3
        <5>2. ASSUME OneDisk PROVE f[n] = <<>>
          <6> SUFFICES ASSUME f[n] # <<>> PROVE FALSE
            OBVIOUS
          <6>1. PICK a \in 1 .. n : bus.kind[list[a].device] = "disk"
            BY <4>3
          <6>2. a \in DOMAIN list /\ n + 1 \in DOMAIN list /\ a # n + 1
            BY <4>1, <1>1
          <6>3. list[a].device = list[n + 1].device
            BY <5>1, <5>2, <6>1, <6>2, <1>1, OneDiskIs
          <6> QED
            BY <6>2, <6>3
        <5>3. OneDisk => f[n + 1] = Mount(n + 1)
          <6>1. Mount(n + 1) \in Seq(Items)
            BY <1>3
          <6> QED
            BY <5>2, <6>1, <4>2, ConcatEmptySeq
        <5> QED
          BY <5>1, <5>3, <4>4, <1>3
      <4> QED
        BY <4>5, <4>6
    <3> QED
      BY <3>1, <3>2
  <2>5. Nat \subseteq N
    <3> HIDE DEF N
    <3> QED
      BY <2>3, <2>4, EveryNumber
  <2>6. G(m)
    BY <2>5, <1>1, <1>6
  <2> QED
    BY <2>2, <2>6, <1>2
<1> QED
  BY <1>5, <1>6

\* A mount goes on, or the mounts begin.
LEMMA OrderedMount ==
    ASSUME NEW l, NEW s, Ordered(l, s), s # <<>>, Mounting(s) \/ Len(s) = 1, OneDisk => Len(s) = 1,
           NEW x \in Seq(Items), \A k \in DOMAIN x : Valid(l, x[k]) /\ x[k].do \in MountDo,
           OneDisk => LastOnly(x)
    PROVE  Ordered(l, x \o Tail(s)) /\ Mounting(x \o Tail(s))
<1> DEFINE r == x \o Tail(s)
<1>1. s \in Seq(Items) /\ \A k \in DOMAIN s : Valid(l, s[k])
  BY DEF Ordered
<1>2. /\ r \in Seq(Items) /\ Len(r) = Len(x) + Len(s) - 1 /\ DOMAIN r = 1 .. Len(x) + Len(s) - 1
      /\ Len(x) \in Nat /\ Len(s) \in Nat /\ Len(s) >= 1 /\ DOMAIN s = 1 .. Len(s) /\ DOMAIN x = 1 .. Len(x)
      /\ \A k \in DOMAIN x : r[k] = x[k]
      /\ \A k \in DOMAIN r : k \notin DOMAIN x =>
            k - Len(x) + 1 \in DOMAIN s /\ k - Len(x) + 1 # 1 /\ r[k] = s[k - Len(x) + 1]
  BY <1>1, Stacked
<1> HIDE DEF r
<1>3. \A k \in DOMAIN r : r[k].do \in MountDo /\ Valid(l, r[k])
  <2> SUFFICES ASSUME NEW k \in DOMAIN r PROVE r[k].do \in MountDo /\ Valid(l, r[k])
    OBVIOUS
  <2>1. CASE k \in DOMAIN x
    BY <2>1, <1>2
  <2>2. CASE k \notin DOMAIN x
    <3>1. k - Len(x) + 1 \in DOMAIN s /\ k - Len(x) + 1 # 1 /\ r[k] = s[k - Len(x) + 1]
      BY <2>2, <1>2
    <3>2. Mounting(s)
      BY <3>1, <1>2
    <3> QED
      BY <3>1, <3>2, <1>1 DEF Mounting
  <2> QED
    BY <2>1, <2>2
<1>4. OneDisk => \A k \in DOMAIN r : r[k].do \in LateDo => k = Len(r)
  <2> SUFFICES ASSUME OneDisk, NEW k \in DOMAIN r, r[k].do \in LateDo PROVE k = Len(r)
    OBVIOUS
  <2>1. k \in DOMAIN x /\ Len(r) = Len(x)
    BY <1>2
  <2> QED
    BY <2>1, <1>2 DEF LastOnly
<1>5. \A k \in DOMAIN r : r[k].do \notin {"connect", "reset", "enumerate"}
  BY <1>3 DEF MountDo
<1>6. Mounting(r) /\ Shape(r)
  BY <1>3, <1>4, <1>5 DEF Mounting, Shape
<1>7. Tree(l, r)
  BY <1>5 DEF Ordered, Tree
<1> QED
  BY <1>2, <1>3, <1>6, <1>7 DEF Ordered, r

-----------------------------------------------------------------------------
(* The stages of the boot thread *)

Toggles == [Endpoint -> {0, 1}]
Bits    == SUBSET (0 .. 15)
Phases  == {"out", "filled", "started", "asleep", "woken"}
Queues  == [by : Thread, request : Items \cup {<<>>}, left : Nat, halted : BOOLEAN, dt : Toggles]

UsbTypes ==
    /\ signals \in Nat /\ asleep \in Seq(Thread) /\ phase \in [Thread -> Phases]
    /\ schedule \in BOOLEAN
    /\ queue \in Queues
    /\ queue.left > 0 =>
          queue.request \in Items /\ queue.request.do \in RequestDo /\ queue.request.device \in Device
    /\ toggle \in [Device -> Bits] /\ expects \in [Device -> Toggles]
    /\ isr \in {"none", "port"} /\ ui \in BOOLEAN /\ pci \in BOOLEAN /\ ccs \in BOOLEAN
    /\ address \in [Device -> Int] /\ changes \in Nat /\ stalls \in Nat
    /\ bus \in Buses
    /\ todo \in [Thread -> Seq(Items)]
    /\ list \in Listing
    /\ volume \in Device \cup {Nobody} /\ dead \in BOOLEAN

\* The server has nothing but reads, and before the volume is good, nothing; after
\* that the boot thread is mounting other disks, if there are others.
Serving(l, s) ==
    /\ s \in Seq(Items)
    /\ \A k \in DOMAIN s : Valid(l, s[k]) /\ s[k].do \in {"read", "reply"}

Stages ==
    /\ Ordered(list, todo[Boot])
    /\ Serving(list, todo[Server])
    /\ dead => todo[Server] = <<>>
    /\ volume # Nobody => Mounting(todo[Boot])
    /\ ~dead => Mounting(todo[Boot]) /\ (OneDisk => todo[Boot] = <<>>)

LEMMA BusStays ==
    ASSUME bus' = bus
    PROVE  /\ \A l, s : Ordered(l, s)' <=> Ordered(l, s)
           /\ \A l, s : Serving(l, s)' <=> Serving(l, s)
           /\ OneDisk' <=> OneDisk
<1>1. OneDisk' <=> OneDisk
  BY DEF OneDisk, Disks
<1>2. \A i : Enumerated(i)' = Enumerated(i)
  BY DEF Enumerated
<1>3. \A l, i : Valid(l, i)' <=> Valid(l, i)
  BY DEF Valid
<1>4. \A l, s : Tree(l, s)' <=> Tree(l, s)
  BY <1>2 DEF Tree
<1>5. \A l, s : Shape(s)' <=> Shape(s)
  BY <1>1 DEF Shape
<1>6. \A l, s : Serving(l, s)' <=> Serving(l, s)
  BY <1>3 DEF Serving
<1> QED
  BY <1>1, <1>3, <1>4, <1>5, <1>6 DEF Ordered

LEMMA StagesStay ==
    ASSUME Stages, UNCHANGED <<bus, list, volume, dead, todo>>
    PROVE  Stages'
<1>1. Ordered(list, todo[Boot])'
  BY BusStays DEF Stages
<1> QED
  BY <1>1, BusStays DEF Stages, Mounting

LEMMA OrderedIs ==
    ASSUME NEW l, NEW s, Ordered(l, s)
    PROVE  /\ s \in Seq(Items) /\ Len(s) \in Nat /\ DOMAIN s = 1 .. Len(s)
           /\ \A k \in DOMAIN s : Valid(l, s[k]) /\ s[k] \in Items
           /\ s # <<>> => Len(s) >= 1 /\ 1 \in DOMAIN s /\ Head(s) = s[1]
  BY LenProperties, EmptySeq, ElementOfSeq DEF Ordered

LEMMA PopIs ==
    ASSUME NEW s \in Seq(Items), s # <<>>
    PROVE  <<>> \o Tail(s) = After(s, 1)
<1>1. Tail(s) \in Seq(Items)
  BY HeadTailProperties
<1>2. Tail(s) = After(s, 1)
  BY TailIsSubSeq DEF After
<1> QED
  BY <1>1, <1>2, ConcatEmptySeq

\* Then, for one of the threads.
LEMMA ThenIs ==
    ASSUME UsbTypes, NEW t \in Thread, NEW x, Then(t, x)
    PROVE  /\ todo'[t] = x \o Tail(todo[t])
           /\ \A u \in Thread : u # t => todo'[u] = todo[u]
           /\ DOMAIN todo' = Thread
           /\ x = <<>> /\ todo[t] # <<>> => todo'[t] = After(todo[t], 1)
<1>1. todo \in [Thread -> Seq(Items)]
  BY DEF UsbTypes
<1>2. /\ todo'[t] = x \o Tail(todo[t]) /\ \A u \in Thread : u # t => todo'[u] = todo[u]
      /\ DOMAIN todo' = Thread
  BY <1>1 DEF Then
<1> QED
  BY <1>1, <1>2, PopIs

\* What a caller has left when a request has returned.
Kept(s, r) ==
    \/ s[1].do = "poll" /\ r = s
    \/ s[1].do = "test" /\ r = <<[s[1] EXCEPT !.n = @ + 1]>> \o Tail(s)
    \/ \E c \in 1 .. Len(s) :
          /\ \A j \in 1 .. c : s[j].device = s[1].device
          /\ c = 1 \/ s[1].do = "test" \/ ~Done
          /\ r = After(s, c)

LEMMA DropIs ==
    ASSUME UsbTypes, NEW t \in Thread, NEW c, c \in Own(t), Drop(t, c)
    PROVE  /\ c \in 1 .. Len(todo[t]) /\ \A j \in 1 .. c : todo[t][j].device = Head(todo[t]).device
           /\ todo'[t] = After(todo[t], c)
           /\ \A u \in Thread : u # t => todo'[u] = todo[u]
           /\ DOMAIN todo' = Thread
<1>1. todo \in [Thread -> Seq(Items)]
  BY DEF UsbTypes
<1>2. DOMAIN todo[t] = 1 .. Len(todo[t])
  BY <1>1, LenProperties
<1>3. todo' = [todo EXCEPT ![t] = After(todo[t], c)]
  BY <1>1 DEF Drop, After
<1> QED
  BY <1>1, <1>2, <1>3 DEF Own

LEMMA ReturnedIs ==
    ASSUME UsbTypes, NEW t \in Thread, todo[t] # <<>>, Returned(t)
    PROVE  /\ Kept(todo[t], todo'[t])
           /\ \A u \in Thread : u # t => todo'[u] = todo[u]
           /\ DOMAIN todo' = Thread
<1> DEFINE s == todo[t]  item == Head(s)
<1>1. todo \in [Thread -> Seq(Items)] /\ s \in Seq(Items)
  BY DEF UsbTypes
<1>2. Len(s) \in Nat /\ Len(s) >= 1 /\ item = s[1]
  BY <1>1, LenProperties, EmptySeq
<1> DEFINE Popped == Then(t, <<>>)
           Q == /\ Kept(todo[t], todo'[t])
                /\ \A u \in Thread : u # t => todo'[u] = todo[u]
                /\ DOMAIN todo' = Thread
<1>3. ASSUME Popped PROVE Q
  <2>1. /\ todo'[t] = After(s, 1)
        /\ \A u \in Thread : u # t => todo'[u] = todo[u]
        /\ DOMAIN todo' = Thread
    BY <1>3, ThenIs
  <2>2. 1 \in 1 .. Len(s) /\ \A j \in 1 .. 1 : s[j].device = s[1].device
    BY <1>2
  <2> QED
    BY <2>1, <2>2 DEF Kept
<1>4. ASSUME NEW c \in Own(t), Drop(t, c), item.do = "test" \/ ~Done PROVE Q
  <2>1. /\ c \in 1 .. Len(s) /\ \A j \in 1 .. c : s[j].device = s[1].device
        /\ todo'[t] = After(s, c)
        /\ \A u \in Thread : u # t => todo'[u] = todo[u]
        /\ DOMAIN todo' = Thread
    BY <1>2, <1>4, DropIs
  <2> QED
    BY <2>1, <1>2, <1>4 DEF Kept
<1>5. ASSUME GiveUp(t), item.do = "test" \/ ~Done PROVE Q
  <2>1. PICK c \in Own(t) : Drop(t, c)
    BY <1>5 DEF GiveUp
  <2> QED
    BY <2>1, <1>4, <1>5
<1>6. ASSUME item.do = "test", Then(t, <<[item EXCEPT !.n = @ + 1]>>) PROVE Q
  <2>1. /\ todo'[t] = <<[item EXCEPT !.n = @ + 1]>> \o Tail(s)
        /\ \A u \in Thread : u # t => todo'[u] = todo[u]
        /\ DOMAIN todo' = Thread
    BY <1>6, ThenIs
  <2> QED
    BY <2>1, <1>2, <1>6 DEF Kept
<1>7. CASE item.do = "test"
  <2>1. \/ Popped
        \/ Then(t, <<[item EXCEPT !.n = @ + 1]>>)
        \/ GiveUp(t)
    BY <1>7 DEF Returned
  <2> QED
    BY <2>1, <1>3, <1>5, <1>6, <1>7
<1>8. CASE item.do = "reply"
  <2>1. Popped \/ (~Done /\ GiveUp(t))
    BY <1>8 DEF Returned
  <2> QED
    BY <2>1, <1>3, <1>5
<1>9. CASE item.do = "query"
  <2>1. Popped \/ (~Done /\ \E c \in Own(t) : Drop(t, c))
    BY <1>9 DEF Returned
  <2> QED
    BY <2>1, <1>3, <1>4
<1>10. CASE item.do = "poll"
  <2>1. todo' = todo
    BY <1>10 DEF Returned
  <2> QED
    BY <2>1, <1>1, <1>2, <1>10 DEF Kept
<1>11. CASE item.do \notin {"test", "reply", "query", "poll"}
  <2>1. Popped
    BY <1>11 DEF Returned
  <2> QED
    BY <2>1, <1>3
<1> QED
  BY <1>7, <1>8, <1>9, <1>10, <1>11

LEMMA OrderedKept ==
    ASSUME NEW l, NEW s, Ordered(l, s), s # <<>>, s[1].do \in RequestDo, NEW r, Kept(s, r)
    PROVE  Ordered(l, r) /\ (Mounting(s) => Mounting(r))
<1>1. /\ s \in Seq(Items) /\ Len(s) \in Nat /\ DOMAIN s = 1 .. Len(s) /\ 1 \in DOMAIN s
      /\ \A k \in DOMAIN s : Valid(l, s[k]) /\ s[k] \in Items
  BY OrderedIs
<1>2. s[1].do \notin {"manage", "connect", "reset", "enumerate"}
  BY DosDistinct
<1>3. s[1].device # Nobody
  BY <1>1, <1>2 DEF Valid
<1>4. CASE s[1].do = "poll" /\ r = s
  BY <1>4
<1>5. CASE s[1].do = "test" /\ r = <<[s[1] EXCEPT !.n = @ + 1]>> \o Tail(s)
  <2> DEFINE i == [s[1] EXCEPT !.n = @ + 1]
  <2>1. s[1] \in Items
    BY <1>1
  <2>2. i \in Items /\ i.do = s[1].do /\ i.device = s[1].device /\ i.to = s[1].to
    BY <2>1 DEF Items
  <2> HIDE DEF i
  <2>3. Ordered(l, <<i>> \o Tail(s))
    BY <2>2, <1>5, OrderedAgain
  <2>4. ~Mounting(s)
    BY <1>1, <1>5 DEF Mounting, MountDo
  <2> QED
    BY <2>3, <2>4, <1>5 DEF i
<1>6. ASSUME NEW c \in 1 .. Len(s), \A j \in 1 .. c : s[j].device = s[1].device, r = After(s, c)
      PROVE  Ordered(l, r) /\ (Mounting(s) => Mounting(r))
  <2>1. \A j \in 1 .. c : j \in DOMAIN s
    BY <1>1, <1>6
  <2>2. \A j \in 1 .. c : s[j].do # "manage"
    BY <2>1, <1>1, <1>3, <1>6 DEF Valid
  <2>3. Ordered(l, r)
    BY <2>2, <1>2, <1>6, OrderedAfter
  <2>4. c \in 0 .. Len(s)
    BY <1>1
  <2>5. /\ DOMAIN r = 1 .. Len(s) - c
        /\ \A k \in 1 .. Len(s) - c : k + c \in 1 .. Len(s) /\ r[k] = s[k + c]
    BY <2>4, <1>1, <1>6, Shifted
  <2>6. Mounting(s) => Mounting(r)
    BY <2>5, <1>1 DEF Mounting
  <2> QED
    BY <2>3, <2>6
<1> QED
  BY <1>4, <1>5, <1>6 DEF Kept

LEMMA ServingKept ==
    ASSUME NEW l, NEW s, Serving(l, s), s # <<>>, NEW r, Kept(s, r)
    PROVE  Serving(l, r)
<1>1. s \in Seq(Items) /\ Len(s) \in Nat /\ DOMAIN s = 1 .. Len(s) /\ 1 \in DOMAIN s
  BY LenProperties, EmptySeq DEF Serving
<1>2. s[1].do \in {"read", "reply"}
  BY <1>1 DEF Serving
<1>3. PICK c \in 1 .. Len(s) : r = After(s, c)
  BY <1>2 DEF Kept
<1>4. c \in 0 .. Len(s)
  BY <1>1
<1>5. /\ r \in Seq(Items) /\ DOMAIN r = 1 .. Len(s) - c
      /\ \A k \in 1 .. Len(s) - c : k + c \in 1 .. Len(s) /\ r[k] = s[k + c]
  BY <1>1, <1>3, <1>4, Shifted
<1> QED
  BY <1>1, <1>5 DEF Serving

\* A step of the boot thread that lets Mounting be.
LEMMA BootStages ==
    ASSUME UsbTypes, Stages, todo[Boot] # <<>>,
           bus' = bus, volume' = volume, dead' = dead, todo'[Server] = todo[Server],
           Ordered(list', todo'[Boot]), Serving(list', todo[Server]),
           Mounting(todo[Boot]) => Mounting(todo'[Boot])
    PROVE  Stages'
<1>1. Ordered(list, todo[Boot])' /\ Serving(list, todo[Server])'
  BY BusStays
<1>2. dead \/ ~OneDisk
  BY DEF Stages
<1>3. volume' # Nobody => Mounting(todo[Boot])'
  BY DEF Stages, Mounting
<1>4. ~dead' => Mounting(todo[Boot])'
  BY DEF Stages, Mounting
<1> QED
  BY <1>1, <1>2, <1>3, <1>4, BusStays DEF Stages

LEMMA PopStages ==
    ASSUME UsbTypes, Stages, todo[Boot] # <<>>, todo[Boot][1].do # "manage",
           Then(Boot, <<>>), UNCHANGED <<bus, list, volume, dead>>
    PROVE  Stages'
<1> DEFINE s == todo[Boot]
<1>1. Ordered(list, s) /\ Boot \in Thread /\ Server \in Thread /\ Boot # Server
  BY ThreadsAssumption DEF Stages
<1>2. /\ s \in Seq(Items) /\ Len(s) \in Nat /\ DOMAIN s = 1 .. Len(s) /\ 1 \in 1 .. Len(s) /\ 1 \in 0 .. Len(s)
  BY <1>1, OrderedIs
<1>3. todo'[Boot] = After(s, 1) /\ todo'[Server] = todo[Server]
  BY <1>1, ThenIs
<1>4. Ordered(list, After(s, 1))
  BY <1>1, <1>2, OrderedAfter
<1>5. /\ DOMAIN After(s, 1) = 1 .. Len(s) - 1
      /\ \A k \in 1 .. Len(s) - 1 : k + 1 \in 1 .. Len(s) /\ After(s, 1)[k] = s[k + 1]
  BY <1>2, Shifted
<1>6. Mounting(s) => Mounting(After(s, 1))
  BY <1>2, <1>5 DEF Mounting
<1> QED
  BY <1>3, <1>4, <1>6, BootStages DEF Stages

LEMMA AtIs ==
    ASSUME UsbTypes, Stages, NEW do, At(Boot, do)
    PROVE  /\ todo[Boot] # <<>> /\ Head(todo[Boot]) = todo[Boot][1] /\ todo[Boot][1].do = do
           /\ Boot \in Thread /\ Server \in Thread /\ Boot # Server
           /\ Ordered(list, todo[Boot]) /\ todo[Boot] \in Seq(Items)
           /\ 1 \in DOMAIN todo[Boot] /\ todo[Boot][1] \in Items /\ Valid(list, todo[Boot][1])
<1>1. Ordered(list, todo[Boot]) /\ todo[Boot] # <<>>
  BY DEF Stages, At
<1>2. /\ Head(todo[Boot]) = todo[Boot][1] /\ 1 \in DOMAIN todo[Boot] /\ todo[Boot] \in Seq(Items)
      /\ todo[Boot][1] \in Items /\ Valid(list, todo[Boot][1])
  BY <1>1, OrderedIs
<1> QED
  BY <1>1, <1>2, ThreadsAssumption DEF At

LEMMA EnumerateStages ==
    ASSUME UsbTypes, Stages, Enumerate
    PROVE  Stages' /\ list' \in Listing
<1> DEFINE s == todo[Boot]  d == Enumerated(Head(s))  a == Len(list) + 1
           m == Append(list, [device |-> d, alive |-> FALSE])
<1>1. /\ s # <<>> /\ Head(s) = s[1] /\ s[1].do = "enumerate" /\ Ordered(list, s)
      /\ Boot \in Thread /\ Server \in Thread /\ Boot # Server /\ 1 \in DOMAIN s
  BY AtIs DEF Enumerate
<1>2. bus \in Buses /\ list \in Listing
  BY DEF UsbTypes
<1>3. CASE Full
  <2>1. Then(Boot, <<>>) /\ list' = list
    BY <1>3 DEF Enumerate
  <2> QED
    BY <2>1, <1>1, <1>2, PopStages DEF Enumerate
<1>4. CASE ~Full
  <2>1. list' = m /\ Then(Boot, IF bus.kind[d] = "oversize" THEN Oversize(d) ELSE Identify(d, a))
    BY <1>4 DEF Enumerate
  <2>2. d \in Device /\ m \in Listing /\ Named(m, a, d) /\ \A x : Script(m, x, d) => Ordered(m, x \o Tail(s))
    BY <1>1, <1>2, OrderedEnumerate
  <2>3. \E x : Script(m, x, d) /\ Then(Boot, x)
    <3>1. CASE bus.kind[d] = "oversize"
      BY <3>1, <2>1, <2>2, OversizeScript
    <3>2. CASE bus.kind[d] # "oversize"
      <4>1. a \in Nat /\ a > 0
        BY <1>2, ListingIs
      <4>2. PICK z \in Nat : Identified(Identify(d, a), d, a, z)
        BY <4>1, <2>2, <1>2, IdentifyIdentified
      <4>3. Script(m, Identify(d, a), d)
        BY <4>1, <4>2, <2>2, IdentifiedScript
      <4> QED
        BY <4>3, <3>2, <2>1
    <3> QED
      BY <3>1, <3>2
  <2>4. PICK x : Script(m, x, d) /\ Then(Boot, x)
    BY <2>3
  <2>5. todo'[Boot] = x \o Tail(s) /\ todo'[Server] = todo[Server]
    BY <2>4, <1>1, ThenIs
  <2>6. Ordered(list', todo'[Boot])
    BY <2>1, <2>2, <2>4, <2>5
  <2>7. Serving(list', todo[Server])
    <3>1. \A b, e : Named(list, b, e) => Named(m, b, e)
      <4>1. list \in Seq([device : Device, alive : BOOLEAN]) /\ [device |-> d, alive |-> FALSE] \in [device : Device, alive : BOOLEAN]
        BY <1>2, <2>2 DEF Listing
      <4>2. Len(m) = Len(list) + 1 /\ \A b \in 1 .. Len(list) : m[b] = list[b]
        BY <4>1, AppendProperties
      <4>3. DOMAIN list = 1 .. Len(list) /\ DOMAIN m = 1 .. Len(m) /\ Len(list) \in Nat
        BY <1>2, <2>2, ListingIs
      <4> HIDE DEF m
      <4> QED
        BY <4>2, <4>3 DEF Named
    <3> QED
      BY <3>1, <2>1, ValidGrows DEF Stages, Serving
  <2>8. ~Mounting(s)
    BY <1>1 DEF Mounting, MountDo
  <2>9. Stages'
    BY <2>5, <2>6, <2>7, <2>8, <1>1, BootStages DEF Enumerate
  <2> QED
    BY <2>1, <2>2, <2>9
<1> QED
  BY <1>3, <1>4

LEMMA UpStages ==
    ASSUME UsbTypes, Stages, Up
    PROVE  Stages' /\ list' \in Listing
<1> DEFINE s == todo[Boot]  b == Head(s).to  m == [list EXCEPT ![b].alive = TRUE]
<1>1. /\ s # <<>> /\ Head(s) = s[1] /\ s[1].do = "up" /\ Ordered(list, s)
      /\ Boot \in Thread /\ Server \in Thread /\ Boot # Server /\ 1 \in DOMAIN s
      /\ s[1] \in Items /\ Valid(list, s[1])
  BY AtIs DEF Up
<1>2. list' = m /\ Then(Boot, <<>>)
  BY DEF Up
<1>3. list \in Listing
  BY DEF UsbTypes
<1>4. b \in DOMAIN list
  BY <1>1 DEF Valid, Items, Named
<1>5. DOMAIN m = DOMAIN list /\ \A a \in DOMAIN list : m[a].device = list[a].device
  <2>1. list[b] \in [device : Device, alive : BOOLEAN]
    BY <1>3, <1>4, ListingIs
  <2> QED
    BY <2>1, <1>4
<1>6. m \in Listing
  <2>1. \A a \in DOMAIN list : m[a] \in [device : Device, alive : BOOLEAN]
    BY <1>3, <1>4, ListingIs
  <2>2. list \in Seq([device : Device, alive : BOOLEAN]) /\ Len(list) \in Nat /\ DOMAIN list = 1 .. Len(list)
    BY <1>3, ListingIs DEF Listing
  <2>3. m = [a \in 1 .. Len(list) |-> m[a]]
    BY <2>2
  <2> HIDE DEF m
  <2> QED
    BY <2>1, <2>2, <2>3 DEF Listing
<1> HIDE DEF m
<1>7. Ordered(m, After(s, 1))
  <2>1. Ordered(list, After(s, 1))
    <3>1. 1 \in 1 .. Len(s) /\ 1 \in Nat
      BY <1>1, OrderedIs
    <3> QED
      BY <3>1, <1>1, OrderedAfter
  <2> QED
    BY <2>1, <1>3, <1>5, <1>6, OrderedUp
<1>8. todo'[Boot] = After(s, 1) /\ todo'[Server] = todo[Server]
  BY <1>1, <1>2, ThenIs
<1>9. Serving(m, todo[Server])
  <2>1. \A a, d : Named(list, a, d) => Named(m, a, d)
    BY <1>5 DEF Named
  <2> QED
    BY <2>1, ValidGrows DEF Stages, Serving
<1>10. ~Mounting(s)
  BY <1>1 DEF Mounting, MountDo
<1> QED
  BY <1>1, <1>2, <1>6, <1>7, <1>8, <1>9, <1>10, BootStages DEF Up

LEMMA DeviceManagerStages ==
    ASSUME UsbTypes, Stages, DeviceManager
    PROVE  Stages' /\ Mounting(todo'[Boot])
<1> DEFINE s == todo[Boot]
<1>1. /\ s # <<>> /\ s[1].do = "manage" /\ Ordered(list, s)
      /\ Boot \in Thread /\ Server \in Thread /\ Boot # Server /\ 1 \in DOMAIN s
  BY AtIs DEF DeviceManager
<1>2. list \in Listing /\ \A a, b \in DOMAIN list : list[a].device = list[b].device => a = b
  BY <1>1 DEF UsbTypes, Ordered, Tree
<1>3. Mounted(Mounts) /\ (OneDisk => LastOnly(Mounts))
  BY <1>2, MountsIs
<1>4. ~Mounting(s)
  BY <1>1 DEF Mounting, MountDo
<1>5. Len(s) = 1
  BY <1>1, <1>4 DEF Ordered, Shape, LateDo
<1>6. Mounts \in Seq(Items) /\ \A k \in DOMAIN Mounts : Valid(list, Mounts[k]) /\ Mounts[k].do \in MountDo
  <2>1. Mounts \in Seq(Items)
    BY <1>3 DEF Mounted
  <2>2. ASSUME NEW k \in DOMAIN Mounts PROVE Valid(list, Mounts[k]) /\ Mounts[k].do \in MountDo
    BY <1>3, NobodyIs DEF Mounted, Valid, MountDo
  <2> QED
    BY <2>1, <2>2
<1>7. Ordered(list, Mounts \o Tail(s)) /\ Mounting(Mounts \o Tail(s))
  BY <1>1, <1>3, <1>5, <1>6, OrderedMount
<1>8. todo'[Boot] = Mounts \o Tail(s) /\ todo'[Server] = todo[Server]
  BY <1>1, ThenIs DEF DeviceManager
<1> QED
  BY <1>1, <1>4, <1>7, <1>8, BootStages DEF DeviceManager, busVars, Stages

\* A read and something after it, or before it.
Three(x, d, a) ==
    /\ x \in Seq(Items) /\ Len(x) <= 3
    /\ \A k \in DOMAIN x : x[k].device = d /\ x[k].to = a /\ x[k].do \in {"read", "reply", "format", "good"}
    /\ LastOnly(x)

LEMMA ThreeIs ==
    ASSUME NEW d \in Device, NEW a \in Nat, NEW i \in Items, i.do \in {"format", "good"}, i.device = d, i.to = a
    PROVE  Three(ReadSectors(d, a) \o <<i>>, d, a)
<1> DEFINE R == Item("read", d, a, 0)  P == Item("reply", d, a, 0)  u == <<R, P>>  v == <<i>>  x == u \o v
<1>1. R \in Items /\ P \in Items /\ R.do = "read" /\ P.do = "reply" /\ \A j \in {R, P} : j.device = d /\ j.to = a
  <2>1. "read" \in Dos /\ "reply" \in Dos /\ d \in Device \cup {Nobody} /\ 0 \in Nat
    BY DosDistinct
  <2> QED
    BY <2>1, ItemIn
<1>2. ReadSectors(d, a) \o <<i>> = x
  BY DEF ReadSectors
<1> HIDE DEF R, P
<1>3. u \in Seq(Items) /\ v \in Seq(Items) /\ Len(u) = 2 /\ Len(v) = 1 /\ u[1] = R /\ u[2] = P /\ v[1] = i
  BY <1>1
<1> HIDE DEF u, v
<1>4. /\ x \in Seq(Items) /\ Len(x) = Len(u) + Len(v)
      /\ \A j \in 1 .. Len(u) + Len(v) : x[j] = IF j <= Len(u) THEN u[j] ELSE v[j - Len(u)]
  BY <1>3, ConcatProperties
<1> HIDE DEF x
<1>5. x \in Seq(Items) /\ Len(x) = 3 /\ x[1] = R /\ x[2] = P /\ x[3] = i
  BY <1>3, <1>4
<1>6. DOMAIN x = 1 .. 3
  BY <1>5, LenProperties
<1>7. Three(x, d, a)
  BY <1>1, <1>5, <1>6 DEF Three, LastOnly, LateDo
<1> QED
  BY <1>2, <1>7

\* The steps of a mount: nothing is put in front, or three items.
LEMMA MountStages ==
    ASSUME UsbTypes, Stages, todo[Boot] # <<>>, todo[Boot][1].do \in {"initialise", "format"},
           NEW x, x = <<>> \/ Three(x, todo[Boot][1].device, todo[Boot][1].to), Then(Boot, x),
           UNCHANGED <<bus, list, dead>>,
           volume' = volume \/ volume' \in Device
    PROVE  Stages' /\ Mounting(todo'[Boot])
<1> DEFINE s == todo[Boot]
<1>1. /\ Ordered(list, s) /\ Boot \in Thread /\ Server \in Thread /\ Boot # Server
      /\ s \in Seq(Items) /\ DOMAIN s = 1 .. Len(s) /\ Len(s) \in Nat /\ 1 \in DOMAIN s
      /\ s[1] \in Items /\ Valid(list, s[1])
  BY OrderedIs, ThreadsAssumption DEF Stages
<1>2. s[1].do \in LateDo
  BY DEF LateDo
<1>3. OneDisk => Len(s) = 1
  BY <1>1, <1>2 DEF Ordered, Shape
<1>4. Mounting(s)
  <2>1. ~(s # <<>> /\ s[Len(s)].do = "manage" /\ \A k \in DOMAIN s : k # Len(s) => s[k].do \notin LateDo)
    BY <1>1, <1>2
  <2> QED
    BY <2>1, <1>1 DEF Ordered, Shape
<1>5. /\ x \in Seq(Items) /\ \A k \in DOMAIN x : Valid(list, x[k]) /\ x[k].do \in MountDo
      /\ LastOnly(x)
  <2>1. CASE x = <<>>
    <3>1. Mounted(x) /\ LastOnly(x)
      BY <2>1, NoneMounted
    <3>2. DOMAIN x = {}
      BY <2>1
    <3> QED
      BY <3>1, <3>2 DEF Mounted
  <2>2. CASE Three(x, s[1].device, s[1].to)
    <3>1. s[1].device \in Device /\ s[1].to \in Nat /\ s[1].to > 0 /\ Named(list, s[1].to, s[1].device)
      BY <1>1 DEF Valid, Items
    <3>2. ASSUME NEW k \in DOMAIN x PROVE Valid(list, x[k]) /\ x[k].do \in MountDo
      BY <2>2, <3>1, NobodyIs DEF Three, Valid, MountDo
    <3> QED
      BY <2>2, <3>2 DEF Three
  <2> QED
    BY <2>1, <2>2
<1>6. Ordered(list, x \o Tail(s)) /\ Mounting(x \o Tail(s))
  BY <1>1, <1>3, <1>4, <1>5, OrderedMount
<1>7. todo'[Boot] = x \o Tail(s) /\ todo'[Server] = todo[Server]
  BY <1>1, ThenIs
<1>8. Ordered(list, todo[Boot])' /\ Serving(list, todo[Server])'
  BY <1>6, <1>7, BusStays DEF Stages
<1>9. Mounting(todo[Boot])'
  BY <1>6, <1>7 DEF Mounting
<1>10. dead \/ ~OneDisk
  BY DEF Stages
<1> QED
  BY <1>6, <1>7, <1>8, <1>9, <1>10, BusStays DEF Stages

LEMMA InitialiseStages ==
    ASSUME UsbTypes, Stages, Initialise
    PROVE  Stages' /\ volume' \in Device /\ Mounting(todo'[Boot])
<1> DEFINE i == todo[Boot][1]  f == [i EXCEPT !.do = "format"]
<1>1. /\ todo[Boot] # <<>> /\ Head(todo[Boot]) = i /\ i.do = "initialise" /\ i \in Items /\ Valid(list, i)
  BY AtIs DEF Initialise
<1>2. volume' = i.device /\ Then(Boot, ReadSectors(i.device, i.to) \o <<f>>)
  BY <1>1 DEF Initialise
<1>3. i.device \in Device /\ i.to \in Nat
  BY <1>1 DEF Valid, Items
<1>4. f \in Items /\ f.do = "format" /\ f.device = i.device /\ f.to = i.to
  <2>1. "format" \in Dos
    BY DosDistinct
  <2> QED
    BY <2>1, <1>1 DEF Items
<1> HIDE DEF f
<1>5. Three(ReadSectors(i.device, i.to) \o <<f>>, i.device, i.to)
  BY <1>3, <1>4, ThreeIs
<1> QED
  BY <1>1, <1>2, <1>3, <1>5, MountStages DEF Initialise

LEMMA FormatStages ==
    ASSUME UsbTypes, Stages, Format
    PROVE  Stages' /\ Mounting(todo'[Boot])
<1> DEFINE i == todo[Boot][1]  g == [i EXCEPT !.do = "good"]
<1>1. /\ todo[Boot] # <<>> /\ Head(todo[Boot]) = i /\ i.do = "format" /\ i \in Items /\ Valid(list, i)
  BY AtIs DEF Format
<1>2. Then(Boot, IF volume \in bus.fat THEN ReadSectors(i.device, i.to) \o <<g>> ELSE <<>>)
  BY <1>1 DEF Format, FSInfo
<1>3. i.device \in Device /\ i.to \in Nat
  BY <1>1 DEF Valid, Items
<1>4. g \in Items /\ g.do = "good" /\ g.device = i.device /\ g.to = i.to
  <2>1. "good" \in Dos
    BY DosDistinct
  <2> QED
    BY <2>1, <1>1 DEF Items
<1> HIDE DEF g
<1>5. Three(ReadSectors(i.device, i.to) \o <<g>>, i.device, i.to)
  BY <1>3, <1>4, ThreeIs
<1> QED
  BY <1>1, <1>2, <1>5, MountStages DEF Format, busVars

LEMMA GoodStages ==
    ASSUME UsbTypes, Stages, Good
    PROVE  Stages' /\ Mounting(todo'[Boot])
<1> DEFINE s == todo[Boot]
<1>1. /\ s # <<>> /\ s[1].do = "good" /\ Ordered(list, s) /\ s \in Seq(Items)
      /\ Boot \in Thread /\ Server \in Thread /\ Boot # Server /\ 1 \in DOMAIN s
  BY AtIs DEF Good
<1>2. /\ Len(s) \in Nat /\ DOMAIN s = 1 .. Len(s) /\ 1 \in 1 .. Len(s) /\ 1 \in 0 .. Len(s)
  BY <1>1, OrderedIs
<1>3. todo'[Boot] = After(s, 1) /\ todo'[Server] = todo[Server]
  BY <1>1, ThenIs DEF Good
<1>4. Ordered(list, After(s, 1))
  BY <1>1, <1>2, OrderedAfter
<1>5. /\ After(s, 1) \in Seq(Items) /\ Len(After(s, 1)) = Len(s) - 1 /\ DOMAIN After(s, 1) = 1 .. Len(s) - 1
      /\ \A k \in 1 .. Len(s) - 1 : k + 1 \in 1 .. Len(s) /\ After(s, 1)[k] = s[k + 1]
  <2>1. s \in Seq(Items) /\ 1 \in 0 .. Len(s)
    BY <1>1, <1>2
  <2> QED
    BY <2>1, Shifted
<1>6. s[1].do \in LateDo
  BY <1>1 DEF LateDo
<1>7. Mounting(s)
  <2>1. ~(s # <<>> /\ s[Len(s)].do = "manage" /\ \A k \in DOMAIN s : k # Len(s) => s[k].do \notin LateDo)
    BY <1>1, <1>6
  <2> QED
    BY <2>1, <1>1 DEF Ordered, Shape
<1>8. Mounting(After(s, 1))
  BY <1>2, <1>5, <1>7 DEF Mounting
<1>9. OneDisk => After(s, 1) = <<>>
  <2>1. OneDisk => Len(s) = 1
    BY <1>1, <1>6 DEF Ordered, Shape
  <2> QED
    BY <2>1, <1>5, EmptySeq
<1>10. Mounting(todo[Boot])'
  BY <1>3, <1>8 DEF Mounting
<1>11. Ordered(list, todo[Boot])' /\ Serving(list, todo[Server])'
  BY <1>3, <1>4, BusStays DEF Good, Stages
<1>12. dead' = FALSE
  BY DEF Good
<1> QED
  BY <1>3, <1>8, <1>9, <1>10, <1>11, <1>12, BusStays DEF Good, Stages

LEMMA ServeStages ==
    ASSUME UsbTypes, Stages, Serve
    PROVE  Stages'
<1>1. Boot \in Thread /\ Server \in Thread /\ Boot # Server /\ list \in Listing /\ todo \in [Thread -> Seq(Items)]
  BY ThreadsAssumption DEF UsbTypes
<1>2. PICK a \in DOMAIN list : list[a].device = volume /\ todo' = [todo EXCEPT ![Server] = ReadSectors(volume, a)]
  BY DEF Serve
<1>3. a \in Nat /\ a > 0 /\ volume \in Device
  BY <1>1, <1>2, ListingIs
<1> DEFINE R == Item("read", volume, a, 0)  P == Item("reply", volume, a, 0)  x == <<R, P>>
<1>4. R \in Items /\ P \in Items /\ \A j \in {R, P} : j.device = volume /\ j.to = a /\ j.do \in {"read", "reply"}
  <2>1. "read" \in Dos /\ "reply" \in Dos /\ volume \in Device \cup {Nobody} /\ 0 \in Nat
    BY <1>3, DosDistinct
  <2> QED
    BY <2>1, <1>3, ItemIn
<1>5. ReadSectors(volume, a) = x
  BY DEF ReadSectors
<1> HIDE DEF R, P
<1>6. x \in Seq(Items) /\ \A k \in DOMAIN x : x[k] \in {R, P}
  BY <1>4
<1> HIDE DEF x
<1>7. Serving(list, x)
  BY <1>2, <1>3, <1>4, <1>6, NobodyIs DEF Serving, Valid, Named
<1>8. todo'[Server] = x /\ todo'[Boot] = todo[Boot]
  BY <1>1, <1>2, <1>5
<1>9. Ordered(list, todo[Boot])' /\ Serving(list, todo[Server])'
  BY <1>7, <1>8, BusStays DEF Serve, busVars, Stages
<1>10. ~dead' /\ UNCHANGED <<bus, volume, dead>>
  BY DEF Serve, busVars
<1> QED
  BY <1>8, <1>9, <1>10, BusStays DEF Stages, Mounting

LEMMA EndStages ==
    ASSUME UsbTypes, Stages, NEW t \in Thread, End(t)
    PROVE  Stages'
<1>1. /\ Boot \in Thread /\ Server \in Thread /\ Boot # Server /\ (t = Boot \/ t = Server)
      /\ UNCHANGED <<bus, list, volume, dead>>
  BY ThreadsAssumption DEF End, busVars
<1>2. /\ todo[t] # <<>> /\ Requested(Head(todo[t])) /\ Returned(t)
  BY DEF End
<1>3. Kept(todo[t], todo'[t]) /\ \A u \in Thread : u # t => todo'[u] = todo[u]
  BY <1>2, ReturnedIs
<1>4. CASE t = Boot
  <2>1. Ordered(list, todo[Boot]) /\ Head(todo[Boot]) = todo[Boot][1]
    BY <1>2, <1>4, OrderedIs DEF Stages
  <2>2. todo[Boot][1].do \in RequestDo
    BY <2>1, <1>2, <1>4 DEF Requested, RequestDo
  <2>3. Ordered(list, todo'[Boot]) /\ (Mounting(todo[Boot]) => Mounting(todo'[Boot]))
    BY <2>1, <2>2, <1>2, <1>3, <1>4, OrderedKept
  <2> QED
    BY <2>3, <1>1, <1>2, <1>3, <1>4, BootStages DEF Stages
<1>5. CASE t = Server
  <2>1. Serving(list, todo'[Server]) /\ todo'[Boot] = todo[Boot]
    BY <1>1, <1>2, <1>3, <1>5, ServingKept DEF Stages
  <2>2. Ordered(list, todo[Boot])' /\ Serving(list, todo[Server])'
    BY <2>1, <1>1, BusStays DEF Stages
  <2>3. ~dead
    BY <1>2, <1>5 DEF Stages
  <2> QED
    BY <2>1, <2>2, <2>3, <1>1, BusStays DEF Stages, Mounting
<1> QED
  BY <1>1, <1>4, <1>5

LEMMA StagesNext ==
    ASSUME UsbTypes, Stages, [Next]_vars
    PROVE  Stages'
<1>1. CASE BusReset
  <2>1. todo[Boot] # <<>> /\ todo[Boot][1].do # "manage"
    BY <1>1, AtIs DEF BusReset
  <2> QED
    BY <2>1, <1>1, PopStages DEF BusReset, busVars
<1>2. CASE ResetOver
  <2>1. todo[Boot] # <<>> /\ todo[Boot][1].do # "manage"
    BY <1>2, AtIs DEF ResetOver
  <2> QED
    BY <2>1, <1>2, PopStages DEF ResetOver, busVars
<1>3. CASE Enumerate
  BY <1>3, EnumerateStages
<1>4. CASE Up
  BY <1>4, UpStages
<1>5. CASE DeviceManager
  BY <1>5, DeviceManagerStages
<1>6. CASE Initialise
  BY <1>6, InitialiseStages
<1>7. CASE Format
  BY <1>7, FormatStages
<1>8. CASE Good
  BY <1>8, GoodStages
<1>9. CASE Serve
  BY <1>9, ServeStages
<1>10. ASSUME NEW t \in Thread, End(t) PROVE Stages'
  BY <1>10, EndStages
<1>11. ASSUME UNCHANGED <<busVars, todo>> PROVE Stages'
  BY <1>11, StagesStay DEF busVars
<1>12. ASSUME NEW t \in Thread, Begin(t) \/ Go(t) PROVE Stages'
  BY <1>12, <1>11 DEF Begin, Go
<1>13. CASE Perform
  BY <1>13, <1>11 DEF Perform
<1>14. CASE Hardware
  BY <1>14, <1>11 DEF Hardware
<1>15. CASE Interrupt
  BY <1>15, <1>11 DEF Interrupt
<1>16. CASE UNCHANGED vars
  BY <1>16, <1>11 DEF vars
<1> QED
  BY <1>1, <1>2, <1>3, <1>4, <1>5, <1>6, <1>7, <1>8, <1>9, <1>10, <1>12, <1>13, <1>14, <1>15, <1>16
  DEF Next, BootStep, Transact

-----------------------------------------------------------------------------
(* Types *)

LEMMA RequestIs ==
    ASSUME UsbTypes, Stages, NEW t \in Thread, todo[t] # <<>>, Requested(Head(todo[t]))
    PROVE  /\ Head(todo[t]) = todo[t][1] /\ todo[t][1] \in Items /\ 1 \in DOMAIN todo[t]
           /\ todo[t][1].do \in RequestDo /\ todo[t][1].device \in Device
           /\ Valid(list, todo[t][1])
<1>1. todo[t] \in Seq(Items) /\ \A k \in DOMAIN todo[t] : Valid(list, todo[t][k])
  BY ThreadsAssumption DEF Stages, Ordered, Serving
<1>2. Head(todo[t]) = todo[t][1] /\ todo[t][1] \in Items /\ 1 \in DOMAIN todo[t]
  BY <1>1, LenProperties, EmptySeq, ElementOfSeq
<1>3. todo[t][1].do \in RequestDo /\ Valid(list, todo[t][1])
  BY <1>1, <1>2 DEF Requested, RequestDo
<1>4. todo[t][1].do \notin {"connect", "reset", "manage", "enumerate"}
  BY <1>3, DosDistinct
<1>5. todo[t][1].device \in Device
  BY <1>2, <1>3, <1>4 DEF Valid, Items
<1> QED
  BY <1>2, <1>3, <1>5

\* The types of what transfers change.
TransferTypes ==
    /\ signals \in Nat /\ asleep \in Seq(Thread) /\ phase \in [Thread -> Phases]
    /\ schedule \in BOOLEAN
    /\ queue \in Queues
    /\ queue.left > 0 =>
          queue.request \in Items /\ queue.request.do \in RequestDo /\ queue.request.device \in Device
    /\ toggle \in [Device -> Bits] /\ expects \in [Device -> Toggles]
    /\ isr \in {"none", "port"} /\ ui \in BOOLEAN /\ pci \in BOOLEAN /\ ccs \in BOOLEAN
    /\ address \in [Device -> Int] /\ changes \in Nat /\ stalls \in Nat

LEMMA TypesSplit == UsbTypes <=> /\ TransferTypes /\ bus \in Buses /\ todo \in [Thread -> Seq(Items)]
                                 /\ list \in Listing /\ volume \in Device \cup {Nobody} /\ dead \in BOOLEAN
  BY DEF UsbTypes, TransferTypes

LEMMA FillTypes ==
    ASSUME TransferTypes, NEW t \in Thread, NEW i \in Items, i.do \in RequestDo, i.device \in Device,
           Fill(t, i)
    PROVE  TransferTypes'
<1>1. Descriptors[i.do] \in Nat
  BY DosDistinct
<1>2. Recorded(i.device) \in Toggles
  BY DEF Recorded, GetToggle, Toggles
<1>3. queue' \in Queues /\ queue'.request = i
  BY <1>1, <1>2 DEF Fill, Queues
<1>4. phase' \in [Thread -> Phases] /\ schedule' \in BOOLEAN
  BY DEF Fill, TransferTypes, Phases
<1> QED
  BY <1>3, <1>4 DEF Fill, TransferTypes, controllerVars, deviceVars

LEMMA GoTypes ==
    ASSUME TransferTypes, NEW t \in Thread, Start(t) \/ SemaphoreWait(t)
    PROVE  TransferTypes'
<1>1. CASE Start(t)
  BY <1>1 DEF Start, TransferTypes, Phases, controllerVars, deviceVars
<1>2. CASE SemaphoreWait(t)
  <2>1. signals' \in Nat
    BY <1>2 DEF SemaphoreWait, TransferTypes
  <2>2. asleep' \in Seq(Thread)
    <3>1. <<t>> \in Seq(Thread) /\ asleep \in Seq(Thread)
      BY DEF TransferTypes
    <3>2. <<t>> \o asleep \in Seq(Thread)
      BY <3>1, ConcatProperties
    <3> QED
      BY <3>1, <3>2, <1>2 DEF SemaphoreWait
  <2>3. phase' \in [Thread -> Phases]
    BY <1>2 DEF SemaphoreWait, TransferTypes, Phases
  <2> QED
    BY <2>1, <2>2, <2>3, <1>2 DEF SemaphoreWait, TransferTypes, controllerVars, deviceVars
<1> QED
  BY <1>1, <1>2

LEMMA SavedType ==
    ASSUME NEW i, i.device \in Device, NEW bits \in Bits
    PROVE  Saved(bits, i) \in Bits
<1>1. ASSUME NEW b \in Bits, NEW e \in Endpoint PROVE Save(b, i.device, e) \in Bits
  <2>1. Number[i.device][e] \in 0 .. 15
    BY NumberAssumption
  <2>2. \A n \in 0 .. 15 : b \cup {n} \in Bits /\ b \ {n} \in Bits
    BY DEF Bits
  <2> QED
    BY <2>1, <2>2 DEF Save, SetToggle
<1>2. "in" \in Endpoint /\ "out" \in Endpoint
  BY DEF Endpoint
<1> QED
  BY <1>1, <1>2 DEF Saved

LEMMA FinishTypes ==
    ASSUME TransferTypes, NEW t \in Thread, NEW i, Finish(t, i)
    PROVE  TransferTypes'
<1>1. phase' \in [Thread -> Phases] /\ schedule' \in BOOLEAN
  BY DEF Finish, TransferTypes, Phases
<1>2. toggle' \in [Device -> Bits]
  <2>1. toggle \in [Device -> Bits] /\ toggle' = [toggle EXCEPT ![i.device] = Saved(toggle[i.device], i)]
    BY DEF TransferTypes, Finish
  <2>2. CASE i.device \in Device
    <3>1. Saved(toggle[i.device], i) \in Bits
      BY <2>1, <2>2, SavedType
    <3> QED
      BY <2>1, <3>1
  <2>3. CASE i.device \notin Device
    BY <2>1, <2>3
  <2> QED
    BY <2>2, <2>3
<1> QED
  BY <1>1, <1>2 DEF Finish, TransferTypes, controllerVars, deviceVars

LEMMA SignalTypes ==
    ASSUME TransferTypes, Signal
    PROVE  signals' \in Nat /\ asleep' \in Seq(Thread) /\ phase' \in [Thread -> Phases]
<1>1. CASE asleep = <<>>
  BY <1>1 DEF Signal, TransferTypes
<1>2. CASE asleep # <<>>
  <2>1. asleep \in Seq(Thread) /\ Tail(asleep) \in Seq(Thread)
    BY <1>2, HeadTailProperties DEF TransferTypes
  <2> QED
    BY <1>2, <2>1 DEF Signal, TransferTypes, Phases
<1> QED
  BY <1>1, <1>2

LEMMA InterruptTypes ==
    ASSUME TransferTypes, Acknowledge \/ AcknowledgePort
    PROVE  TransferTypes'
<1>1. CASE Acknowledge
  <2>1. signals' \in Nat /\ asleep' \in Seq(Thread) /\ phase' \in [Thread -> Phases]
    BY <1>1, SignalTypes DEF Acknowledge, semaphoreVars, TransferTypes
  <2> QED
    BY <1>1, <2>1 DEF Acknowledge, TransferTypes, deviceVars
<1>2. CASE AcknowledgePort
  <2>1. signals' \in Nat /\ asleep' \in Seq(Thread) /\ phase' \in [Thread -> Phases]
    BY <1>2, SignalTypes DEF AcknowledgePort
  <2> QED
    BY <1>2, <2>1 DEF AcknowledgePort, TransferTypes, deviceVars
<1> QED
  BY <1>1, <1>2

\* A descriptor has been performed.
LEMMA TransferIs ==
    ASSUME TransferTypes, NEW d \in Device, NEW flipped, Transfer(d, flipped)
    PROVE  /\ queue.left \in Nat /\ queue.left > 0 /\ queue'.left = queue.left - 1
           /\ queue' \in Queues /\ queue'.by = queue.by /\ queue'.request = queue.request
           /\ queue'.halted = queue.halted
           /\ expects' \in [Device -> Toggles]
           /\ \A e \in Endpoint : queue'.dt[e] = IF e \in flipped THEN 1 - queue.dt[e] ELSE queue.dt[e]
           /\ \A e \in Endpoint : expects'[d][e] = IF e \in flipped THEN 1 - expects[d][e] ELSE expects[d][e]
           /\ \A c \in Device : c # d => expects'[c] = expects[c]
<1> DEFINE Flip(dt) == [e \in Endpoint |-> IF e \in flipped THEN 1 - dt[e] ELSE dt[e]]
<1>1. queue \in Queues /\ expects \in [Device -> Toggles] /\ queue.left > 0
  BY DEF TransferTypes, Transfer, Working
<1>2. queue' = [queue EXCEPT !.left = queue.left - 1, !.dt = Flip(queue.dt)] /\ expects' = [expects EXCEPT ![d] = Flip(expects[d])]
  BY DEF Transfer
<1>3. \A u \in Toggles : Flip(u) \in Toggles
  <2> SUFFICES ASSUME NEW u \in Toggles PROVE Flip(u) \in Toggles
    OBVIOUS
  <2>1. \A e \in Endpoint : u[e] \in {0, 1} /\ 1 - u[e] \in {0, 1}
    BY DEF Toggles
  <2> QED
    BY <2>1 DEF Toggles
<1>4. \A u : \A e \in Endpoint : Flip(u)[e] = IF e \in flipped THEN 1 - u[e] ELSE u[e]
  OBVIOUS
<1> HIDE DEF Flip
<1>5. queue.left \in Nat /\ queue.left - 1 \in Nat /\ queue.dt \in Toggles
  BY <1>1 DEF Queues
<1>6. /\ queue' \in Queues /\ queue'.left = queue.left - 1 /\ queue'.dt = Flip(queue.dt)
      /\ queue'.by = queue.by /\ queue'.request = queue.request /\ queue'.halted = queue.halted
  BY <1>1, <1>2, <1>3, <1>5 DEF Queues
<1>7. expects' \in [Device -> Toggles] /\ expects'[d] = Flip(expects[d]) /\ \A c \in Device : c # d => expects'[c] = expects[c]
  BY <1>1, <1>2, <1>3
<1> QED
  BY <1>1, <1>4, <1>5, <1>6, <1>7

LEMMA PerformTypes ==
    ASSUME TransferTypes, Perform
    PROVE  TransferTypes'
<1>1. PICK d \in Device, flipped \in SUBSET Endpoint :
        /\ Transfer(d, flipped)
        /\ address' = CASE queue.request.do = "rename" /\ queue.left = 1 -> [address EXCEPT ![d] = queue.request.n]
                        [] queue.request.do = "restart" /\ queue.left = 1 ->
                             [address EXCEPT ![bus.ports[queue.request.device][queue.request.n]] = 0]
                        [] OTHER -> address
  BY DEF Perform
<1>2. /\ queue.left > 0 /\ queue' \in Queues /\ queue'.request = queue.request
      /\ expects' \in [Device -> Toggles]
  BY <1>1, TransferIs
<1>3. queue.request.n \in Int
  <2>1. queue.request \in Items
    BY <1>2 DEF TransferTypes
  <2> QED
    BY <2>1 DEF Items
<1>4. address' \in [Device -> Int]
  <2>1. address \in [Device -> Int] /\ 0 \in Int
    BY DEF TransferTypes
  <2> QED
    BY <2>1, <1>1, <1>3
<1>5. ui' \in BOOLEAN
  BY <1>1 DEF Transfer, TransferTypes, LastInterrupts
<1>6. UNCHANGED <<semaphoreVars, schedule, toggle, isr, pci, ccs, changes, stalls>>
  BY <1>1 DEF Transfer
<1> QED
  BY <1>2, <1>4, <1>5, <1>6 DEF TransferTypes, semaphoreVars

LEMMA HardwareTypes ==
    ASSUME TransferTypes, Halt \/ PortChange
    PROVE  TransferTypes'
<1>1. CASE Halt
  <2>1. queue' \in Queues /\ queue'.left = queue.left /\ queue'.request = queue.request
    BY <1>1 DEF Halt, TransferTypes, Queues
  <2>2. stalls' \in Nat
    BY <1>1 DEF Halt, TransferTypes
  <2>3. ui' \in BOOLEAN
    BY <1>1 DEF Halt, TransferTypes, LastInterrupts
  <2> QED
    BY <1>1, <2>1, <2>2, <2>3 DEF Halt, TransferTypes, semaphoreVars
<1>2. CASE PortChange
  BY <1>2 DEF PortChange, TransferTypes, semaphoreVars, Silent
<1> QED
  BY <1>1, <1>2

LEMMA TypesNext ==
    ASSUME UsbTypes, Stages, [Next]_vars
    PROVE  UsbTypes'
<1>1. TransferTypes
  BY TypesSplit
<1>2. todo' \in [Thread -> Seq(Items)]
  <2>1. \A t \in Thread : todo'[t] \in Seq(Items)
    BY StagesNext, ThreadsAssumption DEF Stages, Ordered, Serving
  <2>2. todo' = [t \in Thread |-> todo'[t]]
    <3>1. todo \in [Thread -> Seq(Items)]
      BY DEF UsbTypes
    <3>2. ASSUME NEW t \in Thread, End(t) PROVE todo' = [u \in Thread |-> todo'[u]]
      <4>1. todo' = todo \/ (\E x : Then(t, x)) \/ (\E c \in Own(t) : Drop(t, c))
        BY <3>2, Zenon DEF End, Returned, GiveUp
      <4> QED
        BY <4>1, <3>1 DEF Then, Drop
    <3> QED
      BY <3>1, <3>2 DEF Next, BootStep, BusReset, ResetOver, Enumerate, Up, DeviceManager, Initialise, Format,
         Good, Serve, Then, Transact, Begin, Go, Perform, Hardware, Interrupt, vars
  <2> QED
    BY <2>1, <2>2
<1>3. bus' \in Buses
  BY DEF UsbTypes, Next, BootStep, BusReset, ResetOver, Enumerate, Up, DeviceManager, Initialise, Format,
     Good, Serve, Transact, Begin, Go, End, Perform, Hardware, Interrupt, vars, busVars
<1> DEFINE Rest == list' \in Listing /\ volume' \in Device \cup {Nobody} /\ dead' \in BOOLEAN
<1>4. ASSUME UNCHANGED <<list, volume, dead>> PROVE Rest
  BY <1>4 DEF UsbTypes
<1>5. ASSUME UNCHANGED transferVars, Rest PROVE UsbTypes'
  <2>1. TransferTypes'
    BY <1>1, <1>5 DEF TransferTypes, transferVars, semaphoreVars, controllerVars, deviceVars
  <2> QED
    BY <2>1, <1>2, <1>3, <1>5 DEF TransferTypes, UsbTypes
<1>6. ASSUME TransferTypes', Rest PROVE UsbTypes'
  BY <1>2, <1>3, <1>6 DEF TransferTypes, UsbTypes
<1>7. ASSUME BusReset PROVE UsbTypes'
  <2>1. phase' \in [Thread -> Phases] /\ address' \in [Device -> Int]
    <3>1. phase \in [Thread -> Phases] /\ phase' = [phase EXCEPT ![Boot] = "started"]
      BY <1>1, <1>7 DEF BusReset, TransferTypes
    <3>2. /\ address \in [Device -> Int]
          /\ \E n \in Int : address' = [address EXCEPT ![bus.root] = n]
      <4>1. 0 \in Int /\ Silent \in Int
        BY DEF Silent
      <4>2. address' = [address EXCEPT ![bus.root] = IF ccs THEN 0 ELSE Silent]
        BY <1>7 DEF BusReset
      <4> QED
        BY <1>1, <4>1, <4>2 DEF TransferTypes
    <3> QED
      BY <3>1, <3>2 DEF Phases
  <2>3. pci' \in BOOLEAN
    BY <1>1, <1>7 DEF BusReset, TransferTypes
  <2>2. TransferTypes'
    BY <1>1, <1>7, <2>1, <2>3 DEF BusReset, TransferTypes
  <2> QED
    BY <2>2, <1>4, <1>6, <1>7 DEF BusReset, busVars
<1>8. ASSUME ResetOver PROVE UsbTypes'
  <2>1. phase' \in [Thread -> Phases]
    BY <1>1, <1>8 DEF ResetOver, TransferTypes, Phases
  <2>2. TransferTypes'
    BY <1>1, <1>8, <2>1 DEF ResetOver, TransferTypes, controllerVars, deviceVars
  <2> QED
    BY <2>2, <1>4, <1>6, <1>8 DEF ResetOver, busVars
<1>9. ASSUME Enumerate PROVE UsbTypes'
  BY <1>5, <1>9, EnumerateStages DEF Enumerate, UsbTypes
<1>10. ASSUME Up PROVE UsbTypes'
  BY <1>5, <1>10, UpStages DEF Up, UsbTypes
<1>11. ASSUME DeviceManager \/ Format \/ Serve PROVE UsbTypes'
  BY <1>4, <1>5, <1>11 DEF DeviceManager, Format, Serve, busVars
<1>12. ASSUME Initialise PROVE UsbTypes'
  BY <1>5, <1>12, InitialiseStages DEF Initialise, UsbTypes
<1>13. ASSUME Good PROVE UsbTypes'
  BY <1>5, <1>13 DEF Good, UsbTypes
<1>14. ASSUME NEW t \in Thread, Begin(t) PROVE UsbTypes'
  <2>1. /\ Head(todo[t]) \in Items /\ Head(todo[t]).do \in RequestDo /\ Head(todo[t]).device \in Device
        /\ Fill(t, Head(todo[t]))
    BY <1>14, RequestIs DEF Begin
  <2>2. TransferTypes'
    BY <2>1, <1>1, FillTypes
  <2> QED
    BY <2>2, <1>4, <1>6, <1>14 DEF Begin, busVars
<1>15. ASSUME NEW t \in Thread, Go(t) PROVE UsbTypes'
  <2>1. TransferTypes'
    BY <1>1, <1>15, GoTypes DEF Go
  <2> QED
    BY <2>1, <1>4, <1>6, <1>15 DEF Go, busVars
<1>16. ASSUME NEW t \in Thread, End(t) PROVE UsbTypes'
  <2>1. TransferTypes'
    BY <1>1, <1>16, FinishTypes DEF End
  <2> QED
    BY <2>1, <1>4, <1>6, <1>16 DEF End, busVars
<1>17. ASSUME Perform PROVE UsbTypes'
  <2>1. TransferTypes'
    BY <1>1, <1>17, PerformTypes
  <2> QED
    BY <2>1, <1>4, <1>6, <1>17 DEF Perform, busVars
<1>18. ASSUME Hardware PROVE UsbTypes'
  <2>1. TransferTypes'
    BY <1>1, <1>18, HardwareTypes DEF Hardware
  <2> QED
    BY <2>1, <1>4, <1>6, <1>18 DEF Hardware, busVars
<1>19. ASSUME Interrupt PROVE UsbTypes'
  <2>1. TransferTypes'
    BY <1>1, <1>19, InterruptTypes DEF Interrupt
  <2> QED
    BY <2>1, <1>4, <1>6, <1>19 DEF Interrupt, busVars
<1>20. CASE UNCHANGED vars
  BY <1>4, <1>5, <1>20 DEF vars, busVars
<1> QED
  BY <1>7, <1>8, <1>9, <1>10, <1>11, <1>12, <1>13, <1>14, <1>15, <1>16, <1>17, <1>18, <1>19, <1>20
  DEF Next, BootStep, Transact

LEMMA StagesInit ==
    ASSUME Init
    PROVE  UsbTypes /\ Stages
<1>1. Boot \in Thread /\ Server \in Thread /\ Boot # Server
  BY ThreadsAssumption
<1>2. Opening \in Seq(Items) /\ DOMAIN Opening = 1 .. 4 /\ Len(Opening) = 4
  BY OpeningIs
<1>3. todo = [t \in Thread |-> IF t = Boot THEN Opening ELSE <<>>]
  BY DEF Init, Opening
<1>4. todo[Boot] = Opening /\ todo[Server] = <<>> /\ todo \in [Thread -> Seq(Items)]
  <2>1. <<>> \in Seq(Items)
    OBVIOUS
  <2> QED
    BY <2>1, <1>1, <1>2, <1>3
<1>5. list = <<>> /\ list \in Listing /\ DOMAIN list = {}
  <2>1. list = <<>>
    BY DEF Init
  <2> QED
    BY <2>1 DEF Listing
<1>6. UsbTypes
  <2>1. queue = [by |-> Boot, request |-> <<>>, left |-> 0, halted |-> FALSE, dt |-> [e \in Endpoint |-> 0]]
    BY DEF Init, TransferInit
  <2>2. [e \in Endpoint |-> 0] \in Toggles
    BY DEF Toggles
  <2>3. queue \in Queues /\ queue.left = 0
    BY <2>1, <2>2, <1>1 DEF Queues
  <2>4. toggle \in [Device -> Bits] /\ expects \in [Device -> Toggles]
    BY <2>2 DEF Init, TransferInit, Bits
  <2>5. asleep \in Seq(Thread)
    BY DEF Init, TransferInit
  <2>6. phase \in [Thread -> Phases] /\ address \in [Device -> Int]
    BY DEF Init, TransferInit, Phases, Silent
  <2>7. signals \in Nat /\ changes \in Nat /\ stalls \in Nat /\ isr \in {"none", "port"}
    BY DEF Init, TransferInit
  <2>8. schedule \in BOOLEAN /\ ui \in BOOLEAN /\ pci \in BOOLEAN /\ ccs \in BOOLEAN
    BY DEF Init, TransferInit
  <2>9. bus \in Buses /\ volume \in Device \cup {Nobody} /\ dead \in BOOLEAN
    BY DEF Init
  <2> QED
    BY <2>3, <2>4, <2>5, <2>6, <2>7, <2>8, <2>9, <1>4, <1>5 DEF UsbTypes
<1>7. \A k \in 1 .. 4 : Valid(list, Opening[k])
  <2> SUFFICES ASSUME NEW k \in 1 .. 4 PROVE Valid(list, Opening[k])
    OBVIOUS
  <2>1. k = 1 \/ k = 2 \/ k = 3 \/ k = 4
    OBVIOUS
  <2>2. /\ Opening[k].device = Nobody /\ Opening[k].to = 0
        /\ Opening[k].do \in {"connect", "reset", "enumerate", "manage"}
    BY <2>1, OpeningIs
  <2> QED
    BY <2>2 DEF Valid
<1>8. Ordered(list, Opening)
  <2>1. \A k \in 1 .. 4 : Opening[k].do \in LateDo => k = 4
    BY OpeningIs DEF LateDo
  <2>2. Shape(Opening)
    <3>1. Opening # <<>> /\ Opening[4].do = "manage"
      BY OpeningIs
    <3>2. \A k \in DOMAIN Opening : k # Len(Opening) => Opening[k].do \notin LateDo
      BY <2>1, <1>2
    <3> QED
      BY <3>1, <3>2, <2>1, <1>2 DEF Shape
  <2>3. Tree(list, Opening)
    <3>1. \A k \in 1 .. 4 : Opening[k].do = "enumerate" => k = 3
      BY OpeningIs
    <3>2. Listed(list) = {}
      BY <1>5 DEF Listed
    <3> QED
      BY <3>1, <3>2, <1>2, <1>5 DEF Tree
  <2> QED
    BY <2>2, <2>3, <1>2, <1>7 DEF Ordered
<1>9. Serving(list, <<>>)
  <2> DEFINE e == <<>>
  <2>1. e \in Seq(Items) /\ DOMAIN e = {}
    OBVIOUS
  <2> HIDE DEF e
  <2>2. Serving(list, e)
    BY <2>1 DEF Serving
  <2> QED
    BY <2>2 DEF e
<1>10. Stages
  BY <1>4, <1>8, <1>9 DEF Stages, Init
<1> QED
  BY <1>6, <1>10

\* The threads are in these stages.
THEOREM SpecStages == Spec => [](UsbTypes /\ Stages)
<1>1. Init => UsbTypes /\ Stages
  BY StagesInit
<1>2. (UsbTypes /\ Stages) /\ [Next]_vars => (UsbTypes /\ Stages)'
  BY StagesNext, TypesNext
<1> QED
  BY <1>1, <1>2, PTL DEF Spec

LEMMA StagesExclusive ==
    ASSUME UsbTypes, Stages
    PROVE  Exclusive
<1> SUFFICES ASSUME OneDisk PROVE Cardinality(Busy) <= 1
  BY DEF Exclusive
<1>1. Busy = {} \/ \E t : Busy = {t}
  <2>1. todo[Server] = <<>> \/ todo[Boot] = <<>>
    BY DEF Stages
  <2> QED
    BY <2>1, ThreadsAssumption DEF Busy
<1>2. CASE Busy = {}
  BY <1>2, FS_EmptySet
<1>3. ASSUME NEW t, Busy = {t} PROVE Cardinality(Busy) <= 1
  <2>1. Cardinality(Busy) = 1
    BY <1>3, FS_Singleton
  <2> QED
    BY <2>1
<1> QED
  BY <1>1, <1>2, <1>3

\* If there is one disk, the static descriptors are one thread's at a time
\* (initialise_transfer_descriptor() writes over those of before).
THEOREM SpecExclusive == Spec => []Exclusive
<1>1. UsbTypes /\ Stages => Exclusive
  BY StagesExclusive
<1> QED
  BY <1>1, SpecStages, PTL

-----------------------------------------------------------------------------
(* Connecting, and after it *)

Connecting == todo[Boot] = Opening \/ todo[Boot] = Tail(Opening)

Opened(s) == \A k \in DOMAIN s : s[k].do \notin {"connect", "reset"}

LEMMA OpenedIs ==
    ASSUME NEW l, NEW s, Ordered(l, s), s # <<>>, s[1].do \notin {"connect", "reset"}
    PROVE  Opened(s)
<1>1. s # Opening
  BY OpeningIs
<1>2. s # Tail(Opening)
  <2>1. 1 \in 0 .. Len(Opening) /\ Opening \in Seq(Items) /\ 1 \in 1 .. Len(Opening) - 1
    BY OpeningIs
  <2>2. After(Opening, 1)[1] = Opening[1 + 1]
    BY <2>1, Shifted
  <2> QED
    BY <2>2, OpeningIs
<1> QED
  BY <1>1, <1>2 DEF Ordered, Shape, Opened

LEMMA OpenedAfter ==
    ASSUME NEW s \in Seq(Items), Opened(s), NEW c \in 0 .. Len(s)
    PROVE  Opened(After(s, c))
<1>1. /\ DOMAIN After(s, c) = 1 .. Len(s) - c
      /\ \A k \in 1 .. Len(s) - c : k + c \in 1 .. Len(s) /\ After(s, c)[k] = s[k + c]
  BY Shifted
<1>2. DOMAIN s = 1 .. Len(s)
  BY LenProperties
<1> QED
  BY <1>1, <1>2 DEF Opened

LEMMA OpenedStacked ==
    ASSUME NEW x \in Seq(Items), NEW s \in Seq(Items), s # <<>>, Opened(x), Opened(s)
    PROVE  Opened(x \o Tail(s))
<1> DEFINE r == x \o Tail(s)
<1>1. /\ \A k \in DOMAIN x : r[k] = x[k]
      /\ \A k \in DOMAIN r : k \notin DOMAIN x =>
            k - Len(x) + 1 \in DOMAIN s /\ k - Len(x) + 1 # 1 /\ r[k] = s[k - Len(x) + 1]
  BY Stacked
<1> HIDE DEF r
<1>2. Opened(r)
  BY <1>1 DEF Opened
<1> QED
  BY <1>2 DEF r

LEMMA OpenedNot ==
    ASSUME NEW s, Opened(s)
    PROVE  s # Opening /\ s # Tail(Opening)
<1>1. 1 \in DOMAIN Opening /\ Opening[1].do = "connect"
  BY OpeningIs
<1>2. 1 \in DOMAIN Tail(Opening) /\ Tail(Opening)[1].do = "reset"
  <2>1. 1 \in 0 .. Len(Opening) /\ Opening \in Seq(Items) /\ 1 \in 1 .. Len(Opening) - 1
    BY OpeningIs
  <2>2. After(Opening, 1)[1] = Opening[1 + 1] /\ DOMAIN After(Opening, 1) = 1 .. Len(Opening) - 1
    BY <2>1, Shifted
  <2> QED
    BY <2>1, <2>2, OpeningIs
<1> QED
  BY <1>1, <1>2 DEF Opened

\* The opening, step by step.
LEMMA ConnectingIs ==
    ASSUME UsbTypes, Stages
    PROVE  /\ Connecting <=> todo[Boot] # <<>> /\ todo[Boot][1].do \in {"connect", "reset"}
           /\ Opened(todo[Boot]) => ~Connecting
           /\ ~Connecting => Opened(todo[Boot])
           /\ todo[Boot] = Opening <=> todo[Boot] # <<>> /\ todo[Boot][1].do = "connect"
           /\ Connecting => ~Mounting(todo[Boot]) /\ dead /\ volume = Nobody
<1> DEFINE s == todo[Boot]
<1>1. Ordered(list, s)
  BY DEF Stages
<1>2. Opening # <<>> /\ Opening[1].do = "connect" /\ 1 \in DOMAIN Opening
  BY OpeningIs
<1>3. Tail(Opening) # <<>> /\ Tail(Opening)[1].do = "reset" /\ 1 \in DOMAIN Tail(Opening)
  <2>1. 1 \in 0 .. Len(Opening) /\ Opening \in Seq(Items) /\ 1 \in 1 .. Len(Opening) - 1
    BY OpeningIs
  <2>2. After(Opening, 1)[1] = Opening[1 + 1] /\ DOMAIN After(Opening, 1) = 1 .. Len(Opening) - 1
    BY <2>1, Shifted
  <2> QED
    BY <2>1, <2>2, OpeningIs
<1>4. s # <<>> => 1 \in DOMAIN s
  BY <1>1, OrderedIs
<1>5. Connecting => s # <<>> /\ s[1].do \in {"connect", "reset"}
  BY <1>2, <1>3 DEF Connecting
<1>6. s # <<>> /\ s[1].do \in {"connect", "reset"} => Connecting
  BY <1>1, <1>4 DEF Ordered, Shape, Connecting
<1>7. ~Connecting => Opened(s)
  BY <1>1 DEF Ordered, Shape, Connecting, Opened
<1>8. Opened(s) => ~Connecting
  BY <1>4, <1>5 DEF Opened
<1>9. s = Opening <=> s # <<>> /\ s[1].do = "connect"
  BY <1>2, <1>3, <1>6 DEF Connecting
<1>10. Connecting => ~Mounting(s)
  BY <1>4, <1>5 DEF Mounting, MountDo
<1> QED
  BY <1>5, <1>6, <1>7, <1>8, <1>9, <1>10 DEF Stages

\* Only BusReset and ResetOver are of the opening.
LEMMA BootOpened ==
    ASSUME UsbTypes, Stages, Enumerate \/ Up \/ DeviceManager \/ Initialise \/ Format \/ Good
    PROVE  /\ ~Connecting /\ Opened(todo'[Boot]) /\ todo[Boot] # <<>>
           /\ Head(todo[Boot]).do \notin RequestDo \cup {"connect", "reset"}
           /\ todo'[Server] = todo[Server]
<1> DEFINE s == todo[Boot]
<1>1. PICK do \in {"enumerate", "up", "manage", "initialise", "format", "good"} : At(Boot, do)
  BY DEF Enumerate, Up, DeviceManager, Initialise, Format, Good
<1>2. /\ s # <<>> /\ Head(s) = s[1] /\ s[1].do = do /\ Ordered(list, s) /\ s \in Seq(Items)
      /\ Boot \in Thread /\ Server \in Thread /\ Boot # Server
  BY <1>1, AtIs
<1>3. do \notin RequestDo \cup {"connect", "reset"}
  BY DosDistinct
<1>4. Opened(s) /\ ~Connecting
  BY <1>2, <1>3, OpenedIs, ConnectingIs
<1>5. 1 \in 0 .. Len(s)
  BY <1>2, OrderedIs
<1>6. ASSUME Then(Boot, <<>>) PROVE Opened(todo'[Boot])
  BY <1>2, <1>4, <1>5, <1>6, ThenIs, OpenedAfter
<1>7. ASSUME Enumerate PROVE Opened(todo'[Boot])
  <2> DEFINE d == Enumerated(Head(s))
  <2>1. CASE Full
    BY <1>6, <1>7, <2>1 DEF Enumerate
  <2>2. CASE ~Full
    <3>1. Then(Boot, IF bus.kind[d] = "oversize" THEN Oversize(d) ELSE Identify(d, Len(list) + 1))
      BY <1>7, <2>2 DEF Enumerate
    <3>2. list \in Listing /\ bus \in Buses
      BY DEF UsbTypes
    <3>3. d \in Device /\ Named(Append(list, [device |-> d, alive |-> FALSE]), Len(list) + 1, d)
      <4>1. s[1].do = "enumerate"
        BY <1>7, AtIs DEF Enumerate
      <4> QED
        BY <4>1, <3>2, <1>2, OrderedEnumerate
    <3>4. \E x : x \in Seq(Items) /\ Opened(x) /\ Then(Boot, x)
      <4>1. \A x, m : Script(m, x, d) => x \in Seq(Items) /\ Opened(x)
        BY DEF Script, Opened, DriverDo, PortDo
      <4>2. CASE bus.kind[d] = "oversize"
        <5>1. \A m : Script(m, Oversize(d), d)
          BY <3>3, OversizeScript
        <5> QED
          BY <5>1, <4>1, <4>2, <3>1
      <4>3. CASE bus.kind[d] # "oversize"
        <5>1. Len(list) + 1 \in Nat /\ Len(list) + 1 > 0
          BY <3>2, ListingIs
        <5>2. PICK z \in Nat : Identified(Identify(d, Len(list) + 1), d, Len(list) + 1, z)
          BY <5>1, <3>2, <3>3, IdentifyIdentified
        <5>3. \E m : Script(m, Identify(d, Len(list) + 1), d)
          BY <5>1, <5>2, <3>3, IdentifiedScript
        <5> QED
          BY <5>3, <4>1, <4>3, <3>1
      <4> QED
        BY <4>2, <4>3
    <3>5. PICK x : x \in Seq(Items) /\ Opened(x) /\ Then(Boot, x)
      BY <3>4
    <3>6. Opened(x \o Tail(s))
      BY <3>5, <1>2, <1>4, OpenedStacked
    <3> QED
      BY <3>5, <3>6, <1>2, ThenIs
  <2> QED
    BY <2>1, <2>2
<1>8. ASSUME Up PROVE Opened(todo'[Boot])
  BY <1>6, <1>8 DEF Up
<1>9. ASSUME Mounting(todo'[Boot]) PROVE Opened(todo'[Boot])
  BY <1>9 DEF Mounting, MountDo, Opened
<1>10. ASSUME DeviceManager PROVE Opened(todo'[Boot])
  BY <1>9, <1>10, DeviceManagerStages
<1>11. ASSUME Initialise PROVE Opened(todo'[Boot])
  BY <1>9, <1>11, InitialiseStages
<1>12. ASSUME Format PROVE Opened(todo'[Boot])
  BY <1>9, <1>12, FormatStages
<1>13. ASSUME Good PROVE Opened(todo'[Boot])
  BY <1>9, <1>13, GoodStages
<1>14. Opened(todo'[Boot])
  BY <1>7, <1>8, <1>10, <1>11, <1>12, <1>13
<1>15. todo'[Server] = todo[Server]
  <2>1. \E x : Then(Boot, x)
    BY DEF Enumerate, Up, DeviceManager, Initialise, Format, Good
  <2> QED
    BY <2>1, <1>2, ThenIs
<1> QED
  BY <1>2, <1>3, <1>4, <1>14, <1>15

\* A request that has returned was of a thread past the opening, and leaves it there.
LEMMA EndOpened ==
    ASSUME UsbTypes, Stages, NEW t \in Thread, End(t)
    PROVE  /\ t = Boot => ~Connecting /\ Opened(todo'[Boot])
           /\ t # Boot => todo'[Boot] = todo[Boot]
<1>1. todo[t] # <<>> /\ Requested(Head(todo[t])) /\ Returned(t) /\ Boot \in Thread
  BY ThreadsAssumption DEF End
<1>2. Kept(todo[t], todo'[t]) /\ \A u \in Thread : u # t => todo'[u] = todo[u]
  BY <1>1, ReturnedIs
<1>3. ASSUME t = Boot PROVE ~Connecting /\ Opened(todo'[Boot])
  <2> DEFINE s == todo[Boot]
  <2>1. Ordered(list, s) /\ s # <<>> /\ s[1].do \in RequestDo /\ s[1] \in Items
    BY <1>1, <1>3, RequestIs DEF Stages
  <2>2. s[1].do \notin {"connect", "reset"}
    BY <2>1, DosDistinct
  <2>3. Opened(s) /\ ~Connecting /\ s \in Seq(Items)
    BY <2>1, <2>2, OpenedIs, ConnectingIs DEF Ordered
  <2>4. CASE todo'[Boot] = s
    BY <2>3, <2>4
  <2>5. CASE s[1].do = "test" /\ todo'[Boot] = <<[s[1] EXCEPT !.n = @ + 1]>> \o Tail(s)
    <3> DEFINE i == [s[1] EXCEPT !.n = @ + 1]  x == <<i>>
    <3>1. i \in Items /\ i.do = "test"
      BY <2>1, <2>5 DEF Items
    <3> HIDE DEF i
    <3>2. x \in Seq(Items) /\ Opened(x)
      BY <3>1 DEF Opened
    <3> HIDE DEF x
    <3>3. Opened(x \o Tail(s))
      BY <3>2, <2>1, <2>3, OpenedStacked
    <3> QED
      BY <3>3, <2>3, <2>5 DEF x, i
  <2>6. ASSUME NEW c \in 1 .. Len(s), todo'[Boot] = After(s, c) PROVE Opened(todo'[Boot])
    <3>1. c \in 0 .. Len(s)
      BY <2>1, OrderedIs
    <3> QED
      BY <3>1, <2>3, <2>6, OpenedAfter
  <2> QED
    BY <2>3, <2>4, <2>5, <2>6, <1>2, <1>3 DEF Kept
<1> QED
  BY <1>1, <1>2, <1>3

-----------------------------------------------------------------------------
(* One thread at a time *)

Active == {t \in Thread : phase[t] # "out"}

\* Only one thread can be in a transaction.
Single == OneDisk \/ dead

\* Who is in a transaction has something to do in it.
Prepared == \A t \in Active : todo[t] # <<>> /\ Head(todo[t]).do \in RequestDo \cup {"connect", "reset"}

Alone == \A t, u \in Active : t = u

\* The queue is as the thread has filled it.
Filled == \A t \in Busy : queue.by = t /\ queue.request = Head(todo[t])

Sleeping ==
    /\ asleep = <<>> \/ \E t \in Active : asleep = <<t>> /\ phase[t] = "asleep"
    /\ \A t \in Thread : phase[t] = "asleep" => asleep = <<t>> /\ signals = 0

Phased ==
    Single =>
       /\ Prepared /\ Alone /\ Filled /\ Sleeping
       /\ Connecting => phase[Boot] \in {"started", "asleep", "woken"}

LEMMA SingleStays ==
    ASSUME UsbTypes, Stages, [Next]_vars, Single'
    PROVE  Single
<1>1. bus' = bus
  BY DEF Next, BootStep, BusReset, ResetOver, Enumerate, Up, DeviceManager, Initialise, Format,
     Good, Serve, Transact, Begin, Go, End, Perform, Hardware, Interrupt, vars, busVars
<1>2. OneDisk' <=> OneDisk
  BY <1>1, BusStays
<1>3. dead' => dead
  BY DEF UsbTypes, Next, BootStep, BusReset, ResetOver, Enumerate, Up, DeviceManager, Initialise, Format,
     Good, Serve, Transact, Begin, Go, End, Perform, Hardware, Interrupt, vars, busVars
<1> QED
  BY <1>2, <1>3 DEF Single

\* Before the volume is good the server has nothing to do; after that, if there
\* is one disk, the boot thread has not.
LEMMA PreparedAlone == Stages /\ Single /\ Prepared => Alone
  BY ThreadsAssumption DEF Stages, Single, Prepared, Alone, Active

LEMMA PreparedAloneNext == (Stages /\ Single /\ Prepared => Alone)'
  BY PreparedAlone, PTL

LEMMA ActiveIs ==
    ASSUME NEW t \in Thread, phase[t] # "out"
    PROVE  t \in Active
  BY DEF Active

\* Signal wakes the thread that sleeps, if one does.
LEMMA SignalIs ==
    ASSUME UsbTypes, Sleeping, Signal
    PROVE  \/ asleep = <<>> /\ signals' = signals + 1 /\ UNCHANGED <<asleep, phase>>
           \/ \E t \in Active : /\ asleep = <<t>> /\ phase[t] = "asleep"
                                /\ phase' = [phase EXCEPT ![t] = "woken"] /\ asleep' = <<>> /\ signals' = signals
<1>1. CASE asleep = <<>>
  BY <1>1 DEF Signal
<1>2. CASE asleep # <<>>
  <2>1. PICK t \in Active : asleep = <<t>> /\ phase[t] = "asleep"
    BY <1>2 DEF Sleeping
  <2>2. Head(asleep) = t /\ Tail(asleep) = <<>>
    BY <2>1
  <2>3. phase' = [phase EXCEPT ![t] = "woken"] /\ asleep' = <<>> /\ signals' = signals
    BY <1>2, <2>2 DEF Signal
  <2> QED
    BY <2>1, <2>3
<1> QED
  BY <1>1, <1>2

LEMMA SignalPhased ==
    ASSUME UsbTypes, Stages, Single, Phased, Signal, UNCHANGED <<queue, todo>>
    PROVE  Phased'
<1>0. Prepared /\ Alone /\ Filled /\ Sleeping /\ (Connecting => phase[Boot] \in {"started", "asleep", "woken"})
  BY DEF Phased
<1>1. phase \in [Thread -> Phases]
  BY DEF UsbTypes
<1>2. CASE asleep = <<>> /\ signals' = signals + 1 /\ UNCHANGED <<asleep, phase>>
  <2>1. \A t \in Thread : phase[t] # "asleep"
    <3>1. \A t : <<t>> # <<>>
      OBVIOUS
    <3> QED
      BY <3>1, <1>0, <1>2 DEF Sleeping
  <2>2. Sleeping'
    BY <2>1, <1>2 DEF Sleeping
  <2> QED
    BY <2>2, <1>0, <1>2 DEF Phased, Prepared, Alone, Filled, Active, Busy, Connecting
<1>3. ASSUME NEW t \in Active, asleep = <<t>>, phase[t] = "asleep",
             phase' = [phase EXCEPT ![t] = "woken"], asleep' = <<>>, signals' = signals
      PROVE  Phased'
  <2>1. \A u \in Thread : (phase'[u] = "out" <=> phase[u] = "out") /\ phase'[u] # "asleep"
    <3>1. \A u \in Thread : phase[u] = "asleep" => u = t
      <4>1. \A u : <<u>> = <<t>> => u = t
        OBVIOUS
      <4> QED
        BY <4>1, <1>0, <1>3 DEF Sleeping
    <3>2. t \in Thread
      BY DEF Active
    <3> QED
      BY <3>1, <3>2, <1>1, <1>3
  <2>2. Active' = Active /\ Busy' = Busy
    BY <2>1 DEF Active, Busy
  <2>3. Sleeping'
    BY <2>1, <1>3 DEF Sleeping
  <2>4. Connecting' => phase'[Boot] \in {"started", "asleep", "woken"}
    BY <1>0, <1>1, <1>3 DEF Connecting, Active
  <2> QED
    BY <2>2, <2>3, <2>4, <1>0 DEF Phased, Prepared, Alone, Filled
<1> QED
  BY <1>0, <1>2, <1>3, SignalIs

LEMMA PhasedNext ==
    ASSUME UsbTypes, Stages, Phased, Stages', UsbTypes', [Next]_vars
    PROVE  Phased'
<1> SUFFICES ASSUME Single' PROVE Phased'
  BY DEF Phased
<1>0. /\ Single /\ Prepared /\ Alone /\ Filled /\ Sleeping
      /\ Connecting => phase[Boot] \in {"started", "asleep", "woken"}
      /\ Boot \in Thread /\ Server \in Thread /\ Boot # Server /\ phase \in [Thread -> Phases]
  BY SingleStays, ThreadsAssumption DEF Phased, UsbTypes
\* What is left is to do with sleepers and the request.
<1>1. Prepared' => Alone'
  BY PreparedAloneNext
<1>2. \A t \in Active : phase[t] # "asleep" => asleep = <<>>
  BY <1>0 DEF Sleeping, Alone
<1>3. ASSUME BusReset PROVE Phased'
  <2>1. /\ todo[Boot] # <<>> /\ todo[Boot][1].do = "connect" /\ phase[Boot] = "woken" /\ Then(Boot, <<>>)
        /\ phase' = [phase EXCEPT ![Boot] = "started"]
    BY <1>3, AtIs DEF BusReset
  <2>2. todo[Boot] = Opening /\ todo'[Boot] = After(Opening, 1) /\ todo'[Server] = todo[Server]
    BY <2>1, <1>0, ConnectingIs, ThenIs
  <2>3. todo'[Boot] = Tail(Opening)
    BY <2>2, OpeningIs
  <2>4. todo'[Boot] # <<>> /\ Head(todo'[Boot]).do = "reset"
    <3>1. 1 \in 0 .. Len(Opening) /\ Opening \in Seq(Items) /\ 1 \in 1 .. Len(Opening) - 1
      BY OpeningIs
    <3>2. After(Opening, 1)[1] = Opening[1 + 1] /\ DOMAIN After(Opening, 1) = 1 .. Len(Opening) - 1
      BY <3>1, Shifted
    <3>3. todo'[Boot][1].do = "reset" /\ todo'[Boot] # <<>>
      BY <2>2, <3>1, <3>2, OpeningIs
    <3> QED
      BY <3>3
  <2>5. Active' = Active
    BY <2>1, <1>0 DEF Active
  <2>6. Prepared'
    <3>1. ASSUME NEW t \in Active
          PROVE  todo'[t] # <<>> /\ Head(todo'[t]).do \in RequestDo \cup {"connect", "reset"}
      <4>1. t = Boot \/ t = Server
        BY ThreadsAssumption DEF Active
      <4>2. CASE t = Boot
        BY <4>2, <2>4
      <4>3. CASE t = Server
        <5>1. todo'[t] = todo[t]
          BY <4>3, <2>2
        <5> QED
          BY <5>1, <1>0 DEF Prepared
      <4> QED
        BY <4>1, <4>2, <4>3
    <3> QED
      BY <3>1, <2>5 DEF Prepared
  <2>7. Boot \in Active /\ asleep = <<>>
    BY <2>1, <1>0, <1>2 DEF Active
  <2>8. Sleeping'
    <3>1. \A t \in Thread : phase'[t] # "asleep"
      BY <2>1, <2>7, <1>0 DEF Alone, Active
    <3> QED
      BY <3>1, <2>7, <1>3 DEF Sleeping, BusReset
  <2>9. Filled'
    <3>1. Busy' = {}
      <4>1. "reset" \notin DOMAIN Descriptors
        BY DosDistinct DEF RequestDo
      <4> QED
        BY <4>1, <2>4, <2>5, <2>6, <2>7, <1>0, <1>1 DEF Busy, Alone, Active, Requested
    <3> QED
      BY <3>1 DEF Filled
  <2> QED
    BY <2>1, <2>6, <2>8, <2>9, <1>0, <1>1 DEF Phased
<1>4. ASSUME ResetOver PROVE Phased'
  <2>1. /\ todo[Boot] # <<>> /\ todo[Boot][1].do = "reset" /\ phase[Boot] = "woken" /\ Then(Boot, <<>>)
        /\ phase' = [phase EXCEPT ![Boot] = "out"]
    BY <1>4, AtIs DEF ResetOver
  <2>2. Boot \in Active /\ asleep = <<>>
    BY <2>1, <1>0, <1>2 DEF Active
  <2>3. Active' = {}
    BY <2>1, <2>2, <1>0 DEF Active, Alone
  <2>4. todo[Boot] # Opening
    BY <2>1, ConnectingIs
  <2>5. todo[Boot] = Tail(Opening)
    BY <2>1, <2>4, ConnectingIs DEF Connecting
  <2>6. ~Connecting'
    <3>1. todo'[Boot] = After(Tail(Opening), 1)
      BY <2>1, <2>5, <1>0, ThenIs
    <3>2. Opening \in Seq(Items) /\ 1 \in 0 .. Len(Opening) /\ Len(Opening) = 4
      BY OpeningIs
    <3>3. After(Opening, 1) \in Seq(Items) /\ Len(After(Opening, 1)) = Len(Opening) - 1
      <4>1. Opening \in Seq(Items) /\ 1 \in 0 .. Len(Opening)
        BY <3>2
      <4> QED
        BY <4>1, Shifted
    <3>4. Tail(Opening) \in Seq(Items) /\ Len(Tail(Opening)) = 3
      BY <3>2, <3>3, OpeningIs
    <3>5. Tail(Opening) \in Seq(Items) /\ 1 \in 0 .. Len(Tail(Opening))
      <4>1. 1 \in 0 .. 3
        OBVIOUS
      <4> QED
        BY <3>4, <4>1, Zenon
    <3>6. Len(After(Tail(Opening), 1)) = Len(Tail(Opening)) - 1
      BY <3>5, Shifted
    <3>7. todo'[Boot] # Opening /\ todo'[Boot] # Tail(Opening)
      BY <3>1, <3>2, <3>4, <3>6
    <3> QED
      BY <3>7 DEF Connecting
  <2>7. Sleeping' /\ Filled' /\ Prepared' /\ Alone'
    <3>1. \A t \in Thread : phase'[t] = "out"
      BY <2>3 DEF Active
    <3>2. asleep' = <<>>
      BY <2>2, <1>4 DEF ResetOver
    <3> QED
      BY <3>1, <3>2, <2>3 DEF Sleeping, Filled, Prepared, Alone, Busy
  <2> QED
    BY <2>6, <2>7 DEF Phased
<1>5. ASSUME Enumerate \/ Up \/ DeviceManager \/ Initialise \/ Format \/ Good PROVE Phased'
  <2>1. /\ ~Connecting /\ Opened(todo'[Boot]) /\ todo[Boot] # <<>>
        /\ Head(todo[Boot]).do \notin RequestDo \cup {"connect", "reset"}
        /\ todo'[Server] = todo[Server]
    BY <1>5, BootOpened
  <2>2. ~Connecting'
    <3>1. todo'[Boot] # Opening /\ todo'[Boot] # Tail(Opening)
      BY <2>1, OpenedNot
    <3> QED
      BY <3>1 DEF Connecting
  <2>3. UNCHANGED transferVars
    BY <1>5 DEF Enumerate, Up, DeviceManager, Initialise, Format, Good
  <2>4. Boot \notin Active
    BY <2>1, <1>0 DEF Prepared
  <2>5. UNCHANGED <<phase, asleep, signals, queue>>
    BY <2>3 DEF transferVars, semaphoreVars
  <2>6. Active' = Active /\ \A t \in Active : todo'[t] = todo[t]
    BY <2>1, <2>4, <2>5, ThreadsAssumption DEF Active
  <2>7. Busy' \subseteq Busy
    BY <2>1, <2>4, <2>5, ThreadsAssumption DEF Busy, Active
  <2>8. \A t \in Busy : todo'[t] = todo[t]
    BY <2>6 DEF Busy, Active
  <2>9. Prepared' /\ Alone' /\ Filled' /\ Sleeping'
    BY <2>5, <2>6, <2>7, <2>8, <1>0 DEF Prepared, Alone, Filled, Sleeping
  <2> QED
    BY <2>2, <2>9 DEF Phased
<1>6. ASSUME Serve PROVE Phased'
  <2>1. ~dead /\ todo[Server] = <<>> /\ UNCHANGED <<transferVars, busVars>>
        /\ \E x : todo' = [todo EXCEPT ![Server] = x]
    BY <1>6 DEF Serve
  <2>2. todo'[Boot] = todo[Boot] /\ Server \notin Active
    BY <2>1, <1>0 DEF UsbTypes, Prepared
  <2>3. UNCHANGED <<phase, asleep, signals, queue>>
    BY <2>1 DEF transferVars, semaphoreVars
  <2>4. Active' = Active /\ \A t \in Active : todo'[t] = todo[t]
    BY <2>2, <2>3, ThreadsAssumption DEF Active
  <2>5. Busy' \subseteq Busy
    BY <2>2, <2>3, <2>4, ThreadsAssumption DEF Busy, Active
  <2>6. \A t \in Busy : todo'[t] = todo[t]
    BY <2>4 DEF Busy, Active
  <2>7. Prepared' /\ Alone' /\ Filled' /\ Sleeping'
    BY <2>3, <2>4, <2>5, <2>6, <1>0 DEF Prepared, Alone, Filled, Sleeping
  <2> QED
    BY <2>2, <2>3, <2>7, <1>0 DEF Phased, Connecting
<1>7. ASSUME NEW t \in Thread, Begin(t) PROVE Phased'
  <2>1. /\ todo[t] # <<>> /\ Requested(Head(todo[t])) /\ phase[t] = "out" /\ todo' = todo
        /\ phase' = [phase EXCEPT ![t] = "filled"] /\ UNCHANGED <<asleep, signals>>
        /\ queue'.by = t /\ queue'.request = Head(todo[t])
    BY <1>7 DEF Begin, Fill
  <2>2. Active' = Active \cup {t} /\ t \in Active'
    BY <2>1, <1>0 DEF Active
  <2>3. Prepared'
    BY <2>1, <2>2, <1>0 DEF Prepared, Requested, RequestDo
  <2>4. Active' = {t}
    BY <2>2, <2>3, <1>1 DEF Alone
  <2>5. Active = {}
    BY <2>1, <2>2, <2>4 DEF Active
  <2>6. asleep = <<>>
    BY <2>5, <1>0 DEF Sleeping
  <2>7. Sleeping'
    <3>1. \A u \in Thread : phase'[u] # "asleep"
      BY <2>1, <2>5, <1>0 DEF Active
    <3> QED
      BY <3>1, <2>1, <2>6 DEF Sleeping
  <2>8. Filled'
    <3>1. Busy' \subseteq Active'
      BY DEF Busy, Active
    <3> QED
      BY <3>1, <2>1, <2>4 DEF Filled
  <2>9. ~Connecting'
    BY <2>1, <2>5, <1>0 DEF Active, Connecting
  <2> QED
    BY <2>3, <2>7, <2>8, <2>9, <1>1 DEF Phased
<1>8. ASSUME NEW t \in Thread, Go(t) PROVE Phased'
  <2>1. /\ phase[t] \in {"filled", "started"} /\ todo' = todo /\ queue' = queue
        /\ \/ phase' = [phase EXCEPT ![t] = "started"] /\ UNCHANGED <<signals, asleep>>
           \/ signals > 0 /\ phase' = [phase EXCEPT ![t] = "woken"] /\ signals' = signals - 1 /\ asleep' = asleep
           \/ ~(signals > 0) /\ phase' = [phase EXCEPT ![t] = "asleep"] /\ signals' = signals
              /\ asleep' = <<t>> \o asleep
    BY <1>8 DEF Go, Start, SemaphoreWait
  <2>2. t \in Active /\ asleep = <<>> /\ \A u \in Active : u = t
    BY <2>1, <1>0, <1>2 DEF Active, Alone
  <2>3. Active' = Active /\ Busy' = Busy
    BY <2>1, <1>0 DEF Active, Busy
  <2>4. Sleeping'
    <3>1. \A u \in Thread : u # t => phase'[u] # "asleep"
      BY <2>1, <2>2, <1>0 DEF Active
    <3>2. CASE phase'[t] # "asleep"
      BY <3>1, <3>2, <2>1, <2>2, <1>0 DEF Sleeping
    <3>3. CASE phase'[t] = "asleep"
      <4>1. ~(signals > 0) /\ signals' = signals /\ asleep' = <<t>> \o <<>>
        BY <3>3, <2>1, <2>2, <1>0
      <4>2. signals' = 0
        BY <4>1 DEF UsbTypes
      <4>3. asleep' = <<t>>
        <5>1. <<t>> \in Seq(Thread)
          OBVIOUS
        <5> QED
          BY <4>1, <5>1, ConcatEmptySeq
      <4> QED
        BY <3>1, <3>3, <4>2, <4>3, <2>2, <2>3 DEF Sleeping
    <3> QED
      BY <3>2, <3>3
  <2>5. Connecting' => phase'[Boot] \in {"started", "asleep", "woken"}
    BY <2>1, <1>0 DEF Connecting
  <2> QED
    BY <2>1, <2>3, <2>4, <2>5, <1>0 DEF Phased, Prepared, Alone, Filled
<1>9. ASSUME NEW t \in Thread, End(t) PROVE Phased'
  <2>1. phase[t] = "woken" /\ phase' = [phase EXCEPT ![t] = "out"] /\ UNCHANGED <<asleep, signals, queue>>
    BY <1>9 DEF End, Finish
  <2>2. Active' = {} /\ asleep = <<>>
    BY <2>1, <1>0, <1>2 DEF Active, Alone
  <2>3. ~Connecting'
    <3>1. CASE t = Boot
      <4>1. Opened(todo'[Boot])
        BY <3>1, <1>9, EndOpened
      <4>2. todo'[Boot] # Opening /\ todo'[Boot] # Tail(Opening)
        BY <4>1, OpenedNot
      <4> QED
        BY <4>2 DEF Connecting
    <3>2. CASE t # Boot
      <4>1. todo'[Boot] = todo[Boot]
        BY <3>2, <1>9, EndOpened
      <4>2. phase[Boot] = "out"
        BY <3>2, <2>1, <1>0 DEF Active, Alone
      <4> QED
        BY <4>1, <4>2, <1>0 DEF Connecting
    <3> QED
      BY <3>1, <3>2
  <2>4. Prepared' /\ Alone' /\ Filled' /\ Sleeping'
    <3>1. \A u \in Thread : phase'[u] = "out"
      BY <2>2 DEF Active
    <3> QED
      BY <3>1, <2>1, <2>2 DEF Prepared, Alone, Filled, Sleeping, Busy
  <2> QED
    BY <2>3, <2>4 DEF Phased
<1>10. ASSUME UNCHANGED <<phase, asleep, signals, todo>>, queue'.by = queue.by, queue'.request = queue.request
       PROVE  Phased'
  BY <1>0, <1>10 DEF Phased, Prepared, Alone, Filled, Sleeping, Busy, Active, Connecting
<1>11. ASSUME Perform PROVE Phased'
  <2>1. PICK d \in Device, flipped \in SUBSET Endpoint : Transfer(d, flipped)
    BY <1>11 DEF Perform
  <2>2. queue'.by = queue.by /\ queue'.request = queue.request
    BY <2>1, TransferIs, TypesSplit
  <2> QED
    BY <2>1, <2>2, <1>10, <1>11 DEF Perform, Transfer, semaphoreVars
<1>12. ASSUME Hardware PROVE Phased'
  <2>1. queue'.by = queue.by /\ queue'.request = queue.request
    BY <1>12 DEF Hardware, Halt, PortChange, UsbTypes, Queues
  <2> QED
    BY <2>1, <1>10, <1>12 DEF Hardware, Halt, PortChange, semaphoreVars
<1>13. ASSUME Interrupt PROVE Phased'
  <2>1. /\ Signal \/ UNCHANGED semaphoreVars
        /\ UNCHANGED <<queue, todo>>
    BY <1>13 DEF Interrupt, Acknowledge, AcknowledgePort
  <2> QED
    BY <2>1, <1>0, <1>10, SignalPhased DEF semaphoreVars
<1>14. CASE UNCHANGED vars
  BY <1>10, <1>14 DEF vars, transferVars, semaphoreVars
<1> QED
  BY <1>3, <1>4, <1>5, <1>6, <1>7, <1>8, <1>9, <1>11, <1>12, <1>13, <1>14 DEF Next, BootStep, Transact

-----------------------------------------------------------------------------
(* One signal for each transfer *)

Unfinished == queue.left > 0 /\ ~queue.halted

\* The transfer has ended in an interrupt, or is about to.
Signalled == queue.left = 0 \/ (queue.halted /\ queue.left = 1)

One(b) == IF b THEN 1 ELSE 0

Woken == \E t \in Thread : phase[t] = "woken"

\* Signals that were given, that are about to be given, and one that woke a thread.
Given == signals + One(ui) + One(pci) + One(isr = "port") + One(Woken)

Due == IF Connecting THEN changes ELSE IF Active # {} /\ Signalled THEN 1 ELSE 0

Tokens ==
    Quiet /\ Single =>
       /\ ccs <=> changes = 1
       /\ Connecting => ~ui /\ queue.left = 0
       /\ Connecting /\ changes = 0 => todo[Boot] = Opening
       /\ ~Connecting => changes = 1 /\ ~pci /\ isr = "none"
       /\ Active = {} => ~Unfinished
       /\ Given = Due

\* What Given says of its parts, and they of it.
Counts ==
    /\ Given \in Nat
    /\ Given = 0 => signals = 0 /\ ~ui /\ ~pci /\ isr = "none" /\ ~Woken
    /\ Given <= 1 =>
              /\ signals > 0 => signals = 1 /\ ~ui /\ ~pci /\ isr = "none" /\ ~Woken
              /\ ui => signals = 0 /\ ~pci /\ isr = "none" /\ ~Woken
              /\ pci => signals = 0 /\ ~ui /\ isr = "none" /\ ~Woken
              /\ isr = "port" => signals = 0 /\ ~ui /\ ~pci /\ ~Woken
              /\ Woken => signals = 0 /\ ~ui /\ ~pci /\ isr = "none"
    /\ signals = 0 /\ ~ui /\ ~pci /\ isr = "none" /\ ~Woken => Given = 0
    /\ signals = 1 /\ ~ui /\ ~pci /\ isr = "none" /\ ~Woken => Given = 1
    /\ signals = 0 /\ ui /\ ~pci /\ isr = "none" /\ ~Woken => Given = 1
    /\ signals = 0 /\ ~ui /\ pci /\ isr = "none" /\ ~Woken => Given = 1
    /\ signals = 0 /\ ~ui /\ ~pci /\ isr = "port" /\ ~Woken => Given = 1
    /\ signals = 0 /\ ~ui /\ ~pci /\ isr = "none" /\ Woken => Given = 1

LEMMA GivenIs == UsbTypes => Counts
<1> SUFFICES ASSUME UsbTypes PROVE Counts
  OBVIOUS
<1> DEFINE A == One(ui)  B == One(pci)  C == One(isr = "port")  D == One(Woken)
<1>1. /\ signals \in Nat /\ isr \in {"none", "port"}
      /\ A \in {0, 1} /\ B \in {0, 1} /\ C \in {0, 1} /\ D \in {0, 1}
  BY DEF UsbTypes, One
<1>2. /\ (A = 1 <=> ui) /\ (B = 1 <=> pci) /\ (C = 1 <=> isr = "port") /\ (D = 1 <=> Woken)
  BY DEF One
<1>3. Given = signals + A + B + C + D
  BY DEF Given
<1> HIDE DEF A, B, C, D
<1> QED
  BY <1>1, <1>2, <1>3 DEF Counts

LEMMA GivenIsNext == (UsbTypes => Counts)'
  BY GivenIs, PTL

LEMMA QuietStays ==
    ASSUME UsbTypes, [Next]_vars, Quiet'
    PROVE  Quiet /\ (changes' = changes \/ PortChange)
<1>1. changes' = changes \/ PortChange
  BY DEF Next, BootStep, BusReset, ResetOver, Enumerate, Up, DeviceManager, Initialise, Format,
     Good, Serve, Transact, Begin, Go, End, Fill, Start, SemaphoreWait, Finish, Perform, Transfer, Hardware,
     Halt, Interrupt, Acknowledge, AcknowledgePort, vars, transferVars, controllerVars
<1> QED
  BY <1>1 DEF UsbTypes, PortChange, Quiet

LEMMA TokensNext ==
    ASSUME UsbTypes, Stages, Phased, Tokens, Stages', UsbTypes', Phased', [Next]_vars
    PROVE  Tokens'
<1> SUFFICES ASSUME Quiet', Single' PROVE Tokens'
  BY DEF Tokens
<1>1. /\ Prepared /\ Alone /\ Filled /\ Sleeping
      /\ Connecting => phase[Boot] \in {"started", "asleep", "woken"}
      /\ Boot \in Thread /\ Server \in Thread /\ Boot # Server /\ phase \in [Thread -> Phases]
      /\ Single
  BY SingleStays, ThreadsAssumption DEF Phased, UsbTypes
<1>2. Prepared' /\ Alone' /\ Filled' /\ Sleeping' /\ (Connecting' => phase'[Boot] \in {"started", "asleep", "woken"})
  BY DEF Phased
<1>3. /\ ccs <=> changes = 1
      /\ Connecting => ~ui /\ queue.left = 0
      /\ Connecting /\ changes = 0 => todo[Boot] = Opening
      /\ ~Connecting => changes = 1 /\ ~pci /\ isr = "none"
      /\ Active = {} => ~Unfinished
      /\ Given = Due
      /\ changes \in {0, 1} /\ Due \in {0, 1} /\ Given <= 1
  <2>1. Quiet
    BY QuietStays
  <2>2. changes \in {0, 1}
    BY <2>1 DEF Quiet, UsbTypes
  <2> QED
    BY <2>1, <2>2, <1>1 DEF Tokens, Due
<1>4. Counts
  BY GivenIs
<1>5. Counts'
  BY GivenIsNext
<1>6. queue.left \in Nat /\ queue.halted \in BOOLEAN /\ ui \in BOOLEAN /\ pci \in BOOLEAN /\ ccs \in BOOLEAN
      /\ isr \in {"none", "port"}
  BY DEF UsbTypes, Queues
<1>7. \A t \in Thread : phase[t] = "woken" =>
         /\ Woken /\ Given = 1 /\ Due = 1 /\ signals = 0 /\ ~ui /\ ~pci /\ isr = "none"
         /\ Active = {t} /\ asleep = <<>>
  <2> SUFFICES ASSUME NEW t \in Thread, phase[t] = "woken"
               PROVE  /\ Woken /\ Given = 1 /\ Due = 1 /\ signals = 0 /\ ~ui /\ ~pci /\ isr = "none"
                      /\ Active = {t} /\ asleep = <<>>
    OBVIOUS
  <2>1. Woken
    BY DEF Woken
  <2>2. signals = 0 /\ ~ui /\ ~pci /\ isr = "none" /\ Given = 1
    BY <2>1, <1>3, <1>4 DEF Counts
  <2>3. Active = {t}
    BY <1>1 DEF Active, Alone
  <2>4. asleep = <<>>
    BY <2>3, <1>1 DEF Sleeping
  <2> QED
    BY <2>1, <2>2, <2>3, <2>4, <1>3
<1>8. ASSUME BusReset PROVE Tokens'
  <2>1. /\ todo[Boot] # <<>> /\ todo[Boot][1].do = "connect" /\ phase[Boot] = "woken" /\ Then(Boot, <<>>)
        /\ phase' = [phase EXCEPT ![Boot] = "started"] /\ pci' = (pci \/ ccs)
        /\ UNCHANGED <<signals, queue, isr, ui, ccs, changes>>
    BY <1>8, AtIs DEF BusReset
  <2>2. todo[Boot] = Opening /\ todo'[Boot] = After(Opening, 1)
    BY <2>1, <1>1, ConnectingIs, ThenIs
  <2>3. Connecting /\ Connecting'
    BY <2>2, OpeningIs DEF Connecting
  <2>4. Given = 1 /\ changes = 1 /\ signals = 0 /\ ~ui /\ ~pci /\ isr = "none" /\ Active = {Boot}
    BY <2>1, <2>3, <1>1, <1>3, <1>7 DEF Due
  <2>5. ~Woken'
    BY <2>1, <2>4, <1>1 DEF Woken, Active
  <2>6. pci'
    BY <2>1, <2>4, <1>3
  <2>7. Given' = 1
    BY <2>1, <2>4, <2>5, <2>6, <1>5 DEF Counts
  <2>8. Active' # {}
    BY <2>1, <1>1 DEF Active
  <2> QED
    BY <2>1, <2>3, <2>4, <2>7, <2>8, <1>3 DEF Tokens, Due
<1>9. ASSUME ResetOver PROVE Tokens'
  <2>1. /\ todo[Boot] # <<>> /\ todo[Boot][1].do = "reset" /\ phase[Boot] = "woken"
        /\ phase' = [phase EXCEPT ![Boot] = "out"]
        /\ UNCHANGED <<signals, queue, isr, ui, pci, ccs, changes>>
    BY <1>9, AtIs DEF ResetOver, controllerVars
  <2>2. Connecting
    BY <2>1, ConnectingIs
  <2>3. Given = 1 /\ changes = 1 /\ signals = 0 /\ ~ui /\ ~pci /\ isr = "none" /\ Active = {Boot}
    BY <2>1, <2>2, <1>1, <1>3, <1>7 DEF Due
  <2>4. Active' = {} /\ ~Woken'
    BY <2>1, <2>3, <1>1 DEF Active, Woken
  <2>5. ~Connecting'
    BY <2>4, <1>1, <1>2 DEF Active
  <2>6. Given' = 0
    BY <2>1, <2>3, <2>4, <1>5 DEF Counts
  <2>7. ~Unfinished'
    BY <2>1, <2>2, <1>3 DEF Unfinished
  <2> QED
    BY <2>1, <2>3, <2>4, <2>5, <2>6, <2>7, <1>3 DEF Tokens, Due
\* Steps that change nothing of this.
<1>10. ASSUME UNCHANGED <<signals, phase, queue, isr, ui, pci, ccs, changes>>, Connecting' <=> Connecting,
              Connecting => todo'[Boot] = todo[Boot]
       PROVE  Tokens'
  <2>1. Given' = Given /\ Active' = Active /\ (Unfinished' <=> Unfinished) /\ (Signalled' <=> Signalled)
    BY <1>10 DEF Given, Woken, Active, Unfinished, Signalled
  <2>2. Due' = Due
    BY <2>1, <1>10 DEF Due
  <2> QED
    BY <2>1, <2>2, <1>3, <1>10 DEF Tokens
<1>11. ASSUME Enumerate \/ Up \/ DeviceManager \/ Initialise \/ Format \/ Good PROVE Tokens'
  <2>1. ~Connecting /\ Opened(todo'[Boot])
    BY <1>11, BootOpened
  <2>2. ~Connecting'
    <3>1. todo'[Boot] # Opening /\ todo'[Boot] # Tail(Opening)
      BY <2>1, OpenedNot
    <3> QED
      BY <3>1 DEF Connecting
  <2>3. UNCHANGED transferVars
    BY <1>11 DEF Enumerate, Up, DeviceManager, Initialise, Format, Good
  <2> QED
    BY <2>1, <2>2, <2>3, <1>10 DEF transferVars, semaphoreVars, controllerVars
<1>12. ASSUME Serve PROVE Tokens'
  <2>1. UNCHANGED transferVars /\ todo'[Boot] = todo[Boot]
    BY <1>1, <1>12 DEF Serve, UsbTypes
  <2> QED
    BY <2>1, <1>10 DEF transferVars, semaphoreVars, controllerVars, Connecting
<1>13. ASSUME NEW t \in Thread, Begin(t) PROVE Tokens'
  <2>1. /\ todo[t] # <<>> /\ Requested(Head(todo[t])) /\ phase[t] = "out" /\ todo' = todo
        /\ phase' = [phase EXCEPT ![t] = "filled"] /\ UNCHANGED <<signals, isr, ui, pci, ccs, changes>>
        /\ queue'.left = Descriptors[Head(todo[t]).do] /\ queue'.halted = FALSE
    BY <1>13 DEF Begin, Fill, controllerVars
  <2>2. queue'.left \in Nat \ {0}
    BY <2>1, DosDistinct DEF Requested, RequestDo
  <2>3. t \in Active'
    BY <2>1, <1>1 DEF Active
  <2>4. Active = {}
    BY <2>1, <2>3, <1>1, <1>2 DEF Active, Alone
  <2>5. ~Connecting /\ ~Connecting'
    BY <2>1, <2>4, <1>1 DEF Active, Connecting
  <2>6. Given = 0
    BY <2>4, <2>5, <1>3 DEF Due
  <2>7. ~Woken'
    BY <2>1, <2>4, <1>1 DEF Woken, Active
  <2>8. Given' = 0
    BY <2>1, <2>6, <2>7, <1>4, <1>5 DEF Counts
  <2>9. Due' = 0
    BY <2>1, <2>2, <2>5 DEF Due, Signalled
  <2> QED
    BY <2>1, <2>3, <2>5, <2>8, <2>9, <1>3 DEF Tokens
<1>14. ASSUME NEW t \in Thread, Go(t) PROVE Tokens'
  <2>1. /\ phase[t] \in {"filled", "started"} /\ todo' = todo
        /\ UNCHANGED <<queue, isr, ui, pci, ccs, changes>>
        /\ \/ phase' = [phase EXCEPT ![t] = "started"] /\ signals' = signals
           \/ signals > 0 /\ phase' = [phase EXCEPT ![t] = "woken"] /\ signals' = signals - 1
           \/ phase' = [phase EXCEPT ![t] = "asleep"] /\ signals' = signals
    BY <1>14 DEF Go, Start, SemaphoreWait, controllerVars
  <2>2. t \in Active /\ \A u \in Active : u = t
    BY <2>1, <1>1 DEF Active, Alone
  <2>3. Active' = Active /\ (Connecting' <=> Connecting)
    BY <2>1, <1>1 DEF Active, Connecting
  <2>4. ~Woken
    BY <2>1, <2>2 DEF Woken, Active
  <2>5. Given' = Given
    <3>1. CASE phase'[t] # "woken"
      <4>1. ~Woken' /\ signals' = signals
        BY <3>1, <2>1, <2>4, <1>1 DEF Woken
      <4>2. One(Woken)' = One(Woken)
        BY <4>1, <2>4 DEF One
      <4>3. One(ui)' = One(ui) /\ One(pci)' = One(pci) /\ One(isr = "port")' = One(isr = "port")
        BY <2>1 DEF One
      <4> QED
        BY <4>1, <4>2, <4>3 DEF Given
    <3>2. CASE phase'[t] = "woken"
      <4>1. Woken' /\ signals > 0 /\ signals' = signals - 1
        BY <3>2, <2>1, <1>1 DEF Woken
      <4>2. signals = 1 /\ ~ui /\ ~pci /\ isr = "none" /\ Given = 1
        BY <4>1, <2>4, <1>3, <1>4 DEF Counts
      <4>3. Given' = 1
        BY <4>1, <4>2, <2>1, <1>5 DEF Counts
      <4> QED
        BY <4>2, <4>3
    <3> QED
      BY <3>1, <3>2
  <2>6. Due' = Due
    BY <2>1, <2>3 DEF Due, Signalled
  <2> QED
    BY <2>1, <2>3, <2>5, <2>6, <1>3 DEF Tokens, Unfinished
<1>15. ASSUME NEW t \in Thread, End(t) PROVE Tokens'
  <2>1. /\ phase[t] = "woken" /\ phase' = [phase EXCEPT ![t] = "out"]
        /\ UNCHANGED <<signals, queue, isr, ui, pci, ccs, changes>>
    BY <1>15 DEF End, Finish, controllerVars
  <2>2. Given = 1 /\ Due = 1 /\ signals = 0 /\ ~ui /\ ~pci /\ isr = "none" /\ Active = {t}
    BY <2>1, <1>7
  <2>3. Active' = {} /\ ~Woken'
    BY <2>1, <2>2, <1>1 DEF Active, Woken
  <2>4. ~Connecting
    <3>1. t = Boot => ~Connecting
      BY <1>15, EndOpened
    <3>2. t # Boot => Boot \notin Active
      BY <2>2
    <3> QED
      BY <3>1, <3>2, <1>1 DEF Active
  <2>5. ~Connecting'
    BY <2>3, <1>1, <1>2 DEF Active
  <2>6. Signalled
    BY <2>2, <2>4 DEF Due
  <2>7. ~Unfinished'
    BY <2>1, <2>6 DEF Signalled, Unfinished
  <2>8. Given' = 0
    BY <2>1, <2>2, <2>3, <1>5 DEF Counts
  <2> QED
    BY <2>1, <2>3, <2>4, <2>5, <2>7, <2>8, <1>3 DEF Tokens, Due
\* The controller is at work, and has not interrupted.
<1>16. ASSUME Working, UNCHANGED <<signals, phase, isr, pci, ccs, changes, todo>>,
              ui' = (ui \/ queue.left = 1), queue'.left \in Nat,
              \/ queue'.left = queue.left - 1 /\ queue'.halted = queue.halted
              \/ queue'.left = queue.left /\ queue'.halted
       PROVE  Tokens'
  <2>1. queue.left > 0 /\ ~queue.halted
    BY <1>16 DEF Working
  <2>2. ~Connecting /\ ~Connecting' /\ Active # {} /\ Active' = Active
    BY <2>1, <1>3, <1>6, <1>16 DEF Unfinished, Connecting, Active
  <2>3. ~Signalled
    BY <2>1, <1>6 DEF Signalled
  <2>4. Given = 0
    BY <2>2, <2>3, <1>3 DEF Due
  <2>5. signals = 0 /\ ~ui /\ ~pci /\ isr = "none" /\ ~Woken /\ ~Woken'
    BY <2>4, <1>4, <1>16 DEF Counts, Woken
  <2>6. Signalled' <=> queue.left = 1
    BY <2>1, <1>6, <1>16 DEF Signalled
  <2>7. ui' <=> queue.left = 1
    BY <2>5, <1>16
  <2>8. Given' = IF queue.left = 1 THEN 1 ELSE 0
    BY <2>5, <2>7, <1>5, <1>16 DEF Counts
  <2>9. Due' = IF queue.left = 1 THEN 1 ELSE 0
    BY <2>2, <2>6 DEF Due
  <2> QED
    BY <2>2, <2>8, <2>9, <1>3, <1>16 DEF Tokens
<1>17. ASSUME Perform PROVE Tokens'
  <2>1. PICK d \in Device, flipped \in SUBSET Endpoint : Transfer(d, flipped)
    BY <1>17 DEF Perform
  <2>2. queue'.left = queue.left - 1 /\ queue.left > 0 /\ queue'.halted = queue.halted
    BY <2>1, TransferIs, TypesSplit
  <2>3. queue'.left \in Nat
    BY <2>2, <1>6
  <2>4. Working /\ UNCHANGED <<signals, phase, isr, pci, ccs, changes>> /\ ui' = (ui \/ queue.left = 1)
    BY <2>1 DEF Transfer, semaphoreVars, LastInterrupts
  <2>5. todo' = todo
    BY <1>17 DEF Perform
  <2> QED
    BY <2>2, <2>3, <2>4, <2>5, <1>16
<1>18. ASSUME Halt, todo' = todo PROVE Tokens'
  <2>1. queue'.left = queue.left /\ queue'.halted
    BY <1>18 DEF Halt, UsbTypes, Queues
  <2>2. Working /\ UNCHANGED <<signals, phase, isr, pci, ccs, changes>> /\ ui' = (ui \/ queue.left = 1)
    BY <1>18 DEF Halt, semaphoreVars, LastInterrupts
  <2> QED
    BY <2>1, <2>2, <1>6, <1>16, <1>18
<1>19. ASSUME PortChange, todo' = todo PROVE Tokens'
  <2>1. /\ changes' = changes + 1 /\ ccs' = ~ccs /\ pci' = TRUE
        /\ UNCHANGED <<signals, phase, queue, isr, ui>>
    BY <1>19 DEF PortChange, semaphoreVars
  <2>2. changes = 0 /\ changes' = 1
    BY <2>1, <1>3 DEF Quiet
  <2>3. Connecting /\ todo[Boot] = Opening /\ Connecting'
    BY <2>2, <1>3, <1>19 DEF Connecting
  <2>4. Given = 0
    BY <2>2, <2>3, <1>3 DEF Due
  <2>5. signals = 0 /\ ~ui /\ isr = "none" /\ ~Woken /\ ~Woken'
    BY <2>1, <2>4, <1>4 DEF Counts, Woken
  <2>6. Given' = 1
    BY <2>1, <2>5, <1>5 DEF Counts
  <2>7. ccs'
    <3>1. ~ccs
      BY <2>2, <1>3
    <3>2. ccs' = ~ccs
      BY <2>1
    <3> QED
      BY <3>1, <3>2, Zenon
  <2>8. Due' = 1
    BY <2>2, <2>3 DEF Due
  <2>9. Active' # {}
    BY <2>1, <2>3, <1>1 DEF Active
  <2> QED
    BY <2>1, <2>2, <2>3, <2>6, <2>7, <2>8, <2>9, <1>3 DEF Tokens
\* The semaphore is signalled in place of what raised the interrupt.
<1>20. ASSUME Signal, ~Woken, signals = 0, Given = 1, ~ui', ~pci', isr' = "none",
              UNCHANGED <<queue, ccs, changes, todo>>
       PROVE  Tokens'
  <2>1. Given' = 1 /\ Active' = Active
    <3>1. CASE asleep = <<>> /\ signals' = signals + 1 /\ UNCHANGED <<asleep, phase>>
      <4>1. ~Woken' /\ signals' = 1
        BY <3>1, <1>20 DEF Woken
      <4>2. Active' = Active
        BY <3>1 DEF Active
      <4> QED
        BY <4>1, <4>2, <1>5, <1>20 DEF Counts
    <3>2. ASSUME NEW t \in Active, asleep = <<t>>, phase[t] = "asleep",
                 phase' = [phase EXCEPT ![t] = "woken"], asleep' = <<>>, signals' = signals
          PROVE  Given' = 1 /\ Active' = Active
      <4>1. t \in Thread /\ Woken' /\ signals' = 0
        BY <3>2, <1>1, <1>20 DEF Woken, Active
      <4>2. Active' = Active
        BY <3>2, <1>1 DEF Active
      <4> QED
        BY <4>1, <4>2, <1>5, <1>20 DEF Counts
    <3> QED
      BY <3>1, <3>2, <1>1, <1>20, SignalIs
  <2>2. Connecting' <=> Connecting
    BY <1>20 DEF Connecting
  <2>3. Due' = Due /\ (Unfinished' <=> Unfinished)
    BY <2>1, <2>2, <1>20 DEF Due, Signalled, Unfinished
  <2> QED
    BY <2>1, <2>2, <2>3, <1>3, <1>20 DEF Tokens
<1>21. ASSUME Acknowledge, todo' = todo PROVE Tokens'
  <2>1. /\ isr = "none" /\ (ui \/ pci) /\ ~ui' /\ ~pci' /\ UNCHANGED <<queue, ccs, changes>>
        /\ isr' = IF pci THEN "port" ELSE "none"
        /\ IF ui THEN Signal ELSE UNCHANGED semaphoreVars
    BY <1>21 DEF Acknowledge
  <2>2. CASE ui
    <3>1. ~pci /\ ~Woken /\ signals = 0 /\ Given = 1
      BY <2>1, <2>2, <1>3, <1>4 DEF Counts
    <3> QED
      BY <2>1, <2>2, <3>1, <1>20, <1>21
  <2>3. CASE ~ui
    <3>1. pci /\ ~Woken /\ signals = 0 /\ Given = 1
      BY <2>1, <2>3, <1>3, <1>4 DEF Counts
    <3>2. isr' = "port" /\ UNCHANGED <<signals, phase>>
      BY <2>1, <2>3, <3>1 DEF semaphoreVars
    <3>3. ~Woken' /\ Active' = Active
      BY <3>1, <3>2 DEF Woken, Active
    <3>4. Given' = 1
      BY <2>1, <3>1, <3>2, <3>3, <1>5 DEF Counts
    <3>5. Connecting /\ Connecting'
      BY <3>1, <1>3, <1>21 DEF Connecting
    <3>6. Due' = Due
      BY <2>1, <3>5 DEF Due
    <3> QED
      BY <2>1, <3>1, <3>3, <3>4, <3>5, <3>6, <1>3, <1>21 DEF Tokens, Unfinished
  <2> QED
    BY <2>2, <2>3
<1>22. ASSUME AcknowledgePort, todo' = todo PROVE Tokens'
  <2>1. isr = "port" /\ Signal /\ isr' = "none" /\ ~ui' /\ ~pci' /\ UNCHANGED <<queue, ccs, changes>>
    BY <1>22 DEF AcknowledgePort
  <2>2. ~Woken /\ signals = 0 /\ Given = 1
    BY <2>1, <1>3, <1>4 DEF Counts
  <2> QED
    BY <2>1, <2>2, <1>20, <1>22
<1>23. CASE UNCHANGED vars
  BY <1>10, <1>23 DEF vars, transferVars, semaphoreVars, controllerVars, Connecting
<1> QED
  BY <1>8, <1>9, <1>11, <1>12, <1>13, <1>14, <1>15, <1>17, <1>18, <1>19, <1>21, <1>22, <1>23
  DEF Next, BootStep, Transact, Hardware, Interrupt

LEMMA PhasedTokensInit ==
    ASSUME Init
    PROVE  Phased /\ Tokens
<1>1. Boot \in Thread /\ Server \in Thread /\ Boot # Server
  BY ThreadsAssumption
<1>2. todo[Boot] = Opening /\ todo[Server] = <<>>
  BY <1>1 DEF Init, Opening
<1>3. /\ phase[Boot] = "started" /\ phase[Server] = "out" /\ signals = 0 /\ asleep = <<>>
      /\ ~ui /\ ~pci /\ ~ccs /\ isr = "none" /\ changes = 0 /\ queue.left = 0
  BY <1>1 DEF Init, TransferInit
<1>4. Active = {Boot}
  BY <1>1, <1>3, ThreadsAssumption DEF Active
<1>5. Connecting /\ Opening # <<>> /\ Head(Opening).do = "connect"
  BY <1>2 DEF Connecting, Opening, Item
<1>6. ~Woken
  BY <1>1, <1>3, ThreadsAssumption DEF Woken
<1>7. Busy = {}
  <2>1. "connect" \notin RequestDo
    BY DosDistinct
  <2> QED
    BY <2>1, <1>2, <1>5, ThreadsAssumption DEF Busy, Requested, RequestDo
<1>8. Prepared
  BY <1>2, <1>4, <1>5 DEF Prepared
<1>9. Sleeping
  BY <1>1, <1>3, ThreadsAssumption DEF Sleeping
<1>10. Phased
  BY <1>3, <1>4, <1>7, <1>8, <1>9 DEF Phased, Alone, Filled
<1>11. Given = 0 /\ Due = 0
  BY <1>3, <1>5, <1>6 DEF Given, Due, One
<1>12. Tokens
  BY <1>2, <1>3, <1>4, <1>5, <1>11 DEF Tokens
<1> QED
  BY <1>10, <1>12

\* One thread at a time, and one signal for what it waits for.
THEOREM SpecPhased == Spec => [](UsbTypes /\ Stages /\ Phased /\ Tokens)
<1>1. Init => UsbTypes /\ Stages /\ Phased /\ Tokens
  BY StagesInit, PhasedTokensInit
<1>2. (UsbTypes /\ Stages /\ Phased /\ Tokens) /\ [Next]_vars => (UsbTypes /\ Stages /\ Phased /\ Tokens)'
  <2> SUFFICES ASSUME UsbTypes, Stages, Phased, Tokens, [Next]_vars
               PROVE  (UsbTypes /\ Stages /\ Phased /\ Tokens)'
    OBVIOUS
  <2>1. UsbTypes' /\ Stages'
    BY StagesNext, TypesNext
  <2>2. Phased'
    BY <2>1, PhasedNext
  <2>3. Tokens'
    BY <2>1, <2>2, TokensNext
  <2> QED
    BY <2>1, <2>2, <2>3
<1> QED
  BY <1>1, <1>2, PTL DEF Spec

LEMMA TokensWait ==
    ASSUME UsbTypes, Stages, Phased, Tokens
    PROVE  WaitsForReply
<1> SUFFICES ASSUME Quiet, OneDisk, NEW t \in Busy, phase[t] = "woken"
             PROVE  queue.by = t /\ (queue.left = 0 \/ queue.halted)
  BY DEF WaitsForReply
<1>1. /\ Single /\ t \in Thread /\ todo[t] # <<>> /\ Requested(Head(todo[t])) /\ t \in Active
      /\ Alone /\ Filled /\ Boot \in Thread
      /\ Connecting => phase[Boot] \in {"started", "asleep", "woken"}
  BY ThreadsAssumption DEF Single, Busy, Active, Phased
<1>2. ~Connecting
  <2>1. CASE t = Boot
    <3>1. Head(todo[t]) = todo[t][1] /\ todo[t][1].do \in RequestDo
      BY <1>1, RequestIs
    <3>2. todo[t][1].do \notin {"connect", "reset"}
      BY <3>1, DosDistinct
    <3> QED
      BY <3>2, <2>1, ConnectingIs
  <2>2. CASE t # Boot
    BY <2>2, <1>1 DEF Alone, Active
  <2> QED
    BY <2>1, <2>2
<1>3. Woken
  BY <1>1 DEF Woken
<1>4. Counts
  BY GivenIs
<1>5. Given # 0
  BY <1>3, <1>4 DEF Counts
<1>6. Due # 0
  BY <1>1, <1>5 DEF Tokens
<1>7. Signalled
  BY <1>2, <1>6 DEF Due
<1> QED
  BY <1>1, <1>7 DEF Signalled, Filled

\* perform_transaction() goes on when its own transfer is over, and not on a
\* signal that was meant for something else, if there is one disk and the port
\* does not change (acknowledge() signals the one semaphore for both).
THEOREM SpecWaitsForReply == Spec => []WaitsForReply
<1>1. UsbTypes /\ Stages /\ Phased /\ Tokens => WaitsForReply
  BY TokensWait
<1> QED
  BY <1>1, SpecPhased, PTL

-----------------------------------------------------------------------------
(* Addresses: what is left of the enumeration *)

\* A request by address 0.
Zero(i) == i.device # Nobody /\ i.to = 0

\* The list takes no more devices.
Fills(l) == Len(l) + 2 >= MAX_USB_DEVICES

\* A device has the address of its items, or is given it before them.
Renamed(a, s) ==
    \A k \in DOMAIN s : s[k].to > 0 =>
       \/ a[s[k].device] = s[k].to
       \/ \E j \in DOMAIN s : j < k /\ s[j].do = "rename" /\ s[j].device = s[k].device /\ s[j].n = s[k].to

\* The requests by address 0 are the first z: of one device, up to its renaming.
Unnamed(s, z) ==
    /\ z \in Nat /\ z <= Len(s)
    /\ \A k \in DOMAIN s : Zero(s[k]) <=> k <= z
    /\ \A k \in DOMAIN s : k <= z => s[k].device = s[1].device /\ (s[k].do = "rename" <=> k = z)

\* The one device at address 0 is the one of those, or the next to be enumerated.
Awaited(a, l, s, z) ==
    IF z > 0
    THEN \A d \in Device : a[d] = 0 <=> d = s[1].device
    ELSE Fills(l) \/ \A d \in Device : a[d] = 0 =>
            \E k \in DOMAIN s : /\ s[k].do = "enumerate" /\ Enumerated(s[k]) = d
                                /\ \A j \in DOMAIN s : j < k => s[j].do \notin {"restart", "enumerate"}

\* A reset of a port is followed by the enumeration of what is there ...
Resets(s) ==
    \A k \in DOMAIN s : s[k].do = "restart" =>
       /\ k + 4 \in DOMAIN s /\ Pair(s[k], s[k + 4])
       /\ \A j \in k + 1 .. k + 3 : s[j].do \in {"order", "query"}

\* ... and that by nothing else.
Reset(a, s) ==
    \A k \in DOMAIN s : s[k].do = "enumerate" =>
       \/ a[Enumerated(s[k])] = 0
       \/ k > 4 /\ k - 4 \in DOMAIN s /\ Pair(s[k - 4], s[k])

Plan(a, l, s) ==
    /\ Renamed(a, s)
    /\ \E z \in Nat : Unnamed(s, z) /\ Awaited(a, l, s, z)
    /\ Resets(s)
    /\ Reset(a, s)

LEMMA Back ==
    ASSUME NEW s \in Seq(Items), NEW c \in 1 .. Len(s)
    PROVE  /\ Len(s) \in Nat /\ DOMAIN s = 1 .. Len(s) /\ c \in Nat /\ c >= 1 /\ c <= Len(s)
           /\ After(s, c) \in Seq(Items) /\ Len(After(s, c)) = Len(s) - c
           /\ DOMAIN After(s, c) = 1 .. Len(s) - c
           /\ \A k \in DOMAIN After(s, c) :
                 k \in Nat /\ k >= 1 /\ k + c \in DOMAIN s /\ After(s, c)[k] = s[k + c]
           /\ \A k \in DOMAIN s :
                 k \in Nat /\ k >= 1 /\ (k > c => k - c \in DOMAIN After(s, c) /\ After(s, c)[k - c] = s[k])
<1>1. Len(s) \in Nat /\ DOMAIN s = 1 .. Len(s) /\ c \in Nat /\ c >= 1 /\ c <= Len(s) /\ c \in 0 .. Len(s)
  BY LenProperties
<1> DEFINE r == After(s, c)
<1>2. /\ r \in Seq(Items) /\ Len(r) = Len(s) - c /\ DOMAIN r = 1 .. Len(s) - c
      /\ \A k \in 1 .. Len(s) - c : k + c \in 1 .. Len(s) /\ r[k] = s[k + c]
  BY <1>1, Shifted
<1> HIDE DEF r
<1>3. \A k \in DOMAIN r : k \in Nat /\ k >= 1 /\ k + c \in DOMAIN s /\ r[k] = s[k + c]
  BY <1>1, <1>2
<1>4. ASSUME NEW k \in DOMAIN s, k > c PROVE k - c \in DOMAIN r /\ r[k - c] = s[k]
  <2>1. k - c \in 1 .. Len(s) - c /\ (k - c) + c = k
    BY <1>1, <1>4
  <2> QED
    BY <2>1, <1>2
<1>5. \A k \in DOMAIN s : k \in Nat /\ k >= 1
  BY <1>1
<1> QED
  BY <1>1, <1>2, <1>3, <1>4, <1>5 DEF r

\* Plan of what comes after the first c, when nothing of that is by address 0.
Coming(a, l, s, c) ==
    /\ \A k \in DOMAIN s : k > c =>
          /\ ~Zero(s[k])
          /\ s[k].to > 0 =>
                \/ a[s[k].device] = s[k].to
                \/ \E j \in DOMAIN s : c < j /\ j < k /\ s[j].do = "rename" /\ s[j].device = s[k].device
                                       /\ s[j].n = s[k].to
          /\ s[k].do = "enumerate" =>
                \/ a[Enumerated(s[k])] = 0
                \/ k - 4 > c /\ k - 4 \in DOMAIN s /\ Pair(s[k - 4], s[k])
    /\ Fills(l) \/ \A d \in Device : a[d] = 0 =>
          \E k \in DOMAIN s : /\ c < k /\ s[k].do = "enumerate" /\ Enumerated(s[k]) = d
                              /\ \A j \in DOMAIN s : c < j /\ j < k => s[j].do \notin {"restart", "enumerate"}

LEMMA ResetsAfter ==
    ASSUME NEW s \in Seq(Items), NEW c \in 1 .. Len(s), Resets(s)
    PROVE  Resets(After(s, c))
<1> DEFINE r == After(s, c)
<1>1. /\ Len(s) \in Nat /\ DOMAIN s = 1 .. Len(s) /\ c \in Nat /\ c >= 1 /\ DOMAIN r = 1 .. Len(s) - c
      /\ \A k \in DOMAIN r : k \in Nat /\ k >= 1 /\ k + c \in DOMAIN s /\ r[k] = s[k + c]
      /\ \A k \in DOMAIN s : k > c => k - c \in DOMAIN r /\ r[k - c] = s[k]
  BY Back
<1> HIDE DEF r
<1>2. ASSUME NEW k \in DOMAIN r, r[k].do = "restart"
      PROVE  /\ k + 4 \in DOMAIN r /\ Pair(r[k], r[k + 4])
             /\ \A j \in k + 1 .. k + 3 : r[j].do \in {"order", "query"}
  <2> DEFINE i == k + c
  <2>1. i \in DOMAIN s /\ r[k] = s[i] /\ k \in Nat /\ i \in Nat
    BY <1>1
  <2>2. /\ i + 4 \in DOMAIN s /\ Pair(s[i], s[i + 4])
        /\ \A j \in i + 1 .. i + 3 : s[j].do \in {"order", "query"}
    BY <2>1, <1>2 DEF Resets
  <2>3. i + 4 > c /\ (i + 4) - c = k + 4
    BY <2>1, <1>1
  <2>4. k + 4 \in DOMAIN r /\ r[k + 4] = s[i + 4]
    BY <2>2, <2>3, <1>1
  <2>5. ASSUME NEW j \in k + 1 .. k + 3 PROVE r[j].do \in {"order", "query"}
    <3>1. j + c \in i + 1 .. i + 3 /\ j \in DOMAIN r
      BY <2>1, <2>4, <1>1
    <3> QED
      BY <3>1, <2>2, <1>1
  <2> QED
    BY <2>1, <2>2, <2>4, <2>5
<1>3. Resets(r)
  BY <1>2 DEF Resets
<1> QED
  BY <1>3 DEF r

LEMMA ComingAfter ==
    ASSUME NEW a, NEW l, NEW s \in Seq(Items), NEW c \in 1 .. Len(s), Resets(s), Coming(a, l, s, c)
    PROVE  Plan(a, l, After(s, c))
<1> DEFINE r == After(s, c)
<1>1. /\ Len(s) \in Nat /\ DOMAIN s = 1 .. Len(s) /\ c \in Nat /\ c >= 1
      /\ r \in Seq(Items) /\ Len(r) = Len(s) - c /\ DOMAIN r = 1 .. Len(s) - c /\ c <= Len(s)
      /\ \A k \in DOMAIN r : k \in Nat /\ k >= 1 /\ k + c \in DOMAIN s /\ r[k] = s[k + c]
      /\ \A k \in DOMAIN s : k \in Nat /\ (k > c => k - c \in DOMAIN r /\ r[k - c] = s[k])
  BY Back
<1>2. Resets(r)
  BY ResetsAfter
<1> HIDE DEF r
<1>3. \A k \in DOMAIN r : k + c > c /\ k + c \in DOMAIN s /\ r[k] = s[k + c]
  BY <1>1
<1>4. Renamed(a, r)
  <2> SUFFICES ASSUME NEW k \in DOMAIN r, r[k].to > 0, a[r[k].device] # r[k].to
               PROVE  \E j \in DOMAIN r : j < k /\ r[j].do = "rename" /\ r[j].device = r[k].device /\ r[j].n = r[k].to
    BY DEF Renamed
  <2>1. PICK j \in DOMAIN s : c < j /\ j < k + c /\ s[j].do = "rename" /\ s[j].device = r[k].device /\ s[j].n = r[k].to
    BY <1>3 DEF Coming
  <2>2. j - c \in DOMAIN r /\ r[j - c] = s[j] /\ j - c < k
    BY <2>1, <1>1
  <2> QED
    BY <2>1, <2>2
<1>5. Unnamed(r, 0)
  <2>1. Len(r) >= 0
    BY <1>1
  <2>2. \A k \in DOMAIN r : ~Zero(r[k]) /\ ~(k <= 0)
    BY <1>1, <1>3 DEF Coming
  <2> QED
    BY <2>1, <2>2 DEF Unnamed
<1>6. Awaited(a, l, r, 0)
  <2> SUFFICES ASSUME ~Fills(l), NEW d \in Device, a[d] = 0
               PROVE  \E k \in DOMAIN r : /\ r[k].do = "enumerate" /\ Enumerated(r[k]) = d
                                          /\ \A j \in DOMAIN r : j < k => r[j].do \notin {"restart", "enumerate"}
    BY DEF Awaited
  <2>1. PICK k \in DOMAIN s : /\ c < k /\ s[k].do = "enumerate" /\ Enumerated(s[k]) = d
                              /\ \A j \in DOMAIN s : c < j /\ j < k => s[j].do \notin {"restart", "enumerate"}
    BY DEF Coming
  <2>2. k - c \in DOMAIN r /\ r[k - c] = s[k]
    BY <2>1, <1>1
  <2>3. ASSUME NEW j \in DOMAIN r, j < k - c PROVE r[j].do \notin {"restart", "enumerate"}
    <3>1. j + c \in DOMAIN s /\ r[j] = s[j + c] /\ c < j + c /\ j + c < k
      BY <2>3, <1>1
    <3> QED
      BY <3>1, <2>1
  <2> QED
    BY <2>1, <2>2, <2>3
<1>7. Reset(a, r)
  <2> SUFFICES ASSUME NEW k \in DOMAIN r, r[k].do = "enumerate", a[Enumerated(r[k])] # 0
               PROVE  k > 4 /\ k - 4 \in DOMAIN r /\ Pair(r[k - 4], r[k])
    BY DEF Reset
  <2> DEFINE i == k + c
  <2>1. i - 4 > c /\ i - 4 \in DOMAIN s /\ Pair(s[i - 4], s[i])
    BY <1>3 DEF Coming
  <2>2. (i - 4) - c = k - 4 /\ k > 4
    BY <2>1, <1>1
  <2>3. k - 4 \in DOMAIN r /\ r[k - 4] = s[i - 4]
    BY <2>1, <2>2, <1>1
  <2> QED
    BY <2>1, <2>2, <2>3, <1>3
<1>8. Plan(a, l, r)
  <2>1. 0 \in Nat
    OBVIOUS
  <2> QED
    BY <2>1, <1>2, <1>4, <1>5, <1>6, <1>7 DEF Plan
<1> QED
  BY <1>8 DEF r

LEMMA EnumeratedIs ==
    ASSUME bus \in Buses, NEW l, NEW i \in Items, Valid(l, i)
    PROVE  /\ i.do = "enumerate" => Enumerated(i) \in Device /\ ~Zero(i)
           /\ i.do = "restart" =>
                 /\ i.device \in Device /\ i.to > 0 /\ ~Zero(i) /\ bus.ports[i.device][i.n] \in Device
                 /\ \A j : Pair(i, j) => Enumerated(j) = bus.ports[i.device][i.n]
<1>1. /\ bus.root \in Device
      /\ \A h \in Device : \A k \in DOMAIN bus.ports[h] : bus.ports[h][k] \in Device \cup {Nobody}
  BY BusIs
<1>2. i.do \in {"enumerate", "restart"} => ~Zero(i)
  BY DEF Valid, Zero
<1>3. i.to \in Nat /\ i.device \in Device \cup {Nobody}
  BY DEF Items
<1>4. i.do \in {"enumerate", "restart"} /\ i.device # Nobody =>
         i.device \in Device /\ i.to > 0 /\ bus.ports[i.device][i.n] \in Device
  BY <1>1, <1>2, <1>3 DEF Valid, Zero
<1>5. i.do = "restart" => i.device # Nobody
  BY DEF Valid
<1>6. i.do = "enumerate" => Enumerated(i) \in Device
  BY <1>1, <1>4 DEF Enumerated
<1>7. i.do = "restart" => \A j : Pair(i, j) => Enumerated(j) = bus.ports[i.device][i.n]
  BY <1>5 DEF Enumerated, Pair
<1> QED
  BY <1>2, <1>4, <1>5, <1>6, <1>7

\* The first item by an address says that there are none by address 0.
LEMMA PlanFirst ==
    ASSUME NEW a, NEW l, NEW s \in Seq(Items), Plan(a, l, s), s # <<>>
    PROVE  /\ Len(s) \in Nat /\ DOMAIN s = 1 .. Len(s) /\ Len(s) >= 1 /\ 1 \in DOMAIN s /\ 1 \in 1 .. Len(s)
           /\ ~Zero(s[1]) => Unnamed(s, 0) /\ Awaited(a, l, s, 0) /\ \A k \in DOMAIN s : ~Zero(s[k])
           /\ Zero(s[1]) => /\ \A d \in Device : a[d] = 0 <=> d = s[1].device
                            /\ \E z \in Nat : z >= 1 /\ Unnamed(s, z) /\ Awaited(a, l, s, z)
           /\ s[1].to > 0 => a[s[1].device] = s[1].to
<1>1. Len(s) \in Nat /\ DOMAIN s = 1 .. Len(s) /\ Len(s) >= 1 /\ 1 \in DOMAIN s /\ 1 \in 1 .. Len(s)
  BY LenProperties, EmptySeq
<1>2. PICK z \in Nat : Unnamed(s, z) /\ Awaited(a, l, s, z)
  BY DEF Plan
<1>3. ASSUME ~Zero(s[1])
      PROVE  Unnamed(s, 0) /\ Awaited(a, l, s, 0) /\ \A k \in DOMAIN s : ~Zero(s[k])
  <2>1. ~(1 <= z)
    BY <1>1, <1>2, <1>3 DEF Unnamed
  <2>2. z = 0
    BY <2>1
  <2>3. \A k \in DOMAIN s : ~(k <= 0)
    BY <1>1
  <2>4. Unnamed(s, 0) /\ Awaited(a, l, s, 0)
    BY <2>2, <1>2
  <2> QED
    BY <2>3, <2>4 DEF Unnamed
<1>4. ASSUME Zero(s[1])
      PROVE  /\ \A d \in Device : a[d] = 0 <=> d = s[1].device
             /\ z >= 1
  <2>1. 1 <= z
    BY <1>1, <1>2, <1>4 DEF Unnamed
  <2> QED
    BY <2>1, <1>2 DEF Awaited
<1>5. ASSUME s[1].to > 0 PROVE a[s[1].device] = s[1].to
  <2>1. \A j \in DOMAIN s : ~(j < 1)
    BY <1>1
  <2> QED
    BY <2>1, <1>1, <1>5 DEF Plan, Renamed
<1> QED
  BY <1>1, <1>2, <1>3, <1>4, <1>5

\* Requests that change no address are over, or are not made.
LEMMA PlanAfter ==
    ASSUME NEW a, NEW l, NEW s \in Seq(Items), Plan(a, l, s), NEW c \in 1 .. Len(s), s # <<>>,
           c = 1 \/ ~Zero(s[1]), \A j \in 1 .. c : s[j].do \notin {"rename", "restart", "enumerate"}
    PROVE  Plan(a, l, After(s, c))
<1>1. /\ Len(s) \in Nat /\ DOMAIN s = 1 .. Len(s) /\ c \in Nat /\ c >= 1 /\ 1 \in DOMAIN s /\ 1 \in 1 .. c
      /\ \A k \in DOMAIN s : k \in Nat /\ k >= 1 /\ (~(k > c) => k \in 1 .. c)
  BY PlanFirst
<1>2. \A k \in DOMAIN s : s[k].do \in {"rename", "restart", "enumerate"} => k > c
  BY <1>1
<1>3. Resets(s) /\ Renamed(a, s) /\ Reset(a, s)
  BY DEF Plan
<1>4. CASE ~Zero(s[1])
  <2>1. Awaited(a, l, s, 0) /\ \A k \in DOMAIN s : ~Zero(s[k])
    BY <1>4, PlanFirst
  <2>2. \A k \in DOMAIN s : s[k].to > 0 =>
                \/ a[s[k].device] = s[k].to
                \/ \E j \in DOMAIN s : c < j /\ j < k /\ s[j].do = "rename" /\ s[j].device = s[k].device
                                       /\ s[j].n = s[k].to
    BY <1>1, <1>2, <1>3 DEF Renamed
  <2>3. \A k \in DOMAIN s : s[k].do = "enumerate" =>
                \/ a[Enumerated(s[k])] = 0
                \/ k - 4 > c /\ k - 4 \in DOMAIN s /\ Pair(s[k - 4], s[k])
    BY <1>2, <1>3 DEF Reset, Pair
  <2>4. Fills(l) \/ \A d \in Device : a[d] = 0 =>
          \E k \in DOMAIN s : /\ c < k /\ s[k].do = "enumerate" /\ Enumerated(s[k]) = d
                              /\ \A j \in DOMAIN s : c < j /\ j < k => s[j].do \notin {"restart", "enumerate"}
    <3> SUFFICES ASSUME ~Fills(l), NEW d \in Device, a[d] = 0
                 PROVE  \E k \in DOMAIN s : /\ c < k /\ s[k].do = "enumerate" /\ Enumerated(s[k]) = d
                              /\ \A j \in DOMAIN s : c < j /\ j < k => s[j].do \notin {"restart", "enumerate"}
      OBVIOUS
    <3>1. PICK k \in DOMAIN s : /\ s[k].do = "enumerate" /\ Enumerated(s[k]) = d
                                /\ \A j \in DOMAIN s : j < k => s[j].do \notin {"restart", "enumerate"}
      BY <2>1 DEF Awaited
    <3>2. c < k
      BY <3>1, <1>1, <1>2
    <3> QED
      BY <3>1, <3>2
  <2>5. Coming(a, l, s, c)
    BY <2>1, <2>2, <2>3, <2>4 DEF Coming
  <2> QED
    BY <2>5, <1>3, ComingAfter
<1>5. CASE Zero(s[1])
  <2> DEFINE r == After(s, 1)
  <2>1. c = 1 /\ s[1].do \notin {"rename", "restart", "enumerate"}
    BY <1>1, <1>5
  <2>2. PICK z \in Nat : z >= 1 /\ Unnamed(s, z) /\ Awaited(a, l, s, z)
    BY <1>5, PlanFirst
  <2>3. z >= 2 /\ z <= Len(s)
    BY <2>1, <2>2, <1>1 DEF Unnamed
  <2>4. /\ r \in Seq(Items) /\ Len(r) = Len(s) - 1 /\ DOMAIN r = 1 .. Len(s) - 1
        /\ \A k \in DOMAIN r : k \in Nat /\ k >= 1 /\ k + 1 \in DOMAIN s /\ r[k] = s[k + 1]
        /\ \A k \in DOMAIN s : k > 1 => k - 1 \in DOMAIN r /\ r[k - 1] = s[k]
    <3>1. 1 \in 1 .. Len(s)
      BY <1>1
    <3> QED
      BY <3>1, Back
  <2>5. Resets(r)
    BY <2>1, <1>3, ResetsAfter
  <2> HIDE DEF r
  <2>6. Renamed(a, r)
    <3> SUFFICES ASSUME NEW k \in DOMAIN r, r[k].to > 0, a[r[k].device] # r[k].to
                 PROVE  \E j \in DOMAIN r : j < k /\ r[j].do = "rename" /\ r[j].device = r[k].device /\ r[j].n = r[k].to
      BY DEF Renamed
    <3>1. PICK j \in DOMAIN s : j < k + 1 /\ s[j].do = "rename" /\ s[j].device = r[k].device /\ s[j].n = r[k].to
      BY <2>4, <1>3 DEF Renamed
    <3>2. j - 1 \in DOMAIN r /\ r[j - 1] = s[j] /\ j - 1 < k
      BY <3>1, <2>1, <2>4, <1>1, <1>2
    <3> QED
      BY <3>1, <3>2
  <2>7. Unnamed(r, z - 1)
    <3>1. z - 1 \in Nat /\ z - 1 <= Len(r) /\ 1 \in DOMAIN r /\ r[1] = s[2] /\ 2 \in DOMAIN s /\ 2 <= z
      BY <2>2, <2>3, <2>4, <1>1
    <3>2. ASSUME NEW k \in DOMAIN r
          PROVE  /\ Zero(r[k]) <=> k <= z - 1
                 /\ k <= z - 1 => r[k].device = r[1].device /\ (r[k].do = "rename" <=> k = z - 1)
      <4>1. k \in Nat /\ k + 1 \in DOMAIN s /\ r[k] = s[k + 1] /\ (k + 1 <= z <=> k <= z - 1) /\ (k + 1 = z <=> k = z - 1)
        BY <2>3, <2>4
      <4>2. /\ Zero(s[k + 1]) <=> k + 1 <= z
            /\ k + 1 <= z => s[k + 1].device = s[1].device /\ (s[k + 1].do = "rename" <=> k + 1 = z)
            /\ s[2].device = s[1].device
        BY <4>1, <3>1, <2>2 DEF Unnamed
      <4> QED
        BY <4>1, <4>2, <3>1
    <3> QED
      BY <3>1, <3>2 DEF Unnamed
  <2>8. Awaited(a, l, r, z - 1)
    <3>1. z - 1 > 0 /\ r[1] = s[2] /\ 2 \in DOMAIN s /\ 2 <= z
      BY <2>2, <2>3, <2>4, <1>1
    <3>2. s[2].device = s[1].device
      BY <3>1, <2>2 DEF Unnamed
    <3>3. \A d \in Device : a[d] = 0 <=> d = s[1].device
      BY <2>2 DEF Awaited
    <3> QED
      BY <3>1, <3>2, <3>3 DEF Awaited
  <2>9. Reset(a, r)
    <3> SUFFICES ASSUME NEW k \in DOMAIN r, r[k].do = "enumerate", a[Enumerated(r[k])] # 0
                 PROVE  k > 4 /\ k - 4 \in DOMAIN r /\ Pair(r[k - 4], r[k])
      BY DEF Reset
    <3> DEFINE i == k + 1
    <3>1. i \in DOMAIN s /\ r[k] = s[i] /\ k \in Nat
      BY <2>4
    <3>2. i - 4 \in DOMAIN s /\ Pair(s[i - 4], s[i])
      BY <3>1, <1>3 DEF Reset
    <3>3. i - 4 > 1
      BY <3>2, <1>1, <1>2, <2>1 DEF Pair
    <3>4. (i - 4) - 1 = k - 4 /\ k > 4
      BY <3>1, <3>3
    <3>5. k - 4 \in DOMAIN r /\ r[k - 4] = s[i - 4]
      BY <3>2, <3>3, <3>4, <2>4
    <3> QED
      BY <3>1, <3>2, <3>4, <3>5
  <2>10. z - 1 \in Nat
    BY <2>3
  <2>11. Plan(a, l, r)
    BY <2>5, <2>6, <2>7, <2>8, <2>9, <2>10 DEF Plan
  <2> QED
    BY <2>1, <2>11 DEF r
<1> QED
  BY <1>4, <1>5

\* A device has been given its address.
LEMMA PlanRenamed ==
    ASSUME bus \in Buses, NEW a, NEW b, NEW l, NEW s, Ordered(l, s), Plan(a, l, s), s # <<>>, s[1].do = "rename",
           b[s[1].device] = s[1].n, \A d \in Device : d # s[1].device => b[d] = a[d]
    PROVE  Plan(b, l, After(s, 1))
<1> DEFINE x == s[1].device
<1>1. /\ Len(s) \in Nat /\ DOMAIN s = 1 .. Len(s) /\ 1 \in DOMAIN s /\ 1 \in 1 .. Len(s)
      /\ \A k \in DOMAIN s : k \in Nat /\ k >= 1 /\ Valid(l, s[k]) /\ s[k] \in Items
      /\ s \in Seq(Items)
  BY OrderedIs
<1>2. /\ s[1].to = 0 /\ s[1].n > 0 /\ Named(l, s[1].n, x) /\ x # Nobody /\ Zero(s[1])
  <2>1. s[1].to = 0 /\ s[1].n > 0 /\ Named(l, s[1].n, x)
    BY <1>1 DEF Valid
  <2>2. x # Nobody
    BY <1>1 DEF Valid
  <2> QED
    BY <2>1, <2>2 DEF Zero
<1>3. PICK z \in Nat : z >= 1 /\ Unnamed(s, z) /\ Awaited(a, l, s, z)
  BY <1>1, <1>2, PlanFirst
<1>4. z = 1 /\ \A d \in Device : a[d] = 0 <=> d = x
  <2>1. 1 = z
    BY <1>1, <1>3 DEF Unnamed
  <2>2. \A d \in Device : a[d] = 0 <=> d = x
    BY <1>1, <1>2, PlanFirst
  <2> QED
    BY <2>1, <2>2
<1>5. \A k \in DOMAIN s : k > 1 => ~Zero(s[k])
  BY <1>1, <1>3, <1>4 DEF Unnamed
<1>6. ASSUME NEW k \in DOMAIN s, k > 1, s[k].to > 0, b[s[k].device] # s[k].to
      PROVE  \E j \in DOMAIN s : 1 < j /\ j < k /\ s[j].do = "rename" /\ s[j].device = s[k].device /\ s[j].n = s[k].to
  <2>1. s[k].device # Nobody /\ s[k].device \in Device /\ s[k].to \in Nat
    BY <1>1, <1>6 DEF Valid, Items
  <2>2. a[s[k].device] # s[k].to
    BY <2>1, <1>4, <1>6
  <2>3. PICK j \in DOMAIN s : j < k /\ s[j].do = "rename" /\ s[j].device = s[k].device /\ s[j].n = s[k].to
    BY <2>2, <1>6 DEF Plan, Renamed
  <2>4. j # 1
    BY <2>3, <1>6
  <2> QED
    BY <2>3, <2>4, <1>1
<1>7. ASSUME NEW k \in DOMAIN s, k > 1, s[k].do = "enumerate", b[Enumerated(s[k])] # 0
      PROVE  k - 4 > 1 /\ k - 4 \in DOMAIN s /\ Pair(s[k - 4], s[k])
  <2>1. Enumerated(s[k]) # x
    BY <1>1, <1>2, <1>7 DEF Ordered, Tree, Listed, Named
  <2>2. k - 4 \in DOMAIN s /\ Pair(s[k - 4], s[k])
    <3>1. CASE a[Enumerated(s[k])] = 0
      <4>1. Enumerated(s[k]) \in Device
        BY <1>1, <1>7, EnumeratedIs
      <4> QED
        BY <4>1, <3>1, <2>1, <1>4
    <3>2. CASE a[Enumerated(s[k])] # 0
      BY <3>2, <1>7 DEF Plan, Reset
    <3> QED
      BY <3>1, <3>2
  <2>3. k - 4 # 1
    BY <2>2 DEF Pair
  <2> QED
    BY <2>2, <2>3, <1>1
<1>8. ASSUME NEW d \in Device, b[d] = 0 PROVE FALSE
  BY <1>2, <1>4, <1>8
<1>9. Coming(b, l, s, 1)
  BY <1>5, <1>6, <1>7, <1>8 DEF Coming
<1> QED
  BY <1>1, <1>9, ComingAfter DEF Plan

\* A port has been reset: who is there listens to address 0, and is enumerated next.
LEMMA PlanRestarted ==
    ASSUME bus \in Buses, NEW a, NEW b, NEW l, NEW s, Ordered(l, s), Plan(a, l, s), s # <<>>,
           s[1].do = "restart", NEW x, x = bus.ports[s[1].device][s[1].n],
           b[x] = 0, \A d \in Device : d # x => b[d] = a[d]
    PROVE  Plan(b, l, After(s, 1))
<1>1. /\ Len(s) \in Nat /\ DOMAIN s = 1 .. Len(s) /\ 1 \in DOMAIN s /\ 1 \in 1 .. Len(s)
      /\ \A k \in DOMAIN s : k \in Nat /\ k >= 1 /\ Valid(l, s[k]) /\ s[k] \in Items
      /\ s \in Seq(Items)
  BY OrderedIs
<1>2. x \in Device /\ ~Zero(s[1]) /\ \A j : Pair(s[1], j) => Enumerated(j) = x
  BY <1>1, EnumeratedIs
<1>3. Awaited(a, l, s, 0) /\ \A k \in DOMAIN s : ~Zero(s[k])
  BY <1>1, <1>2, PlanFirst
<1>4. /\ 5 \in DOMAIN s /\ s[5].do = "enumerate" /\ Enumerated(s[5]) = x
      /\ \A j \in 2 .. 4 : s[j].do \in {"order", "query"}
  <2>1. /\ 1 + 4 \in DOMAIN s /\ Pair(s[1], s[1 + 4])
        /\ \A j \in 1 + 1 .. 1 + 3 : s[j].do \in {"order", "query"}
    BY <1>1 DEF Plan, Resets
  <2> QED
    BY <2>1, <1>2 DEF Pair
<1>5. x \notin Listed(l)
  BY <1>4 DEF Ordered, Tree
<1>6. ASSUME NEW k \in DOMAIN s, k > 1, s[k].to > 0, b[s[k].device] # s[k].to
      PROVE  \E j \in DOMAIN s : 1 < j /\ j < k /\ s[j].do = "rename" /\ s[j].device = s[k].device /\ s[j].n = s[k].to
  <2>1. s[k].device # Nobody /\ s[k].device \in Device /\ s[k].device \in Listed(l)
    BY <1>1, <1>6 DEF Valid, Items, Named, Listed
  <2>2. a[s[k].device] # s[k].to
    BY <2>1, <1>5, <1>6
  <2>3. PICK j \in DOMAIN s : j < k /\ s[j].do = "rename" /\ s[j].device = s[k].device /\ s[j].n = s[k].to
    BY <2>2, <1>6 DEF Plan, Renamed
  <2>4. j # 1
    BY <2>3
  <2> QED
    BY <2>3, <2>4, <1>1
<1>7. ASSUME NEW k \in DOMAIN s, k > 1, s[k].do = "enumerate", b[Enumerated(s[k])] # 0
      PROVE  k - 4 > 1 /\ k - 4 \in DOMAIN s /\ Pair(s[k - 4], s[k])
  <2>1. Enumerated(s[k]) \in Device /\ Enumerated(s[k]) # x
    BY <1>1, <1>7, EnumeratedIs
  <2>2. a[Enumerated(s[k])] # 0
    BY <2>1, <1>7
  <2>3. k - 4 \in DOMAIN s /\ Pair(s[k - 4], s[k])
    BY <2>2, <1>7 DEF Plan, Reset
  <2>4. k - 4 # 1
    BY <2>1, <2>3, <1>2
  <2> QED
    BY <2>3, <2>4, <1>1
<1>8. ASSUME ~Fills(l), NEW d \in Device, b[d] = 0
      PROVE  \E k \in DOMAIN s : /\ 1 < k /\ s[k].do = "enumerate" /\ Enumerated(s[k]) = d
                                 /\ \A j \in DOMAIN s : 1 < j /\ j < k => s[j].do \notin {"restart", "enumerate"}
  <2>1. CASE d = x
    <3>1. \A j \in DOMAIN s : 1 < j /\ j < 5 => s[j].do \notin {"restart", "enumerate"}
      <4>1. \A j \in DOMAIN s : 1 < j /\ j < 5 => j \in 2 .. 4
        BY <1>1
      <4> QED
        BY <4>1, <1>4
    <3> QED
      BY <2>1, <3>1, <1>4
  <2>2. CASE d # x
    <3>1. PICK k \in DOMAIN s : /\ s[k].do = "enumerate"
                                /\ \A j \in DOMAIN s : j < k => s[j].do \notin {"restart", "enumerate"}
      BY <2>2, <1>3, <1>8 DEF Awaited
    <3>2. ~(1 < k)
      BY <3>1, <1>1
    <3>3. k # 1
      BY <3>1
    <3> QED
      BY <3>2, <3>3, <1>1
  <2> QED
    BY <2>1, <2>2
<1>9. Coming(b, l, s, 1)
  BY <1>3, <1>6, <1>7, <1>8 DEF Coming
<1> QED
  BY <1>1, <1>9, ComingAfter DEF Plan

\* There is no room for the next device.
LEMMA PlanFull ==
    ASSUME bus \in Buses, NEW a, NEW l, NEW s, Ordered(l, s), Plan(a, l, s), s # <<>>,
           s[1].do = "enumerate", Fills(l)
    PROVE  Plan(a, l, After(s, 1))
<1>1. /\ Len(s) \in Nat /\ DOMAIN s = 1 .. Len(s) /\ 1 \in DOMAIN s /\ 1 \in 1 .. Len(s)
      /\ \A k \in DOMAIN s : k \in Nat /\ k >= 1 /\ Valid(l, s[k]) /\ s[k] \in Items
      /\ s \in Seq(Items)
  BY OrderedIs
<1>2. \A k \in DOMAIN s : ~Zero(s[k])
  <2>1. ~Zero(s[1])
    BY <1>1, EnumeratedIs
  <2> QED
    BY <2>1, <1>1, PlanFirst
<1>3. ASSUME NEW k \in DOMAIN s, k > 1, s[k].to > 0, a[s[k].device] # s[k].to
      PROVE  \E j \in DOMAIN s : 1 < j /\ j < k /\ s[j].do = "rename" /\ s[j].device = s[k].device /\ s[j].n = s[k].to
  <2>1. PICK j \in DOMAIN s : j < k /\ s[j].do = "rename" /\ s[j].device = s[k].device /\ s[j].n = s[k].to
    BY <1>3 DEF Plan, Renamed
  <2>2. j # 1
    BY <2>1
  <2> QED
    BY <2>1, <2>2, <1>1
<1>4. ASSUME NEW k \in DOMAIN s, k > 1, s[k].do = "enumerate", a[Enumerated(s[k])] # 0
      PROVE  k - 4 > 1 /\ k - 4 \in DOMAIN s /\ Pair(s[k - 4], s[k])
  <2>1. k - 4 \in DOMAIN s /\ Pair(s[k - 4], s[k])
    BY <1>4 DEF Plan, Reset
  <2>2. k - 4 # 1
    BY <2>1 DEF Pair
  <2> QED
    BY <2>1, <2>2, <1>1
<1>5. Coming(a, l, s, 1)
  BY <1>2, <1>3, <1>4 DEF Coming
<1> QED
  BY <1>1, <1>5, ComingAfter DEF Plan

\* The plan does not depend on how often a disk was asked.
LEMMA PlanTested ==
    ASSUME NEW a, NEW l, NEW s \in Seq(Items), Plan(a, l, s), s # <<>>, s[1].do = "test",
           NEW i \in Items, i.do = "test", i.device = s[1].device, i.to = s[1].to
    PROVE  Plan(a, l, <<i>> \o Tail(s))
<1> DEFINE x == <<i>>  r == x \o Tail(s)
<1>1. x \in Seq(Items) /\ Len(x) = 1 /\ DOMAIN x = 1 .. 1 /\ x[1] = i
  OBVIOUS
<1> HIDE DEF x
<1>2. /\ r \in Seq(Items) /\ Len(r) = Len(x) + Len(s) - 1 /\ DOMAIN r = 1 .. Len(x) + Len(s) - 1
      /\ Len(s) \in Nat /\ Len(s) >= 1 /\ DOMAIN s = 1 .. Len(s)
      /\ \A k \in DOMAIN x : r[k] = x[k]
      /\ \A k \in DOMAIN r : k \notin DOMAIN x =>
            k - Len(x) + 1 \in DOMAIN s /\ k - Len(x) + 1 # 1 /\ r[k] = s[k - Len(x) + 1]
  BY <1>1, Stacked
<1> HIDE DEF r
<1>3. Len(r) = Len(s) /\ DOMAIN r = DOMAIN s /\ r[1] = i /\ 1 \in DOMAIN s
  BY <1>1, <1>2
<1>4. ASSUME NEW k \in DOMAIN s
      PROVE  /\ r[k].do = s[k].do /\ r[k].device = s[k].device /\ r[k].to = s[k].to
             /\ s[k].do # "test" => r[k] = s[k]
  <2>1. CASE k = 1
    BY <2>1, <1>3
  <2>2. CASE k # 1
    <3>1. k \notin DOMAIN x /\ k - Len(x) + 1 = k
      BY <2>2, <1>1, <1>2
    <3>2. r[k] = s[k]
      BY <3>1, <1>2, <1>3
    <3> QED
      BY <3>2
  <2> QED
    BY <2>1, <2>2
<1>5. Renamed(a, s) /\ Resets(s) /\ Reset(a, s)
  BY DEF Plan
<1>6. Renamed(a, r)
  <2> SUFFICES ASSUME NEW k \in DOMAIN s, r[k].to > 0, a[r[k].device] # r[k].to
               PROVE  \E j \in DOMAIN s : j < k /\ r[j].do = "rename" /\ r[j].device = r[k].device /\ r[j].n = r[k].to
    BY <1>3 DEF Renamed
  <2>1. PICK j \in DOMAIN s : j < k /\ s[j].do = "rename" /\ s[j].device = s[k].device /\ s[j].n = s[k].to
    BY <1>4, <1>5 DEF Renamed
  <2> QED
    BY <2>1, <1>4
<1>7. ASSUME NEW z \in Nat, Unnamed(s, z), Awaited(a, l, s, z)
      PROVE  Unnamed(r, z) /\ Awaited(a, l, r, z)
  <2>1. \A k \in DOMAIN s : Zero(r[k]) <=> Zero(s[k])
    BY <1>4 DEF Zero
  <2>2. Unnamed(r, z)
    BY <2>1, <1>3, <1>4, <1>7 DEF Unnamed
  <2>3. CASE z > 0
    BY <2>2, <2>3, <1>3, <1>4, <1>7 DEF Awaited
  <2>4. CASE ~(z > 0)
    <3> SUFFICES ASSUME ~Fills(l), NEW d \in Device, a[d] = 0
                 PROVE  \E k \in DOMAIN s : /\ r[k].do = "enumerate" /\ Enumerated(r[k]) = d
                                            /\ \A j \in DOMAIN s : j < k => r[j].do \notin {"restart", "enumerate"}
      BY <2>2, <2>4, <1>3 DEF Awaited
    <3>1. PICK k \in DOMAIN s : /\ s[k].do = "enumerate" /\ Enumerated(s[k]) = d
                                /\ \A j \in DOMAIN s : j < k => s[j].do \notin {"restart", "enumerate"}
      BY <2>4, <1>7 DEF Awaited
    <3> QED
      BY <3>1, <1>4
  <2> QED
    BY <2>2, <2>3, <2>4
<1>8. Resets(r)
  <2> SUFFICES ASSUME NEW k \in DOMAIN s, r[k].do = "restart"
               PROVE  /\ k + 4 \in DOMAIN s /\ Pair(r[k], r[k + 4])
                      /\ \A j \in k + 1 .. k + 3 : r[j].do \in {"order", "query"}
    BY <1>3 DEF Resets
  <2>1. /\ k + 4 \in DOMAIN s /\ Pair(s[k], s[k + 4])
        /\ \A j \in k + 1 .. k + 3 : s[j].do \in {"order", "query"}
    BY <1>4, <1>5 DEF Resets
  <2>2. \A j \in k + 1 .. k + 3 : j \in DOMAIN s
    BY <2>1, <1>2
  <2>3. r[k] = s[k] /\ r[k + 4] = s[k + 4]
    BY <2>1, <1>4 DEF Pair
  <2> QED
    BY <2>1, <2>2, <2>3, <1>4
<1>9. Reset(a, r)
  <2> SUFFICES ASSUME NEW k \in DOMAIN s, r[k].do = "enumerate", a[Enumerated(r[k])] # 0
               PROVE  k > 4 /\ k - 4 \in DOMAIN s /\ Pair(r[k - 4], r[k])
    BY <1>3 DEF Reset
  <2>1. r[k] = s[k]
    BY <1>4
  <2>2. k > 4 /\ k - 4 \in DOMAIN s /\ Pair(s[k - 4], s[k])
    BY <2>1, <1>5 DEF Reset
  <2>3. r[k - 4] = s[k - 4]
    BY <2>2, <1>4 DEF Pair
  <2> QED
    BY <2>1, <2>2, <2>3
<1>10. Plan(a, l, r)
  BY <1>6, <1>7, <1>8, <1>9 DEF Plan
<1> QED
  BY <1>10 DEF r, x

\* The next device is enumerated: it is the one at address 0.
LEMMA PlanEnumerated ==
    ASSUME bus \in Buses, NEW a, NEW l, NEW m, NEW s, Ordered(l, s), Plan(a, l, s), s # <<>>,
           s[1].do = "enumerate", ~Fills(l), NEW n \in Nat, n > 0, NEW z \in Nat,
           NEW x, Identified(x, Enumerated(s[1]), n, z)
    PROVE  Plan(a, m, x \o Tail(s))
<1> DEFINE r == x \o Tail(s)  d == Enumerated(s[1])  len == Len(x)
<1>1. /\ DOMAIN s = 1 .. Len(s) /\ 1 \in DOMAIN s
      /\ \A k \in DOMAIN s : k \in Nat /\ k >= 1 /\ Valid(l, s[k]) /\ s[k] \in Items
      /\ s \in Seq(Items)
  BY OrderedIs
<1>2. d \in Device /\ d # Nobody /\ ~Zero(s[1])
  BY <1>1, EnumeratedIs, NobodyIs
<1>3. Awaited(a, l, s, 0) /\ \A k \in DOMAIN s : ~Zero(s[k])
  BY <1>1, <1>2, PlanFirst
<1>4. /\ x \in Seq(Items) /\ Windows(x) /\ z >= 1 /\ z <= len
      /\ \A k \in DOMAIN x : /\ k <= z => x[k].device = d /\ x[k].to = 0 /\ (x[k].do = "rename" <=> k = z)
                             /\ ~(k <= z) => x[k].device = d /\ x[k].to = n
      /\ z \in DOMAIN x /\ x[z].n = n
  <2>1. x \in Seq(Items) /\ Windows(x) /\ z \in 1 .. len
    BY DEF Identified
  <2>2. len \in Nat /\ DOMAIN x = 1 .. len
    BY <2>1, LenProperties
  <2>3. ASSUME NEW k \in DOMAIN x, k <= z
        PROVE  x[k].device = d /\ x[k].to = 0 /\ (x[k].do = "rename" <=> k = z)
    <3>1. k \in 1 .. z
      BY <2>1, <2>2, <2>3
    <3> QED
      BY <3>1 DEF Identified
  <2>4. ASSUME NEW k \in DOMAIN x, ~(k <= z) PROVE x[k].device = d /\ x[k].to = n
    <3>1. k \in z + 1 .. len
      BY <2>1, <2>2, <2>4
    <3> QED
      BY <3>1 DEF Identified, Driving
  <2>5. x[z].n = n
    BY DEF Identified
  <2> QED
    BY <2>1, <2>2, <2>3, <2>4, <2>5
<1>5. /\ r \in Seq(Items) /\ Len(r) = len + Len(s) - 1 /\ DOMAIN r = 1 .. len + Len(s) - 1
      /\ len \in Nat /\ Len(s) \in Nat /\ Len(s) >= 1 /\ DOMAIN x = 1 .. len
      /\ \A k \in DOMAIN x : r[k] = x[k]
      /\ \A k \in DOMAIN s : k # 1 => len + k - 1 \in DOMAIN r /\ r[len + k - 1] = s[k]
      /\ \A k \in DOMAIN r : k \notin DOMAIN x =>
            k - len + 1 \in DOMAIN s /\ k - len + 1 # 1 /\ r[k] = s[k - len + 1]
  BY <1>1, <1>4, Stacked
<1> HIDE DEF r, d, len
<1>6. Resets(s) /\ Renamed(a, s) /\ Reset(a, s)
  BY DEF Plan
<1>7. \A k \in DOMAIN x : k \in DOMAIN r /\ k \in Nat /\ k >= 1
  BY <1>5
<1>8. ASSUME NEW k \in DOMAIN r, k \notin DOMAIN x
      PROVE  /\ k - len + 1 \in DOMAIN s /\ k - len + 1 # 1 /\ r[k] = s[k - len + 1]
             /\ len + (k - len + 1) - 1 = k /\ k > len /\ k \in Nat /\ k - len + 1 \in Nat
  <2>1. k - len + 1 \in DOMAIN s /\ k - len + 1 # 1 /\ r[k] = s[k - len + 1]
    BY <1>5, <1>8
  <2>2. k \in 1 .. len + Len(s) - 1 /\ k \notin 1 .. len /\ len \in Nat /\ Len(s) \in Nat
    BY <1>5, <1>8
  <2>3. len + (k - len + 1) - 1 = k /\ k > len /\ k \in Nat /\ k - len + 1 \in Nat
    BY <2>2
  <2> QED
    BY <2>1, <2>3
<1>9. Renamed(a, r)
  <2> SUFFICES ASSUME NEW k \in DOMAIN r, r[k].to > 0, a[r[k].device] # r[k].to
               PROVE  \E j \in DOMAIN r : j < k /\ r[j].do = "rename" /\ r[j].device = r[k].device /\ r[j].n = r[k].to
    BY DEF Renamed
  <2>1. CASE k \in DOMAIN x
    <3>1. ~(k <= z) /\ r[k].device = d /\ r[k].to = n
      BY <2>1, <1>4, <1>5
    <3>2. z < k /\ z \in DOMAIN r /\ r[z] = x[z]
      BY <2>1, <3>1, <1>4, <1>5, <1>7
    <3>3. r[z].do = "rename" /\ r[z].device = d /\ r[z].n = n
      BY <3>2, <1>4
    <3> QED
      BY <3>1, <3>2, <3>3
  <2>2. CASE k \notin DOMAIN x
    <3> DEFINE i == k - len + 1
    <3>1. i \in DOMAIN s /\ r[k] = s[i] /\ len + i - 1 = k /\ i \in Nat
      BY <2>2, <1>8
    <3> HIDE DEF i
    <3>2. PICK j \in DOMAIN s : j < i /\ s[j].do = "rename" /\ s[j].device = s[i].device /\ s[j].n = s[i].to
      BY <3>1, <1>6 DEF Renamed
    <3>3. j # 1
      BY <3>2
    <3>4. len + j - 1 \in DOMAIN r /\ r[len + j - 1] = s[j] /\ len + j - 1 < k
      BY <3>1, <3>2, <3>3, <1>1, <1>5
    <3> QED
      BY <3>1, <3>2, <3>4
  <2> QED
    BY <2>1, <2>2
<1>10. Unnamed(r, z)
  <2>1. z <= Len(r) /\ 1 \in DOMAIN x /\ r[1].device = d
    <3>1. 1 \in DOMAIN x /\ 1 <= z /\ z <= Len(r)
      BY <1>4, <1>5
    <3> QED
      BY <3>1, <1>4, <1>5
  <2>2. ASSUME NEW k \in DOMAIN r
        PROVE  /\ Zero(r[k]) <=> k <= z
               /\ k <= z => r[k].device = r[1].device /\ (r[k].do = "rename" <=> k = z)
    <3>1. CASE k \in DOMAIN x
      BY <2>1, <3>1, <1>2, <1>4, <1>5 DEF Zero
    <3>2. CASE k \notin DOMAIN x
      <4>1. ~(k <= z)
        BY <3>2, <1>4, <1>5, <1>8
      <4>2. ~Zero(r[k])
        BY <3>2, <1>3, <1>8
      <4> QED
        BY <4>1, <4>2
    <3> QED
      BY <3>1, <3>2
  <2> QED
    BY <2>1, <2>2 DEF Unnamed
<1>11. Awaited(a, m, r, z)
  <2>1. r[1].device = d
    <3>1. 1 \in DOMAIN x /\ 1 <= z
      BY <1>4, <1>5
    <3> QED
      BY <3>1, <1>4, <1>5
  <2>2. a[d] = 0
    <3>1. ~(1 > 4)
      OBVIOUS
    <3> QED
      BY <3>1, <1>1, <1>6 DEF Reset, d
  <2>3. ASSUME NEW c \in Device, a[c] = 0 PROVE c = d
    <3>1. PICK k \in DOMAIN s : /\ s[k].do = "enumerate" /\ Enumerated(s[k]) = c
                                /\ \A j \in DOMAIN s : j < k => s[j].do \notin {"restart", "enumerate"}
      BY <2>3, <1>3 DEF Awaited
    <3>2. k = 1
      BY <3>1, <1>1
    <3> QED
      BY <3>1, <3>2 DEF d
  <2>4. z > 0
    BY <1>4
  <2> QED
    BY <2>1, <2>2, <2>3, <2>4 DEF Awaited
<1>12. Resets(r)
  <2> SUFFICES ASSUME NEW k \in DOMAIN r, r[k].do = "restart"
               PROVE  /\ k + 4 \in DOMAIN r /\ Pair(r[k], r[k + 4])
                      /\ \A j \in k + 1 .. k + 3 : r[j].do \in {"order", "query"}
    BY DEF Resets
  <2>1. CASE k \in DOMAIN x
    <3>1. /\ k + 4 \in DOMAIN x /\ Pair(x[k], x[k + 4])
          /\ \A j \in k + 1 .. k + 3 : x[j].do \in {"order", "query"}
      BY <2>1, <1>4, <1>5 DEF Windows
    <3>2. \A j \in k + 1 .. k + 3 : j \in DOMAIN x
      BY <2>1, <3>1, <1>5
    <3> QED
      BY <2>1, <3>1, <3>2, <1>5, <1>7
  <2>2. CASE k \notin DOMAIN x
    <3> DEFINE i == k - len + 1
    <3>1. i \in DOMAIN s /\ r[k] = s[i] /\ len + i - 1 = k /\ i \in Nat /\ i # 1 /\ k \in Nat
      BY <2>2, <1>8
    <3> HIDE DEF i
    <3>2. /\ i + 4 \in DOMAIN s /\ Pair(s[i], s[i + 4])
          /\ \A j \in i + 1 .. i + 3 : s[j].do \in {"order", "query"}
      BY <3>1, <1>6 DEF Resets
    <3>3. ASSUME NEW j \in 1 .. 4 PROVE i + j \in DOMAIN s /\ i + j # 1 /\ len + (i + j) - 1 = k + j
      <4>1. i \in 1 .. Len(s) /\ i + 4 \in 1 .. Len(s) /\ Len(s) \in Nat /\ len \in Nat /\ len + i - 1 = k /\ k \in Nat
        BY <3>1, <3>2, <1>1, <1>5
      <4>2. j \in Nat /\ j >= 1 /\ j <= 4
        OBVIOUS
      <4>3. i \in Nat /\ i >= 1 /\ i + 4 <= Len(s)
        BY <4>1
      <4>4. i + j \in 1 .. Len(s) /\ i + j # 1
        BY <4>1, <4>2, <4>3
      <4>5. len + (i + j) - 1 = k + j
        BY <4>1, <4>2, <4>3
      <4> QED
        BY <4>4, <4>5, <1>1
    <3>4. \A j \in 1 .. 4 : k + j \in DOMAIN r /\ r[k + j] = s[i + j]
      BY <3>3, <1>5
    <3>5. ASSUME NEW j \in k + 1 .. k + 3 PROVE r[j].do \in {"order", "query"}
      <4>1. j - k \in 1 .. 4 /\ k + (j - k) = j /\ i + (j - k) \in i + 1 .. i + 3
        BY <3>1
      <4> QED
        BY <4>1, <3>2, <3>4
    <3>6. k + 4 \in DOMAIN r /\ r[k + 4] = s[i + 4]
      BY <3>4
    <3> QED
      BY <3>1, <3>2, <3>5, <3>6
  <2> QED
    BY <2>1, <2>2
<1>13. Reset(a, r)
  <2> SUFFICES ASSUME NEW k \in DOMAIN r, r[k].do = "enumerate", a[Enumerated(r[k])] # 0
               PROVE  k > 4 /\ k - 4 \in DOMAIN r /\ Pair(r[k - 4], r[k])
    BY DEF Reset
  <2>1. CASE k \in DOMAIN x
    <3>1. k > 4 /\ k - 4 \in DOMAIN x /\ Pair(x[k - 4], x[k])
      BY <2>1, <1>4, <1>5 DEF Windows
    <3> QED
      BY <2>1, <3>1, <1>5, <1>7
  <2>2. CASE k \notin DOMAIN x
    <3> DEFINE i == k - len + 1
    <3>1. i \in DOMAIN s /\ r[k] = s[i] /\ len + i - 1 = k /\ i \in Nat /\ k \in Nat
      BY <2>2, <1>8
    <3> HIDE DEF i
    <3>2. i > 4 /\ i - 4 \in DOMAIN s /\ Pair(s[i - 4], s[i])
      BY <3>1, <1>6 DEF Reset
    <3>3. i - 4 # 1
      BY <3>2 DEF Pair
    <3>4. len + (i - 4) - 1 = k - 4 /\ k > 4
      <4>1. i \in Nat /\ i > 4 /\ len \in Nat /\ len + i - 1 = k /\ k \in Nat
        BY <3>1, <3>2, <1>5
      <4>2. len # 0
        BY <1>4, <1>5
      <4> QED
        BY <4>1, <4>2
    <3>5. k - 4 \in DOMAIN r /\ r[k - 4] = s[i - 4]
      BY <3>2, <3>3, <3>4, <1>5
    <3> QED
      BY <3>1, <3>2, <3>4, <3>5
  <2> QED
    BY <2>1, <2>2
<1>14. Plan(a, m, r)
  BY <1>9, <1>10, <1>11, <1>12, <1>13 DEF Plan
<1> QED
  BY <1>14 DEF r

\* The bus has been reset: the root is at address 0, to be enumerated next.
LEMMA PlanOpening ==
    ASSUME NEW a, NEW l, a[bus.root] = 0, \A d \in Device : d # bus.root => a[d] # 0
    PROVE  Plan(a, l, After(Tail(Opening), 1))
<1> DEFINE s == Opening
<1>1. /\ s \in Seq(Items) /\ Len(s) = 4 /\ DOMAIN s = 1 .. 4 /\ s[3].do = "enumerate" /\ s[4].do = "manage"
      /\ \A k \in 1 .. 4 : s[k].device = Nobody /\ s[k].to = 0 /\ s[k].do # "restart"
      /\ s[1].do # "enumerate" /\ s[2].do # "enumerate"
  <2>1. \A k \in 1 .. 4 : s[k].do # "restart"
    <3>1. \A k \in 1 .. 4 : k = 1 \/ k = 2 \/ k = 3 \/ k = 4
      OBVIOUS
    <3> QED
      BY <3>1, OpeningIs
  <2> QED
    BY <2>1, OpeningIs
<1> HIDE DEF s
<1>2. Resets(s)
  BY <1>1 DEF Resets
<1>3. Enumerated(s[3]) = bus.root
  BY <1>1 DEF Enumerated
<1>4. Coming(a, l, s, 2)
  <2>1. \A k \in DOMAIN s : k > 2 => ~Zero(s[k]) /\ ~(s[k].to > 0)
    BY <1>1 DEF Zero
  <2>2. \A k \in DOMAIN s : k > 2 /\ s[k].do = "enumerate" => a[Enumerated(s[k])] = 0
    BY <1>1, <1>3
  <2>3. \A d \in Device : a[d] = 0 =>
          \E k \in DOMAIN s : /\ 2 < k /\ s[k].do = "enumerate" /\ Enumerated(s[k]) = d
                              /\ \A j \in DOMAIN s : 2 < j /\ j < k => s[j].do \notin {"restart", "enumerate"}
    <3>1. /\ 3 \in DOMAIN s /\ 2 < 3
          /\ \A j \in DOMAIN s : 2 < j /\ j < 3 => s[j].do \notin {"restart", "enumerate"}
      BY <1>1
    <3> QED
      BY <3>1, <1>1, <1>3
  <2> QED
    BY <2>1, <2>2, <2>3 DEF Coming
<1>5. Plan(a, l, After(s, 2))
  <2>1. 2 \in 1 .. Len(s)
    BY <1>1
  <2> QED
    BY <2>1, <1>1, <1>2, <1>4, ComingAfter
<1>6. After(Tail(s), 1) = After(s, 2)
  <2> DEFINE t == After(s, 1)  u == After(t, 1)  v == After(s, 2)
  <2>1. Tail(s) = t
    BY OpeningIs DEF s
  <2>2. /\ t \in Seq(Items) /\ Len(t) = 3 /\ DOMAIN t = 1 .. 3 /\ t[2] = s[3] /\ t[3] = s[4]
    <3>1. 1 \in 0 .. Len(s) /\ s \in Seq(Items)
      BY <1>1
    <3>2. /\ t \in Seq(Items) /\ Len(t) = Len(s) - 1 /\ DOMAIN t = 1 .. Len(s) - 1
          /\ \A k \in 1 .. Len(s) - 1 : t[k] = s[k + 1]
      BY <3>1, Shifted
    <3> QED
      BY <3>2, <1>1
  <2> HIDE DEF t
  <2>3. u \in Seq(Items) /\ Len(u) = 2 /\ DOMAIN u = 1 .. 2 /\ u[1] = s[3] /\ u[2] = s[4]
    <3>1. 1 \in 0 .. Len(t) /\ t \in Seq(Items)
      BY <2>2
    <3>2. /\ u \in Seq(Items) /\ Len(u) = Len(t) - 1 /\ DOMAIN u = 1 .. Len(t) - 1
          /\ \A k \in 1 .. Len(t) - 1 : u[k] = t[k + 1]
      BY <3>1, Shifted
    <3> QED
      BY <3>2, <2>2
  <2>4. v \in Seq(Items) /\ Len(v) = 2 /\ DOMAIN v = 1 .. 2 /\ v[1] = s[3] /\ v[2] = s[4]
    <3>1. 2 \in 0 .. Len(s) /\ s \in Seq(Items)
      BY <1>1
    <3>2. /\ v \in Seq(Items) /\ Len(v) = Len(s) - 2 /\ DOMAIN v = 1 .. Len(s) - 2
          /\ \A k \in 1 .. Len(s) - 2 : v[k] = s[k + 2]
      BY <3>1, Shifted
    <3> QED
      BY <3>2, <1>1
  <2> HIDE DEF u, v
  <2>5. u = v
    <3>1. u \in Seq(Items) /\ v \in Seq(Items) /\ Len(u) = Len(v) /\ \A k \in 1 .. Len(u) : u[k] = v[k]
      BY <2>3, <2>4
    <3> QED
      BY <3>1, SeqEqual
  <2> QED
    BY <2>1, <2>5 DEF u, v
<1> QED
  BY <1>5, <1>6 DEF s

-----------------------------------------------------------------------------
(* Addresses: who hears a request *)

\* Nothing has gone wrong with the port or a device.
Calm == Quiet /\ stalls = 0 /\ AllAddressed

Answers(a, i) == i.to > 0 /\ a[i.device] = i.to

\* A request that changes an address has done so when its last descriptor is through.
Remaining ==
    IF /\ phase[Boot] # "out" /\ todo[Boot] # <<>> /\ queue.left = 0
       /\ todo[Boot][1].do \in {"rename", "restart"}
    THEN After(todo[Boot], 1) ELSE todo[Boot]

\* Up to the reset of the bus nobody listens, after it the root alone.
Hushed ==
    Connecting =>
       /\ \A d \in Device : address[d] = Silent \/ (d = bus.root /\ address[d] = 0)
       /\ IF todo[Boot] = Opening THEN address[bus.root] = Silent ELSE address[bus.root] = 0

Planned == ~Connecting /\ ~Mounting(todo[Boot]) => Plan(address, list, Remaining)

\* From then on addresses stay.
Fixed ==
    Mounting(todo[Boot]) =>
       /\ \A t \in Thread : \A k \in DOMAIN todo[t] : Answers(address, todo[t][k])
       /\ Unfinished => Answers(address, queue.request) /\ queue.request.do \in {"read", "reply"}

\* An address is a place in the list, and that of a disk that is up its own.
Placed ==
    /\ \A d \in Device : address[d] > 0 => Named(list, address[d], d)
    /\ \A a \in DOMAIN list : list[a].alive \/ list[a].device = volume => address[list[a].device] = a

Unhalted == Single /\ Active # {} /\ ~Connecting => ~queue.halted

Plugged == ~Connecting => changes = 1

AsPlanned == Plugged /\ Hushed /\ Planned /\ Fixed /\ Placed /\ Unhalted

Addressed == Calm => AsPlanned

\* What is known of all that.
Steady == UsbTypes /\ Stages /\ Phased /\ Tokens

LEMMA PlanStays ==
    ASSUME bus' = bus
    PROVE  \A a, l, s : Plan(a, l, s)' <=> Plan(a, l, s)
<1>1. \A i : Enumerated(i)' = Enumerated(i)
  BY DEF Enumerated
<1>2. \A a, l, s, z : Awaited(a, l, s, z)' <=> Awaited(a, l, s, z)
  BY <1>1 DEF Awaited
<1>3. \A a, s : Reset(a, s)' <=> Reset(a, s)
  BY <1>1 DEF Reset
<1> QED
  BY <1>2, <1>3 DEF Plan

LEMMA CalmStays ==
    ASSUME UsbTypes, [Next]_vars, Calm'
    PROVE  Calm /\ bus' = bus /\ stalls' = stalls /\ AllAddressed
<1>1. bus' = bus
  BY DEF Next, BootStep, BusReset, ResetOver, Enumerate, Up, DeviceManager, Initialise, Format,
     Good, Serve, Transact, Begin, Go, End, Perform, Hardware, Interrupt, vars, busVars
<1>2. stalls' = stalls \/ stalls' = stalls + 1
  BY DEF Next, BootStep, BusReset, ResetOver, Enumerate, Up, DeviceManager, Initialise, Format,
     Good, Serve, Transact, Begin, Go, End, Fill, Start, SemaphoreWait, Finish, Perform, Transfer, Hardware,
     Halt, PortChange, Interrupt, Acknowledge, AcknowledgePort, vars, transferVars, deviceVars
<1>3. stalls = 0 /\ stalls' = stalls
  BY <1>2 DEF UsbTypes, Calm
<1>4. Quiet
  BY QuietStays DEF Calm
<1>5. AllAddressed
  BY <1>1 DEF Calm, AllAddressed
<1> QED
  BY <1>1, <1>3, <1>4, <1>5 DEF Calm

\* ConnectingIs, of the next state.
ConnectingSays ==
    /\ Connecting <=> todo[Boot] # <<>> /\ todo[Boot][1].do \in {"connect", "reset"}
    /\ Opened(todo[Boot]) => ~Connecting
    /\ ~Connecting => Opened(todo[Boot])
    /\ todo[Boot] = Opening <=> todo[Boot] # <<>> /\ todo[Boot][1].do = "connect"
    /\ Connecting => ~Mounting(todo[Boot]) /\ dead /\ volume = Nobody

LEMMA ConnectingNext == (UsbTypes /\ Stages => ConnectingSays)'
<1>1. UsbTypes /\ Stages => ConnectingSays
  BY ConnectingIs DEF ConnectingSays
<1> QED
  BY <1>1, PTL

\* While there is more to do than to mount, only the boot thread does anything.
LEMMA BootAlone ==
    ASSUME UsbTypes, Stages, Phased, ~Mounting(todo[Boot])
    PROVE  /\ dead /\ Single /\ todo[Server] = <<>> /\ Server \notin Active /\ \A t \in Active : t = Boot
           /\ volume = Nobody
           /\ ~Connecting /\ Active # {} =>
                 /\ Boot \in Active /\ Boot \in Busy /\ todo[Boot] # <<>>
                 /\ todo[Boot][1] \in Items /\ 1 \in DOMAIN todo[Boot] /\ Valid(list, todo[Boot][1])
                 /\ todo[Boot][1].do \in RequestDo /\ todo[Boot][1].device \in Device
                 /\ queue.request = todo[Boot][1] /\ queue.by = Boot
<1>1. dead /\ Single /\ todo[Server] = <<>> /\ volume = Nobody
  BY DEF Stages, Single
<1>2. Prepared /\ Alone /\ Filled
  BY <1>1 DEF Phased
<1>3. Server \notin Active /\ \A t \in Active : t = Boot
  BY <1>1, <1>2, ThreadsAssumption DEF Prepared, Active
<1>4. ASSUME ~Connecting, Active # {}
      PROVE  /\ Boot \in Active /\ Boot \in Busy /\ todo[Boot] # <<>>
             /\ todo[Boot][1] \in Items /\ 1 \in DOMAIN todo[Boot] /\ Valid(list, todo[Boot][1])
             /\ todo[Boot][1].do \in RequestDo /\ todo[Boot][1].device \in Device
             /\ queue.request = todo[Boot][1] /\ queue.by = Boot
  <2>1. Boot \in Active /\ todo[Boot] # <<>> /\ Head(todo[Boot]).do \in RequestDo \cup {"connect", "reset"}
    BY <1>2, <1>3, <1>4 DEF Prepared
  <2>2. Ordered(list, todo[Boot])
    BY DEF Stages
  <2>3. Head(todo[Boot]) = todo[Boot][1]
    BY <2>1, <2>2, OrderedIs
  <2>4. todo[Boot][1].do \in RequestDo
    BY <2>1, <2>3, <1>4, ConnectingIs
  <2>5. Requested(Head(todo[Boot])) /\ Boot \in Thread
    BY <2>3, <2>4, ThreadsAssumption DEF Requested, RequestDo
  <2>6. /\ todo[Boot][1] \in Items /\ 1 \in DOMAIN todo[Boot] /\ Valid(list, todo[Boot][1])
        /\ todo[Boot][1].device \in Device
    BY <2>1, <2>5, RequestIs
  <2>7. Boot \in Busy
    BY <2>1, <2>5 DEF Busy, Active
  <2>8. queue.request = todo[Boot][1] /\ queue.by = Boot
    BY <2>3, <2>7, <1>2 DEF Filled
  <2> QED
    BY <2>1, <2>4, <2>6, <2>7, <2>8
<1> QED
  BY <1>1, <1>3, <1>4

\* Who is in the queue while it is not done: with the addresses as they are.
LEMMA Heard ==
    ASSUME UsbTypes, Stages, Phased, Tokens, Addressed, Calm, Unfinished
    PROVE  /\ ~Connecting /\ queue.request \in Items /\ queue.request.device \in Device
           /\ queue.request.do \in RequestDo
           /\ Listeners = {queue.request.device}
           /\ ~Mounting(todo[Boot]) => queue.request = todo[Boot][1] /\ Boot \in Active /\ todo[Boot] # <<>>
<1>1. Hushed /\ Planned /\ Fixed /\ Placed
  BY DEF Addressed, AsPlanned
<1>2. queue.left > 0 /\ queue.left \in Nat /\ ~queue.halted
  BY DEF Unfinished, UsbTypes, Queues
<1>3. queue.request \in Items /\ queue.request.device \in Device /\ queue.request.do \in RequestDo
  BY <1>2 DEF UsbTypes
<1>4. ~Connecting
  <2> SUFFICES ASSUME Connecting PROVE FALSE
    OBVIOUS
  <2>1. Single
    BY ConnectingIs DEF Single
  <2> QED
    BY <2>1, <1>2 DEF Tokens, Calm
<1> DEFINE i == queue.request
<1>5. address \in [Device -> Int] /\ i.to \in Nat
  BY <1>3 DEF UsbTypes, Items
<1>6. ASSUME Answers(address, i) PROVE Listeners = {i.device}
  <2>1. \A d \in Device : address[d] = i.to => d = i.device
    <3> SUFFICES ASSUME NEW d \in Device, address[d] = i.to PROVE d = i.device
      OBVIOUS
    <3>1. Named(list, i.to, d) /\ Named(list, i.to, i.device)
      BY <1>1, <1>3, <1>6 DEF Placed, Answers
    <3> QED
      BY <3>1 DEF Named
  <2> QED
    BY <2>1, <1>3, <1>6 DEF Listeners, Answers
<1>7. CASE Mounting(todo[Boot])
  <2>1. Answers(address, i)
    BY <1>1, <1>7 DEF Fixed
  <2> QED
    BY <2>1, <1>3, <1>4, <1>6, <1>7
<1>8. CASE ~Mounting(todo[Boot])
  <2> DEFINE s == todo[Boot]
  <2>1. Single
    BY <1>8, BootAlone
  <2>2. Active # {}
    BY <2>1 DEF Tokens, Calm
  <2>3. i = s[1] /\ Boot \in Active /\ s # <<>> /\ Valid(list, s[1])
    BY <2>2, <1>4, <1>8, BootAlone
  <2>4. Plan(address, list, s)
    BY <1>1, <1>2, <1>4, <1>8 DEF Planned, Remaining
  <2>5. s \in Seq(Items)
    BY OrderedIs DEF Stages
  <2>6. CASE i.to > 0
    <3>1. Answers(address, i)
      BY <2>3, <2>4, <2>5, <2>6, PlanFirst DEF Answers
    <3> QED
      BY <3>1, <2>3, <1>3, <1>4, <1>6, <1>8
  <2>7. CASE ~(i.to > 0)
    <3>1. i.to = 0 /\ Zero(s[1])
      BY <2>3, <2>7, <1>3, <1>5, NobodyIs DEF Zero
    <3>2. \A d \in Device : address[d] = 0 <=> d = s[1].device
      BY <3>1, <2>3, <2>4, <2>5, PlanFirst
    <3>3. Listeners = {i.device}
      BY <3>1, <3>2, <2>3, <1>3 DEF Listeners
    <3> QED
      BY <3>3, <2>3, <1>3, <1>4, <1>8
  <2> QED
    BY <2>6, <2>7
<1> QED
  BY <1>7, <1>8

\* A request reaches the device it is for and no other.
LEMMA AddressedListens ==
    ASSUME UsbTypes, Stages, Phased, Tokens, Addressed
    PROVE  OneListener
<1> SUFFICES ASSUME Working, Quiet, stalls = 0, AllAddressed PROVE Listeners = {queue.request.device}
  BY DEF OneListener
<1> QED
  BY Heard DEF Working, Unfinished, Calm

LEMMA PlannedStays ==
    ASSUME Steady, AsPlanned, bus' = bus, UNCHANGED <<address, list, volume, todo, dead, changes, queue>>,
           Single => Active' = Active
    PROVE  AsPlanned'
<1>1. (Connecting' <=> Connecting) /\ (Mounting(todo[Boot])' <=> Mounting(todo[Boot])) /\ (Single' <=> Single)
  BY BusStays DEF Connecting, Mounting, Single
<1>2. Plugged' /\ Hushed' /\ Placed' /\ Unhalted'
  BY <1>1 DEF AsPlanned, Plugged, Hushed, Placed, Unhalted
<1>3. Fixed'
  BY <1>1 DEF AsPlanned, Fixed, Answers, Unfinished
<1>4. ASSUME ~Connecting, ~Mounting(todo[Boot]) PROVE Plan(address, list, Remaining)'
  <2>1. Active' = Active
    BY <1>4, BootAlone DEF Steady
  <2>2. phase'[Boot] # "out" <=> phase[Boot] # "out"
    BY <2>1, ThreadsAssumption DEF Active
  <2>3. Remaining' = Remaining
    BY <2>2 DEF Remaining
  <2>4. Plan(address, list, Remaining)
    BY <1>4 DEF AsPlanned, Planned
  <2> QED
    BY <2>3, <2>4, PlanStays
<1>5. Planned'
  BY <1>1, <1>4 DEF Planned
<1> QED
  BY <1>2, <1>3, <1>5 DEF AsPlanned

LEMMA AddressedInit ==
    ASSUME Init
    PROVE  Addressed
<1>1. todo[Boot] = Opening /\ list = <<>> /\ address = [d \in Device |-> Silent] /\ changes = 0
  BY ThreadsAssumption DEF Init, TransferInit, Opening
<1>2. Connecting
  BY <1>1 DEF Connecting
<1>3. ~Mounting(todo[Boot])
  BY <1>1, OpeningIs DEF Mounting, MountDo
<1>4. bus.root \in Device
  BY BusIs DEF Init
<1>5. Hushed /\ Placed
  BY <1>1, <1>4 DEF Hushed, Placed, Silent
<1> QED
  BY <1>2, <1>3, <1>5 DEF Addressed, AsPlanned, Plugged, Planned, Fixed, Unhalted

\* While nobody has an address there is nobody up either.
LEMMA NonePlaced ==
    ASSUME UsbTypes, Placed, volume = Nobody, \A d \in Device : ~(address[d] > 0)
    PROVE  \A a \in DOMAIN list : ~(list[a].alive \/ list[a].device = volume)
<1> SUFFICES ASSUME NEW a \in DOMAIN list, list[a].alive \/ list[a].device = volume PROVE FALSE
  OBVIOUS
<1>1. a > 0 /\ list[a].device \in Device
  BY ListingIs DEF UsbTypes
<1>2. address[list[a].device] = a
  BY DEF Placed
<1> QED
  BY <1>1, <1>2

LEMMA BusResetPlanned ==
    ASSUME Steady, Steady', AsPlanned, Calm, BusReset
    PROVE  AsPlanned'
<1>1. /\ todo[Boot] # <<>> /\ todo[Boot][1].do = "connect" /\ phase[Boot] = "woken" /\ Then(Boot, <<>>)
      /\ address' = [address EXCEPT ![bus.root] = IF ccs THEN 0 ELSE Silent]
      /\ UNCHANGED <<queue, changes, bus, list, volume, dead>>
  BY AtIs DEF BusReset, busVars, Steady
<1>2. todo[Boot] = Opening /\ todo'[Boot] = Tail(Opening) /\ Connecting /\ volume = Nobody /\ dead
  BY <1>1, ConnectingIs, ThenIs, OpeningIs, ThreadsAssumption DEF Steady
<1>3. Connecting' /\ ~Mounting(todo[Boot])' /\ todo'[Boot] # Opening
  <2>1. Connecting' /\ ~Mounting(todo[Boot])'
    BY <1>2, ConnectingNext DEF Connecting, Steady, ConnectingSays
  <2> QED
    BY <2>1, <1>2, OpeningIs
<1>4. ccs
  <2>1. Single /\ Quiet /\ Counts /\ Woken
    BY <1>1, <1>2, GivenIs, ThreadsAssumption DEF Single, Calm, Steady, Woken
  <2>2. Given # 0
    BY <2>1 DEF Counts
  <2>3. changes # 0
    BY <2>1, <2>2, <1>2 DEF Tokens, Due, Steady
  <2>4. changes = 1
    BY <2>1, <2>3 DEF Quiet, Steady, UsbTypes
  <2> QED
    BY <2>1, <2>4 DEF Tokens, Steady
<1>5. /\ address \in [Device -> Int] /\ bus.root \in Device
      /\ \A d \in Device : address[d] = Silent \/ (d = bus.root /\ address[d] = 0)
  BY <1>2, BusIs DEF Steady, UsbTypes, AsPlanned, Hushed
<1>6. address'[bus.root] = 0 /\ \A d \in Device : address'[d] = Silent \/ (d = bus.root /\ address'[d] = 0)
  BY <1>1, <1>4, <1>5
<1>7. Hushed'
  BY <1>1, <1>3, <1>6 DEF Hushed
<1>8. Placed'
  <2>1. \A d \in Device : ~(address[d] > 0) /\ ~(address'[d] > 0)
    BY <1>5, <1>6 DEF Silent
  <2>2. \A a \in DOMAIN list : ~(list[a].alive \/ list[a].device = volume)
    BY <2>1, <1>2, NonePlaced DEF Steady, AsPlanned
  <2> QED
    BY <1>1, <2>1, <2>2 DEF Placed
<1> QED
  BY <1>3, <1>7, <1>8 DEF AsPlanned, Plugged, Planned, Fixed, Unhalted

LEMMA ResetOverPlanned ==
    ASSUME Steady, Steady', AsPlanned, Calm, ResetOver
    PROVE  AsPlanned'
<1>1. /\ todo[Boot] # <<>> /\ todo[Boot][1].do = "reset" /\ phase[Boot] = "woken" /\ Then(Boot, <<>>)
      /\ phase' = [phase EXCEPT ![Boot] = "out"]
      /\ UNCHANGED <<address, queue, changes, bus, list, volume, dead>>
  BY AtIs DEF ResetOver, busVars, deviceVars, controllerVars, Steady
<1>2. /\ todo[Boot] = Tail(Opening) /\ todo'[Boot] = After(Tail(Opening), 1) /\ Connecting /\ volume = Nobody /\ dead
      /\ todo[Boot] # Opening
  BY <1>1, ConnectingIs, ThenIs, ThreadsAssumption DEF Connecting, Steady
<1>3. Single /\ Single' /\ Alone /\ Alone'
  BY <1>1, <1>2, PreparedAlone, PreparedAloneNext DEF Single, Steady, Phased
<1>4. Active' = {} /\ phase'[Boot] = "out" /\ ~Connecting'
  <2>1. Boot \in Thread /\ phase \in [Thread -> Phases] /\ Active = {Boot}
    BY <1>1, <1>3, ThreadsAssumption DEF Steady, UsbTypes, Alone, Active
  <2>2. Active' = {} /\ phase'[Boot] = "out"
    BY <1>1, <2>1 DEF Active
  <2> QED
    BY <2>2, <1>3 DEF Steady, Phased
<1>5. changes' = 1
  <2>1. Quiet'
    BY <1>1 DEF Calm, Quiet
  <2> QED
    BY <2>1, <1>3, <1>4 DEF Steady, Tokens
<1>6. address[bus.root] = 0 /\ \A d \in Device : address[d] = Silent \/ (d = bus.root /\ address[d] = 0)
  BY <1>2 DEF AsPlanned, Hushed
<1>7. Plan(address, list, After(Tail(Opening), 1))
  <2>1. \A d \in Device : d # bus.root => address[d] # 0
    BY <1>6 DEF Silent
  <2> QED
    BY <2>1, <1>6, PlanOpening
<1>8. Planned'
  <2>1. Remaining' = After(Tail(Opening), 1)
    BY <1>2, <1>4 DEF Remaining
  <2> QED
    BY <2>1, <1>1, <1>7, PlanStays DEF Planned
<1>9. ~Mounting(todo[Boot])'
  <2> DEFINE s == Opening  r == After(s, 1)
  <2>1. s \in Seq(Items) /\ Len(s) = 4 /\ s[3].do = "enumerate" /\ Tail(Opening) = r
    BY OpeningIs
  <2> HIDE DEF s
  <2>2. s \in Seq(Items) /\ 1 \in 0 .. Len(s)
    BY <2>1
  <2>3. /\ r \in Seq(Items) /\ Len(r) = Len(s) - 1 /\ DOMAIN r = 1 .. Len(s) - 1
        /\ \A k \in 1 .. Len(s) - 1 : k + 1 \in 1 .. Len(s) /\ r[k] = s[k + 1]
    BY <2>2, Shifted
  <2> HIDE DEF r
  <2>4. r \in Seq(Items) /\ Len(r) = 3 /\ r[2] = s[3] /\ 1 \in 0 .. Len(r)
    BY <2>1, <2>3
  <2>5. /\ DOMAIN After(r, 1) = 1 .. Len(r) - 1
        /\ \A k \in 1 .. Len(r) - 1 : k + 1 \in 1 .. Len(r) /\ After(r, 1)[k] = r[k + 1]
    <3>1. r \in Seq(Items) /\ 1 \in 0 .. Len(r)
      BY <2>4
    <3> QED
      BY <3>1, Shifted
  <2>6. 1 \in DOMAIN After(r, 1) /\ After(r, 1)[1] = r[2]
    BY <2>4, <2>5
  <2> QED
    BY <2>1, <2>4, <2>6, <1>2 DEF Mounting, MountDo
<1>10. Placed'
  BY <1>1 DEF Placed, AsPlanned
<1> QED
  BY <1>4, <1>5, <1>8, <1>9, <1>10 DEF AsPlanned, Plugged, Hushed, Fixed, Unhalted

LEMMA PortChangePlanned ==
    ASSUME Steady, Steady', AsPlanned, Calm, Calm', PortChange, UNCHANGED <<busVars, todo>>
    PROVE  AsPlanned'
<1>1. /\ changes' = changes + 1 /\ address' = [d \in Device |-> Silent]
      /\ UNCHANGED <<bus, list, volume, dead, todo>>
  BY DEF PortChange, busVars
<1>2. changes = 0
  BY <1>1 DEF Calm, Quiet, Steady, UsbTypes
<1>3. Connecting /\ dead /\ volume = Nobody /\ ~Mounting(todo[Boot])
  BY <1>2, ConnectingIs DEF AsPlanned, Plugged, Steady
<1>4. todo[Boot] = Opening
  BY <1>2, <1>3 DEF Steady, Tokens, Calm, Single
<1>5. Connecting' /\ ~Mounting(todo[Boot])' /\ todo'[Boot] = Opening
  BY <1>1, <1>3, <1>4 DEF Connecting, Mounting
<1>6. \A d \in Device : ~(address'[d] > 0) /\ address'[d] = Silent
  BY <1>1 DEF Silent
<1>7. Hushed'
  <2>1. bus.root \in Device
    BY BusIs DEF Steady, UsbTypes
  <2> QED
    BY <2>1, <1>1, <1>5, <1>6 DEF Hushed
<1>8. Placed'
  <2>1. \A d \in Device : ~(address[d] > 0)
    BY <1>3 DEF AsPlanned, Hushed, Silent
  <2>2. \A a \in DOMAIN list : ~(list[a].alive \/ list[a].device = volume)
    BY <2>1, <1>3, NonePlaced DEF Steady, AsPlanned
  <2> QED
    BY <1>1, <1>6, <2>2 DEF Placed
<1> QED
  BY <1>5, <1>7, <1>8 DEF AsPlanned, Plugged, Planned, Fixed, Unhalted

LEMMA GoPlanned ==
    ASSUME Steady, AsPlanned, NEW t \in Thread, Go(t)
    PROVE  AsPlanned'
<1>1. /\ phase[t] \in {"filled", "started"}
      /\ \E p \in {"started", "woken", "asleep"} : phase' = [phase EXCEPT ![t] = p]
      /\ UNCHANGED <<queue, address, changes, bus, list, volume, dead, todo>>
  BY DEF Go, Start, SemaphoreWait, controllerVars, deviceVars, busVars
<1>2. phase \in [Thread -> Phases]
  BY DEF Steady, UsbTypes
<1>3. Active' = Active
  BY <1>1, <1>2 DEF Active
<1> QED
  BY <1>1, <1>3, PlannedStays

LEMMA InterruptPlanned ==
    ASSUME Steady, AsPlanned, Interrupt
    PROVE  AsPlanned'
<1>1. UNCHANGED <<queue, address, changes, bus, list, volume, dead, todo>> /\ (Signal \/ UNCHANGED semaphoreVars)
  BY DEF Interrupt, Acknowledge, AcknowledgePort, deviceVars, busVars
<1>2. ASSUME Single, Signal PROVE Active' = Active
  <2>1. phase \in [Thread -> Phases] /\ Sleeping /\ UsbTypes
    BY <1>2 DEF Steady, UsbTypes, Phased
  <2>2. CASE phase' = phase
    BY <2>2 DEF Active
  <2>3. ASSUME NEW t \in Active, phase[t] = "asleep", phase' = [phase EXCEPT ![t] = "woken"]
        PROVE  Active' = Active
    BY <2>1, <2>3 DEF Active
  <2> QED
    BY <2>1, <2>2, <2>3, <1>2, SignalIs
<1>3. Single => Active' = Active
  BY <1>1, <1>2 DEF semaphoreVars, Active
<1> QED
  BY <1>1, <1>3, PlannedStays

LEMMA HaltPlanned ==
    ASSUME Steady, AsPlanned, Calm, Halt, stalls' = stalls
    PROVE  FALSE
<1>1. Working /\ (Listeners = {} \/ stalls' = stalls + 1)
  BY DEF Halt
<1>2. Listeners # {}
  BY <1>1, Heard DEF Working, Unfinished, Steady, Addressed
<1>3. stalls \in Nat
  BY DEF Steady, UsbTypes
<1> QED
  BY <1>1, <1>2, <1>3

LEMMA BeginPlanned ==
    ASSUME Steady, Steady', AsPlanned, NEW t \in Thread, Begin(t)
    PROVE  AsPlanned'
<1>1. /\ todo[t] # <<>> /\ Requested(Head(todo[t])) /\ phase[t] = "out"
      /\ phase' = [phase EXCEPT ![t] = "filled"]
      /\ queue'.request = Head(todo[t]) /\ queue'.halted = FALSE /\ queue'.left = Descriptors[Head(todo[t]).do]
      /\ UNCHANGED <<address, changes, bus, list, volume, dead, todo>>
  BY DEF Begin, Fill, busVars, deviceVars, controllerVars
<1>2. Head(todo[t]) = todo[t][1] /\ 1 \in DOMAIN todo[t] /\ todo[t][1].do \in RequestDo
  BY <1>1, RequestIs DEF Steady
<1>3. (Connecting' <=> Connecting) /\ (Mounting(todo[Boot])' <=> Mounting(todo[Boot]))
  BY <1>1 DEF Connecting, Mounting
<1>4. Plugged' /\ Hushed' /\ Placed' /\ Unhalted'
  BY <1>1, <1>3 DEF AsPlanned, Plugged, Hushed, Placed, Unhalted
<1>5. ASSUME Mounting(todo[Boot])
      PROVE  Answers(address, queue'.request) /\ queue'.request.do \in {"read", "reply"}
  <2>1. Answers(address, todo[t][1])
    BY <1>2, <1>5 DEF AsPlanned, Fixed
  <2>2. todo[t][1].do \in {"read", "reply"}
    <3>1. t = Boot => todo[t][1].do \in MountDo
      BY <1>2, <1>5 DEF Mounting
    <3>2. t = Server => todo[t][1].do \in {"read", "reply"}
      BY <1>2 DEF Steady, Stages, Serving
    <3>3. RequestDo \cap MountDo \subseteq {"read", "reply"}
      BY DosDistinct DEF MountDo
    <3> QED
      BY <3>1, <3>2, <3>3, <1>2, ThreadsAssumption
  <2> QED
    BY <1>1, <1>2, <2>1, <2>2
<1>6. Fixed'
  BY <1>1, <1>3, <1>5 DEF AsPlanned, Fixed, Answers
<1>7. ASSUME ~Connecting, ~Mounting(todo[Boot]) PROVE Plan(address, list, Remaining)'
  <2>1. t = Boot
    BY <1>1, <1>7, BootAlone, ThreadsAssumption DEF Steady
  <2>2. Remaining = todo[Boot]
    BY <1>1, <2>1 DEF Remaining
  <2>3. queue'.left # 0
    BY <1>1, <1>2, DosDistinct
  <2>4. Remaining' = todo[Boot]
    BY <1>1, <2>3 DEF Remaining
  <2>5. Plan(address, list, todo[Boot])
    BY <1>7, <2>2 DEF AsPlanned, Planned
  <2> QED
    BY <1>1, <2>4, <2>5, PlanStays
<1>8. Planned'
  BY <1>3, <1>7 DEF Planned
<1> QED
  BY <1>4, <1>6, <1>8 DEF AsPlanned

\* A step that leaves the boot thread with mounts.
LEMMA MountPlanned ==
    ASSUME Steady, Steady', AsPlanned, Calm, UNCHANGED <<bus, address, queue, changes, phase>>,
           DOMAIN list' = DOMAIN list, \A a \in DOMAIN list : list'[a] = list[a],
           Mounting(todo[Boot])', ~Connecting, Single' => Single,
           \A t \in Thread : \A k \in DOMAIN todo'[t] : Answers(address, todo'[t][k]),
           Unfinished => Answers(address, queue.request) /\ queue.request.do \in {"read", "reply"},
           \A a \in DOMAIN list : list[a].device = volume' => address[list[a].device] = a
    PROVE  AsPlanned'
<1>1. ~Connecting'
  BY ConnectingNext DEF Steady, ConnectingSays
<1>2. Plugged'
  BY <1>1 DEF AsPlanned, Plugged
<1>3. Hushed' /\ Planned'
  BY <1>1 DEF Hushed, Planned
<1>4. Fixed'
  BY DEF Fixed, Answers, Unfinished
<1>5. Placed'
  BY DEF AsPlanned, Placed, Named
<1>6. Unhalted'
  BY DEF AsPlanned, Unhalted, Active
<1> QED
  BY <1>2, <1>3, <1>4, <1>5, <1>6 DEF AsPlanned

LEMMA ServePlanned ==
    ASSUME Steady, Steady', AsPlanned, Calm, Serve
    PROVE  AsPlanned'
<1>1. /\ ~dead /\ UNCHANGED <<bus, address, queue, changes, phase, list, volume, dead>>
      /\ \E a \in DOMAIN list : list[a].device = volume /\ todo' = [todo EXCEPT ![Server] = ReadSectors(volume, a)]
  BY DEF Serve, transferVars, semaphoreVars, deviceVars, controllerVars, busVars
<1>2. PICK a \in DOMAIN list : list[a].device = volume /\ todo' = [todo EXCEPT ![Server] = ReadSectors(volume, a)]
  BY <1>1
<1>3. /\ a > 0 /\ a \in Nat /\ Boot \in Thread /\ Server \in Thread /\ Boot # Server
      /\ todo \in [Thread -> Seq(Items)] /\ Mounting(todo[Boot])
  BY <1>1, <1>2, ListingIs, ThreadsAssumption DEF Steady, UsbTypes, Stages
<1>4. ~Connecting
  BY <1>1, ConnectingIs DEF Steady
<1>5. address[volume] = a
  BY <1>2 DEF AsPlanned, Placed
<1>6. todo'[Server] = ReadSectors(volume, a) /\ todo'[Boot] = todo[Boot]
  BY <1>2, <1>3
<1>7. \A k \in DOMAIN todo'[Server] : todo'[Server][k].device = volume /\ todo'[Server][k].to = a
  BY <1>6 DEF ReadSectors, Item
<1>8. \A k \in DOMAIN todo'[Server] : Answers(address, todo'[Server][k])
  BY <1>3, <1>5, <1>7 DEF Answers
<1>9. \A k \in DOMAIN todo'[Boot] : Answers(address, todo'[Boot][k])
  BY <1>3, <1>6 DEF AsPlanned, Fixed
<1>10. Mounting(todo[Boot])'
  BY <1>3, <1>6 DEF Mounting
<1>11. Single' => Single
  BY <1>1, BusStays DEF Single
<1>12. Unfinished => Answers(address, queue.request) /\ queue.request.do \in {"read", "reply"}
  BY <1>3 DEF AsPlanned, Fixed
<1>13. \A b \in DOMAIN list : list[b].device = volume' => address[list[b].device] = b
  BY <1>1 DEF AsPlanned, Placed
<1>14. \A t \in Thread : \A k \in DOMAIN todo'[t] : Answers(address, todo'[t][k])
  BY <1>8, <1>9, ThreadsAssumption
<1> QED
  BY <1>1, <1>4, <1>10, <1>11, <1>12, <1>13, <1>14, MountPlanned

LEMMA LateMounting ==
    ASSUME NEW l, NEW s, Ordered(l, s), s # <<>>, s[1].do \in {"initialise", "format", "good"}
    PROVE  Mounting(s)
<1>1. s[1].do \in LateDo /\ 1 \in DOMAIN s /\ s[1].do # "manage"
  BY OrderedIs DEF LateDo
<1>2. ~(s # <<>> /\ s[Len(s)].do = "manage" /\ \A k \in DOMAIN s : k # Len(s) => s[k].do \notin LateDo)
  BY <1>1
<1> QED
  BY <1>2 DEF Ordered, Shape

\* The addresses of a mount, and those of its steps.
LEMMA MountAnswers ==
    ASSUME Steady, AsPlanned, Mounting(todo[Boot]), todo[Boot] # <<>>, NEW x \in Seq(Items), Then(Boot, x),
           \A k \in DOMAIN x : x[k].device = todo[Boot][1].device /\ x[k].to = todo[Boot][1].to
    PROVE  \A t \in Thread : \A k \in DOMAIN todo'[t] : Answers(address, todo'[t][k])
<1> DEFINE s == todo[Boot]  r == x \o Tail(s)
<1>1. /\ Boot \in Thread /\ Server \in Thread /\ Boot # Server /\ s \in Seq(Items) /\ 1 \in DOMAIN s
      /\ \A t \in Thread : \A k \in DOMAIN todo[t] : Answers(address, todo[t][k])
  BY ThreadsAssumption, OrderedIs DEF Steady, Stages, AsPlanned, Fixed
<1>2. todo'[Boot] = r /\ todo'[Server] = todo[Server]
  BY <1>1, ThenIs DEF Steady
<1>3. /\ \A k \in DOMAIN x : r[k] = x[k]
      /\ \A k \in DOMAIN r : k \notin DOMAIN x =>
            k - Len(x) + 1 \in DOMAIN s /\ k - Len(x) + 1 # 1 /\ r[k] = s[k - Len(x) + 1]
  BY <1>1, Stacked
<1> HIDE DEF r
<1>4. \A k \in DOMAIN x : Answers(address, x[k])
  <2>1. Answers(address, s[1])
    BY <1>1
  <2> QED
    BY <2>1 DEF Answers
<1>5. \A k \in DOMAIN r : Answers(address, r[k])
  BY <1>1, <1>3, <1>4
<1> QED
  BY <1>1, <1>2, <1>5, ThreadsAssumption

LEMMA DeviceManagerPlanned ==
    ASSUME Steady, Steady', AsPlanned, Calm, DeviceManager
    PROVE  AsPlanned'
<1> DEFINE s == todo[Boot]  r == Mounts \o Tail(s)
<1>1. /\ s # <<>> /\ s[1].do = "manage" /\ Ordered(list, s) /\ s \in Seq(Items)
      /\ Boot \in Thread /\ Server \in Thread /\ Boot # Server /\ 1 \in DOMAIN s
      /\ Then(Boot, Mounts)
  BY AtIs DEF DeviceManager, Steady
<1>2. UNCHANGED <<address, queue, changes, phase, bus, list, volume, dead>>
  BY DEF DeviceManager, transferVars, semaphoreVars, deviceVars, controllerVars, busVars
<1>3. ~Mounting(s) /\ ~Connecting
  <2>1. ~Connecting
    BY <1>1, ConnectingIs DEF Steady
  <2> QED
    BY <2>1, <1>1 DEF Mounting, MountDo
<1>4. Len(s) = 1
  BY <1>1, <1>3 DEF Ordered, Shape, LateDo
<1>5. DOMAIN s = {1}
  BY <1>1, <1>4, LenProperties
<1>6. Mounted(Mounts)
  BY <1>1, MountsIs DEF Steady, UsbTypes, Ordered, Tree
<1>7. todo[Server] = <<>> /\ dead /\ volume = Nobody /\ Single
  BY <1>3, BootAlone DEF Steady
<1>8. ~Unfinished
  <2>1. "manage" \notin RequestDo
    BY DosDistinct
  <2>2. Active = {}
    BY <2>1, <1>1, <1>3, BootAlone DEF Steady
  <2> QED
    BY <2>2, <1>7 DEF Steady, Tokens, Calm
<1>9. ASSUME NEW k \in DOMAIN Mounts PROVE Answers(address, Mounts[k])
  BY <1>6 DEF Mounted, Named, AsPlanned, Placed, Answers
<1>10. todo'[Boot] = r /\ todo'[Server] = todo[Server]
  BY <1>1, ThenIs DEF Steady
<1>11. \A k \in DOMAIN r : k \in DOMAIN Mounts /\ r[k] = Mounts[k]
  <2>1. Mounts \in Seq(Items) /\ s \in Seq(Items) /\ s # <<>>
    BY <1>1, <1>6 DEF Mounted
  <2>2. /\ \A k \in DOMAIN Mounts : r[k] = Mounts[k]
        /\ \A k \in DOMAIN r : k \notin DOMAIN Mounts =>
              k - Len(Mounts) + 1 \in DOMAIN s /\ k - Len(Mounts) + 1 # 1 /\ r[k] = s[k - Len(Mounts) + 1]
    BY <2>1, Stacked
  <2> HIDE DEF r
  <2> QED
    BY <2>2, <1>5
<1>12. \A t \in Thread : \A k \in DOMAIN todo'[t] : Answers(address, todo'[t][k])
  <2> HIDE DEF r
  <2>1. \A k \in DOMAIN r : Answers(address, r[k])
    BY <1>9, <1>11
  <2>2. todo'[Server] = <<>>
    BY <1>7, <1>10
  <2> QED
    BY <2>1, <2>2, <1>10, ThreadsAssumption
<1>13. Mounting(todo[Boot])'
  <2>1. Mounting(todo'[Boot])
    BY DeviceManagerStages DEF Steady
  <2> QED
    BY <2>1 DEF Mounting
<1>14. \A a \in DOMAIN list : list[a].device = volume' => address[list[a].device] = a
  BY <1>2 DEF AsPlanned, Placed
<1> QED
  BY <1>2, <1>3, <1>7, <1>8, <1>12, <1>13, <1>14, MountPlanned

LEMMA InitialisePlanned ==
    ASSUME Steady, Steady', AsPlanned, Calm, Initialise
    PROVE  AsPlanned'
<1> DEFINE i == todo[Boot][1]  f == [i EXCEPT !.do = "format"]  x == ReadSectors(i.device, i.to) \o <<f>>
<1>1. /\ todo[Boot] # <<>> /\ Head(todo[Boot]) = i /\ i.do = "initialise" /\ i \in Items /\ Valid(list, i)
      /\ Ordered(list, todo[Boot]) /\ 1 \in DOMAIN todo[Boot] /\ Boot \in Thread
  BY AtIs DEF Initialise, Steady
<1>2. volume' = i.device /\ Then(Boot, x)
  BY <1>1 DEF Initialise
<1>3. UNCHANGED <<address, queue, changes, phase, bus, list, dead>>
  BY DEF Initialise, transferVars, semaphoreVars, deviceVars, controllerVars
<1>4. i.device \in Device /\ i.to \in Nat /\ Named(list, i.to, i.device)
  BY <1>1 DEF Valid, Items
<1>5. Mounting(todo[Boot]) /\ Mounting(todo[Boot])' /\ ~Connecting
  <2>1. Mounting(todo[Boot]) /\ Mounting(todo'[Boot])
    BY <1>1, LateMounting, InitialiseStages DEF Steady
  <2>2. Mounting(todo[Boot])'
    BY <2>1 DEF Mounting
  <2> QED
    BY <2>1, <2>2, ConnectingIs DEF Steady
<1>6. f \in Items /\ f.do = "format" /\ f.device = i.device /\ f.to = i.to
  <2>1. "format" \in Dos
    BY DosDistinct
  <2> QED
    BY <2>1, <1>1 DEF Items
<1> HIDE DEF f
<1>7. Three(x, i.device, i.to)
  BY <1>4, <1>6, ThreeIs
<1> HIDE DEF x
<1>8. \A t \in Thread : \A k \in DOMAIN todo'[t] : Answers(address, todo'[t][k])
  BY <1>1, <1>2, <1>5, <1>7, MountAnswers DEF Three
<1>9. \A a \in DOMAIN list : list[a].device = volume' => address[list[a].device] = a
  <2>1. Answers(address, i)
    BY <1>1, <1>5 DEF AsPlanned, Fixed
  <2>2. \A a \in DOMAIN list : list[a].device = i.device => a = i.to
    BY <1>1, <1>4 DEF Ordered, Tree, Named
  <2> QED
    BY <2>1, <2>2, <1>2 DEF Answers
<1>10. Unfinished => Answers(address, queue.request) /\ queue.request.do \in {"read", "reply"}
  BY <1>5 DEF AsPlanned, Fixed
<1>11. Single' => Single
  BY <1>3, BusStays DEF Single
<1> QED
  BY <1>3, <1>5, <1>8, <1>9, <1>10, <1>11, MountPlanned

LEMMA FormatPlanned ==
    ASSUME Steady, Steady', AsPlanned, Calm, Format
    PROVE  AsPlanned'
<1> DEFINE i == todo[Boot][1]  g == [i EXCEPT !.do = "good"]  y == ReadSectors(i.device, i.to) \o <<g>>
           x == IF volume \in bus.fat THEN y ELSE <<>>
<1>1. /\ todo[Boot] # <<>> /\ Head(todo[Boot]) = i /\ i.do = "format" /\ i \in Items /\ Valid(list, i)
      /\ Ordered(list, todo[Boot]) /\ Boot \in Thread
  BY AtIs DEF Format, Steady
<1>2. Then(Boot, x)
  BY <1>1 DEF Format, FSInfo
<1>3. UNCHANGED <<address, queue, changes, phase, bus, list, volume, dead>>
  BY DEF Format, transferVars, semaphoreVars, deviceVars, controllerVars, busVars
<1>4. i.device \in Device /\ i.to \in Nat
  BY <1>1 DEF Valid, Items
<1>5. Mounting(todo[Boot]) /\ Mounting(todo[Boot])' /\ ~Connecting
  <2>1. Mounting(todo[Boot]) /\ Mounting(todo'[Boot])
    BY <1>1, LateMounting, FormatStages DEF Steady
  <2>2. Mounting(todo[Boot])'
    BY <2>1 DEF Mounting
  <2> QED
    BY <2>1, <2>2, ConnectingIs DEF Steady
<1>6. g \in Items /\ g.do = "good" /\ g.device = i.device /\ g.to = i.to
  <2>1. "good" \in Dos
    BY DosDistinct
  <2> QED
    BY <2>1, <1>1 DEF Items
<1> HIDE DEF g
<1>7. Three(y, i.device, i.to)
  BY <1>4, <1>6, ThreeIs
<1> HIDE DEF y
<1>8. x \in Seq(Items) /\ \A k \in DOMAIN x : x[k].device = i.device /\ x[k].to = i.to
  BY <1>7 DEF Three
<1> HIDE DEF x
<1>9. \A t \in Thread : \A k \in DOMAIN todo'[t] : Answers(address, todo'[t][k])
  BY <1>1, <1>2, <1>5, <1>8, MountAnswers
<1>10. \A a \in DOMAIN list : list[a].device = volume' => address[list[a].device] = a
  BY <1>3 DEF AsPlanned, Placed
<1>11. Unfinished => Answers(address, queue.request) /\ queue.request.do \in {"read", "reply"}
  BY <1>5 DEF AsPlanned, Fixed
<1>12. Single' => Single
  BY <1>3, BusStays DEF Single
<1> QED
  BY <1>3, <1>5, <1>9, <1>10, <1>11, <1>12, MountPlanned

LEMMA GoodPlanned ==
    ASSUME Steady, Steady', AsPlanned, Calm, Good
    PROVE  AsPlanned'
<1> DEFINE x == <<>>
<1>1. /\ todo[Boot] # <<>> /\ todo[Boot][1].do = "good" /\ Ordered(list, todo[Boot]) /\ Then(Boot, x)
      /\ dead' = FALSE /\ Boot \in Thread
  BY AtIs DEF Good, Steady
<1>2. UNCHANGED <<address, queue, changes, phase, bus, list, volume>>
  BY DEF Good, transferVars, semaphoreVars, deviceVars, controllerVars
<1>3. Mounting(todo[Boot]) /\ Mounting(todo[Boot])' /\ ~Connecting
  <2>1. Mounting(todo[Boot]) /\ Mounting(todo'[Boot])
    BY <1>1, LateMounting, GoodStages DEF Steady
  <2>2. Mounting(todo[Boot])'
    BY <2>1 DEF Mounting
  <2> QED
    BY <2>1, <2>2, ConnectingIs DEF Steady
<1>4. x \in Seq(Items) /\ DOMAIN x = {}
  OBVIOUS
<1> HIDE DEF x
<1>5. \A t \in Thread : \A k \in DOMAIN todo'[t] : Answers(address, todo'[t][k])
  BY <1>1, <1>3, <1>4, MountAnswers
<1>6. \A a \in DOMAIN list : list[a].device = volume' => address[list[a].device] = a
  BY <1>2 DEF AsPlanned, Placed
<1>7. Unfinished => Answers(address, queue.request) /\ queue.request.do \in {"read", "reply"}
  BY <1>3 DEF AsPlanned, Fixed
<1>8. Single' => Single
  BY <1>1, <1>2, BusStays DEF Single
<1> QED
  BY <1>2, <1>3, <1>5, <1>6, <1>7, <1>8, MountPlanned

\* What is to be mounted is last, and stays.
LEMMA ManageStays ==
    ASSUME NEW l, NEW s, Ordered(l, s), ~Mounting(s), s # <<>>, s[1].do # "manage", NEW x \in Seq(Items)
    PROVE  ~Mounting(x \o Tail(s))
<1> DEFINE r == x \o Tail(s)
<1>1. s \in Seq(Items) /\ s[Len(s)].do = "manage" /\ Len(s) # 1
  BY DEF Ordered, Shape
<1>2. /\ Len(s) \in Nat /\ Len(s) >= 1 /\ DOMAIN s = 1 .. Len(s)
      /\ \A k \in DOMAIN s : k # 1 => Len(x) + k - 1 \in DOMAIN r /\ r[Len(x) + k - 1] = s[k]
  BY <1>1, Stacked
<1> HIDE DEF r
<1>3. \E k \in DOMAIN r : r[k].do = "manage"
  BY <1>1, <1>2
<1>4. ~Mounting(r)
  BY <1>3 DEF Mounting, MountDo
<1> QED
  BY <1>4 DEF r

LEMMA ManageAfter ==
    ASSUME NEW l, NEW s, Ordered(l, s), ~Mounting(s), NEW c \in 1 .. Len(s), \A j \in 1 .. c : s[j].do # "manage"
    PROVE  ~Mounting(After(s, c))
<1> DEFINE r == After(s, c)
<1>1. s \in Seq(Items) /\ s[Len(s)].do = "manage" /\ Len(s) # c /\ Len(s) \in Nat /\ c \in Nat /\ c >= 1 /\ c <= Len(s)
  <2>1. s \in Seq(Items) /\ s[Len(s)].do = "manage" /\ Len(s) \in Nat
    BY OrderedIs DEF Ordered, Shape
  <2>2. c \in 1 .. c /\ c \in Nat /\ c >= 1 /\ c <= Len(s)
    BY <2>1
  <2>3. Len(s) # c
    BY <2>1, <2>2
  <2> QED
    BY <2>1, <2>2, <2>3
<1>2. /\ DOMAIN s = 1 .. Len(s)
      /\ \A k \in DOMAIN s :
                 k \in Nat /\ k >= 1 /\ (k > c => k - c \in DOMAIN r /\ r[k - c] = s[k])
  BY <1>1, Back
<1> HIDE DEF r
<1>3. Len(s) \in DOMAIN s /\ Len(s) > c
  <2>1. Len(s) \in 1 .. Len(s) /\ Len(s) > c
    BY <1>1
  <2> QED
    BY <2>1, <1>2
<1>4. \E k \in DOMAIN r : r[k].do = "manage"
  BY <1>1, <1>2, <1>3
<1>5. ~Mounting(r)
  BY <1>4 DEF Mounting, MountDo
<1> QED
  BY <1>5 DEF r

LEMMA PlanListed ==
    ASSUME NEW a, NEW l, NEW m, Len(l) = Len(m), NEW s, Plan(a, l, s)
    PROVE  Plan(a, m, s)
  BY DEF Plan, Awaited, Fills

\* While the boot thread is not in a transaction, and is not mounting.
LEMMA BetweenIs ==
    ASSUME Steady, AsPlanned, Calm, Enumerate \/ Up
    PROVE  LET s == todo[Boot] IN
           /\ s # <<>> /\ Head(s) = s[1] /\ s[1].do \in {"enumerate", "up"} /\ Ordered(list, s) /\ s \in Seq(Items)
           /\ Boot \in Thread /\ 1 \in DOMAIN s /\ s[1] \in Items /\ Valid(list, s[1]) /\ 1 \in 1 .. Len(s)
           /\ ~Mounting(s) /\ ~Connecting /\ Active = {} /\ volume = Nobody
           /\ Plan(address, list, s)
           /\ UNCHANGED <<bus, volume, address, phase, queue, changes>>
           /\ ~Connecting' /\ Active' = {} /\ Remaining' = todo'[Boot]
<1> DEFINE s == todo[Boot]
<1>1. /\ s # <<>> /\ Head(s) = s[1] /\ s[1].do \in {"enumerate", "up"} /\ Ordered(list, s) /\ s \in Seq(Items)
      /\ Boot \in Thread /\ 1 \in DOMAIN s /\ s[1] \in Items /\ Valid(list, s[1])
  BY AtIs DEF Enumerate, Up, Steady
<1>2. 1 \in 1 .. Len(s)
  BY <1>1, OrderedIs
<1>3. ~Mounting(s) /\ ~Connecting
  <2>1. ~Connecting
    BY <1>1, ConnectingIs DEF Steady
  <2> QED
    BY <2>1, <1>1 DEF Mounting, MountDo
<1>4. Active = {} /\ volume = Nobody
  <2>1. s[1].do \notin RequestDo
    BY <1>1, DosDistinct
  <2> QED
    BY <2>1, <1>3, BootAlone DEF Steady
<1>5. UNCHANGED <<bus, volume, address, phase, queue, changes>>
  BY DEF Enumerate, Up, transferVars, semaphoreVars, deviceVars, controllerVars
<1>6. phase[Boot] = "out" /\ phase'[Boot] = "out" /\ Active' = {}
  BY <1>1, <1>4, <1>5 DEF Active
<1>7. Plan(address, list, s) /\ Remaining' = todo'[Boot]
  BY <1>3, <1>6 DEF AsPlanned, Planned, Remaining
<1>8. ~Connecting'
  <2>1. Opened(todo'[Boot])
    BY BootOpened DEF Steady
  <2> QED
    BY <2>1, OpenedNot DEF Connecting
<1> QED
  BY <1>1, <1>2, <1>3, <1>4, <1>5, <1>6, <1>7, <1>8

LEMMA EnumeratePlanned ==
    ASSUME Steady, Steady', AsPlanned, Calm, Enumerate
    PROVE  AsPlanned'
<1> DEFINE s == todo[Boot]  d == Enumerated(s[1])  a == Len(list) + 1
           m == Append(list, [device |-> d, alive |-> FALSE])
<1>1. /\ s # <<>> /\ Head(s) = s[1] /\ Ordered(list, s) /\ s \in Seq(Items)
      /\ Boot \in Thread /\ 1 \in DOMAIN s /\ s[1] \in Items /\ Valid(list, s[1]) /\ 1 \in 1 .. Len(s)
      /\ ~Mounting(s) /\ ~Connecting /\ Active = {} /\ volume = Nobody
      /\ Plan(address, list, s)
      /\ UNCHANGED <<bus, volume, address, phase, queue, changes>>
      /\ ~Connecting' /\ Active' = {} /\ Remaining' = todo'[Boot]
  BY BetweenIs
<1>2. s[1].do = "enumerate"
  BY AtIs DEF Enumerate, Steady
<1>3. bus \in Buses /\ list \in Listing
  BY DEF Steady, UsbTypes
<1>4. CASE Full
  <2>1. Then(Boot, <<>>) /\ list' = list
    BY <1>4 DEF Enumerate
  <2>2. todo'[Boot] = After(s, 1)
    BY <2>1, <1>1, ThenIs DEF Steady
  <2>3. Fills(list)
    BY <1>4 DEF Full, Fills
  <2>4. Plan(address, list, After(s, 1))
    BY <2>3, <1>1, <1>2, <1>3, PlanFull
  <2>5. ~Mounting(After(s, 1))
    <3>1. \A j \in 1 .. 1 : s[j].do # "manage"
      BY <1>2
    <3> QED
      BY <3>1, <1>1, ManageAfter
  <2>6. Planned'
    BY <2>1, <2>2, <2>4, <1>1, PlanStays DEF Planned
  <2>7. Fixed'
    BY <2>2, <2>5 DEF Fixed, Mounting
  <2>8. Placed'
    BY <2>1, <1>1 DEF AsPlanned, Placed
  <2> QED
    BY <2>6, <2>7, <2>8, <1>1 DEF AsPlanned, Plugged, Hushed, Unhalted
<1>5. CASE ~Full
  <2>1. d \in Device /\ d # Nobody
    BY <1>1, <1>2, <1>3, EnumeratedIs, NobodyIs
  <2>2. list' = m /\ Then(Boot, Identify(d, a))
    BY <2>1, <1>1, <1>5 DEF Enumerate, Calm, AllAddressed
  <2>3. a \in Nat /\ a > 0 /\ Len(list) \in Nat /\ DOMAIN list = 1 .. Len(list)
    BY <1>3, ListingIs
  <2>4. PICK z \in Nat : Identified(Identify(d, a), d, a, z)
    BY <2>1, <2>3, <1>3, IdentifyIdentified
  <2>5. todo'[Boot] = Identify(d, a) \o Tail(s)
    BY <2>2, <1>1, ThenIs DEF Steady
  <2>6. ~Fills(list)
    BY <1>5 DEF Full, Fills
  <2>7. Identify(d, a) \in Seq(Items)
    BY <2>4 DEF Identified
  <2> DEFINE x == Identify(d, a)
  <2> HIDE DEF x, m, a
  <2>8. Identified(x, Enumerated(s[1]), a, z)
    BY <2>4 DEF x
  <2>9. Plan(address, m, x \o Tail(s))
    BY <2>3, <2>6, <2>8, <1>1, <1>2, <1>3, PlanEnumerated
  <2>10. ~Mounting(x \o Tail(s))
    BY <2>7, <1>1, <1>2, ManageStays DEF x
  <2>11. Planned'
    BY <2>2, <2>5, <2>9, <1>1, PlanStays DEF Planned, x
  <2>12. Fixed'
    BY <2>5, <2>10 DEF Fixed, Mounting, x
  <2>13. /\ DOMAIN m = 1 .. Len(list) + 1
         /\ \A b \in DOMAIN list : b \in DOMAIN m /\ m[b] = list[b]
         /\ m[Len(list) + 1] = [device |-> d, alive |-> FALSE]
    BY <2>3, <1>3 DEF m, Listing
  <2>14. Placed'
    <3>1. ASSUME NEW e \in Device, address[e] > 0 PROVE Named(m, address[e], e)
      BY <2>13, <3>1 DEF AsPlanned, Placed, Named
    <3>2. ASSUME NEW b \in DOMAIN m, m[b].alive \/ m[b].device = volume PROVE address[m[b].device] = b
      <4>1. b \in DOMAIN list /\ m[b] = list[b]
        <5>1. b # Len(list) + 1
          <6>1. ~m[Len(list) + 1].alive /\ m[Len(list) + 1].device # volume
            BY <2>13, <2>1, <1>1
          <6> QED
            BY <6>1, <3>2
        <5>2. b \in DOMAIN list
          BY <5>1, <2>3, <2>13
        <5> QED
          BY <5>2, <2>13
      <4> QED
        BY <4>1, <3>2 DEF AsPlanned, Placed
    <3> QED
      BY <3>1, <3>2, <2>2, <1>1 DEF Placed
  <2> QED
    BY <2>11, <2>12, <2>14, <1>1 DEF AsPlanned, Plugged, Hushed, Unhalted
<1> QED
  BY <1>4, <1>5

LEMMA UpPlanned ==
    ASSUME Steady, Steady', AsPlanned, Calm, Up
    PROVE  AsPlanned'
<1> DEFINE s == todo[Boot]  b == s[1].to  m == [list EXCEPT ![b].alive = TRUE]
<1>1. /\ s # <<>> /\ Head(s) = s[1] /\ Ordered(list, s) /\ s \in Seq(Items)
      /\ Boot \in Thread /\ 1 \in DOMAIN s /\ s[1] \in Items /\ Valid(list, s[1]) /\ 1 \in 1 .. Len(s)
      /\ ~Mounting(s) /\ ~Connecting /\ Active = {} /\ volume = Nobody
      /\ Plan(address, list, s)
      /\ UNCHANGED <<bus, volume, address, phase, queue, changes>>
      /\ ~Connecting' /\ Active' = {} /\ Remaining' = todo'[Boot]
  BY BetweenIs
<1>2. s[1].do = "up" /\ Then(Boot, <<>>) /\ list' = m
  BY <1>1, AtIs DEF Up, Steady
<1>3. list \in Listing
  BY DEF Steady, UsbTypes
<1>4. b > 0 /\ b \in DOMAIN list /\ list[b].device = s[1].device
  BY <1>1, <1>2 DEF Valid, Items, Named
<1>5. address[s[1].device] = b
  BY <1>1, <1>4, PlanFirst
<1>6. /\ DOMAIN m = DOMAIN list /\ Len(m) = Len(list)
      /\ \A a \in DOMAIN list : m[a].device = list[a].device /\ (a # b => m[a] = list[a])
  <2>1. list[b] \in [device : Device, alive : BOOLEAN] /\ DOMAIN list = 1 .. Len(list) /\ Len(list) \in Nat
    BY <1>3, <1>4, ListingIs
  <2> QED
    BY <2>1, <1>3, <1>4 DEF Listing
<1> HIDE DEF m
<1>7. todo'[Boot] = After(s, 1)
  BY <1>1, <1>2, ThenIs DEF Steady
<1>8. \A j \in 1 .. 1 : s[j].do \notin {"rename", "restart", "enumerate", "manage"}
  BY <1>2
<1>9. Plan(address, m, After(s, 1))
  <2>1. Plan(address, list, After(s, 1))
    BY <1>1, <1>8, PlanAfter
  <2> QED
    BY <2>1, <1>6, PlanListed
<1>10. ~Mounting(After(s, 1))
  BY <1>1, <1>8, ManageAfter
<1>11. Planned'
  BY <1>1, <1>2, <1>7, <1>9, PlanStays DEF Planned
<1>12. Fixed'
  BY <1>7, <1>10 DEF Fixed, Mounting
<1>13. Placed'
  <2>1. ASSUME NEW e \in Device, address[e] > 0 PROVE Named(m, address[e], e)
    BY <2>1, <1>6 DEF AsPlanned, Placed, Named
  <2>2. ASSUME NEW a \in DOMAIN m, m[a].alive \/ m[a].device = volume PROVE address[m[a].device] = a
    <3>1. CASE a = b
      BY <3>1, <1>4, <1>5, <1>6
    <3>2. CASE a # b
      BY <3>2, <2>2, <1>6 DEF AsPlanned, Placed
    <3> QED
      BY <3>1, <3>2
  <2> QED
    BY <2>1, <2>2, <1>1, <1>2 DEF Placed
<1> QED
  BY <1>1, <1>11, <1>12, <1>13 DEF AsPlanned, Plugged, Hushed, Unhalted

LEMMA PerformPlanned ==
    ASSUME Steady, Steady', AsPlanned, Calm, Perform
    PROVE  AsPlanned'
<1> DEFINE i == queue.request  s == todo[Boot]
<1>1. PICK d \in Device, flipped \in SUBSET Endpoint :
        /\ Transfer(d, flipped)
        /\ address' = CASE i.do = "rename" /\ queue.left = 1 -> [address EXCEPT ![d] = i.n]
                        [] i.do = "restart" /\ queue.left = 1 ->
                             [address EXCEPT ![bus.ports[i.device][i.n]] = 0]
                        [] OTHER -> address
  BY DEF Perform
<1>2. /\ queue.left \in Nat /\ queue.left > 0 /\ queue'.left = queue.left - 1
      /\ queue'.request = i /\ queue'.halted = queue.halted
  BY <1>1, TransferIs, TypesSplit DEF Steady
<1>3. UNCHANGED <<phase, changes, bus, list, volume, dead, todo>>
  BY <1>1 DEF Perform, Transfer, semaphoreVars, busVars
<1>4. Unfinished /\ d \in Listeners
  BY <1>1 DEF Transfer, Working, Unfinished
<1>5. /\ ~Connecting /\ i \in Items /\ i.device \in Device /\ i.do \in RequestDo /\ Listeners = {i.device}
      /\ ~Mounting(s) => i = s[1] /\ Boot \in Active /\ s # <<>>
  BY <1>4, Heard DEF Steady, Addressed
<1>6. d = i.device
  BY <1>4, <1>5
<1>7. (Connecting' <=> Connecting) /\ (Mounting(todo[Boot])' <=> Mounting(s)) /\ Active' = Active
  BY <1>3 DEF Connecting, Mounting, Active
<1>8. Plugged' /\ Hushed' /\ Unhalted'
  <2>1. Single' <=> Single
    BY <1>3, BusStays DEF Single
  <2> QED
    BY <2>1, <1>2, <1>3, <1>5, <1>7 DEF AsPlanned, Plugged, Hushed, Unhalted
<1>9. address \in [Device -> Int] /\ bus \in Buses
  BY DEF Steady, UsbTypes
<1>10. CASE ~(i.do \in {"rename", "restart"} /\ queue.left = 1)
  <2>1. address' = address
    BY <1>1, <1>10
  <2>2. Placed'
    BY <2>1, <1>3 DEF AsPlanned, Placed
  <2>3. Fixed'
    BY <2>1, <1>2, <1>3, <1>4, <1>7 DEF AsPlanned, Fixed, Answers, Unfinished
  <2>4. ASSUME ~Mounting(s) PROVE Plan(address, list, Remaining)'
    <3>1. Remaining = s
      BY <1>2 DEF Remaining
    <3>2. Remaining' = s
      <4>1. ~(queue'.left = 0 /\ s[1].do \in {"rename", "restart"})
        BY <2>4, <1>2, <1>5, <1>10
      <4> QED
        BY <4>1, <1>3 DEF Remaining
    <3>3. Plan(address, list, s)
      BY <3>1, <2>4, <1>5 DEF AsPlanned, Planned
    <3> QED
      BY <3>2, <3>3, <2>1, <1>3, PlanStays
  <2>5. Planned'
    BY <2>4, <1>7 DEF Planned
  <2> QED
    BY <2>2, <2>3, <2>5, <1>8 DEF AsPlanned
\* The address of a device changes.
<1>11. CASE i.do \in {"rename", "restart"} /\ queue.left = 1
  <2>1. ~Mounting(s)
    <3>1. Mounting(s) => i.do \in {"read", "reply"}
      BY <1>4 DEF AsPlanned, Fixed
    <3> QED
      BY <3>1, <1>11
  <2>2. i = s[1] /\ Boot \in Active /\ s # <<>> /\ Ordered(list, s) /\ volume = Nobody
    BY <2>1, <1>5, BootAlone DEF Steady, Stages
  <2>3. s \in Seq(Items) /\ 1 \in DOMAIN s /\ Valid(list, s[1]) /\ DOMAIN s = 1 .. Len(s)
    BY <2>2, OrderedIs
  <2>4. Plan(address, list, s)
    <3>1. Remaining = s
      BY <1>2 DEF Remaining
    <3> QED
      BY <3>1, <2>1, <1>5 DEF AsPlanned, Planned
  <2>5. Remaining' = After(s, 1)
    <3>1. queue'.left = 0
      BY <1>2, <1>11
    <3>2. phase'[Boot] # "out"
      BY <2>2, <1>3 DEF Active
    <3> QED
      BY <3>1, <3>2, <2>2, <1>3, <1>11 DEF Remaining
  <2>6. Fixed'
    BY <2>1, <1>7 DEF Fixed
  <2>7. CASE i.do = "rename"
    <3>1. address' = [address EXCEPT ![i.device] = i.n]
      BY <2>7, <1>1, <1>6, <1>11
    <3>2. address'[i.device] = i.n /\ \A e \in Device : e # i.device => address'[e] = address[e]
      BY <3>1, <1>5, <1>9
    <3>3. Plan(address', list, After(s, 1))
      BY <3>2, <2>2, <2>4, <2>7, <1>9, PlanRenamed
    <3>4. Planned'
      BY <3>3, <2>5, <1>3, PlanStays DEF Planned
    <3>5. Named(list, i.n, i.device) /\ Zero(s[1])
      <4>1. Named(list, i.n, i.device) /\ i.to = 0
        BY <2>2, <2>3, <2>7 DEF Valid
      <4> QED
        BY <4>1, <2>2, <1>5, NobodyIs DEF Zero
    <3>6. address[i.device] = 0
      BY <3>5, <2>2, <2>3, <2>4, <1>5, PlanFirst
    <3>7. ASSUME NEW e \in Device, address'[e] > 0 PROVE Named(list, address'[e], e)
      <4>1. CASE e = i.device
        BY <4>1, <3>2, <3>5
      <4>2. CASE e # i.device
        BY <4>2, <3>2, <3>7 DEF AsPlanned, Placed
      <4> QED
        BY <4>1, <4>2
    <3>8. ASSUME NEW a \in DOMAIN list, list[a].alive \/ list[a].device = volume
          PROVE  address'[list[a].device] = a
      <4>1. a > 0 /\ list[a].device \in Device
        BY ListingIs DEF Steady, UsbTypes
      <4>2. address[list[a].device] = a
        BY <3>8 DEF AsPlanned, Placed
      <4>3. list[a].device # i.device
        BY <4>1, <4>2, <3>6
      <4> QED
        BY <4>1, <4>2, <4>3, <3>2
    <3>9. Placed'
      BY <3>7, <3>8, <1>3 DEF Placed
    <3> QED
      BY <3>4, <3>9, <2>6, <1>8 DEF AsPlanned
  <2>8. CASE i.do = "restart"
    <3> DEFINE x == bus.ports[i.device][i.n]
    <3>1. address' = [address EXCEPT ![x] = 0]
      BY <2>8, <1>1, <1>11
    <3>2. x \in Device /\ \A j : Pair(s[1], j) => Enumerated(j) = x
      BY <2>2, <2>3, <2>8, <1>5, <1>9, EnumeratedIs
    <3>3. address'[x] = 0 /\ \A e \in Device : e # x => address'[e] = address[e]
      BY <3>1, <3>2, <1>9
    <3>4. x \notin Listed(list)
      <4>1. 5 \in DOMAIN s /\ Pair(s[1], s[5])
        <5>1. 1 + 4 \in DOMAIN s /\ Pair(s[1], s[1 + 4])
          BY <2>2, <2>3, <2>4, <2>8 DEF Plan, Resets
        <5> QED
          BY <5>1
      <4>2. s[5].do = "enumerate" /\ Enumerated(s[5]) = x
        BY <4>1, <3>2 DEF Pair
      <4> QED
        BY <4>1, <4>2, <2>2 DEF Ordered, Tree
    <3> HIDE DEF x
    <3>5. Plan(address', list, After(s, 1))
      <4>1. x = bus.ports[s[1].device][s[1].n]
        BY <2>2 DEF x
      <4> QED
        BY <4>1, <3>3, <2>2, <2>4, <2>8, <1>9, PlanRestarted
    <3>6. Planned'
      BY <3>5, <2>5, <1>3, PlanStays DEF Planned
    <3>7. ASSUME NEW e \in Device, address'[e] > 0 PROVE Named(list, address'[e], e)
      <4>1. e # x
        BY <3>3, <3>7
      <4> QED
        BY <4>1, <3>3, <3>7 DEF AsPlanned, Placed
    <3>8. ASSUME NEW a \in DOMAIN list, list[a].alive \/ list[a].device = volume
          PROVE  address'[list[a].device] = a
      <4>1. list[a].device \in Device /\ list[a].device # x
        BY <3>4, ListingIs DEF Steady, UsbTypes, Listed
      <4>2. address[list[a].device] = a
        BY <3>8 DEF AsPlanned, Placed
      <4> QED
        BY <4>1, <4>2, <3>3
    <3>9. Placed'
      BY <3>7, <3>8, <1>3 DEF Placed
    <3> QED
      BY <3>6, <3>9, <2>6, <1>8 DEF AsPlanned
  <2> QED
    BY <2>7, <2>8, <1>11
<1> QED
  BY <1>10, <1>11

\* A request that has returned leaves a plan.
LEMMA PlanKept ==
    ASSUME NEW a, NEW l, NEW s, Ordered(l, s), Plan(a, l, s), ~Mounting(s), s # <<>>, s[1].do \in RequestDo,
           s[1].do \notin {"rename", "restart"}, Done, NEW r, Kept(s, r)
    PROVE  Plan(a, l, r) /\ ~Mounting(r)
<1>1. /\ s \in Seq(Items) /\ Len(s) \in Nat /\ DOMAIN s = 1 .. Len(s) /\ 1 \in DOMAIN s
      /\ \A k \in DOMAIN s : Valid(l, s[k]) /\ s[k] \in Items
  BY OrderedIs
<1>2. s[1].do \notin {"manage", "connect", "reset", "enumerate"} /\ s[1].device # Nobody
  <2>1. s[1].do \notin {"manage", "connect", "reset", "enumerate"}
    BY DosDistinct
  <2> QED
    BY <2>1, <1>1 DEF Valid
<1>3. CASE r = s
  BY <1>3
<1>4. CASE s[1].do = "test" /\ r = <<[s[1] EXCEPT !.n = @ + 1]>> \o Tail(s)
  <2> DEFINE i == [s[1] EXCEPT !.n = @ + 1]  x == <<i>>
  <2>1. s[1] \in Items
    BY <1>1
  <2>2. i \in Items /\ i.do = "test" /\ i.device = s[1].device /\ i.to = s[1].to
    BY <2>1, <1>4 DEF Items
  <2> HIDE DEF i
  <2>3. Plan(a, l, <<i>> \o Tail(s))
    BY <2>2, <1>1, <1>4, PlanTested
  <2>4. x \in Seq(Items)
    BY <2>2
  <2> HIDE DEF x
  <2>5. ~Mounting(x \o Tail(s))
    BY <2>4, <1>2, ManageStays
  <2> QED
    BY <2>3, <2>5, <1>4 DEF x, i
<1>5. ASSUME NEW c \in 1 .. Len(s), \A j \in 1 .. c : s[j].device = s[1].device,
             c = 1 \/ s[1].do = "test", r = After(s, c)
      PROVE  Plan(a, l, r) /\ ~Mounting(r)
  <2>1. \A j \in 1 .. c : j \in DOMAIN s /\ Valid(l, s[j])
    BY <1>1
  <2>2. \A j \in 1 .. c : s[j].do # "manage"
    BY <2>1, <1>2, <1>5 DEF Valid
  <2>3. ~Mounting(r)
    BY <2>2, <1>5, ManageAfter
  <2>4. CASE s[1].do = "test"
    <3>1. ~Zero(s[1]) /\ bus.kind[s[1].device] = "disk"
      BY <2>4, <1>1, <1>2 DEF Valid, Zero
    <3>2. \A k \in DOMAIN s : ~Zero(s[k])
      BY <3>1, <1>1, PlanFirst
    <3>3. ASSUME NEW j \in 1 .. c PROVE s[j].do \notin {"rename", "restart", "enumerate"}
      <4>1. s[j].device = s[1].device /\ Valid(l, s[j]) /\ ~Zero(s[j])
        BY <2>1, <3>2, <1>5
      <4>2. s[j].do # "rename"
        BY <4>1, <1>2 DEF Valid, Zero
      <4>3. s[j].do \notin {"restart", "enumerate"}
        BY <4>1, <3>1, <1>2 DEF Valid
      <4> QED
        BY <4>2, <4>3
    <3>4. Plan(a, l, After(s, c))
      BY <3>1, <3>3, <1>1, PlanAfter
    <3> QED
      BY <3>4, <2>3, <1>5
  <2>5. CASE s[1].do # "test"
    <3>1. c = 1
      BY <2>5, <1>5
    <3>2. \A j \in 1 .. c : s[j].do \notin {"rename", "restart", "enumerate"}
      BY <3>1, <1>2
    <3>3. Plan(a, l, After(s, c))
      BY <3>1, <3>2, <1>1, PlanAfter
    <3> QED
      BY <3>3, <2>3, <1>5
  <2> QED
    BY <2>4, <2>5
<1> QED
  BY <1>3, <1>4, <1>5 DEF Kept

LEMMA EndPlanned ==
    ASSUME Steady, Steady', AsPlanned, Calm, NEW t \in Thread, End(t)
    PROVE  AsPlanned'
<1>1. /\ todo[t] # <<>> /\ Requested(Head(todo[t])) /\ Returned(t)
      /\ phase[t] = "woken" /\ phase' = [phase EXCEPT ![t] = "out"]
      /\ UNCHANGED <<queue, address, changes, bus, list, volume, dead>>
  BY DEF End, Finish, controllerVars, deviceVars, busVars
<1>2. /\ Kept(todo[t], todo'[t]) /\ \A u \in Thread : u # t => todo'[u] = todo[u]
      /\ todo[t][1].do \in RequestDo /\ todo[t][1].device \in Device /\ phase \in [Thread -> Phases]
      /\ Boot \in Thread
  BY <1>1, ReturnedIs, RequestIs, ThreadsAssumption DEF Steady, UsbTypes
<1>3. Single => Active = {t} /\ Active' = {}
  <2>1. t \in Active
    BY <1>1 DEF Active
  <2>2. Single => Active = {t}
    BY <2>1 DEF Steady, Phased, Alone, Active
  <2> QED
    BY <2>2, <1>1, <1>2 DEF Active
<1>4. Unhalted'
  <2>1. Single' => Single
    BY <1>1, BusStays DEF Single
  <2> QED
    BY <2>1, <1>3 DEF Unhalted
<1>5. Placed'
  BY <1>1 DEF AsPlanned, Placed
<1>6. ~Connecting /\ ~Connecting'
  <2>1. t = Boot => ~Connecting /\ ~Connecting'
    <3>1. t = Boot => ~Connecting /\ Opened(todo'[Boot])
      BY EndOpened DEF Steady
    <3> QED
      BY <3>1, OpenedNot DEF Connecting
  <2>2. t # Boot => ~Connecting /\ ~Connecting'
    <3>1. t # Boot => todo'[Boot] = todo[Boot]
      BY <1>2
    <3>2. t # Boot => Mounting(todo[Boot])
      BY <1>1, BootAlone, ThreadsAssumption DEF Steady
    <3>3. t # Boot => ~Connecting
      BY <3>2, ConnectingIs DEF Steady
    <3> QED
      BY <3>1, <3>3 DEF Connecting
  <2> QED
    BY <2>1, <2>2
<1>7. Plugged' /\ Hushed'
  BY <1>1, <1>6 DEF AsPlanned, Plugged, Hushed
<1>8. CASE Mounting(todo[Boot])
  <2>1. Mounting(todo'[Boot])
    <3>1. CASE t = Boot
      BY <3>1, <1>1, <1>2, <1>8, OrderedKept DEF Steady, Stages
    <3>2. CASE t # Boot
      BY <3>2, <1>2, <1>8
    <3> QED
      BY <3>1, <3>2
  <2>2. Planned'
    BY <2>1 DEF Planned, Mounting
  <2>3. ASSUME NEW k \in DOMAIN todo'[t] PROVE Answers(address, todo'[t][k])
    <3> DEFINE s == todo[t]
    <3>1. /\ s \in Seq(Items) /\ 1 \in DOMAIN s /\ \A j \in DOMAIN s : Answers(address, s[j])
      <4>1. 1 \in DOMAIN s
        BY <1>1, RequestIs DEF Steady
      <4> QED
        BY <4>1, <1>8 DEF Steady, UsbTypes, AsPlanned, Fixed
    <3>2. s[1].do \in {"read", "reply"}
      <4>1. t = Boot => s[1].do \in MountDo
        BY <3>1, <1>8 DEF Mounting
      <4>2. t = Server => s[1].do \in {"read", "reply"}
        BY <3>1 DEF Steady, Stages, Serving
      <4>3. RequestDo \cap MountDo \subseteq {"read", "reply"}
        BY DosDistinct DEF MountDo
      <4> QED
        BY <4>1, <4>2, <4>3, <1>2, ThreadsAssumption
    <3>3. PICK c \in 1 .. Len(s) : todo'[t] = After(s, c)
      BY <3>2, <1>2 DEF Kept
    <3>4. k + c \in DOMAIN s /\ todo'[t][k] = s[k + c]
      <4>1. s \in Seq(Items) /\ c \in 1 .. Len(s) /\ k \in DOMAIN After(s, c)
        BY <3>1, <3>3, <2>3
      <4> HIDE DEF s
      <4>2. k + c \in DOMAIN s /\ After(s, c)[k] = s[k + c]
        BY <4>1, Back
      <4> QED
        BY <4>2, <3>3
    <3> QED
      BY <3>1, <3>4
  <2>4. \A u \in Thread : \A k \in DOMAIN todo'[u] : Answers(address, todo'[u][k])
    BY <2>3, <1>2, <1>8 DEF AsPlanned, Fixed
  <2>5. Fixed'
    BY <2>4, <1>1, <1>8 DEF AsPlanned, Fixed, Answers, Unfinished
  <2> QED
    BY <2>2, <2>5, <1>4, <1>5, <1>7 DEF AsPlanned
<1>9. CASE ~Mounting(todo[Boot])
  <2> DEFINE s == todo[Boot]
  <2>1. t = Boot /\ Single /\ Ordered(list, s) /\ s # <<>> /\ s[1].do \in RequestDo
    <3>1. Boot \in Active /\ t \in Active /\ Single
      BY <1>1, <1>6, <1>9, BootAlone DEF Steady, Active
    <3>2. t = Boot
      BY <3>1, <1>3
    <3> QED
      BY <3>1, <3>2, <1>1, <1>2 DEF Steady, Stages
  <2>2. queue.left = 0 /\ ~queue.halted
    <3>1. Woken /\ Counts
      BY <1>1, GivenIs DEF Woken, Steady
    <3>2. Given # 0
      BY <3>1 DEF Counts
    <3>3. Due # 0
      BY <3>2, <2>1 DEF Steady, Tokens, Calm
    <3>4. Signalled
      BY <3>3, <1>6 DEF Due
    <3>5. ~queue.halted
      BY <2>1, <1>3, <1>6 DEF AsPlanned, Unhalted
    <3> QED
      BY <3>4, <3>5 DEF Signalled
  <2>3. Plan(address, list, Remaining)
    BY <1>6, <1>9 DEF AsPlanned, Planned
  <2>4. Remaining' = todo'[Boot]
    <3>1. phase'[Boot] = "out"
      BY <2>1, <1>1, <1>2
    <3> QED
      BY <3>1 DEF Remaining
  <2>5. CASE s[1].do \in {"rename", "restart"}
    <3>1. todo'[Boot] = After(s, 1)
      BY <2>1, <2>2, <2>5, <1>2 DEF Kept, Done
    <3>2. Remaining = After(s, 1)
      BY <2>1, <2>2, <2>5, <1>1 DEF Remaining
    <3>3. Planned'
      BY <3>1, <3>2, <2>3, <2>4, <1>1, PlanStays DEF Planned
    <3>4. ~Mounting(After(s, 1))
      <4>1. 1 \in 1 .. Len(s) /\ \A j \in 1 .. 1 : s[j].do # "manage"
        BY <2>1, <2>5, OrderedIs
      <4> QED
        BY <4>1, <2>1, <1>9, ManageAfter
    <3>5. Fixed'
      BY <3>1, <3>4 DEF Fixed, Mounting
    <3> QED
      BY <3>3, <3>5, <1>4, <1>5, <1>7 DEF AsPlanned
  <2>6. CASE s[1].do \notin {"rename", "restart"}
    <3>1. Remaining = s
      BY <2>6 DEF Remaining
    <3>2. Done /\ Kept(s, todo'[Boot])
      BY <2>1, <2>2, <1>2 DEF Done
    <3>3. Plan(address, list, todo'[Boot]) /\ ~Mounting(todo'[Boot])
      BY <3>1, <3>2, <2>1, <2>3, <2>6, <1>9, PlanKept
    <3>4. Planned'
      BY <3>3, <2>4, <1>1, PlanStays DEF Planned
    <3>5. Fixed'
      BY <3>3 DEF Fixed, Mounting
    <3> QED
      BY <3>4, <3>5, <1>4, <1>5, <1>7 DEF AsPlanned
  <2> QED
    BY <2>5, <2>6
<1> QED
  BY <1>8, <1>9

LEMMA AddressedNext ==
    ASSUME Steady, Steady', Addressed, [Next]_vars
    PROVE  Addressed'
<1> SUFFICES ASSUME Calm' PROVE AsPlanned'
  BY DEF Addressed
<1>1. Calm /\ bus' = bus /\ stalls' = stalls /\ AsPlanned
  BY CalmStays DEF Steady, Addressed
<1>2. ASSUME NEW t \in Thread, Transact(t) PROVE AsPlanned'
  BY <1>1, <1>2, BeginPlanned, GoPlanned, EndPlanned DEF Transact
<1>3. ASSUME BootStep PROVE AsPlanned'
  BY <1>1, <1>3, BusResetPlanned, ResetOverPlanned, EnumeratePlanned, UpPlanned, DeviceManagerPlanned,
     InitialisePlanned, FormatPlanned, GoodPlanned DEF BootStep
<1>4. ASSUME Hardware PROVE AsPlanned'
  BY <1>1, <1>4, HaltPlanned, PortChangePlanned DEF Hardware
<1>5. ASSUME UNCHANGED vars PROVE AsPlanned'
  <2>1. Active' = Active
    BY <1>5 DEF vars, transferVars, semaphoreVars, Active
  <2> QED
    BY <2>1, <1>1, <1>5, PlannedStays DEF vars, transferVars, deviceVars, controllerVars, busVars
<1> QED
  BY <1>1, <1>2, <1>3, <1>4, <1>5, ServePlanned, PerformPlanned, InterruptPlanned DEF Next

\* While nothing goes wrong, what is left to do and the addresses of the devices
\* agree: enumerate() resets a port only when every device before it has been
\* given its address.
THEOREM SpecAddressed == Spec => [](Steady /\ Addressed)
<1>1. Spec => []Steady
  BY SpecPhased DEF Steady
<1>2. Init => Addressed
  BY AddressedInit
<1>3. Steady /\ Steady' /\ Addressed /\ [Next]_vars => Addressed'
  BY AddressedNext
<1> QED
  BY <1>1, <1>2, <1>3, PTL DEF Spec

\* A request reaches the device it is for and no other, however the hubs are
\* nested: Listeners has one member while no device refuses, the port does not
\* change and no device is given up before set_address().
THEOREM SpecOneListener == Spec => []OneListener
<1>1. Steady /\ Addressed => OneListener
  BY AddressedListens DEF Steady
<1> QED
  BY <1>1, SpecAddressed, PTL

-----------------------------------------------------------------------------
(* Data toggles *)

\* The host keeps the toggle of e of d in a bit that no later save of a request
\* overwrites.
Tracked(d, e) == e = "out" => Apart(d)

\* The descriptors have the toggles of the device; the host's record waits for
\* those that the request saves.
Pending ==
    LET i == queue.request IN
    /\ i \in Items /\ i.device \in Device
    /\ \A e \in Endpoint : Tracked(i.device, e) => queue.dt[e] = expects[i.device][e]
    /\ \A d \in Device : \A e \in Endpoint :
          Tracked(d, e) /\ (d # i.device \/ e \notin Toggled(i.do)) => Recorded(d)[e] = expects[d][e]

Even == \A d \in Device : \A e \in Endpoint : Tracked(d, e) => Recorded(d)[e] = expects[d][e]

InStep ==
    Calm /\ OneDisk => IF Connecting \/ Active = {} THEN Even ELSE Pending

\* What Finish reads back.
LEMMA SavedIs ==
    ASSUME NEW i, NEW bits, NEW e \in Endpoint, Tracked(i.device, e), queue.dt[e] \in {0, 1}
    PROVE  GetToggle(Saved(bits, i), Number[i.device][e]) =
              IF e \in Toggled(i.do) THEN queue.dt[e] ELSE GetToggle(bits, Number[i.device][e])
<1> DEFINE d == i.device
<1>1. \A b : GetToggle(Save(b, d, e), Number[d][e]) = queue.dt[e]
  BY DEF Save, SetToggle, GetToggle
<1>2. \A b : \A f : Number[d][f] # Number[d][e] =>
         GetToggle(Save(b, d, f), Number[d][e]) = GetToggle(b, Number[d][e])
  BY DEF Save, SetToggle, GetToggle
<1>3. e = "out" => Number[d]["in"] # Number[d][e]
  BY DEF Tracked, Apart
<1> HIDE DEF d
<1>4. e \in {"in", "out"} /\ Endpoint = {"in", "out"}
  BY DEF Endpoint
<1>5. Saved(bits, i) = CASE Toggled(i.do) = Endpoint -> Save(Save(bits, d, "out"), d, "in")
                         [] Toggled(i.do) = {"in"}   -> Save(bits, d, "in")
                         [] OTHER -> bits
  BY DEF Saved, d
<1>6. GetToggle(Saved(bits, i), Number[d][e]) =
              IF e \in Toggled(i.do) THEN queue.dt[e] ELSE GetToggle(bits, Number[d][e])
  <2>1. CASE Toggled(i.do) = Endpoint
    BY <2>1, <1>1, <1>2, <1>3, <1>4, <1>5
  <2>2. CASE Toggled(i.do) = {"in"}
    <3>1. Toggled(i.do) # Endpoint
      BY <2>2, <1>4
    <3> QED
      BY <2>2, <3>1, <1>1, <1>2, <1>3, <1>4, <1>5
  <2>3. CASE Toggled(i.do) = {}
    BY <2>3, <1>4, <1>5
  <2> QED
    BY <2>1, <2>2, <2>3 DEF Toggled
<1> QED
  BY <1>6 DEF d

LEMMA BusyIs ==
    ASSUME Steady, Single, ~Connecting, NEW t \in Active
    PROVE  t \in Busy
<1>1. t \in Thread /\ todo[t] # <<>> /\ Head(todo[t]).do \in RequestDo \cup {"connect", "reset"} /\ phase[t] # "out"
  BY DEF Steady, Phased, Prepared, Active
<1>2. Head(todo[t]).do \notin {"connect", "reset"}
  <2>1. CASE t = Boot
    <3>1. Head(todo[Boot]) = todo[Boot][1]
      BY <1>1, <2>1, OrderedIs DEF Steady, Stages
    <3> QED
      BY <3>1, <1>1, <2>1, ConnectingIs DEF Steady
  <2>2. CASE t = Server
    <3>1. todo[Server] \in Seq(Items) /\ todo[Server] # <<>>
      BY <1>1, <2>2 DEF Steady, Stages, Serving
    <3>2. Head(todo[Server]) = todo[Server][1] /\ 1 \in DOMAIN todo[Server]
      BY <3>1, LenProperties, EmptySeq
    <3>3. todo[Server][1].do \in {"read", "reply"}
      BY <3>2 DEF Steady, Stages, Serving
    <3> QED
      BY <3>2, <3>3, <2>2
  <2> QED
    BY <2>1, <2>2, <1>1, ThreadsAssumption
<1>3. Requested(Head(todo[t]))
  BY <1>1, <1>2 DEF Requested, RequestDo
<1> QED
  BY <1>1, <1>3 DEF Busy

LEMMA InStepAgrees ==
    ASSUME Steady, InStep
    PROVE  TogglesAgree
<1> SUFFICES ASSUME Quiet, OneDisk, stalls = 0, AllAddressed, Busy = {} PROVE Even
  BY DEF TogglesAgree, Even, Tracked, Endpoint
<1>1. Connecting \/ Active = {}
  BY BusyIs DEF Single
<1> QED
  BY <1>1 DEF InStep, Calm

LEMMA InStepInit ==
    ASSUME Init
    PROVE  InStep
<1>1. toggle = [d \in Device |-> {}] /\ expects = [d \in Device |-> [e \in Endpoint |-> 0]] /\ todo[Boot] = Opening
  BY ThreadsAssumption DEF Init, TransferInit, Opening
<1>2. Even
  BY <1>1 DEF Even, Recorded, GetToggle
<1> QED
  BY <1>1, <1>2 DEF InStep, Connecting

LEMMA PendingStays ==
    ASSUME UNCHANGED <<queue, toggle, expects>>
    PROVE  (Pending' <=> Pending) /\ (Even' <=> Even)
  BY DEF Pending, Even, Tracked, Apart, Recorded

\* The descriptors are filled with the host's toggles ...
LEMMA InStepBegin ==
    ASSUME Steady, Steady', Calm, OneDisk, OneDisk', InStep, NEW t \in Thread, Begin(t)
    PROVE  InStep'
<1>1. /\ todo[t] # <<>> /\ Requested(Head(todo[t])) /\ phase[t] = "out"
      /\ phase' = [phase EXCEPT ![t] = "filled"]
      /\ queue'.request = Head(todo[t]) /\ queue'.dt = Recorded(Head(todo[t]).device)
      /\ UNCHANGED <<toggle, expects, todo>>
  BY DEF Begin, Fill, deviceVars
<1>2. Head(todo[t]) \in Items /\ Head(todo[t]).device \in Device
  BY <1>1, RequestIs DEF Steady
<1>3. t \in Active' /\ Active = {} /\ ~Connecting
  <2>1. phase \in [Thread -> Phases] /\ Alone' /\ (Connecting => phase[Boot] # "out") /\ Boot \in Thread
    BY ThreadsAssumption DEF Steady, UsbTypes, Phased, Single
  <2>2. t \in Active'
    BY <1>1, <2>1 DEF Active
  <2>3. Active = {}
    BY <1>1, <2>1, <2>2 DEF Active, Alone
  <2> QED
    BY <2>1, <2>2, <2>3 DEF Active
<1>4. Even
  BY <1>3 DEF InStep
<1>5. Pending'
  BY <1>1, <1>2, <1>4 DEF Pending, Even, Tracked, Apart, Recorded
<1>6. ~Connecting'
  BY <1>1, <1>3 DEF Connecting
<1> QED
  BY <1>3, <1>5, <1>6 DEF InStep

\* ... each descriptor flips the toggle at both ends, that of the device that the
\* request is for ...
LEMMA InStepPerform ==
    ASSUME Steady, Steady', Addressed, Calm, OneDisk, InStep, Perform
    PROVE  InStep'
<1> DEFINE i == queue.request
<1>1. PICK d \in Device, flipped \in SUBSET Endpoint : Transfer(d, flipped)
  BY DEF Perform
<1>2. UNCHANGED <<phase, todo, toggle>> /\ Working /\ d \in Listeners /\ flipped \subseteq EndpointNow
  BY <1>1 DEF Perform, Transfer, semaphoreVars
<1>3. /\ queue'.request = i /\ queue' \in Queues
      /\ expects' \in [Device -> Toggles]
      /\ \A e \in Endpoint : queue'.dt[e] = IF e \in flipped THEN 1 - queue.dt[e] ELSE queue.dt[e]
      /\ \A e \in Endpoint : expects'[d][e] = IF e \in flipped THEN 1 - expects[d][e] ELSE expects[d][e]
      /\ \A c \in Device : c # d => expects'[c] = expects[c]
  BY <1>1, TransferIs, TypesSplit DEF Steady
<1>4. Unfinished
  BY <1>2 DEF Working, Unfinished
<1>5. ~Connecting /\ i \in Items /\ i.device \in Device /\ d = i.device
  BY <1>2, <1>4, Heard DEF Steady
<1>6. Active # {} /\ Active' = Active /\ ~Connecting'
  <2>1. Active # {}
    BY <1>4 DEF Steady, Tokens, Calm, Single
  <2> QED
    BY <2>1, <1>2, <1>5 DEF Active, Connecting
<1>7. Pending
  BY <1>5, <1>6 DEF InStep
<1>8. \A e \in Endpoint : Tracked(d, e) => queue'.dt[e] = expects'[d][e]
  BY <1>3, <1>5, <1>7 DEF Pending
<1>9. ASSUME NEW c \in Device, NEW e \in Endpoint, Tracked(c, e), c # d \/ e \notin Toggled(i.do)
      PROVE  Recorded(c)[e] = expects'[c][e]
  <2>1. Recorded(c)[e] = expects[c][e]
    BY <1>5, <1>7, <1>9 DEF Pending
  <2>2. CASE c # d
    BY <2>1, <2>2, <1>3
  <2>3. CASE c = d
    <3>1. e \notin flipped
      BY <2>3, <1>2, <1>9 DEF EndpointNow
    <3> QED
      BY <3>1, <2>1, <2>3, <1>3
  <2> QED
    BY <2>2, <2>3
<1>10. Pending'
  <2>1. queue'.request = i /\ i \in Items /\ i.device \in Device /\ d = i.device /\ toggle' = toggle
    BY <1>2, <1>3, <1>5
  <2>2. \A c : Recorded(c)' = Recorded(c) /\ \A e : Tracked(c, e)' <=> Tracked(c, e)
    BY <2>1 DEF Recorded, Tracked, Apart
  <2> HIDE DEF i
  <2> QED
    BY <2>1, <2>2, <1>8, <1>9 DEF Pending
<1> QED
  BY <1>6, <1>10 DEF InStep

\* ... and what has flipped is read back.
LEMMA InStepEnd ==
    ASSUME Steady, Steady', Calm, OneDisk, InStep, NEW t \in Thread, End(t)
    PROVE  InStep'
<1> DEFINE i == Head(todo[t])
<1>1. /\ todo[t] # <<>> /\ Requested(i) /\ phase[t] = "woken"
      /\ phase' = [phase EXCEPT ![t] = "out"]
      /\ toggle' = [toggle EXCEPT ![i.device] = Saved(toggle[i.device], i)]
      /\ expects' = expects
  BY DEF End, Finish, deviceVars
<1>2. phase \in [Thread -> Phases] /\ toggle \in [Device -> Bits] /\ queue.dt \in Toggles
  BY DEF Steady, UsbTypes, Queues
<1>3. Single /\ t \in Active /\ t \in Busy
  BY <1>1 DEF Single, Active, Busy
<1>4. queue.request = i /\ Active = {t} /\ Active' = {}
  <2>1. Filled /\ Alone
    BY <1>3 DEF Steady, Phased
  <2>2. Active = {t} /\ queue.request = i
    BY <2>1, <1>3 DEF Filled, Alone
  <2>3. Active' = {}
    BY <2>2, <1>1, <1>2 DEF Active
  <2> QED
    BY <2>2, <2>3
<1>5. ~Connecting
  <2>1. t = Boot => ~Connecting
    BY EndOpened DEF Steady
  <2>2. t # Boot => Boot \notin Active
    BY <1>4
  <2>3. Connecting => Boot \in Active
    BY <1>3, ThreadsAssumption DEF Steady, Phased, Active
  <2> QED
    BY <2>1, <2>2, <2>3
<1>6. Pending
  BY <1>3, <1>4, <1>5 DEF InStep
<1>7. ASSUME NEW c \in Device, NEW e \in Endpoint, Tracked(c, e)
      PROVE  GetToggle(toggle'[c], Number[c][e]) = expects'[c][e]
  <2>1. /\ i.device \in Device /\ (c = i.device => queue.dt[e] = expects[c][e])
        /\ (c # i.device \/ e \notin Toggled(i.do) => GetToggle(toggle[c], Number[c][e]) = expects[c][e])
    BY <1>4, <1>6, <1>7 DEF Pending, Recorded
  <2> HIDE DEF i
  <2>2. CASE c # i.device
    BY <2>1, <2>2, <1>1, <1>2
  <2>3. CASE c = i.device
    <3>1. queue.dt[e] \in {0, 1} /\ toggle'[c] = Saved(toggle[c], i)
      BY <2>1, <2>3, <1>1, <1>2 DEF Toggles
    <3>2. GetToggle(toggle'[c], Number[c][e]) =
             IF e \in Toggled(i.do) THEN queue.dt[e] ELSE GetToggle(toggle[c], Number[c][e])
      BY <3>1, <2>3, <1>7, SavedIs
    <3> QED
      BY <3>2, <2>1, <2>3, <1>1
  <2> QED
    BY <2>2, <2>3
<1>8. Even'
  BY <1>7 DEF Even, Tracked, Apart, Recorded
<1> QED
  BY <1>4, <1>8 DEF InStep

LEMMA InStepNext ==
    ASSUME Steady, Steady', Addressed, InStep, [Next]_vars
    PROVE  InStep'
<1> SUFFICES ASSUME Calm', OneDisk' PROVE InStep'
  BY DEF InStep
<1>1. Calm /\ bus' = bus /\ stalls' = stalls /\ OneDisk /\ AsPlanned /\ Single
  BY CalmStays, BusStays DEF Steady, Addressed, Single
\* Steps that transfer nothing.
<1>2. ASSUME UNCHANGED <<queue, toggle, expects>>, Active' = Active, Connecting' <=> Connecting PROVE InStep'
  BY <1>1, <1>2, PendingStays DEF InStep
<1>3. phase \in [Thread -> Phases] /\ Boot \in Thread /\ Server \in Thread /\ Boot # Server
      /\ todo \in [Thread -> Seq(Items)]
  BY ThreadsAssumption DEF Steady, UsbTypes
<1>4. CASE BusReset
  <2>1. /\ todo[Boot] # <<>> /\ todo[Boot][1].do = "connect" /\ phase[Boot] = "woken" /\ Then(Boot, <<>>)
        /\ phase' = [phase EXCEPT ![Boot] = "started"] /\ UNCHANGED <<queue, toggle, expects>>
    BY <1>4, AtIs DEF BusReset, Steady
  <2>2. Connecting /\ Connecting'
    <3>1. todo[Boot] = Opening /\ todo'[Boot] = Tail(Opening)
      BY <2>1, <1>3, ConnectingIs, ThenIs, OpeningIs DEF Steady
    <3> QED
      BY <3>1 DEF Connecting
  <2>3. Active' = Active
    BY <2>1, <1>3 DEF Active
  <2> QED
    BY <2>1, <2>2, <2>3, <1>2
<1>5. CASE ResetOver
  <2>1. Even'
    <3>1. Connecting /\ UNCHANGED <<queue, toggle, expects>>
      BY <1>5, AtIs, ConnectingIs DEF ResetOver, deviceVars, Steady
    <3> QED
      BY <3>1, <1>1, PendingStays DEF InStep
  <2>2. Active' = {}
    <3>1. phase[Boot] = "woken" /\ phase' = [phase EXCEPT ![Boot] = "out"]
      BY <1>5 DEF ResetOver
    <3>2. Alone /\ Boot \in Active
      BY <3>1, <1>1, <1>3 DEF Steady, Phased, Active
    <3> QED
      BY <3>1, <3>2, <1>3 DEF Alone, Active
  <2> QED
    BY <2>1, <2>2 DEF InStep
<1>6. CASE Enumerate \/ Up \/ DeviceManager \/ Initialise \/ Format \/ Good
  <2>1. ~Connecting /\ ~Connecting'
    <3>1. ~Connecting /\ Opened(todo'[Boot])
      BY <1>6, BootOpened DEF Steady
    <3> QED
      BY <3>1, OpenedNot DEF Connecting
  <2>2. UNCHANGED <<queue, toggle, expects, phase>>
    BY <1>6 DEF Enumerate, Up, DeviceManager, Initialise, Format, Good, transferVars, semaphoreVars, deviceVars
  <2>3. Active' = Active
    BY <2>2 DEF Active
  <2> QED
    BY <2>1, <2>2, <2>3, <1>2
<1>7. CASE Serve
  <2>1. UNCHANGED <<queue, toggle, expects, phase>> /\ todo'[Boot] = todo[Boot]
    BY <1>3, <1>7 DEF Serve, transferVars, semaphoreVars, deviceVars
  <2>2. Active' = Active /\ (Connecting' <=> Connecting)
    BY <2>1 DEF Active, Connecting
  <2> QED
    BY <2>1, <2>2, <1>2
<1>8. ASSUME NEW t \in Thread, Go(t) PROVE InStep'
  <2>1. /\ phase[t] \in {"filled", "started"}
        /\ \E p \in {"started", "woken", "asleep"} : phase' = [phase EXCEPT ![t] = p]
        /\ UNCHANGED <<queue, toggle, expects, todo>>
    BY <1>8 DEF Go, Start, SemaphoreWait, deviceVars
  <2>2. Active' = Active /\ (Connecting' <=> Connecting)
    BY <2>1, <1>3 DEF Active, Connecting
  <2> QED
    BY <2>1, <2>2, <1>2
<1>9. CASE Interrupt
  <2>1. UNCHANGED <<queue, toggle, expects, todo>> /\ (Signal \/ UNCHANGED semaphoreVars)
    BY <1>9 DEF Interrupt, Acknowledge, AcknowledgePort, deviceVars
  <2>2. Active' = Active
    <3>1. Sleeping /\ UsbTypes
      BY <1>1 DEF Steady, Phased
    <3>2. CASE phase' = phase
      BY <3>2 DEF Active
    <3>3. ASSUME NEW t \in Active, phase[t] = "asleep", phase' = [phase EXCEPT ![t] = "woken"]
          PROVE  Active' = Active
      BY <1>3, <3>3 DEF Active
    <3> QED
      BY <2>1, <3>1, <3>2, <3>3, SignalIs DEF semaphoreVars
  <2>3. Connecting' <=> Connecting
    BY <2>1 DEF Connecting
  <2> QED
    BY <2>1, <2>2, <2>3, <1>2
<1>10. ASSUME UNCHANGED <<queue, toggle, expects, phase, todo>> PROVE InStep'
  BY <1>2, <1>10 DEF Active, Connecting
<1>11. CASE Hardware
  <2>1. ~Halt
    BY <1>1, HaltPlanned
  <2>2. UNCHANGED <<queue, toggle, expects, phase, todo>>
    BY <2>1, <1>11 DEF Hardware, PortChange, semaphoreVars
  <2> QED
    BY <2>2, <1>10
<1>12. CASE UNCHANGED vars
  BY <1>10, <1>12 DEF vars, transferVars, semaphoreVars, deviceVars
<1>13. ASSUME NEW t \in Thread, Transact(t) PROVE InStep'
  BY <1>1, <1>8, <1>13, InStepBegin, InStepEnd DEF Transact
<1>14. CASE Perform
  BY <1>1, <1>14, InStepPerform
<1> QED
  BY <1>4, <1>5, <1>6, <1>7, <1>9, <1>11, <1>12, <1>13, <1>14 DEF Next, BootStep

\* Between transactions the host's record of each data toggle is the device's:
\* saving those of the endpoints that a request uses loses none, but that of an
\* OUT endpoint which has its number from the IN endpoint.
THEOREM SpecTogglesAgree == Spec => []TogglesAgree
<1>1. Spec => [](Steady /\ Addressed)
  BY SpecAddressed
<1>2. Init => InStep
  BY InStepInit
<1>3. Steady /\ Steady' /\ Addressed /\ InStep /\ [Next]_vars => InStep'
  BY InStepNext
<1>4. Steady /\ InStep => TogglesAgree
  BY InStepAgrees
<1> QED
  BY <1>1, <1>2, <1>3, <1>4, PTL DEF Spec

=============================================================================
