--------------------------- MODULE DiskServerProofs ---------------------------
(***************************************************************************)
(* Proofs about DiskServer.tla, for any loaders, files, blocks, buffers    *)
(* and sizes of reads: what fread() delivers and where it leaves the file, *)
(* whatever other loaders do meanwhile, and when the kernel follows NULL.  *)
(*                                                                         *)
(* A message is in line, or in the server's hands, or nowhere.  Of a read  *)
(* that is under way the server has copied a number of whole pieces, and   *)
(* as long as none of them was split each began where the one before had   *)
(* ended in the file.                                                      *)
(***************************************************************************)
EXTENDS DiskServer, SequenceTheorems, TLAPS

-----------------------------------------------------------------------------
(* What one read() copies, and where it leaves the file *)

\* Quotient and remainder.
LEMMA Division ==
    ASSUME NEW n \in Nat, NEW d \in Nat \ {0}
    PROVE  /\ n \div d \in Nat /\ n % d \in 0 .. d - 1
           /\ n = (n \div d) * d + (n % d)
           /\ n = 0 => n \div d = 0 /\ n % d = 0
  OBVIOUS

\* Whole blocks, one more at a time.
LEMMA NextBlock ==
    ASSUME NEW b \in Nat, NEW w \in Nat, NEW d \in Nat
    PROVE  /\ (b + 1) * d = b * d + d
           /\ (b + 1 + w) * d = b * d + d + w * d
           /\ b * d \in Nat /\ w * d \in Nat
  OBVIOUS

\* A read of n bytes at o takes f of them to the end of o's block, at most;
\* if more are wanted, the next block is where the rest begins.
LEMMA PartsAddUp ==
    ASSUME NEW o \in Nat, NEW n \in Nat
    PROVE  /\ FirstPart(o, n) \in Nat /\ WholeBlocks(o, n) \in Nat /\ LastPart(o, n) \in Nat
           /\ n = FirstPart(o, n) + WholeBlocks(o, n) * BlockSize + LastPart(o, n)
           /\ WholeBlocks(o, n) * BlockSize \in Nat
           /\ o = (o \div BlockSize) * BlockSize + (o % BlockSize)
           /\ o \div BlockSize \in Nat /\ o % BlockSize \in Nat
           /\ WholeBlocks(o, n) * BlockSize + LastPart(o, n) > 0 =>
                 ((o \div BlockSize) + 1) * BlockSize = o + FirstPart(o, n)
<1> DEFINE B == BlockSize  f == FirstPart(o, n)
<1>1. B \in Nat \ {0}
  BY FileAssumption
<1>2. /\ o \div B \in Nat /\ o % B \in 0 .. B - 1
      /\ o = (o \div B) * B + (o % B)
  BY <1>1, Division
<1>3. f \in Nat /\ f <= n /\ (f < n => f = B - (o % B))
  BY <1>1, <1>2 DEF FirstPart, Lesser
<1>4. /\ WholeBlocks(o, n) \in Nat /\ LastPart(o, n) \in Nat
      /\ n - f = WholeBlocks(o, n) * B + LastPart(o, n)
      /\ n - f = 0 => WholeBlocks(o, n) = 0 /\ LastPart(o, n) = 0
  <2> DEFINE m == n - f
  <2>1. m \in Nat
    BY <1>3
  <2>2. WholeBlocks(o, n) = m \div B /\ LastPart(o, n) = m % B
    BY DEF WholeBlocks, LastPart
  <2> HIDE DEF m
  <2>3. /\ m \div B \in Nat /\ m % B \in 0 .. B - 1 /\ m = (m \div B) * B + (m % B)
        /\ m = 0 => m \div B = 0 /\ m % B = 0
    BY <2>1, <1>1, Division
  <2>4. m % B \in Nat
    BY <2>3, <1>1
  <2> QED
    BY <2>2, <2>3, <2>4 DEF m
<1>5. /\ ((o \div B) + 1) * B = (o \div B) * B + B
      /\ (o \div B) * B \in Nat /\ WholeBlocks(o, n) * B \in Nat
  BY <1>1, <1>2, <1>4, NextBlock
<1>6. n - f > 0 => ((o \div B) + 1) * B = o + f
  BY <1>1, <1>2, <1>3, <1>5
<1> QED
  BY <1>2, <1>3, <1>4, <1>5, <1>6

\* s is the n positions from o on.
Run(s, o, n) ==
    s \in Seq(Int) /\ Len(s) = n /\ \A i \in 1 .. n : s[i] = o + i - 1

\* Two runs, the second going on where the first ends, are one.
LEMMA JoinRuns ==
    ASSUME NEW o \in Nat, NEW j \in Nat, NEW k \in Nat, NEW s, NEW t,
           Run(s, o, j), Run(t, o + j, k)
    PROVE  Run(s \o t, o, j + k)
<1>1. /\ s \o t \in Seq(Int) /\ Len(s \o t) = j + k
      /\ \A i \in 1 .. j + k : (s \o t)[i] = IF i <= j THEN s[i] ELSE t[i - j]
  BY ConcatProperties DEF Run
<1>2. ASSUME NEW i \in 1 .. j + k
      PROVE  (s \o t)[i] = o + i - 1
  <2>1. CASE i <= j
    BY <2>1, <1>1 DEF Run
  <2>2. CASE i > j
    <3>1. i - j \in 1 .. k
      BY <2>2
    <3>2. t[i - j] = o + j + (i - j) - 1
      BY <3>1 DEF Run
    <3>3. (s \o t)[i] = t[i - j]
      BY <2>2, <1>1
    <3>4. o + j + (i - j) - 1 = o + i - 1
      OBVIOUS
    <3> QED
      BY <3>2, <3>3, <3>4
  <2>3. i <= j \/ i > j
    OBVIOUS
  <2> QED
    BY <2>1, <2>2, <2>3, Zenon
<1> QED
  BY <1>1, <1>2 DEF Run

\* A run is all there is to a sequence.
LEMMA RunIsAll ==
    ASSUME NEW o \in Nat, NEW n \in Nat, NEW s, Run(s, o, n)
    PROVE  s = [i \in 1 .. n |-> o + i - 1]
<1>1. s = [i \in 1 .. n |-> s[i]]
  BY DEF Run
<1> QED
  BY <1>1 DEF Run

\* What read() copies are the bytes at o, one after the other, to the end of
\* the file at most, however blocks divide them (file_system.c:35-131).
THEOREM ReadReturnsTheFile ==
    ASSUME NEW o \in Nat, NEW wanted \in Nat
    PROVE  Read(o, wanted).data = Expected(o, wanted)
<1> DEFINE n == Within(o, wanted)
           B == BlockSize
           b == o \div B
           f == FirstPart(o, n)
           w == WholeBlocks(o, n)
           l == LastPart(o, n)
           s1 == Bytes(b, o % B, f)
           s2 == Bytes(b + 1, 0, w * B)
           s3 == Bytes(b + 1 + w, 0, l)
<1>1. B \in Nat \ {0} /\ FileSize \in Nat
  BY FileAssumption
<1>2. n \in Nat
  BY <1>1 DEF Within, Lesser
<1>3. /\ f \in Nat /\ w \in Nat /\ l \in Nat /\ n = f + w * B + l
      /\ w * B \in Nat /\ b \in Nat /\ o % B \in Nat /\ o = b * B + (o % B)
      /\ w * B + l > 0 => (b + 1) * B = o + f
  BY <1>2, PartsAddUp
<1>4. /\ (b + 1) * B = b * B + B
      /\ (b + 1 + w) * B = (b + 1) * B + w * B
      /\ b * B \in Nat /\ (b + 1) * B \in Nat
  BY <1>1, <1>3, NextBlock
<1> DEFINE p == w * B
<1> HIDE DEF n, b, f, w, l, p
<1>5. /\ p \in Nat /\ n = f + p + l
      /\ p + l > 0 => (b + 1) * B = o + f /\ (b + 1 + w) * B = o + f + p
  BY <1>3, <1>4 DEF p
<1>6. Run(s1, o, f)
  BY <1>3, <1>4 DEF Bytes, Run
<1>7. Run(s2, o + f, p)
  <2>1. s2 = [i \in 1 .. p |-> (b + 1) * B + i - 1]
    BY <1>3, <1>4 DEF Bytes, p
  <2>2. s2 \in Seq(Int) /\ Len(s2) = p
    BY <2>1, <1>4, <1>5
  <2> QED
    BY <2>1, <2>2, <1>3, <1>5 DEF Run
<1>8. Run(s3, o + (f + p), l)
  <2>1. s3 = [i \in 1 .. l |-> (b + 1 + w) * B + i - 1]
    BY <1>3, <1>4 DEF Bytes
  <2>2. s3 \in Seq(Int) /\ Len(s3) = l
    BY <2>1, <1>3, <1>4
  <2> QED
    BY <2>1, <2>2, <1>3, <1>5 DEF Run
<1>9. Run(s1 \o s2, o, f + p)
  BY <1>3, <1>5, <1>6, <1>7, JoinRuns
<1>10. Run((s1 \o s2) \o s3, o, n)
  <2>1. f + p \in Nat /\ n = (f + p) + l
    BY <1>3, <1>5
  <2>2. Run((s1 \o s2) \o s3, o, (f + p) + l)
    BY <2>1, <1>3, <1>8, <1>9, JoinRuns
  <2> QED
    BY <2>1, <2>2
<1>11. (s1 \o s2) \o s3 = [i \in 1 .. n |-> o + i - 1]
  BY <1>2, <1>10, RunIsAll
<1> QED
  BY <1>11 DEF Read, Expected, n, b, f, w, l, p

\* file_offset is right when a read ends with a block or inside the one it began
\* in; with a last part it is too far, by all that was copied before it.
THEOREM ReadMovesOffset ==
    ASSUME NEW o \in Nat, NEW wanted \in Nat
    PROVE  LET n == Within(o, wanted) IN
           /\ LastPart(o, n) = 0 => Read(o, wanted).offset = o + n
           /\ LastPart(o, n) # 0 => Read(o, wanted).offset = o + n + (n - LastPart(o, n))
<1> DEFINE n == Within(o, wanted)
<1>1. n \in Nat
  BY FileAssumption DEF Within, Lesser
<1>2. LastPart(o, n) \in Nat
  BY <1>1, PartsAddUp
<1> QED
  BY <1>1, <1>2 DEF Read, Counted

-----------------------------------------------------------------------------
(* The server and its clients *)

Places   == {"exec", "connect", "fopen", "fconnect", "joined", "called", "opened", "sought", "loaded"}
Commands == {"open", "missing", "read", "seek", "skip", "close"}

ServerTypeOK ==
    /\ freePipes \in 0 .. Pipes
    /\ bound \in BOOLEAN /\ joined \in BOOLEAN /\ wild \in BOOLEAN
    /\ calls \in [{Server} -> Seq(Client)]
    /\ serving \in [Client \cup {Server} -> SUBSET Client]
    /\ at \in [Client -> Places]
    /\ request \in [Client -> [command : Commands, location : Nat, bytes : 0 .. MaxLength, start : Nat]]
    /\ offset \in [Client -> Nat]
    /\ got \in [Client -> [1 .. MaxLength -> Int]]
    /\ server \in [at : {"create", "bind", "receive", "read", "reply"}, client : Client \cup {Server},
                   bytes : Nat, done : Nat, buffer : [1 .. Chunk -> Int]]

\* c's message is in line.
Queued(c) == \E i \in 1 .. Len(calls[Server]) : calls[Server][i] = c

\* The server is at it.
InHand(c) == server.at \in {"read", "reply"} /\ server.client = c

\* Who waits for an answer has one message, in line or in hand.
LineInv ==
    /\ \A i, j \in 1 .. Len(calls[Server]) : calls[Server][i] = calls[Server][j] => i = j
    /\ server.at \in {"read", "reply"} => server.client \in Client
    /\ \A c \in Client : ~(Queued(c) /\ InHand(c))
    /\ \A c \in Client : at[c] = "called" <=> Queued(c) \/ InHand(c)

\* The shared pipe has an other end once there is a loader beyond fopen()'s
\* first lines, unless another is just making it anew.
JoinedInv ==
    \/ joined
    \/ \E c \in Client : at[c] = "fconnect"
    \/ \A c \in Client : at[c] \in {"exec", "connect", "fopen"}

\* None of the pieces up to here was split.
Unsplit(c, done) == \A k \in Parts(c) : (k + 1) * Chunk <= done => ~Split(c, k)

\* The first n places of a destination hold d bytes of the file from s on, as
\* far as the file goes.
Holds(destination, s, d, n) ==
    \A i \in 1 .. n : i <= Within(s, d) => destination[i] = s + i - 1

\* So much of c's read is done.
Progress(c, done) ==
    /\ Unsplit(c, done) =>
          /\ offset[c] = request[c].start + Within(request[c].start, done)
          /\ Holds(got[c], request[c].start, done, MaxLength)
    /\ \A i \in 1 .. MaxLength : i > done => got[c][i] = Junk

\* ReadDelivers and PositionKept of one loader.
Delivers(c) == (\A k \in Parts(c) : k + 1 \in Parts(c) => ~Split(c, k)) => Delivered(c)
Keeps(c) ==
    (\A k \in Parts(c) : ~Split(c, k)) =>
       offset[c] = request[c].start + Within(request[c].start, request[c].bytes)

\* What loader c may rely on when it has been answered.
Asked(c) ==
    /\ at[c] = "opened" => request[c].command = "open" /\ offset[c] = 0
    /\ at[c] = "sought" =>
          /\ request[c].command # "open"
          /\ request[c].command = "seek" => offset[c] = request[c].location
    /\ at[c] = "loaded" => Delivers(c) /\ Keeps(c)

\* Where a read under way is, in pieces.
Reading(c) ==
    /\ request[c].command = "read"
    /\ server.done + server.bytes = request[c].bytes
    /\ \E k \in Nat : server.done = k * Chunk
    /\ server.done > 0 => server.bytes > 0
    /\ Progress(c, server.done)

\* What is true when its reply is due.
Served(c) ==
    /\ request[c].command = "open" => offset[c] = 0
    /\ request[c].command = "seek" => offset[c] = request[c].location
    /\ request[c].command = "read" => Delivers(c) /\ Keeps(c)

\* What is true while c waits.
Serves(c) ==
    /\ Queued(c) /\ request[c].command = "read" => Progress(c, 0)
    /\ InHand(c) /\ server.at = "read" => Reading(c)
    /\ InHand(c) /\ server.at = "reply" => Served(c)

ReadsInv == \A c \in Client : Asked(c) /\ Serves(c)

ServerInv == ServerTypeOK /\ LineInv /\ JoinedInv /\ ReadsInv /\ WildOnly

-----------------------------------------------------------------------------
(* Reading *)

\* The longest read.
LEMMA MaxLengthIs == MaxLength \in Nat /\ \A n \in Lengths : n \in 0 .. MaxLength
<1>1. \E n \in Lengths : \A m \in Lengths : m <= n
  BY ServerAssumption
<1>2. MaxLength \in Lengths /\ \A m \in Lengths : m <= MaxLength
  BY <1>1 DEF MaxLength
<1> QED
  BY <1>2, ServerAssumption

\* A read of nothing has no last part.
LEMMA NoLastPart == ASSUME NEW o \in Nat  PROVE LastPart(o, 0) = 0
<1>1. /\ FirstPart(o, 0) \in Nat /\ LastPart(o, 0) \in Nat
      /\ WholeBlocks(o, 0) * BlockSize \in Nat
      /\ 0 = FirstPart(o, 0) + WholeBlocks(o, 0) * BlockSize + LastPart(o, 0)
  BY PartsAddUp
<1>2. \A x, y, z \in Nat : 0 = x + y + z => z = 0
  OBVIOUS
<1> QED
  BY <1>1, <1>2

\* A read of m bytes at o, after d bytes from s on: what it leaves in a buffer,
\* and where it leaves the file unless it ends in a last part.
ReadsOn(s, d, m, o) ==
    /\ Len(Read(o, m).data) = Within(o, m)
    /\ \A i \in 1 .. m : d + i <= Within(s, d + m) =>
          i <= Within(o, m) /\ Read(o, m).data[i] = s + (d + i) - 1
    /\ \A i \in 1 .. Within(o, m) : Read(o, m).data[i] \in Nat
    /\ LastPart(s + d, Within(s + d, m)) = 0 => Read(o, m).offset = s + Within(s, d + m)

LEMMA ReadOn ==
    ASSUME NEW s \in Nat, NEW d \in Nat, NEW m \in Nat, NEW o, o = s + Within(s, d)
    PROVE  ReadsOn(s, d, m, o)
<1>1. /\ Within(s, d) \in Nat /\ Within(s, d) <= d /\ o \in Nat
      /\ Within(o, m) \in Nat /\ Within(o, m) <= m
      /\ Within(s, d + m) = Within(s, d) + Within(o, m)
      /\ Within(o, m) > 0 => Within(s, d) = d
      /\ Within(s, d) # d => Within(s + d, m) = 0 /\ Within(o, m) = 0
  BY FileAssumption DEF Within, Lesser
<1>2. Read(o, m).data = [i \in 1 .. Within(o, m) |-> o + i - 1]
  BY <1>1, ReadReturnsTheFile DEF Expected
<1>3. Len(Read(o, m).data) = Within(o, m)
  <2>1. \A n \in Nat : Len([i \in 1 .. n |-> o + i - 1]) = n
    OBVIOUS
  <2> QED
    BY <1>1, <1>2, <2>1, Zenon
<1>4. \A i \in 1 .. m : d + i <= Within(s, d + m) =>
         i <= Within(o, m) /\ Read(o, m).data[i] = s + (d + i) - 1
  <2> SUFFICES ASSUME NEW i \in 1 .. m, d + i <= Within(s, d + m)
               PROVE  i <= Within(o, m) /\ Read(o, m).data[i] = s + (d + i) - 1
    OBVIOUS
  <2>1. i <= Within(o, m)
    BY <1>1
  <2>2. Within(s, d) = d /\ i \in 1 .. Within(o, m)
    BY <1>1, <2>1
  <2>3. Read(o, m).data[i] = o + i - 1
    BY <1>2, <2>2
  <2> QED
    BY <2>1, <2>2, <2>3
<1>5. \A i \in 1 .. Within(o, m) : Read(o, m).data[i] \in Nat
  <2> SUFFICES ASSUME NEW i \in 1 .. Within(o, m)  PROVE Read(o, m).data[i] \in Nat
    OBVIOUS
  <2>1. Read(o, m).data[i] = o + i - 1
    BY <1>2
  <2> QED
    BY <1>1, <2>1
<1>6. ASSUME LastPart(s + d, Within(s + d, m)) = 0  PROVE Read(o, m).offset = s + Within(s, d + m)
  <2>1. LastPart(o, Within(o, m)) = 0
    <3>1. CASE Within(s, d) = d
      BY <1>6, <3>1
    <3>2. CASE Within(s, d) # d
      BY <1>1, <3>2, NoLastPart
    <3> QED
      BY <3>1, <3>2
  <2>2. Read(o, m).offset = o + Within(o, m)
    BY <1>1, <2>1, ReadMovesOffset
  <2> QED
    BY <1>1, <2>2
<1> QED
  BY <1>3, <1>4, <1>5, <1>6 DEF ReadsOn

\* The m bytes after the first d of a destination are what was read at o.
Copied(old, new, d, m, o, n) ==
    /\ \A i \in 1 .. n : i \notin d + 1 .. d + m => new[i] = old[i]
    /\ \A j \in 1 .. Within(o, m) : d + j \in 1 .. n => new[d + j] = Read(o, m).data[j]

\* A destination that holds d bytes of the file from s on, as far as the file
\* goes, holds d + m of them when the next m have been read and copied to it.
LEMMA ReadAfter ==
    ASSUME NEW s \in Nat, NEW d \in Nat, NEW m \in Nat, NEW o, o = s + Within(s, d),
           NEW n \in Nat, NEW old, NEW new,
           Holds(old, s, d, n),
           Copied(old, new, d, m, o, n)
    PROVE  Holds(new, s, d + m, n)
<1> SUFFICES ASSUME NEW i \in 1 .. n, i <= Within(s, d + m)
             PROVE  new[i] = s + i - 1
  BY DEF Holds
<1>0. \A j \in 1 .. m : d + j <= Within(s, d + m) =>
         j <= Within(o, m) /\ Read(o, m).data[j] = s + (d + j) - 1
  <2>1. ReadsOn(s, d, m, o)
    BY ReadOn
  <2> QED
    BY <2>1 DEF ReadsOn
<1>1. /\ i <= d => i <= Within(s, d)
      /\ Within(s, d + m) \in Nat /\ Within(s, d + m) <= d + m
      /\ Within(o, m) \in Nat
  BY FileAssumption DEF Within, Lesser
<1>2. CASE i <= d
  <2>1. i \notin d + 1 .. d + m /\ i <= Within(s, d)
    BY <1>1, <1>2
  <2> QED
    BY <2>1 DEF Holds, Copied
<1>3. CASE i > d
  <2> DEFINE j == i - d
  <2>1. j \in 1 .. m /\ d + j = i
    BY <1>1, <1>3
  <2> HIDE DEF j
  <2>2. j <= Within(o, m) /\ Read(o, m).data[j] = s + i - 1
    BY <1>0, <2>1
  <2>3. j \in 1 .. Within(o, m)
    BY <1>1, <2>1, <2>2
  <2> QED
    BY <2>1, <2>2, <2>3 DEF Copied
<1> QED
  BY <1>2, <1>3

\* file_offset stays a number.
LEMMA OffsetIs == ASSUME NEW o \in Nat, NEW m \in Nat  PROVE Read(o, m).offset \in Nat
<1>1. Within(o, m) \in Nat
  BY FileAssumption DEF Within, Lesser
<1>2. LastPart(o, Within(o, m)) \in Nat /\ LastPart(o, Within(o, m)) <= Within(o, m)
  <2> DEFINE n == Within(o, m)
  <2>1. n \in Nat
    BY <1>1
  <2> HIDE DEF n
  <2>2. /\ FirstPart(o, n) \in Nat /\ WholeBlocks(o, n) * BlockSize \in Nat /\ LastPart(o, n) \in Nat
        /\ n = FirstPart(o, n) + WholeBlocks(o, n) * BlockSize + LastPart(o, n)
    BY <2>1, PartsAddUp
  <2>3. \A x, y, z \in Nat : z <= x + y + z
    OBVIOUS
  <2>4. LastPart(o, n) <= FirstPart(o, n) + WholeBlocks(o, n) * BlockSize + LastPart(o, n)
    BY <2>2, <2>3
  <2> QED
    BY <2>2, <2>4 DEF n
<1> QED
  BY <1>1, <1>2, ReadMovesOffset

\* Products with the size of the buffer.
LEMMA Pieces ==
    ASSUME NEW k \in Nat
    PROVE  /\ k * Chunk \in Nat /\ k <= k * Chunk
           /\ (k + 1) * Chunk = k * Chunk + Chunk /\ (k + 1) * Chunk > 0
<1>1. Chunk \in Nat \ {0}
  BY ServerAssumption
<1>2. \A d \in Nat \ {0} : k * d \in Nat /\ k <= k * d /\ (k + 1) * d = k * d + d
  OBVIOUS
<1> QED
  BY <1>1, <1>2

-----------------------------------------------------------------------------
(* What a step does *)

Asking == {"joined", "opened", "sought", "loaded"}

\* The steps of loaders that make and join pipes ..
Goes(c) ==
    /\ UNCHANGED <<lineVars, request, fileVars, server, wild>>
    /\ at[c] \in {"exec", "connect", "fopen", "fconnect"}
    /\ \E to \in {"connect", "fopen", "fconnect", "joined"} :
          /\ at' = [at EXCEPT ![c] = to]
          /\ \/ joined' = TRUE
             \/ to = "fconnect"
             \/ joined' = joined /\ at[c] # "fconnect" /\ to # "joined"

\* .. and those that send a message.
Sends(c, message) ==
    /\ joined /\ Line!Call(c, Server)
    /\ at' = [at EXCEPT ![c] = "called"]
    /\ request' = [request EXCEPT ![c] = message]
    /\ got' = [got EXCEPT ![c] = Nothing(MaxLength)]
    /\ UNCHANGED <<freePipes, bound, joined, offset, server, wild>>

\* What a loader may send.
Asks(c) ==
    \E command \in Commands, location \in Nat, bytes \in 0 .. MaxLength :
       /\ command = "read" => at[c] \in {"opened", "sought"}
       /\ Sends(c, Message(command, location, bytes, c))

\* The first steps of the server.
Prepares ==
    /\ server.at \in {"create", "bind"}
    /\ \E to \in {"bind", "receive"} : server' = [server EXCEPT !.at = to]
    /\ UNCHANGED <<lineVars, joined, loaderVars, fileVars, wild>>

FollowsNull ==
    /\ GoWild
    /\ freePipes = 0 \/ (~joined /\ \E c \in Client : at[c] \in Asking)

LEMMA Steps ==
    ASSUME Next
    PROVE  /\ ~wild
           /\ \/ FollowsNull \/ Prepares \/ Receive \/ ReadChunk \/ ReadLast \/ Reply
              \/ \E c \in Client : Goes(c) \/ (at[c] \in Asking /\ Asks(c))
<1> DEFINE Goal == \/ FollowsNull \/ Prepares \/ Receive \/ ReadChunk \/ ReadLast \/ Reply
                   \/ \E c \in Client : Goes(c) \/ (at[c] \in Asking /\ Asks(c))
<1>1. ASSUME Serve PROVE Goal
  <2>1. ASSUME ServerCreate PROVE Goal
    BY <2>1 DEF ServerCreate, PoolDry, FollowsNull, Prepares
  <2>2. ASSUME ServerBind PROVE Goal
    BY <2>2 DEF ServerBind, Prepares
  <2> QED
    BY <1>1, <2>1, <2>2 DEF Serve
<1>2. ASSUME NEW c \in Client, Load(c) PROVE Goal
  <2>1. ASSUME NEW command \in Commands, NEW location \in Nat, NEW bytes \in 0 .. MaxLength,
               at[c] \in Asking, command = "read" => at[c] \in {"opened", "sought"},
               Send(c, Message(command, location, bytes, c))
        PROVE  Goal
    <3>1. ASSUME ~joined, GoWild PROVE Goal
      BY <3>1, <2>1 DEF FollowsNull
    <3>2. ASSUME Sends(c, Message(command, location, bytes, c)) PROVE Goal
      BY <3>2, <2>1 DEF Asks
    <3> QED
      BY <2>1, <3>1, <3>2 DEF Send, Sends
  <2>2. ASSUME ExecCreate(c) PROVE Goal
    <3>1. CASE PoolDry
      BY <3>1 DEF PoolDry, FollowsNull
    <3>2. ASSUME ~PoolDry PROVE Goes(c)
      BY <2>2, <3>2 DEF ExecCreate, Go, Goes
    <3> QED
      BY <3>1, <3>2
  <2>3. ASSUME ExecConnect(c) PROVE Goes(c)
    BY <2>3 DEF ExecConnect, Go, Goes
  <2>4. ASSUME FinitialiseCreate(c) PROVE Goal
    <3>1. CASE PoolDry
      BY <3>1 DEF PoolDry, FollowsNull
    <3>2. ASSUME ~PoolDry PROVE Goes(c)
      BY <2>4, <3>2 DEF FinitialiseCreate, Go, Goes
    <3> QED
      BY <3>1, <3>2
  <2>5. ASSUME FinitialiseConnect(c) PROVE Goes(c)
    BY <2>5 DEF FinitialiseConnect, JoinShared, Go, Goes
  <2>6. ASSUME Fopen(c) PROVE Goal
    <3>1. PICK command \in {"open", "missing"} : Send(c, Message(command, 0, 0, c))
      BY <2>6 DEF Fopen
    <3>2. at[c] \in Asking /\ command \in Commands /\ command # "read" /\ 0 \in Nat /\ 0 \in 0 .. MaxLength
      BY <2>6, MaxLengthIs DEF Fopen, Asking, Commands
    <3> QED
      BY <3>1, <3>2, <2>1
  <2>7. ASSUME Fread(c) PROVE Goal
    <3>1. PICK n \in Lengths : Send(c, Message("read", 0, n, c))
      BY <2>7 DEF Fread
    <3>2. at[c] \in Asking /\ at[c] \in {"opened", "sought"} /\ "read" \in Commands /\ 0 \in Nat /\ n \in 0 .. MaxLength
      BY <2>7, MaxLengthIs DEF Fread, Asking, Commands
    <3> QED
      BY <3>1, <3>2, <2>1
  <2>8. ASSUME Fseek(c) PROVE Goal
    <3>1. PICK o \in Offsets, command \in {"seek", "skip"} : Send(c, Message(command, o, 0, c))
      BY <2>8 DEF Fseek
    <3>2. at[c] \in Asking /\ command \in Commands /\ command # "read" /\ o \in Nat /\ 0 \in 0 .. MaxLength
      BY <2>8, MaxLengthIs, ServerAssumption DEF Fseek, Asking, Commands
    <3> QED
      BY <3>1, <3>2, <2>1
  <2>9. ASSUME Fclose(c) PROVE Goal
    <3>1. at[c] \in Asking /\ "close" \in Commands /\ 0 \in Nat /\ 0 \in 0 .. MaxLength
      BY <2>9, MaxLengthIs DEF Fclose, Asking, Commands
    <3>2. Send(c, Message("close", 0, 0, c))
      BY <2>9 DEF Fclose
    <3> QED
      BY <3>1, <3>2, <2>1
  <2> QED
    BY <1>2, <2>2, <2>3, <2>4, <2>5, <2>6, <2>7, <2>8, <2>9 DEF Load
<1>3. ~wild /\ (Serve \/ \E c \in Client : Load(c))
  BY DEF Next
<1> QED
  BY <1>1, <1>2, <1>3

\* The message of a call is the last in line.
LEMMA Calls ==
    ASSUME ServerTypeOK, NEW c \in Client, NEW message, Sends(c, message)
    PROVE  /\ calls' \in [{Server} -> Seq(Client)] /\ serving' = serving
           /\ Len(calls'[Server]) = Len(calls[Server]) + 1
           /\ \A i \in 1 .. Len(calls[Server]) : calls'[Server][i] = calls[Server][i]
           /\ calls'[Server][Len(calls[Server]) + 1] = c
           /\ \A b \in Client : Queued(b)' <=> Queued(b) \/ b = c
<1>1. calls[Server] \in Seq(Client)
  BY DEF ServerTypeOK
<1>2. serving' = serving /\ calls' = [calls EXCEPT ![Server] = Append(@, c)]
  BY DEF Sends, Line!Call
<1>3. calls'[Server] = Append(calls[Server], c) /\ calls' \in [{Server} -> Seq(Client)]
  BY <1>1, <1>2 DEF ServerTypeOK
<1>4. /\ Len(calls'[Server]) = Len(calls[Server]) + 1
      /\ \A i \in 1 .. Len(calls[Server]) : calls'[Server][i] = calls[Server][i]
      /\ calls'[Server][Len(calls[Server]) + 1] = c
  BY <1>1, <1>3
<1>5. \A b \in Client : Queued(b)' <=> Queued(b) \/ b = c
  BY <1>1, <1>4 DEF Queued
<1> QED
  BY <1>2, <1>3, <1>4, <1>5

\* The server takes the first message in line; nobody stands there twice, so
\* that its sender stands there no more.
LEMMA Takes ==
    ASSUME ServerTypeOK, LineInv, Receive, NEW c, c = Head(calls[Server])
    PROVE  /\ calls' \in [{Server} -> Seq(Client)] /\ c \in Client
           /\ serving' \in [Client \cup {Server} -> SUBSET Client]
           /\ Len(calls'[Server]) = Len(calls[Server]) - 1
           /\ \A i \in 1 .. Len(calls'[Server]) : calls'[Server][i] = calls[Server][i + 1]
           /\ \A b \in Client : Queued(b)' <=> Queued(b) /\ b # c
           /\ Queued(c)
<1>1. calls[Server] \in Seq(Client) /\ calls[Server] # <<>>
  BY DEF ServerTypeOK, Receive, Line!Take
<1>2. /\ calls' = [calls EXCEPT ![Server] = Tail(@)]
      /\ serving' = [serving EXCEPT ![Server] = @ \cup ({c} \ {"event"})]
  BY DEF Receive, Line!Take
<1>3. c \in Client /\ c = calls[Server][1] /\ Len(calls[Server]) \in Nat \ {0}
  BY <1>1
<1>4. calls'[Server] = Tail(calls[Server]) /\ calls' \in [{Server} -> Seq(Client)]
  BY <1>1, <1>2 DEF ServerTypeOK
<1>5. serving' \in [Client \cup {Server} -> SUBSET Client]
  BY <1>2, <1>3 DEF ServerTypeOK
<1>6. /\ Len(calls'[Server]) = Len(calls[Server]) - 1
      /\ \A i \in 1 .. Len(calls'[Server]) : calls'[Server][i] = calls[Server][i + 1]
  BY <1>1, <1>4
<1>7. Queued(c)
  BY <1>3 DEF Queued
<1>8. ASSUME NEW b \in Client PROVE Queued(b)' <=> Queued(b) /\ b # c
  <2>1. ASSUME Queued(b)' PROVE Queued(b) /\ b # c
    <3>1. PICK i \in 1 .. Len(calls'[Server]) : calls'[Server][i] = b
      BY <2>1 DEF Queued
    <3>2. i + 1 \in 1 .. Len(calls[Server]) /\ calls[Server][i + 1] = b /\ 1 \in 1 .. Len(calls[Server])
          /\ i + 1 # 1
      BY <1>3, <1>6, <3>1
    <3>3. calls[Server][1] # b
      BY <3>2 DEF LineInv
    <3> QED
      BY <1>3, <3>2, <3>3 DEF Queued
  <2>2. ASSUME Queued(b), b # c PROVE Queued(b)'
    <3>1. PICK i \in 1 .. Len(calls[Server]) : calls[Server][i] = b
      BY <2>2 DEF Queued
    <3>2. i # 1
      BY <2>2, <3>1, <1>3
    <3>3. i - 1 \in 1 .. Len(calls'[Server]) /\ i = (i - 1) + 1
      BY <1>3, <1>6, <3>1, <3>2
    <3>4. calls'[Server][i - 1] = b
      BY <1>6, <3>1, <3>3
    <3> QED
      BY <3>3, <3>4 DEF Queued
  <2> QED
    BY <2>1, <2>2
<1> QED
  BY <1>3, <1>4, <1>5, <1>6, <1>7, <1>8

\* What the steps of the server do to the locals of serve().
LEMMA Serving ==
    ASSUME ServerTypeOK, LineInv
    PROVE  /\ Receive => LET c == Head(calls[Server]) IN
                 /\ server.at = "receive"
                 /\ server' = [at |-> GoesOn(request[c].command), client |-> c,
                               bytes |-> request[c].bytes, done |-> 0, buffer |-> Nothing(Chunk)]
           /\ ReadChunk \/ ReadLast =>
                 /\ server.at = "read" /\ server.client \in Client
                 /\ server'.client = server.client
                 /\ server'.at \in {"read", "reply"}
                 /\ UNCHANGED <<calls, serving, joined, at, request, wild>>
           /\ Reply =>
                 /\ server.at = "reply" /\ server.client \in Client
                 /\ server'.at = "receive"
                 /\ UNCHANGED <<calls, joined, request, offset, got, wild>>
                 /\ at' = [at EXCEPT ![server.client] = Answered(server.client)]
                 /\ serving' = [serving EXCEPT ![Server] = @ \ {server.client}]
                 /\ server' = [server EXCEPT !.at = "receive", !.client = Server, !.bytes = 0,
                                             !.done = 0, !.buffer = Nothing(Chunk)]
<1>1. server.at \in {"read", "reply"} => server.client \in Client
  BY DEF LineInv
<1>2. ASSUME ReadChunk \/ ReadLast
      PROVE  /\ server.at = "read"
             /\ server'.client = server.client
             /\ server'.at \in {"read", "reply"}
             /\ UNCHANGED <<calls, serving, joined, at, request, wild>>
  BY <1>2 DEF ReadChunk, ReadLast, ReadAndCopy, lineVars, loaderVars, ServerTypeOK
<1> QED
  BY <1>1, <1>2 DEF Receive, Reply, Line!Answer, fileVars, ServerTypeOK

-----------------------------------------------------------------------------
(* The line, the shared pipe and the types *)

LEMMA LineStep ==
    ASSUME ServerTypeOK, LineInv, Next
    PROVE  LineInv'
<1>1. ASSUME UNCHANGED <<calls, at>>, \A b \in Client : InHand(b)' <=> InHand(b),
             server'.at \in {"read", "reply"} => server'.client \in Client
      PROVE  LineInv'
  <2>1. \A b \in Client : Queued(b)' <=> Queued(b)
    BY <1>1 DEF Queued
  <2>2. \A b \in Client : at'[b] = "called" <=> Queued(b)' \/ InHand(b)'
    BY <1>1, <2>1 DEF LineInv
  <2>3. \A b \in Client : ~(Queued(b)' /\ InHand(b)')
    BY <1>1, <2>1 DEF LineInv
  <2> QED
    BY <1>1, <2>2, <2>3 DEF LineInv
<1>2. CASE FollowsNull
  <2>1. UNCHANGED <<calls, at, server>>
    BY <1>2 DEF FollowsNull, GoWild, lineVars, loaderVars
  <2> QED
    BY <1>1, <2>1 DEF InHand, LineInv
<1>3. CASE Prepares
  <2>1. UNCHANGED <<calls, at>> /\ server.at \in {"create", "bind"} /\ server'.at \in {"bind", "receive"}
    BY <1>3 DEF Prepares, lineVars, loaderVars, ServerTypeOK
  <2> QED
    BY <1>1, <2>1 DEF InHand
<1>4. ASSUME NEW c \in Client, Goes(c) PROVE LineInv'
  <2>1. UNCHANGED <<calls, server>> /\ at[c] # "called" /\ at'[c] # "called"
        /\ \A b \in Client \ {c} : at'[b] = at[b]
    BY <1>4 DEF Goes, lineVars, ServerTypeOK
  <2>2. \A b \in Client : (Queued(b)' <=> Queued(b)) /\ (InHand(b)' <=> InHand(b))
    BY <2>1 DEF Queued, InHand
  <2>3. \A b \in Client : at'[b] = "called" <=> Queued(b)' \/ InHand(b)'
    BY <2>1, <2>2 DEF LineInv
  <2>4. \A b \in Client : ~(Queued(b)' /\ InHand(b)')
    BY <2>2 DEF LineInv
  <2> QED
    BY <2>1, <2>3, <2>4 DEF LineInv
<1>5. ASSUME NEW c \in Client, at[c] \in Asking, Asks(c) PROVE LineInv'
  <2>1. PICK message : Sends(c, message)
    BY <1>5 DEF Asks
  <2>2. server' = server /\ at'[c] = "called" /\ (\A b \in Client \ {c} : at'[b] = at[b])
    BY <2>1 DEF Sends, ServerTypeOK
  <2>3. ~Queued(c) /\ ~InHand(c)
    BY <1>5 DEF Asking, LineInv
  <2>4. /\ Len(calls'[Server]) = Len(calls[Server]) + 1
        /\ \A i \in 1 .. Len(calls[Server]) : calls'[Server][i] = calls[Server][i]
        /\ calls'[Server][Len(calls[Server]) + 1] = c
        /\ \A b \in Client : Queued(b)' <=> Queued(b) \/ b = c
    BY <2>1, Calls
  <2>0. Len(calls[Server]) \in Nat
    BY DEF ServerTypeOK
  <2>5. \A b \in Client : InHand(b)' <=> InHand(b)
    BY <2>2 DEF InHand
  <2>6. \A b \in Client : at'[b] = "called" <=> Queued(b)' \/ InHand(b)'
    BY <2>2, <2>3, <2>4, <2>5 DEF LineInv
  <2>7. \A b \in Client : ~(Queued(b)' /\ InHand(b)')
    BY <2>3, <2>4, <2>5 DEF LineInv
  <2>8. \A i \in 1 .. Len(calls[Server]) : calls[Server][i] # c
    BY <2>3 DEF Queued
  <2>9. \A i, j \in 1 .. Len(calls'[Server]) : calls'[Server][i] = calls'[Server][j] => i = j
    <3> SUFFICES ASSUME NEW i \in 1 .. Len(calls'[Server]), NEW j \in 1 .. Len(calls'[Server]),
                        calls'[Server][i] = calls'[Server][j]
                 PROVE  i = j
      OBVIOUS
    <3>1. i \in 1 .. Len(calls[Server]) \/ i = Len(calls[Server]) + 1
      BY <2>0, <2>4
    <3>2. j \in 1 .. Len(calls[Server]) \/ j = Len(calls[Server]) + 1
      BY <2>0, <2>4
    <3> QED
      BY <2>4, <2>8, <3>1, <3>2 DEF LineInv
  <2> QED
    BY <2>2, <2>6, <2>7, <2>9 DEF LineInv
<1>6. CASE Receive
  <2> DEFINE c == Head(calls[Server])
  <2>1. /\ Len(calls'[Server]) = Len(calls[Server]) - 1 /\ c \in Client /\ Queued(c)
        /\ \A i \in 1 .. Len(calls'[Server]) : calls'[Server][i] = calls[Server][i + 1]
        /\ \A b \in Client : Queued(b)' <=> Queued(b) /\ b # c
    BY <1>6, Takes
  <2>0. Len(calls[Server]) \in Nat
    BY DEF ServerTypeOK
  <2>2. server.at = "receive" /\ server'.at \in {"read", "reply"} /\ server'.client = c
    BY <1>6, Serving DEF GoesOn
  <2>3. at' = at
    BY <1>6 DEF Receive, loaderVars
  <2>4. \A b \in Client : ~InHand(b) /\ (InHand(b)' <=> b = c)
    BY <2>2 DEF InHand
  <2>5. \A b \in Client : at'[b] = "called" <=> Queued(b)' \/ InHand(b)'
    BY <2>1, <2>3, <2>4 DEF LineInv
  <2>6. \A b \in Client : ~(Queued(b)' /\ InHand(b)')
    BY <2>1, <2>4
  <2>7. \A i, j \in 1 .. Len(calls'[Server]) : calls'[Server][i] = calls'[Server][j] => i = j
    <3> SUFFICES ASSUME NEW i \in 1 .. Len(calls'[Server]), NEW j \in 1 .. Len(calls'[Server]),
                        calls'[Server][i] = calls'[Server][j]
                 PROVE  i = j
      OBVIOUS
    <3>0. i \in Nat /\ j \in Nat
      OBVIOUS
    <3>1. i + 1 \in 1 .. Len(calls[Server]) /\ j + 1 \in 1 .. Len(calls[Server])
      BY <2>0, <2>1
    <3>2. calls[Server][i + 1] = calls[Server][j + 1]
      BY <2>1
    <3>3. i + 1 = j + 1
      BY <3>1, <3>2 DEF LineInv
    <3> QED
      BY <3>0, <3>3
  <2> QED
    BY <2>1, <2>2, <2>5, <2>6, <2>7 DEF LineInv
<1>7. CASE ReadChunk \/ ReadLast
  <2>1. /\ UNCHANGED <<calls, at>> /\ server'.client = server.client /\ server.client \in Client
        /\ server.at = "read" /\ server'.at \in {"read", "reply"}
    BY <1>7, Serving
  <2> QED
    BY <1>1, <2>1 DEF InHand
<1>8. CASE Reply
  <2> DEFINE c == server.client
  <2>1. server.at = "reply" /\ c \in Client /\ server'.at = "receive" /\ calls' = calls
    BY <1>8, Serving
  <2>2. at'[c] # "called" /\ \A b \in Client \ {c} : at'[b] = at[b]
    BY <1>8, <2>1, Serving DEF Answered, ServerTypeOK
  <2>3. \A b \in Client : (Queued(b)' <=> Queued(b)) /\ ~InHand(b)' /\ (InHand(b) <=> b = c)
    BY <2>1 DEF Queued, InHand
  <2>4. \A b \in Client : at'[b] = "called" <=> Queued(b)' \/ InHand(b)'
    BY <2>1, <2>2, <2>3 DEF LineInv
  <2> QED
    BY <2>1, <2>3, <2>4 DEF LineInv
<1> QED
  BY <1>2, <1>3, <1>4, <1>5, <1>6, <1>7, <1>8, Steps

LEMMA JoinedStep ==
    ASSUME ServerTypeOK, LineInv, JoinedInv, Next
    PROVE  JoinedInv'
<1>1. ASSUME UNCHANGED <<joined, at>> PROVE JoinedInv'
  BY <1>1 DEF JoinedInv
<1>2. CASE FollowsNull \/ Prepares \/ Receive
  BY <1>1, <1>2 DEF FollowsNull, GoWild, Prepares, Receive, loaderVars
<1>3. CASE ReadChunk \/ ReadLast
  BY <1>1, <1>3, Serving
<1>4. ASSUME NEW c \in Client, Goes(c) PROVE JoinedInv'
  <2>1. PICK to \in {"connect", "fopen", "fconnect", "joined"} :
           /\ at' = [at EXCEPT ![c] = to]
           /\ \/ joined' = TRUE
              \/ to = "fconnect"
              \/ joined' = joined /\ at[c] # "fconnect" /\ to # "joined"
    BY <1>4 DEF Goes
  <2>2. at'[c] = to /\ \A b \in Client \ {c} : at'[b] = at[b]
    BY <2>1 DEF ServerTypeOK
  <2> QED
    BY <2>1, <2>2 DEF JoinedInv
<1>5. ASSUME NEW c \in Client, Asks(c) PROVE JoinedInv'
  BY <1>5 DEF Asks, Sends, JoinedInv
<1>6. CASE Reply
  <2> DEFINE c == server.client
  <2>1. c \in Client /\ InHand(c) /\ joined' = joined /\ at' = [at EXCEPT ![c] = Answered(c)]
    BY <1>6, Serving DEF InHand
  <2>2. at[c] = "called" /\ \A b \in Client \ {c} : at'[b] = at[b]
    BY <2>1 DEF LineInv, ServerTypeOK
  <2> QED
    BY <2>1, <2>2 DEF JoinedInv
<1> QED
  BY <1>2, <1>3, <1>4, <1>5, <1>6, Steps

LEMMA WildStep ==
    ASSUME ServerTypeOK, LineInv, JoinedInv, Next
    PROVE  WildOnly'
<1>1. ASSUME wild' = wild PROVE WildOnly'
  BY <1>1, Steps DEF WildOnly
<1>2. CASE FollowsNull
  <2>1. freePipes' = freePipes /\ at' = at
    BY <1>2 DEF FollowsNull, GoWild, loaderVars
  <2>2. CASE freePipes = 0
    BY <2>1, <2>2 DEF WildOnly
  <2>3. ASSUME ~joined, NEW c \in Client, at[c] \in Asking PROVE WildOnly'
    BY <2>1, <2>3 DEF WildOnly, JoinedInv, Asking
  <2> QED
    BY <1>2, <2>2, <2>3 DEF FollowsNull
<1>3. CASE Prepares \/ Receive \/ ReadChunk \/ ReadLast \/ Reply
  BY <1>1, <1>3, Serving DEF Prepares, Receive
<1>4. ASSUME NEW c \in Client, Goes(c) \/ Asks(c) PROVE WildOnly'
  BY <1>1, <1>4 DEF Goes, Asks, Sends
<1> QED
  BY <1>2, <1>3, <1>4, Steps

\* What a read leaves in the buffer is positions of the file.
LEMMA DataIs ==
    ASSUME NEW o \in Nat, NEW m \in Nat
    PROVE  /\ Within(o, m) \in Nat /\ Within(o, m) <= m /\ Len(Read(o, m).data) = Within(o, m)
           /\ \A i \in 1 .. Within(o, m) : Read(o, m).data[i] \in Nat
<1>1. Within(o, 0) = 0 /\ Within(o, m) \in Nat /\ Within(o, m) <= m
  BY FileAssumption DEF Within, Lesser
<1>2. o = o + Within(o, 0)
  BY <1>1
<1> QED
  <2>1. ReadsOn(o, 0, m, o)
    BY <1>2, ReadOn
  <2> QED
    BY <1>1, <2>1 DEF ReadsOn

\* A loader means to read where it has just sought, or where the file is.
LEMMA MessageIs ==
    ASSUME ServerTypeOK, NEW c \in Client, NEW command \in Commands, NEW location \in Nat,
           NEW bytes \in 0 .. MaxLength
    PROVE  LET message == Message(command, location, bytes, c) IN
           /\ message \in [command : Commands, location : Nat, bytes : 0 .. MaxLength, start : Nat]
           /\ message.command = command /\ message.bytes = bytes
           /\ command = "read" =>
                 /\ request[c].command = "open" => message.start = 0
                 /\ request[c].command = "seek" => message.start = request[c].location
                 /\ request[c].command \notin {"open", "seek"} => message.start = offset[c]
<1>1. request[c].location \in Nat /\ offset[c] \in Nat
  BY DEF ServerTypeOK
<1>2. Start(c) \in Nat
  BY <1>1 DEF Start
<1>3. /\ request[c].command = "open" => Start(c) = 0
      /\ request[c].command = "seek" => Start(c) = request[c].location
      /\ request[c].command \notin {"open", "seek"} => Start(c) = offset[c]
  BY DEF Start
<1> QED
  BY <1>2, <1>3 DEF Message

\* A read and the copy after it.
LEMMA Copies ==
    ASSUME ServerTypeOK, NEW c \in Client, c = server.client, server.at = "read",
           NEW m \in Nat, 0 < m, m <= Chunk, m <= server.bytes, ReadAndCopy(m)
    PROVE  /\ offset' \in [Client -> Nat] /\ got' \in [Client -> [1 .. MaxLength -> Int]]
           /\ server' \in [at : {"read", "reply"}, client : {c}, bytes : Nat, done : Nat,
                           buffer : [1 .. Chunk -> Int]]
           /\ offset'[c] = Read(offset[c], m).offset
           /\ \A i \in 1 .. MaxLength : i \notin server.done + 1 .. server.done + m => got'[c][i] = got[c][i]
           /\ \A j \in 1 .. Within(offset[c], m) :
                 server.done + j \in 1 .. MaxLength =>
                    got'[c][server.done + j] = Read(offset[c], m).data[j]
           /\ \A b \in Client \ {c} : offset'[b] = offset[b] /\ got'[b] = got[b]
           /\ server'.client = c /\ server'.done = server.done + m
           /\ server'.bytes = (IF MoreToCome THEN server.bytes - m ELSE server.bytes)
           /\ server'.at = (IF MoreToCome THEN server.at ELSE "reply")
<1> DEFINE o == offset[c]
           data == Read(o, m).data
           buffer == Filled(data)
<1>1. /\ o \in Nat /\ server.done \in Nat /\ server.bytes \in Nat /\ Chunk \in Nat \ {0}
      /\ server.buffer \in [1 .. Chunk -> Int] /\ got[c] \in [1 .. MaxLength -> Int]
  BY ServerAssumption DEF ServerTypeOK
<1>2. /\ Within(o, m) \in Nat /\ Within(o, m) <= m /\ Len(data) = Within(o, m)
      /\ \A i \in 1 .. Within(o, m) : data[i] \in Nat
  BY <1>1, DataIs
<1>3. /\ offset' = [offset EXCEPT ![c] = Read(o, m).offset]
      /\ got' = [got EXCEPT ![c] = CopyOut(c, m, buffer)]
      /\ server' = [server EXCEPT !.buffer = buffer, !.done = @ + m,
                                  !.bytes = IF MoreToCome THEN @ - m ELSE @,
                                  !.at = IF MoreToCome THEN @ ELSE "reply"]
  BY DEF ReadAndCopy
<1> HIDE DEF o, data
<1>4. buffer \in [1 .. Chunk -> Int] /\ \A j \in 1 .. Within(o, m) : buffer[j] = data[j]
  BY <1>1, <1>2 DEF Filled
<1> HIDE DEF buffer
<1>5. /\ CopyOut(c, m, buffer) \in [1 .. MaxLength -> Int]
      /\ \A i \in 1 .. MaxLength :
            CopyOut(c, m, buffer)[i] = IF i \in server.done + 1 .. server.done + m
                                       THEN buffer[i - server.done] ELSE got[c][i]
  <2>1. \A i \in 1 .. MaxLength :
            (IF i \in server.done + 1 .. server.done + m THEN buffer[i - server.done] ELSE got[c][i]) \in Int
    <3> SUFFICES ASSUME NEW i \in 1 .. MaxLength
                 PROVE  /\ i \in server.done + 1 .. server.done + m => buffer[i - server.done] \in Int
                        /\ got[c][i] \in Int
      OBVIOUS
    <3>1. i \in server.done + 1 .. server.done + m => i - server.done \in 1 .. Chunk
      BY <1>1, MaxLengthIs
    <3> QED
      BY <1>1, <1>4, <3>1
  <2>2. CopyOut(c, m, buffer) = [i \in 1 .. MaxLength |->
            IF i \in server.done + 1 .. server.done + m THEN buffer[i - server.done] ELSE got[c][i]]
    BY DEF CopyOut, Destination
  <2> QED
    BY <2>1, <2>2
<1>6. Read(o, m).offset \in Nat
  BY <1>1, OffsetIs DEF o
<1>7. /\ offset' \in [Client -> Nat] /\ got' \in [Client -> [1 .. MaxLength -> Int]]
      /\ offset'[c] = Read(o, m).offset /\ got'[c] = CopyOut(c, m, buffer)
      /\ \A b \in Client \ {c} : offset'[b] = offset[b] /\ got'[b] = got[b]
  BY <1>3, <1>5, <1>6 DEF ServerTypeOK
<1>8. /\ server'.client = c /\ server'.done = server.done + m
      /\ server'.bytes = (IF MoreToCome THEN server.bytes - m ELSE server.bytes)
      /\ server'.at = (IF MoreToCome THEN server.at ELSE "reply")
  BY <1>3 DEF ServerTypeOK
<1>9. server' \in [at : {"read", "reply"}, client : {c}, bytes : Nat, done : Nat,
                   buffer : [1 .. Chunk -> Int]]
  <2>1. server.done + m \in Nat /\ (IF MoreToCome THEN server.bytes - m ELSE server.bytes) \in Nat
    BY <1>1
  <2>2. server' = [at |-> server'.at, client |-> server'.client, bytes |-> server'.bytes,
                   done |-> server'.done, buffer |-> buffer]
    BY <1>3 DEF ServerTypeOK
  <2>3. server'.bytes \in Nat /\ server'.done \in Nat /\ server'.client = c
    BY <1>8, <2>1
  <2>4. server'.at \in {"read", "reply"}
    BY <1>8
  <2> HIDE DEF buffer
  <2> QED
    BY <1>4, <2>2, <2>3, <2>4
<1>10. \A j \in 1 .. Within(o, m) :
          server.done + j \in 1 .. MaxLength => got'[c][server.done + j] = data[j]
  <2> SUFFICES ASSUME NEW j \in 1 .. Within(o, m), server.done + j \in 1 .. MaxLength
               PROVE  got'[c][server.done + j] = data[j]
    OBVIOUS
  <2> DEFINE i == server.done + j
  <2>1. i \in server.done + 1 .. server.done + m /\ i - server.done = j
    <3>1. j \in Nat /\ 1 <= j /\ j <= m
      BY <1>2
    <3>2. \A x, y \in Nat : 1 <= y /\ y <= m => x + y \in x + 1 .. x + m /\ (x + y) - x = y
      OBVIOUS
    <3> QED
      BY <1>1, <3>1, <3>2
  <2>2. i \in 1 .. MaxLength
    OBVIOUS
  <2> HIDE DEF i
  <2>3. CopyOut(c, m, buffer)[i] = buffer[j]
    BY <1>5, <2>1, <2>2
  <2>4. buffer[j] = data[j]
    BY <1>4
  <2> QED
    BY <1>7, <2>3, <2>4 DEF i
<1> QED
  BY <1>5, <1>7, <1>8, <1>9, <1>10 DEF o, data

LEMMA TypeStep ==
    ASSUME ServerTypeOK, LineInv, Next
    PROVE  ServerTypeOK'
<1> DEFINE PoolOK == /\ freePipes' \in 0 .. Pipes
                     /\ bound' \in BOOLEAN /\ joined' \in BOOLEAN /\ wild' \in BOOLEAN
<1>1. PoolOK
  <2> USE DEF ServerTypeOK
  <2>1. ASSUME TakePipe PROVE freePipes' \in 0 .. Pipes
    BY <2>1, ServerAssumption DEF TakePipe
  <2>2. ASSUME Serve PROVE PoolOK
    BY <2>1, <2>2 DEF Serve, ServerCreate, ServerBind, Receive, ReadChunk, ReadLast, Reply, PoolDry, GoWild
  <2>3. ASSUME NEW c \in Client, Load(c) PROVE PoolOK
    BY <2>1, <2>3 DEF Load, ExecCreate, ExecConnect, FinitialiseCreate, FinitialiseConnect, JoinShared,
                      Fopen, Fread, Fseek, Fclose, Send, PoolDry, GoWild
  <2> QED
    BY <2>2, <2>3 DEF Next
<1> DEFINE Goal ==
      /\ calls' \in [{Server} -> Seq(Client)]
      /\ serving' \in [Client \cup {Server} -> SUBSET Client]
      /\ at' \in [Client -> Places]
      /\ request' \in [Client -> [command : Commands, location : Nat, bytes : 0 .. MaxLength, start : Nat]]
      /\ offset' \in [Client -> Nat]
      /\ got' \in [Client -> [1 .. MaxLength -> Int]]
      /\ server' \in [at : {"create", "bind", "receive", "read", "reply"}, client : Client \cup {Server},
                      bytes : Nat, done : Nat, buffer : [1 .. Chunk -> Int]]
<1>2. ASSUME FollowsNull PROVE Goal
  BY <1>2 DEF FollowsNull, GoWild, lineVars, loaderVars, fileVars, ServerTypeOK
<1>3. ASSUME Prepares PROVE Goal
  BY <1>3 DEF Prepares, lineVars, loaderVars, fileVars, ServerTypeOK
<1>4. ASSUME NEW c \in Client, Goes(c) PROVE Goal
  BY <1>4 DEF Goes, lineVars, fileVars, ServerTypeOK, Places
<1>5. ASSUME NEW c \in Client, Asks(c) PROVE Goal
  <2>1. PICK command \in Commands, location \in Nat, bytes \in 0 .. MaxLength :
           Sends(c, Message(command, location, bytes, c))
    BY <1>5 DEF Asks
  <2> DEFINE message == Message(command, location, bytes, c)
  <2>2. message \in [command : Commands, location : Nat, bytes : 0 .. MaxLength, start : Nat]
    BY MessageIs
  <2> HIDE DEF message
  <2>3. calls' \in [{Server} -> Seq(Client)] /\ serving' = serving
    BY <2>1, Calls
  <2>4. Nothing(MaxLength) \in [1 .. MaxLength -> Int]
    BY DEF Nothing, Junk
  <2>5. /\ at' = [at EXCEPT ![c] = "called"] /\ request' = [request EXCEPT ![c] = message]
        /\ got' = [got EXCEPT ![c] = Nothing(MaxLength)] /\ UNCHANGED <<offset, server>>
    BY <2>1 DEF Sends, message
  <2> HIDE DEF Goal
  <2>6. /\ at' \in [Client -> Places]
        /\ request' \in [Client -> [command : Commands, location : Nat, bytes : 0 .. MaxLength, start : Nat]]
        /\ got' \in [Client -> [1 .. MaxLength -> Int]]
    BY <2>2, <2>4, <2>5 DEF ServerTypeOK, Places
  <2> QED
    BY <2>3, <2>5, <2>6 DEF Goal, ServerTypeOK
<1>6. ASSUME Receive PROVE Goal
  <2> DEFINE c == Head(calls[Server])
  <2>1. /\ calls' \in [{Server} -> Seq(Client)] /\ c \in Client
        /\ serving' \in [Client \cup {Server} -> SUBSET Client]
    BY <1>6, Takes
  <2>2. server' = [at |-> GoesOn(request[c].command), client |-> c, bytes |-> request[c].bytes,
                   done |-> 0, buffer |-> Nothing(Chunk)]
    BY <1>6, Serving
  <2>3. offset' = [offset EXCEPT ![c] = Sought(c)] /\ UNCHANGED <<at, request, got>>
    BY <1>6 DEF Receive, loaderVars
  <2> HIDE DEF c
  <2>4. Nothing(Chunk) \in [1 .. Chunk -> Int] /\ GoesOn(request[c].command) \in {"read", "reply"}
    BY ServerAssumption DEF Nothing, Junk, GoesOn
  <2>5. request[c].bytes \in Nat /\ request[c].location \in Nat /\ offset[c] \in Nat
    BY <2>1, MaxLengthIs DEF ServerTypeOK
  <2>6. Sought(c) \in Nat
    BY <2>5 DEF Sought
  <2>7. server' \in [at : {"create", "bind", "receive", "read", "reply"}, client : Client \cup {Server},
                     bytes : Nat, done : Nat, buffer : [1 .. Chunk -> Int]]
    BY <2>1, <2>2, <2>4, <2>5
  <2>8. offset' \in [Client -> Nat]
    BY <2>1, <2>3, <2>6 DEF ServerTypeOK
  <2> QED
    BY <2>1, <2>3, <2>7, <2>8 DEF ServerTypeOK
<1>7. ASSUME ReadChunk \/ ReadLast PROVE Goal
  <2> DEFINE c == server.client
  <2>1. /\ server.at = "read" /\ c \in Client
        /\ UNCHANGED <<calls, serving, at, request>>
    BY <1>7, Serving
  <2> DEFINE ReadOK ==
        /\ offset' \in [Client -> Nat] /\ got' \in [Client -> [1 .. MaxLength -> Int]]
        /\ server' \in [at : {"create", "bind", "receive", "read", "reply"}, client : Client \cup {Server},
                        bytes : Nat, done : Nat, buffer : [1 .. Chunk -> Int]]
  <2>2. ReadOK
    <3>1. ASSUME NEW m \in Nat, 0 < m, m <= Chunk, m <= server.bytes, ReadAndCopy(m) PROVE ReadOK
      <4>1. /\ offset' \in [Client -> Nat] /\ got' \in [Client -> [1 .. MaxLength -> Int]]
            /\ server' \in [at : {"read", "reply"}, client : {c}, bytes : Nat, done : Nat,
                            buffer : [1 .. Chunk -> Int]]
        BY <2>1, <3>1, Copies
      <4> QED
        BY <2>1, <4>1
    <3>2. Chunk \in Nat \ {0} /\ server.bytes \in Nat
      BY ServerAssumption DEF ServerTypeOK
    <3>3. CASE ReadChunk
      BY <3>1, <3>2, <3>3 DEF ReadChunk, MoreToCome
    <3>4. CASE ReadLast /\ server.bytes > 0
      BY <3>1, <3>2, <3>4 DEF ReadLast, MoreToCome
    <3>5. CASE ReadLast /\ ~(server.bytes > 0)
      BY <3>5 DEF ReadLast, fileVars, ServerTypeOK
    <3> QED
      BY <1>7, <3>3, <3>4, <3>5
  <2> QED
    BY <2>1, <2>2 DEF ServerTypeOK
<1>8. ASSUME Reply PROVE Goal
  <2> DEFINE c == server.client
  <2>1. /\ c \in Client /\ UNCHANGED <<calls, request, offset, got>>
        /\ at' = [at EXCEPT ![c] = Answered(c)]
        /\ serving' = [serving EXCEPT ![Server] = @ \ {c}]
        /\ server' = [server EXCEPT !.at = "receive", !.client = Server, !.bytes = 0,
                                    !.done = 0, !.buffer = Nothing(Chunk)]
    BY <1>8, Serving
  <2>2. Answered(c) \in Places
    BY DEF Answered, Places
  <2>3. Nothing(Chunk) \in [1 .. Chunk -> Int]
    BY DEF Nothing, Junk
  <2> HIDE DEF c
  <2>4. at' \in [Client -> Places] /\ serving' \in [Client \cup {Server} -> SUBSET Client]
    BY <2>1, <2>2 DEF ServerTypeOK
  <2>5. server' \in [at : {"create", "bind", "receive", "read", "reply"}, client : Client \cup {Server},
                     bytes : Nat, done : Nat, buffer : [1 .. Chunk -> Int]]
    BY <2>1, <2>3 DEF ServerTypeOK
  <2> QED
    BY <2>1, <2>4, <2>5 DEF ServerTypeOK
<1> HIDE DEF Goal
<1>9. Goal
  BY <1>2, <1>3, <1>4, <1>5, <1>6, <1>7, <1>8, Steps
<1> QED
  BY <1>1, <1>9 DEF PoolOK, Goal, ServerTypeOK

-----------------------------------------------------------------------------
(* What the loaders read *)

\* What is said of a read depends on its message, its file and its destination.
LEMMA SameRead ==
    ASSUME NEW b \in Client, request'[b] = request[b], offset'[b] = offset[b], got'[b] = got[b]
    PROVE  /\ Delivers(b)' <=> Delivers(b)
           /\ Keeps(b)' <=> Keeps(b)
           /\ Progress(b, 0)' <=> Progress(b, 0)
           /\ server' = server => (Progress(b, server.done)' <=> Progress(b, server.done))
<1>1. Parts(b)' = Parts(b)
  BY DEF Parts
<1>2. \A k : Split(b, k)' <=> Split(b, k)
  BY DEF Split
<1>3. Delivered(b)' <=> Delivered(b)
  BY DEF Delivered
<1>4. Progress(b, 0)' <=> Progress(b, 0)
  BY <1>1, <1>2 DEF Progress, Unsplit
<1>5. server' = server => (Progress(b, server.done)' <=> Progress(b, server.done))
  BY <1>1, <1>2 DEF Progress, Unsplit
<1>6. Delivers(b)' <=> Delivers(b)
  BY <1>1, <1>2, <1>3 DEF Delivers
<1>7. Keeps(b)' <=> Keeps(b)
  BY <1>1, <1>2 DEF Keeps
<1> QED
  BY <1>4, <1>5, <1>6, <1>7

\* A loader that a step is not about.
LEMMA Others ==
    ASSUME NEW b \in Client, Asked(b), Serves(b),
           at'[b] = at[b], request'[b] = request[b], offset'[b] = offset[b], got'[b] = got[b],
           Queued(b)' => Queued(b),
           InHand(b)' => InHand(b) /\ server' = server
    PROVE  Asked(b)' /\ Serves(b)'
<1>1. /\ Delivers(b)' <=> Delivers(b)
      /\ Keeps(b)' <=> Keeps(b)
      /\ Progress(b, 0)' <=> Progress(b, 0)
      /\ server' = server => (Progress(b, server.done)' <=> Progress(b, server.done))
  BY SameRead
<1>2. Asked(b)'
  BY <1>1 DEF Asked
<1>3. ASSUME InHand(b)', server'.at = "read" PROVE Reading(b)'
  <2>1. Reading(b) /\ server' = server
    BY <1>3 DEF Serves
  <2> QED
    BY <1>1, <2>1 DEF Reading
<1>4. ASSUME InHand(b)', server'.at = "reply" PROVE Served(b)'
  <2>1. Served(b) /\ server' = server
    BY <1>4 DEF Serves
  <2> QED
    BY <1>1, <2>1 DEF Served
<1>5. Queued(b)' /\ request'[b].command = "read" => Progress(b, 0)'
  BY <1>1 DEF Serves
<1> QED
  BY <1>2, <1>3, <1>4, <1>5 DEF Serves

\* One more piece of a read.
LEMMA Advances ==
    ASSUME ServerTypeOK, NEW c \in Client, c = server.client, server.at = "read", Reading(c),
           NEW m \in Nat, 0 < m, m = Lesser(Chunk, server.bytes), ReadAndCopy(m),
           NEW s, s = request[c].start, NEW d, d = server.done
    PROVE  \E k \in Parts(c) :
              /\ d = k * Chunk
              /\ Unsplit(c, d) => Holds(got'[c], s, d + m, MaxLength)
              /\ Unsplit(c, d) /\ ~Split(c, k) => offset'[c] = s + Within(s, d + m)
              /\ \A i \in 1 .. MaxLength : i > d + m => got'[c][i] = Junk
<1>1. /\ d \in Nat /\ s \in Nat /\ offset[c] \in Nat /\ Chunk \in Nat \ {0} /\ server.bytes \in Nat
      /\ request[c].bytes \in Nat /\ request[c].bytes <= MaxLength /\ MaxLength \in Nat
      /\ d + server.bytes = request[c].bytes
  BY ServerAssumption, MaxLengthIs DEF ServerTypeOK, Reading
<1>2. m <= Chunk /\ m <= server.bytes
  BY <1>1 DEF Lesser
<1>3. PICK k \in Nat : d = k * Chunk
  BY DEF Reading
<1>4. k \in Parts(c)
  <2>1. k <= d
    BY <1>3, Pieces
  <2>2. d < request[c].bytes
    BY <1>1, <1>2
  <2>3. k \in 0 .. MaxLength
    BY <1>1, <2>1, <2>2
  <2> QED
    BY <1>3, <2>2, <2>3 DEF Parts
<1>5. /\ offset'[c] = Read(offset[c], m).offset
      /\ \A i \in 1 .. MaxLength : i \notin d + 1 .. d + m => got'[c][i] = got[c][i]
      /\ \A j \in 1 .. Within(offset[c], m) :
            d + j \in 1 .. MaxLength => got'[c][d + j] = Read(offset[c], m).data[j]
  BY <1>2, Copies
<1>6. \A i \in 1 .. MaxLength : i > d + m => got'[c][i] = Junk
  <2> SUFFICES ASSUME NEW i \in 1 .. MaxLength, i > d + m PROVE got'[c][i] = Junk
    OBVIOUS
  <2>1. i \notin d + 1 .. d + m /\ i > d
    BY <1>1
  <2>2. got[c][i] = Junk
    BY <2>1 DEF Reading, Progress
  <2> QED
    BY <1>5, <2>1, <2>2
<1>7. ASSUME Unsplit(c, d)
      PROVE  /\ Holds(got'[c], s, d + m, MaxLength)
             /\ ~Split(c, k) => offset'[c] = s + Within(s, d + m)
  <2> DEFINE o == offset[c]
  <2>1. /\ o = s + Within(s, d)
        /\ Holds(got[c], s, d, MaxLength)
    BY <1>7 DEF Reading, Progress
  <2> HIDE DEF o
  <2>2. Copied(got[c], got'[c], d, m, o, MaxLength)
    BY <1>5 DEF o, Copied
  <2>0. s \in Nat /\ d \in Nat /\ m \in Nat /\ o = s + Within(s, d) /\ MaxLength \in Nat
    BY <1>1, <2>1
  <2>3. LastPart(s + d, Within(s + d, m)) = 0 => Read(o, m).offset = s + Within(s, d + m)
    <3>1. ReadsOn(s, d, m, o)
      BY <2>0, ReadOn
    <3> QED
      BY <3>1 DEF ReadsOn
  <2>4. Holds(got'[c], s, d + m, MaxLength)
    BY <2>0, <2>1, <2>2, ReadAfter
  <2>5. ASSUME ~Split(c, k) PROVE offset'[c] = s + Within(s, d + m)
    <3>1. request[c].bytes - k * Chunk = server.bytes
      BY <1>1, <1>3
    <3>2. LastPart(s + d, Within(s + d, m)) = 0
      BY <1>3, <2>5, <3>1 DEF Split
    <3> QED
      BY <1>5, <2>3, <3>2 DEF o
  <2> QED
    BY <2>4, <2>5
<1> QED
  BY <1>3, <1>4, <1>6, <1>7

\* A chunk more: the piece is whole, and as long as it was not split the next
\* begins where the file now is.
LEMMA ChunkStep ==
    ASSUME ServerTypeOK, LineInv, ReadsInv, ReadChunk, NEW c, c = server.client
    PROVE  Reading(c)' /\ server'.at = "read"
<1>1. server.at = "read" /\ c \in Client /\ request' = request
  BY Serving
<1>2. Reading(c)
  BY <1>1 DEF ReadsInv, Serves, InHand
<1>3. /\ Chunk \in Nat \ {0} /\ server.bytes \in Nat /\ server.done \in Nat
      /\ server.bytes > Chunk /\ ReadAndCopy(Chunk) /\ MoreToCome
  BY ServerAssumption DEF ServerTypeOK, ReadChunk, MoreToCome
<1>4. Chunk = Lesser(Chunk, server.bytes) /\ 0 < Chunk /\ Chunk <= server.bytes /\ Chunk <= Chunk
  BY <1>3 DEF Lesser
<1>5. /\ server'.done = server.done + Chunk /\ server'.bytes = server.bytes - Chunk
      /\ server'.at = "read"
  BY <1>1, <1>3, <1>4, Copies
<1> DEFINE s == request[c].start  d == server.done
<1>6. PICK k \in Parts(c) :
         /\ d = k * Chunk
         /\ Unsplit(c, d) => Holds(got'[c], s, d + Chunk, MaxLength)
         /\ Unsplit(c, d) /\ ~Split(c, k) => offset'[c] = s + Within(s, d + Chunk)
         /\ \A i \in 1 .. MaxLength : i > d + Chunk => got'[c][i] = Junk
  BY <1>1, <1>2, <1>3, <1>4, Advances
<1>7. k \in Nat /\ (k + 1) * Chunk = d + Chunk
  BY <1>6, Pieces DEF Parts
<1>8. /\ Parts(c)' = Parts(c)
      /\ \A j : Split(c, j)' <=> Split(c, j)
  BY <1>1 DEF Parts, Split
<1>9. Unsplit(c, server.done)' => Unsplit(c, d) /\ ~Split(c, k)
  <2> SUFFICES ASSUME Unsplit(c, server.done)' PROVE Unsplit(c, d) /\ ~Split(c, k)
    OBVIOUS
  <2>1. \A j \in Parts(c) : (j + 1) * Chunk <= d + Chunk => ~Split(c, j)
    BY <1>5, <1>8 DEF Unsplit
  <2>2. ASSUME NEW j \in Parts(c), (j + 1) * Chunk <= d PROVE ~Split(c, j)
    <3>1. (j + 1) * Chunk \in Nat
      BY <1>3 DEF Parts
    <3>2. (j + 1) * Chunk <= d + Chunk
      BY <1>3, <2>2, <3>1
    <3> QED
      BY <2>1, <3>2
  <2>3. ~Split(c, k)
    <3>1. d + Chunk <= d + Chunk
      BY <1>3
    <3> QED
      BY <1>6, <1>7, <2>1, <3>1
  <2> QED
    BY <2>2, <2>3 DEF Unsplit
<1>10. Progress(c, server.done)'
  BY <1>1, <1>5, <1>6, <1>9 DEF Progress
<1>11. server'.done + server'.bytes = request'[c].bytes /\ server'.bytes > 0
  <2>1. server.done + server.bytes = request[c].bytes
    BY <1>2 DEF Reading
  <2>2. request'[c].bytes = request[c].bytes
    BY <1>1
  <2> QED
    BY <1>3, <1>5, <2>1, <2>2
<1>12. \E j \in Nat : server'.done = j * Chunk
  BY <1>5, <1>7
<1> QED
  BY <1>1, <1>2, <1>5, <1>10, <1>11, <1>12 DEF Reading

\* What has been read when it is all there is to read.
LEMMA AllRead ==
    ASSUME ServerTypeOK, NEW c \in Client, NEW d, d = server.done, d \in Nat,
           \A k \in Parts(c) : (k + 1) * Chunk <= d => k + 1 \in Parts(c),
           UNCHANGED request,
           Unsplit(c, d) => Holds(got'[c], request[c].start, request[c].bytes, MaxLength),
           (Unsplit(c, d) /\ \A k \in Parts(c) : ~Split(c, k)) =>
              offset'[c] = request[c].start + Within(request[c].start, request[c].bytes),
           \A i \in 1 .. MaxLength : i > request[c].bytes => got'[c][i] = Junk
    PROVE  Delivers(c)' /\ Keeps(c)'
<1> DEFINE s == request[c].start  n == request[c].bytes
<1>1. s \in Nat /\ n \in Nat /\ n <= MaxLength /\ MaxLength \in Nat /\ request'[c] = request[c]
  BY MaxLengthIs DEF ServerTypeOK
<1>2. /\ Parts(c)' = Parts(c)
      /\ \A k : Split(c, k)' <=> Split(c, k)
  BY <1>1 DEF Parts, Split
<1>3. ASSUME \A k \in Parts(c)' : k + 1 \in Parts(c)' => ~Split(c, k)'
      PROVE  Delivered(c)'
  <2>1. Holds(got'[c], s, n, MaxLength)
    BY <1>2, <1>3 DEF Unsplit
  <2>2. Within(s, n) \in Nat /\ Within(s, n) <= n
    BY <1>1, FileAssumption DEF Within, Lesser
  <2>3. Expected(s, n) = [i \in 1 .. Within(s, n) |-> s + i - 1]
    BY DEF Expected
  <2>4. Len(Expected(s, n)) = Within(s, n)
    BY <2>2, <2>3
  <2>5. \A i \in 1 .. MaxLength : i <= Len(Expected(s, n)) => got'[c][i] = Expected(s, n)[i]
    BY <2>1, <2>2, <2>3, <2>4 DEF Holds
  <2> QED
    BY <1>1, <2>5 DEF Delivered
<1>4. ASSUME \A k \in Parts(c)' : ~Split(c, k)'
      PROVE  offset'[c] = s + Within(s, n)
  BY <1>2, <1>4 DEF Unsplit
<1> QED
  BY <1>1, <1>3, <1>4 DEF Delivers, Keeps

LEMMA LastStep ==
    ASSUME ServerTypeOK, LineInv, ReadsInv, ReadLast, NEW c, c = server.client
    PROVE  Served(c)' /\ server'.at = "reply"
<1> DEFINE s == request[c].start  d == server.done  n == request[c].bytes  m == server.bytes
<1>1. server.at = "read" /\ c \in Client /\ request' = request
  BY Serving
<1>2. Reading(c)
  BY <1>1 DEF ReadsInv, Serves, InHand
<1>3. /\ Chunk \in Nat \ {0} /\ m \in Nat /\ d \in Nat /\ n \in Nat /\ s \in Nat
      /\ m <= Chunk /\ ~MoreToCome /\ d + m = n /\ n <= MaxLength /\ MaxLength \in Nat
  BY <1>1, <1>2, ServerAssumption, MaxLengthIs DEF ServerTypeOK, ReadLast, MoreToCome, Reading
<1>4. request[c].command = "read" /\ request'[c].command = "read"
  BY <1>1, <1>2 DEF Reading
<1>5. ASSUME m > 0 PROVE Delivers(c)' /\ Keeps(c)' /\ server'.at = "reply"
  <2>1. ReadAndCopy(m)
    BY <1>5 DEF ReadLast
  <2>2. m = Lesser(Chunk, m) /\ 0 < m /\ m <= m
    BY <1>3, <1>5 DEF Lesser
  <2>3. server'.at = "reply"
    BY <1>1, <1>3, <2>1, <2>2, Copies
  <2>4. PICK k \in Parts(c) :
           /\ d = k * Chunk
           /\ Unsplit(c, d) => Holds(got'[c], s, d + m, MaxLength)
           /\ Unsplit(c, d) /\ ~Split(c, k) => offset'[c] = s + Within(s, d + m)
           /\ \A i \in 1 .. MaxLength : i > d + m => got'[c][i] = Junk
    BY <1>1, <1>2, <1>3, <2>1, <2>2, Advances
  <2>5. ASSUME NEW j \in Parts(c), (j + 1) * Chunk <= d PROVE j + 1 \in Parts(c)
    <3>1. j \in Nat /\ j + 1 \in Nat /\ (j + 1) * Chunk \in Nat /\ j + 1 <= (j + 1) * Chunk
      BY <2>5, Pieces DEF Parts
    <3>2. (j + 1) * Chunk < n /\ j + 1 <= MaxLength
      BY <1>3, <1>5, <2>5, <3>1
    <3> QED
      BY <3>1, <3>2, <1>3 DEF Parts
  <2> HIDE DEF d, m, n, s
  <2>6. d + m = n
    BY <1>3
  <2> QED
    BY <1>1, <1>3, <2>3, <2>4, <2>5, <2>6, AllRead DEF d, n, s
<1>6. ASSUME ~(m > 0) PROVE Delivers(c)' /\ Keeps(c)' /\ server'.at = "reply"
  <2>1. server'.at = "reply" /\ offset' = offset /\ got' = got
    BY <1>6 DEF ReadLast, fileVars, ServerTypeOK
  <2>2. d = 0 /\ n = 0
    BY <1>2, <1>3, <1>6 DEF Reading
  <2>3. Parts(c) = {}
    <3>1. \A k \in 0 .. MaxLength : ~(k * Chunk < n)
      BY <1>3, <2>2, Pieces
    <3> QED
      BY <3>1 DEF Parts
  <2>4. Unsplit(c, d)
    BY <2>3 DEF Unsplit
  <2>5. /\ offset[c] = s + Within(s, n) /\ Holds(got[c], s, n, MaxLength)
        /\ \A i \in 1 .. MaxLength : i > n => got[c][i] = Junk
    BY <1>2, <2>2, <2>4 DEF Reading, Progress
  <2> QED
    BY <1>1, <1>3, <2>1, <2>3, <2>5, AllRead
<1> QED
  BY <1>1, <1>4, <1>3, <1>5, <1>6 DEF Served

LEMMA ReadsStep ==
    ASSUME ServerTypeOK, LineInv, ReadsInv, Next
    PROVE  ReadsInv'
<1>1. \A b \in Client : Asked(b) /\ Serves(b) /\ (Queued(b) \/ InHand(b) <=> at[b] = "called")
                        /\ ~(Queued(b) /\ InHand(b))
  BY DEF ReadsInv, LineInv
<1>2. ASSUME FollowsNull \/ Prepares PROVE ReadsInv'
  <2>1. UNCHANGED <<calls, at, request, offset, got>>
    BY <1>2 DEF FollowsNull, GoWild, Prepares, lineVars, loaderVars, fileVars
  <2>2. \A b \in Client : (Queued(b)' => Queued(b)) /\ (InHand(b)' => InHand(b) /\ server' = server)
    <3>1. \A b \in Client : Queued(b)' => Queued(b)
      BY <2>1 DEF Queued
    <3>2. CASE FollowsNull
      BY <3>1, <3>2 DEF FollowsNull, GoWild, InHand
    <3>3. CASE Prepares
      <4>1. server'.at \in {"bind", "receive"}
        BY <3>3 DEF Prepares, ServerTypeOK
      <4> QED
        BY <3>1, <4>1 DEF InHand
    <3> QED
      BY <1>2, <3>2, <3>3
  <2>3. ASSUME NEW b \in Client PROVE Asked(b)' /\ Serves(b)'
    BY <1>1, <2>1, <2>2, Others
  <2> QED
    BY <2>3 DEF ReadsInv
<1>3. ASSUME NEW c \in Client, Goes(c) PROVE ReadsInv'
  <2>1. /\ UNCHANGED <<calls, request, offset, got, server>>
        /\ at[c] # "called" /\ at'[c] \notin {"opened", "sought", "loaded"}
        /\ \A b \in Client \ {c} : at'[b] = at[b]
    BY <1>3 DEF Goes, lineVars, fileVars, ServerTypeOK
  <2>2. \A b \in Client : (Queued(b)' <=> Queued(b)) /\ (InHand(b)' <=> InHand(b))
    BY <2>1 DEF Queued, InHand
  <2>3. Asked(c)' /\ Serves(c)'
    BY <1>1, <2>1, <2>2 DEF Asked, Serves
  <2>4. ASSUME NEW b \in Client \ {c} PROVE Asked(b)' /\ Serves(b)'
    BY <1>1, <2>1, <2>2, Others
  <2> QED
    BY <2>3, <2>4 DEF ReadsInv
<1>4. ASSUME NEW c \in Client, at[c] \in Asking, Asks(c) PROVE ReadsInv'
  <2>1. PICK command \in Commands, location \in Nat, bytes \in 0 .. MaxLength :
           /\ command = "read" => at[c] \in {"opened", "sought"}
           /\ Sends(c, Message(command, location, bytes, c))
    BY <1>4 DEF Asks
  <2> DEFINE message == Message(command, location, bytes, c)
  <2>2. /\ message.command = command
        /\ command = "read" =>
              /\ request[c].command = "open" => message.start = 0
              /\ request[c].command = "seek" => message.start = request[c].location
              /\ request[c].command \notin {"open", "seek"} => message.start = offset[c]
    BY MessageIs
  <2> HIDE DEF message
  <2>3. /\ UNCHANGED <<offset, server>>
        /\ at'[c] = "called" /\ request'[c] = message /\ got'[c] = Nothing(MaxLength)
        /\ \A b \in Client \ {c} : at'[b] = at[b] /\ request'[b] = request[b] /\ got'[b] = got[b]
    BY <2>1 DEF Sends, message, ServerTypeOK
  <2>4. \A b \in Client : (Queued(b)' <=> Queued(b) \/ b = c) /\ (InHand(b)' <=> InHand(b))
    BY <2>1, <2>3, Calls DEF InHand
  <2>5. ~InHand(c)'
    BY <1>1, <1>4, <2>4 DEF Asking
  <2>6. ASSUME command = "read" PROVE Progress(c, 0)'
    <3>1. offset[c] \in Nat /\ offset'[c] = message.start
      BY <1>1, <2>1, <2>2, <2>3, <2>6 DEF Asked, ServerTypeOK
    <3>2. Within(message.start, 0) = 0
      BY <2>3, <3>1, FileAssumption DEF Within, Lesser
    <3>3. Holds(got'[c], message.start, 0, MaxLength)
      BY <3>2, MaxLengthIs DEF Holds
    <3>4. \A i \in 1 .. MaxLength : got'[c][i] = Junk
      BY <2>3 DEF Nothing
    <3>5. offset'[c] = message.start + Within(message.start, 0)
      BY <2>3, <3>1, <3>2
    <3> QED
      BY <2>3, <3>3, <3>4, <3>5 DEF Progress
  <2>7. Asked(c)' /\ Serves(c)'
    BY <2>2, <2>3, <2>5, <2>6 DEF Asked, Serves
  <2>8. ASSUME NEW b \in Client \ {c} PROVE Asked(b)' /\ Serves(b)'
    <3>1. (Queued(b)' => Queued(b)) /\ (InHand(b)' => InHand(b) /\ server' = server)
      BY <2>3, <2>4
    <3> QED
      BY <1>1, <2>3, <3>1, Others
  <2> QED
    BY <2>7, <2>8 DEF ReadsInv
<1>5. ASSUME Receive PROVE ReadsInv'
  <2>0. PICK c : c = Head(calls[Server])
    OBVIOUS
  <2>1. c \in Client /\ Queued(c) /\ \A b \in Client : Queued(b)' <=> Queued(b) /\ b # c
    BY <1>5, <2>0, Takes
  <2>2. server.at = "receive" /\ server' = [at |-> GoesOn(request[c].command), client |-> c,
           bytes |-> request[c].bytes, done |-> 0, buffer |-> Nothing(Chunk)]
    BY <1>5, <2>0, Serving
  <2>3. offset' = [offset EXCEPT ![c] = Sought(c)] /\ UNCHANGED <<at, request, got>>
    BY <1>5, <2>0 DEF Receive, loaderVars
  <2>4. \A b \in Client \ {c} : ~InHand(b)' /\ offset'[b] = offset[b]
    BY <2>1, <2>2, <2>3 DEF InHand, ServerTypeOK
  <2>5. offset'[c] = Sought(c) /\ InHand(c)' /\ ~Queued(c)'
        /\ server'.at = GoesOn(request[c].command) /\ server'.done = 0 /\ server'.bytes = request[c].bytes
    BY <2>1, <2>2, <2>3 DEF InHand, GoesOn, ServerTypeOK
  <2>6. ASSUME request[c].command = "read" PROVE Reading(c)'
    <3>1. offset'[c] = offset[c]
      BY <2>5, <2>6 DEF Sought
    <3>2. Progress(c, 0)'
      <4>1. Progress(c, 0)
        BY <1>1, <2>1, <2>6 DEF Serves
      <4> QED
        BY <2>1, <2>3, <3>1, <4>1, SameRead
    <3>3. Progress(c, server.done)'
      BY <2>5, <3>2 DEF Progress, Unsplit
    <3>4. request[c].bytes \in Nat /\ 0 * Chunk = 0
      BY <2>1, MaxLengthIs, ServerAssumption DEF ServerTypeOK
    <3>5. \E k \in Nat : server'.done = k * Chunk
      BY <2>5, <3>4
    <3> QED
      BY <2>3, <2>5, <2>6, <3>3, <3>4, <3>5 DEF Reading
  <2>7. ASSUME request[c].command # "read" PROVE Served(c)'
    <3>1. request[c].command = "open" => Sought(c) = 0
      BY DEF Sought
    <3>2. request[c].command = "seek" => Sought(c) = request[c].location
      BY DEF Sought
    <3> QED
      BY <2>3, <2>5, <2>7, <3>1, <3>2 DEF Served
  <2>8. Asked(c)' /\ Serves(c)'
    <3>1. at'[c] = "called"
      BY <1>1, <2>1, <2>3
    <3> QED
      BY <2>5, <2>6, <2>7, <3>1 DEF Asked, Serves, GoesOn
  <2>9. ASSUME NEW b \in Client \ {c} PROVE Asked(b)' /\ Serves(b)'
    BY <1>1, <2>1, <2>3, <2>4, Others
  <2> QED
    BY <2>8, <2>9 DEF ReadsInv
<1>6. ASSUME ReadChunk \/ ReadLast PROVE ReadsInv'
  <2>0. PICK c : c = server.client
    OBVIOUS
  <2>1. /\ server.at = "read" /\ c \in Client /\ server'.client = c
        /\ UNCHANGED <<calls, at, request>>
    BY <1>6, <2>0, Serving
  <2>2. \A b \in Client \ {c} : offset'[b] = offset[b] /\ got'[b] = got[b]
    <3>1. ASSUME NEW m, ReadAndCopy(m) PROVE \A b \in Client \ {c} : offset'[b] = offset[b] /\ got'[b] = got[b]
      BY <2>0, <2>1, <3>1 DEF ReadAndCopy, ServerTypeOK
    <3> QED
      BY <1>6, <3>1 DEF ReadChunk, ReadLast, fileVars
  <2>3. /\ ReadChunk => Reading(c)' /\ server'.at = "read"
        /\ ReadLast => Served(c)' /\ server'.at = "reply"
    BY <2>0, ChunkStep, LastStep
  <2>4. /\ InHand(c) /\ ~Queued(c) /\ at[c] = "called"
        /\ \A b \in Client \ {c} : ~InHand(b)'
        /\ \A b \in Client : Queued(b)' <=> Queued(b)
    BY <1>1, <2>0, <2>1 DEF InHand, Queued
  <2>5. Asked(c)' /\ Serves(c)'
    BY <1>6, <2>1, <2>3, <2>4 DEF Asked, Serves
  <2>6. ASSUME NEW b \in Client \ {c} PROVE Asked(b)' /\ Serves(b)'
    BY <1>1, <2>1, <2>2, <2>4, Others
  <2> QED
    BY <2>5, <2>6 DEF ReadsInv
<1>7. ASSUME Reply PROVE ReadsInv'
  <2>0. PICK c : c = server.client
    OBVIOUS
  <2>1. /\ server.at = "reply" /\ c \in Client /\ server'.at = "receive"
        /\ UNCHANGED <<calls, request, offset, got>>
        /\ at' = [at EXCEPT ![c] = Answered(c)]
    BY <1>7, <2>0, Serving
  <2>2. at'[c] = Answered(c) /\ \A b \in Client \ {c} : at'[b] = at[b]
    BY <2>1 DEF ServerTypeOK
  <2>3. InHand(c) /\ ~Queued(c) /\ \A b \in Client : ~InHand(b)' /\ (Queued(b)' <=> Queued(b))
    BY <1>1, <2>0, <2>1 DEF InHand, Queued
  <2>4. Served(c)
    BY <1>1, <2>1, <2>3 DEF Serves
  <2>5. (Delivers(c)' <=> Delivers(c)) /\ (Keeps(c)' <=> Keeps(c))
    BY <2>1, SameRead
  <2>6. /\ Answered(c) = "opened" => request[c].command = "open"
        /\ Answered(c) = "loaded" => request[c].command = "read"
        /\ Answered(c) = "sought" => request[c].command \in {"seek", "skip"}
    BY DEF Answered
  <2>7. Asked(c)' /\ Serves(c)'
    BY <2>1, <2>2, <2>3, <2>4, <2>5, <2>6 DEF Asked, Serves, Served
  <2>8. ASSUME NEW b \in Client \ {c} PROVE Asked(b)' /\ Serves(b)'
    BY <1>1, <2>1, <2>2, <2>3, Others
  <2> QED
    BY <2>7, <2>8 DEF ReadsInv
<1> QED
  BY <1>2, <1>3, <1>4, <1>5, <1>6, <1>7, Steps

-----------------------------------------------------------------------------
(* The theorems *)

LEMMA ServerStarts ==
    ASSUME Init
    PROVE  ServerInv
<1>1. /\ calls = [q \in {Server} |-> <<>>] /\ serving = [b \in Client \cup {Server} |-> {}]
      /\ freePipes = Pipes /\ bound = FALSE /\ joined = FALSE /\ wild = FALSE
      /\ at = [b \in Client |-> "exec"]
      /\ request = [b \in Client |-> [command |-> "close", location |-> 0, bytes |-> 0, start |-> 0]]
      /\ offset = [b \in Client |-> 0] /\ got = [b \in Client |-> Nothing(MaxLength)]
      /\ server = [at |-> "create", client |-> Server, bytes |-> 0, done |-> 0, buffer |-> Nothing(Chunk)]
  BY DEF Init, Line!Init
<1>2. calls[Server] = <<>> /\ Len(calls[Server]) = 0 /\ \A b \in Client : at[b] = "exec"
  BY <1>1
<1>3. \A b \in Client : ~Queued(b) /\ ~InHand(b)
  BY <1>1, <1>2 DEF Queued, InHand
<1>4. ServerTypeOK
  <2>1. Nothing(MaxLength) \in [1 .. MaxLength -> Int] /\ Nothing(Chunk) \in [1 .. Chunk -> Int]
    BY DEF Nothing, Junk
  <2>2. 0 \in 0 .. MaxLength /\ Pipes \in 0 .. Pipes
    BY MaxLengthIs, ServerAssumption
  <2>3. calls \in [{Server} -> Seq(Client)] /\ serving \in [Client \cup {Server} -> SUBSET Client]
    BY <1>1
  <2>4. /\ request \in [Client -> [command : Commands, location : Nat, bytes : 0 .. MaxLength, start : Nat]]
        /\ offset \in [Client -> Nat] /\ got \in [Client -> [1 .. MaxLength -> Int]]
        /\ at \in [Client -> Places]
    BY <1>1, <2>1, <2>2 DEF Commands, Places
  <2>5. server \in [at : {"create", "bind", "receive", "read", "reply"}, client : Client \cup {Server},
                    bytes : Nat, done : Nat, buffer : [1 .. Chunk -> Int]]
    BY <1>1, <2>1
  <2> QED
    BY <1>1, <2>2, <2>3, <2>4, <2>5 DEF ServerTypeOK
<1>5. LineInv
  BY <1>1, <1>2, <1>3 DEF LineInv
<1>6. JoinedInv /\ WildOnly
  BY <1>1, <1>2 DEF JoinedInv, WildOnly
<1>7. ReadsInv
  BY <1>2, <1>3 DEF ReadsInv, Asked, Serves
<1> QED
  BY <1>4, <1>5, <1>6, <1>7 DEF ServerInv

LEMMA ServerStays ==
    ASSUME ServerInv, UNCHANGED vars
    PROVE  ServerInv'
<1>1. UNCHANGED <<calls, serving, freePipes, bound, joined, at, request, offset, got, server, wild>>
  BY DEF vars, lineVars, loaderVars, fileVars
<1>2. ServerTypeOK'
  BY <1>1 DEF ServerInv, ServerTypeOK
<1>3. \A b \in Client : (Queued(b)' <=> Queued(b)) /\ (InHand(b)' <=> InHand(b))
  BY <1>1 DEF Queued, InHand
<1>4. LineInv'
  BY <1>1, <1>3 DEF ServerInv, LineInv
<1>5. JoinedInv' /\ WildOnly'
  BY <1>1 DEF ServerInv, JoinedInv, WildOnly
<1>6. ASSUME NEW b \in Client PROVE Asked(b)' /\ Serves(b)'
  BY <1>1, <1>3, Others DEF ServerInv, ReadsInv
<1> QED
  BY <1>2, <1>4, <1>5, <1>6 DEF ServerInv, ReadsInv

\* The inductive invariant: types, the line and the hands, the shared pipe, and
\* how far each read has come.
THEOREM ServerInvariant == Spec => []ServerInv
<1>1. Init => ServerInv
  BY ServerStarts
<1>2. ServerInv /\ Next => ServerInv'
  BY TypeStep, LineStep, JoinedStep, WildStep, ReadsStep DEF ServerInv
<1>3. ServerInv /\ UNCHANGED vars => ServerInv'
  BY ServerStays
<1> QED
  BY <1>1, <1>2, <1>3, PTL DEF Spec

\* fread() delivers the bytes of the file it was called at, in order, and
\* writes nothing past what was asked for, whatever other loaders do with the
\* server meanwhile: ReadDelivers, for any sizes of blocks, buffers, files and
\* reads, as long as no read of serve() but the last ends in a last part.
THEOREM FreadDelivers == Spec => []ReadDelivers
<1>1. ServerInv => ReadDelivers
  BY DEF ServerInv, ReadsInv, Asked, Delivers, HasRead, ReadDelivers
<1> QED
  BY <1>1, ServerInvariant, PTL

\* fread() leaves the file where its bytes end, and no other loader moves it:
\* PositionKept, as long as no read of serve() ends in a last part.
THEOREM FreadKeepsPosition == Spec => []PositionKept
<1>1. ServerInv => PositionKept
  BY DEF ServerInv, ReadsInv, Asked, Keeps, HasRead, PositionKept
<1> QED
  BY <1>1, ServerInvariant, PTL

\* The kernel follows NULL only out of a dry pool, or by ATOSE_file_pipe while a
\* loader has made it and not connected it: WildOnly, for any number of loaders.
THEOREM NullOnlyBetween == Spec => []WildOnly
<1>1. ServerInv => WildOnly
  BY DEF ServerInv
<1> QED
  BY <1>1, ServerInvariant, PTL

=============================================================================
