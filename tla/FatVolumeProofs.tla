-------------------------- MODULE FatVolumeProofs --------------------------
(***************************************************************************)
(* A table of chains, written one sector at a time, through refusals and   *)
(* power failures.  Five invariants, the last two on top of the first ones: *)
(*                                                                         *)
(*   TypeInv     the table, the directories, and what fits a call's state  *)
(*   MisledInv   unlink() frees clusters only after a write was refused    *)
(*   SoundInv    in the first copy a cluster follows one other at most,    *)
(*               and a free one none; the other copies link as the first   *)
(*               does or not at all; the sector at hand is still that of   *)
(*               the table, but for the entry that is about to change      *)
(*   SettledInv  while nothing is refused: the copies agree, and the count *)
(*               of free clusters, but for the entry that is being written *)
(*   FreshInv    a cluster that is allocated has not been a directory      *)
(***************************************************************************)
EXTENDS FatVolume, FiniteSetTheorems, WellFoundedInduction, TLAPS

-----------------------------------------------------------------------------
(* Sectors and entries *)

\* A set of numbers that is not empty has a least one.
LEMMA LeastOf ==
    ASSUME NEW S, S \subseteq Nat, S # {}
    PROVE  Min(S) \in S /\ \A y \in S : Min(S) <= y
<1> DEFINE R == {ss \in Nat \X Nat : ss[1] < ss[2]}
<1>1. IsWellFoundedOn(R, Nat)
  BY NatLessThanWellFounded DEF OpToRel
<1>2. PICK x \in S : \A y \in S : ~ (<<y, x>> \in R)
  BY <1>1, WFMin
<1>3. ASSUME NEW y \in S PROVE x <= y
  <2>1. <<y, x>> \notin R /\ y \in Nat /\ x \in Nat
    BY <1>2
  <2>2. ~(y < x)
    BY <2>1
  <2> QED
    BY <2>1, <2>2
<1> QED
  BY <1>3 DEF Min

\* The greater of two numbers.
LEMMA MaxOfTwo ==
    ASSUME NEW a \in Nat, NEW b \in Nat
    PROVE  Max({a, b}) \in {a, b} /\ Max({a, b}) >= a /\ Max({a, b}) >= b
<1>1. \E x \in {a, b} : \A y \in {a, b} : x >= y
  <2>1. a >= b \/ b >= a
    OBVIOUS
  <2> QED
    BY <2>1
<1>2. Max({a, b}) = CHOOSE x \in {a, b} : \A y \in {a, b} : x >= y
  BY DEF Max
<1> DEFINE m == Max({a, b})
<1>3. m \in {a, b} /\ \A y \in {a, b} : m >= y
  BY <1>1, <1>2
<1> QED
  BY <1>3

\* The constants.
LEMMA Sizes ==
    /\ {Copies, Sectors, PerSector, Half, Slots, Parts, Block} \subseteq Nat \ {0}
    /\ EOF \in Nat /\ EOF >= 3 /\ 1 \in 1..Copies
    /\ Entry \subseteq Nat /\ Cluster \subseteq Nat /\ Cluster \subseteq Entry /\ IsFiniteSet(Entry)
    /\ \A c \in Entry : c < EOF
    /\ Root \in Entry
    /\ 0 \in Entry /\ 1 \in Entry /\ EOF \notin Entry /\ EOF \notin Cluster
<1> DEFINE n == Sectors * PerSector
<1>1. {Copies, Sectors, PerSector, Half, Slots, Parts, Block} \subseteq Nat \ {0}
  BY FatAssumption
<1>2. EOF \in Nat /\ n \in Nat /\ n <= EOF
  BY FatAssumption DEF EOF
<1>3. Entry = 0..(n - 1)
  BY <1>2 DEF Entry
<1> HIDE DEF n
<1>4. Cluster = 2..(n - 1)
  BY <1>2, <1>3 DEF Cluster
<1>5. n >= 3
  BY <1>2, <1>4, FatAssumption
<1>6. 1 \in 1..Copies
  BY <1>1
<1>7. IsFiniteSet(Entry)
  BY <1>2, <1>3, FS_Interval
<1>8. Root \in Entry
  BY FatAssumption DEF Cluster
<1> QED
  BY <1>1, <1>2, <1>3, <1>4, <1>5, <1>6, <1>7, <1>8

\* Where an entry of the table is.
LEMMA Division ==
    ASSUME NEW d \in Nat \ {0}, NEW x \in Nat
    PROVE  /\ x \div d \in Nat /\ x % d \in 0..(d - 1)
           /\ (x \div d) * d + (x % d) = x
           /\ \A n \in Nat : x < n * d => x \div d < n
  OBVIOUS

LEMMA DivisionAt ==
    ASSUME NEW d \in Nat \ {0}, NEW q \in Nat, NEW p \in 0..(d - 1)
    PROVE  (q * d + p) \div d = q /\ (q * d + p) % d = p
  OBVIOUS

LEMMA DivisionGrows ==
    ASSUME NEW d \in Nat \ {0}, NEW x \in Nat, NEW y \in Nat, x <= y
    PROVE  x \div d <= y \div d
<1>1. d * (x \div d) <= x /\ x \div d \in Nat
  OBVIOUS
<1>2. d * (x \div d) <= y
  <2> DEFINE m == d * (x \div d)
  <2>1. m \in Nat /\ m <= x
    BY <1>1
  <2> HIDE DEF m
  <2>2. m <= y
    BY <2>1
  <2> QED
    BY <2>2 DEF m
<1>3. \A e \in Nat : d * e <= y => e <= y \div d
  OBVIOUS
<1> QED
  BY <1>1, <1>2, <1>3

\* The last number of a sector is less than the size of the table.
LEMMA ProductGrows ==
    ASSUME NEW d \in Nat \ {0}, NEW n \in Nat, NEW q \in Nat, NEW p \in 0..(d - 1), q < n
    PROVE  q * d + p \in Nat /\ q * d + p < n * d
<1>1. PICK r \in Nat : n = q + 1 + r
  <2>1. n - q - 1 \in Nat
    OBVIOUS
  <2> QED
    BY <2>1
<1>2. n * d = q * d + d + r * d /\ r * d \in Nat /\ q * d \in Nat /\ n * d \in Nat
  BY <1>1
<1> DEFINE a == q * d  b == r * d  e == n * d
<1>3. a \in Nat /\ b \in Nat /\ e = a + d + b
  BY <1>2
<1> HIDE DEF a, b, e
<1>4. a + p \in Nat /\ a + p < e
  BY <1>3
<1> QED
  BY <1>4 DEF a, e

LEMMA Positions ==
    ASSUME NEW c \in Entry
    PROVE  /\ c \div PerSector \in 0..(Sectors - 1) /\ c % PerSector \in 0..(PerSector - 1)
           /\ (c \div PerSector) * PerSector + (c % PerSector) = c
<1>1. PerSector \in Nat \ {0} /\ Sectors \in Nat \ {0} /\ c \in Nat /\ c < Sectors * PerSector
  <2> DEFINE n == Sectors * PerSector
  <2>1. n \in Nat /\ Entry = 0..(n - 1)
    BY Sizes DEF Entry
  <2> HIDE DEF n
  <2>2. c \in Nat /\ c < n
    BY <2>1
  <2> QED
    BY <2>2, Sizes DEF n
<1>2. /\ c \div PerSector \in Nat /\ c % PerSector \in 0..(PerSector - 1)
      /\ (c \div PerSector) * PerSector + (c % PerSector) = c
      /\ c \div PerSector < Sectors
  BY <1>1, Division
<1> QED
  BY <1>1, <1>2

LEMMA EntryAt ==
    ASSUME NEW q \in 0..(Sectors - 1), NEW p \in 0..(PerSector - 1)
    PROVE  /\ q * PerSector + p \in Entry
           /\ (q * PerSector + p) \div PerSector = q /\ (q * PerSector + p) % PerSector = p
<1>1. PerSector \in Nat \ {0} /\ Sectors \in Nat \ {0}
  BY Sizes
<1>2. q \in Nat /\ q < Sectors
  BY <1>1
<1> DEFINE c == q * PerSector + p
<1>3. c \in Nat /\ c < Sectors * PerSector
  BY <1>1, <1>2, ProductGrows
<1>4. c \div PerSector = q /\ c % PerSector = p
  BY <1>1, <1>2, DivisionAt
<1> HIDE DEF c
<1>5. c \in Entry
  <2> DEFINE n == Sectors * PerSector
  <2>1. n \in Nat /\ c < n /\ Entry = 0..(n - 1)
    BY <1>1, <1>3 DEF Entry
  <2> HIDE DEF n
  <2> QED
    BY <1>3, <2>1
<1> QED
  BY <1>4, <1>5 DEF c

\* Entries are the same when their places are.
LEMMA SamePlace ==
    ASSUME NEW c \in Entry, NEW x \in Entry
    PROVE  c \div PerSector = x \div PerSector /\ c % PerSector = x % PerSector => c = x
<1> SUFFICES ASSUME c \div PerSector = x \div PerSector, c % PerSector = x % PerSector
             PROVE  c = x
  OBVIOUS
<1> QED
  BY Positions

LEMMA SectorOrder ==
    ASSUME NEW c \in Entry, NEW x \in Entry, c <= x
    PROVE  c \div PerSector <= x \div PerSector
<1>1. PerSector \in Nat \ {0} /\ c \in Nat /\ x \in Nat
  BY Sizes
<1> QED
  BY <1>1, DivisionGrows

-----------------------------------------------------------------------------
(* Types.  JobFits says of a job what the steps count on: which directory  *)
(* and which open file it has to do with.                                  *)

Allocating == {"scan", "mark", "reread", "link", "blank"}
Steps      == Allocating \cup {"info", "attributes", "grow"}

\* What an entry of the table may hold.
Links      == Entry \cup {EOF}
SectorType == [0..(PerSector - 1) -> Links]

Allocations ==
    [at : Steps, file : File, for : {"file", "directory"}, last : Entry \cup {EOF},
     need : Nat \ {0}, bytes : Nat, head : Entry, new : Entry, from : Nat,
     copy : 1..Copies, sector : SectorType]

IsOpen(x) ==
    /\ DOMAIN x = {"first", "current", "size", "offset"}
    /\ x.size \in Nat /\ x.offset \in Nat

IsDirectory(d) == DOMAIN d = 1..Slots /\ \A i \in 1..Slots : d[i].size \in Nat

TableType      == fat \in [1..Copies -> [Entry -> Links]]
Directories(s) == DOMAIN s = Entry /\ \A c \in Entry : s[c] = <<>> \/ IsDirectory(s[c])
OpenFiles(o)   == DOMAIN o = File /\ \A f \in File : o[f] = Null \/ IsOpen(o[f])

ForFile(j, o) == j.file \in File /\ IsOpen(o[j.file]) /\ j.bytes \in Nat
ForDirectory(j, s) == j.need = 1 /\ j.last \in Entry /\ IsDirectory(s[j.last])

JobFits(j, s, o) ==
    /\ j.at \in Steps =>
          /\ j \in Allocations
          /\ j.for = "file" => ForFile(j, o)
          /\ j.for = "directory" => ForDirectory(j, s)
    /\ j.at \in {"info", "attributes"} => j.for = "file"
    /\ j.at = "grow" => j.for = "directory"
    /\ j.at \in {"reread", "link"} => j.last \in Entry
    /\ j.at = "data" => ForFile(j, o)
    /\ j.at = "delete" => j.file \in File
    /\ j.at = "slots" =>
          /\ DOMAIN j = {"at", "file", "for", "dir", "found"} /\ j.for = "directory"
          /\ j.file \in File /\ j.dir \in Entry
    /\ j.at \in {"unchain", "zero", "count"} => j.for = "unlink" /\ j.file \in File
    /\ j.at = "zero" =>
          /\ DOMAIN j = {"at", "file", "for", "then", "cluster", "cleared", "next", "copy", "sector"}
          /\ j.copy \in 1..Copies /\ j.sector \in SectorType

Numbers == longest \in Nat /\ faults \in Nat

TypeInv ==
    /\ TableType
    /\ Directories(slots)
    /\ OpenFiles(fcb)
    /\ JobFits(job, slots, fcb)
    /\ Numbers

\* What a refused write leaves to do.
LEMMA FailedFits ==
    ASSUME NEW s, JobFits(job, slots, fcb), job.at \in Writing \cup {"scan"}
    PROVE  /\ JobFits(Failed, s, fcb)
           /\ Failed.at = "unchain" <=> job.at = "delete"
           /\ Failed.at \in {"unchain", "data", "idle"}
<1>1. CASE job.at = "delete"
  <2>1. job.file \in File
    BY <1>1 DEF JobFits
  <2>2. Failed.at = "unchain" /\ Failed.for = "unlink" /\ Failed.file = job.file
    BY <1>1 DEF Failed, Misled
  <2> QED
    BY <1>1, <2>1, <2>2 DEF JobFits, Steps, Allocating
<1>2. CASE job.at # "delete" /\ job.for = "file"
  <2>1. job.at \in Steps
    BY <1>2 DEF JobFits, Writing, Steps, Allocating
  <2>2. ForFile(job, fcb)
    BY <1>2, <2>1 DEF JobFits
  <2>3. Failed = [at |-> "data", file |-> job.file, for |-> "file", bytes |-> job.bytes]
    BY <1>2 DEF Failed
  <2>4. ForFile(Failed, fcb)
    BY <2>2, <2>3 DEF ForFile
  <2> QED
    BY <1>2, <2>3, <2>4 DEF JobFits, Steps, Allocating
<1>3. CASE job.at # "delete" /\ job.for # "file"
  BY <1>3 DEF Failed, Idle, JobFits, Steps, Allocating
<1> QED
  BY <1>1, <1>2, <1>3

\* The sectors of a table, and what is put into one.
LEMMA SectorIs ==
    ASSUME TableType
    PROVE  /\ \A q \in 0..(Sectors - 1) : Sector(q) \in SectorType
           /\ \A c \in Entry : Sector(c \div PerSector)[c % PerSector] = fat[1][c]
<1>1. 1 \in 1..Copies
  BY Sizes
<1>2. ASSUME NEW q \in 0..(Sectors - 1)
      PROVE  Sector(q) \in SectorType
  <2>1. \A p \in 0..(PerSector - 1) : fat[1][q * PerSector + p] \in Links
    BY <1>1, EntryAt DEF TableType
  <2> QED
    BY <2>1 DEF Sector, SectorType
<1>3. ASSUME NEW c \in Entry
      PROVE  Sector(c \div PerSector)[c % PerSector] = fat[1][c]
  BY Positions DEF Sector
<1> QED
  BY <1>2, <1>3

LEMMA SectorPut ==
    ASSUME NEW s \in SectorType, NEW p, NEW v \in Links
    PROVE  [s EXCEPT ![p] = v] \in SectorType
  BY DEF SectorType

LEMMA PutType ==
    ASSUME TableType, NEW k \in 1..Copies, NEW q, NEW entries \in SectorType, PutSector(k, q, entries)
    PROVE  TableType'
<1>1. \A c \in Entry : c % PerSector \in 0..(PerSector - 1)
  BY Positions
<1>2. \A c \in Entry : entries[c % PerSector] \in Links
  BY <1>1 DEF SectorType
<1> DEFINE new == [c \in Entry |-> IF c \div PerSector = q THEN entries[c % PerSector] ELSE fat[k][c]]
<1>3. new \in [Entry -> Links]
  BY <1>2 DEF TableType
<1>4. fat' = [fat EXCEPT ![k] = new]
  BY DEF PutSector
<1> HIDE DEF new
<1> QED
  BY <1>3, <1>4 DEF TableType

\* The next step of an allocation has to do with the same file or directory.
LEMMA NextStepFits ==
    ASSUME JobFits(job, slots, fcb), job.at \in Allocating,
           NEW j \in Allocations, j.for = job.for, j.file = job.file, j.bytes = job.bytes,
           job.for = "directory" => j.need = job.need /\ j.last = job.last,
           j.at = "info" => job.for = "file", j.at = "grow" => job.for = "directory",
           j.at # "attributes", j.at \in {"reread", "link"} => j.last \in Entry,
           NEW s, \A c \in Entry : IsDirectory(slots[c]) => IsDirectory(s[c])
    PROVE  JobFits(j, s, fcb)
<1>1. j.at \in Steps
  BY DEF Allocations
<1>2. j.for = "file" => ForFile(j, fcb)
  BY DEF JobFits, ForFile, Steps
<1>3. j.for = "directory" => ForDirectory(j, s)
  BY DEF JobFits, ForDirectory, Steps
<1> QED
  BY <1>1, <1>2, <1>3 DEF JobFits, Steps, Allocating

LEMMA ScanTypes ==
    ASSUME TypeInv, Scan
    PROVE  TypeInv'
<1>1. fat' = fat /\ slots' = slots /\ fcb' = fcb /\ longest' = longest /\ faults' = faults
  BY DEF Scan, Continue, disk, memory, history
<1> DEFINE s == IF job.from = 0 THEN 0 ELSE (job.from - 1) \div PerSector
           here == {c \in Entry : c >= job.from /\ c \div PerSector = s
                                  /\ job.sector[c % PerSector] = 0}
           later == {c \in Entry : c \div PerSector > s /\ fat[1][c] = 0}
           new == Min(IF here # {} THEN here ELSE later)
           sector == IF here # {} THEN job.sector ELSE Sector(new \div PerSector)
           next == [job EXCEPT !.at = "mark", !.new = new, !.copy = 1,
                               !.sector = [sector EXCEPT ![new % PerSector] = EOF]]
<1>2. job.at = "scan" /\ job' = IF here \cup later = {} THEN Failed
                                ELSE IF new \in {0, 1} THEN Wild ELSE next
  BY DEF Scan, Continue
<1>3. job \in Allocations
  BY <1>2 DEF TypeInv, JobFits, Steps, Allocating
<1>4. ASSUME here \cup later # {}
      PROVE  next \in Allocations
  <2>1. Entry \subseteq Nat
    BY Sizes
  <2>2. here \subseteq Entry /\ later \subseteq Entry
    OBVIOUS
  <2> HIDE DEF here, later
  <2>3. new \in Entry
    BY <1>4, <2>1, <2>2, LeastOf
  <2> HIDE DEF new
  <2>4. sector \in SectorType
    BY <1>3, <2>3, SectorIs, Positions DEF TypeInv, Allocations
  <2> HIDE DEF sector
  <2>5. [sector EXCEPT ![new % PerSector] = EOF] \in SectorType
    <3>1. EOF \in Links
      BY Sizes DEF Links
    <3> QED
      BY <2>4, <3>1, SectorPut
  <2>6. 1 \in 1..Copies
    BY Sizes
  <2> QED
    BY <1>3, <2>3, <2>5, <2>6 DEF Allocations, Steps, Allocating
<1>5. here \cup later # {} => next.at = "mark" /\ \A x \in {"for", "file", "bytes", "need", "last"} : next[x] = job[x]
  BY <1>3 DEF Allocations
<1> HIDE DEF here, later, new, next
<1>6. JobFits(job', slots, fcb)
  <2>1. CASE here \cup later = {}
    BY <1>2, <2>1, FailedFits DEF TypeInv
  <2>2. CASE here \cup later # {} /\ new \notin {0, 1}
    <3>1. JobFits(next, slots, fcb)
      BY <1>2, <1>4, <1>5, <2>2, NextStepFits DEF TypeInv, Allocating
    <3> QED
      BY <1>2, <2>2, <3>1
  <2>3. CASE here \cup later # {} /\ new \in {0, 1}
    <3>1. job' = Wild
      BY <1>2, <2>3
    <3> QED
      BY <3>1 DEF JobFits, Wild, Steps, Allocating
  <2> QED
    BY <2>1, <2>2, <2>3
<1> QED
  BY <1>1, <1>6 DEF TypeInv, TableType, Numbers

LEMMA MarkTypes ==
    ASSUME TypeInv, Mark
    PROVE  TypeInv'
<1>1. slots' = slots /\ fcb' = fcb /\ longest' = longest
  BY DEF Mark, Refused, Refuse, Continue, memory, history
<1>2. faults' \in {faults, faults + 1}
  BY DEF Mark, Refused, Refuse, Continue, memory, history
<1>3. job.at = "mark" /\ job \in Allocations
  BY DEF Mark, TypeInv, JobFits, Steps, Allocating
<1>4. TableType'
  BY <1>3, PutType DEF TypeInv, Allocations, Mark
<1>5. \/ job' = Failed
      \/ job.copy # Copies /\ job' = [job EXCEPT !.copy = @ + 1]
      \/ job' = [job EXCEPT !.at = "blank"]
      \/ job.last \notin {0, EOF} /\ job' = [job EXCEPT !.at = "reread"]
  BY DEF Mark, Refused, Continue, LastCopy
<1>6. ASSUME job' # Failed
      PROVE  /\ job' \in Allocations /\ job'.at \in {"mark", "blank", "reread"}
             /\ \A x \in {"for", "file", "bytes", "need", "last"} : job'[x] = job[x]
             /\ job'.at = "reread" => job.last \in Entry
  <2>1. Copies \in Nat
    BY Sizes
  <2>2. CASE job.copy # Copies /\ job' = [job EXCEPT !.copy = @ + 1]
    <3>1. job.copy + 1 \in 1..Copies
      BY <1>3, <2>1, <2>2 DEF Allocations
    <3> QED
      BY <1>3, <2>2, <3>1 DEF Allocations, Steps, Allocating
  <2>3. CASE job' = [job EXCEPT !.at = "blank"]
    BY <1>3, <2>3 DEF Allocations, Steps, Allocating
  <2>4. CASE job.last \notin {0, EOF} /\ job' = [job EXCEPT !.at = "reread"]
    BY <1>3, <2>4 DEF Allocations, Steps, Allocating
  <2> QED
    BY <1>5, <1>6, <2>2, <2>3, <2>4
<1>7. JobFits(job', slots, fcb)
  <2>1. CASE job' = Failed
    BY <1>3, <2>1, FailedFits DEF TypeInv, Writing
  <2>2. CASE job' # Failed
    BY <1>3, <1>6, <2>2, NextStepFits DEF TypeInv, Allocating
  <2> QED
    BY <2>1, <2>2
<1> QED
  BY <1>1, <1>2, <1>4, <1>7 DEF TypeInv, Numbers

LEMMA RereadTypes ==
    ASSUME TypeInv, Reread
    PROVE  TypeInv'
<1>1. job.at = "reread" => job.last \in Entry
  BY DEF TypeInv, JobFits
<1>2. /\ fat' = fat /\ slots' = slots /\ fcb' = fcb /\ longest' = longest /\ faults' = faults
      /\ job.at = "reread"
      /\ job' = [job EXCEPT !.at = "link", !.copy = 1, !.sector = Linked(job.last, job.new)]
  BY DEF Reread, Continue, disk, memory, history
<1>3. job \in Allocations
  BY <1>2 DEF TypeInv, JobFits, Steps, Allocating
<1> DEFINE sector == Linked(job.last, job.new)
<1>4. 1 \in 1..Copies /\ EOF \in Nat /\ Entry \subseteq Links
  BY Sizes DEF Links
<1>5. sector \in SectorType
  <2>1. job.last \in Entry /\ job.new \in Links
    BY <1>1, <1>2, <1>3, <1>4 DEF Allocations
  <2>2. Sector(job.last \div PerSector) \in SectorType
    BY <2>1, SectorIs, Positions DEF TypeInv
  <2> QED
    BY <2>1, <2>2, SectorPut DEF Linked
<1>6. job' = [job EXCEPT !.at = "link", !.copy = 1, !.sector = sector]
  BY <1>2
<1> HIDE DEF sector
<1>7. /\ job' \in Allocations /\ job'.at = "link"
      /\ \A x \in {"for", "file", "bytes", "need", "last"} : job'[x] = job[x]
  BY <1>6, <1>3, <1>4, <1>5 DEF Allocations, Steps, Allocating
<1>8. JobFits(job', slots, fcb)
  BY <1>1, <1>2, <1>7, NextStepFits DEF TypeInv, Allocating
<1> QED
  BY <1>2, <1>8 DEF TypeInv, TableType, Numbers

LEMMA LinkTypes ==
    ASSUME TypeInv, Link
    PROVE  TypeInv'
<1>1. /\ slots' = slots /\ fcb' = fcb /\ longest' = longest
      /\ faults' \in {faults, faults + 1}
  BY DEF Link, Refused, Refuse, Continue, memory, history
<1>2. job.at = "link" /\ job \in Allocations /\ job.last \in Entry
  BY DEF Link, TypeInv, JobFits, Steps, Allocating
<1>3. TableType'
  BY <1>2, PutType DEF TypeInv, Allocations, Link
<1>4. \/ job' = Failed
      \/ job.copy # Copies /\ job' = [job EXCEPT !.copy = @ + 1]
      \/ job' = [job EXCEPT !.at = "blank"]
  BY DEF Link, Refused, Continue, LastCopy
<1>5. ASSUME job' # Failed
      PROVE  /\ job' \in Allocations /\ job'.at \in {"link", "blank"}
             /\ \A x \in {"for", "file", "bytes", "need", "last"} : job'[x] = job[x]
  <2>1. Copies \in Nat
    BY Sizes
  <2>2. CASE job.copy # Copies /\ job' = [job EXCEPT !.copy = @ + 1]
    <3>1. job.copy + 1 \in 1..Copies
      BY <1>2, <2>1, <2>2 DEF Allocations
    <3> QED
      BY <1>2, <2>2, <3>1 DEF Allocations, Steps, Allocating
  <2>3. CASE job' = [job EXCEPT !.at = "blank"]
    BY <1>2, <2>3 DEF Allocations, Steps, Allocating
  <2> QED
    BY <1>4, <1>5, <2>2, <2>3
<1>6. JobFits(job', slots, fcb)
  <2>1. CASE job' = Failed
    BY <1>2, <2>1, FailedFits DEF TypeInv, Writing
  <2>2. CASE job' # Failed
    BY <1>2, <1>5, <2>2, NextStepFits DEF TypeInv, Allocating
  <2> QED
    BY <2>1, <2>2
<1> QED
  BY <1>1, <1>3, <1>6 DEF TypeInv, Numbers

\* A blank cluster is a directory.
LEMMA BlankIs == IsDirectory(Blank)
<1>1. \A i \in 1..Slots : Blank[i] = EndOfList
  BY DEF Blank
<1>2. EndOfList.size = 0 /\ DOMAIN Blank = 1..Slots
  BY DEF EndOfList, Slot, Blank
<1> QED
  BY <1>1, <1>2 DEF IsDirectory

LEMMA WriteBlankTypes ==
    ASSUME TypeInv, WriteBlank
    PROVE  TypeInv'
<1>1. /\ fat' = fat /\ fcb' = fcb /\ longest' = longest /\ faults' \in {faults, faults + 1}
  BY DEF WriteBlank, Refused, Refuse, Continue, memory, history
<1>2. job.at = "blank" /\ job \in Allocations
  BY DEF WriteBlank, TypeInv, JobFits, Steps, Allocating
<1>3. slots' = slots \/ slots' = [slots EXCEPT ![job.new] = Blank]
  BY DEF WriteBlank
<1>4. Directories(slots') /\ \A c \in Entry : IsDirectory(slots[c]) => IsDirectory(slots'[c])
  BY <1>3, BlankIs DEF TypeInv, Directories
<1> DEFINE head == IF job.head = 0 THEN job.new ELSE job.head
<1>5. head \in Entry
  BY <1>2 DEF Allocations
<1> HIDE DEF head
<1>6. \/ job' = Failed
      \/ /\ job.need = 1
         /\ job' = [job EXCEPT !.at = IF job.for = "file" THEN "info" ELSE "grow", !.head = head]
      \/ /\ job.need > 1
         /\ job' = [job EXCEPT !.at = "scan", !.head = head, !.last = job.new,
                               !.from = job.new + 1, !.need = @ - 1]
  BY DEF WriteBlank, Refused, Continue, head
<1>7. JobFits(job', slots', fcb)
  <2>1. CASE job' = Failed
    BY <1>2, <2>1, FailedFits DEF TypeInv, Writing
  <2>2. CASE job.need = 1 /\ job' = [job EXCEPT !.at = IF job.for = "file" THEN "info" ELSE "grow", !.head = head]
    <3>1. /\ job' \in Allocations /\ job'.at \in {"info", "grow"}
          /\ job'.at = "info" <=> job.for = "file"
          /\ job'.at = "grow" <=> job.for = "directory"
          /\ \A x \in {"for", "file", "bytes", "need", "last"} : job'[x] = job[x]
      BY <1>2, <1>5, <2>2 DEF Allocations, Steps, Allocating
    <3> QED
      BY <1>2, <1>4, <3>1, NextStepFits DEF TypeInv, Allocating
  <2>3. CASE /\ job.need > 1
             /\ job' = [job EXCEPT !.at = "scan", !.head = head, !.last = job.new,
                               !.from = job.new + 1, !.need = @ - 1]
    <3>1. job.for = "file"
      BY <1>2, <2>3 DEF Allocations, TypeInv, JobFits, ForDirectory, Steps, Allocating
    <3>2. job.new \in Entry /\ job.need \in Nat \ {0} /\ job.need > 1
      BY <1>2, <2>3 DEF Allocations
    <3>3. job.new + 1 \in Nat /\ job.need - 1 \in Nat \ {0} /\ job.new \in Entry
      <4>1. job.new \in Nat
        BY <3>2, Sizes
      <4> QED
        BY <3>2, <4>1
    <3>4. /\ job' \in Allocations /\ job'.at = "scan"
          /\ \A x \in {"for", "file", "bytes"} : job'[x] = job[x]
      BY <1>2, <1>5, <2>3, <3>3 DEF Allocations, Steps, Allocating
    <3> QED
      BY <1>2, <1>4, <3>1, <3>4, NextStepFits DEF TypeInv, Allocating
  <2> QED
    BY <1>6, <2>1, <2>2, <2>3
<1> QED
  BY <1>1, <1>4, <1>7 DEF TypeInv, TableType, Numbers

\* An open file stays one.
LEMMA OpenStays ==
    ASSUME NEW x, IsOpen(x), NEW v, NEW n \in Nat
    PROVE  /\ IsOpen([x EXCEPT !.size = n]) /\ IsOpen([x EXCEPT !.first = v])
           /\ IsOpen([x EXCEPT !.offset = n]) /\ IsOpen([x EXCEPT !.current = v])
  BY DEF IsOpen

LEMMA BlocksAre ==
    ASSUME NEW bytes \in Nat
    PROVE  InBlocks(bytes) \in Nat
<1>1. Block \in Nat \ {0}
  BY Sizes
<1> DEFINE m == bytes + Block - 1
<1>2. m \in Nat
  BY <1>1
<1> HIDE DEF m
<1>3. m \div Block \in Nat
  BY <1>1, <1>2
<1> QED
  BY <1>3 DEF InBlocks, m

\* A job of an open file that is to begin.
LEMMA NewAllocationFits ==
    ASSUME TableType, NEW f \in File, NEW for \in {"file", "directory"}, NEW last \in Entry \cup {EOF},
           NEW need \in Nat \ {0}, NEW bytes \in Nat, NEW s, NEW o,
           for = "file" => IsOpen(o[f]),
           for = "directory" => need = 1 /\ last \in Entry /\ IsDirectory(s[last])
    PROVE  JobFits(Allocation(f, for, last, need, bytes), s, o)
<1> DEFINE j == Allocation(f, for, last, need, bytes)
<1>1. 0 \in 0..(Sectors - 1) /\ 0 \in Entry /\ 1 \in 1..Copies
  BY Sizes
<1>2. Sector(0) \in SectorType
  BY <1>1, SectorIs
<1>3. /\ j = [at |-> "scan", file |-> f, for |-> for, last |-> last, need |-> need, bytes |-> bytes,
              head |-> 0, new |-> 0, from |-> 0, copy |-> 1, sector |-> Sector(0)]
  BY DEF Allocation
<1> HIDE DEF j
<1>4. j \in Allocations
  BY <1>1, <1>2, <1>3 DEF Allocations, Steps, Allocating
<1>5. j.at = "scan" /\ j.for = for /\ j.file = f /\ j.last = last /\ j.need = need /\ j.bytes = bytes
  BY <1>3
<1>6. JobFits(j, s, o)
  BY <1>4, <1>5 DEF JobFits, ForFile, ForDirectory
<1> QED
  BY <1>6 DEF j

\* What a call of write() starts with.
LEMMA WriteStarts ==
    ASSUME TypeInv, NEW f \in File, NEW n \in Lengths, Write(f, n)
    PROVE  /\ IsOpen(fcb[f]) /\ n \in Nat
           /\ fcb[f].offset + n \in Nat
           /\ InBlocks(fcb[f].offset + n) - InBlocks(fcb[f].size) \in Int
           /\ fcb' = [fcb EXCEPT ![f].size = Max({@, fcb[f].offset + n})]
           /\ Max({fcb[f].size, fcb[f].offset + n}) \in Nat
           /\ OpenFiles(fcb') /\ IsOpen(fcb'[f])
           /\ fat' = fat /\ slots' = slots
<1> DEFINE open == fcb[f]
           end == open.offset + n
<1>1. open # Null /\ fcb' = [fcb EXCEPT ![f].size = Max({@, end})] /\ fat' = fat /\ slots' = slots
  BY DEF Write, disk
<1>2. IsOpen(open)
  BY <1>1 DEF TypeInv, OpenFiles
<1>3. open.offset \in Nat /\ open.size \in Nat /\ n \in Nat
  BY <1>2, FatAssumption DEF IsOpen
<1>4. end \in Nat
  BY <1>3
<1>5. InBlocks(end) \in Nat /\ InBlocks(open.size) \in Nat
  BY <1>3, <1>4, BlocksAre
<1>6. Max({open.size, end}) \in Nat
  BY <1>3, <1>4, MaxOfTwo
<1>7. IsOpen([open EXCEPT !.size = Max({open.size, end})])
  BY <1>2, <1>6, OpenStays
<1>8. InBlocks(end) - InBlocks(open.size) \in Int
  BY <1>5
<1>9. fcb' = [fcb EXCEPT ![f] = [open EXCEPT !.size = Max({open.size, end})]]
  BY <1>1
<1>10. OpenFiles(fcb') /\ IsOpen(fcb'[f])
  BY <1>7, <1>9 DEF TypeInv, OpenFiles
<1> QED
  BY <1>1, <1>2, <1>3, <1>4, <1>6, <1>8, <1>9, <1>10

LEMMA WriteTypes ==
    ASSUME TypeInv, NEW f \in File, NEW n \in Lengths, Write(f, n)
    PROVE  TypeInv' /\ longest' >= longest
<1> DEFINE open == fcb[f]
           end == open.offset + n
           need == InBlocks(end) - InBlocks(open.size)
           data == [at |-> "data", file |-> f, for |-> "file", bytes |-> n]
<1>1. /\ n \in Nat /\ need \in Int /\ OpenFiles(fcb') /\ IsOpen(fcb'[f])
      /\ fat' = fat /\ slots' = slots
  BY WriteStarts
<1>2. \/ job' = data /\ longest' = longest /\ faults' = faults
      \/ job' = Hung /\ longest' = longest /\ faults' = faults
      \/ /\ need > 0 /\ open.current \in {0, EOF}
         /\ job' = Allocation(f, "file", open.current, need, n)
         /\ longest' = Max({longest, need}) /\ faults' = faults
  BY DEF Write, Call
<1> HIDE DEF need
<1>3. longest' \in Nat /\ longest' >= longest /\ faults' \in Nat
  <2>1. need > 0 => Max({longest, need}) \in Nat /\ Max({longest, need}) >= longest
    BY <1>1, MaxOfTwo DEF TypeInv, Numbers
  <2> QED
    BY <1>2, <2>1 DEF TypeInv, Numbers
<1>4. JobFits(job', slots, fcb')
  <2>1. CASE job' = data
    BY <1>1, <2>1 DEF JobFits, ForFile, Steps, Allocating
  <2>2. CASE job' = Hung
    BY <2>2 DEF JobFits, Hung, Steps, Allocating
  <2>3. CASE /\ need > 0 /\ open.current \in {0, EOF}
             /\ job' = Allocation(f, "file", open.current, need, n)
    <3>1. open.current \in Entry \cup {EOF} /\ need \in Nat \ {0}
      BY <1>1, <2>3, Sizes
    <3>2. JobFits(Allocation(f, "file", open.current, need, n), slots, fcb')
      BY <1>1, <3>1, NewAllocationFits DEF TypeInv
    <3> QED
      BY <2>3, <3>2
  <2> QED
    BY <1>2, <2>1, <2>2, <2>3
<1> QED
  BY <1>1, <1>3, <1>4 DEF TypeInv, TableType, Numbers

\* A job that is over, or never will be.
LEMMA EndFits ==
    ASSUME NEW s, NEW o, NEW j, j.at \in {"idle", "hung", "wild", "open"}
    PROVE  JobFits(j, s, o)
  BY DEF JobFits, Steps, Allocating

LEMMA WriteInfoTypes ==
    ASSUME TypeInv, WriteInfo
    PROVE  TypeInv'
<1>1. /\ job.at = "info" /\ fat' = fat /\ slots' = slots /\ longest' = longest
      /\ faults' \in {faults, faults + 1}
      /\ \/ job' = Failed /\ fcb' = fcb
         \/ /\ fcb' = [fcb EXCEPT ![job.file].first = IF @ = 0 THEN job.head ELSE @]
            /\ job' = [job EXCEPT !.at = "attributes"]
  BY DEF WriteInfo, Refused, Refuse, Continue, memory, history
<1>2. job \in Allocations /\ job.for = "file" /\ ForFile(job, fcb)
  BY <1>1 DEF TypeInv, JobFits, Steps
<1>3. CASE job' = Failed /\ fcb' = fcb
  <2>1. JobFits(job', slots, fcb')
    BY <1>1, <1>3, FailedFits DEF TypeInv, Writing
  <2> QED
    BY <1>1, <1>3, <2>1 DEF TypeInv, TableType, Numbers
<1>4. CASE /\ fcb' = [fcb EXCEPT ![job.file].first = IF @ = 0 THEN job.head ELSE @]
           /\ job' = [job EXCEPT !.at = "attributes"]
  <2> DEFINE first == IF fcb[job.file].first = 0 THEN job.head ELSE fcb[job.file].first
  <2>1. fcb' = [fcb EXCEPT ![job.file] = [fcb[job.file] EXCEPT !.first = first]]
    BY <1>4
  <2> HIDE DEF first
  <2>2. IsOpen([fcb[job.file] EXCEPT !.first = first])
    BY <1>2, OpenStays DEF ForFile
  <2>3. OpenFiles(fcb') /\ IsOpen(fcb'[job.file])
    BY <1>2, <2>1, <2>2 DEF TypeInv, OpenFiles, ForFile
  <2>4. job' \in Allocations /\ job'.at = "attributes"
        /\ \A x \in {"for", "file", "bytes"} : job'[x] = job[x]
    BY <1>2, <1>4 DEF Allocations, Steps, Allocating
  <2>5. ForFile(job', fcb')
    BY <1>2, <2>3, <2>4 DEF ForFile
  <2>6. JobFits(job', slots, fcb')
    BY <1>2, <2>4, <2>5 DEF JobFits
  <2> QED
    BY <1>1, <2>3, <2>6 DEF TypeInv, TableType, Numbers
<1> QED
  BY <1>1, <1>3, <1>4

\* The end of the list in directory d, and an entry of f in front of it.
EndOf(d) == Min({Slots + 1} \cup {i \in DOMAIN d : d[i].kind = "end"})

MatchesIn(d, i, f) ==
    /\ d[i].file = f
    /\ \/ d[i].kind = "short"
       \/ /\ d[i].kind = "alias"
          /\ i >= Parts
          /\ \A j \in (i - Parts + 1)..(i - 1) : d[j].kind = "long" /\ d[j].file = f

LEMMA EndOfIs ==
    ASSUME NEW d, IsDirectory(d)
    PROVE  /\ EndOf(d) \in 1..(Slots + 1)
           /\ \A i \in 1..Slots : i < EndOf(d) => d[i].kind # "end"
           /\ \A n \in 1..(Slots + 1) :
                (\A i \in 1..Slots : i < n => d[i].kind # "end") => n <= EndOf(d)
<1> DEFINE ends == {Slots + 1} \cup {i \in DOMAIN d : d[i].kind = "end"}
<1>1. Slots \in Nat \ {0} /\ ends \subseteq 1..(Slots + 1) /\ Slots + 1 \in ends
  BY Sizes DEF IsDirectory
<1>2. \A i \in 1..Slots : i \in ends <=> d[i].kind = "end"
  BY <1>1 DEF IsDirectory
<1>3. EndOf(d) = Min(ends)
  BY DEF EndOf
<1> HIDE DEF ends
<1>4. ends \subseteq Nat /\ ends # {}
  BY <1>1
<1>5. EndOf(d) \in ends /\ \A i \in ends : EndOf(d) <= i
  BY <1>3, <1>4, LeastOf
<1>6. EndOf(d) \in 1..(Slots + 1) /\ EndOf(d) \in Nat
  <2>1. EndOf(d) \in 1..(Slots + 1)
    BY <1>1, <1>5, Zenon
  <2> QED
    BY <1>1, <2>1
<1>7. \A i \in 1..Slots : i < EndOf(d) => d[i].kind # "end"
  BY <1>2, <1>5, <1>6
<1>8. ASSUME NEW n \in 1..(Slots + 1), \A i \in 1..Slots : i < n => d[i].kind # "end"
      PROVE  n <= EndOf(d)
  <2>1. CASE EndOf(d) = Slots + 1
    BY <1>1, <2>1
  <2>2. CASE EndOf(d) \in 1..Slots
    <3>1. ~ (EndOf(d) < n)
      BY <1>2, <1>5, <1>8, <2>2
    <3> QED
      BY <1>1, <2>2, <3>1
  <2> QED
    BY <1>1, <1>6, <2>1, <2>2
<1> QED
  BY <1>6, <1>7, <1>8

LEMMA EndIs ==
    ASSUME NEW c, IsDirectory(slots[c])
    PROVE  End(c) \in 1..(Slots + 1)
<1>1. End(c) = EndOf(slots[c])
  BY DEF End, EndOf
<1> QED
  BY <1>1, EndOfIs

\* What find_in_directory() finds is an entry of a directory.
LEMMA FoundIs ==
    ASSUME Directories(slots), NEW f, NEW at \in Found(f)
    PROVE  /\ at[1] \in Entry /\ at[2] \in 1..Slots
           /\ slots[at[1]] # <<>> /\ IsDirectory(slots[at[1]])
           /\ at[2] < End(at[1]) /\ Matches(at[1], at[2], f)
<1>1. PICK c \in Entry : slots[c] # <<>> /\ Here(c, f) # {} /\ at = <<c, Min(Here(c, f))>>
  BY DEF Found
<1>2. IsDirectory(slots[c])
  BY <1>1 DEF Directories
<1>3. End(c) \in 1..(Slots + 1) /\ Slots \in Nat
  BY <1>2, EndIs, Sizes
<1>4. Here(c, f) \subseteq Nat
  BY <1>3 DEF Here
<1>5. Min(Here(c, f)) \in Here(c, f)
  BY <1>1, <1>4, LeastOf
<1>6. at[1] = c /\ at[2] \in Here(c, f)
  BY <1>1, <1>5
<1>7. at[2] \in 1..(End(c) - 1) /\ Matches(c, at[2], f)
  BY <1>6 DEF Here
<1>8. at[2] \in 1..Slots /\ at[2] < End(c)
  BY <1>3, <1>7
<1> QED
  BY <1>1, <1>2, <1>6, <1>7, <1>8

\* A directory with other entries.
LEMMA DirectoryStays ==
    ASSUME Directories(slots), NEW c, NEW d, IsDirectory(d), slots' = [slots EXCEPT ![c] = d]
    PROVE  Directories(slots')
  BY DEF Directories

LEMMA EntryStays ==
    ASSUME NEW d, IsDirectory(d), NEW i, NEW e, e.size \in Nat
    PROVE  IsDirectory([d EXCEPT ![i] = e])
  BY DEF IsDirectory

LEMMA AttributesTypes ==
    ASSUME TypeInv, Attributes
    PROVE  TypeInv'
<1>1. /\ job.at = "attributes" /\ fat' = fat /\ fcb' = fcb /\ longest' = longest
      /\ faults' \in {faults, faults + 1}
      /\ job' = Failed \/ job' = [job EXCEPT !.at = "data"]
  BY DEF Attributes, Refused, Refuse, Continue, memory, history
<1>2. job \in Allocations /\ job.for = "file" /\ ForFile(job, fcb)
  BY <1>1 DEF TypeInv, JobFits, Steps
<1>3. Directories(slots')
  <2>1. CASE slots' = slots
    BY <2>1 DEF TypeInv
  <2>2. ASSUME NEW at \in Found(job.file),
               slots' = [slots EXCEPT ![at[1]][at[2]] =
                            Slot(@.kind, job.file, Swapped(fcb[job.file].first), fcb[job.file].size)]
        PROVE  Directories(slots')
    <3> DEFINE d == slots[at[1]]
               e == Slot(d[at[2]].kind, job.file, Swapped(fcb[job.file].first), fcb[job.file].size)
    <3>1. slots' = [slots EXCEPT ![at[1]] = [d EXCEPT ![at[2]] = e]]
      BY <2>2
    <3>2. e.size = fcb[job.file].size
      BY DEF Slot
    <3>3. e.size \in Nat /\ IsDirectory(d)
      BY <1>2, <3>2, FoundIs DEF TypeInv, ForFile, IsOpen
    <3> HIDE DEF d, e
    <3>4. IsDirectory([d EXCEPT ![at[2]] = e])
      BY <3>3, EntryStays
    <3> QED
      BY <3>1, <3>4, DirectoryStays DEF TypeInv
  <2> QED
    BY <2>1, <2>2 DEF Attributes
<1>4. JobFits(job', slots', fcb')
  <2>1. CASE job' = Failed
    BY <1>1, <2>1, FailedFits DEF TypeInv, Writing
  <2>2. CASE job' = [job EXCEPT !.at = "data"]
    <3>1. job'.at = "data" /\ ForFile(job', fcb')
      BY <1>1, <1>2, <2>2 DEF Allocations, ForFile
    <3> QED
      BY <3>1 DEF JobFits, Steps, Allocating
  <2> QED
    BY <1>1, <2>1, <2>2
<1> QED
  BY <1>1, <1>3, <1>4 DEF TypeInv, TableType, Numbers

\* Writing the data changes the table, if at all, in the last copy.
LEMMA DataWrites ==
    ASSUME Data
    PROVE  /\ \/ fat' = fat
              \/ \E c \in {0, 1} : fat' = [fat EXCEPT ![Copies] = Overwritten(c)]
           /\ slots' = slots /\ info' = info /\ count' = count /\ job.at = "data"
           /\ job' \in {Idle, Wild} /\ longest' = longest /\ wasted' = wasted
           /\ faults' \in {faults, faults + 1} /\ misled' = misled
<1> DEFINE open == fcb[job.file]
           block == open.offset \div Block
           cluster == Walk(open.first, block)
<1>1. \/ fat' = fat
      \/ fat' \in {fat} \cup (IF cluster \in {0, 1} THEN {[fat EXCEPT ![Copies] = Overwritten(cluster)]} ELSE {})
      \/ fat' = IF cluster \in {0, 1} THEN [fat EXCEPT ![Copies] = Overwritten(cluster)] ELSE fat
  BY DEF Data
<1>2. /\ slots' = slots /\ info' = info /\ count' = count /\ job.at = "data"
  BY DEF Data
<1>3. /\ job' \in {Idle, Wild} /\ longest' = longest /\ wasted' = wasted
      /\ faults' \in {faults, faults + 1} /\ misled' = misled
  BY DEF Data, Continue, Refuse, history
<1> HIDE DEF cluster
<1> QED
  BY <1>1, <1>2, <1>3

LEMMA DataFiles ==
    ASSUME OpenFiles(fcb), ForFile(job, fcb), Data
    PROVE  OpenFiles(fcb')
<1> DEFINE open == fcb[job.file]
           block == open.offset \div Block
           cluster == Walk(open.first, block)
           blocks == (open.offset + job.bytes) \div Block - block
           there == {i \in 0..blocks : Walk(cluster, i) \in Entry}
           Stop(i, offset) ==
               fcb' = [fcb EXCEPT ![job.file].offset = offset,
                                  ![job.file].current = IF cluster = 0 THEN 0 ELSE Walk(cluster, i)]
<1>1. \/ fcb' = fcb
      \/ \E i \in there : Stop(i, IF i = 0 THEN open.offset ELSE (block + i) * Block)
      \/ Stop(blocks, Min({open.offset + job.bytes, (block + Cardinality(there)) * Block}))
  BY DEF Data
<1>2. open.offset \in Nat /\ job.bytes \in Nat /\ Block \in Nat \ {0} /\ IsOpen(open)
  BY Sizes DEF ForFile, IsOpen
<1>3. block \in Nat /\ open.offset + job.bytes \in Nat
  BY <1>2
<1>4. blocks \in Int
  <2>1. (open.offset + job.bytes) \div Block \in Nat
    BY <1>2, <1>3
  <2> QED
    BY <1>3, <2>1
<1>5. IsFiniteSet(there) /\ Cardinality(there) \in Nat /\ \A i \in there : i \in Nat
  <2> HIDE DEF blocks, cluster
  <2>1. IsFiniteSet(0..blocks) /\ there \subseteq 0..blocks
    BY <1>4, FS_Interval
  <2>2. IsFiniteSet(there)
    BY <2>1, FS_Subset
  <2> QED
    BY <1>4, <2>1, <2>2, FS_CardinalityType
<1> HIDE DEF block, cluster, blocks, there
<1>6. ASSUME NEW i, NEW offset \in Nat, Stop(i, offset)
      PROVE  OpenFiles(fcb')
  <2> DEFINE current == IF cluster = 0 THEN 0 ELSE Walk(cluster, i)
             new == [[open EXCEPT !.offset = offset] EXCEPT !.current = current]
  <2> HIDE DEF current
  <2>1. fcb' = [fcb EXCEPT ![job.file].offset = offset, ![job.file].current = current]
    BY <1>6 DEF current
  <2>2. job.file \in File /\ DOMAIN fcb = File
    BY DEF ForFile, OpenFiles
  <2>3. fcb' = [fcb EXCEPT ![job.file] = new]
    BY <2>1, <2>2
  <2>4. IsOpen(new)
    BY <1>2, OpenStays
  <2> HIDE DEF new
  <2> QED
    BY <2>3, <2>4 DEF OpenFiles
<1>7. ASSUME NEW i \in Nat
      PROVE  (block + i) * Block \in Nat
  BY <1>2, <1>3
<1>8. CASE fcb' = fcb
  BY <1>8
<1>9. CASE \E i \in there : Stop(i, IF i = 0 THEN open.offset ELSE (block + i) * Block)
  <2>1. PICK i \in there : Stop(i, IF i = 0 THEN open.offset ELSE (block + i) * Block)
    BY <1>9
  <2>2. (IF i = 0 THEN open.offset ELSE (block + i) * Block) \in Nat
    BY <1>2, <1>5, <1>7
  <2> HIDE DEF Stop, open
  <2> QED
    BY <1>6, <2>1, <2>2
<1>10. CASE Stop(blocks, Min({open.offset + job.bytes, (block + Cardinality(there)) * Block}))
  <2> DEFINE ends == {open.offset + job.bytes, (block + Cardinality(there)) * Block}
  <2>1. ends \subseteq Nat /\ ends # {}
    BY <1>3, <1>5, <1>7
  <2> HIDE DEF ends
  <2>2. Min(ends) \in Nat
    BY <2>1, LeastOf
  <2> HIDE DEF Stop, open
  <2>3. Stop(blocks, Min(ends))
    BY <1>10 DEF ends
  <2> QED
    BY <1>6, <2>2, <2>3
<1> HIDE DEF Stop
<1> QED
  BY <1>1, <1>8, <1>9, <1>10

LEMMA DataTypes ==
    ASSUME TypeInv, Data
    PROVE  TypeInv'
<1>1. /\ \/ fat' = fat
         \/ \E c \in {0, 1} : fat' = [fat EXCEPT ![Copies] = Overwritten(c)]
      /\ slots' = slots /\ job.at = "data"
      /\ job' \in {Idle, Wild} /\ longest' = longest
      /\ faults' \in {faults, faults + 1}
  BY DataWrites
<1>2. TableType'
  <2>1. \A c : Overwritten(c) \in [Entry -> Links]
    <3>1. Copies \in 1..Copies /\ 1 \in Links
      BY Sizes DEF Links
    <3> QED
      BY <3>1 DEF Overwritten, Text, TypeInv, TableType
  <2> QED
    BY <1>1, <2>1 DEF TypeInv, TableType
<1>3. OpenFiles(fcb')
  BY <1>1, DataFiles DEF TypeInv, JobFits
<1>4. JobFits(job', slots', fcb')
  BY <1>1, EndFits DEF Idle, Wild
<1> QED
  BY <1>1, <1>2, <1>3, <1>4 DEF TypeInv, Numbers

LEMMA OpenTypes ==
    ASSUME TypeInv, NEW f \in File, Open(f) \/ Close(f)
    PROVE  TypeInv'
<1>1. /\ fat' = fat /\ slots' = slots /\ longest' = longest /\ faults' = faults /\ job' = Idle
      /\ fcb' = [fcb EXCEPT ![f] = Opened(f)] \/ fcb' = [fcb EXCEPT ![f] = Null]
  BY DEF Open, Close, Continue, disk, history
<1>2. Opened(f) = Null \/ IsOpen(Opened(f))
  <2> SUFFICES ASSUME Present(f) PROVE IsOpen(Opened(f))
    BY DEF Opened
  <2> DEFINE at == CHOOSE x \in Found(f) : TRUE
             e == slots[at[1]][at[2]]
  <2>1. at \in Found(f)
    BY DEF Present
  <2> HIDE DEF at
  <2>2. e.size \in Nat
    BY <2>1, FoundIs DEF TypeInv, IsDirectory
  <2>3. Opened(f) = [first |-> e.first, current |-> e.first, size |-> e.size, offset |-> 0]
    BY DEF Opened, at
  <2> HIDE DEF e
  <2> QED
    BY <2>2, <2>3 DEF IsOpen
<1>3. OpenFiles(fcb')
  <2> HIDE DEF Opened
  <2> QED
    BY <1>1, <1>2 DEF TypeInv, OpenFiles
<1>4. JobFits(job', slots', fcb')
  BY <1>1, EndFits DEF Idle
<1> QED
  BY <1>1, <1>3, <1>4 DEF TypeInv, TableType, Numbers

LEMMA CreateTypes ==
    ASSUME TypeInv, NEW f \in File, Create(f) \/ Unlink(f)
    PROVE  TypeInv'
<1>1. /\ fat' = fat /\ slots' = slots /\ longest' = longest /\ faults' = faults
      /\ \/ job' = [at |-> "delete", file |-> f, then |-> "create"]
         \/ job' = [at |-> "delete", file |-> f, then |-> "unlink"]
         \/ job' = AddName(f)
      /\ fcb' = [fcb EXCEPT ![f] = Null] \/ fcb' = fcb
  BY DEF Create, Unlink, Call, disk, memory
<1>2. OpenFiles(fcb')
  BY <1>1 DEF TypeInv, OpenFiles
<1>3. Root \in Entry
  BY FatAssumption DEF Cluster
<1>4. JobFits(job', slots', fcb')
  <2>1. CASE job' = AddName(f)
    BY <1>3, <2>1 DEF AddName, JobFits, Steps, Allocating
  <2>2. CASE job' # AddName(f)
    BY <1>1, <2>2 DEF JobFits, Steps, Allocating
  <2> QED
    BY <2>1, <2>2
<1> QED
  BY <1>1, <1>2, <1>4 DEF TypeInv, TableType, Numbers

LEMMA DeleteTypes ==
    ASSUME TypeInv, Delete
    PROVE  TypeInv'
<1>1. /\ fat' = fat /\ fcb' = fcb /\ longest' = longest /\ job.at = "delete"
      /\ faults' \in {faults, faults + 1}
      /\ \/ job' = Failed
         \/ job' = IF job.then = "create" THEN AddName(job.file) ELSE Idle
  BY DEF Delete, Deleted, Refused, Refuse, Continue, memory, history
<1>2. PICK at \in Found(job.file) :
          LET c == at[1]
              from == DeleteFrom(c, at[2])
              to == Min({j \in (from + 1)..Slots : ~IsLong(slots[c][j])})
          IN  slots' = [slots EXCEPT ![c] = [i \in 1..Slots |->
                            IF i \in from..to THEN Freed(@[i]) ELSE @[i]]]
  BY DEF Delete
<1> DEFINE c == at[1]
           from == DeleteFrom(c, at[2])
           to == Min({j \in (from + 1)..Slots : ~IsLong(slots[c][j])})
           d == [i \in 1..Slots |-> IF i \in from..to THEN Freed(slots[c][i]) ELSE slots[c][i]]
<1>3. slots' = [slots EXCEPT ![c] = d]
  BY <1>2
<1>4. IsDirectory(slots[c])
  BY FoundIs DEF TypeInv
<1>5. IsDirectory(d)
  <2> HIDE DEF from, to
  <2>1. \A i \in 1..Slots : Freed(slots[c][i]).size = 0
    BY DEF Freed, Slot
  <2> QED
    BY <1>4, <2>1 DEF IsDirectory
<1>6. Directories(slots')
  <2> HIDE DEF d, c
  <2> QED
    BY <1>3, <1>5, DirectoryStays DEF TypeInv
<1>7. JobFits(job', slots', fcb')
  <2>1. CASE job' = Failed
    BY <1>1, <2>1, FailedFits DEF TypeInv, Writing
  <2>2. CASE job' = AddName(job.file)
    <3>1. Root \in Entry /\ job.file \in File
      BY <1>1, FatAssumption DEF Cluster, TypeInv, JobFits
    <3> QED
      BY <2>2, <3>1 DEF AddName, JobFits, Steps, Allocating
  <2>3. CASE job' = Idle
    BY <2>3, EndFits DEF Idle
  <2> QED
    BY <1>1, <2>1, <2>2, <2>3
<1> QED
  BY <1>1, <1>6, <1>7 DEF TypeInv, TableType, Numbers

\* The entries that are put into a directory have sizes.
LEMMA NamedIs ==
    ASSUME NEW f
    PROVE  \A i \in 1..Parts : Named(f)[i].size = 0
  BY DEF Named, Slot

LEMMA PlaceTypes ==
    ASSUME Directories(slots), NEW c \in Entry, NEW i \in Nat, NEW f, NEW atEnd \in BOOLEAN,
           IsDirectory(slots[c]), Place(c, i, f, atEnd)
    PROVE  Directories(slots') /\ IsDirectory(slots'[c])
<1> DEFINE d == [j \in 1..Slots |->
                   IF j \in i..(i + Parts - 1) THEN Named(f)[j - i + 1]
                   ELSE IF atEnd /\ j = i + Parts THEN EndOfList ELSE slots[c][j]]
<1>1. slots' = [slots EXCEPT ![c] = d]
  BY DEF Place
<1>2. Parts \in Nat \ {0}
  BY Sizes
<1>3. \A j \in 1..Slots : j \in i..(i + Parts - 1) => Named(f)[j - i + 1].size = 0
  <2> SUFFICES ASSUME NEW j \in 1..Slots, j \in i..(i + Parts - 1)
               PROVE  Named(f)[j - i + 1].size = 0
    OBVIOUS
  <2>1. j - i + 1 \in 1..Parts
    BY <1>2
  <2> QED
    BY <2>1, NamedIs
<1>4. EndOfList.size = 0
  BY DEF EndOfList, Slot
<1>5. IsDirectory(d)
  BY <1>3, <1>4 DEF IsDirectory
<1> HIDE DEF d
<1> QED
  BY <1>1, <1>5 DEF Directories

LEMMA AddTypes ==
    ASSUME TypeInv, AddToDirectory
    PROVE  TypeInv'
<1> DEFINE c == job.dir
           lost == slots[c] # <<>> => job.found > 0 /\ AllFree(c, 1, Parts - job.found)
           fitting == {i \in 1..(Slots - Parts + 1) : AllFree(c, i, i + Parts - 1)}
           trailing == Max({0} \cup {n \in 1..(End(c) - 1) : AllFree(c, End(c) - n, End(c) - 1)})
           found == IF trailing = End(c) - 1 THEN job.found + trailing ELSE trailing
           onward == IF NextAfter(c) = EOF THEN Allocation(job.file, "directory", c, 1, 0)
                     ELSE [job EXCEPT !.dir = NextAfter(c), !.found = found]
           placed == [at |-> "open", file |-> job.file, for |-> "directory"]
<1>1. job.at = "slots" /\ fat' = fat /\ fcb' = fcb /\ longest' = longest /\ faults' \in {faults, faults + 1}
  BY DEF AddToDirectory, Refused, Refuse, Continue, memory, history
<1>2. \/ lost /\ slots' = slots /\ job' = Wild
      \/ /\ ~lost /\ fitting # {} /\ Place(c, Min(fitting), job.file, FALSE)
         /\ job' \in {Failed, placed}
      \/ /\ ~lost /\ Place(c, End(c), job.file, TRUE)
         /\ job' \in {Failed, placed}
      \/ /\ ~lost
         /\ slots' = IF End(c) > Slots THEN slots
                     ELSE [slots EXCEPT ![c][End(c)] = Slot("free", Null, 0, 0)]
         /\ job' \in {Failed, onward}
  BY DEF AddToDirectory, Refused, Continue
<1>3. /\ DOMAIN job = {"at", "file", "for", "dir", "found"} /\ job.for = "directory"
      /\ job.file \in File /\ c \in Entry
  BY <1>1 DEF TypeInv, JobFits
<1>4. ~lost => IsDirectory(slots[c])
  <2> SUFFICES ASSUME ~lost PROVE IsDirectory(slots[c])
    OBVIOUS
  <2>1. slots[c] # <<>>
    OBVIOUS
  <2> QED
    BY <1>3, <2>1 DEF TypeInv, Directories
<1>5. fitting # {} => Min(fitting) \in Nat
  <2>1. fitting \subseteq Nat
    OBVIOUS
  <2> HIDE DEF fitting
  <2> QED
    BY <2>1, LeastOf
<1>6. IsDirectory(slots[c]) => End(c) \in Nat
  BY EndIs, Sizes
<1> HIDE DEF lost, fitting, found
<1>7. Directories(slots') /\ (~lost => IsDirectory(slots'[c]))
  <2>1. CASE lost /\ slots' = slots
    BY <2>1 DEF TypeInv
  <2>2. CASE ~lost /\ fitting # {} /\ Place(c, Min(fitting), job.file, FALSE)
    BY <1>3, <1>4, <1>5, <2>2, PlaceTypes DEF TypeInv
  <2>3. CASE ~lost /\ Place(c, End(c), job.file, TRUE)
    BY <1>3, <1>4, <1>6, <2>3, PlaceTypes DEF TypeInv
  <2>4. CASE /\ ~lost
             /\ slots' = IF End(c) > Slots THEN slots
                         ELSE [slots EXCEPT ![c][End(c)] = Slot("free", Null, 0, 0)]
    <3> DEFINE e == Slot("free", Null, 0, 0)
               d == [slots[c] EXCEPT ![End(c)] = e]
    <3>1. slots' = slots \/ slots' = [slots EXCEPT ![c] = d]
      BY <2>4
    <3>2. e.size \in Nat
      BY DEF Slot
    <3> HIDE DEF e
    <3>3. IsDirectory(d)
      BY <1>4, <2>4, <3>2, EntryStays
    <3> HIDE DEF d
    <3> QED
      BY <1>3, <1>4, <2>4, <3>1, <3>3 DEF TypeInv, Directories
  <2> QED
    BY <1>2, <2>1, <2>2, <2>3, <2>4
<1>8. JobFits(onward, slots', fcb') \/ lost
  <2> SUFFICES ASSUME ~lost PROVE JobFits(onward, slots', fcb')
    OBVIOUS
  <2>1. CASE NextAfter(c) = EOF
    <3>1. 1 \in Nat \ {0} /\ 0 \in Nat /\ TableType
      BY DEF TypeInv
    <3>2. JobFits(Allocation(job.file, "directory", c, 1, 0), slots', fcb')
      BY <1>3, <1>7, <3>1, NewAllocationFits
    <3> QED
      BY <2>1, <3>2
  <2>2. CASE NextAfter(c) # EOF
    <3>1. NextAfter(c) \in Entry
      <4>1. NextAfter(c) = EOF \/ NextAfter(c) = fat[1][c]
        BY DEF NextAfter
      <4>2. fat[1][c] \in Links
        <5>1. TableType
          BY DEF TypeInv
        <5>2. 1 \in 1..Copies /\ c \in Entry
          BY <1>3, Sizes
        <5> QED
          BY <5>1, <5>2 DEF TableType
      <4> QED
        BY <2>2, <4>1, <4>2 DEF Links
    <3>2. /\ DOMAIN onward = DOMAIN job /\ onward.dir = NextAfter(c)
          /\ onward.at = "slots" /\ onward.for = "directory" /\ onward.file = job.file
      BY <1>1, <1>3, <2>2
    <3> HIDE DEF onward
    <3> QED
      BY <1>3, <3>1, <3>2 DEF JobFits, Steps, Allocating
  <2> QED
    BY <2>1, <2>2
<1> HIDE DEF onward
<1>9. JobFits(job', slots', fcb')
  <2>1. CASE job' = Failed
    BY <1>1, <2>1, FailedFits DEF TypeInv, Writing
  <2>2. CASE job' \in {Wild, placed}
    BY <2>2, EndFits DEF Wild
  <2>3. CASE ~lost /\ job' = onward
    BY <1>8, <2>3
  <2> QED
    BY <1>2, <2>1, <2>2, <2>3
<1> QED
  BY <1>1, <1>7, <1>9 DEF TypeInv, TableType, Numbers

LEMMA GrowTypes ==
    ASSUME TypeInv, Grow
    PROVE  TypeInv'
<1> DEFINE d == [j \in 1..Slots |->
                   IF j <= Parts THEN Named(job.file)[j]
                   ELSE IF j = Parts + 1 THEN EndOfList ELSE slots[job.last][j]]
<1>1. /\ job.at = "grow" /\ fat' = fat /\ fcb' = fcb /\ longest' = longest
      /\ faults' \in {faults, faults + 1} /\ slots' = [slots EXCEPT ![job.new] = d]
      /\ job' \in {Failed, [at |-> "open", file |-> job.file, for |-> "directory"]}
  BY DEF Grow, Refused, Refuse, Continue, memory, history
<1>2. IsDirectory(slots[job.last])
  BY <1>1 DEF TypeInv, JobFits, ForDirectory, Steps, Allocations
<1>3. IsDirectory(d)
  <2>1. Parts \in Nat \ {0}
    BY Sizes
  <2>2. \A j \in 1..Slots : j <= Parts => Named(job.file)[j].size = 0
    BY <2>1, NamedIs
  <2>3. EndOfList.size = 0
    BY DEF EndOfList, Slot
  <2> QED
    BY <1>2, <2>2, <2>3 DEF IsDirectory
<1> HIDE DEF d
<1>4. Directories(slots')
  BY <1>1, <1>3, DirectoryStays DEF TypeInv
<1>5. JobFits(job', slots', fcb')
  <2>1. CASE job' = Failed
    BY <1>1, <2>1, FailedFits DEF TypeInv, Writing
  <2>2. CASE job' = [at |-> "open", file |-> job.file, for |-> "directory"]
    BY <2>2, EndFits
  <2> QED
    BY <1>1, <2>1, <2>2
<1> QED
  BY <1>1, <1>4, <1>5 DEF TypeInv, TableType, Numbers

\* What follows when the old file is gone.
LEMMA DeletedFits ==
    ASSUME NEW j, j.file \in File, NEW s, NEW o
    PROVE  JobFits(Deleted(j), s, o) /\ Deleted(j).at \in {"slots", "idle"}
<1>1. Root \in Entry
  BY Sizes
<1>2. CASE j.then = "create"
  BY <1>1, <1>2 DEF Deleted, AddName, JobFits, Steps, Allocating
<1>3. CASE j.then # "create"
  BY <1>3 DEF Deleted, Idle, JobFits, Steps, Allocating
<1> QED
  BY <1>2, <1>3

LEMMA ClearingFits ==
    ASSUME job.file \in File, NEW next, NEW entries \in SectorType, NEW cleared, NEW s, NEW o
    PROVE  JobFits(Clearing(next, entries, cleared), s, o)
<1> DEFINE j == Clearing(next, entries, cleared)
<1>1. /\ j.at = "zero" /\ j.for = "unlink" /\ j.file = job.file /\ j.copy = 1 /\ j.sector = entries
      /\ DOMAIN j = {"at", "file", "for", "then", "cluster", "cleared", "next", "copy", "sector"}
  BY DEF Clearing
<1>2. 1 \in 1..Copies
  BY Sizes
<1> HIDE DEF j
<1>3. JobFits(j, s, o)
  BY <1>1, <1>2 DEF JobFits, Steps, Allocating
<1> QED
  BY <1>3 DEF j

LEMMA UnchainTypes ==
    ASSUME TypeInv, Unchain
    PROVE  TypeInv'
<1>1. /\ job.at = "unchain" /\ fat' = fat /\ slots' = slots /\ fcb' = fcb /\ longest' = longest
      /\ faults' = faults
  BY DEF Unchain, Continue, disk, memory, history
<1>2. job.file \in File
  BY <1>1 DEF TypeInv, JobFits
<1> DEFINE c == job.cluster
           word == (Width * c) % (Width * PerSector)
           sector == Sector(c \div PerSector)
<1>3. \/ job' = Wild
      \/ /\ c \in Entry
         /\ \E next, cleared : \/ job' = Clearing(next, [sector EXCEPT ![word] = 0], cleared)
                               \/ job' = Clearing(next, sector, cleared)
  BY DEF Unchain, Continue
<1>4. c \in Entry => sector \in SectorType
  BY SectorIs, Positions DEF TypeInv
<1> HIDE DEF word, sector
<1>5. c \in Entry => [sector EXCEPT ![word] = 0] \in SectorType
  <2>1. 0 \in Links
    BY Sizes DEF Links
  <2> QED
    BY <1>4, <2>1, SectorPut
<1>6. JobFits(job', slots, fcb)
  <2>1. CASE job' = Wild
    BY <2>1, EndFits DEF Wild
  <2>2. CASE job' # Wild
    BY <1>2, <1>3, <1>4, <1>5, <2>2, ClearingFits
  <2> QED
    BY <2>1, <2>2
<1> QED
  BY <1>1, <1>6 DEF TypeInv, TableType, Numbers

LEMMA ZeroTypes ==
    ASSUME TypeInv, Zero
    PROVE  TypeInv'
<1>1. /\ slots' = slots /\ fcb' = fcb /\ longest' = longest /\ faults' \in {faults, faults + 1}
  BY DEF Zero, Refused, Refuse, Continue, memory, history
<1>2. /\ job.at = "zero" /\ job.file \in File /\ job.for = "unlink"
      /\ DOMAIN job = {"at", "file", "for", "then", "cluster", "cleared", "next", "copy", "sector"}
      /\ job.copy \in 1..Copies /\ job.sector \in SectorType
  BY DEF Zero, TypeInv, JobFits
<1>3. TableType'
  BY <1>2, PutType DEF TypeInv, Zero
<1>4. \/ job' = Failed
      \/ job.copy # Copies /\ job' = [job EXCEPT !.copy = @ + 1]
      \/ job' \in {Hung, [job EXCEPT !.at = "count"],
                  [job EXCEPT !.at = "unchain", !.cluster = job.next]}
  BY DEF Zero, Refused, Continue, LastCopy
<1>5. JobFits(job', slots, fcb)
  <2>1. CASE job' = Failed
    BY <1>2, <2>1, FailedFits DEF TypeInv, Writing
  <2>2. CASE job.copy # Copies /\ job' = [job EXCEPT !.copy = @ + 1]
    <3>1. job.copy + 1 \in 1..Copies
      <4>1. Copies \in Nat
        BY Sizes
      <4> QED
        BY <1>2, <2>2, <4>1
    <3>2. /\ job'.at = "zero" /\ job'.file = job.file /\ job'.for = "unlink"
          /\ job'.copy = job.copy + 1 /\ job'.sector = job.sector /\ DOMAIN job' = DOMAIN job
      BY <1>2, <2>2
    <3> QED
      BY <1>2, <3>1, <3>2 DEF JobFits, Steps, Allocating
  <2>3. CASE job' = Hung
    BY <2>3, EndFits DEF Hung
  <2>4. CASE job' \in {[job EXCEPT !.at = "count"], [job EXCEPT !.at = "unchain", !.cluster = job.next]}
    <3>1. job'.at \in {"count", "unchain"} /\ job'.file = job.file /\ job'.for = "unlink"
      BY <1>2, <2>4
    <3> QED
      BY <1>2, <3>1 DEF JobFits, Steps, Allocating
  <2> QED
    BY <1>4, <2>1, <2>2, <2>3, <2>4
<1> QED
  BY <1>1, <1>3, <1>5 DEF TypeInv, Numbers

LEMMA WriteCountTypes ==
    ASSUME TypeInv, WriteCount
    PROVE  TypeInv'
<1>1. /\ job.at = "count" /\ fat' = fat /\ slots' = slots /\ fcb' = fcb /\ longest' = longest
      /\ faults' \in {faults, faults + 1} /\ job' \in {Failed, Deleted(job)}
  BY DEF WriteCount, Refused, Refuse, Continue, memory, history
<1>2. job.file \in File
  BY <1>1 DEF TypeInv, JobFits
<1>3. JobFits(job', slots, fcb)
  <2>1. CASE job' = Failed
    BY <1>1, <2>1, FailedFits DEF TypeInv, Writing
  <2>2. CASE job' = Deleted(job)
    BY <1>2, <2>2, DeletedFits
  <2> QED
    BY <1>1, <2>1, <2>2
<1> QED
  BY <1>1, <1>3 DEF TypeInv, TableType, Numbers

LEMMA NotWrittenTypes ==
    ASSUME TypeInv, NotWritten
    PROVE  TypeInv'
<1>1. /\ job.at \in Writing /\ fat' = fat /\ slots' = slots /\ fcb' = fcb /\ longest' = longest
      /\ faults' = faults + 1 /\ job' = Failed
  BY DEF NotWritten, Refused, Refuse, disk, memory
<1>2. JobFits(job', slots', fcb')
  BY <1>1, FailedFits DEF TypeInv
<1> QED
  BY <1>1, <1>2 DEF TypeInv, TableType, Numbers

LEMMA PowerFailsTypes ==
    ASSUME TypeInv, PowerFails
    PROVE  TypeInv'
<1>1. /\ fat' = fat /\ slots' = slots /\ fcb' = [f \in File |-> Null] /\ longest' = longest
      /\ faults' = faults + 1 /\ job' = Idle
  BY DEF PowerFails, disk
<1>2. JobFits(job', slots', fcb')
  BY <1>1, EndFits DEF Idle
<1> QED
  BY <1>1, <1>2 DEF TypeInv, TableType, OpenFiles, Numbers

LEMMA TypesAtFirst ==
    ASSUME Init
    PROVE  TypeInv
<1>1. PICK there \in BOOLEAN :
        LET used == {0, 1, Root} \cup (IF there THEN {OldAt} ELSE {})
            table == [c \in Entry |-> IF c \in used THEN EOF ELSE 0]
        IN  /\ fat = [k \in 1..Copies |-> table]
            /\ slots = [c \in Entry |-> IF c # Root THEN <<>>
                           ELSE IF there THEN [Blank EXCEPT ![1] = Slot("short", Old, OldAt, Block)]
                           ELSE Blank]
            /\ fcb = [f \in File |-> Null]
            /\ job = Idle
            /\ longest = 0 /\ faults = 0
  BY DEF Init
<1>2. TableType
  <2>1. EOF \in Links /\ 0 \in Links
    BY Sizes DEF Links
  <2> QED
    BY <1>1, <2>1 DEF TableType
<1>3. Directories(slots)
  <2>1. Slot("short", Old, OldAt, Block).size \in Nat
    BY Sizes DEF Slot
  <2>2. IsDirectory(Blank) /\ IsDirectory([Blank EXCEPT ![1] = Slot("short", Old, OldAt, Block)])
    BY <2>1, BlankIs, EntryStays
  <2> QED
    BY <1>1, <2>2 DEF Directories
<1>4. JobFits(job, slots, fcb)
  BY <1>1, EndFits DEF Idle
<1> QED
  BY <1>1, <1>2, <1>3, <1>4 DEF TypeInv, OpenFiles, Numbers

LEMMA TypesStep ==
    ASSUME TypeInv, [Next]_vars
    PROVE  TypeInv'
<1>1. CASE \E f \in File : Create(f) \/ Unlink(f)
  BY <1>1, CreateTypes
<1>2. CASE \E f \in File : Open(f) \/ Close(f)
  BY <1>2, OpenTypes
<1>3. CASE \E f \in File : \E n \in Lengths : Write(f, n)
  BY <1>3, WriteTypes
<1>4. CASE UNCHANGED vars
  BY <1>4 DEF vars, disk, memory, history, TypeInv, TableType, Numbers
<1> QED
  BY <1>1, <1>2, <1>3, <1>4, ScanTypes, MarkTypes, RereadTypes, LinkTypes, WriteBlankTypes,
     WriteInfoTypes, AttributesTypes, DataTypes, DeleteTypes, AddTypes, GrowTypes,
     UnchainTypes, ZeroTypes, WriteCountTypes, NotWrittenTypes, PowerFailsTypes
  DEF Next

-----------------------------------------------------------------------------
(* What the histories say.  unlink() goes by the number of an error only     *)
(* after a write that was refused.                                           *)

Releasing == {"unchain", "zero", "count"}

MisledInv ==
    /\ misled \in BOOLEAN
    /\ misled => faults > 0
    /\ job.at \in Releasing => misled

\* The histories only grow.
LEMMA HistoryStep ==
    ASSUME TypeInv, [Next]_vars
    PROVE  /\ longest' >= longest
           /\ \/ faults' = faults /\ misled' = misled
              \/ faults' = faults + 1 /\ misled' = misled
              \/ faults' = faults + 1 /\ misled' = (misled \/ job.at = "delete")
<1>1. longest \in Nat
  BY DEF TypeInv, Numbers
<1>2. CASE \E f \in File : \E n \in Lengths : Write(f, n)
  <2>1. longest' >= longest
    BY <1>2, WriteTypes
  <2>2. faults' = faults /\ misled' = misled
    BY <1>2 DEF Write
  <2> QED
    BY <2>1, <2>2
<1>3. CASE ~ \E f \in File : \E n \in Lengths : Write(f, n)
  <2>1. longest' = longest
    BY <1>3, DataWrites
    DEF Next, Create, Open, Close, Unlink, Scan, Mark, Reread, Link, WriteBlank, WriteInfo, Attributes,
        Delete, Unchain, Zero, WriteCount, AddToDirectory, Grow, NotWritten, PowerFails, Refused,
        Refuse, Continue, history, vars
  <2>2. \/ faults' = faults /\ misled' = misled
        \/ faults' = faults + 1 /\ misled' = misled
        \/ faults' = faults + 1 /\ misled' = (misled \/ job.at = "delete")
    BY <1>3, DataWrites
    DEF Next, Create, Open, Close, Unlink, Scan, Mark, Reread, Link, WriteBlank, WriteInfo, Attributes,
        Delete, Unchain, Zero, WriteCount, AddToDirectory, Grow, NotWritten, PowerFails, Refused,
        Refuse, Continue, history, vars
  <2> QED
    BY <1>1, <2>1, <2>2
<1> QED
  BY <1>2, <1>3

\* How add_to_directory() goes on.
LEMMA AddEnds ==
    ASSUME TypeInv, AddToDirectory
    PROVE  \/ job'.at \in {"open", "slots", "wild"}
           \/ job' = Failed
           \/ NextAfter(job.dir) = EOF /\ job' = Allocation(job.file, "directory", job.dir, 1, 0)
<1> DEFINE c == job.dir
           trailing == Max({0} \cup {n \in 1..(End(c) - 1) : AllFree(c, End(c) - n, End(c) - 1)})
           found == IF trailing = End(c) - 1 THEN job.found + trailing ELSE trailing
           onward == IF NextAfter(c) = EOF THEN Allocation(job.file, "directory", c, 1, 0)
                     ELSE [job EXCEPT !.dir = NextAfter(c), !.found = found]
           placed == [at |-> "open", file |-> job.file, for |-> "directory"]
<1>1. job' \in {Wild, Failed, placed, onward} /\ job.at = "slots"
  BY DEF AddToDirectory, Refused, Continue
<1>2. DOMAIN job = {"at", "file", "for", "dir", "found"}
  BY <1>1 DEF TypeInv, JobFits
<1> HIDE DEF found
<1>3. NextAfter(c) # EOF => onward.at = "slots"
  BY <1>1, <1>2
<1>4. NextAfter(c) = EOF => onward = Allocation(job.file, "directory", c, 1, 0)
  OBVIOUS
<1>5. Wild.at = "wild" /\ placed.at = "open"
  BY DEF Wild
<1> HIDE DEF onward, placed
<1> QED
  BY <1>1, <1>3, <1>4, <1>5

\* Only a refused delete makes unlink() go by an error.
LEMMA OnlyMisled ==
    ASSUME TypeInv, Next, job'.at \in Releasing
    PROVE  job.at \in Releasing \/ (job.at = "delete" /\ misled')
<1>1. CASE \E f \in File : Create(f) \/ Open(f) \/ Close(f) \/ Unlink(f)
  BY <1>1 DEF Create, Open, Close, Unlink, Call, Continue, Idle, AddName, Releasing
<1>2. CASE \E f \in File : \E n \in Lengths : Write(f, n)
  BY <1>2 DEF Write, Call, Hung, Allocation, Releasing
<1>3. CASE Scan \/ Mark \/ Reread \/ Link \/ WriteBlank \/ WriteInfo \/ Attributes
  <2>1. job.at \in Steps /\ job \in Allocations
    BY <1>3 DEF Scan, Mark, Reread, Link, WriteBlank, WriteInfo, Attributes, TypeInv, JobFits, Steps, Allocating
  <2>2. \/ job' = Failed /\ job.at # "reread"
        \/ job' = Wild
        \/ \E at \in Steps \cup {"data"} : job'.at = at
    <3>1. CASE Scan
      <4>1. \/ job' \in {Failed, Wild}
            \/ \E new, sector : job' = [job EXCEPT !.at = "mark", !.new = new, !.copy = 1, !.sector = sector]
        BY <3>1 DEF Scan, Continue
      <4> QED
        BY <2>1, <3>1, <4>1 DEF Scan, Allocations, Steps, Allocating
    <3>2. CASE Mark
      <4>1. \/ job' = Failed
            \/ job' = [job EXCEPT !.copy = @ + 1]
            \/ job' = [job EXCEPT !.at = "blank"]
            \/ job' = [job EXCEPT !.at = "reread"]
        BY <3>2 DEF Mark, Refused, Continue
      <4> QED
        BY <2>1, <3>2, <4>1 DEF Mark, Allocations, Steps, Allocating
    <3>3. CASE Reread
      <4>1. \E sector : job' = [job EXCEPT !.at = "link", !.copy = 1, !.sector = sector]
        BY <3>3 DEF Reread, Continue
      <4> QED
        BY <2>1, <4>1 DEF Allocations, Steps, Allocating
    <3>4. CASE Link
      <4>1. \/ job' = Failed
            \/ job' = [job EXCEPT !.copy = @ + 1]
            \/ job' = [job EXCEPT !.at = "blank"]
        BY <3>4 DEF Link, Refused, Continue
      <4> QED
        BY <2>1, <3>4, <4>1 DEF Link, Allocations, Steps, Allocating
    <3>5. CASE WriteBlank
      <4>1. \/ job' = Failed
            \/ \E head : job' = [job EXCEPT !.at = IF job.for = "file" THEN "info" ELSE "grow", !.head = head]
            \/ \E head : job' = [job EXCEPT !.at = "scan", !.head = head, !.last = job.new,
                                            !.from = job.new + 1, !.need = @ - 1]
        BY <3>5 DEF WriteBlank, Refused, Continue
      <4> QED
        BY <2>1, <3>5, <4>1 DEF WriteBlank, Allocations, Steps, Allocating
    <3>6. CASE WriteInfo \/ Attributes
      <4>1. \/ job' = Failed
            \/ job' = [job EXCEPT !.at = "attributes"]
            \/ job' = [job EXCEPT !.at = "data"]
        BY <3>6 DEF WriteInfo, Attributes, Refused, Continue
      <4> QED
        BY <2>1, <3>6, <4>1 DEF WriteInfo, Attributes, Allocations, Steps, Allocating
    <3> QED
      BY <1>3, <3>1, <3>2, <3>3, <3>4, <3>5, <3>6
  <2>3. job.at # "reread" => Failed.at # "unchain" /\ Failed.at \in {"unchain", "data", "idle"}
    <3> SUFFICES ASSUME job.at # "reread"
                 PROVE  Failed.at # "unchain" /\ Failed.at \in {"unchain", "data", "idle"}
      OBVIOUS
    <3>1. job.at \in Writing \cup {"scan"} /\ job.at # "delete"
      BY <2>1 DEF Writing, Steps, Allocating
    <3> QED
      BY <3>1, FailedFits DEF TypeInv
  <2> QED
    BY <2>2, <2>3 DEF Releasing, Steps, Allocating, Wild
<1>4. CASE Data
  BY <1>4, DataWrites DEF Idle, Wild, Releasing
<1>5. CASE Delete \/ Grow \/ NotWritten
  <2>1. job.at \in Writing
    BY <1>5 DEF Delete, Grow, NotWritten, Writing
  <2>2. /\ Failed.at = "unchain" <=> job.at = "delete"
        /\ Failed.at \in {"unchain", "data", "idle"}
    BY <2>1, FailedFits DEF TypeInv
  <2>3. \/ Refused
        \/ job'.at \in {"slots", "idle", "open"}
    BY <1>5 DEF Delete, Grow, NotWritten, Continue, Deleted, AddName, Idle
  <2> QED
    BY <2>2, <2>3 DEF Refused, Releasing
<1>6. CASE AddToDirectory
  <2>1. job.at = "slots"
    BY <1>6 DEF AddToDirectory
  <2>2. Failed.at \in {"data", "idle"}
    BY <2>1, FailedFits DEF TypeInv, Writing
  <2> QED
    BY <1>6, <2>2, AddEnds DEF Allocation, Releasing
<1>7. CASE Unchain \/ Zero \/ WriteCount
  BY <1>7 DEF Unchain, Zero, WriteCount, Releasing
<1>8. CASE PowerFails
  BY <1>8 DEF PowerFails, Idle, Releasing
<1> QED
  BY <1>1, <1>2, <1>3, <1>4, <1>5, <1>6, <1>7, <1>8 DEF Next

LEMMA MisledStep ==
    ASSUME TypeInv, MisledInv, [Next]_vars
    PROVE  MisledInv'
<1>1. faults \in Nat /\ misled \in BOOLEAN /\ (misled => faults > 0)
  BY DEF TypeInv, Numbers, MisledInv
<1>2. /\ misled' \in BOOLEAN /\ (misled => misled')
      /\ misled' => faults' > 0
  <2>1. CASE faults' = faults /\ misled' = misled
    BY <1>1, <2>1
  <2>2. CASE faults' = faults + 1 /\ misled' \in {misled, misled \/ job.at = "delete"}
    <3>1. faults' > 0
      BY <1>1, <2>2
    <3>2. misled' \in BOOLEAN /\ (misled => misled')
      BY <1>1, <2>2, Zenon
    <3> QED
      BY <3>1, <3>2
  <2> QED
    BY <2>1, <2>2, HistoryStep
<1>3. job'.at \in Releasing => misled'
  <2>1. CASE UNCHANGED vars
    BY <2>1 DEF vars, history, MisledInv
  <2>2. CASE Next
    BY <1>2, <2>2, OnlyMisled DEF MisledInv
  <2> QED
    BY <2>1, <2>2
<1> QED
  BY <1>2, <1>3 DEF MisledInv

LEMMA MisledAtFirst ==
    ASSUME Init
    PROVE  MisledInv
<1>1. misled = FALSE /\ job = Idle
  BY DEF Init
<1> QED
  BY <1>1 DEF MisledInv, Releasing, Idle

\* While unlink() has not been misled, none of this is under way.
LEMMA NotReleasing ==
    ASSUME TypeInv, MisledInv, [Next]_vars, longest' <= 3, ~misled'
    PROVE  /\ longest <= 3 /\ ~misled
           /\ ~Unchain /\ ~Zero /\ ~WriteCount
           /\ job'.at \notin Releasing
<1>1. longest <= 3
  <2>1. longest' \in Nat /\ longest \in Nat /\ longest' >= longest
    BY HistoryStep, TypesStep DEF TypeInv, Numbers
  <2> QED
    BY <2>1
<1>2. ~misled
  <2>1. misled \in BOOLEAN
    BY DEF MisledInv
  <2>2. misled' = misled \/ misled' = (misled \/ job.at = "delete")
    BY HistoryStep
  <2> QED
    BY <2>1, <2>2, Zenon
<1>3. job.at \notin Releasing /\ job'.at \notin Releasing
  BY <1>2, MisledStep DEF MisledInv
<1>4. ~Unchain /\ ~Zero /\ ~WriteCount
  BY <1>3 DEF Unchain, Zero, WriteCount, Releasing
<1> QED
  BY <1>1, <1>2, <1>3, <1>4

-----------------------------------------------------------------------------
(* The chains, while a call asks for three clusters at most.  A free        *)
(* cluster has nobody in front of it; what the copies say of a chain, the   *)
(* first one says too.                                                      *)

Sound ==
    /\ fat[1][0] # 0 /\ fat[1][1] # 0
    /\ \A c \in Entry : fat[1][c] \in Cluster => \A k \in 1..Copies : fat[k][fat[1][c]] # 0
    /\ \A c, d \in Entry : fat[1][c] \in Cluster /\ fat[1][c] = fat[1][d] => c = d
    /\ \A k \in 1..Copies : \A c \in Entry : fat[k][c] \in Cluster => fat[1][c] = fat[k][c]

SectorOf(c) == c \div PerSector

\* Nothing is free below n.
Full(n) == \A c \in Entry : c < n => fat[1][c] # 0

\* The sector at hand is sector q, or has nothing free.
Usable(q) == job.sector = Sector(q) \/ \A p \in 0..(PerSector - 1) : job.sector[p] # 0

NoOneAt(x) == \A c \in Entry : fat[1][c] # x

\* The cluster that is to get a follower has none.
Ended == job.last \in Entry \ {0} => fat[1][job.last] = EOF

\* The sector that the scan goes by.
Scanned == IF job.from = 0 THEN 0 ELSE (job.from - 1) \div PerSector

ScanInv ==
    /\ IF job.from = 0 THEN job.for = "file" => job.last \in {0, EOF}
       ELSE /\ job.for = "file" /\ job.last \in Cluster /\ job.from = job.last + 1
            /\ job.need <= 2
    /\ IF job.need > 1 THEN job.sector = Sector(Scanned) /\ Full(job.from) ELSE Usable(Scanned)
    /\ Ended

\* What the next scan will need: it starts in the sector that links the last
\* cluster.
Onward ==
    /\ job.need = 3 => job.last \in {0, EOF} /\ Full(job.new)
    /\ job.need = 2 => \/ job.last \in {0, EOF}
                       \/ SectorOf(job.last) = SectorOf(job.new)
                       \/ \A c \in Entry : SectorOf(c) = SectorOf(job.last) => fat[1][c] # 0

NewSector(x, v) == [Sector(SectorOf(x)) EXCEPT ![x % PerSector] = v]

MarkInv ==
    /\ job.sector = NewSector(job.new, EOF)
    /\ \A k \in 1..Copies : k < job.copy => fat[k][job.new] = EOF
    /\ job.copy = 1 => fat[1][job.new] = 0
    /\ job.last # job.new /\ NoOneAt(job.new)
    /\ Ended

RereadInv == job.last \in Entry \ {0} /\ job.last # job.new /\ NoOneAt(job.new) /\ Ended

LinkInv ==
    /\ job.last \in Entry \ {0} /\ job.last # job.new
    /\ job.sector = NewSector(job.last, job.new)
    /\ IF job.copy = 1 THEN NoOneAt(job.new) /\ fat[1][job.last] = EOF
       ELSE fat[1][job.last] = job.new

BlankInv ==
    /\ job.need = 3 => job.sector = Sector(SectorOf(job.new)) /\ Full(job.new)
    /\ job.need = 2 => Usable(SectorOf(job.new))

AllocInv ==
    /\ job.at \in Allocating => job.need <= 3
    /\ job.at = "scan" => ScanInv
    /\ job.at \in Allocating \ {"scan"} => job.new \in Cluster
    /\ job.at \in {"mark", "reread", "link"} => Onward
    /\ job.at \in {"reread", "link", "blank"} => \A k \in 1..Copies : fat[k][job.new] = EOF
    /\ job.at = "mark" => MarkInv
    /\ job.at = "reread" => RereadInv
    /\ job.at = "link" => LinkInv
    /\ job.at = "blank" => BlankInv

SoundInv == longest <= 3 /\ ~misled => Sound /\ AllocInv

\* Where nothing is written to the table and nothing allocated, nothing is lost.
LEMMA QuietSound ==
    ASSUME Sound, fat' = fat
    PROVE  Sound' /\ (job'.at \notin Allocating => AllocInv')
<1>1. Sound'
  BY DEF Sound
<1>2. job'.at \notin Allocating => AllocInv'
  BY DEF AllocInv, Allocating
<1> QED
  BY <1>1, <1>2

\* What a sector with one other entry makes of a copy of the table.
PutAt(k, x, v) ==
    \A m \in 1..Copies : \A c \in Entry :
        fat'[m][c] = IF m # k THEN fat[m][c]
                     ELSE IF c = x THEN v
                     ELSE IF SectorOf(c) = SectorOf(x) THEN fat[1][c] ELSE fat[k][c]

LEMMA PutIs ==
    ASSUME TableType, NEW k \in 1..Copies, NEW x \in Entry, NEW v,
           PutSector(k, SectorOf(x), NewSector(x, v))
    PROVE  PutAt(k, x, v)
<1> DEFINE s == NewSector(x, v)
           new == [c \in Entry |-> IF c \div PerSector = SectorOf(x) THEN s[c % PerSector] ELSE fat[k][c]]
<1>1. fat' = [fat EXCEPT ![k] = new]
  BY DEF PutSector
<1>2. \A m \in 1..Copies : fat'[m] = IF m = k THEN new ELSE fat[m]
  <2> HIDE DEF new
  <2> QED
    BY <1>1 DEF TableType
<1>3. ASSUME NEW c \in Entry, SectorOf(c) = SectorOf(x)
      PROVE  s[c % PerSector] = IF c = x THEN v ELSE fat[1][c]
  <2>1. /\ c % PerSector \in 0..(PerSector - 1)
        /\ Sector(SectorOf(x))[c % PerSector] = fat[1][c]
        /\ c % PerSector = x % PerSector <=> c = x
    BY <1>3, Positions, SamePlace, SectorIs DEF SectorOf
  <2>2. DOMAIN Sector(SectorOf(x)) = 0..(PerSector - 1)
    BY DEF Sector
  <2> QED
    BY <2>1, <2>2 DEF NewSector
<1>4. \A c \in Entry : new[c] = IF c = x THEN v
                                ELSE IF SectorOf(c) = SectorOf(x) THEN fat[1][c] ELSE fat[k][c]
  <2> HIDE DEF s
  <2> QED
    BY <1>3 DEF SectorOf
<1> HIDE DEF new
<1> QED
  BY <1>2, <1>4 DEF PutAt

\* The sector that was put is what the first copy then has.
LEMMA SectorAfter ==
    ASSUME NEW k \in 1..Copies, NEW x \in Entry, NEW v, PutAt(k, x, v), k = 1 \/ fat[1][x] = v
    PROVE  /\ NewSector(x, v) = Sector(SectorOf(x))'
           /\ NewSector(x, v)' = Sector(SectorOf(x))'
<1>1. 1 \in 1..Copies /\ x % PerSector \in 0..(PerSector - 1)
  BY Sizes, Positions
<1> DEFINE q == SectorOf(x)
<1>2. ASSUME NEW p \in 0..(PerSector - 1)
      PROVE  /\ Sector(q)'[p] = fat'[1][q * PerSector + p] /\ Sector(q)[p] = fat[1][q * PerSector + p]
             /\ fat'[1][q * PerSector + p] = IF p = x % PerSector THEN v ELSE fat[1][q * PerSector + p]
  <2> DEFINE c == q * PerSector + p
  <2>1. c \in Entry /\ SectorOf(c) = q /\ c % PerSector = p
    BY Positions, EntryAt DEF SectorOf
  <2>2. Sector(q)'[p] = fat'[1][c] /\ Sector(q)[p] = fat[1][c]
    BY DEF Sector
  <2> HIDE DEF c
  <2>3. c = x <=> p = x % PerSector
    BY <2>1, SamePlace DEF SectorOf
  <2>4. fat'[1][c] = IF c = x THEN v ELSE fat[1][c]
    BY <1>1, <2>1 DEF PutAt
  <2> QED
    BY <2>2, <2>3, <2>4 DEF c
<1>3. /\ Sector(q) = [p \in 0..(PerSector - 1) |-> Sector(q)[p]]
      /\ Sector(q)' = [p \in 0..(PerSector - 1) |-> Sector(q)'[p]]
  BY DEF Sector
<1>4. NewSector(x, v) = [Sector(q) EXCEPT ![x % PerSector] = v]
  BY DEF NewSector
<1>5. NewSector(x, v)' = [Sector(q)' EXCEPT ![x % PerSector] = v]
  BY DEF NewSector, SectorOf
<1> DEFINE a == Sector(q)  b == Sector(q)'
<1>6. \A p \in 0..(PerSector - 1) : b[p] = IF p = x % PerSector THEN v ELSE a[p]
  BY <1>2
<1>7. b = [a EXCEPT ![x % PerSector] = v] /\ b = [b EXCEPT ![x % PerSector] = v]
  <2>1. /\ a = [p \in 0..(PerSector - 1) |-> a[p]] /\ b = [p \in 0..(PerSector - 1) |-> b[p]]
        /\ \A p \in 0..(PerSector - 1) : b[p] = IF p = x % PerSector THEN v ELSE a[p]
    BY <1>3, <1>6
  <2> HIDE DEF a, b
  <2> QED
    BY <2>1
<1> QED
  BY <1>4, <1>5, <1>7

\* Puts that keep the chains: in the first copy a new end or a link to it, in
\* another what the first one has.
LEMMA EndKeeps ==
    ASSUME Sound, NEW x \in Cluster, fat[1][x] = 0, NoOneAt(x), PutAt(1, x, EOF)
    PROVE  Sound'
<1>1. /\ 1 \in 1..Copies /\ EOF # 0 /\ EOF \notin Cluster /\ Cluster \subseteq Entry
      /\ 0 \in Entry /\ 1 \in Entry /\ 0 \notin Cluster
  BY Sizes DEF Cluster
<1>2. \A c \in Entry : fat'[1][c] = IF c = x THEN EOF ELSE fat[1][c]
  BY <1>1 DEF PutAt
<1>3. \A k \in 1..Copies : \A c \in Entry : k # 1 => fat'[k][c] = fat[k][c]
  BY <1>1 DEF PutAt
<1>4. fat'[1][0] # 0 /\ fat'[1][1] # 0
  BY <1>1, <1>2 DEF Sound
<1>5. \A c \in Entry : fat'[1][c] \in Cluster => \A k \in 1..Copies : fat'[k][fat'[1][c]] # 0
  BY <1>1, <1>2, <1>3 DEF Sound
<1>6. \A c, d \in Entry : fat'[1][c] \in Cluster /\ fat'[1][c] = fat'[1][d] => c = d
  BY <1>1, <1>2 DEF Sound
<1>7. \A k \in 1..Copies : \A c \in Entry : fat'[k][c] \in Cluster => fat'[1][c] = fat'[k][c]
  BY <1>1, <1>2, <1>3 DEF Sound
<1> QED
  BY <1>4, <1>5, <1>6, <1>7 DEF Sound

LEMMA LinkKeeps ==
    ASSUME Sound, NEW x \in Entry \ {0}, fat[1][x] = EOF, NEW new \in Cluster, new # x, NoOneAt(new),
           \A k \in 1..Copies : fat[k][new] = EOF, PutAt(1, x, new)
    PROVE  Sound'
<1>1. /\ 1 \in 1..Copies /\ EOF # 0 /\ EOF \notin Cluster /\ Cluster \subseteq Entry
      /\ 0 \in Entry /\ 1 \in Entry /\ 0 \notin Cluster
  BY Sizes DEF Cluster
<1>2. \A c \in Entry : fat'[1][c] = IF c = x THEN new ELSE fat[1][c]
  BY <1>1 DEF PutAt
<1>3. \A k \in 1..Copies : \A c \in Entry : k # 1 => fat'[k][c] = fat[k][c]
  BY <1>1 DEF PutAt
<1>4. fat'[1][0] # 0 /\ fat'[1][1] # 0
  BY <1>1, <1>2 DEF Sound
<1>5. ASSUME NEW c \in Entry, fat'[1][c] \in Cluster, NEW k \in 1..Copies
      PROVE  fat'[k][fat'[1][c]] # 0
  <2>1. CASE c = x
    <3>1. fat'[1][c] = new /\ fat'[k][new] = EOF
      BY <1>1, <1>2, <1>3, <2>1
    <3> QED
      BY <1>1, <3>1
  <2>2. CASE c # x
    <3> DEFINE t == fat[1][c]
    <3>1. fat'[1][c] = t /\ t \in Cluster /\ t \in Entry /\ fat[k][t] # 0 /\ fat[1][t] # 0
      BY <1>1, <1>2, <1>5, <2>2 DEF Sound
    <3> HIDE DEF t
    <3>2. fat'[k][t] # 0
      BY <1>1, <1>2, <1>3, <3>1
    <3> QED
      BY <3>1, <3>2
  <2> QED
    BY <2>1, <2>2
<1>6. \A c, d \in Entry : fat'[1][c] \in Cluster /\ fat'[1][c] = fat'[1][d] => c = d
  BY <1>1, <1>2 DEF Sound, NoOneAt
<1>7. \A k \in 1..Copies : \A c \in Entry : fat'[k][c] \in Cluster => fat'[1][c] = fat'[k][c]
  BY <1>1, <1>2, <1>3 DEF Sound
<1> QED
  BY <1>4, <1>5, <1>6, <1>7 DEF Sound

LEMMA CopyKeeps ==
    ASSUME Sound, NEW k \in 1..Copies, k # 1, NEW x \in Entry, PutAt(k, x, fat[1][x])
    PROVE  Sound' /\ \A c \in Entry : fat'[1][c] = fat[1][c]
<1>1. 1 \in 1..Copies /\ Cluster \subseteq Entry
  BY Sizes DEF Cluster
<1>2. \A c \in Entry : fat'[1][c] = fat[1][c]
  BY <1>1 DEF PutAt
<1>3. \A m \in 1..Copies : \A c \in Entry : fat'[m][c] \in {fat[1][c], fat[m][c]}
  BY <1>1 DEF PutAt
<1>4. fat'[1][0] # 0 /\ fat'[1][1] # 0
  BY <1>1, <1>2, Sizes DEF Sound
<1>5. \A c \in Entry : fat'[1][c] \in Cluster => \A m \in 1..Copies : fat'[m][fat'[1][c]] # 0
  <2> SUFFICES ASSUME NEW c \in Entry, fat'[1][c] \in Cluster, NEW m \in 1..Copies
               PROVE  fat'[m][fat'[1][c]] # 0
    OBVIOUS
  <2> DEFINE t == fat[1][c]
  <2>1. fat'[1][c] = t /\ t \in Cluster /\ t \in Entry /\ fat[m][t] # 0 /\ fat[1][t] # 0
    BY <1>1, <1>2 DEF Sound
  <2> HIDE DEF t
  <2> QED
    BY <1>3, <2>1
<1>6. \A c, d \in Entry : fat'[1][c] \in Cluster /\ fat'[1][c] = fat'[1][d] => c = d
  BY <1>2 DEF Sound
<1>7. \A m \in 1..Copies : \A c \in Entry : fat'[m][c] \in Cluster => fat'[1][c] = fat'[m][c]
  BY <1>2, <1>3 DEF Sound
<1> QED
  BY <1>2, <1>4, <1>5, <1>6, <1>7 DEF Sound

\* What a scan finds is free, in the sector at hand or in one it reads; with more
\* clusters to find it is the first free one from where it starts.
LEMMA ScanFinds ==
    ASSUME TypeInv, Sound, ScanInv, job.at = "scan", Scan, job' # Failed
    PROVE  \E new \in Cluster :
              /\ fat[1][new] = 0
              /\ job' = [job EXCEPT !.at = "mark", !.new = new, !.copy = 1,
                                    !.sector = NewSector(new, EOF)]
              /\ job.need > 1 => \A c \in Entry : job.from <= c /\ c < new => fat[1][c] # 0
              /\ \/ SectorOf(new) = Scanned
                 \/ job.need > 1 => \A c \in Entry : SectorOf(c) = Scanned => fat[1][c] # 0
<1> DEFINE s == Scanned
           here == {c \in Entry : c >= job.from /\ c \div PerSector = s
                                  /\ job.sector[c % PerSector] = 0}
           later == {c \in Entry : c \div PerSector > s /\ fat[1][c] = 0}
           new == Min(IF here # {} THEN here ELSE later)
           sector == IF here # {} THEN job.sector ELSE Sector(new \div PerSector)
<1>1. /\ here \cup later # {}
      /\ job' = IF new \in {0, 1} THEN Wild
                ELSE [job EXCEPT !.at = "mark", !.new = new, !.copy = 1,
                                 !.sector = [sector EXCEPT ![new % PerSector] = EOF]]
  BY DEF Scan, Scanned, Continue
<1>2. /\ Entry \subseteq Nat /\ here \subseteq Entry /\ later \subseteq Entry
      /\ job.from \in Nat /\ job.need \in Nat
  BY Sizes DEF TypeInv, JobFits, Allocations, Steps, Allocating
<1>3. ASSUME job.sector = Sector(s), NEW c \in Entry, SectorOf(c) = s
      PROVE  job.sector[c % PerSector] = fat[1][c]
  BY <1>3, SectorIs DEF TypeInv, SectorOf
<1>4. job.sector = Sector(s) \/ \A p \in 0..(PerSector - 1) : job.sector[p] # 0
  BY DEF ScanInv, Usable
<1>5. here # {} => job.sector = Sector(s)
  BY <1>4, Positions
<1>6. new \in IF here # {} THEN here ELSE later
  <2> HIDE DEF here, later
  <2> QED
    BY <1>1, <1>2, LeastOf
<1>7. \A c \in (IF here # {} THEN here ELSE later) : new <= c
  <2> HIDE DEF here, later
  <2> QED
    BY <1>1, <1>2, LeastOf
<1> HIDE DEF new
<1>8. new \in Entry /\ fat[1][new] = 0
  BY <1>3, <1>5, <1>6 DEF SectorOf
<1>9. new \in Cluster
  BY <1>8 DEF Sound, Cluster
<1>10. [sector EXCEPT ![new % PerSector] = EOF] = NewSector(new, EOF)
  BY <1>5, <1>6 DEF NewSector, SectorOf
<1>11. ASSUME job.need > 1, NEW c \in Entry, job.from <= c, c < new, fat[1][c] = 0
       PROVE  FALSE
  <2>1. job.sector = Sector(s)
    BY <1>11 DEF ScanInv
  <2>2. SectorOf(c) = s => c \in here
    BY <1>2, <1>3, <1>11, <2>1 DEF SectorOf
  <2>3. SectorOf(c) # s => SectorOf(c) > s
    <3>1. CASE job.from = 0
      <4>1. s = 0 /\ SectorOf(c) \in Nat
        BY <3>1, Positions DEF Scanned, SectorOf
      <4> QED
        BY <4>1
    <3>2. CASE job.from # 0
      <4>1. job.last \in Entry /\ job.from = job.last + 1 /\ job.last <= c /\ s = SectorOf(job.last)
        <5>1. job.last \in Cluster /\ job.from = job.last + 1
          BY <3>2 DEF ScanInv
        <5>2. job.last \in Entry /\ job.last \in Nat /\ c \in Nat
          BY <5>1, Sizes DEF Cluster
        <5>3. job.last <= c /\ job.from - 1 = job.last
          BY <1>11, <5>1, <5>2
        <5>4. s = SectorOf(job.last)
          BY <3>2, <5>3 DEF Scanned, SectorOf
        <5> QED
          BY <5>1, <5>2, <5>3, <5>4
      <4>2. SectorOf(job.last) <= SectorOf(c) /\ SectorOf(job.last) \in Nat /\ SectorOf(c) \in Nat
        BY <4>1, SectorOrder, Positions DEF SectorOf
      <4> QED
        BY <4>1, <4>2
    <3> QED
      BY <3>1, <3>2
  <2>4. CASE here # {}
    <3>1. new \in here /\ \A d \in here : new <= d
      BY <1>6, <1>7, <2>4
    <3>2. SectorOf(new) = s /\ SectorOf(c) <= SectorOf(new) /\ SectorOf(c) \in Nat /\ s \in Nat
      BY <1>2, <1>8, <1>11, <3>1, SectorOrder, Positions DEF SectorOf
    <3>3. c \in here
      BY <2>2, <2>3, <3>2
    <3> QED
      BY <1>2, <1>8, <1>11, <3>1, <3>3
  <2>5. CASE here = {}
    <3>1. c \in later
      BY <1>11, <2>2, <2>3, <2>5 DEF SectorOf
    <3> QED
      BY <1>2, <1>7, <1>8, <1>11, <2>5, <3>1
  <2> QED
    BY <2>4, <2>5
<1>12. ASSUME SectorOf(new) # s, job.need > 1, NEW c \in Entry, SectorOf(c) = s
       PROVE  fat[1][c] # 0
  <2>1. here = {}
    BY <1>6, <1>12 DEF SectorOf
  <2>2. job.sector = Sector(s) /\ Full(job.from)
    BY <1>12 DEF ScanInv
  <2>3. CASE c < job.from
    BY <2>2, <2>3 DEF Full
  <2>4. CASE ~(c < job.from)
    BY <1>2, <1>3, <1>12, <2>1, <2>2, <2>4 DEF SectorOf
  <2> QED
    BY <2>3, <2>4
<1> HIDE DEF here, later, sector
<1>13. job' = [job EXCEPT !.at = "mark", !.new = new, !.copy = 1, !.sector = NewSector(new, EOF)]
  BY <1>1, <1>9, <1>10 DEF Cluster
<1> QED
  BY <1>8, <1>9, <1>11, <1>12, <1>13

LEMMA ScanSound ==
    ASSUME TypeInv, Sound, AllocInv, Scan
    PROVE  Sound' /\ AllocInv'
<1>1. fat' = fat /\ job.at = "scan"
  BY DEF Scan, disk
<1>2. Sound'
  BY <1>1, QuietSound
<1>3. CASE job' = Failed
  <2>1. job'.at \notin Allocating
    BY <1>1, <1>3, FailedFits DEF TypeInv, Allocating
  <2> QED
    BY <1>1, <2>1, QuietSound
<1>4. CASE job' # Failed
  <2>1. ScanInv /\ job.need <= 3 /\ job \in Allocations
    BY <1>1 DEF AllocInv, TypeInv, JobFits, Steps, Allocating
  <2>2. PICK new \in Cluster :
              /\ fat[1][new] = 0
              /\ job' = [job EXCEPT !.at = "mark", !.new = new, !.copy = 1,
                                    !.sector = NewSector(new, EOF)]
              /\ job.need > 1 => \A c \in Entry : job.from <= c /\ c < new => fat[1][c] # 0
              /\ \/ SectorOf(new) = Scanned
                 \/ job.need > 1 => \A c \in Entry : SectorOf(c) = Scanned => fat[1][c] # 0
    BY <1>1, <1>4, <2>1, ScanFinds
  <2>3. /\ job'.at = "mark" /\ job'.new = new /\ job'.copy = 1
        /\ job'.need = job.need /\ job'.last = job.last
        /\ job'.sector = NewSector(new, EOF)
    BY <2>1, <2>2 DEF Allocations
  <2>4. /\ job.need \in Nat /\ job.from \in Nat /\ job.last \in Entry \cup {EOF}
        /\ job.for \in {"file", "directory"} /\ (job.for = "directory" => job.need = 1)
    BY <1>1, <2>1 DEF Allocations, TypeInv, JobFits, ForDirectory, Steps, Allocating
  <2>5. Entry \subseteq Nat /\ new \in Nat
    BY Sizes DEF Cluster
  <2>6. Onward'
    <3>1. ASSUME job.from # 0
          PROVE  job.need <= 2 /\ job.last \in Nat /\ Scanned = SectorOf(job.last)
      <4>1. job.last \in Cluster /\ job.from = job.last + 1 /\ job.need <= 2
        BY <2>1, <3>1 DEF ScanInv
      <4>2. job.last \in Nat
        BY <2>5, <4>1 DEF Cluster
      <4>3. job.from - 1 = job.last
        BY <4>1, <4>2
      <4> QED
        BY <3>1, <4>1, <4>2, <4>3 DEF Scanned, SectorOf
    <3>2. job.from = 0 /\ job.need > 1 => job.last \in {0, EOF}
      BY <2>1, <2>4 DEF ScanInv
    <3>3. job.need = 3 => job.last \in {0, EOF} /\ \A c \in Entry : c < new => fat[1][c] # 0
      <4> SUFFICES ASSUME job.need = 3
                   PROVE  job.last \in {0, EOF} /\ \A c \in Entry : c < new => fat[1][c] # 0
        OBVIOUS
      <4>1. job.from = 0
        BY <3>1
      <4>2. \A c \in Entry : job.from <= c
        BY <2>5, <4>1
      <4> QED
        BY <2>2, <3>2, <4>1, <4>2
    <3>4. job.need = 2 => \/ job.last \in {0, EOF}
                          \/ SectorOf(job.last) = SectorOf(new)
                          \/ \A c \in Entry : SectorOf(c) = SectorOf(job.last) => fat[1][c] # 0
      BY <2>2, <3>1, <3>2
    <3> QED
      BY <1>1, <2>3, <3>3, <3>4 DEF Onward, Full, SectorOf
  <2>7. MarkInv'
    <3>1. NoOneAt(new)
      BY <2>2, Sizes DEF NoOneAt, Sound
    <3>2. job.last # new
      BY <2>1, <2>2, <2>4, Sizes DEF ScanInv, Ended, Cluster
    <3>3. NewSector(new, EOF) = [Sector(SectorOf(new)) EXCEPT ![new % PerSector] = EOF]
      BY DEF NewSector
    <3>4. NewSector(job.new, EOF)' = NewSector(new, EOF)
      BY <1>1, <2>3 DEF NewSector, Sector, SectorOf
    <3>5. Ended'
      BY <1>1, <2>1, <2>3 DEF ScanInv, Ended
    <3> QED
      BY <1>1, <2>2, <2>3, <3>1, <3>2, <3>4, <3>5 DEF MarkInv, NoOneAt
  <2> QED
    BY <1>2, <2>1, <2>2, <2>3, <2>6, <2>7 DEF AllocInv, Allocating
<1> QED
  BY <1>3, <1>4

\* A copy of the table with the new cluster at the end of a chain.
LEMMA MarkEffect ==
    ASSUME TypeInv, Sound, MarkInv, job.at = "mark", job.new \in Cluster, Mark
    PROVE  \E k \in 1..Copies, x \in Cluster :
              /\ k = job.copy /\ x = job.new /\ PutAt(k, x, EOF)
              /\ Sound'
              /\ \A c \in Entry : fat'[1][c] = IF c = x THEN EOF ELSE fat[1][c]
              /\ \A m \in 1..Copies : m <= k => fat'[m][x] = EOF
              /\ k = 1 => fat[1][x] = 0
              /\ job.sector = Sector(SectorOf(x))' /\ job.sector = NewSector(x, EOF)'
<1>1. job \in Allocations
  BY DEF TypeInv, JobFits, Steps, Allocating
<1>2. PICK k \in 1..Copies, x \in Cluster : k = job.copy /\ x = job.new
  BY <1>1 DEF Allocations
<1>3. 1 \in 1..Copies /\ x \in Entry /\ Copies \in Nat
  BY Sizes DEF Cluster
<1>4. /\ job.sector = NewSector(x, EOF) /\ NoOneAt(x)
      /\ \A m \in 1..Copies : m < k => fat[m][x] = EOF
      /\ k = 1 => fat[1][x] = 0
  BY <1>2 DEF MarkInv
<1>5. PutSector(k, SectorOf(x), NewSector(x, EOF))
  BY <1>2, <1>4 DEF Mark, SectorOf
<1>6. PutAt(k, x, EOF)
  BY <1>3, <1>5, PutIs DEF TypeInv
<1>7. k = 1 \/ (k > 1 /\ fat[1][x] = EOF)
  BY <1>3, <1>4
<1>8. Sound' /\ \A c \in Entry : fat'[1][c] = IF c = x THEN EOF ELSE fat[1][c]
  <2>1. CASE k = 1
    <3>1. Sound'
      BY <1>4, <1>6, <2>1, EndKeeps
    <3> QED
      BY <1>3, <1>6, <2>1, <3>1 DEF PutAt
  <2>2. CASE k > 1 /\ fat[1][x] = EOF
    <3>1. PutAt(k, x, fat[1][x]) /\ k # 1
      BY <1>6, <2>2
    <3>2. Sound' /\ \A c \in Entry : fat'[1][c] = fat[1][c]
      BY <1>3, <3>1, CopyKeeps
    <3> QED
      BY <2>2, <3>2
  <2> QED
    BY <1>7, <2>1, <2>2
<1>9. \A m \in 1..Copies : m <= k => fat'[m][x] = EOF
  BY <1>3, <1>4, <1>6 DEF PutAt
<1>10. job.sector = Sector(SectorOf(x))' /\ job.sector = NewSector(x, EOF)'
  <2>1. /\ NewSector(x, EOF) = Sector(SectorOf(x))'
        /\ NewSector(x, EOF)' = Sector(SectorOf(x))'
    BY <1>3, <1>6, <1>7, SectorAfter
  <2> QED
    BY <1>4, <2>1
<1> QED
  BY <1>2, <1>4, <1>6, <1>8, <1>9, <1>10

LEMMA MarkSound ==
    ASSUME TypeInv, Sound, AllocInv, Mark
    PROVE  Sound' /\ AllocInv'
<1>1. /\ job.at = "mark" /\ MarkInv /\ job.new \in Cluster /\ Onward /\ job.need <= 3
      /\ job \in Allocations
  BY DEF Mark, AllocInv, TypeInv, JobFits, Steps, Allocating
<1>2. PICK k \in 1..Copies, x \in Cluster :
              /\ k = job.copy /\ x = job.new /\ PutAt(k, x, EOF)
              /\ Sound'
              /\ \A c \in Entry : fat'[1][c] = IF c = x THEN EOF ELSE fat[1][c]
              /\ \A m \in 1..Copies : m <= k => fat'[m][x] = EOF
              /\ k = 1 => fat[1][x] = 0
              /\ job.sector = Sector(SectorOf(x))' /\ job.sector = NewSector(x, EOF)'
  BY <1>1, MarkEffect
<1>3. /\ EOF # 0 /\ EOF \notin Entry /\ Entry \subseteq Nat /\ Copies \in Nat /\ x \in Entry
      /\ EOF \notin Cluster
  BY Sizes DEF Cluster
<1>4. /\ \A n \in Nat : Full(n) => Full(n)'
      /\ \A q \in Nat : (\A c \in Entry : SectorOf(c) = q => fat[1][c] # 0)
                           => \A c \in Entry : SectorOf(c) = q => fat'[1][c] # 0
      /\ \A c \in Entry : fat'[1][c] # x
  BY <1>1, <1>2, <1>3 DEF Full, MarkInv, NoOneAt
<1>5. CASE job' = Failed
  <2>1. job'.at \notin Allocating
    BY <1>1, <1>5, FailedFits DEF TypeInv, Writing, Allocating
  <2> QED
    BY <1>2, <2>1 DEF AllocInv, Allocating
<1>6. ASSUME job'.at \in {"mark", "reread"}, job'.new = x, job'.last = job.last, job'.need = job.need
      PROVE  Onward' /\ Ended' /\ job'.last # job'.new /\ NoOneAt(job.new)'
  <2>1. job.last \in Entry \cup {EOF} /\ job.last # x
    BY <1>1, <1>2 DEF Allocations, MarkInv
  <2>2. Ended'
    BY <1>1, <1>2, <1>6, <2>1 DEF MarkInv, Ended
  <2>3. NoOneAt(job.new)'
    BY <1>4, <1>6 DEF NoOneAt
  <2>4. job.need = 3 => job.last \in {0, EOF} /\ \A c \in Entry : c < x => fat'[1][c] # 0
    BY <1>1, <1>2, <1>3 DEF Onward, Full
  <2>5. job.need = 2 => \/ job.last \in {0, EOF}
                        \/ SectorOf(job.last) = SectorOf(x)
                        \/ \A c \in Entry : SectorOf(c) = SectorOf(job.last) => fat'[1][c] # 0
    BY <1>1, <1>2, <1>3 DEF Onward
  <2>6. Onward'
    BY <1>6, <2>4, <2>5 DEF Onward, Full, SectorOf
  <2> QED
    BY <1>6, <2>1, <2>2, <2>3, <2>6
<1>7. CASE ~LastCopy(job.copy) /\ job' = [job EXCEPT !.copy = @ + 1]
  <2>1. /\ job'.at = "mark" /\ job'.new = x /\ job'.last = job.last /\ job'.need = job.need
        /\ job'.copy = k + 1 /\ job'.sector = job.sector
    BY <1>1, <1>2, <1>7 DEF Allocations
  <2>2. \A m \in 1..Copies : m < k + 1 => fat'[m][x] = EOF
    BY <1>2, <1>3
  <2>3. k + 1 # 1
    BY <1>3
  <2>4. job'.sector = NewSector(job.new, EOF)'
    BY <1>2, <2>1
  <2>5. MarkInv'
    BY <1>6, <2>1, <2>2, <2>3, <2>4 DEF MarkInv
  <2> QED
    BY <1>1, <1>2, <1>6, <2>1, <2>5 DEF AllocInv, Allocating
<1>8. ASSUME LastCopy(job.copy)
      PROVE  \A m \in 1..Copies : fat'[m][x] = EOF
  BY <1>2, <1>3, <1>8 DEF LastCopy
<1>9. CASE LastCopy(job.copy) /\ job.last \notin {0, EOF} /\ job' = [job EXCEPT !.at = "reread"]
  <2>1. /\ job'.at = "reread" /\ job'.new = x /\ job'.last = job.last /\ job'.need = job.need
    BY <1>1, <1>2, <1>9 DEF Allocations
  <2>2. job.last \in Entry \ {0}
    BY <1>1, <1>9 DEF Allocations
  <2>3. RereadInv'
    BY <1>6, <2>1, <2>2 DEF RereadInv
  <2> QED
    BY <1>1, <1>2, <1>6, <1>8, <1>9, <2>1, <2>3 DEF AllocInv, Allocating
<1>10. CASE LastCopy(job.copy) /\ job.last = 0 /\ job' = [job EXCEPT !.at = "blank"]
  <2>1. /\ job'.at = "blank" /\ job'.new = x /\ job'.need = job.need /\ job'.sector = job.sector
    BY <1>1, <1>2, <1>10 DEF Allocations
  <2>2. job'.sector = Sector(SectorOf(job.new))'
    BY <1>2, <2>1 DEF SectorOf
  <2>3. job'.need = 3 => Full(job.new)'
    BY <1>1, <1>2, <1>3, <2>1 DEF Onward, Full
  <2>4. BlankInv'
    BY <2>2, <2>3 DEF BlankInv, Usable
  <2> QED
    BY <1>1, <1>2, <1>8, <1>10, <2>1, <2>4 DEF AllocInv, Allocating
<1> QED
  BY <1>5, <1>7, <1>9, <1>10 DEF Mark, Refused, Continue

LEMMA RereadSound ==
    ASSUME TypeInv, Sound, AllocInv, Reread
    PROVE  Sound' /\ AllocInv'
<1>1. /\ job.at = "reread" /\ fat' = fat
      /\ job' = [job EXCEPT !.at = "link", !.copy = 1, !.sector = Linked(job.last, job.new)]
  BY DEF Reread, Continue, disk
<1>2. /\ RereadInv /\ job.new \in Cluster /\ Onward /\ job.need <= 3
      /\ \A k \in 1..Copies : fat[k][job.new] = EOF
      /\ job \in Allocations
  BY <1>1 DEF AllocInv, TypeInv, JobFits, Steps, Allocating
<1> DEFINE sector == NewSector(job.last, job.new)
<1>3. job' = [job EXCEPT !.at = "link", !.copy = 1, !.sector = sector]
  BY <1>1 DEF Linked, NewSector, SectorOf
<1> HIDE DEF sector
<1>4. /\ job'.at = "link" /\ job'.new = job.new /\ job'.last = job.last /\ job'.need = job.need
      /\ job'.copy = 1 /\ job'.sector = sector
  BY <1>2, <1>3 DEF Allocations
<1>5. job'.sector = NewSector(job.last, job.new)'
  BY <1>1, <1>4 DEF sector, NewSector, Sector, SectorOf
<1>6. LinkInv'
  BY <1>1, <1>2, <1>4, <1>5 DEF LinkInv, RereadInv, Ended, NoOneAt
<1>7. Onward'
  BY <1>1, <1>2, <1>4 DEF Onward, Full, SectorOf
<1>8. Sound'
  BY <1>1, QuietSound
<1> QED
  BY <1>1, <1>2, <1>4, <1>6, <1>7, <1>8 DEF AllocInv, Allocating

\* A copy of the table with the link to the new cluster.
LEMMA LinkEffect ==
    ASSUME TypeInv, Sound, LinkInv, job.at = "link", job.new \in Cluster,
           \A m \in 1..Copies : fat[m][job.new] = EOF, Link
    PROVE  \E k \in 1..Copies, x \in Cluster, y \in Entry \ {0} :
              /\ k = job.copy /\ x = job.new /\ y = job.last /\ x # y /\ PutAt(k, y, x)
              /\ Sound'
              /\ \A c \in Entry : fat'[1][c] = IF c = y THEN x ELSE fat[1][c]
              /\ \A m \in 1..Copies : fat'[m][x] = EOF
              /\ k = 1 => fat[1][y] = EOF
              /\ job.sector = Sector(SectorOf(y))' /\ job.sector = NewSector(y, x)'
<1>1. job \in Allocations
  BY DEF TypeInv, JobFits, Steps, Allocating
<1>2. PICK k \in 1..Copies, x \in Cluster, y \in Entry \ {0} : k = job.copy /\ x = job.new /\ y = job.last
  BY <1>1 DEF Allocations, LinkInv
<1>3. 1 \in 1..Copies /\ x \in Entry /\ Copies \in Nat
  BY Sizes DEF Cluster
<1>4. /\ job.sector = NewSector(y, x) /\ x # y
      /\ k = 1 => NoOneAt(x) /\ fat[1][y] = EOF
      /\ k # 1 => fat[1][y] = x
      /\ \A m \in 1..Copies : fat[m][x] = EOF
  BY <1>2 DEF LinkInv
<1>5. PutSector(k, SectorOf(y), NewSector(y, x))
  BY <1>2, <1>4 DEF Link, SectorOf
<1>6. PutAt(k, y, x)
  BY <1>3, <1>5, PutIs DEF TypeInv
<1>7. Sound' /\ \A c \in Entry : fat'[1][c] = IF c = y THEN x ELSE fat[1][c]
  <2>1. CASE k = 1
    <3>1. Sound'
      BY <1>4, <1>6, <2>1, LinkKeeps
    <3> QED
      BY <1>3, <1>6, <2>1, <3>1 DEF PutAt
  <2>2. CASE k # 1
    <3>1. PutAt(k, y, fat[1][y])
      BY <1>4, <1>6, <2>2
    <3>2. Sound' /\ \A c \in Entry : fat'[1][c] = fat[1][c]
      BY <1>3, <2>2, <3>1, CopyKeeps
    <3> QED
      BY <1>4, <2>2, <3>2
  <2> QED
    BY <2>1, <2>2
<1>8. \A m \in 1..Copies : fat'[m][x] = EOF
  BY <1>3, <1>4, <1>6 DEF PutAt
<1>9. job.sector = Sector(SectorOf(y))' /\ job.sector = NewSector(y, x)'
  <2>1. /\ NewSector(y, x) = Sector(SectorOf(y))'
        /\ NewSector(y, x)' = Sector(SectorOf(y))'
    BY <1>3, <1>4, <1>6, SectorAfter
  <2> QED
    BY <1>4, <2>1
<1> QED
  BY <1>2, <1>4, <1>6, <1>7, <1>8, <1>9

LEMMA LinkSound ==
    ASSUME TypeInv, Sound, AllocInv, Link
    PROVE  Sound' /\ AllocInv'
<1>1. /\ job.at = "link" /\ LinkInv /\ job.new \in Cluster /\ Onward /\ job.need <= 3
      /\ \A m \in 1..Copies : fat[m][job.new] = EOF
      /\ job \in Allocations
  BY DEF Link, AllocInv, TypeInv, JobFits, Steps, Allocating
<1>2. PICK k \in 1..Copies, x \in Cluster, y \in Entry \ {0} :
              /\ k = job.copy /\ x = job.new /\ y = job.last /\ x # y /\ PutAt(k, y, x)
              /\ Sound'
              /\ \A c \in Entry : fat'[1][c] = IF c = y THEN x ELSE fat[1][c]
              /\ \A m \in 1..Copies : fat'[m][x] = EOF
              /\ k = 1 => fat[1][y] = EOF
              /\ job.sector = Sector(SectorOf(y))' /\ job.sector = NewSector(y, x)'
  BY <1>1, LinkEffect
<1>3. /\ EOF # 0 /\ EOF \notin Entry /\ Entry \subseteq Nat /\ Copies \in Nat /\ x \in Entry
      /\ x # 0
  BY Sizes DEF Cluster
<1>4. \A c \in Entry : fat[1][c] # 0 => fat'[1][c] # 0
  BY <1>2, <1>3
<1>5. CASE job' = Failed
  <2>1. job'.at \notin Allocating
    BY <1>1, <1>5, FailedFits DEF TypeInv, Writing, Allocating
  <2> QED
    BY <1>2, <2>1 DEF AllocInv, Allocating
<1>6. CASE ~LastCopy(job.copy) /\ job' = [job EXCEPT !.copy = @ + 1]
  <2>1. /\ job'.at = "link" /\ job'.new = x /\ job'.last = y /\ job'.need = job.need
        /\ job'.copy = k + 1 /\ job'.sector = job.sector
    BY <1>1, <1>2, <1>6 DEF Allocations
  <2>2. k + 1 # 1
    BY <1>3
  <2>3. job'.sector = NewSector(job.last, job.new)'
    BY <1>2, <2>1
  <2>4. LinkInv'
    BY <1>2, <2>1, <2>2, <2>3 DEF LinkInv
  <2>5. Onward'
    BY <1>1, <1>2, <1>4, <2>1 DEF Onward, Full, SectorOf
  <2> QED
    BY <1>1, <1>2, <2>1, <2>4, <2>5 DEF AllocInv, Allocating
<1>7. CASE job' = [job EXCEPT !.at = "blank"]
  <2>1. /\ job'.at = "blank" /\ job'.new = x /\ job'.need = job.need /\ job'.sector = job.sector
    BY <1>1, <1>2, <1>7 DEF Allocations
  <2>2. job.need # 3
    BY <1>1, <1>2, <1>3 DEF Onward
  <2>3. job.need = 2 => job'.sector = Sector(SectorOf(x))' \/ \A p \in 0..(PerSector - 1) : job'.sector[p] # 0
    <3> SUFFICES ASSUME job.need = 2, SectorOf(y) # SectorOf(x)
                 PROVE  \A p \in 0..(PerSector - 1) : job.sector[p] # 0
      BY <1>2, <2>1
    <3>1. \A c \in Entry : SectorOf(c) = SectorOf(y) => fat'[1][c] # 0
      BY <1>1, <1>2, <1>3, <1>4 DEF Onward
    <3>2. ASSUME NEW p \in 0..(PerSector - 1)
          PROVE  Sector(SectorOf(y))'[p] # 0
      <4>1. /\ SectorOf(y) * PerSector + p \in Entry
            /\ SectorOf(SectorOf(y) * PerSector + p) = SectorOf(y)
        BY Positions, EntryAt DEF SectorOf
      <4>2. Sector(SectorOf(y))'[p] = fat'[1][SectorOf(y) * PerSector + p]
        BY DEF Sector
      <4> QED
        BY <3>1, <4>1, <4>2
    <3> QED
      BY <1>2, <3>2
  <2>4. BlankInv'
    BY <1>1, <1>2, <2>1, <2>2, <2>3 DEF BlankInv, Usable
  <2> QED
    BY <1>1, <1>2, <2>1, <2>4 DEF AllocInv, Allocating
<1> QED
  BY <1>5, <1>6, <1>7 DEF Link, Refused, Continue

LEMMA WriteBlankSound ==
    ASSUME TypeInv, Sound, AllocInv, WriteBlank
    PROVE  Sound' /\ AllocInv'
<1>1. job.at = "blank" /\ fat' = fat
  BY DEF WriteBlank
<1>2. /\ BlankInv /\ job.new \in Cluster /\ job.need <= 3
      /\ \A m \in 1..Copies : fat[m][job.new] = EOF
      /\ job \in Allocations /\ (job.for = "directory" => job.need = 1)
  BY <1>1 DEF AllocInv, TypeInv, JobFits, ForDirectory, Steps, Allocating
<1> DEFINE head == IF job.head = 0 THEN job.new ELSE job.head
<1>3. \/ job' = Failed
      \/ job' = [job EXCEPT !.at = IF job.for = "file" THEN "info" ELSE "grow", !.head = head]
      \/ /\ job.need > 1
         /\ job' = [job EXCEPT !.at = "scan", !.head = head, !.last = job.new,
                               !.from = job.new + 1, !.need = @ - 1]
  BY DEF WriteBlank, Refused, Continue
<1> HIDE DEF head
<1>4. CASE job' = Failed
  <2>1. job'.at \notin Allocating
    BY <1>1, <1>4, FailedFits DEF TypeInv, Writing, Allocating
  <2> QED
    BY <1>1, <2>1, QuietSound
<1>5. CASE job' = [job EXCEPT !.at = IF job.for = "file" THEN "info" ELSE "grow", !.head = head]
  <2>1. job'.at \notin Allocating
    BY <1>2, <1>5 DEF Allocations, Allocating
  <2> QED
    BY <1>1, <2>1, QuietSound
<1>6. CASE /\ job.need > 1
           /\ job' = [job EXCEPT !.at = "scan", !.head = head, !.last = job.new,
                               !.from = job.new + 1, !.need = @ - 1]
  <2>1. /\ job'.at = "scan" /\ job'.last = job.new /\ job'.from = job.new + 1
        /\ job'.need = job.need - 1 /\ job'.for = job.for /\ job'.sector = job.sector
    BY <1>2, <1>6 DEF Allocations
  <2>2. job.need \in Nat /\ job.for = "file" /\ job.new \in Nat /\ job.need > 1 /\ Entry \subseteq Nat
    BY <1>2, <1>6, Sizes DEF Allocations, Cluster
  <2>3. job.need \in {2, 3}
    BY <1>2, <2>2
  <2>4. /\ job'.need <= 2 /\ job'.from # 0 /\ (job'.need > 1 <=> job.need = 3)
        /\ job'.from - 1 = job.new
    BY <2>1, <2>2, <2>3
  <2>5. Scanned' = SectorOf(job.new)
    BY <2>4 DEF Scanned, SectorOf
  <2>6. Ended'
    BY <1>1, <1>2, <2>1, Sizes DEF Ended
  <2>7. job.need = 3 => job'.sector = Sector(SectorOf(job.new)) /\ Full(job'.from)
    <3> SUFFICES ASSUME job.need = 3
                 PROVE  job'.sector = Sector(SectorOf(job.new)) /\ Full(job'.from)
      OBVIOUS
    <3>1. job.sector = Sector(SectorOf(job.new)) /\ \A c \in Entry : c < job.new => fat[1][c] # 0
      BY <1>2 DEF BlankInv, Full
    <3>2. fat[1][job.new] # 0
      BY <1>2, Sizes
    <3>3. \A c \in Entry : c < job.new + 1 => c < job.new \/ c = job.new
      BY <2>2
    <3> QED
      BY <2>1, <3>1, <3>2, <3>3 DEF Full
  <2>8. job.need = 2 => \/ job'.sector = Sector(SectorOf(job.new))
                        \/ \A p \in 0..(PerSector - 1) : job'.sector[p] # 0
    BY <1>2, <2>1 DEF BlankInv, Usable
  <2>9. \A q : Sector(q)' = Sector(q)
    BY <1>1 DEF Sector
  <2>10. IF job'.need > 1 THEN job'.sector = Sector(Scanned)' /\ Full(job.from)' ELSE Usable(Scanned)'
    BY <1>1, <2>3, <2>4, <2>5, <2>7, <2>8, <2>9 DEF Full, Usable
  <2>11. ScanInv'
    BY <1>2, <2>1, <2>2, <2>4, <2>6, <2>10 DEF ScanInv
  <2>12. Sound' /\ job'.need <= 3
    BY <1>1, <2>1, <2>3, QuietSound
  <2> QED
    BY <2>1, <2>11, <2>12 DEF AllocInv, Allocating
<1> QED
  BY <1>3, <1>4, <1>5, <1>6

\* A call that asks for three clusters at most starts to look for them.
LEMMA AllocationSound ==
    ASSUME Sound, fat' = fat, NEW f, NEW for \in {"file", "directory"}, NEW last, NEW need, NEW bytes,
           need \in Nat \ {0}, need <= 3, for = "directory" => need = 1,
           for = "file" => last \in {0, EOF},
           for = "directory" => last \in Entry /\ (last = 0 \/ fat[1][last] = EOF),
           job' = Allocation(f, for, last, need, bytes)
    PROVE  Sound' /\ AllocInv'
<1>1. /\ job'.at = "scan" /\ job'.from = 0 /\ job'.last = last /\ job'.need = need
      /\ job'.for = for /\ job'.sector = Sector(0)
  BY DEF Allocation
<1>2. \A q : Sector(q)' = Sector(q)
  BY DEF Sector
<1>3. Full(0)'
  <2>1. \A c \in Entry : ~(c < 0)
    BY Sizes
  <2> QED
    BY <2>1 DEF Full
<1>4. Scanned' = 0
  BY <1>1 DEF Scanned
<1>5. Ended'
  BY <1>1, Sizes DEF Ended
<1>6. IF job'.need > 1 THEN job'.sector = Sector(Scanned)' /\ Full(job.from)' ELSE Usable(Scanned)'
  BY <1>1, <1>2, <1>3, <1>4 DEF Usable, Full
<1>7. ScanInv'
  BY <1>1, <1>5, <1>6 DEF ScanInv
<1>8. Sound'
  BY QuietSound
<1> QED
  BY <1>1, <1>7, <1>8 DEF AllocInv, Allocating

LEMMA WriteSound ==
    ASSUME TypeInv, Sound, NEW f \in File, NEW n \in Lengths, Write(f, n), longest' <= 3
    PROVE  Sound' /\ AllocInv'
<1> DEFINE open == fcb[f]
           need == InBlocks(open.offset + n) - InBlocks(open.size)
           data == [at |-> "data", file |-> f, for |-> "file", bytes |-> n]
<1>1. n \in Nat /\ need \in Int /\ fat' = fat
  BY WriteStarts
<1>2. \/ job' = data
      \/ job' = Hung
      \/ /\ need > 0 /\ open.current \in {0, EOF}
         /\ job' = Allocation(f, "file", open.current, need, n)
         /\ longest' = Max({longest, need})
  BY DEF Write, Call
<1> HIDE DEF need
<1>3. CASE job' \in {data, Hung}
  <2>1. job'.at \notin Allocating
    BY <1>3 DEF Hung, Allocating
  <2> QED
    BY <1>1, <2>1, QuietSound
<1>4. CASE /\ need > 0 /\ open.current \in {0, EOF}
           /\ job' = Allocation(f, "file", open.current, need, n)
           /\ longest' = Max({longest, need})
  <2>1. need \in Nat \ {0} /\ longest \in Nat
    BY <1>1, <1>4 DEF TypeInv, Numbers
  <2>2. need <= 3
    BY <1>4, <2>1, MaxOfTwo
  <2> QED
    BY <1>1, <1>4, <2>1, <2>2, AllocationSound
<1> QED
  BY <1>2, <1>3, <1>4

LEMMA AddSound ==
    ASSUME TypeInv, Sound, AddToDirectory
    PROVE  Sound' /\ AllocInv'
<1> DEFINE c == job.dir
<1>1. job.at = "slots" /\ fat' = fat
  BY DEF AddToDirectory
<1>2. \/ job'.at \in {"open", "slots", "wild"}
      \/ job' = Failed
      \/ NextAfter(c) = EOF /\ job' = Allocation(job.file, "directory", c, 1, 0)
  BY AddEnds
<1>3. CASE job'.at \in {"open", "slots", "wild"}
  <2>1. job'.at \notin Allocating
    BY <1>3 DEF Allocating
  <2> QED
    BY <1>1, <2>1, QuietSound
<1>4. CASE job' = Failed
  <2>1. job'.at \notin Allocating
    BY <1>1, <1>4, FailedFits DEF TypeInv, Writing, Allocating
  <2> QED
    BY <1>1, <2>1, QuietSound
<1>5. CASE NextAfter(c) = EOF /\ job' = Allocation(job.file, "directory", c, 1, 0)
  <2>1. c \in Entry /\ (c = 0 \/ fat[1][c] = EOF)
    BY <1>1, <1>5 DEF TypeInv, JobFits, NextAfter
  <2> HIDE DEF c
  <2>2. 1 \in Nat \ {0} /\ 1 <= 3
    OBVIOUS
  <2> QED
    BY <1>1, <1>5, <2>1, <2>2, AllocationSound
<1> QED
  BY <1>2, <1>3, <1>4, <1>5

\* Bytes in the last copy are nobody's successor.
LEMMA DataSound ==
    ASSUME TypeInv, Sound, Data
    PROVE  Sound' /\ AllocInv'
<1>1. /\ fat' = fat \/ \E c \in {0, 1} : fat' = [fat EXCEPT ![Copies] = Overwritten(c)]
      /\ job' \in {Idle, Wild}
  BY DataWrites
<1>2. AllocInv'
  BY <1>1 DEF AllocInv, Allocating, Idle, Wild
<1>3. /\ 1 \in 1..Copies /\ Copies \in 1..Copies /\ 0 \in Entry /\ 1 \in Entry
      /\ Cluster \subseteq Entry /\ 1 \notin Cluster /\ 1 # 0
  BY Sizes DEF Cluster
<1>4. \A k \in 1..Copies : \A c \in Entry : fat'[k][c] = fat[k][c] \/ (k = Copies /\ fat'[k][c] = 1)
  BY <1>1, <1>3 DEF Overwritten, Text, TypeInv, TableType
<1>5. fat'[1][0] # 0 /\ fat'[1][1] # 0
  BY <1>3, <1>4 DEF Sound
<1>6. \A c \in Entry : fat'[1][c] \in Cluster => \A k \in 1..Copies : fat'[k][fat'[1][c]] # 0
  <2> SUFFICES ASSUME NEW c \in Entry, fat'[1][c] \in Cluster, NEW k \in 1..Copies
               PROVE  fat'[k][fat'[1][c]] # 0
    OBVIOUS
  <2> DEFINE t == fat[1][c]
  <2>1. fat'[1][c] = t /\ t \in Entry /\ fat[k][t] # 0
    BY <1>3, <1>4 DEF Sound
  <2> HIDE DEF t
  <2> QED
    BY <1>3, <1>4, <2>1
<1>7. \A c, d \in Entry : fat'[1][c] \in Cluster /\ fat'[1][c] = fat'[1][d] => c = d
  BY <1>3, <1>4 DEF Sound
<1>8. \A k \in 1..Copies : \A c \in Entry : fat'[k][c] \in Cluster => fat'[1][c] = fat'[k][c]
  BY <1>3, <1>4 DEF Sound
<1> QED
  BY <1>2, <1>5, <1>6, <1>7, <1>8 DEF Sound

\* The other actions write nothing to the table.
LEMMA OtherSound ==
    ASSUME TypeInv, Sound,
           \/ \E f \in File : Create(f) \/ Open(f) \/ Close(f) \/ Unlink(f)
           \/ WriteInfo \/ Attributes \/ Delete \/ Grow \/ NotWritten \/ PowerFails
    PROVE  Sound' /\ AllocInv'
<1>1. fat' = fat
  BY DEF Create, Open, Close, Unlink, WriteInfo, Attributes, Delete, Grow, NotWritten, PowerFails, disk
<1>2. job'.at \notin Allocating
  <2>1. CASE \E f \in File : Create(f) \/ Open(f) \/ Close(f) \/ Unlink(f)
    BY <2>1 DEF Create, Open, Close, Unlink, Call, Continue, Idle, AddName, Allocating
  <2>2. CASE WriteInfo \/ Attributes
    <3>1. job.at \in {"info", "attributes"} /\ job \in Allocations
      BY <2>2 DEF WriteInfo, Attributes, TypeInv, JobFits, Steps
    <3>2. \/ job' = Failed \/ job' = [job EXCEPT !.at = "attributes"] \/ job' = [job EXCEPT !.at = "data"]
      BY <2>2 DEF WriteInfo, Attributes, Refused, Continue
    <3>3. job' = Failed => job'.at \notin Allocating
      BY <3>1, FailedFits DEF TypeInv, Writing, Allocating
    <3> QED
      BY <3>1, <3>2, <3>3 DEF Allocations, Allocating
  <2>3. CASE Delete \/ Grow \/ NotWritten
    <3>1. job.at \in Writing
      BY <2>3 DEF Delete, Grow, NotWritten, Writing
    <3>2. Failed.at \notin Allocating
      BY <3>1, FailedFits DEF TypeInv, Allocating
    <3> QED
      BY <2>3, <3>2 DEF Delete, Deleted, Grow, NotWritten, Refused, Continue, AddName, Idle, Allocating
  <2>4. CASE PowerFails
    BY <2>4 DEF PowerFails, Idle, Allocating
  <2> QED
    BY <2>1, <2>2, <2>3, <2>4
<1> QED
  BY <1>1, <1>2, QuietSound

LEMMA SoundStep ==
    ASSUME TypeInv, MisledInv, SoundInv, [Next]_vars
    PROVE  SoundInv'
<1> SUFFICES ASSUME longest' <= 3, ~misled' PROVE Sound' /\ AllocInv'
  BY DEF SoundInv
<1>1. longest <= 3 /\ ~misled /\ ~Unchain /\ ~Zero /\ ~WriteCount
  BY NotReleasing
<1>2. Sound /\ AllocInv
  BY <1>1 DEF SoundInv
<1>3. CASE \E f \in File : Create(f) \/ Open(f) \/ Close(f) \/ Unlink(f)
  BY <1>2, <1>3, OtherSound
<1>4. CASE \E f \in File : \E n \in Lengths : Write(f, n)
  BY <1>2, <1>4, WriteSound
<1>5. CASE WriteInfo \/ Attributes \/ Delete \/ Grow \/ NotWritten \/ PowerFails
  BY <1>2, <1>5, OtherSound
<1>6. CASE UNCHANGED vars
  <2>1. fat' = fat /\ job' = job
    BY <1>6 DEF vars, disk
  <2>2. \A q : Sector(q)' = Sector(q)
    BY <2>1 DEF Sector
  <2>3. AllocInv'
    BY <1>2, <2>1, <2>2 DEF AllocInv, ScanInv, MarkInv, RereadInv, LinkInv, BlankInv, Onward, Ended,
        Full, Usable, NoOneAt, Scanned, NewSector, SectorOf
  <2> QED
    BY <1>2, <2>1, <2>3, QuietSound
<1> QED
  BY <1>1, <1>2, <1>3, <1>4, <1>5, <1>6, ScanSound, MarkSound, RereadSound, LinkSound, WriteBlankSound,
     DataSound, AddSound
  DEF Next

LEMMA SoundAtFirst ==
    ASSUME Init
    PROVE  SoundInv
<1>1. PICK there \in BOOLEAN :
        LET used == {0, 1, Root} \cup (IF there THEN {OldAt} ELSE {})
            table == [c \in Entry |-> IF c \in used THEN EOF ELSE 0]
        IN  fat = [k \in 1..Copies |-> table] /\ job = Idle
  BY DEF Init
<1>2. /\ 1 \in 1..Copies /\ 0 \in Entry /\ 1 \in Entry /\ EOF # 0 /\ EOF \notin Cluster /\ 0 \notin Cluster
  BY Sizes DEF Cluster
<1>3. \A k \in 1..Copies : \A c \in Entry : fat[k][c] \notin Cluster
  BY <1>1, <1>2
<1>4. fat[1][0] # 0 /\ fat[1][1] # 0
  BY <1>1, <1>2
<1>5. Sound
  BY <1>2, <1>3, <1>4 DEF Sound
<1>6. AllocInv
  BY <1>1 DEF AllocInv, Idle, Allocating
<1> QED
  BY <1>5, <1>6 DEF SoundInv

\* In every copy of the table, whatever was refused or cut off -- but for the
\* writes of DELETE_FILE -- no cluster follows two, and none in use is followed by
\* one that is free: mark_all_fats() and the links of allocate_free_cluster(), as
\* long as no call asks for four clusters at once.
THEOREM ChainsStaySound == Spec => []ChainsSound
<1>1. Init => TypeInv /\ MisledInv /\ SoundInv
  BY TypesAtFirst, MisledAtFirst, SoundAtFirst
<1>2. TypeInv /\ MisledInv /\ SoundInv /\ [Next]_vars => (TypeInv /\ MisledInv /\ SoundInv)'
  BY TypesStep, MisledStep, SoundStep
<1>3. TypeInv /\ MisledInv /\ SoundInv => ChainsSound
  <2> SUFFICES ASSUME SoundInv, longest <= 3, ~misled, NEW k \in 1..Copies
               PROVE  LET links == {c \in Cluster : fat[k][c] \in Cluster} IN
                      /\ \A c \in links : fat[k][fat[k][c]] # 0
                      /\ IsInjective([c \in links |-> fat[k][c]])
    BY DEF ChainsSound
  <2>1. Sound /\ Cluster \subseteq Entry
    BY DEF SoundInv, Cluster
  <2> DEFINE links == {c \in Cluster : fat[k][c] \in Cluster}
  <2>2. \A c \in links : fat[1][c] = fat[k][c] /\ c \in Entry /\ fat[1][c] \in Cluster
    BY <2>1 DEF Sound
  <2>3. \A c \in links : fat[k][fat[k][c]] # 0
    BY <2>1, <2>2 DEF Sound
  <2>4. \A c, d \in links : fat[k][c] = fat[k][d] => c = d
    BY <2>1, <2>2 DEF Sound
  <2>5. IsInjective([c \in links |-> fat[k][c]])
    <3> HIDE DEF links
    <3> QED
      BY <2>4 DEF IsInjective
  <2> QED
    BY <2>3, <2>5
<1> QED
  BY <1>1, <1>2, <1>3, PTL DEF Spec

-----------------------------------------------------------------------------
(* The copies and the count, while nothing is refused.  In the midst of an  *)
(* allocation they differ in one entry, and the count is one ahead once the *)
(* first copy has the new cluster.                                          *)

Free == {c \in Entry : fat[1][c] = 0}

\* The copies are the same but for entry x, and bytes of files.
Alike(x) == \A k \in 1..Copies : \A c \in Entry : c # x => fat[k][c] \in {fat[1][c], Text}

Odd   == IF job.at = "mark" THEN job.new ELSE IF job.at = "link" THEN job.last ELSE EOF
Ahead == IF job.at \in {"reread", "link"} \/ (job.at = "mark" /\ job.copy > 1) THEN 1 ELSE 0

Agreeing ==
    /\ Alike(Odd)
    /\ job.at = "link" => \A k \in 1..Copies : k < job.copy => fat[k][job.last] = job.new
    /\ ~wasted => count = Cardinality(Free) + Ahead

SettledInv == faults = 0 /\ longest <= 3 => Agreeing

LEMMA FreeIs ==
    /\ IsFiniteSet(Free) /\ Cardinality(Free) \in Nat
    /\ \A x \in Free : Cardinality(Free \ {x}) = Cardinality(Free) - 1
<1>1. IsFiniteSet(Entry)
  BY Sizes
<1>2. IsFiniteSet(Free)
  BY <1>1, FS_Subset DEF Free
<1> QED
  BY <1>2, FS_CardinalityType, FS_RemoveElement

\* Steps between allocations, and into one.
LEMMA QuietAgrees ==
    ASSUME Agreeing, fat' = fat, count' = count, wasted' = wasted,
           job.at \notin {"mark", "reread", "link"}, job'.at \notin {"reread", "link"},
           job'.at = "mark" => job'.copy = 1
    PROVE  Agreeing'
<1>1. Odd = EOF /\ Ahead = 0 /\ Ahead' = 0
  BY DEF Odd, Ahead
<1>2. EOF \notin Entry
  BY Sizes
<1>3. Free' = Free
  BY DEF Free
<1>4. \A k \in 1..Copies : \A c \in Entry : fat[k][c] \in {fat[1][c], Text}
  BY <1>1, <1>2 DEF Agreeing, Alike
<1>5. Alike(Odd)'
  BY <1>4 DEF Alike
<1> QED
  BY <1>1, <1>3, <1>5 DEF Agreeing

LEMMA RereadAgrees ==
    ASSUME TypeInv, Agreeing, Reread
    PROVE  Agreeing'
<1>1. /\ job.at = "reread" /\ fat' = fat /\ count' = count /\ wasted' = wasted
      /\ job' = [job EXCEPT !.at = "link", !.copy = 1, !.sector = Linked(job.last, job.new)]
  BY DEF Reread, Continue, disk, memory, history
<1>2. job \in Allocations
  BY <1>1 DEF TypeInv, JobFits, Steps, Allocating
<1> DEFINE sector == Linked(job.last, job.new)
<1> HIDE DEF sector
<1>3. job' = [job EXCEPT !.at = "link", !.copy = 1, !.sector = sector]
  BY <1>1 DEF sector
<1>4. job'.at = "link" /\ job'.copy = 1
  BY <1>2, <1>3 DEF Allocations
<1>5. Odd = EOF /\ Ahead = 1 /\ Ahead' = 1
  BY <1>1, <1>4 DEF Odd, Ahead
<1>6. \A k \in 1..Copies : \A c \in Entry : fat[k][c] \in {fat[1][c], Text}
  BY <1>5, Sizes DEF Agreeing, Alike
<1>7. Alike(Odd)'
  BY <1>1, <1>6 DEF Alike
<1>8. \A k \in 1..Copies : ~(k < job'.copy)
  BY <1>4
<1>9. Free' = Free
  BY <1>1 DEF Free
<1> QED
  BY <1>1, <1>5, <1>7, <1>8, <1>9 DEF Agreeing

LEMMA MarkAgrees ==
    ASSUME TypeInv, Sound, AllocInv, Agreeing, Mark, faults' = faults
    PROVE  Agreeing'
<1>1. /\ job.at = "mark" /\ MarkInv /\ job.new \in Cluster /\ job \in Allocations
  BY DEF Mark, AllocInv, TypeInv, JobFits, Steps, Allocating
<1>2. PICK k \in 1..Copies, x \in Cluster :
              /\ k = job.copy /\ x = job.new /\ PutAt(k, x, EOF)
              /\ Sound'
              /\ \A c \in Entry : fat'[1][c] = IF c = x THEN EOF ELSE fat[1][c]
              /\ \A m \in 1..Copies : m <= k => fat'[m][x] = EOF
              /\ k = 1 => fat[1][x] = 0
              /\ job.sector = Sector(SectorOf(x))' /\ job.sector = NewSector(x, EOF)'
  BY <1>1, MarkEffect
<1>3. /\ EOF # 0 /\ EOF \notin Entry /\ Copies \in Nat /\ x \in Entry /\ 1 \in 1..Copies
  BY Sizes DEF Cluster
<1>4. \A m \in 1..Copies : \A c \in Entry : c # x => fat'[m][c] \in {fat'[1][c], Text}
  BY <1>1, <1>2 DEF Agreeing, Alike, Odd, PutAt
<1>5. k # 1 => fat[1][x] = EOF
  BY <1>1, <1>2, <1>3 DEF MarkInv
<1>6. ~wasted => count = Cardinality(Free') + 1
  <2> SUFFICES ASSUME ~wasted PROVE count = Cardinality(Free') + 1
    OBVIOUS
  <2>1. count = Cardinality(Free) + Ahead /\ Cardinality(Free) \in Nat
    BY FreeIs DEF Agreeing
  <2>2. CASE k = 1
    <3>1. x \in Free /\ Free' = Free \ {x}
      BY <1>2, <1>3, <2>2 DEF Free
    <3>2. Cardinality(Free') = Cardinality(Free) - 1 /\ Ahead = 0
      BY <1>1, <1>2, <2>2, <3>1, FreeIs DEF Ahead
    <3> QED
      BY <2>1, <3>2
  <2>3. CASE k # 1
    <3>1. Free' = Free
      BY <1>2, <1>3, <1>5, <2>3 DEF Free
    <3>2. Ahead = 1
      BY <1>1, <1>2, <2>3 DEF Ahead
    <3> QED
      BY <2>1, <3>1, <3>2
  <2> QED
    BY <2>2, <2>3
<1>7. Cardinality(Free') \in Nat
  <2>1. IsFiniteSet(Free')
    <3>1. IsFiniteSet(Entry) /\ Free' \subseteq Entry
      BY Sizes DEF Free
    <3> QED
      BY <3>1, FS_Subset
  <2> QED
    BY <2>1, FS_CardinalityType
<1>8. LastCopy(job.copy) => \A m \in 1..Copies : \A c \in Entry : fat'[m][c] \in {fat'[1][c], Text}
  <2> SUFFICES ASSUME LastCopy(job.copy), NEW m \in 1..Copies, NEW c \in Entry
               PROVE  fat'[m][c] \in {fat'[1][c], Text}
    OBVIOUS
  <2>1. m <= k
    BY <1>2, <1>3 DEF LastCopy
  <2> QED
    BY <1>2, <1>3, <1>4, <2>1
<1>9. faults' # faults + 1
  BY DEF TypeInv, Numbers
<1>10. CASE ~LastCopy(job.copy) /\ job' = [job EXCEPT !.copy = @ + 1] /\ count' = count /\ wasted' = wasted
  <2>1. job'.at = "mark" /\ job'.new = x /\ job'.copy = k + 1 /\ k + 1 > 1
    BY <1>1, <1>2, <1>3, <1>10 DEF Allocations
  <2>2. Odd' = x /\ Ahead' = 1
    BY <2>1 DEF Odd, Ahead
  <2>3. Alike(Odd)'
    BY <1>4, <2>2 DEF Alike
  <2> QED
    BY <1>6, <1>10, <2>1, <2>2, <2>3 DEF Agreeing
<1>11. CASE LastCopy(job.copy) /\ job' = [job EXCEPT !.at = "blank"] /\ count' = count - 1 /\ wasted' = wasted
  <2>1. job'.at = "blank"
    BY <1>1, <1>11 DEF Allocations
  <2>2. Alike(Odd)' /\ Ahead' = 0
    BY <1>8, <1>11, <2>1 DEF Alike, Ahead
  <2>3. ~wasted' => count' = Cardinality(Free')
    BY <1>6, <1>7, <1>11
  <2> QED
    BY <1>7, <2>1, <2>2, <2>3 DEF Agreeing
<1>12. CASE LastCopy(job.copy) /\ wasted' = TRUE /\ job' = Failed
  <2>1. job'.at # "link"
    BY <1>1, <1>12, FailedFits DEF TypeInv, Writing
  <2>2. Alike(Odd)'
    BY <1>8, <1>12 DEF Alike
  <2> QED
    BY <1>12, <2>1, <2>2 DEF Agreeing
<1>13. CASE LastCopy(job.copy) /\ job' = [job EXCEPT !.at = "reread"] /\ count' = count /\ wasted' = wasted
  <2>1. job'.at = "reread"
    BY <1>1, <1>13 DEF Allocations
  <2>2. Alike(Odd)' /\ Ahead' = 1
    BY <1>8, <1>13, <2>1 DEF Alike, Ahead
  <2> QED
    BY <1>6, <1>13, <2>1, <2>2 DEF Agreeing
<1> QED
  BY <1>9, <1>10, <1>11, <1>12, <1>13 DEF Mark, Refused, Refuse, Continue, memory, history

LEMMA LinkAgrees ==
    ASSUME TypeInv, Sound, AllocInv, Agreeing, Link, faults' = faults
    PROVE  Agreeing'
<1>1. /\ job.at = "link" /\ LinkInv /\ job.new \in Cluster /\ job \in Allocations
      /\ \A m \in 1..Copies : fat[m][job.new] = EOF
  BY DEF Link, AllocInv, TypeInv, JobFits, Steps, Allocating
<1>2. PICK k \in 1..Copies, x \in Cluster, y \in Entry \ {0} :
              /\ k = job.copy /\ x = job.new /\ y = job.last /\ x # y /\ PutAt(k, y, x)
              /\ Sound'
              /\ \A c \in Entry : fat'[1][c] = IF c = y THEN x ELSE fat[1][c]
              /\ \A m \in 1..Copies : fat'[m][x] = EOF
              /\ k = 1 => fat[1][y] = EOF
              /\ job.sector = Sector(SectorOf(y))' /\ job.sector = NewSector(y, x)'
  BY <1>1, LinkEffect
<1>3. /\ EOF # 0 /\ Copies \in Nat /\ 1 \in 1..Copies /\ x # 0
  BY Sizes DEF Cluster
<1>4. \A m \in 1..Copies : \A c \in Entry : c # y => fat'[m][c] \in {fat'[1][c], Text}
  BY <1>1, <1>2 DEF Agreeing, Alike, Odd, PutAt
<1>5. \A m \in 1..Copies : m < k + 1 => fat'[m][y] = x
  <2>1. \A m \in 1..Copies : m < k => fat[m][y] = x
    BY <1>1, <1>2 DEF Agreeing
  <2>2. \A m \in 1..Copies : m < k + 1 => m = k \/ m < k
    OBVIOUS
  <2> QED
    BY <1>2, <2>1, <2>2 DEF PutAt
<1>6. fat[1][y] # 0
  <2>1. k # 1 => fat[1][y] = x
    BY <1>1, <1>2 DEF LinkInv
  <2> QED
    BY <1>2, <1>3, <2>1
<1>7. Free' = Free
  BY <1>2, <1>3, <1>6 DEF Free
<1>8. ~wasted => count = Cardinality(Free) + 1
  BY <1>1 DEF Agreeing, Ahead
<1>9. faults' # faults + 1
  BY DEF TypeInv, Numbers
<1>10. CASE ~LastCopy(job.copy) /\ job' = [job EXCEPT !.copy = @ + 1] /\ count' = count /\ wasted' = wasted
  <2>1. job'.at = "link" /\ job'.last = y /\ job'.new = x /\ job'.copy = k + 1
    BY <1>1, <1>2, <1>10 DEF Allocations
  <2>2. Odd' = y /\ Ahead' = 1
    BY <2>1 DEF Odd, Ahead
  <2>3. Alike(Odd)'
    BY <1>4, <2>2 DEF Alike
  <2> QED
    BY <1>5, <1>7, <1>8, <1>10, <2>1, <2>2, <2>3 DEF Agreeing
<1>11. CASE LastCopy(job.copy) /\ job' = [job EXCEPT !.at = "blank"] /\ count' = count - 1 /\ wasted' = wasted
  <2>1. job'.at = "blank"
    BY <1>1, <1>11 DEF Allocations
  <2>2. \A m \in 1..Copies : m < k + 1
    BY <1>2, <1>3, <1>11 DEF LastCopy
  <2>3. \A m \in 1..Copies : \A c \in Entry : fat'[m][c] \in {fat'[1][c], Text}
    BY <1>2, <1>3, <1>4, <1>5, <2>2
  <2>4. Alike(Odd)' /\ Ahead' = 0
    BY <2>1, <2>3 DEF Alike, Ahead
  <2>5. ~wasted' => count' = Cardinality(Free')
    BY <1>7, <1>8, <1>11, FreeIs
  <2>6. Cardinality(Free') \in Nat
    BY <1>7, FreeIs
  <2> QED
    BY <2>1, <2>4, <2>5, <2>6 DEF Agreeing
<1> QED
  BY <1>9, <1>10, <1>11 DEF Link, Refused, Refuse, Continue, memory, history

\* Bytes of a file go to the last copy, which is not the first.
LEMMA DataAgrees ==
    ASSUME TypeInv, Agreeing, Data, Copies >= 2
    PROVE  Agreeing'
<1>1. /\ fat' = fat \/ \E c \in {0, 1} : fat' = [fat EXCEPT ![Copies] = Overwritten(c)]
      /\ job' \in {Idle, Wild} /\ count' = count /\ wasted' = wasted /\ job.at = "data"
  BY DataWrites
<1>2. Copies \in Nat /\ Copies # 1 /\ 1 \in 1..Copies /\ EOF \notin Entry
  BY Sizes
<1>3. fat \in [1..Copies -> [Entry -> Links]]
  BY DEF TypeInv, TableType
<1>4. fat'[1] = fat[1]
  BY <1>3, <1>1, <1>2
<1>5. \A k \in 1..Copies : \A c \in Entry : fat'[k][c] \in {fat[k][c], Text}
  <2>1. CASE fat' = fat
    BY <2>1
  <2>2. ASSUME NEW d, fat' = [fat EXCEPT ![Copies] = Overwritten(d)]
        PROVE  \A k \in 1..Copies : \A c \in Entry : fat'[k][c] \in {fat[k][c], Text}
    <3>1. \A c \in Entry : Overwritten(d)[c] \in {fat[Copies][c], Text}
      BY DEF Overwritten
    <3>2. \A k \in 1..Copies : fat'[k] = IF k = Copies THEN Overwritten(d) ELSE fat[k]
      BY <1>3, <2>2
    <3> QED
      BY <3>1, <3>2
  <2> QED
    BY <1>1, <2>1, <2>2
<1>6. Odd = EOF /\ Ahead = 0 /\ Ahead' = 0 /\ job'.at # "link"
  BY <1>1 DEF Odd, Ahead, Idle, Wild
<1>7. \A k \in 1..Copies : \A c \in Entry : fat[k][c] \in {fat[1][c], Text}
  BY <1>2, <1>6 DEF Agreeing, Alike
<1>8. Alike(Odd)'
  BY <1>4, <1>5, <1>7 DEF Alike
<1>9. Free' = Free
  BY <1>4 DEF Free
<1> QED
  BY <1>1, <1>6, <1>8, <1>9 DEF Agreeing

LEMMA OtherAgrees ==
    ASSUME TypeInv, Agreeing, faults' = faults,
           \/ \E f \in File : \/ Create(f) \/ Open(f) \/ Close(f) \/ Unlink(f)
                              \/ \E n \in Lengths : Write(f, n)
           \/ Scan \/ WriteBlank \/ WriteInfo \/ Attributes \/ Delete \/ AddToDirectory \/ Grow
    PROVE  Agreeing'
<1>1. fat' = fat /\ count' = count /\ wasted' = wasted
  BY DEF Create, Open, Close, Unlink, Write, Call, Scan, WriteBlank, WriteInfo, Attributes, Delete,
         AddToDirectory, Grow, Refused, Refuse, Continue, disk, memory, history
<1>2. faults' # faults + 1
  BY DEF TypeInv, Numbers
<1>3. /\ job.at \notin {"mark", "reread", "link"} /\ job'.at \notin {"reread", "link"}
      /\ job'.at = "mark" => job'.copy = 1
  <2>1. CASE \E f \in File : \/ Create(f) \/ Open(f) \/ Close(f) \/ Unlink(f)
                             \/ \E n \in Lengths : Write(f, n)
    <3>1. job.at \in {"idle", "open"}
      BY <2>1 DEF Create, Open, Close, Unlink, Write, Ready
    <3>2. CASE \E f \in File : Create(f) \/ Open(f) \/ Close(f) \/ Unlink(f)
      BY <3>1, <3>2 DEF Create, Open, Close, Unlink, Call, Continue, Idle, AddName
    <3>3. CASE \E f \in File : \E n \in Lengths : Write(f, n)
      <4>1. job'.at \in {"data", "hung", "scan"}
        BY <3>3 DEF Write, Call, Hung, Allocation
      <4> QED
        BY <3>1, <4>1
    <3> QED
      BY <2>1, <3>2, <3>3
  <2>2. CASE Scan
    <3>1. job.at = "scan" /\ job \in Allocations
      BY <2>2 DEF Scan, TypeInv, JobFits, Steps, Allocating
    <3>2. job' = Failed => job'.at \notin {"reread", "link", "mark"}
      BY <3>1, FailedFits DEF TypeInv
    <3>3. \/ job' \in {Failed, Wild}
          \/ \E new, sector : job' = [job EXCEPT !.at = "mark", !.new = new, !.copy = 1, !.sector = sector]
      BY <2>2 DEF Scan, Continue
    <3>4. job' \notin {Failed, Wild} => job'.at = "mark" /\ job'.copy = 1
      BY <3>1, <3>3 DEF Allocations
    <3> QED
      BY <3>1, <3>2, <3>4 DEF Wild
  <2>3. CASE WriteBlank
    <3>1. job.at = "blank" /\ job \in Allocations
      BY <2>3 DEF WriteBlank, TypeInv, JobFits, Steps, Allocating
    <3>2. \E j \in {"info", "grow", "scan"} : \E head :
             \/ job' = [job EXCEPT !.at = j, !.head = head]
             \/ job' = [job EXCEPT !.at = "scan", !.head = head, !.last = job.new,
                                   !.from = job.new + 1, !.need = @ - 1]
      BY <1>2, <2>3 DEF WriteBlank, Refused, Refuse, Continue
    <3>3. job'.at \in {"info", "grow", "scan"}
      BY <3>1, <3>2 DEF Allocations
    <3> QED
      BY <3>1, <3>3
  <2>4. CASE WriteInfo \/ Attributes
    <3>1. job.at \in {"info", "attributes"} /\ job \in Allocations
      BY <2>4 DEF WriteInfo, Attributes, TypeInv, JobFits, Steps
    <3>2. job' = [job EXCEPT !.at = "attributes"] \/ job' = [job EXCEPT !.at = "data"]
      BY <1>2, <2>4 DEF WriteInfo, Attributes, Refused, Refuse, Continue
    <3> QED
      BY <3>1, <3>2 DEF Allocations
  <2>5. CASE Delete \/ Grow
    BY <1>2, <2>5 DEF Delete, Deleted, Grow, Refused, Refuse, Continue, AddName, Idle
  <2>6. CASE AddToDirectory
    <3>1. job.at = "slots"
      BY <2>6 DEF AddToDirectory
    <3>2. \/ job'.at \in {"open", "slots", "wild"}
          \/ job' = Failed
          \/ job'.at = "scan"
      BY <2>6, AddEnds DEF Allocation
    <3>3. job' = Failed => job'.at \in {"unchain", "data", "idle"}
      BY <3>1, FailedFits DEF TypeInv, Writing
    <3> QED
      BY <3>1, <3>2, <3>3
  <2> QED
    BY <2>1, <2>2, <2>3, <2>4, <2>5, <2>6
<1> QED
  BY <1>1, <1>3, QuietAgrees

LEMMA AgreesStep ==
    ASSUME Copies >= 2, TypeInv, MisledInv, SoundInv, SettledInv, [Next]_vars
    PROVE  SettledInv'
<1> SUFFICES ASSUME faults' = 0, longest' <= 3 PROVE Agreeing'
  BY DEF SettledInv
<1>1. longest <= 3 /\ ~misled /\ ~Unchain /\ ~Zero /\ ~WriteCount
  <2>1. ~misled'
    <3>1. MisledInv'
      BY MisledStep
    <3> QED
      BY <3>1 DEF MisledInv
  <2> QED
    BY <2>1, NotReleasing
<1>2. faults \in Nat
  BY DEF TypeInv, Numbers
<1>3. faults' = faults \/ faults' = faults + 1
  BY HistoryStep
<1>4. faults' = faults /\ faults = 0
  BY <1>2, <1>3
<1>5. Sound /\ AllocInv /\ Agreeing
  BY <1>1, <1>4 DEF SoundInv, SettledInv
<1>6. CASE \E f \in File : \/ Create(f) \/ Open(f) \/ Close(f) \/ Unlink(f)
                           \/ \E n \in Lengths : Write(f, n)
  BY <1>4, <1>5, <1>6, OtherAgrees
<1>7. CASE Scan \/ WriteBlank \/ WriteInfo \/ Attributes \/ Delete \/ AddToDirectory \/ Grow
  BY <1>4, <1>5, <1>7, OtherAgrees
<1>8. ~NotWritten /\ ~PowerFails
  BY <1>2, <1>4 DEF NotWritten, PowerFails, Refused, Refuse
<1>9. CASE UNCHANGED vars
  <2>1. fat' = fat /\ job' = job /\ count' = count /\ wasted' = wasted
    BY <1>9 DEF vars, disk, memory, history
  <2>2. Free' = Free
    BY <2>1 DEF Free
  <2> QED
    BY <1>5, <2>1, <2>2 DEF Agreeing, Alike, Odd, Ahead
<1> QED
  BY <1>1, <1>4, <1>5, <1>6, <1>7, <1>8, <1>9, MarkAgrees, RereadAgrees, LinkAgrees, DataAgrees
  DEF Next

LEMMA AgreesAtFirst ==
    ASSUME Init
    PROVE  SettledInv
<1>1. PICK there \in BOOLEAN :
        LET used == {0, 1, Root} \cup (IF there THEN {OldAt} ELSE {})
            table == [c \in Entry |-> IF c \in used THEN EOF ELSE 0]
        IN  /\ fat = [k \in 1..Copies |-> table] /\ job = Idle
            /\ info = Cardinality(Entry \ used) /\ count = info
  BY DEF Init
<1> DEFINE used == {0, 1, Root} \cup (IF there THEN {OldAt} ELSE {})
<1>2. \A k \in 1..Copies : \A c \in Entry : fat[k][c] = IF c \in used THEN EOF ELSE 0
  BY <1>1
<1> HIDE DEF used
<1>3. 1 \in 1..Copies /\ EOF # 0
  BY Sizes
<1>4. Free = Entry \ used
  BY <1>2, <1>3 DEF Free
<1>5. count = Cardinality(Free) /\ Cardinality(Free) \in Nat
  BY <1>1, <1>4, FreeIs DEF used
<1>6. Alike(Odd)
  BY <1>2, <1>3 DEF Alike
<1>7. job.at # "link" /\ Ahead = 0
  BY <1>1 DEF Idle, Ahead
<1> QED
  BY <1>5, <1>6, <1>7 DEF SettledInv, Agreeing

\* While nothing is refused, the copies of the table and the count of free
\* clusters are right between calls, on a volume with more than one copy: what
\* allocate_free_cluster() writes to each in turn, and counts at its end.
THEOREM VolumeSettles == ASSUME Copies >= 2 PROVE Spec => []Settled
<1> DEFINE Inv == TypeInv /\ MisledInv /\ SoundInv /\ SettledInv
<1>1. Init => Inv
  BY TypesAtFirst, MisledAtFirst, SoundAtFirst, AgreesAtFirst
<1>2. Inv /\ [Next]_vars => Inv'
  BY TypesStep, MisledStep, SoundStep, AgreesStep
<1>3. SettledInv => Settled
  <2> SUFFICES ASSUME Agreeing, job.at = "idle"
               PROVE  /\ \A k \in 1..Copies : \A c \in Entry : fat[k][c] \in {fat[1][c], Text}
                      /\ ~wasted => count = Cardinality({c \in Entry : fat[1][c] = 0})
    BY DEF Settled, SettledInv
  <2>1. Odd = EOF /\ Ahead = 0 /\ EOF \notin Entry
    BY Sizes DEF Odd, Ahead
  <2>2. \A k \in 1..Copies : \A c \in Entry : fat[k][c] \in {fat[1][c], Text}
    BY <2>1 DEF Agreeing, Alike
  <2>3. ~wasted => count = Cardinality(Free)
    BY <2>1, FreeIs DEF Agreeing
  <2> QED
    BY <2>2, <2>3 DEF Free
<1> QED
  BY <1>1, <1>2, <1>3, PTL DEF Spec

-----------------------------------------------------------------------------
(* What stays in the directory.  A search that found a file passes the same  *)
(* clusters after a step, unless it stops before for another entry of the    *)
(* file; for this no cluster that it can pass may get another successor, and *)
(* no step may put an end of the list in front of the file's entries.        *)

\* A set that holds 0, and n + 1 with n, holds every number.
LEMMA EveryNumber ==
    ASSUME NEW S, 0 \in S, \A n \in Nat : n \in S => n + 1 \in S
    PROVE  Nat \subseteq S
<1> DEFINE T == Nat \ S
<1> SUFFICES ASSUME T # {} PROVE FALSE
  OBVIOUS
<1>1. Min(T) \in T /\ \A y \in T : Min(T) <= y
  BY LeastOf
<1> DEFINE x == Min(T)
<1>2. x \in T /\ \A y \in T : x <= y
  BY <1>1
<1> HIDE DEF x
<1>3. x \in Nat /\ x # 0 /\ x - 1 \in Nat /\ x - 1 \notin T /\ (x - 1) + 1 = x
  BY <1>2
<1> QED
  BY <1>2, <1>3

\* Follow comes to what n steps come to.
Along(at, step, c, n) == at = [i \in 0..n |-> IF i = 0 THEN c ELSE step[at[i - 1]]]

LEMMA AlongExists ==
    ASSUME NEW step, NEW c, NEW m \in Nat
    PROVE  \E at : Along(at, step, c, m)
<1> DEFINE N == {n \in Nat : \E at : Along(at, step, c, n)}
<1>1. 0 \in N
  <2> DEFINE at == [i \in 0..0 |-> c]
  <2>1. at = [i \in 0..0 |-> IF i = 0 THEN c ELSE step[at[i - 1]]]
    OBVIOUS
  <2> HIDE DEF at
  <2> QED
    BY <2>1 DEF Along
<1>2. ASSUME NEW n \in Nat, n \in N PROVE n + 1 \in N
  <2>1. PICK at : Along(at, step, c, n)
    BY <1>2
  <2> DEFINE to == [i \in 0..(n + 1) |-> IF i <= n THEN at[i] ELSE step[at[n]]]
  <2>2. \A i \in 0..n : at[i] = IF i = 0 THEN c ELSE step[at[i - 1]]
    BY <2>1 DEF Along
  <2>3. ASSUME NEW i \in 0..(n + 1)
        PROVE  to[i] = IF i = 0 THEN c ELSE step[to[i - 1]]
    <3>1. CASE i <= n
      <4>1. to[i] = at[i] /\ (i # 0 => i - 1 \in 0..(n + 1) /\ i - 1 <= n /\ to[i - 1] = at[i - 1])
        BY <3>1
      <4> QED
        BY <3>1, <4>1, <2>2
    <3>2. CASE ~(i <= n)
      <4>1. i = n + 1 /\ i # 0 /\ i - 1 = n /\ n \in 0..(n + 1) /\ n <= n
        BY <3>2
      <4>2. to[i] = step[at[n]] /\ to[i - 1] = at[n]
        BY <3>2, <4>1
      <4> QED
        BY <4>1, <4>2
    <3> QED
      BY <3>1, <3>2
  <2>4. to = [i \in 0..(n + 1) |-> to[i]]
    OBVIOUS
  <2> HIDE DEF to
  <2>5. Along(to, step, c, n + 1)
    BY <2>3, <2>4 DEF Along
  <2> QED
    BY <2>5
<1>3. Nat \subseteq N
  <2> HIDE DEF N
  <2> QED
    BY <1>1, <1>2, EveryNumber
<1> QED
  BY <1>3

LEMMA FollowIs ==
    ASSUME NEW step, NEW c, NEW n \in Nat
    PROVE  \E at : /\ at[0] = c
                   /\ \A i \in 0..(n - 1) : at[i + 1] = step[at[i]]
                   /\ Follow(step, c, n) = at[n]
<1> DEFINE at == CHOOSE at : Along(at, step, c, n)
<1>1. Along(at, step, c, n)
  BY AlongExists
<1>2. Follow(step, c, n) = at[n]
  BY DEF Follow, Along
<1> HIDE DEF at
<1>3. \A i \in 0..n : at[i] = IF i = 0 THEN c ELSE step[at[i - 1]]
  BY <1>1 DEF Along
<1>4. at[0] = c
  BY <1>3
<1>5. ASSUME NEW i \in 0..(n - 1) PROVE at[i + 1] = step[at[i]]
  <2>1. i + 1 \in 0..n /\ i + 1 # 0 /\ (i + 1) - 1 = i
    OBVIOUS
  <2> QED
    BY <1>3, <2>1
<1> QED
  BY <1>2, <1>4, <1>5

\* The clusters a search goes on from, and those where it finds f.
Passed(c)   == c \in Entry /\ slots[c] # <<>> /\ End(c) > Slots
Holds(c, f) == c \in Entry /\ slots[c] # <<>> /\ Here(c, f) # {}

\* A step that leaves the search for f its way.
KeepsWay(f) ==
    \A c \in Entry : /\ Passed(c) => /\ Passed(c)'
                                     /\ NextAfter(c)' = NextAfter(c) \/ NextAfter(c) \notin Entry
                     /\ Holds(c, f) => Holds(c, f)'

Onwards(f) == [c \in Nat |-> IF Ends(c, f) THEN c ELSE NextAfter(c)]

\* What the search does at a cluster.
Searches(f, c) ==
    TableType /\ Directories(slots) =>
        /\ Onwards(f)[c] \in Nat
        /\ Ends(c, f) => Onwards(f)[c] = c
        /\ ~Ends(c, f) => Passed(c) /\ Onwards(f)[c] = NextAfter(c)
        /\ Holds(c, f) => Ends(c, f)
        /\ Passed(c) /\ ~Holds(c, f) => ~Ends(c, f)

LEMMA OnwardsIs == \A f : \A c \in Nat : Searches(f, c)
<1> SUFFICES ASSUME NEW f, NEW c \in Nat, TableType, Directories(slots)
             PROVE  /\ Onwards(f)[c] \in Nat
                    /\ Ends(c, f) => Onwards(f)[c] = c
                    /\ ~Ends(c, f) => Passed(c) /\ Onwards(f)[c] = NextAfter(c)
                    /\ Holds(c, f) => Ends(c, f)
                    /\ Passed(c) /\ ~Holds(c, f) => ~Ends(c, f)
  BY DEF Searches
<1>1. NextAfter(c) \in Nat
  <2>1. EOF \in Nat /\ 1 \in 1..Copies /\ Links \subseteq Nat
    BY Sizes DEF Links
  <2>2. c \in Entry => fat[1][c] \in Links
    BY <2>1 DEF TableType
  <2> QED
    BY <2>1, <2>2 DEF NextAfter
<1>2. ~Ends(c, f) => Passed(c)
  <2> SUFFICES ASSUME ~Ends(c, f) PROVE Passed(c)
    OBVIOUS
  <2>1. c \in Entry /\ slots[c] # <<>> /\ ~(End(c) <= Slots)
    BY DEF Ends
  <2>2. End(c) \in 1..(Slots + 1) /\ Slots \in Nat
    BY <2>1, EndIs, Sizes DEF Directories
  <2> QED
    BY <2>1, <2>2 DEF Passed
<1>3. Passed(c) /\ ~Holds(c, f) => ~Ends(c, f)
  <2> SUFFICES ASSUME Passed(c), ~Holds(c, f) PROVE ~Ends(c, f)
    OBVIOUS
  <2>1. c \in Entry /\ slots[c] # <<>> /\ End(c) > Slots /\ Here(c, f) = {}
    BY DEF Passed, Holds
  <2>2. End(c) \in 1..(Slots + 1) /\ Slots \in Nat
    BY <2>1, EndIs, Sizes DEF Directories
  <2> QED
    BY <2>1, <2>2 DEF Ends
<1> QED
  BY <1>1, <1>2, <1>3 DEF Onwards, Ends, Holds

LEMMA OnwardsAfter == (\A f : \A c \in Nat : Searches(f, c))'
  BY OnwardsIs, PTL

\* A file is there when it is in the cluster where the search for it ends.
Comes(f, c) == Search(f) = c => (Present(f) <=> Holds(c, f))

LEMMA PresentIs == \A f, c : Comes(f, c)
<1> SUFFICES ASSUME NEW f PROVE Present(f) <=> Holds(Search(f), f)
  BY DEF Comes
<1> DEFINE there == {c \in {Search(f)} : c \in Entry /\ slots[c] # <<>> /\ Here(c, f) # {}}
<1>1. Found(f) = {<<c, Min(Here(c, f))>> : c \in there}
  BY DEF Found
<1>2. there # {} <=> Holds(Search(f), f)
  BY DEF Holds
<1> HIDE DEF there
<1>3. Found(f) # {} <=> there # {}
  BY <1>1
<1> QED
  BY <1>2, <1>3 DEF Present

LEMMA PresentAfter == (\A f, c : Comes(f, c))'
  BY PresentIs, PTL

\* What a search finds, it still finds after a step that leaves it its way.
LEMMA StaysFound ==
    ASSUME TableType, Directories(slots), TableType', Directories(slots'),
           NEW f, KeepsWay(f), Present(f)
    PROVE  Present(f)'
<1> DEFINE N == Cardinality(Entry)  a == Onwards(f)  b == Onwards(f)'
<1>1. N \in Nat /\ Root \in Nat
  <2>1. IsFiniteSet(Entry)
    BY Sizes
  <2> QED
    BY <2>1, Sizes, FS_CardinalityType, FatAssumption DEF Cluster
<1>2. /\ Search(f) = Follow(a, Root, N) /\ Search(f)' = Follow(b, Root, N)
  BY DEF Search, Onwards
<1>3. \A c \in Nat : /\ a[c] \in Nat
                     /\ Ends(c, f) => a[c] = c
                     /\ ~Ends(c, f) => Passed(c) /\ a[c] = NextAfter(c)
                     /\ Holds(c, f) => Ends(c, f)
  BY OnwardsIs DEF Searches
<1>4. \A c \in Nat : /\ b[c] \in Nat
                     /\ Ends(c, f)' => b[c] = c
                     /\ ~Ends(c, f)' => b[c] = NextAfter(c)'
                     /\ Holds(c, f)' => Ends(c, f)'
                     /\ Passed(c)' /\ ~Holds(c, f)' => ~Ends(c, f)'
  BY OnwardsAfter DEF Searches
<1> HIDE DEF N, a, b
<1>5. PICK x : /\ x[0] = Root
               /\ \A i \in 0..(N - 1) : x[i + 1] = a[x[i]]
               /\ Search(f) = x[N]
  BY <1>1, <1>2, FollowIs
<1>6. PICK y : /\ y[0] = Root
               /\ \A i \in 0..(N - 1) : y[i + 1] = b[y[i]]
               /\ Search(f)' = y[N]
  BY <1>1, <1>2, FollowIs
<1> DEFINE Dead(c) == Ends(c, f) /\ ~Holds(c, f)
           Goes(i) == /\ x[i] \in Nat /\ y[i] \in Nat
                      /\ x[i] = y[i] \/ Holds(y[i], f)' \/ Dead(x[i])
           S == {i \in Nat : i <= N => Goes(i)}
<1>7. 0 \in S
  BY <1>1, <1>5, <1>6
<1>8. ASSUME NEW i \in Nat, i \in S, i + 1 <= N PROVE Goes(i + 1)
  <2>1. i <= N /\ i \in 0..(N - 1)
    BY <1>1, <1>8
  <2>2. Goes(i) /\ x[i + 1] = a[x[i]] /\ y[i + 1] = b[y[i]]
    BY <1>5, <1>6, <1>8, <2>1
  <2>3. x[i + 1] \in Nat /\ y[i + 1] \in Nat
    BY <1>3, <1>4, <2>2
  <2>4. CASE Holds(y[i], f)'
    BY <1>4, <2>2, <2>3, <2>4
  <2>5. CASE Dead(x[i])
    BY <1>3, <2>2, <2>3, <2>5
  <2>6. CASE x[i] = y[i] /\ ~Dead(x[i]) /\ ~Holds(y[i], f)'
    <3> DEFINE c == x[i]
    <3>1. c \in Nat /\ ~Holds(c, f)'
      BY <2>2, <2>6
    <3>2. ~Holds(c, f)
      BY <3>1 DEF KeepsWay, Holds
    <3>3. ~Ends(c, f)
      BY <2>6, <3>2
    <3>4. Passed(c) /\ a[c] = NextAfter(c)
      BY <1>3, <3>1, <3>3
    <3>5. Passed(c)' /\ (NextAfter(c)' = NextAfter(c) \/ NextAfter(c) \notin Entry)
      BY <3>4 DEF KeepsWay, Passed
    <3>6. b[c] = NextAfter(c)'
      BY <1>4, <3>1, <3>5
    <3>7. NextAfter(c) \notin Entry => Dead(a[c])
      BY <3>4 DEF Ends, Holds
    <3> HIDE DEF c, Dead
    <3> QED
      BY <2>2, <2>3, <2>6, <3>4, <3>5, <3>6, <3>7 DEF c
  <2> QED
    BY <2>2, <2>4, <2>5, <2>6
<1>9. Nat \subseteq S
  <2>1. \A i \in Nat : i \in S => i + 1 \in S
    BY <1>1, <1>8
  <2> HIDE DEF S
  <2> QED
    BY <1>7, <2>1, EveryNumber
<1>10. Goes(N)
  BY <1>1, <1>9
<1>11. Holds(x[N], f)
  BY <1>5, PresentIs DEF Comes
<1>12. Holds(x[N], f)' /\ ~Dead(x[N])
  BY <1>11 DEF KeepsWay, Holds
<1>13. Holds(y[N], f)'
  BY <1>10, <1>12
<1> QED
  BY <1>6, <1>13, PresentAfter DEF Comes
\* A directory that keeps the entries of f, and gets no end in front of them.
Keeps(d, e, f) ==
    \A i \in 1..Slots : i < EndOf(d) =>
        e[i].kind # "end" /\ (MatchesIn(d, i, f) => MatchesIn(e, i, f))

HasEntry(d, f) == \E i \in 1..(EndOf(d) - 1) : MatchesIn(d, i, f)

LEMMA KeepsIs ==
    ASSUME NEW d, NEW e, IsDirectory(d), IsDirectory(e), NEW f, Keeps(d, e, f)
    PROVE  /\ EndOf(d) > Slots => EndOf(e) > Slots
           /\ HasEntry(d, f) => HasEntry(e, f)
<1>1. EndOf(d) \in 1..(Slots + 1) /\ EndOf(e) \in 1..(Slots + 1) /\ Slots \in Nat
  BY EndOfIs, Sizes
<1>2. \A i \in 1..Slots : i < EndOf(d) => e[i].kind # "end"
  BY DEF Keeps
<1>3. EndOf(d) <= EndOf(e)
  BY <1>1, <1>2, EndOfIs
<1>4. ASSUME NEW i \in 1..(EndOf(d) - 1), MatchesIn(d, i, f)
      PROVE  i \in 1..(EndOf(e) - 1) /\ MatchesIn(e, i, f)
  <2>1. i \in 1..Slots /\ i < EndOf(d) /\ i \in 1..(EndOf(e) - 1)
    BY <1>1, <1>3
  <2> QED
    BY <1>4, <2>1 DEF Keeps
<1>5. HasEntry(d, f) => HasEntry(e, f)
  BY <1>4 DEF HasEntry
<1> QED
  BY <1>1, <1>3, <1>5

\* An entry of a file is none of the free ones.
LEMMA KeepsRest ==
    ASSUME NEW d, NEW e, IsDirectory(d), NEW f,
           \A i \in 1..Slots : i < EndOf(d) =>
               \/ e[i].kind = d[i].kind /\ e[i].file = d[i].file
               \/ IsFree(d[i]) /\ e[i].kind # "end"
    PROVE  Keeps(d, e, f)
<1>1. EndOf(d) \in 1..(Slots + 1) /\ Slots \in Nat /\ Parts \in Nat \ {0}
  BY EndOfIs, Sizes
<1>2. \A i \in 1..Slots : i < EndOf(d) => d[i].kind # "end"
  BY EndOfIs
<1>3. ASSUME NEW i \in 1..Slots, i < EndOf(d) PROVE e[i].kind # "end"
  BY <1>2, <1>3
<1>4. ASSUME NEW i \in 1..Slots, i < EndOf(d), MatchesIn(d, i, f) PROVE MatchesIn(e, i, f)
  <2>1. \A j \in 1..Slots : j < EndOf(d) /\ d[j].kind \in {"short", "alias", "long"} =>
            e[j].kind = d[j].kind /\ e[j].file = d[j].file
    BY DEF IsFree
  <2>2. e[i].kind = d[i].kind /\ e[i].file = d[i].file
    BY <1>4, <2>1 DEF MatchesIn
  <2>3. CASE d[i].kind = "short"
    BY <1>4, <2>2, <2>3 DEF MatchesIn
  <2>4. CASE d[i].kind # "short"
    <3>1. /\ d[i].kind = "alias" /\ i >= Parts
          /\ \A j \in (i - Parts + 1)..(i - 1) : d[j].kind = "long" /\ d[j].file = f
      BY <1>4, <2>4 DEF MatchesIn
    <3>2. \A j \in (i - Parts + 1)..(i - 1) : j \in 1..Slots /\ j < EndOf(d)
      BY <1>1, <1>4, <3>1
    <3>3. \A j \in (i - Parts + 1)..(i - 1) : e[j].kind = "long" /\ e[j].file = f
      BY <2>1, <3>1, <3>2
    <3> QED
      BY <1>4, <2>2, <3>1, <3>3 DEF MatchesIn
  <2> QED
    BY <2>3, <2>4
<1> QED
  BY <1>3, <1>4 DEF Keeps

\* What a step has to leave alone.
LEMMA WayStays ==
    ASSUME Directories(slots), Directories(slots'), NEW f,
           \A c \in Entry : slots[c] # <<>> => fat'[1][c] = fat[1][c] \/ fat[1][c] \notin Entry,
           \A c \in Entry : slots[c] # <<>> =>
               slots'[c] = slots[c] \/ (slots'[c] # <<>> /\ Keeps(slots[c], slots'[c], f))
    PROVE  KeepsWay(f)
<1> SUFFICES ASSUME NEW c \in Entry, slots[c] # <<>>
             PROVE  /\ Passed(c) => /\ Passed(c)'
                                    /\ NextAfter(c)' = NextAfter(c) \/ NextAfter(c) \notin Entry
                    /\ Holds(c, f) => Holds(c, f)'
  BY DEF KeepsWay, Passed, Holds
<1>1. NextAfter(c)' = NextAfter(c) \/ NextAfter(c) \notin Entry
  BY DEF NextAfter
<1>2. End(c) = EndOf(slots[c]) /\ End(c)' = EndOf(slots'[c])
  BY DEF End, EndOf
<1>3. Here(c, f) # {} <=> HasEntry(slots[c], f)
  BY <1>2 DEF Here, HasEntry, Matches, MatchesIn
<1>4. Here(c, f)' # {} <=> HasEntry(slots'[c], f)
  BY <1>2 DEF Here, HasEntry, Matches, MatchesIn
<1>5. CASE slots'[c] = slots[c]
  BY <1>1, <1>2, <1>3, <1>4, <1>5 DEF Passed, Holds
<1>6. CASE slots'[c] # <<>> /\ Keeps(slots[c], slots'[c], f)
  <2>1. IsDirectory(slots[c]) /\ IsDirectory(slots'[c])
    BY <1>6 DEF Directories
  <2>2. /\ EndOf(slots[c]) > Slots => EndOf(slots'[c]) > Slots
        /\ HasEntry(slots[c], f) => HasEntry(slots'[c], f)
    BY <1>6, <2>1, KeepsIs
  <2> QED
    BY <1>1, <1>2, <1>3, <1>4, <1>6, <2>2 DEF Passed, Holds
<1> QED
  BY <1>5, <1>6
\* DELETE_FILE deletes the entries of the long name and the short one, and what
\* stands in front of them without a short one of its own.
LEMMA DeletesOne ==
    ASSUME NEW d, IsDirectory(d), NEW i \in 1..Slots, d[i].kind = "alias",
           i >= Parts, \A j \in (i - Parts + 1)..(i - 1) : d[j].kind = "long",
           NEW from,
           from = Max({1} \cup {j \in 1..(i - 1) : /\ d[j].kind = "long"
                                                   /\ j = 1 \/ d[j - 1].kind # "long"})
    PROVE  /\ from \in 1..(i - 1) /\ \A j \in from..(i - 1) : d[j].kind = "long"
           /\ Min({j \in (from + 1)..Slots : ~IsLong(d[j])}) = i
<1> DEFINE R == {j \in 1..(i - 1) : \A k \in j..(i - 1) : d[k].kind = "long"}
           J == {1} \cup {j \in 1..(i - 1) : d[j].kind = "long" /\ (j = 1 \/ d[j - 1].kind # "long")}
           T == {j \in (from + 1)..Slots : ~IsLong(d[j])}
<1>1. Parts \in Nat /\ Parts >= 2 /\ Slots \in Nat /\ i - 1 \in (i - Parts + 1)..(i - 1) /\ i - 1 \in 1..(i - 1)
  BY Sizes, FatAssumption
<1>2. i - 1 \in R
  <2>1. \A k \in (i - 1)..(i - 1) : k = i - 1
    BY <1>1
  <2> QED
    BY <1>1, <2>1
<1>3. Min(R) \in R /\ \A j \in R : Min(R) <= j
  <2>1. R \subseteq Nat /\ R # {}
    BY <1>2
  <2> HIDE DEF R
  <2> QED
    BY <2>1, LeastOf
<1> DEFINE r == Min(R)
<1>4. r \in 1..(i - 1) /\ (\A k \in r..(i - 1) : d[k].kind = "long") /\ \A j \in R : r <= j
  BY <1>3
<1> HIDE DEF r
<1>5. r = 1 \/ d[r - 1].kind # "long"
  <2> SUFFICES ASSUME r # 1, d[r - 1].kind = "long" PROVE FALSE
    OBVIOUS
  <2>1. r - 1 \in 1..(i - 1) /\ \A k \in (r - 1)..(i - 1) : k = r - 1 \/ k \in r..(i - 1)
    BY <1>4
  <2>2. r - 1 \in R
    BY <1>4, <2>1
  <2> QED
    BY <1>4, <2>2
<1>6. r \in J
  BY <1>4, <1>5
<1>7. ASSUME NEW j \in J PROVE r >= j
  <2>1. CASE j = 1
    BY <1>4, <2>1
  <2>2. CASE j # 1
    <3>1. j \in 1..(i - 1) /\ d[j - 1].kind # "long"
      BY <2>2
    <3>2. j - 1 \notin r..(i - 1)
      BY <1>4, <3>1
    <3> QED
      BY <1>4, <3>1, <3>2
  <2> QED
    BY <2>1, <2>2
<1>8. from = r
  <2>1. J \subseteq Int /\ from = Max(J)
    BY <1>1
  <2> HIDE DEF J
  <2>2. from \in J /\ \A j \in J : from >= j
    BY <1>6, <1>7, <2>1 DEF Max
  <2>3. from >= r /\ r >= from
    BY <1>6, <1>7, <2>2
  <2>4. from \in Int /\ r \in Int
    BY <1>6, <2>1, <2>2, Zenon
  <2> QED
    BY <2>3, <2>4
<1>9. from \in 1..(i - 1) /\ \A j \in from..(i - 1) : d[j].kind = "long"
  BY <1>4, <1>8, Zenon
<1>10. i \in T
  <2>1. i \in (from + 1)..Slots
    BY <1>1, <1>9
  <2> QED
    BY <2>1 DEF IsLong
<1>11. \A j \in T : i <= j
  <2> SUFFICES ASSUME NEW j \in T, j < i PROVE FALSE
    BY <1>9
  <2>1. j \in from..(i - 1) /\ ~IsLong(d[j])
    BY <1>9
  <2> QED
    BY <1>9, <2>1 DEF IsLong
<1>12. T \subseteq Nat
  BY <1>9
<1>13. Min(T) = i
  <2> HIDE DEF T
  <2>1. Min(T) \in T /\ Min(T) <= i
    BY <1>10, <1>12, LeastOf
  <2>2. i <= Min(T)
    BY <1>11, <2>1
  <2>3. Min(T) \in Nat /\ i \in Nat
    BY <1>10, <1>12, <2>1, Zenon
  <2> QED
    BY <2>1, <2>2, <2>3
<1> QED
  BY <1>9, <1>13

LEMMA DeleteKeeps ==
    ASSUME NEW d, IsDirectory(d), NEW f, NEW g, f # g, NEW i \in 1..Slots,
           MatchesIn(d, i, g), d[i].kind # "short",
           NEW from \in 1..(i - 1), \A j \in from..(i - 1) : d[j].kind = "long"
    PROVE  Keeps(d, [k \in 1..Slots |-> IF k \in from..i THEN Freed(d[k]) ELSE d[k]], f)
<1> DEFINE e == [k \in 1..Slots |-> IF k \in from..i THEN Freed(d[k]) ELSE d[k]]
<1>1. Slots \in Nat /\ Parts \in Nat \ {0} /\ EndOf(d) \in 1..(Slots + 1)
  BY Sizes, EndOfIs
<1>2. d[i].kind = "alias" /\ d[i].file = g
  BY DEF MatchesIn
<1>3. \A k \in 1..Slots : e[k] = IF k \in from..i THEN Freed(d[k]) ELSE d[k]
  OBVIOUS
<1> HIDE DEF e
<1>4. ASSUME NEW k \in 1..Slots, k < EndOf(d) PROVE e[k].kind # "end"
  <2>1. d[k].kind # "end" /\ Freed(d[k]).kind # "end"
    BY <1>4, EndOfIs DEF Freed, Slot
  <2> QED
    BY <1>3, <2>1
<1>5. ASSUME NEW k \in 1..Slots, MatchesIn(d, k, f) PROVE MatchesIn(e, k, f)
  <2>1. d[k].file = f /\ d[k].kind \in {"short", "alias"}
    BY <1>5 DEF MatchesIn
  <2>2. k \notin from..i
    <3>1. k # i
      BY <1>2, <2>1
    <3>2. k \notin from..(i - 1)
      BY <2>1
    <3> QED
      BY <3>1, <3>2
  <2>3. e[k] = d[k]
    BY <1>3, <2>2
  <2>4. CASE d[k].kind = "short"
    BY <2>1, <2>3, <2>4 DEF MatchesIn
  <2>5. CASE d[k].kind # "short"
    <3>1. k >= Parts /\ \A j \in (k - Parts + 1)..(k - 1) : d[j].kind = "long" /\ d[j].file = f
      BY <1>5, <2>5 DEF MatchesIn
    <3>2. i \notin (k - Parts + 1)..(k - 1)
      BY <1>2, <3>1
    <3>3. \A j \in (k - Parts + 1)..(k - 1) : j \in 1..Slots /\ j \notin from..i
      BY <1>1, <2>2, <3>1, <3>2
    <3>4. \A j \in (k - Parts + 1)..(k - 1) : e[j] = d[j]
      BY <1>3, <3>3
    <3> QED
      BY <2>1, <2>3, <2>5, <3>1, <3>4 DEF MatchesIn
  <2> QED
    BY <2>4, <2>5
<1>6. Keeps(d, e, f)
  BY <1>4, <1>5 DEF Keeps
<1> QED
  BY <1>6 DEF e
\* A cluster that has been a directory is in use; one that is allocated has not
\* been one, until it is blanked.
Untouched(j, s) ==
    /\ j.at \in {"mark", "reread", "link", "blank"} => s[j.new] = <<>>
    /\ j.at = "grow" => s[j.new] = Blank

Fresh ==
    /\ \A c \in Entry : slots[c] # <<>> => fat[1][c] # 0
    /\ Untouched(job, slots)

FreshInv == longest <= 3 /\ ~misled => Fresh

Settling == {"mark", "reread", "link", "blank", "grow"}

\* Where no cluster is made a directory, and none freed.
LEMMA FreshStays ==
    ASSUME Fresh, \A c \in Entry : fat[1][c] # 0 => fat'[1][c] # 0,
           \A c \in Entry : slots'[c] # <<>> => slots[c] # <<>> \/ fat'[1][c] # 0,
           job'.at \in Settling => Untouched(job', slots')
    PROVE  Fresh'
  BY DEF Fresh, Untouched, Settling

\* A directory is something else than other content.
LEMMA NotOther ==
    ASSUME NEW d, DOMAIN d = 1..Slots
    PROVE  d # <<>>
<1>1. 1 \in DOMAIN d
  BY Sizes
<1>2. DOMAIN <<>> = {}
  OBVIOUS
<1> SUFFICES ASSUME d = <<>> PROVE FALSE
  OBVIOUS
<1> QED
  BY <1>1, <1>2, Zenon

\* The end of an empty directory is in front of everything.
LEMMA BlankEnds == EndOf(Blank) = 1 /\ Blank # <<>>
<1>1. IsDirectory(Blank) /\ EndOf(Blank) \in 1..(Slots + 1) /\ Slots \in Nat \ {0}
  BY BlankIs, EndOfIs, Sizes
<1>2. Blank[1].kind = "end" /\ 1 \in 1..Slots /\ DOMAIN Blank = 1..Slots
  BY <1>1 DEF Blank, EndOfList, Slot
<1>3. ~(1 < EndOf(Blank))
  BY <1>1, <1>2, EndOfIs
<1>4. Blank # <<>>
  BY <1>2, NotOther
<1> QED
  BY <1>1, <1>2, <1>3, <1>4

\* No file is in other entries than the search found it in: the attributes are
\* those of the same file.
LEMMA AttributesWay ==
    ASSUME TypeInv, Attributes, NEW f
    PROVE  /\ fat' = fat /\ \A c \in Entry : slots'[c] # <<>> => slots[c] # <<>>
           /\ \A c \in Entry : slots[c] # <<>> =>
                  slots'[c] = slots[c] \/ (slots'[c] # <<>> /\ Keeps(slots[c], slots'[c], f))
<1>1. fat' = fat /\ Directories(slots)
  BY DEF Attributes, TypeInv
<1>2. CASE slots' = slots
  BY <1>1, <1>2
<1>3. ASSUME NEW at \in Found(job.file),
             slots' = [slots EXCEPT ![at[1]][at[2]] =
                            Slot(@.kind, job.file, Swapped(fcb[job.file].first), fcb[job.file].size)]
      PROVE  \A c \in Entry : /\ slots'[c] # <<>> => slots[c] # <<>>
                              /\ slots[c] # <<>> =>
                                    slots'[c] = slots[c] \/ (slots'[c] # <<>> /\ Keeps(slots[c], slots'[c], f))
  <2> DEFINE x == at[1]  d == slots[x]
             e == [d EXCEPT ![at[2]] = Slot(d[at[2]].kind, job.file, Swapped(fcb[job.file].first), fcb[job.file].size)]
  <2>1. /\ x \in Entry /\ at[2] \in 1..Slots /\ d # <<>> /\ IsDirectory(d)
        /\ Matches(x, at[2], job.file)
    BY <1>1, FoundIs
  <2>2. slots' = [slots EXCEPT ![x] = e]
    BY <1>3
  <2>3. d[at[2]].file = job.file
    BY <2>1 DEF Matches
  <2>4. \A i \in 1..Slots : e[i].kind = d[i].kind /\ e[i].file = d[i].file
    BY <2>1, <2>3 DEF IsDirectory, Slot
  <2>5. DOMAIN e = 1..Slots
    BY <2>1, Sizes DEF IsDirectory
  <2>6. e # <<>>
    <3> HIDE DEF e
    <3> QED
      BY <2>5, NotOther
  <2>7. \A c \in Entry : slots'[c] = IF c = x THEN e ELSE slots[c]
    <3> HIDE DEF e, x
    <3> QED
      BY <1>1, <2>2 DEF Directories
  <2> HIDE DEF e
  <2>8. Keeps(d, e, f)
    BY <2>1, <2>4, KeepsRest
  <2> QED
    BY <2>1, <2>6, <2>7, <2>8
<1> QED
  BY <1>1, <1>2, <1>3 DEF Attributes

LEMMA DeleteWay ==
    ASSUME TypeInv, Delete
    PROVE  /\ fat' = fat /\ \A c \in Entry : slots'[c] # <<>> <=> slots[c] # <<>>
           /\ \A f : \/ f = job.file
                     \/ \E at \in Found(job.file) : slots[at[1]][at[2]].kind = "short"
                     \/ \A c \in Entry : slots[c] # <<>> =>
                           slots'[c] = slots[c] \/ Keeps(slots[c], slots'[c], f)
<1>1. fat' = fat /\ Directories(slots)
  BY DEF Delete, TypeInv
<1>2. PICK at \in Found(job.file) :
          LET c == at[1]
              from == DeleteFrom(c, at[2])
              to == Min({j \in (from + 1)..Slots : ~IsLong(slots[c][j])})
          IN  slots' = [slots EXCEPT ![c] = [i \in 1..Slots |->
                            IF i \in from..to THEN Freed(@[i]) ELSE @[i]]]
  BY DEF Delete
<1> DEFINE x == at[1]  d == slots[x]  i == at[2]
           from == DeleteFrom(x, i)
           to == Min({j \in (from + 1)..Slots : ~IsLong(d[j])})
           e == [k \in 1..Slots |-> IF k \in from..to THEN Freed(d[k]) ELSE d[k]]
<1>3. /\ x \in Entry /\ i \in 1..Slots /\ d # <<>> /\ IsDirectory(d)
      /\ MatchesIn(d, i, job.file)
  BY <1>1, FoundIs DEF Matches, MatchesIn
<1>4. slots' = [slots EXCEPT ![x] = e]
  BY <1>2
<1>5. DOMAIN e = 1..Slots
  BY Sizes
<1>6. e # <<>>
  BY <1>5, NotOther
<1>7. \A c \in Entry : slots'[c] = IF c = x THEN e ELSE slots[c]
  <2> HIDE DEF e, x
  <2> QED
    BY <1>1, <1>4 DEF Directories
<1>8. from = Max({1} \cup {j \in 1..(i - 1) : /\ d[j].kind = "long"
                                              /\ j = 1 \/ d[j - 1].kind # "long"})
  BY DEF DeleteFrom
<1> HIDE DEF x, i, from
<1>9. ASSUME NEW f, f # job.file, d[i].kind # "short" PROVE Keeps(d, e, f)
  <2>1. /\ d[i].kind = "alias" /\ i >= Parts
        /\ \A j \in (i - Parts + 1)..(i - 1) : d[j].kind = "long"
    BY <1>3, <1>9 DEF MatchesIn
  <2> HIDE DEF d, e
  <2>2. /\ from \in 1..(i - 1) /\ \A j \in from..(i - 1) : d[j].kind = "long"
        /\ Min({j \in (from + 1)..Slots : ~IsLong(d[j])}) = i
    BY <1>3, <1>8, <2>1, DeletesOne
  <2>3. e = [k \in 1..Slots |-> IF k \in from..i THEN Freed(d[k]) ELSE d[k]]
    BY <2>2 DEF e, d
  <2> QED
    BY <1>3, <1>9, <2>2, <2>3, DeleteKeeps
<1>10. d[i].kind = "short" => \E a \in Found(job.file) : slots[a[1]][a[2]].kind = "short"
  BY DEF x, i
<1> HIDE DEF d, e
<1> QED
  BY <1>1, <1>3, <1>6, <1>7, <1>9, <1>10 DEF d
\* A name goes where nothing is that a search looks at.
LEMMA PlaceWay ==
    ASSUME Directories(slots), NEW c \in Entry, slots[c] # <<>>, NEW i \in Nat, NEW g,
           NEW atEnd \in BOOLEAN, Place(c, i, g, atEnd), NEW f,
           \A k \in 1..Slots : k < End(c) /\ k \in i..(i + Parts - 1) => IsFree(slots[c][k]),
           atEnd => End(c) <= i
    PROVE  /\ \A x \in Entry : x # c => slots'[x] = slots[x]
           /\ slots'[c] # <<>> /\ Keeps(slots[c], slots'[c], f)
<1> DEFINE d == slots[c]
           e == [j \in 1..Slots |->
                   IF j \in i..(i + Parts - 1) THEN Named(g)[j - i + 1]
                   ELSE IF atEnd /\ j = i + Parts THEN EndOfList ELSE d[j]]
<1>1. slots' = [slots EXCEPT ![c] = e]
  BY DEF Place
<1>2. IsDirectory(d) /\ Parts \in Nat \ {0} /\ Slots \in Nat \ {0}
  BY Sizes DEF Directories
<1>3. End(c) = EndOf(d) /\ EndOf(d) \in 1..(Slots + 1)
  BY <1>2, EndOfIs DEF End, EndOf
<1>4. ASSUME NEW k \in 1..Slots, k < EndOf(d)
      PROVE  \/ e[k].kind = d[k].kind /\ e[k].file = d[k].file
             \/ IsFree(d[k]) /\ e[k].kind # "end"
  <2>1. CASE k \in i..(i + Parts - 1)
    <3>1. k - i + 1 \in 1..Parts
      BY <1>2, <2>1
    <3>2. Named(g)[k - i + 1].kind # "end"
      BY <3>1 DEF Named, Slot
    <3>3. e[k] = Named(g)[k - i + 1]
      BY <2>1
    <3> QED
      BY <1>3, <1>4, <2>1, <3>2, <3>3
  <2>2. CASE k \notin i..(i + Parts - 1)
    <3>1. ~(atEnd /\ k = i + Parts)
      BY <1>2, <1>3, <1>4
    <3> QED
      BY <2>2, <3>1
  <2> QED
    BY <2>1, <2>2
<1>5. DOMAIN e = 1..Slots
  BY <1>2
<1> HIDE DEF e
<1>6. e # <<>>
  BY <1>5, NotOther
<1>7. Keeps(d, e, f)
  BY <1>2, <1>4, KeepsRest
<1>8. \A x \in Entry : slots'[x] = IF x = c THEN e ELSE slots[x]
  BY <1>1 DEF Directories
<1> QED
  BY <1>6, <1>7, <1>8

LEMMA AddWay ==
    ASSUME TypeInv, AddToDirectory, NEW f
    PROVE  /\ fat' = fat /\ \A x \in Entry : slots'[x] # <<>> => slots[x] # <<>>
           /\ \A x \in Entry : slots[x] # <<>> =>
                  slots'[x] = slots[x] \/ (slots'[x] # <<>> /\ Keeps(slots[x], slots'[x], f))
<1> DEFINE c == job.dir
           lost == slots[c] # <<>> => job.found > 0 /\ AllFree(c, 1, Parts - job.found)
           fitting == {i \in 1..(Slots - Parts + 1) : AllFree(c, i, i + Parts - 1)}
           e == [slots[c] EXCEPT ![End(c)] = Slot("free", Null, 0, 0)]
<1>1. job.at = "slots" /\ fat' = fat /\ Directories(slots)
  BY DEF AddToDirectory, TypeInv
<1>2. \/ slots' = slots
      \/ ~lost /\ fitting # {} /\ Place(c, Min(fitting), job.file, FALSE)
      \/ ~lost /\ Place(c, End(c), job.file, TRUE)
      \/ ~lost /\ End(c) <= Slots /\ slots' = [slots EXCEPT ![c] = e]
  <2>1. \/ slots' = slots
        \/ ~lost /\ fitting # {} /\ Place(c, Min(fitting), job.file, FALSE)
        \/ ~lost /\ Place(c, End(c), job.file, TRUE)
        \/ ~lost /\ slots' = IF End(c) > Slots THEN slots
                             ELSE [slots EXCEPT ![c][End(c)] = Slot("free", Null, 0, 0)]
    BY DEF AddToDirectory
  <2>2. ASSUME ~lost PROVE End(c) > Slots \/ End(c) <= Slots
    <3>1. c \in Entry /\ slots[c] # <<>>
      BY <1>1, <2>2 DEF TypeInv, JobFits
    <3>2. IsDirectory(slots[c])
      BY <1>1, <3>1 DEF Directories
    <3> HIDE DEF c
    <3>3. End(c) \in 1..(Slots + 1) /\ Slots \in Nat
      BY <3>2, EndIs, Sizes
    <3> QED
      BY <3>3
  <2> HIDE DEF lost, fitting, c
  <2> QED
    BY <2>1, <2>2
<1>3. ~lost => c \in Entry /\ slots[c] # <<>> /\ IsDirectory(slots[c])
  <2> SUFFICES ASSUME ~lost PROVE c \in Entry /\ slots[c] # <<>> /\ IsDirectory(slots[c])
    OBVIOUS
  <2>1. c \in Entry /\ slots[c] # <<>>
    BY <1>1 DEF TypeInv, JobFits
  <2> HIDE DEF c
  <2> QED
    BY <1>1, <2>1 DEF Directories
<1>4. fitting # {} => Min(fitting) \in fitting
  <2>1. fitting \subseteq Nat
    OBVIOUS
  <2> HIDE DEF fitting
  <2> QED
    BY <2>1, LeastOf
<1>5. Parts \in Nat \ {0} /\ Slots \in Nat \ {0}
  BY Sizes
<1> HIDE DEF lost, c
<1>6. CASE slots' = slots
  BY <1>1, <1>6
<1>7. CASE ~lost /\ fitting # {} /\ Place(c, Min(fitting), job.file, FALSE)
  <2> DEFINE i == Min(fitting)
  <2>1. i \in Nat /\ AllFree(c, i, i + Parts - 1)
    BY <1>4, <1>7
  <2>2. c \in Entry /\ slots[c] # <<>> /\ Place(c, i, job.file, FALSE)
    BY <1>3, <1>7
  <2> HIDE DEF i
  <2>3. \A k \in 1..Slots : k < End(c) /\ k \in i..(i + Parts - 1) => IsFree(slots[c][k])
    BY <2>1 DEF AllFree
  <2>4. /\ \A x \in Entry : x # c => slots'[x] = slots[x]
        /\ slots'[c] # <<>> /\ Keeps(slots[c], slots'[c], f)
    BY <1>1, <2>1, <2>2, <2>3, PlaceWay
  <2> QED
    BY <1>1, <2>2, <2>4
<1>8. CASE ~lost /\ Place(c, End(c), job.file, TRUE)
  <2>1. c \in Entry /\ slots[c] # <<>> /\ End(c) \in 1..(Slots + 1)
    BY <1>3, <1>8, EndIs
  <2>2. End(c) \in Nat /\ End(c) <= End(c)
    BY <1>5, <2>1
  <2>3. \A k \in 1..Slots : k < End(c) /\ k \in End(c)..(End(c) + Parts - 1) => IsFree(slots[c][k])
    BY <1>5, <2>2
  <2>4. /\ \A x \in Entry : x # c => slots'[x] = slots[x]
        /\ slots'[c] # <<>> /\ Keeps(slots[c], slots'[c], f)
    BY <1>1, <1>8, <2>1, <2>2, <2>3, PlaceWay
  <2> QED
    BY <1>1, <2>1, <2>4
<1>9. CASE ~lost /\ End(c) <= Slots /\ slots' = [slots EXCEPT ![c] = e]
  <2>1. c \in Entry /\ slots[c] # <<>> /\ IsDirectory(slots[c])
    BY <1>3, <1>9
  <2>2. End(c) = EndOf(slots[c])
    BY DEF End, EndOf
  <2>3. EndOf(slots[c]) \in 1..(Slots + 1)
    BY <2>1, EndOfIs
  <2>4. \A k \in 1..Slots : k < EndOf(slots[c]) => e[k].kind = slots[c][k].kind /\ e[k].file = slots[c][k].file
    BY <1>5, <2>1, <2>2, <2>3 DEF IsDirectory
  <2>5. DOMAIN e = 1..Slots
    BY <1>5, <2>1 DEF IsDirectory
  <2> HIDE DEF e
  <2>6. e # <<>>
    BY <2>5, NotOther
  <2>7. Keeps(slots[c], e, f)
    BY <2>1, <2>4, KeepsRest
  <2>8. \A x \in Entry : slots'[x] = IF x = c THEN e ELSE slots[x]
    BY <1>1, <1>9 DEF Directories
  <2> QED
    BY <1>1, <2>1, <2>6, <2>7, <2>8
<1> QED
  BY <1>2, <1>6, <1>7, <1>8, <1>9

LEMMA GrowWay ==
    ASSUME TypeInv, Fresh, Grow, NEW f
    PROVE  /\ fat' = fat /\ \A x \in Entry : slots'[x] # <<>> => slots[x] # <<>>
           /\ \A x \in Entry : slots[x] # <<>> =>
                  slots'[x] = slots[x] \/ (slots'[x] # <<>> /\ Keeps(slots[x], slots'[x], f))
<1> DEFINE c == job.new
           e == [j \in 1..Slots |->
                   IF j <= Parts THEN Named(job.file)[j]
                   ELSE IF j = Parts + 1 THEN EndOfList ELSE slots[job.last][j]]
<1>1. /\ job.at = "grow" /\ fat' = fat /\ slots' = [slots EXCEPT ![c] = e]
      /\ Directories(slots)
  BY DEF Grow, TypeInv
<1>2. slots[c] = Blank
  BY <1>1 DEF Fresh, Untouched
<1>3. EndOf(Blank) = 1 /\ Blank # <<>> /\ 1 \in 1..Slots
  BY BlankEnds, Sizes
<1>4. Keeps(Blank, e, f)
  <2> HIDE DEF e
  <2> QED
    BY <1>3 DEF Keeps
<1>5. DOMAIN e = 1..Slots
  OBVIOUS
<1> HIDE DEF e, c
<1>6. e # <<>>
  BY <1>5, NotOther
<1>7. \A x \in Entry : slots'[x] = IF x = c THEN e ELSE slots[x]
  BY <1>1 DEF Directories
<1> QED
  BY <1>1, <1>2, <1>3, <1>4, <1>6, <1>7
\* After a call has given up, nothing is being allocated.
LEMMA FailedSettles ==
    ASSUME TypeInv, job.at \in Writing \cup {"scan"}
    PROVE  Failed.at \notin Settling
<1>1. Failed.at \in {"unchain", "data", "idle"}
  BY FailedFits DEF TypeInv
<1> QED
  BY <1>1 DEF Settling

LEMMA QuietFresh ==
    ASSUME TypeInv, Fresh,
           \/ \E f \in File : Create(f) \/ Open(f) \/ Close(f) \/ Unlink(f)
           \/ \E f \in File : \E n \in Lengths : Write(f, n)
           \/ WriteInfo \/ Data \/ NotWritten \/ PowerFails
    PROVE  Fresh'
<1>1. slots' = slots
  BY DEF Create, Open, Close, Unlink, Write, WriteInfo, Data, NotWritten, PowerFails, disk
<1>2. \A c \in Entry : fat[1][c] # 0 => fat'[1][c] # 0
  <2>1. CASE Data
    <3>1. fat' = fat \/ \E c \in {0, 1} : fat' = [fat EXCEPT ![Copies] = Overwritten(c)]
      BY <2>1, DataWrites
    <3>2. 1 \in 1..Copies /\ Copies \in 1..Copies
      BY Sizes
    <3>3. \A k \in 1..Copies : \A c \in Entry :
             fat'[k][c] = fat[k][c] \/ (k = Copies /\ fat'[k][c] = 1)
      BY <3>1, <3>2 DEF Overwritten, Text, TypeInv, TableType
    <3> QED
      BY <3>2, <3>3
  <2>2. CASE ~Data
    BY <2>2 DEF Create, Open, Close, Unlink, Write, WriteInfo, NotWritten, PowerFails, disk
  <2> QED
    BY <2>1, <2>2
<1>3. job'.at \notin Settling
  <2>1. CASE \E f \in File : Create(f) \/ Open(f) \/ Close(f) \/ Unlink(f)
    BY <2>1 DEF Create, Open, Close, Unlink, Call, Continue, Idle, AddName, Settling
  <2>2. CASE \E f \in File : \E n \in Lengths : Write(f, n)
    BY <2>2 DEF Write, Call, Hung, Allocation, Settling
  <2>3. CASE WriteInfo
    <3>1. job.at = "info" /\ job \in Allocations
      BY <2>3 DEF WriteInfo, TypeInv, JobFits, Steps
    <3>2. job' = Failed \/ job' = [job EXCEPT !.at = "attributes"]
      BY <2>3 DEF WriteInfo, Refused, Continue
    <3>3. Failed.at \notin Settling
      BY <3>1, FailedSettles DEF Writing
    <3>4. [job EXCEPT !.at = "attributes"].at = "attributes"
      BY <3>1 DEF Allocations
    <3> QED
      BY <3>2, <3>3, <3>4 DEF Settling
  <2>4. CASE Data
    BY <2>4, DataWrites DEF Idle, Wild, Settling
  <2>5. CASE NotWritten
    BY <2>5, FailedSettles DEF NotWritten, Refused
  <2>6. CASE PowerFails
    BY <2>6 DEF PowerFails, Idle, Settling
  <2> QED
    BY <2>1, <2>2, <2>3, <2>4, <2>5, <2>6
<1> QED
  BY <1>1, <1>2, <1>3, FreshStays

LEMMA DirectoryFresh ==
    ASSUME TypeInv, Fresh, Attributes \/ Delete \/ AddToDirectory \/ Grow
    PROVE  Fresh'
<1>1. fat' = fat /\ \A c \in Entry : slots'[c] # <<>> => slots[c] # <<>>
  BY AttributesWay, DeleteWay, AddWay, GrowWay
<1>2. job'.at \notin Settling
  <2>1. CASE Attributes
    <3>1. job.at = "attributes" /\ job \in Allocations
      BY <2>1 DEF Attributes, TypeInv, JobFits, Steps
    <3>2. job' = Failed \/ job' = [job EXCEPT !.at = "data"]
      BY <2>1 DEF Attributes, Refused, Continue
    <3>3. Failed.at \notin Settling
      BY <3>1, FailedSettles DEF Writing
    <3>4. [job EXCEPT !.at = "data"].at = "data"
      BY <3>1 DEF Allocations
    <3> QED
      BY <3>2, <3>3, <3>4 DEF Settling
  <2>2. CASE Delete
    <3>1. job.at = "delete" /\ job' \in {Failed, AddName(job.file), Idle}
      BY <2>2 DEF Delete, Deleted, Refused, Continue
    <3>2. Failed.at \notin Settling
      BY <3>1, FailedSettles DEF Writing
    <3> QED
      BY <3>1, <3>2 DEF AddName, Idle, Settling
  <2>3. CASE AddToDirectory
    <3>1. job.at = "slots"
      BY <2>3 DEF AddToDirectory
    <3>2. Failed.at \notin Settling
      BY <3>1, FailedSettles DEF Writing
    <3> QED
      BY <2>3, <3>2, AddEnds DEF Allocation, Settling
  <2>4. CASE Grow
    <3>1. job.at = "grow" /\ job' \in {Failed, [at |-> "open", file |-> job.file, for |-> "directory"]}
      BY <2>4 DEF Grow, Refused, Continue
    <3>2. Failed.at \notin Settling
      BY <3>1, FailedSettles DEF Writing
    <3> QED
      BY <3>1, <3>2 DEF Settling
  <2> QED
    BY <2>1, <2>2, <2>3, <2>4
<1> QED
  BY <1>1, <1>2, FreshStays

\* A step of the allocation: the cluster is one that has not been a directory.
LEMMA ScanFresh ==
    ASSUME TypeInv, Sound, AllocInv, Fresh, Scan
    PROVE  Fresh'
<1>1. fat' = fat /\ slots' = slots /\ job.at = "scan" /\ job \in Allocations
  BY DEF Scan, disk, TypeInv, JobFits, Steps, Allocating
<1>2. \/ job' \in {Failed, Wild}
      \/ \E new, sector : job' = [job EXCEPT !.at = "mark", !.new = new, !.copy = 1, !.sector = sector]
  BY DEF Scan, Continue
<1>3. Failed.at \notin Settling /\ Wild.at \notin Settling
  BY <1>1, FailedSettles DEF Wild, Settling
<1>4. job' \notin {Failed, Wild} => job'.at = "mark" /\ job'.copy = 1
  BY <1>1, <1>2 DEF Allocations
<1>5. job' \notin {Failed, Wild} => job'.new \in Cluster /\ fat'[1][job'.new] = 0
  <2>1. AllocInv'
    BY ScanSound
  <2> QED
    BY <1>4, <2>1 DEF AllocInv, MarkInv, Allocating
<1>6. job' \notin {Failed, Wild} => slots'[job'.new] = <<>>
  BY <1>1, <1>5 DEF Fresh, Cluster
<1>7. job'.at \in Settling => Untouched(job', slots')
  BY <1>3, <1>4, <1>6 DEF Untouched
<1> QED
  BY <1>1, <1>7, FreshStays

LEMMA TableFresh ==
    ASSUME TypeInv, Fresh, job.at \in {"mark", "reread", "link"}, slots' = slots,
           \A c \in Entry : fat[1][c] # 0 => fat'[1][c] # 0,
           \/ job.at # "reread" /\ job' = Failed
           \/ job'.new = job.new /\ job'.at \in {"mark", "reread", "link", "blank"}
    PROVE  Fresh'
<1>1. job.at # "reread" /\ job' = Failed => job'.at \notin Settling
  <2> SUFFICES ASSUME job.at # "reread", job' = Failed PROVE job'.at \notin Settling
    OBVIOUS
  <2>1. job.at \in Writing \cup {"scan"}
    BY DEF Writing
  <2> QED
    BY <2>1, FailedSettles
<1>2. slots[job.new] = <<>>
  BY DEF Fresh, Untouched
<1>3. job'.at \in Settling => Untouched(job', slots')
  BY <1>1, <1>2 DEF Untouched
<1> QED
  BY <1>3, FreshStays

LEMMA MarkFresh ==
    ASSUME TypeInv, Sound, AllocInv, Fresh, Mark
    PROVE  Fresh'
<1>1. job.at = "mark" /\ slots' = slots /\ job \in Allocations /\ MarkInv /\ job.new \in Cluster
  BY DEF Mark, AllocInv, Allocating, TypeInv, JobFits, Steps
<1>2. \E x \in Cluster : \A c \in Entry : fat'[1][c] = IF c = x THEN EOF ELSE fat[1][c]
  BY <1>1, MarkEffect
<1>3. \A c \in Entry : fat[1][c] # 0 => fat'[1][c] # 0
  <2>1. EOF # 0
    BY Sizes
  <2> QED
    BY <1>2, <2>1
<1>4. \/ job' = Failed
      \/ job' = [job EXCEPT !.copy = @ + 1]
      \/ job' = [job EXCEPT !.at = "blank"]
      \/ job' = [job EXCEPT !.at = "reread"]
  BY DEF Mark, Refused, Continue
<1>5. \/ job.at # "reread" /\ job' = Failed
      \/ job'.new = job.new /\ job'.at \in {"mark", "reread", "link", "blank"}
  BY <1>1, <1>4 DEF Allocations
<1> QED
  BY <1>1, <1>3, <1>5, TableFresh

LEMMA RereadFresh ==
    ASSUME TypeInv, Fresh, Reread
    PROVE  Fresh'
<1>1. job.at = "reread" /\ slots' = slots /\ fat' = fat /\ job \in Allocations
  BY DEF Reread, disk, TypeInv, JobFits, Steps, Allocating
<1>2. job'.new = job.new /\ job'.at = "link"
  BY <1>1 DEF Reread, Continue, Allocations
<1> QED
  BY <1>1, <1>2, TableFresh

LEMMA LinkFresh ==
    ASSUME TypeInv, Sound, AllocInv, Fresh, Link
    PROVE  Fresh'
<1>1. /\ job.at = "link" /\ slots' = slots /\ job \in Allocations /\ LinkInv /\ job.new \in Cluster
      /\ \A m \in 1..Copies : fat[m][job.new] = EOF
  BY DEF Link, AllocInv, Allocating, TypeInv, JobFits, Steps
<1>2. \E x \in Cluster, y \in Entry : \A c \in Entry : fat'[1][c] = IF c = y THEN x ELSE fat[1][c]
  BY <1>1, LinkEffect
<1>3. \A c \in Entry : fat[1][c] # 0 => fat'[1][c] # 0
  BY <1>2 DEF Cluster
<1>4. \/ job' = Failed
      \/ job' = [job EXCEPT !.copy = @ + 1]
      \/ job' = [job EXCEPT !.at = "blank"]
  BY DEF Link, Refused, Continue
<1>5. \/ job.at # "reread" /\ job' = Failed
      \/ job'.new = job.new /\ job'.at \in {"mark", "reread", "link", "blank"}
  BY <1>1, <1>4 DEF Allocations
<1> QED
  BY <1>1, <1>3, <1>5, TableFresh

\* The cluster that becomes a directory is one that ends a chain by now.
LEMMA WriteBlankFresh ==
    ASSUME TypeInv, AllocInv, Fresh, WriteBlank
    PROVE  Fresh'
<1>1. /\ job.at = "blank" /\ job \in Allocations /\ fat' = fat /\ Directories(slots)
      /\ slots' = IF job.for = "directory" THEN [slots EXCEPT ![job.new] = Blank] ELSE slots
  BY DEF WriteBlank, TypeInv, JobFits, Steps, Allocating, Fresh, Untouched
<1>2. job.new \in Entry /\ fat[1][job.new] # 0
  <2>1. job.new \in Cluster /\ \A k \in 1..Copies : fat[k][job.new] = EOF
    BY <1>1 DEF AllocInv, Allocating
  <2> QED
    BY <2>1, Sizes DEF Cluster
<1>3. \A c \in Entry : slots'[c] # <<>> => slots[c] # <<>> \/ fat'[1][c] # 0
  BY <1>1, <1>2 DEF Directories
<1>4. job.for = "directory" => slots'[job.new] = Blank
  BY <1>1, <1>2 DEF Directories
<1>5. \/ job' = Failed
      \/ \E head : job' = [job EXCEPT !.at = IF job.for = "file" THEN "info" ELSE "grow", !.head = head]
      \/ \E head : job' = [job EXCEPT !.at = "scan", !.head = head, !.last = job.new,
                                      !.from = job.new + 1, !.need = @ - 1]
  BY DEF WriteBlank, Refused, Continue
<1>6. Failed.at \notin Settling
  BY <1>1, FailedSettles DEF Writing
<1>7. \/ job' = Failed
      \/ job'.new = job.new /\ job'.at = IF job.for = "file" THEN "info" ELSE "grow"
      \/ job'.at = "scan"
  BY <1>1, <1>5 DEF Allocations
<1>8. job.for \in {"file", "directory"}
  BY <1>1 DEF Allocations
<1>9. job'.at \in Settling => Untouched(job', slots')
  BY <1>4, <1>6, <1>7, <1>8 DEF Untouched, Settling
<1> QED
  BY <1>1, <1>3, <1>9, FreshStays

LEMMA FreshAtFirst ==
    ASSUME Init
    PROVE  FreshInv
<1>1. PICK there \in BOOLEAN :
        LET used == {0, 1, Root} \cup (IF there THEN {OldAt} ELSE {})
        IN  /\ fat = [k \in 1..Copies |-> [c \in Entry |-> IF c \in used THEN EOF ELSE 0]]
            /\ slots = [c \in Entry |-> IF c # Root THEN <<>>
                           ELSE IF there THEN [Blank EXCEPT ![1] = Slot("short", Old, OldAt, Block)]
                           ELSE Blank]
            /\ job = Idle
  BY DEF Init
<1>2. 1 \in 1..Copies /\ EOF # 0
  BY Sizes
<1>3. \A c \in Entry : slots[c] # <<>> => c = Root
  BY <1>1
<1>4. \A c \in Entry : c = Root => fat[1][c] = EOF
  BY <1>1, <1>2
<1>5. Untouched(job, slots)
  BY <1>1 DEF Untouched, Idle
<1> QED
  BY <1>2, <1>3, <1>4, <1>5 DEF FreshInv, Fresh

LEMMA FreshStep ==
    ASSUME TypeInv, MisledInv, SoundInv, FreshInv, [Next]_vars
    PROVE  FreshInv'
<1> SUFFICES ASSUME longest' <= 3, ~misled' PROVE Fresh'
  BY DEF FreshInv
<1>1. longest <= 3 /\ ~misled /\ ~Unchain /\ ~Zero /\ ~WriteCount
  BY NotReleasing
<1>2. Sound /\ AllocInv /\ Fresh
  BY <1>1 DEF SoundInv, FreshInv
<1>3. CASE Scan
  BY <1>2, <1>3, ScanFresh
<1>4. CASE Mark
  BY <1>2, <1>4, MarkFresh
<1>5. CASE Reread
  BY <1>2, <1>5, RereadFresh
<1>6. CASE Link
  BY <1>2, <1>6, LinkFresh
<1>7. CASE WriteBlank
  BY <1>2, <1>7, WriteBlankFresh
<1>8. CASE Attributes \/ Delete \/ AddToDirectory \/ Grow
  BY <1>2, <1>8, DirectoryFresh
<1>9. CASE \/ \E f \in File : Create(f) \/ Open(f) \/ Close(f) \/ Unlink(f)
           \/ \E f \in File : \E n \in Lengths : Write(f, n)
           \/ WriteInfo \/ Data \/ NotWritten \/ PowerFails
  BY <1>2, <1>9, QuietFresh
<1>10. CASE UNCHANGED vars
  BY <1>2, <1>10 DEF vars, disk, Fresh, Untouched
<1> QED
  BY <1>1, <1>3, <1>4, <1>5, <1>6, <1>7, <1>8, <1>9, <1>10 DEF Next

\* A step of the allocation leaves every directory as it is, and the link of
\* each, but for a new one at the end of a chain.
LEMMA AllocationWay ==
    ASSUME TypeInv, Sound, AllocInv, Fresh, Scan \/ Mark \/ Reread \/ Link \/ WriteBlank
    PROVE  \A c \in Entry : slots[c] # <<>> =>
              /\ slots'[c] = slots[c]
              /\ fat'[1][c] = fat[1][c] \/ fat[1][c] \notin Entry
<1>1. CASE Scan \/ Reread
  BY <1>1 DEF Scan, Reread, disk
<1>2. CASE Mark
  <2>1. job.at = "mark" /\ slots' = slots /\ MarkInv /\ job.new \in Cluster /\ slots[job.new] = <<>>
    BY <1>2 DEF Mark, AllocInv, Allocating, Fresh, Untouched
  <2>2. \A c \in Entry : fat'[1][c] = IF c = job.new THEN EOF ELSE fat[1][c]
    BY <1>2, <2>1, MarkEffect
  <2> QED
    BY <2>1, <2>2
<1>3. CASE Link
  <2>1. /\ job.at = "link" /\ slots' = slots /\ LinkInv /\ job.new \in Cluster
        /\ \A m \in 1..Copies : fat[m][job.new] = EOF
    BY <1>3 DEF Link, AllocInv, Allocating
  <2>2. /\ \A c \in Entry : fat'[1][c] = IF c = job.last THEN job.new ELSE fat[1][c]
        /\ job.copy = 1 => fat[1][job.last] = EOF
    BY <1>3, <2>1, LinkEffect
  <2>3. fat[1][job.last] = EOF \/ fat[1][job.last] = job.new
    BY <2>1 DEF LinkInv
  <2>4. EOF \notin Entry
    BY Sizes
  <2> QED
    BY <2>1, <2>2, <2>3, <2>4
<1>4. CASE WriteBlank
  <2>1. /\ job.at = "blank" /\ fat' = fat /\ Directories(slots)
        /\ slots' = IF job.for = "directory" THEN [slots EXCEPT ![job.new] = Blank] ELSE slots
    BY <1>4 DEF WriteBlank, TypeInv, Fresh, Untouched
  <2>2. slots[job.new] = <<>>
    BY <2>1 DEF Fresh, Untouched
  <2> QED
    BY <2>1, <2>2 DEF Directories
<1> QED
  BY <1>1, <1>2, <1>3, <1>4

\* With a second copy of the table, what the other steps write to it is in that
\* one.
LEMMA QuietWay ==
    ASSUME Copies >= 2, TypeInv,
           \/ \E f \in File : Create(f) \/ Open(f) \/ Close(f) \/ Unlink(f)
           \/ \E f \in File : \E n \in Lengths : Write(f, n)
           \/ WriteInfo \/ Data \/ NotWritten \/ PowerFails
    PROVE  slots' = slots /\ \A c \in Entry : fat'[1][c] = fat[1][c]
<1>1. slots' = slots
  BY DEF Create, Open, Close, Unlink, Write, WriteInfo, Data, NotWritten, PowerFails, disk
<1>2. CASE Data
  <2>1. fat' = fat \/ \E c \in {0, 1} : fat' = [fat EXCEPT ![Copies] = Overwritten(c)]
    BY <1>2, DataWrites
  <2>2. 1 \in 1..Copies /\ Copies # 1
    BY Sizes
  <2> QED
    BY <1>1, <2>1, <2>2 DEF TypeInv, TableType
<1>3. CASE ~Data
  BY <1>1, <1>3 DEF Create, Open, Close, Unlink, Write, WriteInfo, NotWritten, PowerFails, disk
<1> QED
  BY <1>2, <1>3

\* A step that does not delete f, nor a file without a long name, leaves the
\* search for f its way.
Deletes(f) ==
    /\ job.at = "delete"
    /\ job.file = f \/ \E at \in Found(job.file) : slots[at[1]][at[2]].kind = "short"

LEMMA StepWay ==
    ASSUME Copies >= 2, TypeInv, TypeInv', Sound, AllocInv, Fresh, Next,
           ~Unchain, ~Zero, ~WriteCount, NEW f
    PROVE  Deletes(f) \/ KeepsWay(f)
<1> DEFINE Same(c) == fat'[1][c] = fat[1][c] \/ fat[1][c] \notin Entry
           Kept(c) == slots'[c] = slots[c] \/ (slots'[c] # <<>> /\ Keeps(slots[c], slots'[c], f))
<1>1. Directories(slots) /\ Directories(slots')
  BY DEF TypeInv
<1>2. Deletes(f) \/ \A c \in Entry : slots[c] # <<>> => Same(c) /\ Kept(c)
  <2>1. CASE Scan \/ Mark \/ Reread \/ Link \/ WriteBlank
    BY <2>1, AllocationWay
  <2>2. CASE \/ \E g \in File : Create(g) \/ Open(g) \/ Close(g) \/ Unlink(g)
             \/ \E g \in File : \E n \in Lengths : Write(g, n)
             \/ WriteInfo \/ Data \/ NotWritten \/ PowerFails
    BY <2>2, QuietWay
  <2>3. CASE Attributes
    BY <2>3, AttributesWay
  <2>4. CASE Delete
    <3>1. job.at = "delete"
      BY <2>4 DEF Delete
    <3>2. /\ fat' = fat /\ \A c \in Entry : slots[c] # <<>> => slots'[c] # <<>>
          /\ Deletes(f) \/ \A c \in Entry : slots[c] # <<>> =>
                              slots'[c] = slots[c] \/ Keeps(slots[c], slots'[c], f)
      BY <2>4, <3>1, DeleteWay DEF Deletes
    <3> QED
      BY <3>2
  <2>5. CASE AddToDirectory
    BY <2>5, AddWay
  <2>6. CASE Grow
    BY <2>6, GrowWay
  <2> QED
    BY <2>1, <2>2, <2>3, <2>4, <2>5, <2>6 DEF Next
<1> QED
  BY <1>1, <1>2, WayStays

LEMMA LosesNone ==
    ASSUME Copies >= 2, TypeInv, MisledInv, SoundInv, FreshInv, Next, NEW f,
           longest <= 3, ~misled, Present(f), ~Present(f)'
    PROVE  Deletes(f)
<1>1. /\ Sound /\ AllocInv /\ Fresh
      /\ ~Unchain /\ ~Zero /\ ~WriteCount
  BY DEF SoundInv, FreshInv, MisledInv, Releasing, Unchain, Zero, WriteCount
<1>2. TypeInv'
  BY TypesStep
<1>3. TableType /\ Directories(slots) /\ TableType' /\ Directories(slots')
  BY <1>2 DEF TypeInv
<1>4. ~KeepsWay(f)
  BY <1>3, StaysFound
<1> QED
  BY <1>1, <1>2, <1>4, StepWay

\* A file leaves the directory only when it is deleted, or one without a long
\* name is, on a volume with a second copy of the table: no step of a call, none
\* that is cut off, and no power failure, leads a search for it astray.  (With
\* one copy alone the bytes of a file without clusters may go to the table
\* itself; and unlink(), refused a write of DELETE_FILE, may free any cluster.)
THEOREM FilesStayThere == ASSUME Copies >= 2 PROVE Spec => FilesStay
<1> DEFINE Inv == TypeInv /\ MisledInv /\ SoundInv /\ FreshInv
<1>1. Init => Inv
  BY TypesAtFirst, MisledAtFirst, SoundAtFirst, FreshAtFirst
<1>2. Inv /\ [Next]_vars => Inv'
  BY TypesStep, MisledStep, SoundStep, FreshStep
<1>3. Inv /\ [Next]_vars =>
        [\A f \in File :
            longest <= 3 /\ ~misled /\ Present(f) /\ ~Present(f)' =>
                /\ job.at = "delete"
                /\ \/ job.file = f
                   \/ \E at \in Found(job.file) : slots[at[1]][at[2]].kind = "short"]_vars
  BY LosesNone DEF Deletes
<1> QED
  BY <1>1, <1>2, <1>3, PTL DEF Spec, FilesStay

=============================================================================
