----------------------------- MODULE FatVolume -----------------------------
(***************************************************************************)
(* The writing half of fat.c and file_system.c: create(), unlink(),        *)
(* extend() and write() on a FAT32 volume, one sector at a time.  The disk *)
(* may refuse a write (what it is asked to read, it reads), and the power  *)
(* may fail between any two of them.                                       *)
(*                                                                         *)
(* Bytes of files are not kept, only which clusters they go to.  A cluster *)
(* is one sector.  A name takes Parts entries of the directory, the short  *)
(* one last; a file made by another system may have the short one alone.   *)
(* No program of the repository calls this code yet: the caller here makes *)
(* any calls, one at a time.                                               *)
(***************************************************************************)
EXTENDS Naturals, FiniteSets, FiniteSetsExt, Functions

CONSTANTS File,       \* names
          Null,
          Copies,     \* fats_on_volume
          Sectors,    \* sectors_per_fat
          PerSector,  \* entries_per_sector
          Width,      \* bytes of an entry: 4
          Half,       \* the values of half a cluster number, 2^16
          Root,       \* root_directory_cluster
          Slots,      \* directory entries in a cluster
          Parts,      \* entries a name takes
          Block,      \* bytes_per_cluster
          Old, OldAt, \* a file of one cluster, with a short name alone, that may be there
          Lengths,    \* what is asked of write()
          MaxSize,    \* bound: no write ends beyond this size
          MaxCalls,   \* bound: calls that write to the disk
          MaxFaults   \* bound: refused writes and power failures

Entry   == 0..(Sectors * PerSector - 1)
Cluster == Entry \ {0, 1}
EOF     == Half * Half     \* and EOC, in the table

ASSUME FatAssumption ==
    /\ Null \notin File
    /\ {Copies, Sectors, PerSector, Width, Half, Slots, Parts, Block} \subseteq Nat \ {0}
    /\ Sectors >= 2
    /\ Sectors * PerSector <= EOF
    /\ Root \in Cluster
    /\ OldAt \in Cluster \ {Root}
    /\ Old \in File
    /\ Parts >= 2
    /\ Parts + 1 < Slots
    /\ Lengths \subseteq Nat \ {0}

VARIABLES fat,      \* fat[k][c], the entry of cluster c in copy k of the table
          slots,    \* slots[c], the directory entries in c; <<>> for any other content
          info,     \* FSI_Free_Count
          count,    \* free_cluster_count
          fcb,      \* fcb[f], the open file f, or Null
          job,      \* how far the call has come
          longest,  \* history: the most clusters one call asked for
          calls,    \* history: calls that write to the disk
          faults,   \* history: writes refused and power failures
          wasted,   \* history: a file at its end was extended
          misled    \* history: unlink() was refused a write, and took the error for
                    \* a cluster number

disk    == <<fat, slots, info>>
memory  == <<count, fcb>>
history == <<longest, calls, faults, wasted, misled>>
vars    == <<disk, memory, job, history>>

-----------------------------------------------------------------------------
(* Chains and directories *)

\* next_cluster_after(), which reads the first copy.
NextAfter(c) == IF c = 0 \/ c \notin Entry THEN EOF ELSE fat[1][c]

\* Where n steps from c lead.
Follow(step, c, n) ==
    LET at[i \in 0..n] == IF i = 0 THEN c ELSE step[at[i - 1]]
    IN  at[n]

\* The cluster n after c in its chain.
Walk(c, n) == Follow([d \in Nat |-> NextAfter(d)], c, n)

Slot(kind, f, first, size) == [kind |-> kind, file |-> f, first |-> first, size |-> size]
EndOfList == Slot("end", Null, 0, 0)
Blank     == [i \in 1..Slots |-> EndOfList]

\* A deleted entry keeps the attribute that tells a piece of a long name.
Freed(e)  == Slot(IF e.kind \in {"long", "freed long"} THEN "freed long" ELSE "free", Null, 0, 0)
IsFree(e) == e.kind \in {"free", "freed long"}
IsLong(e) == e.kind \in {"long", "freed long"}

\* The entries of a new file.
Named(f) == [i \in 1..Parts |-> Slot(IF i < Parts THEN "long" ELSE "alias", f, 0, 0)]

\* The first entry of a directory cluster that ends the list, or Slots + 1.
End(c) == Min({Slots + 1} \cup {i \in DOMAIN slots[c] : slots[c][i].kind = "end"})

\* A short entry goes by the long name in front of it, if there is one.
Matches(c, i, f) ==
    /\ slots[c][i].file = f
    /\ \/ slots[c][i].kind = "short"
       \/ /\ slots[c][i].kind = "alias"
          /\ i >= Parts
          /\ \A j \in (i - Parts + 1)..(i - 1) :
                slots[c][j].kind = "long" /\ slots[c][j].file = f

\* The entries of f in one cluster.
Here(c, f) == {i \in 1..(End(c) - 1) : Matches(c, i, f)}

\* The search for f goes no further: f is in c, or the end of the list is, or c is
\* past the last cluster or holds other data.
Ends(c, f) == c \notin Entry \/ slots[c] = <<>> \/ Here(c, f) # {} \/ End(c) <= Slots

\* Where a search for f ends, which goes to as many clusters as there are.
Search(f) ==
    Follow([c \in Nat |-> IF Ends(c, f) THEN c ELSE NextAfter(c)], Root, Cardinality(Entry))

\* What find_in_directory() finds, and whether there is a directory to look in.
Found(f) ==
    LET there == {c \in {Search(f)} : c \in Entry /\ slots[c] # <<>> /\ Here(c, f) # {}}
    IN  {<<c, Min(Here(c, f))>> : c \in there}

Present(f) == Found(f) # {}
Astray     == \E f \in File : Search(f) \in {c \in Entry : slots[c] = <<>>}

-----------------------------------------------------------------------------
(* What a call comes to when its writes are done, or one is refused *)

Idle == [at |-> "idle", file |-> Null]
Hung == [at |-> "hung", file |-> Null]   \* the call never returns
Wild == [at |-> "wild", file |-> Null]   \* beyond a buffer, or by what is no cluster
                                         \* number or no directory

Writing == {"mark", "link", "blank", "info", "attributes", "delete", "slots", "grow", "zero",
            "count"}

\* unlink() takes the error number of a write that was refused, 1, for the first
\* cluster of the file, and puts its chain back on the free list.
Misled == [at |-> "unchain", file |-> job.file, for |-> "unlink", then |-> job.then,
           cluster |-> 1, cleared |-> {}]

\* The call gives up; write() goes on without the space.
Failed ==
    IF job.at = "delete" THEN Misled
    ELSE IF job.for = "file" THEN [at |-> "data", file |-> job.file, for |-> "file", bytes |-> job.bytes]
    ELSE Idle

Refuse  == faults < MaxFaults /\ faults' = faults + 1 /\ UNCHANGED <<longest, calls, wasted>>
Refused ==
    /\ job' = Failed /\ Refuse /\ UNCHANGED memory
    /\ misled' = (misled \/ job.at = "delete")

\* The disk has not done what it refused to do; that it has done it, or a part,
\* is a disjunct of each action.
NotWritten ==
    /\ job.at \in Writing
    /\ Refused
    /\ UNCHANGED disk

Continue(j) == job' = j /\ UNCHANGED history

-----------------------------------------------------------------------------
(* allocate_free_cluster() *)

\* The entries of the table in one of its sectors, as the first copy has them.
Sector(s) == [p \in 0..(PerSector - 1) |-> fat[1][s * PerSector + p]]

\* Copy k gets a sector with these entries.
PutSector(k, s, entries) ==
    fat' = [fat EXCEPT ![k] = [c \in Entry |->
                IF c \div PerSector = s THEN entries[c % PerSector] ELSE @[c]]]

\* need clusters are to follow the cluster last.
Allocation(f, for, last, need, bytes) ==
    [at |-> "scan", file |-> f, for |-> for, last |-> last, need |-> need, bytes |-> bytes,
     head |-> 0, new |-> 0, from |-> 0, copy |-> 1, sector |-> Sector(0)]

\* The next free entry: in the sector at hand, else in one that is read.  The
\* sector at hand may be another than the one it goes by: the table is read into
\* the same buffer to link the last cluster.  What becomes of a volume that gives
\* a file what is in front of its clusters, where unlink() has freed entry 0 or 1,
\* is not followed.
Scan ==
    /\ job.at = "scan"
    /\ LET s == IF job.from = 0 THEN 0 ELSE (job.from - 1) \div PerSector
           here == {c \in Entry : c >= job.from /\ c \div PerSector = s
                                  /\ job.sector[c % PerSector] = 0}
           later == {c \in Entry : c \div PerSector > s /\ fat[1][c] = 0}
           new == Min(IF here # {} THEN here ELSE later)
           sector == IF here # {} THEN job.sector ELSE Sector(new \div PerSector)
       IN  Continue(IF here \cup later = {} THEN Failed
                    ELSE IF new \in {0, 1} THEN Wild
                    ELSE [job EXCEPT !.at = "mark", !.new = new, !.copy = 1,
                                     !.sector = [sector EXCEPT ![new % PerSector] = EOF]])
    /\ UNCHANGED <<disk, memory>>

\* A loop that writes one copy, a slip for the properties to catch.
FirstCopy(k) == TRUE

LastCopy(k) == k = Copies

\* The new cluster ends a chain, in every copy.  A file whose blocks have been
\* read to the end has EOF for its current block: the table has no such sector.
Mark ==
    /\ job.at = "mark"
    /\ PutSector(job.copy, job.new \div PerSector, job.sector)
    /\ UNCHANGED <<slots, info>>
    /\ \/ Refused
       \/ /\ ~LastCopy(job.copy)
          /\ Continue([job EXCEPT !.copy = @ + 1])
          /\ UNCHANGED memory
       \/ /\ LastCopy(job.copy)
          /\ job.last = 0
          /\ count' = count - 1
          /\ Continue([job EXCEPT !.at = "blank"])
          /\ UNCHANGED fcb
       \/ /\ LastCopy(job.copy)
          /\ job.last = EOF
          /\ wasted' = TRUE
          /\ job' = Failed
          /\ UNCHANGED <<memory, longest, calls, faults, misled>>
       \/ /\ LastCopy(job.copy)
          /\ job.last \notin {0, EOF}
          /\ Continue([job EXCEPT !.at = "reread"])
          /\ UNCHANGED memory

\* A link put into the sector at hand.
LinkInHand(last, new) == [job.sector EXCEPT ![last % PerSector] = new]

\* The sector of the last cluster, with a link to the new one.
Linked(last, new) == [Sector(last \div PerSector) EXCEPT ![last % PerSector] = new]

Reread ==
    /\ job.at = "reread"
    /\ Continue([job EXCEPT !.at = "link", !.copy = 1, !.sector = Linked(job.last, job.new)])
    /\ UNCHANGED <<disk, memory>>

Link ==
    /\ job.at = "link"
    /\ PutSector(job.copy, job.last \div PerSector, job.sector)
    /\ UNCHANGED <<slots, info>>
    /\ \/ Refused
       \/ /\ ~LastCopy(job.copy)
          /\ Continue([job EXCEPT !.copy = @ + 1])
          /\ UNCHANGED memory
       \/ /\ LastCopy(job.copy)
          /\ count' = count - 1
          /\ Continue([job EXCEPT !.at = "blank"])
          /\ UNCHANGED fcb

\* The cluster is blanked, even one the directory goes on in, and the next one
\* looked for.
WriteBlank ==
    /\ job.at = "blank"
    /\ slots' = IF job.for = "directory" \/ slots[job.new] # <<>>
                THEN [slots EXCEPT ![job.new] = Blank] ELSE slots
    /\ UNCHANGED <<fat, info, memory>>
    /\ LET head == IF job.head = 0 THEN job.new ELSE job.head IN
       \/ Refused
       \/ /\ job.need = 1
          /\ Continue([job EXCEPT !.at = IF job.for = "file" THEN "info" ELSE "grow", !.head = head])
       \/ /\ job.need > 1
          /\ Continue([job EXCEPT !.at = "scan", !.head = head, !.last = job.new,
                                  !.from = job.new + 1, !.need = @ - 1])

-----------------------------------------------------------------------------
(* write() and extend() *)

InBlocks(bytes) == (bytes + Block - 1) \div Block

Ready == job.at = "idle" /\ ~Astray

\* A call that writes begins with job j.
Call(j) == calls < MaxCalls /\ calls' = calls + 1 /\ job' = j

\* write() of file_system.c up to its first write to the disk.  extend() does
\* not get past a loop that waits for the current block to become EOF.
Write(f, n) ==
    LET open == fcb[f]
        end  == open.offset + n
        need == InBlocks(end) - InBlocks(open.size)
        data == [at |-> "data", file |-> f, for |-> "file", bytes |-> n]
    IN  /\ Ready
        /\ open # Null
        /\ end <= MaxSize
        /\ fcb' = [fcb EXCEPT ![f].size = Max({@, end})]
        /\ \/ /\ end <= open.size \/ end \div Block = open.size \div Block \/ need = 0
              /\ Call(data)
              /\ UNCHANGED <<longest, faults, wasted, misled>>
           \/ /\ end > open.size
              /\ end \div Block # open.size \div Block
              /\ need > 0
              /\ \/ /\ open.current \notin {0, EOF}
                    /\ Call(Hung)
                    /\ UNCHANGED <<longest, faults, wasted, misled>>
                 \/ /\ open.current \in {0, EOF}
                    /\ Call(Allocation(f, "file", open.current, need, n))
                    /\ longest' = Max({longest, need})
                    /\ UNCHANGED <<faults, wasted, misled>>
        /\ UNCHANGED <<disk, count>>

\* write_fsinfo().
WriteInfo ==
    /\ job.at = "info"
    /\ info' = count
    /\ UNCHANGED <<fat, slots, count>>
    /\ \/ Refused
       \/ /\ fcb' = [fcb EXCEPT ![job.file].first = IF @ = 0 THEN job.head ELSE @]
          /\ Continue([job EXCEPT !.at = "attributes"])

\* SET_FILE_ATTRIBUTES stores the halves of the first cluster in each other's
\* place.
Swapped(c) == (c % Half) * Half + c \div Half

Attributes ==
    /\ job.at = "attributes"
    /\ \/ /\ Present(job.file)
          /\ \E at \in Found(job.file) :
                slots' = [slots EXCEPT ![at[1]][at[2]] =
                            Slot(@.kind, job.file, Swapped(fcb[job.file].first), fcb[job.file].size)]
       \/ ~Present(job.file) /\ UNCHANGED slots
    /\ UNCHANGED <<fat, info, memory>>
    /\ (Present(job.file) /\ Refused) \/ Continue([job EXCEPT !.at = "data"])

\* Bytes of a file, in place of an entry of the table.
Text == 1

\* Cluster numbers 0 and 1 are those of the sectors in front of the data, the
\* last two of the last copy of the table.
Overwritten(c) ==
    [e \in Entry |-> IF e \div PerSector = Sectors - 2 + c THEN Text ELSE fat[Copies][e]]

\* The blocks are looked for from the first, which has to be in the table, and
\* written up to the one that is not there or is refused.  Data written over the
\* directory, or over the table from the middle of a chain, are not followed.
Data ==
    LET open == fcb[job.file]
        block == open.offset \div Block
        cluster == Walk(open.first, block)
        blocks == (open.offset + job.bytes) \div Block - block
        there == {i \in 0..blocks : Walk(cluster, i) \in Entry}
        Over(n) == \E i \in 0..n : LET c == Walk(cluster, i) IN
                      c \in Entry /\ (slots[c] # <<>> \/ (i > 0 /\ c \in {0, 1}))
        Stop(i, offset) ==
            fcb' = [fcb EXCEPT ![job.file].offset = offset,
                               ![job.file].current = IF cluster = 0 THEN 0 ELSE Walk(cluster, i)]
    IN  /\ job.at = "data"
        /\ \/ /\ open.first \notin Entry
              /\ Continue(Wild)
              /\ UNCHANGED <<fat, fcb>>
           \/ /\ open.first \in Entry
              /\ cluster = EOF
              /\ Continue(Idle)
              /\ UNCHANGED <<fat, fcb>>
           \/ /\ cluster \in Entry
              /\ fat' \in {fat} \cup (IF cluster \in {0, 1} THEN {[fat EXCEPT ![Copies] = Overwritten(cluster)]} ELSE {})
              /\ \E i \in there :
                    /\ Stop(i, IF i = 0 THEN open.offset ELSE (block + i) * Block)
                    /\ \/ ~Over(i - 1) /\ job' = Idle
                       \/ Over(i) /\ job' = Wild
                    /\ Refuse /\ UNCHANGED misled
           \/ /\ cluster \in Entry
              /\ fat' = IF cluster \in {0, 1} THEN [fat EXCEPT ![Copies] = Overwritten(cluster)] ELSE fat
              /\ Stop(blocks, Min({open.offset + job.bytes, (block + Cardinality(there)) * Block}))
              /\ Continue(IF Over(blocks) THEN Wild ELSE Idle)
        /\ UNCHANGED <<slots, info, count>>

-----------------------------------------------------------------------------
(* create(), open(), unlink() *)

\* What open() makes of the directory entry.
Opened(f) ==
    IF ~Present(f) THEN Null
    ELSE LET at == CHOOSE x \in Found(f) : TRUE
             e == slots[at[1]][at[2]]
         IN  [first |-> e.first, current |-> e.first, size |-> e.size, offset |-> 0]

Open(f) ==
    /\ Ready \/ (job.at = "open" /\ job.file = f)
    /\ fcb' = [fcb EXCEPT ![f] = Opened(f)]
    /\ Continue(Idle)
    /\ UNCHANGED <<disk, count>>

Close(f) ==
    /\ Ready
    /\ fcb[f] # Null
    /\ fcb' = [fcb EXCEPT ![f] = Null]
    /\ Continue(Idle)
    /\ UNCHANGED <<disk, count>>

AddName(f) == [at |-> "slots", file |-> f, for |-> "directory", dir |-> Root, found |-> 0]

\* create() of a file that is there deletes it first.
Create(f) ==
    /\ Ready
    /\ fcb' = [fcb EXCEPT ![f] = Null]
    /\ Call(IF Present(f) THEN [at |-> "delete", file |-> f, then |-> "create"] ELSE AddName(f))
    /\ UNCHANGED <<disk, count, longest, faults, wasted, misled>>

\* unlink() ends with the directory: it takes the 0 of a write that succeeded
\* for the first cluster of an empty file.
Unlink(f) ==
    /\ Ready
    /\ fcb[f] = Null
    /\ Present(f)
    /\ Call([at |-> "delete", file |-> f, then |-> "unlink"])
    /\ UNCHANGED <<disk, memory, longest, faults, wasted, misled>>

\* What follows when the old file is gone: unlink() returns, or create() goes on.
Deleted(j) == IF j.then = "create" THEN AddName(j.file) ELSE Idle

\* A DELETE_FILE that begins at the first entry of the cluster.
FromTheTop(c, i) == 1

\* Where DELETE_FILE begins: at the last long name before the short entry in
\* slot i, whosever it is, or at the first entry.
DeleteFrom(c, i) ==
    Max({1} \cup {j \in 1..(i - 1) : /\ slots[c][j].kind = "long"
                                     /\ j = 1 \/ slots[c][j - 1].kind # "long"})

\* It deletes to the first entry that is not a piece of a long name.  (A name
\* this code wrote lies in one cluster.)
Delete ==
    /\ job.at = "delete"
    /\ \E at \in Found(job.file) :
          LET c == at[1]
              from == DeleteFrom(c, at[2])
              to == Min({j \in (from + 1)..Slots : ~IsLong(slots[c][j])})
          IN  slots' = [slots EXCEPT ![c] = [i \in 1..Slots |->
                            IF i \in from..to THEN Freed(@[i]) ELSE @[i]]]
    /\ UNCHANGED <<fat, info>>
    /\ \/ Refused
       \/ Continue(Deleted(job)) /\ UNCHANGED memory

\* The sector of the entry is to be written with these entries in it, and next
\* is what the entry said.
Clearing(next, entries, cleared) ==
    [at |-> "zero", file |-> job.file, for |-> "unlink", then |-> job.then,
     cluster |-> job.cluster, cleared |-> cleared, next |-> next, copy |-> 1, sector |-> entries]

\* The sector is read into a buffer of words, and the entry looked for at its
\* place in bytes: that is another entry, or a word behind the sector, which
\* holds anything until it has been cleared.  Past the table are other sectors.
Unchain ==
    LET c == job.cluster
        word == (Width * c) % (Width * PerSector)
        sector == Sector(c \div PerSector)
    IN  /\ job.at = "unchain"
        /\ \/ /\ c \notin Entry
              /\ Continue(Wild)
           \/ /\ c \in Entry
              /\ word < PerSector
              /\ Continue(Clearing(sector[word], [sector EXCEPT ![word] = 0], job.cleared))
           \/ /\ c \in Entry
              /\ word >= PerSector
              /\ \E next \in IF word \in job.cleared THEN {0} ELSE 0..EOF :
                    Continue(Clearing(next, sector, job.cleared \cup {word}))
        /\ UNCHANGED <<disk, memory>>

\* The sector is written to every copy.  The chain ends with EOC; cluster 0 after
\* cluster 0 never ends.
Zero ==
    /\ job.at = "zero"
    /\ PutSector(job.copy, job.cluster \div PerSector, job.sector)
    /\ UNCHANGED <<slots, info>>
    /\ \/ Refused
       \/ /\ ~LastCopy(job.copy)
          /\ Continue([job EXCEPT !.copy = @ + 1])
          /\ UNCHANGED memory
       \/ /\ LastCopy(job.copy)
          /\ count' = count + 1
          /\ Continue(IF job.next = EOF THEN [job EXCEPT !.at = "count"]
                      ELSE IF job.next = 0 /\ job.cluster = 0 THEN Hung
                      ELSE [job EXCEPT !.at = "unchain", !.cluster = job.next])
          /\ UNCHANGED fcb

\* write_fsinfo() at the end of unlink().
WriteCount ==
    /\ job.at = "count"
    /\ info' = count
    /\ UNCHANGED <<fat, slots>>
    /\ Refused \/ Continue(Deleted(job))
    /\ UNCHANGED memory

\* Directory cluster c with the new name from slot i on, and the end of the
\* list behind it if it was there.
Place(c, i, f, atEnd) ==
    slots' = [slots EXCEPT ![c] = [j \in 1..Slots |->
                 IF j \in i..(i + Parts - 1) THEN Named(f)[j - i + 1]
                 ELSE IF atEnd /\ j = i + Parts THEN EndOfList ELSE @[j]]]

\* Entries i to j of c are free, and before the end of the list.
AllFree(c, i, j) == j < End(c) /\ \A k \in i..j : IsFree(slots[c][k])

\* add_to_directory() in one cluster: the name goes where there are entries
\* enough together, else to the end of the list if it fits.  One that would
\* begin in the cluster before is written beyond the buffer.
AddToDirectory ==
    LET c == job.dir
        lost == slots[c] # <<>> => job.found > 0 /\ AllFree(c, 1, Parts - job.found)
        fitting == {i \in 1..(Slots - Parts + 1) : AllFree(c, i, i + Parts - 1)}
        atEnd == End(c) + Parts < Slots
        trailing == Max({0} \cup {n \in 1..(End(c) - 1) : AllFree(c, End(c) - n, End(c) - 1)})
        found == IF trailing = End(c) - 1 THEN job.found + trailing ELSE trailing
        onward == IF NextAfter(c) = EOF THEN Allocation(job.file, "directory", c, 1, 0)
                  ELSE [job EXCEPT !.dir = NextAfter(c), !.found = found]
        placed == [at |-> "open", file |-> job.file, for |-> "directory"]
    IN  /\ job.at = "slots"
        /\ \/ /\ lost
              /\ Continue(Wild)
              /\ UNCHANGED <<slots, memory>>
           \/ /\ ~lost
              /\ fitting # {}
              /\ Place(c, Min(fitting), job.file, FALSE)
              /\ Refused \/ (Continue(placed) /\ UNCHANGED memory)
           \/ /\ ~lost
              /\ fitting = {}
              /\ atEnd
              /\ Place(c, End(c), job.file, TRUE)
              /\ Refused \/ (Continue(placed) /\ UNCHANGED memory)
           \/ /\ ~lost
              /\ fitting = {}
              /\ ~atEnd
              /\ slots' = IF End(c) > Slots THEN slots
                          ELSE [slots EXCEPT ![c][End(c)] = Slot("free", Null, 0, 0)]
              /\ \/ Refused /\ End(c) <= Slots
                 \/ Continue(onward) /\ UNCHANGED memory
        /\ UNCHANGED <<fat, info>>

\* The new last cluster of the directory gets the name, and behind it what the
\* buffer held of the cluster before.
Grow ==
    /\ job.at = "grow"
    /\ slots' = [slots EXCEPT ![job.new] = [j \in 1..Slots |->
                    IF j <= Parts THEN Named(job.file)[j]
                    ELSE IF j = Parts + 1 THEN EndOfList ELSE slots[job.last][j]]]
    /\ UNCHANGED <<fat, info>>
    /\ Refused \/ (Continue([at |-> "open", file |-> job.file, for |-> "directory"]) /\ UNCHANGED memory)

-----------------------------------------------------------------------------

\* The power fails, and the volume is mounted again.  (What a call that has gone
\* wild leaves on the disk is not modelled.)
PowerFails ==
    /\ job.at # "wild"
    /\ faults < MaxFaults
    /\ faults' = faults + 1
    /\ job' = Idle
    /\ count' = info
    /\ fcb' = [f \in File |-> Null]
    /\ UNCHANGED <<disk, longest, calls, wasted, misled>>

\* A formatted volume, with nothing on it or with the old file.
Init ==
    \E there \in BOOLEAN :
        LET used == {0, 1, Root} \cup (IF there THEN {OldAt} ELSE {})
            table == [c \in Entry |-> IF c \in used THEN EOF ELSE 0]
        IN  /\ fat = [k \in 1..Copies |-> table]
            /\ slots = [c \in Entry |-> IF c # Root THEN <<>>
                           ELSE IF there THEN [Blank EXCEPT ![1] = Slot("short", Old, OldAt, Block)]
                           ELSE Blank]
            /\ info = Cardinality(Entry \ used)
            /\ count = info
            /\ fcb = [f \in File |-> Null]
            /\ job = Idle
            /\ longest = 0 /\ calls = 0 /\ faults = 0 /\ wasted = FALSE /\ misled = FALSE

Next ==
    \/ \E f \in File :
          \/ Create(f) \/ Open(f) \/ Close(f) \/ Unlink(f)
          \/ \E n \in Lengths : Write(f, n)
    \/ Scan \/ Mark \/ Reread \/ Link \/ WriteBlank
    \/ WriteInfo \/ Attributes \/ Data
    \/ Delete \/ Unchain \/ Zero \/ WriteCount \/ AddToDirectory \/ Grow
    \/ NotWritten \/ PowerFails

Spec == Init /\ [][Next]_vars

-----------------------------------------------------------------------------
(* Properties *)

\* In every copy of the table, at any moment -- between two writes, after one
\* that was refused, after the power failed -- a cluster follows one other at
\* most, and none that is in use is followed by one that is free.  (In the last
\* copy bytes of files may be in between.)  A call that asks for four clusters
\* at once breaks this on a volume that is nearly full: a link to a cluster of
\* an earlier sector leaves that sector in the buffer, and the scan goes on in
\* it and writes it over the later one.  And so does a refused write of
\* DELETE_FILE, whose error number unlink() takes for the file's first cluster:
\* it frees what it comes to from there, whoever's it is.
ChainsSound ==
    longest <= 3 /\ ~misled =>
        \A k \in 1..Copies :
            LET links == {c \in Cluster : fat[k][c] \in Cluster} IN
            /\ \A c \in links : fat[k][fat[k][c]] # 0
            /\ IsInjective([c \in links |-> fat[k][c]])

\* Between calls, when nothing was refused, the copies are the same and
\* free_cluster_count is right -- but for the bytes that files without clusters
\* leave in the last copy, and the cluster that extending a file at its end
\* takes.
Settled ==
    job.at = "idle" /\ faults = 0 /\ longest <= 3 =>
        /\ \A k \in 1..Copies : \A c \in Entry : fat[k][c] \in {fat[1][c], Text}
        /\ ~wasted => count = Cardinality({c \in Entry : fat[1][c] = 0})

\* Whatever is created, extended, refused or cut off, a file leaves the
\* directory only when it is deleted -- or when one without a long name is: then
\* DELETE_FILE begins at the wrong entry, and takes others with it.  (Once unlink()
\* has been refused a write, it may have freed the clusters of the directory.)
FilesStay ==
    [][\A f \in File :
          longest <= 3 /\ ~misled /\ Present(f) /\ ~Present(f)' =>
              /\ job.at = "delete"
              /\ \/ job.file = f
                 \/ \E at \in Found(job.file) : slots[at[1]][at[2]].kind = "short"]_vars

=============================================================================
