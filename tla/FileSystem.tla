------------------------------ MODULE FileSystem ------------------------------
(***************************************************************************)
(* Reading a file through a file control block (file_system.c).  The bytes *)
(* of the file are named by their positions, 0 .. FileSize - 1, and block  *)
(* b of the file holds positions b * BlockSize and up.                     *)
(***************************************************************************)
EXTENDS Naturals, Sequences

CONSTANTS BlockSize,   \* fcb->block_size_in_bytes, a cluster of the volume
          FileSize     \* fcb->file_size_in_bytes

ASSUME FileAssumption == BlockSize \in Nat \ {0} /\ FileSize \in Nat

\* A memcpy() of n bytes from those the buffer holds, which are the positions
\* from the start of block b, skipping the first few.
Bytes(b, skip, n) == [i \in 1 .. n |-> b * BlockSize + skip + i - 1]

Lesser(m, n) == IF m < n THEN m ELSE n

\* A slip for the properties to catch: a first part that is not counted into
\* file_offset.
NotTheFirst(o, n) == n - Lesser(n, BlockSize - (o % BlockSize))

\* How far read() may go from offset o: to the end of the file.
Within(o, wanted) == IF o >= FileSize THEN 0 ELSE Lesser(wanted, FileSize - o)

\* The parts of a read: out of the block o is in, of whole blocks, and out of
\* the block after those.
FirstPart(o, n)   == Lesser(n, BlockSize - (o % BlockSize))
WholeBlocks(o, n) == (n - FirstPart(o, n)) \div BlockSize
LastPart(o, n)    == (n - FirstPart(o, n)) % BlockSize

\* The last part is the only one counted into file_offset a second time: it is
\* bytes_read, all that was copied, that is added with it.
Counted(o, n) == IF LastPart(o, n) = 0 THEN n ELSE n - LastPart(o, n) + n

\* ATOSE_file_system::read at offset o: what it copies into the caller's
\* buffer, and file_offset as it leaves it.
Read(o, wanted) ==
    LET n == Within(o, wanted)
        b == o \div BlockSize
        w == WholeBlocks(o, n)
    IN [data   |-> Bytes(b, o % BlockSize, FirstPart(o, n))
                   \o Bytes(b + 1, 0, w * BlockSize)
                   \o Bytes(b + 1 + w, 0, LastPart(o, n)),
        offset |-> o + Counted(o, n)]

\* What a read of that many bytes should deliver.
Expected(o, wanted) ==
    [i \in 1 .. Within(o, wanted) |-> o + i - 1]

=============================================================================
