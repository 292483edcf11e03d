------------------------------ MODULE DiskServer ------------------------------
(***************************************************************************)
(* The disk server (server_disk.c) and the file library (client_file.c) of *)
(* the threads that load programs (exec() and elf_load()).  They talk over *)
(* the calls of Rendezvous, which Pipes implements: a library call is one  *)
(* pipe_send() and waits for one pipe_reply().                             *)
(*                                                                         *)
(* A loader makes a pipe of its own that it never uses, and fopen() makes  *)
(* another, kept in ATOSE_file_pipe, a global of the kernel that all the   *)
(* loaders share.  Nothing closes either.  Then a loader reads once, seeks *)
(* and reads by turns, and closes; the next program takes its place.       *)
(*                                                                         *)
(* Every access to a file is the server's, a single thread, so what it     *)
(* does between two system calls is one step with the call that follows.   *)
(* As in Pipes, wild = TRUE ends the model where the kernel follows NULL.  *)
(***************************************************************************)
EXTENDS FileSystem, Integers

CONSTANTS Client,      \* the threads that run exec()
          Server,
          Pipes,       \* how many pipes the pool has
          Chunk,       \* sizeof(buffer) of serve()
          Offsets,     \* where loaders seek to ..
          Lengths      \* .. and how much they read, up to MaxLength

MaxLength == CHOOSE n \in Lengths : \A m \in Lengths : m <= n

ASSUME ServerAssumption ==
    /\ Server \notin Client /\ "event" \notin Client
    /\ Pipes \in Nat /\ Chunk \in Nat \ {0}
    /\ Offsets \subseteq Nat /\ Lengths \subseteq Nat
    /\ \E n \in Lengths : \A m \in Lengths : m <= n

VARIABLES
    calls, serving,  \* of Rendezvous
    freePipes,       \* how many pipes are left
    bound,           \* the server's pipe is in pipelist
    joined,          \* ATOSE_file_pipe has an other end
    at,              \* at[c], what loader c does next, or has just been answered
    request,         \* request[c], the message of c's latest call
    offset,          \* offset[c], file_offset of the file c has open
    got,             \* got[c], what c's latest call has written to its destination
    server,          \* the locals of serve()
    wild

\* The calls of Rendezvous; nobody posts events at this pipe.
Line == INSTANCE Rendezvous WITH
    Process <- Client \cup {Server}, Pipe <- {Server}, Event <- "event"

loaderVars == <<at, request>>
fileVars   == <<offset, got>>
lineVars   == <<calls, serving>>
vars == <<lineVars, freePipes, bound, joined, loaderVars, fileVars, server, wild>>

\* What a buffer holds before anything is written to it.
Junk == -1
Nothing(n) == [i \in 1 .. n |-> Junk]

\* Where a loader means to read: where it has just sought, or where the file is.
\* The program keeps no such thing in its messages, the properties do.
Start(c) == CASE request[c].command = "open" -> 0
              [] request[c].command = "seek" -> request[c].location
              [] OTHER -> offset[c]

Message(command, location, length, c) ==
    [command |-> command, location |-> location, bytes |-> length,
     start |-> IF command = "read" THEN Start(c) ELSE 0]

Init ==
    /\ Line!Init
    /\ freePipes = Pipes /\ bound = FALSE /\ joined = FALSE /\ wild = FALSE
    /\ at = [c \in Client |-> "exec"]
    /\ request = [c \in Client |-> [command |-> "close", location |-> 0, bytes |-> 0, start |-> 0]]
    /\ offset = [c \in Client |-> 0]
    /\ got = [c \in Client |-> Nothing(MaxLength)]
    /\ server = [at |-> "create", client |-> Server, bytes |-> 0, done |-> 0,
                 buffer |-> Nothing(Chunk)]

-----------------------------------------------------------------------------
(* Loaders *)

GoWild ==
    /\ wild' = TRUE
    /\ UNCHANGED <<lineVars, freePipes, bound, joined, loaderVars, fileVars, server>>

\* A slip for the properties to catch: a connect() that joins nothing.
JoinNothing == joined

\* What pipe_connect() does for ATOSE_file_pipe.
JoinShared == TRUE

\* pipe_create(), when the pool has a pipe.
TakePipe == freePipes > 0 /\ freePipes' = freePipes - 1
PoolDry  == freePipes = 0 /\ GoWild

Go(c, from, to) == at[c] = from /\ at' = [at EXCEPT ![c] = to]

\* exec(): a pipe, then pipe_connect() in a loop until the port is bound.
ExecCreate(c) ==
    \/ at[c] = "exec" /\ PoolDry
    \/ /\ Go(c, "exec", "connect") /\ TakePipe
       /\ UNCHANGED <<lineVars, bound, joined, request, fileVars, server, wild>>

ExecConnect(c) ==
    /\ Go(c, "connect", "fopen") /\ bound
    /\ UNCHANGED <<lineVars, freePipes, bound, joined, request, fileVars, server, wild>>

\* ATOSE_fopen: initialised is never set, so each call makes ATOSE_file_pipe
\* anew, a pipe without an other end until it is connected.
FinitialiseCreate(c) ==
    \/ at[c] = "fopen" /\ PoolDry
    \/ /\ Go(c, "fopen", "fconnect") /\ TakePipe
       /\ joined' = FALSE
       /\ UNCHANGED <<lineVars, bound, request, fileVars, server, wild>>

FinitialiseConnect(c) ==
    /\ Go(c, "fconnect", "joined") /\ bound
    /\ joined' = JoinShared
    /\ UNCHANGED <<lineVars, freePipes, bound, request, fileVars, server, wild>>

\* pipe_send() on ATOSE_file_pipe, whoever made it.
Send(c, message) ==
    \/ ~joined /\ GoWild
    \/ /\ joined /\ Line!Call(c, Server)
       /\ at' = [at EXCEPT ![c] = "called"]
       /\ request' = [request EXCEPT ![c] = message]
       /\ got' = [got EXCEPT ![c] = Nothing(MaxLength)]
       /\ UNCHANGED <<freePipes, bound, joined, offset, server, wild>>

Fopen(c)  == at[c] = "joined" /\ \E command \in {"open", "missing"} : Send(c, Message(command, 0, 0, c))
Fread(c)  == at[c] \in {"opened", "sought"} /\ \E n \in Lengths : Send(c, Message("read", 0, n, c))
Fclose(c) == at[c] = "loaded" /\ Send(c, Message("close", 0, 0, c))

\* From the start of the file, or (no loader does) from where it is.
Fseek(c) ==
    /\ at[c] = "loaded"
    /\ \E o \in Offsets :
          \/ Send(c, Message("seek", o, 0, c))
          \/ offset[c] + o <= FileSize /\ Send(c, Message("skip", o, 0, c))

-----------------------------------------------------------------------------
(* The server *)

ServerCreate ==
    \/ server.at = "create" /\ PoolDry
    \/ /\ server.at = "create" /\ TakePipe
       /\ server' = [server EXCEPT !.at = "bind"]
       /\ UNCHANGED <<lineVars, bound, joined, loaderVars, fileVars, wild>>

ServerBind ==
    /\ server.at = "bind"
    /\ server' = [server EXCEPT !.at = "receive"]
    /\ bound' = TRUE
    /\ UNCHANGED <<lineVars, freePipes, joined, loaderVars, fileVars, wild>>

\* Slips for the properties to catch: a seek() that always goes on from where
\* the file is, a CLOSE without a pipe_reply(), and a copy that forgets how much
\* went before.
Relative(c)      == offset[c] + request[c].location
NoReply(command) == CASE command = "read" -> "read"
                      [] command = "close" -> "receive"
                      [] OTHER -> "reply"
FromTheStart     == 0

\* How serve() goes on: READ has system calls to make before it replies.
GoesOn(command) == IF command = "read" THEN "read" ELSE "reply"

\* Where a command leaves the file that it is about.
Sought(c) == CASE request[c].command = "open" -> 0
               [] request[c].command = "seek" -> request[c].location
               [] request[c].command = "skip" -> offset[c] + request[c].location
               [] OTHER -> offset[c]

\* pipe_receive(), and the command up to its next system call.
Receive ==
    /\ server.at = "receive" /\ Line!Take(Server, Server)
    /\ LET c == Head(calls[Server]) IN
          /\ offset' = [offset EXCEPT ![c] = Sought(c)]
          /\ server' = [at |-> GoesOn(request[c].command),
                        client |-> c, bytes |-> request[c].bytes, done |-> 0,
                        buffer |-> Nothing(Chunk)]
    /\ UNCHANGED <<freePipes, bound, joined, loaderVars, got, wild>>

\* What read() of m bytes leaves in the buffer, stale where it falls short.
Filled(data) == [i \in 1 .. Chunk |-> IF i <= Len(data) THEN data[i] ELSE server.buffer[i]]

Destination == server.done
MoreToCome  == server.bytes > Chunk

\* pipe_memcpy() of m bytes to the destination of client c.
CopyOut(c, m, buffer) ==
    [i \in 1 .. MaxLength |-> IF i \in Destination + 1 .. Destination + m
                              THEN buffer[i - Destination] ELSE got[c][i]]

\* fcb->read() of m bytes and the pipe_memcpy() after it; how many bytes
\* read() has copied is not looked at.
ReadAndCopy(m) ==
    LET c == server.client  part == Read(offset[c], m) IN
    /\ offset' = [offset EXCEPT ![c] = part.offset]
    /\ got' = [got EXCEPT ![c] = CopyOut(c, m, Filled(part.data))]
    /\ server' = [server EXCEPT !.buffer = Filled(part.data), !.done = @ + m,
                                !.bytes = IF MoreToCome THEN @ - m ELSE @,
                                !.at = IF MoreToCome THEN @ ELSE "reply"]

ReadChunk ==
    /\ server.at = "read" /\ MoreToCome /\ ReadAndCopy(Chunk)
    /\ UNCHANGED <<lineVars, freePipes, bound, joined, loaderVars, wild>>

\* Nothing is read when nothing is asked for.
ReadLast ==
    /\ server.at = "read" /\ ~MoreToCome
    /\ IF server.bytes > 0 THEN ReadAndCopy(server.bytes)
       ELSE server' = [server EXCEPT !.at = "reply"] /\ UNCHANGED fileVars
    /\ UNCHANGED <<lineVars, freePipes, bound, joined, loaderVars, wild>>

\* What a loader is ready for when its call is answered.
Answered(c) == CASE request[c].command = "open" -> "opened"
                 [] request[c].command = "read" -> "loaded"
                 [] request[c].command = "seek" \/ request[c].command = "skip" -> "sought"
                 [] OTHER -> "exec"

Reply ==
    /\ server.at = "reply" /\ Line!Answer(Server, server.client)
    /\ at' = [at EXCEPT ![server.client] = Answered(server.client)]
    /\ server' = [server EXCEPT !.at = "receive", !.client = Server, !.bytes = 0, !.done = 0,
                                !.buffer = Nothing(Chunk)]
    /\ UNCHANGED <<freePipes, bound, joined, request, fileVars, wild>>

-----------------------------------------------------------------------------

Serve == ServerCreate \/ ServerBind \/ Receive \/ ReadChunk \/ ReadLast \/ Reply

Load(c) ==
    \/ ExecCreate(c) \/ ExecConnect(c) \/ FinitialiseCreate(c) \/ FinitialiseConnect(c)
    \/ Fopen(c) \/ Fread(c) \/ Fseek(c) \/ Fclose(c)

Next == ~wild /\ (Serve \/ \E c \in Client : Load(c))

Spec == Init /\ [][Next]_vars

\* The server runs whenever it is ready: the kernel's EventuallyRuns, while no
\* program asks for a key and the port stays connected.
FairSpec == Spec /\ WF_vars(~wild /\ Serve)

-----------------------------------------------------------------------------
(* Properties *)

\* Loader c has been answered its fread(), of so many bytes at start.
HasRead(c) == at[c] = "loaded"

\* The reads a fread() is made of, and those of them that end in a last part,
\* after which file_offset is wrong (see Counted).
Parts(c) == {k \in 0 .. MaxLength : k * Chunk < request[c].bytes}
Split(c, k) ==
    LET o == request[c].start + k * Chunk IN
    LastPart(o, Within(o, Lesser(Chunk, request[c].bytes - k * Chunk))) # 0

Delivered(c) ==
    LET wanted == Expected(request[c].start, request[c].bytes) IN
    \A i \in 1 .. MaxLength :
       /\ i <= Len(wanted) => got[c][i] = wanted[i]
       /\ i > request[c].bytes => got[c][i] = Junk

\* A fread() puts the bytes of the file at which it was called, in order and up
\* to the end of the file, into the caller's buffer and writes nothing past
\* what was asked for: as long as no read but the last ends in a last part.
ReadDelivers ==
    \A c \in Client :
       HasRead(c) /\ (\A k \in Parts(c) : k + 1 \in Parts(c) => ~Split(c, k)) => Delivered(c)

\* A fread() leaves the file where its bytes end, and no other loader's calls
\* move it: as long as no read ends in a last part.
PositionKept ==
    \A c \in Client :
       HasRead(c) /\ (\A k \in Parts(c) : ~Split(c, k)) =>
          offset[c] = request[c].start + Within(request[c].start, request[c].bytes)

\* The kernel follows NULL only when the pool of pipes has run dry, or while a
\* loader is between making the shared pipe and connecting it.
WildOnly ==
    wild => freePipes = 0 \/ \E c \in Client : at[c] = "fconnect"

\* Every call of a loader is answered: no message is left in line or in hand.
CallsAnswered ==
    \A c \in Client : at[c] = "called" ~> at[c] # "called" \/ wild

\* "file_offset: current offset within the file" (file_control_block.h): what
\* is read from there by one fread() within the file is what the file has there.
SegmentsLoaded ==
    \A c \in Client :
       HasRead(c) /\ request[c].start + request[c].bytes <= FileSize => Delivered(c)

=============================================================================
