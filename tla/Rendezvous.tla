----------------------------- MODULE Rendezvous -----------------------------
(***************************************************************************)
(* What pipes promise a program: a call by pipe_send() waits in line at    *)
(* the server's end, is received once, by one server, in the order the     *)
(* calls were made, and is answered once; only then may the caller call    *)
(* again.  An event by pipe_post_event() stands in the same line, and is   *)
(* received but not answered.  Abstract specification; Pipes.tla           *)
(* implements it.                                                          *)
(***************************************************************************)
EXTENDS Sequences, Functions

CONSTANTS Process, Pipe,
          Event      \* stands in line for an event, which nobody waits by

VARIABLES calls,     \* calls[q], who waits in line at q, first come first
          serving    \* serving[s], whose calls s has received, not answered

InLine  == (UNION {Range(calls[q]) : q \in Pipe}) \ {Event}
Engaged == InLine \cup UNION {serving[s] : s \in Process}

Call(c, q) ==
    /\ c \notin Engaged
    /\ calls' = [calls EXCEPT ![q] = Append(@, c)]
    /\ UNCHANGED serving

\* The server was waiting already: the call does not stand in line.
CallTaken(c, q, s) ==
    /\ c \notin Engaged \cup {s}
    /\ calls[q] = <<>>
    /\ serving' = [serving EXCEPT ![s] = @ \cup {c}]
    /\ UNCHANGED calls

\* An event that finds the server waiting leaves no trace here.
Post(q) ==
    /\ calls' = [calls EXCEPT ![q] = Append(@, Event)]
    /\ UNCHANGED serving

Take(s, q) ==
    /\ s \notin Engaged
    /\ calls[q] # <<>>
    /\ serving' = [serving EXCEPT ![s] = @ \cup ({Head(calls[q])} \ {Event})]
    /\ calls' = [calls EXCEPT ![q] = Tail(@)]

Answer(s, c) ==
    /\ s \notin Engaged
    /\ c \in serving[s]
    /\ serving' = [serving EXCEPT ![s] = @ \ {c}]
    /\ UNCHANGED calls

Init ==
    /\ calls = [q \in Pipe |-> <<>>]
    /\ serving = [s \in Process |-> {}]

Next ==
    \/ \E q \in Pipe : Post(q)
    \/ \E c \in Process, q \in Pipe :
          \/ Call(c, q)
          \/ Take(c, q)
          \/ \E s \in Process : CallTaken(c, q, s)
    \/ \E s, c \in Process : Answer(s, c)

Spec == Init /\ [][Next]_<<calls, serving>>

=============================================================================
