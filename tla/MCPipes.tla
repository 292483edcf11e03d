------------------------------ MODULE MCPipes ------------------------------
(* Programs for the pipes: which ports each listens at and talks to. *)
EXTENDS Pipes

CONSTANTS idle, server, client, other, p1, p2

ServerFirst == <<server, client, other>>
OneServer   == [p \in Process |-> IF p = server THEN {p1} ELSE {}]
AllClients  == [p \in Process |-> IF p \in {client, other} THEN {p1} ELSE {}]

\* server and other listen and talk to each other, and client talks to server:
\* pipes whose other end has an other end, so that close() has somewhere to go.
TwoServers == [p \in Process |-> IF p = server THEN {p1} ELSE IF p = other THEN {p2} ELSE {}]
TwoPeers   == [p \in Process |-> IF p = server THEN {p2} ELSE IF p = idle THEN {} ELSE {p1}]

=============================================================================
