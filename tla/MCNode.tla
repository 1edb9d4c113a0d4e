-------------------------------- MODULE MCNode --------------------------------
(* CspNode for TLC: small nodes, and the traffic they are given.              *)
EXTENDS CspNode, TLC

CONSTANTS me, p1, d1, s1

H(src, sport, dport, mark) == [src |-> src, sport |-> sport, dport |-> dport, mark |-> mark]

\* With MaxBind = 1 and two connections the ports are 0 (CMP), 1, and 2 and 3
\* for outgoing connections.  A server sees one peer's packets from two ports,
\* with and without CRC, and one that is nobody's.
ServerWire == {H(p1, 2, 1, "plain"), H(p1, 3, 1, "crc")}
ServerBindings == {<<s1, 1>>}

\* A client with CRC gets an answer with it and one without; the node forwards.
ClientConnects == {[dst |-> p1, dport |-> 1, crc |-> TRUE]}
ClientWire == {H(p1, 1, 2, "crc"), H(p1, 1, 2, "plain"), H(p1, 1, 1, "away")}

\* Every packet a server or that client is sent, for one loop of calls.
MixedWire == ServerWire \cup ClientWire

\* A node that talks to itself: a client of its own connection-less socket, which
\* wants a CRC and takes every port but 0, and a callback on port 0; a peer writes
\* to the callback.
LoopConnects == {[dst |-> me, dport |-> 1, crc |-> TRUE]}
LoopBindings == {<<d1, 2>>}
LoopWire == {H(p1, 1, 0, "crc")}
Grams == {H(me, 1, 0, "crc")}

\* Buffers and applications are interchangeable (safety runs only).
Symmetry == Permutations(Buffers) \cup Permutations(Apps)
==============================================================================
