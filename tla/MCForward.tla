------------------------------ MODULE MCForward ------------------------------
(* CspForward for TLC, with the real widths of version 2.                     *)
EXTENDS CspForward

CONSTANTS lo, a, b, u

\* b's subnet is within a's; u has no netmask, as an interface that
\* csp_usart_open_and_add_kiss_interface has just set up, and b's name.
AddrOf == [i \in Ifaces |-> CASE i = lo -> 0 [] i = a -> 257 [] i = b -> 261 [] i = u -> 513]
MaskOf == [i \in Ifaces |-> CASE i = lo -> 14 [] i = a -> 6 [] i = b -> 12 [] i = u -> 0]
NameOf == [i \in Ifaces |-> IF i = u THEN b ELSE i]

\* Hosts of a, of b (and a), b's broadcast, of nobody; the global broadcast.
NodeSet == {0, 257, 258, 261, 262, 263, 513, 514, 4096, 5000, 16383}

R(addr, mask, iface, via) == [addr |-> addr, mask |-> mask, iface |-> iface, via |-> via]

\* Two routes of one length over two interfaces, one of them with two next hops; a
\* longer one inside them, whose netmask is given out of range; and one for all:
\* one more than the table holds.  A CMP request that names b or u gets the listed one.
RouteSet == {R(4096, 2, a, 258), R(4096, 2, u, NoVia), R(5000, -1, b, 258)}
CmpSet == {R(0, 0, a, 262), R(4096, 2, u, 514)}

SendSet == [src : {0}, dst : {0, 263, 5000}] \cup {[src |-> 257, dst |-> 5000]}
Read(dst, iface) == [id |-> [src |-> 514, dst |-> dst], iface |-> iface]
ReceiveSet == {Read(258, b), Read(5000, a), Read(5000, b)}

FlaggedSet == {{u}}

------------------------------------------------------------------------------
\* A router between a and u, whose default interface is a.
PlainFlagged == {{a}}
PlainReceives == {Read(258, u), Read(5000, u)}
==============================================================================
