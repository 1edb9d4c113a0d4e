-------------------------------- MODULE CspId --------------------------------
(* Identifiers and addresses: csp_id.c and csp_iflist_is_within_subnet.  A    *)
(* field is the set of its bits, so that shifts, | and & of the code are sets *)
(* moved, joined and intersected; an address is a number.                     *)
EXTENDS Integers

CONSTANT Version            \* csp_conf.version, after csp_init: 1 or 2

ASSUME VersionAssumption == Version \in {1, 2}

Fields == {"pri", "dst", "src", "dport", "sport", "flags"}

HostBits == IF Version = 2 THEN 14 ELSE 5

HeaderSize == IF Version = 2 THEN 6 ELSE 4

MaxNodeId == 2^HostBits - 1

Size == [f \in Fields |-> CASE f = "pri"              -> 2
                            [] f \in {"dst", "src"}   -> HostBits
                            [] f \in {"dport", "sport"} -> 6
                            [] OTHER                  -> IF Version = 2 THEN 6 ELSE 8]

Offset1 == [pri |-> 30, src |-> 25, dst |-> 20, dport |-> 14, sport |-> 8, flags |-> 0]
Offset2 == [pri |-> 46, dst |-> 32, src |-> 18, dport |-> 12, sport |-> 6, flags |-> 0]
Offset == IF Version = 2 THEN Offset2 ELSE Offset1

\* Mutant: version 2 with the offsets of version 1's order of the two addresses.
OffsetSwapped == IF Version = 2 THEN [Offset2 EXCEPT !.dst = 18, !.src = 32] ELSE Offset1

------------------------------------------------------------------------------
(* The header.  The fields are not masked on the way out: one wider than its  *)
(* place reaches into the next, and above the header's bits it is lost.       *)

\* Mutant: the identifier is packed in the order in which version 1 and 2 differ.
PackedSwapped(id) == {b \in 0 .. 8 * HeaderSize - 1 :
                         \E f \in Fields : \E k \in id[f] : b = OffsetSwapped[f] + k}

Packed(id) == {b \in 0 .. 8 * HeaderSize - 1 :
                  \E f \in Fields : \E k \in id[f] : b = Offset[f] + k}

\* Big endian: the first byte has the most significant bits.
Prepend(id) == LET word == Packed(id)
               IN  [n \in 1 .. HeaderSize |->
                       {b \in 0 .. 7 : 8 * (HeaderSize - n) + b \in word}]

Unpacked(bytes) == {b \in 0 .. 8 * HeaderSize - 1 :
                       b % 8 \in bytes[HeaderSize - (b \div 8)]}

Strip(bytes) == LET word == Unpacked(bytes)
                IN  [f \in Fields |-> {k \in 0 .. Size[f] - 1 : Offset[f] + k \in word}]

------------------------------------------------------------------------------
(* Numbers and their bits, addresses and their networks.                      *)

Bits(n, width) == {k \in 0 .. width - 1 : (n \div 2^k) % 2 = 1}

\* addr without its host part of mask "mask", as csp_iflist_is_within_subnet
\* computes it: bits above the host bits do not count.
Network(addr, mask) == (addr % 2^HostBits) \div 2^(HostBits - mask)

\* The same in csp_rtable_find_route, where they do.
RouteNetwork(addr, mask) == addr \div 2^(HostBits - mask)

\* csp_id_is_broadcast for an interface with this address and mask.
IsBroadcast(addr, ifaddr, mask) ==
    \/ /\ addr % 2^(HostBits - mask) = 2^(HostBits - mask) - 1
       /\ Network(addr, mask) = Network(ifaddr, mask)
    \/ addr = MaxNodeId
==============================================================================
