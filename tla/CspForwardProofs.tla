---------------------------- MODULE CspForwardProofs ----------------------------
(***************************************************************************)
(* Routing for every set of interfaces, of routes and of packets, and for   *)
(* both versions of the header: the addresses a copy is sent with reach     *)
(* the peer, and csp_send_direct sends a packet where CspRoute says.        *)
(***************************************************************************)
EXTENDS CspForward, SequenceTheorems, WellFoundedInduction, TLAPS

------------------------------------------------------------------------------
(* The header.                                                               *)

\* A node number has no bit beyond its field.
LEMMA NoHighBit ==
  ASSUME NEW n \in Nat, NEW k, NEW m \in Nat, 2^k = m, n < m
  PROVE  (n \div 2^k) % 2 # 1
<1>1. n \div m = 0
  OBVIOUS
<1>2. n \div 2^k = 0
  BY <1>1, Zenon
<1> QED BY <1>2

LEMMA BitsFit ==
  ASSUME NEW n \in 0 .. MaxNodeId
  PROVE  Bits(n, 16) \subseteq 0 .. HostBits - 1
<1> DEFINE Bit(k) == (n \div 2^k) % 2 = 1
<1> SUFFICES ASSUME NEW k \in 0 .. 15, k >= HostBits PROVE ~Bit(k)
  <2>1. HostBits \in Nat /\ 16 - 1 = 15
    BY DEF HostBits
  <2>2. ASSUME NEW k \in Bits(n, 16) PROVE k \in 0 .. 16 - 1 /\ Bit(k)
    BY Zenon DEF Bits
  <2> HIDE DEF Bit
  <2> QED BY <2>1, <2>2
<1>1. CASE Version = 2
  <2>1. n \in Nat /\ n < 16384 /\ (k = 14 \/ k = 15)
    BY <1>1 DEF HostBits, MaxNodeId
  <2>2. CASE k = 14
    <3>1. 2^k = 16384
      BY <2>2
    <3> QED BY <2>1, <3>1, NoHighBit
  <2>3. CASE k = 15
    <3>1. 2^k = 32768
      BY <2>3
    <3> QED BY <2>1, <3>1, NoHighBit
  <2> QED BY <2>1, <2>2, <2>3
<1>2. CASE Version # 2
  <2>1. n \in Nat /\ n < 32 /\ k \in 5 .. 15
    BY <1>2 DEF HostBits, MaxNodeId
  <2>2. CASE k = 5
    <3>1. 2^k = 32
      BY <2>2
    <3> QED BY <2>1, <3>1, NoHighBit
  <2>3. CASE k = 6
    <3>1. 2^k = 64
      BY <2>3
    <3> QED BY <2>1, <3>1, NoHighBit
  <2>4. CASE k = 7
    <3>1. 2^k = 128
      BY <2>4
    <3> QED BY <2>1, <3>1, NoHighBit
  <2>5. CASE k = 8
    <3>1. 2^k = 256
      BY <2>5
    <3> QED BY <2>1, <3>1, NoHighBit
  <2>6. CASE k = 9
    <3>1. 2^k = 512
      BY <2>6
    <3> QED BY <2>1, <3>1, NoHighBit
  <2>7. CASE k = 10
    <3>1. 2^k = 1024
      BY <2>7
    <3> QED BY <2>1, <3>1, NoHighBit
  <2>8. CASE k = 11
    <3>1. 2^k = 2048
      BY <2>8
    <3> QED BY <2>1, <3>1, NoHighBit
  <2>9. CASE k = 12
    <3>1. 2^k = 4096
      BY <2>9
    <3> QED BY <2>1, <3>1, NoHighBit
  <2>10. CASE k = 13
    <3>1. 2^k = 8192
      BY <2>10
    <3> QED BY <2>1, <3>1, NoHighBit
  <2>11. CASE k = 14
    <3>1. 2^k = 16384
      BY <2>11
    <3> QED BY <2>1, <3>1, NoHighBit
  <2>12. CASE k = 15
    <3>1. 2^k = 32768
      BY <2>12
    <3> QED BY <2>1, <3>1, NoHighBit
  <2> QED BY <2>1, <2>2, <2>3, <2>4, <2>5, <2>6, <2>7, <2>8, <2>9, <2>10, <2>11, <2>12
<1> QED BY <1>1, <1>2

\* Fields that fit are apart in the header, whichever version it has.
LEMMA FieldsApart ==
  ASSUME NEW f \in Fields, NEW k \in 0 .. Size[f] - 1, NEW g \in Fields, NEW j \in 0 .. Size[g] - 1
  PROVE  /\ Offset[f] + k \in 0 .. 8 * HeaderSize - 1
         /\ Offset[f] + k = Offset[g] + j => f = g /\ k = j
<1>1. CASE Version = 2
  BY <1>1 DEF Fields, Size, Offset, Offset2, HostBits, HeaderSize
<1>2. CASE Version = 1
  BY <1>2 DEF Fields, Size, Offset, Offset1, HostBits, HeaderSize
<1> QED BY <1>1, <1>2, VersionAssumption

LEMMA StripPrepend ==
  ASSUME NEW id, id = [f \in Fields |-> id[f]], \A f \in Fields : id[f] \subseteq 0 .. Size[f] - 1
  PROVE  Strip(Prepend(id)) = id
<1>1. Unpacked(Prepend(id)) = Packed(id)
  <2>1. ASSUME NEW b \in 0 .. 8 * HeaderSize - 1
        PROVE  b % 8 \in Prepend(id)[HeaderSize - (b \div 8)] <=> b \in Packed(id)
    <3>1. /\ HeaderSize - (b \div 8) \in 1 .. HeaderSize /\ b % 8 \in 0 .. 7
          /\ 8 * (HeaderSize - (HeaderSize - (b \div 8))) + (b % 8) = b
      BY DEF HeaderSize
    <3> QED BY <3>1 DEF Prepend
  <2> QED BY <2>1 DEF Unpacked, Packed
<1>2. ASSUME NEW f \in Fields, NEW k \in 0 .. Size[f] - 1
      PROVE  Offset[f] + k \in Packed(id) <=> k \in id[f]
  <2>1. Offset[f] + k \in Packed(id) => k \in id[f]
    BY FieldsApart DEF Packed
  <2>2. k \in id[f] => Offset[f] + k \in Packed(id)
    BY FieldsApart DEF Packed
  <2> QED BY <2>1, <2>2
<1>3. \A f \in Fields : Strip(Prepend(id))[f] = id[f]
  BY <1>1, <1>2 DEF Strip
<1> QED BY <1>3 DEF Strip

LEMMA HeaderFits ==
  ASSUME NEW id \in Id
  PROVE  Strip(Prepend(HeaderBits(id))) = HeaderBits(id)
<1>1. ASSUME NEW f \in Fields PROVE HeaderBits(id)[f] \subseteq 0 .. Size[f] - 1
  <2>1. id.src \in 0 .. MaxNodeId /\ id.dst \in 0 .. MaxNodeId
    BY ForwardAssumption DEF Id
  <2>2. CASE f \in {"src", "dst"}
    BY <2>1, <2>2, BitsFit DEF HeaderBits, Size, Fields
  <2>3. CASE f \notin {"src", "dst"}
    BY <2>3 DEF HeaderBits, Size, Fields
  <2> QED BY <2>2, <2>3
<1>2. HeaderBits(id) = [f \in Fields |-> HeaderBits(id)[f]]
  BY DEF HeaderBits
<1> QED BY <1>1, <1>2, StripPrepend

------------------------------------------------------------------------------
(* The first and the last position of a set.                                 *)
LEMMA Lowest ==
  ASSUME NEW S, S \subseteq Nat
  PROVE  IF S = {} THEN LowestOf(S) = 0
         ELSE LowestOf(S) \in S /\ \A m \in S : LowestOf(S) <= m
<1> DEFINE R == {ss \in Nat \X Nat : ss[1] < ss[2]}
<1>1. IsWellFoundedOn(R, Nat)
  BY NatLessThanWellFounded DEF OpToRel
<1>2. ASSUME S # {} PROVE \E n \in S : \A m \in S : n <= m
  <2>1. PICK n \in S : \A m \in S : ~(<<m, n>> \in R)
    <3> HIDE DEF R
    <3> QED BY <1>1, <1>2, WFMin
  <2>2. \A m \in S : m \in Nat /\ n \in Nat /\ ~(m < n)
    BY <2>1
  <2> QED BY <2>2
<1> QED BY <1>2 DEF LowestOf

LEMMA Highest ==
  ASSUME NEW k \in Nat, NEW S, S \subseteq 0 .. k
  PROVE  IF S = {} THEN HighestOf(S) = 0
         ELSE HighestOf(S) \in S /\ \A m \in S : m <= HighestOf(S)
<1> DEFINE T == {k - n : n \in S}
<1>1. T \subseteq Nat
  OBVIOUS
<1>2. ASSUME S # {} PROVE \E n \in S : \A m \in S : n >= m
  <2>0. T # {}
    BY <1>2
  <2>1. LowestOf(T) \in T /\ \A m \in T : LowestOf(T) <= m
    <3> HIDE DEF T
    <3> QED BY <1>1, <2>0, Lowest
  <2>2. PICK n \in S : LowestOf(T) = k - n
    BY <2>1
  <2>3. \A m \in S : k - n <= k - m
    BY <2>1, <2>2
  <2> QED BY <2>3
<1> QED BY <1>2 DEF HighestOf

\* The same for the positions after lo, and for those before hi.
LEMMA FirstAfter ==
  ASSUME NEW lo \in Nat, NEW hi \in Nat, NEW S, S \subseteq lo + 1 .. hi
  PROVE  /\ LowestOf(S) = 0 => S = {}
         /\ LowestOf(S) # 0 => LowestOf(S) \in S /\ \A n \in lo + 1 .. LowestOf(S) - 1 : n \notin S
<1>1. S \subseteq Nat /\ 0 \notin S
  OBVIOUS
<1>2. IF S = {} THEN LowestOf(S) = 0 ELSE LowestOf(S) \in S /\ \A m \in S : LowestOf(S) <= m
  BY <1>1, Lowest
<1>3. CASE S # {}
  <2>1. \A n \in lo + 1 .. LowestOf(S) - 1 : n \in S => LowestOf(S) <= n /\ n <= LowestOf(S) - 1
    BY <1>2, <1>3
  <2>2. LowestOf(S) \in Nat
    BY <1>1, <1>2, <1>3
  <2> QED BY <1>1, <1>2, <1>3, <2>1, <2>2
<1> QED BY <1>2, <1>3

LEMMA LastBefore ==
  ASSUME NEW hi \in Nat, NEW S, S \subseteq 1 .. hi - 1
  PROVE  /\ HighestOf(S) = 0 => S = {}
         /\ HighestOf(S) # 0 => /\ HighestOf(S) \in S
                                /\ \A n \in HighestOf(S) + 1 .. hi - 1 : n \notin S
<1>1. S \subseteq 0 .. hi /\ 0 \notin S
  OBVIOUS
<1>2. IF S = {} THEN HighestOf(S) = 0 ELSE HighestOf(S) \in S /\ \A m \in S : m <= HighestOf(S)
  BY <1>1, Highest
<1>3. CASE S # {}
  <2>1. HighestOf(S) \in Nat
    <3>1. HighestOf(S) \in S
      BY <1>2, <1>3
    <3>2. \A n \in S : n \in Nat
      OBVIOUS
    <3> QED BY <3>1, <3>2, Zenon
  <2>2. \A n \in HighestOf(S) + 1 .. hi - 1 : n \in S => n <= HighestOf(S) /\ HighestOf(S) + 1 <= n
    BY <1>2, <1>3, <2>1
  <2> QED BY <1>1, <1>2, <1>3, <2>1, <2>2
<1> QED BY <1>2, <1>3

------------------------------------------------------------------------------
(* Types.                                                                    *)
LEMMA ListPositions ==
  ASSUME TypeOK
  PROVE  /\ Len(list) \in Nat /\ DOMAIN list = 1 .. Len(list)
         /\ Len(table) \in Nat /\ DOMAIN table = 1 .. Len(table)
         /\ \A n \in 1 .. Len(list) : list[n] \in Ifaces
         /\ \A n \in 1 .. Len(table) : table[n] \in Entry
         /\ cur \in Nat
BY DEF TypeOK

LEMMA SubnetFound ==
  ASSUME TypeOK, NEW addr
  PROVE  LET Fit(n) == Mask[list[n]] # 0 /\ WithinSubnet(addr, list[n])
             next == BySubnet(addr)
         IN  /\ next = 0 => \A n \in cur + 1 .. Len(list) : ~Fit(n)
             /\ next # 0 => /\ next \in cur + 1 .. Len(list) /\ Fit(next)
                            /\ \A n \in cur + 1 .. next - 1 : ~Fit(n)
<1> DEFINE S == {n \in cur + 1 .. Len(list) :
                   Mask[list[n]] # 0 /\ WithinSubnet(addr, list[n])}
<1>1. cur \in Nat /\ Len(list) \in Nat /\ BySubnet(addr) = LowestOf(S)
  BY ListPositions DEF BySubnet
<1>2. /\ LowestOf(S) = 0 => S = {}
      /\ LowestOf(S) # 0 => LowestOf(S) \in S /\ \A n \in cur + 1 .. LowestOf(S) - 1 : n \notin S
  <2>1. S \subseteq cur + 1 .. Len(list)
    OBVIOUS
  <2> HIDE DEF S
  <2> QED BY <1>1, <2>1, FirstAfter
<1>3. CASE LowestOf(S) = 0
  BY <1>1, <1>2, <1>3
<1>4. CASE LowestOf(S) # 0
  <2>1. LowestOf(S) \in S
    BY <1>2, <1>4
  <2>2. \A n \in cur + 1 .. LowestOf(S) - 1 : n \in cur + 1 .. Len(list) /\ n \notin S
    BY <1>1, <1>2, <1>4
  <2> QED BY <1>1, <1>4, <2>1, <2>2
<1> QED BY <1>3, <1>4

LEMMA DflFound ==
  ASSUME TypeOK
  PROVE  /\ ByDfl = 0 => \A n \in cur + 1 .. Len(list) : list[n] \notin dfl
         /\ ByDfl # 0 => /\ ByDfl \in cur + 1 .. Len(list) /\ list[ByDfl] \in dfl
                         /\ \A n \in cur + 1 .. ByDfl - 1 : list[n] \notin dfl
<1> DEFINE S == {n \in cur + 1 .. Len(list) : list[n] \in dfl}
<1>1. cur \in Nat /\ Len(list) \in Nat /\ ByDfl = LowestOf(S)
  BY ListPositions DEF ByDfl
<1>2. /\ LowestOf(S) = 0 => S = {}
      /\ LowestOf(S) # 0 => LowestOf(S) \in S /\ \A n \in cur + 1 .. LowestOf(S) - 1 : n \notin S
  <2>1. S \subseteq cur + 1 .. Len(list)
    OBVIOUS
  <2> HIDE DEF S
  <2> QED BY <1>1, <2>1, FirstAfter
<1>3. CASE LowestOf(S) = 0
  BY <1>1, <1>2, <1>3
<1>4. CASE LowestOf(S) # 0
  <2>1. LowestOf(S) \in S
    BY <1>2, <1>4
  <2>2. \A n \in cur + 1 .. LowestOf(S) - 1 : n \in cur + 1 .. Len(list) /\ n \notin S
    BY <1>1, <1>2, <1>4
  <2> QED BY <1>1, <1>4, <2>1, <2>2
<1> QED BY <1>3, <1>4

\* The first position of an interface, of an entry for a route.
LEMMA PlaceFound ==
  ASSUME TypeOK, NEW i
  PROVE  IF PlaceOf(i) = 0 THEN i \notin Listed
         ELSE PlaceOf(i) \in 1 .. Len(list) /\ list[PlaceOf(i)] = i
<1> DEFINE S == {n \in DOMAIN list : list[n] = i}
<1>1. S \subseteq Nat /\ 0 \notin S /\ PlaceOf(i) = LowestOf(S)
  BY ListPositions DEF PlaceOf
<1>2. IF S = {} THEN LowestOf(S) = 0 ELSE LowestOf(S) \in S /\ \A m \in S : LowestOf(S) <= m
  BY <1>1, Lowest
<1> QED BY <1>1, <1>2, ListPositions DEF Listed

Key(r) == <<r.addr, r.mask, r.iface>>

LEMMA ExactFound ==
  ASSUME TypeOK, NEW r
  PROVE  IF FindExact(r) = 0 THEN \A n \in DOMAIN table : Key(table[n]) # Key(r)
         ELSE FindExact(r) \in DOMAIN table /\ Key(table[FindExact(r)]) = Key(r)
<1> DEFINE S == {n \in DOMAIN table : /\ table[n].addr = r.addr /\ table[n].mask = r.mask
                                      /\ table[n].iface = r.iface}
<1>1. S \subseteq Nat /\ 0 \notin S /\ FindExact(r) = LowestOf(S)
  BY ListPositions DEF FindExact
<1>2. IF S = {} THEN LowestOf(S) = 0 ELSE LowestOf(S) \in S /\ \A m \in S : LowestOf(S) <= m
  BY <1>1, Lowest
<1> QED BY <1>1, <1>2 DEF Key

\* What the two searches of the routing table return.
MatchesAt(n, addr) ==
    RouteNetwork(table[n].addr, table[n].mask) = RouteNetwork(addr, table[n].mask)

LEMMA RouteFound ==
  ASSUME TypeOK, NEW addr
  PROVE  LET k == FindRoute(addr)
         IN  /\ k = 0 => \A n \in DOMAIN table : ~MatchesAt(n, addr)
             /\ k # 0 => /\ k \in DOMAIN table /\ MatchesAt(k, addr)
                         /\ \A n \in DOMAIN table : MatchesAt(n, addr) =>
                               \/ table[n].mask < table[k].mask
                               \/ table[n].mask = table[k].mask /\ n <= k
<1> DEFINE M == {n \in DOMAIN table : MatchesAt(n, addr)}
           L == {n \in M : \A m \in M : table[m].mask <= table[n].mask}
           W == {table[n].mask : n \in M}
<1>1. FindRoute(addr) = HighestOf(L)
  BY DEF FindRoute, MatchesAt
<1>2. /\ L \subseteq 0 .. Len(table) /\ 0 \notin L /\ Len(table) \in Nat /\ HostBits \in Nat
      /\ W \subseteq 0 .. HostBits
      /\ \A n \in M : table[n].mask \in 0 .. HostBits
  BY ListPositions DEF Entry, HostBits
<1>3. ASSUME M # {} PROVE L # {}
  <2>1. HighestOf(W) \in W /\ \A w \in W : w <= HighestOf(W)
    BY <1>2, <1>3, Highest
  <2>2. PICK n \in M : HighestOf(W) = table[n].mask
    BY <2>1
  <2>3. \A m \in M : table[m].mask <= table[n].mask
    BY <2>1, <2>2
  <2> QED BY <2>3
<1>4. IF L = {} THEN HighestOf(L) = 0 ELSE HighestOf(L) \in L /\ \A m \in L : m <= HighestOf(L)
  BY <1>2, Highest
<1>5. CASE L = {}
  BY <1>1, <1>3, <1>4, <1>5
<1>6. CASE L # {}
  <2>k. PICK k \in L : k = FindRoute(addr) /\ \A m \in L : m <= k
    BY <1>1, <1>4, <1>6
  <2>1. k \in DOMAIN table /\ MatchesAt(k, addr) /\ \A m \in M : table[m].mask <= table[k].mask
    OBVIOUS
  <2>2. ASSUME NEW n \in M, table[n].mask = table[k].mask PROVE n <= k
    BY <2>k, <2>1, <2>2
  <2>3. \A n \in M : table[n].mask < table[k].mask \/ (table[n].mask = table[k].mask /\ n <= k)
    BY <1>2, <2>1, <2>2
  <2>4. k # 0
    BY <1>2
  <2> QED BY <2>k, <2>1, <2>3, <2>4
<1> QED BY <1>5, <1>6

LEMMA BackwardFound ==
  ASSUME TypeOK, NEW k \in DOMAIN table
  PROVE  LET Alike(n) == table[n].mask = table[k].mask /\ table[n].addr = table[k].addr
             prev == SearchBackward(k)
         IN  /\ prev = 0 => \A n \in 1 .. k - 1 : ~Alike(n)
             /\ prev # 0 => /\ prev \in 1 .. k - 1 /\ Alike(prev)
                            /\ \A n \in prev + 1 .. k - 1 : ~Alike(n)
<1> DEFINE S == {n \in 1 .. k - 1 : table[n].mask = table[k].mask /\ table[n].addr = table[k].addr}
<1>1. k \in Nat /\ SearchBackward(k) = HighestOf(S)
  BY ListPositions DEF SearchBackward
<1>2. /\ HighestOf(S) = 0 => S = {}
      /\ HighestOf(S) # 0 => HighestOf(S) \in S /\ \A n \in HighestOf(S) + 1 .. k - 1 : n \notin S
  BY <1>1, LastBefore
<1>3. CASE HighestOf(S) = 0
  BY <1>1, <1>2, <1>3
<1>4. CASE HighestOf(S) # 0
  <2>1. HighestOf(S) \in S
    BY <1>2, <1>4
  <2>2. \A n \in HighestOf(S) + 1 .. k - 1 : n \in 1 .. k - 1 /\ n \notin S
    BY <1>1, <1>2, <1>4, <2>1
  <2> QED BY <1>1, <1>4, <2>1, <2>2
<1> QED BY <1>3, <1>4

------------------------------------------------------------------------------
(* The list of interfaces after a change.                                    *)
Distinct(q) == \A m, n \in DOMAIN q : q[m] = q[n] => m = n

LEMMA ListKept ==
  ASSUME TypeOK, NEW n \in 0 .. Len(list)
  PROVE  /\ SubSeq(list, 1, n) \in Seq(Ifaces) /\ Len(SubSeq(list, 1, n)) = n
         /\ \A m \in 1 .. n : SubSeq(list, 1, n)[m] = list[m]
         /\ SubSeq(list, n + 1, Len(list)) \in Seq(Ifaces)
         /\ Len(SubSeq(list, n + 1, Len(list))) = Len(list) - n
         /\ \A m \in 1 .. Len(list) - n : SubSeq(list, n + 1, Len(list))[m] = list[m + n]
<1>1. Len(list) \in Nat /\ \A m \in 1 .. Len(list) : list[m] \in Ifaces
  BY ListPositions
<1>2. \A m \in 1 .. n : list[m] \in Ifaces
  BY <1>1
<1>3. \A m \in n + 1 .. Len(list) : list[m] \in Ifaces
  BY <1>1
<1>4. /\ SubSeq(list, 1, n) \in Seq(Ifaces) /\ Len(SubSeq(list, 1, n)) = n
      /\ \A m \in 1 .. n : SubSeq(list, 1, n)[m] = list[m]
  BY <1>1, <1>2, SubSeqProperties
<1>5. /\ SubSeq(list, n + 1, Len(list)) \in Seq(Ifaces)
      /\ Len(SubSeq(list, n + 1, Len(list))) = Len(list) - n
      /\ \A m \in 1 .. Len(list) - n : SubSeq(list, n + 1, Len(list))[m] = list[m + n]
  BY <1>1, <1>3, SubSeqProperties
<1> QED BY <1>4, <1>5

LEMMA ListAdded ==
  ASSUME TypeOK, NEW i \in Ifaces
  PROVE  /\ Added(i) \in Seq(Ifaces) /\ Distinct(Added(i))
         /\ \/ i \in Listed /\ i \in Range(Added(i)) /\ Range(Added(i)) \subseteq Listed
            \/ Range(Added(i)) \in {Listed, Listed \cup {i}}
<1>1. Len(list) \in Nat /\ DOMAIN list = 1 .. Len(list) /\ Distinct(list) /\ list \in Seq(Ifaces)
  BY ListPositions DEF TypeOK, Distinct
<1>2. CASE PlaceOf(i) # 0
  <2>n. PICK n \in 1 .. Len(list) : n = PlaceOf(i) /\ list[n] = i
    BY <1>2, PlaceFound
  <2>1. /\ Added(i) \in Seq(Ifaces) /\ DOMAIN Added(i) = 1 .. n
        /\ \A m \in 1 .. n : Added(i)[m] = list[m]
    <3>1. n \in 0 .. Len(list) /\ Added(i) = SubSeq(list, 1, n)
      BY <1>1, <1>2, <2>n DEF Added
    <3>2. /\ Added(i) \in Seq(Ifaces) /\ Len(Added(i)) = n
          /\ \A m \in 1 .. n : Added(i)[m] = list[m]
      BY <3>1, ListKept
    <3> QED BY <3>2
  <2>2. Distinct(Added(i))
    BY <1>1, <2>1 DEF Distinct
  <2>3. n \in 1 .. n /\ \A m \in 1 .. n : m \in DOMAIN list
    BY <1>1
  <2> QED BY <1>1, <2>n, <2>1, <2>2, <2>3 DEF Range, Listed
<1>3. CASE PlaceOf(i) = 0 /\ Added(i) = list
  BY <1>1, <1>3 DEF Range, Listed
<1>4. CASE PlaceOf(i) = 0 /\ Added(i) = Append(list, i)
  <2>1. \A n \in 1 .. Len(list) : list[n] # i
    BY <1>1, <1>4, PlaceFound DEF Listed
  <2>2. /\ Append(list, i) \in Seq(Ifaces) /\ DOMAIN Append(list, i) = 1 .. Len(list) + 1
        /\ \A n \in 1 .. Len(list) : Append(list, i)[n] = list[n]
        /\ Append(list, i)[Len(list) + 1] = i
    BY <1>1
  <2>3. Distinct(Append(list, i))
    BY <1>1, <2>1, <2>2 DEF Distinct
  <2>4. Range(Append(list, i)) = Listed \cup {i}
    <3>1. 1 .. Len(list) + 1 = (1 .. Len(list)) \cup {Len(list) + 1}
      BY <1>1
    <3>2. Range(Append(list, i)) \subseteq Listed \cup {i}
      BY <1>1, <2>2, <3>1 DEF Range, Listed
    <3>3. Listed \cup {i} \subseteq Range(Append(list, i))
      BY <1>1, <2>2, <3>1 DEF Range, Listed
    <3> QED BY <3>2, <3>3
  <2> QED BY <1>4, <2>2, <2>3, <2>4
<1> QED BY <1>2, <1>3, <1>4 DEF Added

LEMMA ListRemoved ==
  ASSUME TypeOK, NEW i \in Ifaces
  PROVE  Removed(i) \in Seq(Ifaces) /\ Distinct(Removed(i)) /\ Range(Removed(i)) = Listed \ {i}
<1>1. Len(list) \in Nat /\ DOMAIN list = 1 .. Len(list) /\ Distinct(list) /\ list \in Seq(Ifaces)
  BY ListPositions DEF TypeOK, Distinct
<1>2. CASE PlaceOf(i) = 0
  BY <1>1, <1>2, PlaceFound DEF Removed, Range, Listed
<1>3. CASE PlaceOf(i) # 0
  <2>n. PICK n \in 1 .. Len(list) : n = PlaceOf(i) /\ list[n] = i
    BY <1>3, PlaceFound
  <2> DEFINE p == SubSeq(list, 1, n - 1)
             q == SubSeq(list, n + 1, Len(list))
             Old(m) == IF m < n THEN m ELSE m + 1
  <2>1. /\ n - 1 \in 0 .. Len(list) /\ n \in 0 .. Len(list)
    BY <1>1
  <2>2. /\ p \in Seq(Ifaces) /\ Len(p) = n - 1 /\ \A m \in 1 .. n - 1 : p[m] = list[m]
        /\ q \in Seq(Ifaces) /\ Len(q) = Len(list) - n
        /\ \A m \in 1 .. Len(list) - n : q[m] = list[m + n]
    BY <2>1, ListKept
  <2>3. /\ p \o q \in Seq(Ifaces) /\ Len(p \o q) = Len(list) - 1
        /\ \A m \in 1 .. Len(list) - 1 : (p \o q)[m] = list[Old(m)]
    <3> HIDE DEF p, q
    <3>1. /\ p \o q \in Seq(Ifaces) /\ Len(p \o q) = Len(p) + Len(q)
          /\ \A m \in 1 .. Len(p) + Len(q) :
                (p \o q)[m] = IF m <= Len(p) THEN p[m] ELSE q[m - Len(p)]
      BY <2>2, ConcatProperties
    <3>2. ASSUME NEW m \in 1 .. Len(list) - 1 PROVE (p \o q)[m] = list[Old(m)]
      <4>1. CASE m < n
        BY <1>1, <2>2, <3>1, <4>1
      <4>2. CASE ~(m < n)
        <5>1. m - (n - 1) \in 1 .. Len(list) - n /\ (m - (n - 1)) + n = m + 1
          BY <1>1, <4>2
        <5>2. (p \o q)[m] = q[m - (n - 1)]
          BY <1>1, <2>2, <3>1, <4>2
        <5> QED BY <2>2, <4>2, <5>1, <5>2
      <4> QED BY <4>1, <4>2
    <3> QED BY <1>1, <2>2, <3>1, <3>2
  <2>4. Removed(i) = p \o q /\ DOMAIN Removed(i) = 1 .. Len(list) - 1
    <3>1. Removed(i) = p \o q
      BY <1>3, <2>n DEF Removed
    <3> HIDE DEF p, q
    <3> QED BY <2>3, <3>1
  <2>5. /\ \A m \in 1 .. Len(list) - 1 : Old(m) \in 1 .. Len(list) /\ Old(m) # n
        /\ \A m, k \in 1 .. Len(list) - 1 : Old(m) = Old(k) => m = k
        /\ \A k \in 1 .. Len(list) : k # n => \E m \in 1 .. Len(list) - 1 : k = Old(m)
    <3>1. ASSUME NEW k \in 1 .. Len(list), k # n PROVE \E m \in 1 .. Len(list) - 1 : k = Old(m)
      <4>1. CASE k < n
        BY <1>1, <4>1
      <4>2. CASE k > n
        <5>1. k - 1 \in 1 .. Len(list) - 1 /\ k = Old(k - 1)
          BY <1>1, <4>2
        <5> QED BY <5>1
      <4> QED BY <1>1, <3>1, <4>1, <4>2
    <3> QED BY <1>1, <3>1
  <2> HIDE DEF Old, p, q
  <2>6. Distinct(Removed(i))
    <3> SUFFICES ASSUME NEW m \in 1 .. Len(list) - 1, NEW k \in 1 .. Len(list) - 1,
                        Removed(i)[m] = Removed(i)[k]
                 PROVE  m = k
      BY <2>4 DEF Distinct
    <3>1. list[Old(m)] = list[Old(k)]
      BY <2>3, <2>4
    <3> QED BY <1>1, <2>5, <3>1 DEF Distinct
  <2>7. Range(Removed(i)) \subseteq Listed \ {i}
    <3> SUFFICES ASSUME NEW m \in 1 .. Len(list) - 1
                 PROVE  Removed(i)[m] \in Listed /\ Removed(i)[m] # i
      BY <2>4 DEF Range
    <3>1. Removed(i)[m] = list[Old(m)] /\ Old(m) \in DOMAIN list /\ Old(m) # n
      BY <1>1, <2>3, <2>4, <2>5
    <3> QED BY <1>1, <2>n, <3>1 DEF Distinct, Listed
  <2>8. Listed \ {i} \subseteq Range(Removed(i))
    <3> SUFFICES ASSUME NEW k \in 1 .. Len(list), k # n PROVE list[k] \in Range(Removed(i))
      BY <1>1, <2>n DEF Listed
    <3>1. PICK m \in 1 .. Len(list) - 1 : k = Old(m)
      BY <2>5
    <3> QED BY <2>3, <2>4, <3>1 DEF Range
  <2> QED BY <2>3, <2>4, <2>6, <2>7, <2>8
<1> QED BY <1>2, <1>3

------------------------------------------------------------------------------
(* Each action keeps the types.                                              *)
LEMMA Addresses ==
  /\ 0 \in Nodes /\ MaxNodeId \in Nodes /\ HostBits \in Nat
  /\ \A i \in Ifaces : Addr[i] \in Nodes /\ Mask[i] \in 0 .. HostBits
  /\ Lo \in Ifaces /\ Blank \in Id
BY ForwardAssumption DEF Blank, Id, HostBits

LEMMA Events ==
  /\ \A i \in Ifaces : /\ [op |-> "add", iface |-> i] \in Event
                       /\ [op |-> "remove", iface |-> i] \in Event
  /\ \A r \in Entry : [op |-> "route", route |-> r] \in Event
  /\ \A i \in Ifaces, via \in Nodes \cup {NoVia}, id \in Id :
        [op |-> "copy", iface |-> i, via |-> via, id |-> id] \in Event
BY DEF Event

LEMMA ConfigureType ==
  ASSUME TypeOK, pc = "idle", UNCHANGED <<pc, idout, local, from, cur, found, tried>>,
         list' \in Seq(Ifaces), Distinct(list'), dfl' \subseteq Ifaces,
         table' \in Seq(Entry), Len(table') <= RtableSize, overrun' \in BOOLEAN,
         event' \in Event \cup {NoEvent}
  PROVE  TypeOK'
<1>1. Len(list') \in Nat /\ cur' = 0
  BY DEF TypeOK
<1> QED BY <1>1 DEF TypeOK, Distinct

LEMMA IflistAddType ==
  ASSUME TypeOK, NEW i \in Ifaces, IflistAdd(i)
  PROVE  TypeOK'
<1>1. list' \in Seq(Ifaces) /\ Distinct(list')
  BY ListAdded DEF IflistAdd
<1> QED BY <1>1, Events, ConfigureType DEF IflistAdd, Configures, TypeOK

LEMMA IflistRemoveType ==
  ASSUME TypeOK, NEW i \in Ifaces, IflistRemove(i)
  PROVE  TypeOK'
<1>1. list' \in Seq(Ifaces) /\ Distinct(list')
  BY ListRemoved DEF IflistRemove
<1> QED BY <1>1, Events, ConfigureType DEF IflistRemove, Configures, TypeOK

LEMMA CheckDflType ==
  ASSUME TypeOK, CheckDfl
  PROVE  TypeOK'
<1>1. Distinct(list) /\ Listed \subseteq Ifaces
  BY DEF TypeOK, Distinct, Listed
<1> QED BY <1>1, ConfigureType DEF CheckDfl, Configures, TypeOK

\* The entry that a request to set a route makes.
Masked(r) == [r EXCEPT !.mask = IF r.mask \in 0 .. HostBits THEN r.mask ELSE HostBits]

LEMMA MaskedType ==
  ASSUME NEW r \in [addr : Nodes, mask : Int, iface : Ifaces, via : Nodes \cup {NoVia}]
  PROVE  Masked(r) \in Entry
BY Addresses DEF Masked, Entry

LEMMA TableSet ==
  ASSUME TypeOK, NEW r \in Entry, SetInternal(r)
  PROVE  /\ table' \in Seq(Entry) /\ Len(table') <= RtableSize /\ overrun' \in BOOLEAN
         /\ event' \in Event \cup {NoEvent}
<1>1. overrun' \in BOOLEAN /\ event' \in Event \cup {NoEvent}
  BY Events DEF SetInternal
<1>2. table \in Seq(Entry) /\ Len(table) <= RtableSize /\ RtableSize \in Nat /\ Len(table) \in Nat
  BY ForwardAssumption DEF TypeOK
<1>3. CASE FindExact(r) # 0
  <2>1. FindExact(r) \in 1 .. Len(table) /\ table' = [table EXCEPT ![FindExact(r)].via = r.via]
    BY <1>3, ExactFound, ListPositions DEF SetInternal
  <2>2. PICK n \in 1 .. Len(table) : n = FindExact(r) /\ table' = [table EXCEPT ![n].via = r.via]
    BY <2>1
  <2>3. table[n] \in Entry /\ r.via \in Nodes \cup {NoVia}
    BY ListPositions DEF Entry
  <2>4. [table[n] EXCEPT !.via = r.via] \in Entry
    BY <2>3 DEF Entry
  <2>5. table' \in Seq(Entry) /\ Len(table') = Len(table)
    BY <1>2, <2>2, <2>4
  <2> QED BY <1>1, <1>2, <2>5
<1>4. CASE FindExact(r) = 0 /\ Len(table) < RtableSize
  <2>1. table' = Append(table, r)
    BY <1>4 DEF SetInternal
  <2> QED BY <1>1, <1>2, <1>4, <2>1
<1>5. CASE FindExact(r) = 0 /\ ~(Len(table) < RtableSize)
  <2>1. table' = table
    BY <1>5 DEF SetInternal
  <2> QED BY <1>1, <1>2, <2>1
<1> QED BY <1>3, <1>4, <1>5

LEMMA RtableSetType ==
  ASSUME TypeOK, NEW r \in [addr : Nodes, mask : Int, iface : Ifaces, via : Nodes \cup {NoVia}],
         RtableSet(r)
  PROVE  TypeOK'
<1>1. Distinct(list) /\ Masked(r) \in Entry /\ SetInternal(Masked(r))
  BY MaskedType DEF TypeOK, Distinct, RtableSet, Masked
<1> QED BY <1>1, TableSet, ConfigureType DEF RtableSet, Configures, TypeOK

\* The program's request, and a CMP request, come down to an entry that is set.
LEMMA CmpEntry ==
  ASSUME TypeOK, NEW r \in CmpRoutes, CmpRouteSet(r)
  PROVE  \E q \in [addr : Nodes, mask : Int, iface : Ifaces, via : Nodes \cup {NoVia}] :
           RtableSet(q)
<1>1. PICK n \in DOMAIN list : RtableSet([r EXCEPT !.iface = list[n]])
  BY DEF CmpRouteSet
<1>2. [r EXCEPT !.iface = list[n]]
        \in [addr : Nodes, mask : Int, iface : Ifaces, via : Nodes \cup {NoVia}]
  <2>1. /\ r \in [addr : Nodes, mask : Int, iface : Ifaces, via : Nodes \cup {NoVia}]
        /\ list[n] \in Ifaces
    BY ForwardAssumption, ListPositions
  <2> QED BY <2>1
<1> QED BY <1>1, <1>2

LEMMA CmpRouteSetType ==
  ASSUME TypeOK, NEW r \in CmpRoutes, CmpRouteSet(r)
  PROVE  TypeOK'
BY CmpEntry, RtableSetType

LEMMA RtableClearType ==
  ASSUME TypeOK, RtableClear
  PROVE  TypeOK'
<1>1. Distinct(list) /\ table' \in Seq(Entry) /\ Len(table') <= RtableSize
  BY ForwardAssumption DEF TypeOK, Distinct, RtableClear
<1> QED BY <1>1, ConfigureType DEF RtableClear, Configures, TypeOK

LEMMA ConfigureKeepsType ==
  ASSUME TypeOK, Configure
  PROVE  TypeOK'
BY IflistAddType, IflistRemoveType, CheckDflType, RtableClearType, RtableSetType, CmpRouteSetType,
   ForwardAssumption DEF Configure

\* What a step of csp_send_direct changes.
LEMMA SendingType ==
  ASSUME TypeOK, UNCHANGED configured,
         pc' \in {"idle", "lo", "subnet", "route", "dfl"},
         idout' \in Id, local' \in Id, from' \in Ifaces \cup {NoIface}, found' \in BOOLEAN,
         cur' \in 0 .. IF pc' = "route" THEN Len(table) ELSE Len(list),
         event' \in Event \cup {NoEvent},
         pc' = "idle" => tried' = {} /\ ~found' /\ cur' = 0
  PROVE  TypeOK'
BY DEF TypeOK, configured

LEMMA BeginType ==
  ASSUME TypeOK, NEW id \in Id, NEW i \in Ifaces \cup {NoIface}, Begin(id, i)
  PROVE  TypeOK'
<1>1. cur' \in 0 .. IF pc' = "route" THEN Len(table) ELSE Len(list)
  BY ListPositions DEF Begin
<1> QED BY <1>1, SendingType DEF Begin

LEMMA ReturnType ==
  ASSUME TypeOK, Return
  PROVE  TypeOK'
<1>1. cur' \in 0 .. IF pc' = "route" THEN Len(table) ELSE Len(list)
  BY ListPositions DEF Return
<1> QED BY <1>1, Addresses, SendingType DEF Return

LEMMA PassType ==
  ASSUME NEW i \in Ifaces, NEW via \in Nodes \cup {NoVia}, NEW id \in Id, Pass(i, via, id)
  PROVE  event' \in Event \cup {NoEvent}
BY Events DEF Pass

LEMMA ToLoType ==
  ASSUME TypeOK, ToLo
  PROVE  TypeOK'
<1>1. CASE Return
  BY <1>1, ReturnType
<1>2. CASE ~Return
  BY <1>2, Addresses, PassType, SendingType DEF ToLo, TypeOK
<1> QED BY <1>1, <1>2

LEMMA SubnetRoundType ==
  ASSUME TypeOK, SubnetRound
  PROVE  TypeOK'
<1>n. PICK n : n = BySubnet(idout.dst)
  OBVIOUS
<1>1. n \in 1 .. Len(list) /\ list[n] \in Ifaces /\ cur' = n /\ cur' \in 0 .. Len(list)
  BY <1>n, SubnetFound, ListPositions DEF SubnetRound
<1>2. Rewritten(list[n]) \in Id
  BY <1>1, Addresses DEF Rewritten, TypeOK, Id
<1>3. CASE Skip
  BY <1>1, <1>3, SendingType DEF SubnetRound, Skip, TypeOK
<1>4. CASE local' = Rewritten(list[n]) /\ Pass(list[n], NoVia, Rewritten(list[n])) /\ UNCHANGED idout
  <2>1. event' \in Event \cup {NoEvent}
    BY <1>1, <1>2, <1>4, PassType
  <2> QED BY <1>1, <1>2, <1>4, <2>1, SendingType DEF SubnetRound, TypeOK
<1> QED BY <1>n, <1>3, <1>4 DEF SubnetRound

LEMMA SrcOnType ==
  ASSUME TypeOK, NEW i \in Ifaces
  PROVE  [idout EXCEPT !.src = SrcOn(i)] \in Id
BY Addresses DEF SrcOn, TypeOK, Id

LEMMA RouteRoundType ==
  ASSUME TypeOK, RouteRound
  PROVE  TypeOK'
<1>n. PICK n : n = IF cur = 0 THEN FindRoute(idout.dst) ELSE SearchBackward(cur)
  OBVIOUS
<1>1. n \in 1 .. Len(table) /\ table[n] \in Entry
  <2>1. pc = "route" /\ n # 0 /\ cur \in 0 .. Len(table)
    BY <1>n DEF RouteRound, TypeOK
  <2>2. CASE cur = 0
    BY <1>n, <2>1, <2>2, RouteFound, ListPositions
  <2>3. CASE cur # 0
    BY <1>n, <2>1, <2>3, BackwardFound, ListPositions
  <2> QED BY <2>2, <2>3
<1>2. /\ cur' = n /\ cur' \in 0 .. Len(table)
      /\ table[n].iface \in Ifaces /\ table[n].via \in Nodes \cup {NoVia}
  BY <1>n, <1>1 DEF RouteRound, Entry
<1>3. CASE Skip
  BY <1>2, <1>3, SendingType DEF RouteRound, Skip, TypeOK
<1>4. CASE /\ idout' = [idout EXCEPT !.src = SrcOn(table[n].iface)]
           /\ Pass(table[n].iface, table[n].via, idout') /\ UNCHANGED local
  <2>1. idout' \in Id
    BY <1>2, <1>4, SrcOnType
  <2>2. event' \in Event \cup {NoEvent}
    BY <1>2, <1>4, <2>1, Events DEF Pass
  <2> QED BY <1>2, <1>4, <2>1, <2>2, SendingType DEF RouteRound, TypeOK
<1> QED BY <1>n, <1>3, <1>4 DEF RouteRound

LEMMA DflRoundType ==
  ASSUME TypeOK, DflRound
  PROVE  TypeOK'
<1>n. PICK n : n = ByDfl
  OBVIOUS
<1>1. n \in 1 .. Len(list) /\ list[n] \in Ifaces /\ cur' = n /\ cur' \in 0 .. Len(list)
  BY <1>n, DflFound, ListPositions DEF DflRound
<1>2. CASE Skip
  BY <1>1, <1>2, SendingType DEF DflRound, Skip, TypeOK
<1>3. CASE /\ idout' = [idout EXCEPT !.src = SrcOn(list[n])]
           /\ Pass(list[n], NoVia, idout') /\ UNCHANGED local
  <2>1. idout' \in Id
    BY <1>1, <1>3, SrcOnType
  <2>2. event' \in Event \cup {NoEvent}
    BY <1>1, <1>3, <2>1, Events DEF Pass
  <2> QED BY <1>1, <1>3, <2>1, <2>2, SendingType DEF DflRound, TypeOK
<1> QED BY <1>n, <1>2, <1>3 DEF DflRound

LEMMA LoopEndType ==
  ASSUME TypeOK, LoopEnd
  PROVE  TypeOK'
<1>1. CASE Return
  BY <1>1, ReturnType
<1>2. CASE ~Return
  <2>1. cur' \in 0 .. IF pc' = "route" THEN Len(table) ELSE Len(list)
    BY <1>2, ListPositions DEF LoopEnd
  <2> QED BY <1>2, <2>1, SendingType DEF LoopEnd, TypeOK
<1> QED BY <1>1, <1>2

LEMMA InitType == Init => TypeOK
<1>1. ASSUME Init PROVE TypeOK
  <2>1. /\ list \in Seq(Ifaces) /\ Len(list) = 1 /\ DOMAIN list = 1 .. 1
    BY <1>1, Addresses DEF Init
  <2>2. table \in Seq(Entry) /\ Len(table) = 0 /\ RtableSize \in Nat
    BY <1>1, ForwardAssumption DEF Init
  <2>3. \A m, n \in DOMAIN list : list[m] = list[n] => m = n
    BY <2>1
  <2>4. dfl \subseteq Ifaces /\ event \in Event \cup {NoEvent} /\ overrun \in BOOLEAN
    BY <1>1, ForwardAssumption DEF Init
  <2>5. /\ pc = "idle" /\ idout \in Id /\ local \in Id /\ from \in Ifaces \cup {NoIface}
        /\ found = FALSE /\ cur = 0 /\ tried = {}
    BY <1>1, Addresses DEF Init
  <2>6. cur \in 0 .. IF pc = "route" THEN Len(table) ELSE Len(list)
    BY <2>1, <2>5
  <2>7. Len(table) <= RtableSize
    BY <2>2, ForwardAssumption
  <2> QED BY <2>1, <2>2, <2>3, <2>4, <2>5, <2>6, <2>7 DEF TypeOK
<1> QED BY <1>1

LEMMA StepType ==
  ASSUME TypeOK, [Next]_vars
  PROVE  TypeOK'
<1>1. CASE UNCHANGED vars
  BY <1>1 DEF vars, configured, sending, TypeOK
<1>2. CASE Configure
  BY <1>2, ConfigureKeepsType
<1>3. ASSUME NEW id \in Sends, Send(id) PROVE TypeOK'
  BY <1>3, BeginType, ForwardAssumption DEF Send, Id
<1>4. ASSUME NEW r \in Receives, Forward(r) PROVE TypeOK'
  <2>1. r.id \in Id /\ r.iface \in Ifaces
    BY ForwardAssumption DEF Id
  <2> QED BY <1>4, <2>1, BeginType DEF Forward
<1>5. CASE Step
  BY <1>5, ToLoType, SubnetRoundType, RouteRoundType, DflRoundType, LoopEndType DEF Step
<1> QED BY <1>1, <1>2, <1>3, <1>4, <1>5 DEF Next

(* The variables of the interface list, the routing table and csp_send_direct *)
(* have their types; no interface is in the list twice, the table does not    *)
(* outgrow its array, and a call leaves nothing to the next.                  *)
THEOREM ForwardTypeCorrect == Spec => []TypeOK
BY InitType, StepType, PTL DEF Spec

(* Whatever the version and wherever a packet is sent, the addresses that     *)
(* csp_id_prepend packs into its header are those that csp_id_strip finds.    *)
THEOREM HeadersAreCarried == Spec => []HeaderCarried
<1>1. ASSUME TypeOK PROVE HeaderCarried
  <2> SUFFICES ASSUME Copied PROVE event.id \in Id
    BY HeaderFits DEF HeaderCarried
  <2> QED BY <1>1 DEF Copied, TypeOK, Event
<1> QED BY <1>1, ForwardTypeCorrect, PTL

------------------------------------------------------------------------------
(* What csp_send_direct has done, and has still to do, in each of its loops.  *)
Fits(n) == Mask[list[n]] # 0 /\ WithinSubnet(idout.dst, list[n])

Leader == FindRoute(idout.dst)
Alike(n) == table[n].mask = table[Leader].mask /\ table[n].addr = table[Leader].addr

Over(S) == {[iface |-> list[n], via |-> NoVia] : n \in {m \in S : ~Back(list[m])}}
OverRoutes(S) == {[iface |-> table[n].iface, via |-> table[n].via] :
                     n \in {m \in S : ~Back(table[m].iface)}}

\* No two entries of the table are for the same subnet and interface.
Keys == \A m, n \in DOMAIN table : Key(table[m]) = Key(table[n]) => m = n

\* Where a packet comes from has a subnet.
Origin == from # NoIface => Mask[from] # 0

InLo == /\ idout.dst = Addr[Lo]
        /\ tried = IF found THEN {[iface |-> Lo, via |-> NoVia]} ELSE {}

InSubnet == /\ idout.dst # Addr[Lo]
            /\ found <=> \E n \in 1 .. cur : Fits(n)
            /\ tried = Over({n \in 1 .. cur : Fits(n)})

InRoute == /\ idout.dst # Addr[Lo] /\ \A n \in 1 .. Len(list) : ~Fits(n)
           /\ found <=> cur # 0
           /\ cur # 0 => Leader # 0 /\ Alike(cur)
           /\ tried = IF cur = 0 THEN {} ELSE OverRoutes({n \in cur .. Len(table) : Alike(n)})

InDfl == /\ idout.dst # Addr[Lo] /\ \A n \in 1 .. Len(list) : ~Fits(n)
         /\ Leader = 0 /\ ~found
         /\ tried = Over({n \in 1 .. cur : list[n] \in dfl})

Progress == /\ pc = "lo" => InLo
            /\ pc = "subnet" => InSubnet
            /\ pc = "route" => InRoute
            /\ pc = "dfl" => InDfl

RInv == TypeOK /\ Keys /\ Origin /\ Progress

(* A packet that is routed came over an interface with a subnet.              *)
Subnets == \A r \in Receives : Mask[r.iface] # 0

Sending == \/ \E id \in Sends : Send(id)
           \/ \E r \in Receives : Forward(r)
           \/ Step

------------------------------------------------------------------------------
(* No two entries of the table have one key.                                 *)
LEMMA KeysSet ==
  ASSUME TypeOK, Keys, NEW r \in Entry, SetInternal(r)
  PROVE  Keys'
<1>1. table \in Seq(Entry) /\ Len(table) \in Nat /\ DOMAIN table = 1 .. Len(table)
  BY ListPositions DEF TypeOK
<1>2. CASE FindExact(r) # 0
  <2>1. PICK n \in 1 .. Len(table) : n = FindExact(r) /\ table' = [table EXCEPT ![n].via = r.via]
    BY <1>1, <1>2, ExactFound DEF SetInternal
  <2>2. DOMAIN table' = DOMAIN table
    BY <2>1
  <2>3. ASSUME NEW m \in DOMAIN table PROVE Key(table'[m]) = Key(table[m])
    <3>1. table[m] \in Entry /\ table[n] \in Entry
      BY <1>1, ListPositions
    <3>2. CASE m = n
      <4>1. table'[m] = [table[m] EXCEPT !.via = r.via]
        BY <1>1, <2>1, <3>2
      <4> QED BY <3>1, <4>1 DEF Key, Entry
    <3>3. CASE m # n
      BY <1>1, <2>1, <3>3
    <3> QED BY <3>2, <3>3
  <2> QED BY <2>2, <2>3 DEF Keys
<1>3. CASE FindExact(r) = 0 /\ Len(table) < RtableSize
  <2>1. table' = Append(table, r)
    BY <1>3 DEF SetInternal
  <2>2. /\ DOMAIN table' = 1 .. Len(table) + 1 /\ table'[Len(table) + 1] = r
        /\ \A n \in 1 .. Len(table) : table'[n] = table[n]
    BY <1>1, <2>1
  <2>3. \A n \in DOMAIN table : Key(table[n]) # Key(r)
    BY <1>3, ExactFound
  <2> QED BY <1>1, <2>2, <2>3 DEF Keys
<1>4. CASE FindExact(r) = 0 /\ ~(Len(table) < RtableSize)
  <2>1. table' = table
    BY <1>4 DEF SetInternal
  <2> QED BY <2>1 DEF Keys
<1> QED BY <1>2, <1>3, <1>4

LEMMA KeysStep ==
  ASSUME TypeOK, Keys, [Next]_vars
  PROVE  Keys'
<1>1. CASE UNCHANGED table
  BY <1>1 DEF Keys
<1>2. ASSUME NEW r \in [addr : Nodes, mask : Int, iface : Ifaces, via : Nodes \cup {NoVia}],
             RtableSet(r)
      PROVE  Keys'
  BY <1>2, KeysSet, MaskedType DEF RtableSet, Masked
<1>3. CASE RtableClear
  BY <1>3 DEF RtableClear, Keys
<1>4. CASE Configure
  BY <1>1, <1>2, <1>3, <1>4, CmpEntry, ForwardAssumption
     DEF Configure, IflistAdd, IflistRemove, CheckDfl
<1>5. CASE [Sending]_vars
  <2>1. UNCHANGED table
    BY <1>5 DEF Sending, Send, Forward, Begin, Step, ToLo, SubnetRound, RouteRound, DflRound, LoopEnd,
                Return, configured, vars
  <2> QED BY <1>1, <2>1
<1> QED BY <1>4, <1>5 DEF Next, Sending

LEMMA OriginStep ==
  ASSUME Origin, Subnets, [Next]_vars
  PROVE  Origin'
<1>1. CASE UNCHANGED from
  BY <1>1 DEF Origin
<1>2. CASE from' = NoIface
  BY <1>2 DEF Origin
<1>3. ASSUME NEW r \in Receives, from' = r.iface PROVE Origin'
  BY <1>3 DEF Origin, Subnets
<1>4. CASE Configure
  BY <1>1, <1>4 DEF Configure, IflistAdd, IflistRemove, CheckDfl, RtableClear, RtableSet,
                    CmpRouteSet, Configures
<1>5. CASE [Sending]_vars
  BY <1>1, <1>2, <1>3, <1>5 DEF Sending, Send, Forward, Begin, Step, ToLo, SubnetRound, RouteRound,
     DflRound, LoopEnd, Return, vars, sending
<1> QED BY <1>4, <1>5 DEF Next, Sending

------------------------------------------------------------------------------
(* The rounds of the loops.  While a packet is sent, what a position of the   *)
(* list or of the table is to it does not change.                            *)
LEMMA SamePacket ==
  ASSUME UNCHANGED configured, idout'.dst = idout.dst, from' = from
  PROVE  /\ Leader' = Leader
         /\ \A n : Fits(n)' <=> Fits(n)
         /\ \A n : Alike(n)' <=> Alike(n)
         /\ \A i : Back(i)' <=> Back(i)
         /\ \A S : Over(S)' = Over(S)
         /\ \A S : OverRoutes(S)' = OverRoutes(S)
<1>1. list' = list /\ table' = table /\ dfl' = dfl
  BY DEF configured
<1>2. Leader' = Leader
  BY <1>1 DEF Leader, FindRoute
<1>3. \A i : Back(i)' <=> Back(i)
  BY DEF Back
<1> QED BY <1>1, <1>2, <1>3 DEF Fits, Alike, Over, OverRoutes

\* A round adds the hop of its position to those tried, unless it leads back.
LEMMA OverMore ==
  ASSUME NEW S, NEW n
  PROVE  Over(S \cup {n}) = IF Back(list[n]) THEN Over(S)
                            ELSE Over(S) \cup {[iface |-> list[n], via |-> NoVia]}
BY DEF Over

LEMMA OverRoutesMore ==
  ASSUME NEW S, NEW n
  PROVE  OverRoutes(S \cup {n}) =
           IF Back(table[n].iface) THEN OverRoutes(S)
           ELSE OverRoutes(S) \cup {[iface |-> table[n].iface, via |-> table[n].via]}
BY DEF OverRoutes

LEMMA SubnetRoundDone ==
  ASSUME TypeOK, InSubnet, SubnetRound
  PROVE  InSubnet'
<1>n. PICK n : n = BySubnet(idout.dst)
  OBVIOUS
<1>1. /\ n \in cur + 1 .. Len(list) /\ Fits(n) /\ \A m \in cur + 1 .. n - 1 : ~Fits(m)
      /\ cur \in Nat /\ Len(list) \in Nat
  BY <1>n, SubnetFound, ListPositions DEF SubnetRound, Fits
<1>2. cur' = n /\ found' = TRUE /\ idout' = idout /\ from' = from /\ UNCHANGED configured
  BY <1>n DEF SubnetRound, Skip
<1>3. {m \in 1 .. n : Fits(m)} = {m \in 1 .. cur : Fits(m)} \cup {n}
  BY <1>1
<1>4. tried' = IF Back(list[n]) THEN tried ELSE tried \cup {[iface |-> list[n], via |-> NoVia]}
  BY <1>n DEF SubnetRound, Skip, Pass
<1>5. tried' = Over({m \in 1 .. n : Fits(m)})
  BY <1>3, <1>4, OverMore DEF InSubnet
<1>6. \E m \in 1 .. n : Fits(m)
  BY <1>1
<1> QED BY <1>2, <1>5, <1>6, SamePacket DEF InSubnet

LEMMA DflRoundDone ==
  ASSUME TypeOK, InDfl, DflRound
  PROVE  InDfl'
<1>n. PICK n : n = ByDfl
  OBVIOUS
<1>1. /\ n \in cur + 1 .. Len(list) /\ list[n] \in dfl
      /\ \A m \in cur + 1 .. n - 1 : list[m] \notin dfl
      /\ cur \in Nat /\ Len(list) \in Nat
  BY <1>n, DflFound, ListPositions DEF DflRound
<1>2. /\ cur' = n /\ found' = found /\ idout'.dst = idout.dst /\ from' = from
      /\ UNCHANGED configured
  BY <1>n DEF DflRound, Skip, TypeOK, Id
<1>3. {m \in 1 .. n : list[m] \in dfl} = {m \in 1 .. cur : list[m] \in dfl} \cup {n}
  BY <1>1
<1>4. tried' = IF Back(list[n]) THEN tried ELSE tried \cup {[iface |-> list[n], via |-> NoVia]}
  BY <1>n DEF DflRound, Skip, Pass
<1>5. tried' = Over({m \in 1 .. n : list[m] \in dfl})
  BY <1>3, <1>4, OverMore DEF InDfl
<1>6. list' = list /\ dfl' = dfl
  BY <1>2 DEF configured
<1> QED BY <1>2, <1>5, <1>6, SamePacket DEF InDfl

\* The route a round of csp_send_direct's second loop comes to.
LEMMA NextRoute ==
  ASSUME TypeOK, pc = "route", InRoute, NEW n, n # 0,
         n = IF cur = 0 THEN FindRoute(idout.dst) ELSE SearchBackward(cur)
  PROVE  /\ n \in DOMAIN table /\ Leader # 0 /\ Alike(n) /\ (cur # 0 => n < cur)
         /\ {m \in n .. Len(table) : Alike(m)} =
               (IF cur = 0 THEN {} ELSE {m \in cur .. Len(table) : Alike(m)}) \cup {n}
<1>0. Len(table) \in Nat /\ DOMAIN table = 1 .. Len(table) /\ cur \in Nat
  BY ListPositions
<1>1. CASE cur = 0
  <2>1. n \in DOMAIN table /\ n = Leader /\ MatchesAt(n, idout.dst)
    BY <1>1, RouteFound DEF Leader
  <2>2. \A m \in DOMAIN table : Alike(m) => MatchesAt(m, idout.dst)
    BY <2>1 DEF Alike, MatchesAt
  <2>3. \A m \in DOMAIN table : Alike(m) => m <= n
    <3>1. \A m \in DOMAIN table : MatchesAt(m, idout.dst) =>
             \/ table[m].mask < table[n].mask
             \/ table[m].mask = table[n].mask /\ m <= n
      BY <1>1, RouteFound
    <3>2. \A m \in DOMAIN table : Alike(m) => table[m].mask = table[n].mask /\ table[m].mask \in Int
      BY <2>1, ListPositions DEF Alike, Entry
    <3> QED BY <2>2, <3>1, <3>2
  <2>4. {m \in n .. Len(table) : Alike(m)} = {n}
    BY <1>0, <2>1, <2>3 DEF Alike
  <2> QED BY <1>1, <2>1, <2>4 DEF Alike
<1>2. CASE cur # 0
  <2>1. cur \in DOMAIN table /\ Leader # 0 /\ Alike(cur)
    <3>1. cur \in 1 .. Len(table)
      BY <1>0, <1>2 DEF TypeOK
    <3> QED BY <1>0, <1>2, <3>1 DEF InRoute
  <2>2. /\ n \in 1 .. cur - 1 /\ table[n].mask = table[cur].mask /\ table[n].addr = table[cur].addr
        /\ \A m \in n + 1 .. cur - 1 :
              ~(table[m].mask = table[cur].mask /\ table[m].addr = table[cur].addr)
    BY <1>2, <2>1, BackwardFound
  <2>3. Alike(n) /\ \A m \in n + 1 .. cur - 1 : ~Alike(m)
    BY <2>1, <2>2 DEF Alike
  <2>4. {m \in n .. Len(table) : Alike(m)} = {m \in cur .. Len(table) : Alike(m)} \cup {n}
    BY <1>0, <2>1, <2>2, <2>3
  <2> QED BY <1>0, <1>2, <2>1, <2>2, <2>3, <2>4
<1> QED BY <1>1, <1>2

LEMMA RouteRoundDone ==
  ASSUME TypeOK, InRoute, RouteRound
  PROVE  InRoute'
<1>n. PICK n : n = IF cur = 0 THEN FindRoute(idout.dst) ELSE SearchBackward(cur)
  OBVIOUS
<1>1. /\ n \in DOMAIN table /\ Leader # 0 /\ Alike(n)
      /\ {m \in n .. Len(table) : Alike(m)} =
            (IF cur = 0 THEN {} ELSE {m \in cur .. Len(table) : Alike(m)}) \cup {n}
  BY <1>n, NextRoute DEF RouteRound
<1>2. /\ cur' = n /\ found' = TRUE /\ idout'.dst = idout.dst /\ from' = from
      /\ UNCHANGED configured
  BY <1>n DEF RouteRound, Skip, TypeOK, Id
<1>3. tried' = IF Back(table[n].iface) THEN tried
               ELSE tried \cup {[iface |-> table[n].iface, via |-> table[n].via]}
  BY <1>n DEF RouteRound, Skip, Pass
<1>4. tried = OverRoutes(IF cur = 0 THEN {} ELSE {m \in cur .. Len(table) : Alike(m)})
  BY DEF InRoute, OverRoutes
<1>5. tried' = OverRoutes({m \in n .. Len(table) : Alike(m)})
  BY <1>1, <1>3, <1>4, OverRoutesMore
<1>6. list' = list /\ table' = table /\ n # 0
  BY <1>1, <1>2, ListPositions DEF configured
<1> QED BY <1>1, <1>2, <1>5, <1>6, SamePacket DEF InRoute

LEMMA LoopEndDone ==
  ASSUME TypeOK, Progress, LoopEnd
  PROVE  Progress'
<1>0. /\ Len(list) \in Nat /\ DOMAIN list = 1 .. Len(list)
      /\ DOMAIN table = 1 .. Len(table) /\ cur \in Nat
  BY ListPositions
<1>1. CASE Return
  BY <1>1 DEF Return, Progress
<1>2. CASE ~Return
  <2>1. /\ ~found /\ cur' = 0 /\ UNCHANGED <<configured, idout, from, found, tried>>
        /\ \/ pc = "subnet" /\ pc' = "route" /\ BySubnet(idout.dst) = 0
           \/ pc = "route" /\ pc' = "dfl"
              /\ (IF cur = 0 THEN FindRoute(idout.dst) ELSE SearchBackward(cur)) = 0
    BY <1>2 DEF LoopEnd
  <2>2. CASE pc = "subnet"
    <3>1. InSubnet /\ pc' = "route" /\ BySubnet(idout.dst) = 0
      BY <2>1, <2>2 DEF Progress
    <3>2. \A n \in cur + 1 .. Len(list) : ~Fits(n)
      BY <3>1, SubnetFound DEF Fits
    <3>3. \A n \in 1 .. cur : ~Fits(n)
      BY <2>1, <3>1 DEF InSubnet
    <3>4. \A n \in 1 .. Len(list) : ~Fits(n)
      BY <1>0, <3>2, <3>3
    <3>5. tried = {}
      BY <3>1, <3>3 DEF InSubnet, Over
    <3>6. InRoute'
      BY <2>1, <3>1, <3>4, <3>5, SamePacket DEF InRoute, InSubnet, configured
    <3> QED BY <3>1, <3>6 DEF Progress
  <2>3. CASE pc = "route"
    <3>1. InRoute /\ pc' = "dfl" /\ cur = 0 /\ Leader = 0
      BY <2>1, <2>3 DEF Progress, InRoute, Leader
    <3>2. tried = {}
      BY <3>1 DEF InRoute
    <3>3. Over({n \in 1 .. 0 : list[n] \in dfl}) = {}
      BY DEF Over
    <3>4. InDfl'
      BY <2>1, <3>1, <3>2, <3>3, SamePacket DEF InDfl, InRoute, configured
    <3> QED BY <3>1, <3>4 DEF Progress
  <2> QED BY <2>1, <2>2, <2>3
<1> QED BY <1>1, <1>2

LEMMA ProgressStep ==
  ASSUME TypeOK, Progress, [Next]_vars
  PROVE  Progress'
<1>1. CASE UNCHANGED vars
  <2>1. UNCHANGED <<list, dfl, table, pc, idout, from, cur, found, tried>>
    BY <1>1 DEF vars, configured, sending
  <2>2. InLo' = InLo
    BY <2>1 DEF InLo
  <2>3. InSubnet' = InSubnet
    BY <2>1 DEF InSubnet, Fits, Over, Back
  <2>4. InRoute' = InRoute
    BY <2>1 DEF InRoute, Fits, Alike, Leader, FindRoute, OverRoutes, Back
  <2>5. InDfl' = InDfl
    BY <2>1 DEF InDfl, Fits, Leader, FindRoute, Over, Back
  <2> QED BY <2>1, <2>2, <2>3, <2>4, <2>5 DEF Progress
<1>2. CASE Configure
  <2>1. pc' = "idle"
    BY <1>2 DEF Configure, IflistAdd, IflistRemove, CheckDfl, RtableClear, RtableSet,
                CmpRouteSet, Configures
  <2> QED BY <2>1 DEF Progress
<1>3. ASSUME NEW id, NEW i, Begin(id, i) PROVE Progress'
  <2>1. CASE id.dst = Addr[Lo]
    BY <1>3, <2>1 DEF Begin, Progress, InLo
  <2>2. CASE id.dst # Addr[Lo]
    <3>1. InSubnet'
      BY <1>3, <2>2 DEF Begin, InSubnet, Over
    <3> QED BY <1>3, <2>2, <3>1 DEF Begin, Progress
  <2> QED BY <2>1, <2>2
<1>4. CASE ToLo
  <2>1. CASE Return
    BY <2>1 DEF Return, Progress
  <2>2. CASE ~Return
    BY <1>4, <2>2 DEF ToLo, Pass, Progress, InLo, configured
  <2> QED BY <2>1, <2>2
<1>5. CASE SubnetRound
  <2>1. InSubnet' /\ pc' = "subnet"
    BY <1>5, SubnetRoundDone DEF Progress, SubnetRound
  <2> QED BY <2>1 DEF Progress
<1>6. CASE RouteRound
  <2>1. InRoute' /\ pc' = "route"
    BY <1>6, RouteRoundDone DEF Progress, RouteRound
  <2> QED BY <2>1 DEF Progress
<1>7. CASE DflRound
  <2>1. InDfl' /\ pc' = "dfl"
    BY <1>7, DflRoundDone DEF Progress, DflRound
  <2> QED BY <2>1 DEF Progress
<1>8. CASE LoopEnd
  BY <1>8, LoopEndDone
<1> QED BY <1>1, <1>2, <1>3, <1>4, <1>5, <1>6, <1>7, <1>8 DEF Next, Send, Forward, Step

LEMMA RInvStep ==
  ASSUME RInv, Subnets, [Next]_vars
  PROVE  RInv'
BY StepType, KeysStep, OriginStep, ProgressStep DEF RInv

LEMMA RInvInit == Init => RInv
<1> SUFFICES ASSUME Init PROVE Keys /\ Origin /\ Progress
  BY InitType DEF RInv
<1> QED BY DEF Init, Keys, Origin, Progress

------------------------------------------------------------------------------
(* What CspRoute promises, in terms of positions of the list and the table.  *)
AllHops == Tables!Hops(idout.dst, from, Chosen)
Todo == IF pc = "idle" THEN {} ELSE AllHops \ tried
Table == {table[n] : n \in DOMAIN table}

LEMMA Networks ==
  \A addr, mask : /\ Tables!Network(addr, mask) = Network(addr, mask)
                  /\ Tables!RouteNetwork(addr, mask) = RouteNetwork(addr, mask)
BY DEF Tables!Network, Network, Tables!RouteNetwork, RouteNetwork, Tables!HostBits, HostBits

LEMMA Onwards ==
  ASSUME Origin, NEW hops
  PROVE  Tables!Onward(hops, from) = {h \in hops : ~Back(h.iface)}
BY Networks DEF Tables!Onward, Tables!Similar, Origin, Back, WithinSubnet

LEMMA LoHops ==
  ASSUME idout.dst = Addr[Lo]
  PROVE  AllHops = {[iface |-> Lo, via |-> NoVia]}
BY DEF AllHops, Tables!Hops, Tables!Direct

LEMMA WithinFits ==
  ASSUME TypeOK
  PROVE  Tables!Within(idout.dst) = {list[n] : n \in {m \in 1 .. Len(list) : Fits(m)}}
BY ListPositions, Networks DEF Tables!Within, Listed, Fits, WithinSubnet

LEMMA SubnetHops ==
  ASSUME TypeOK, Origin, idout.dst # Addr[Lo], \E n \in 1 .. Len(list) : Fits(n)
  PROVE  AllHops = Over({n \in 1 .. Len(list) : Fits(n)})
<1>1. Tables!Within(idout.dst) # {}
  BY WithinFits
<1>2. AllHops = {h \in Tables!Direct(Tables!Within(idout.dst)) : ~Back(h.iface)}
  BY <1>1, Onwards DEF AllHops, Tables!Hops
<1> QED BY <1>2, WithinFits DEF Tables!Direct, Over

LEMMA LongestMatches ==
  ASSUME TypeOK, NEW addr, NEW k, k = FindRoute(addr)
  PROVE  /\ k = 0 <=> Tables!Matching(addr) = {}
         /\ k # 0 => /\ k \in DOMAIN table /\ table[k] \in Tables!Longest(addr)
                     /\ {r \in Tables!Longest(addr) : r.addr = table[k].addr}
                           = {table[n] : n \in {m \in DOMAIN table :
                                                  /\ table[m].mask = table[k].mask
                                                  /\ table[m].addr = table[k].addr}}
<1> DEFINE Like(n) == table[n].mask = table[k].mask /\ table[n].addr = table[k].addr
<1>1. Tables!Matching(addr) = {table[n] : n \in {m \in DOMAIN table : MatchesAt(m, addr)}}
  BY Networks DEF Tables!Matching, MatchesAt
<1>2. /\ k = 0 => \A n \in DOMAIN table : ~MatchesAt(n, addr)
      /\ k # 0 => /\ k \in DOMAIN table /\ MatchesAt(k, addr)
                  /\ \A n \in DOMAIN table : MatchesAt(n, addr) =>
                        \/ table[n].mask < table[k].mask
                        \/ table[n].mask = table[k].mask
  BY RouteFound
<1>3. \A n \in DOMAIN table : table[n].mask \in Int
  BY ListPositions DEF Entry
<1>4. CASE k # 0
  <2>1. \A n \in DOMAIN table : Like(n) => MatchesAt(n, addr)
    BY <1>2, <1>4 DEF MatchesAt
  <2>2. ASSUME NEW n \in DOMAIN table, Like(n)
        PROVE  table[n] \in Tables!Longest(addr)
    <3>1. \A m \in DOMAIN table : MatchesAt(m, addr) => table[m].mask <= table[n].mask
      BY <1>2, <1>3, <1>4, <2>2
    <3> QED BY <1>1, <2>1, <2>2, <3>1 DEF Tables!Longest
  <2>3. ASSUME NEW r \in Tables!Longest(addr), r.addr = table[k].addr
        PROVE  \E n \in DOMAIN table : Like(n) /\ r = table[n]
    <3>1. PICK n \in DOMAIN table : r = table[n] /\ MatchesAt(n, addr)
      BY <1>1 DEF Tables!Longest
    <3>2. table[k] \in Tables!Matching(addr)
      BY <1>1, <1>2, <1>4
    <3>3. table[k].mask <= table[n].mask
      BY <3>1, <3>2 DEF Tables!Longest
    <3>4. table[n].mask = table[k].mask
      BY <1>2, <1>3, <1>4, <3>1, <3>3
    <3> QED BY <2>3, <3>1, <3>4
  <2>4. k \in DOMAIN table /\ table[k] \in Tables!Longest(addr)
    BY <1>2, <1>4, <2>2
  <2> QED BY <1>1, <1>2, <1>4, <2>2, <2>3, <2>4
<1>5. CASE k = 0
  BY <1>1, <1>2, <1>5
<1> QED BY <1>4, <1>5

LEMMA LeaderMatches ==
  ASSUME TypeOK
  PROVE  /\ Leader = 0 <=> Tables!Matching(idout.dst) = {}
         /\ Leader # 0 => {r \in Tables!Longest(idout.dst) : r.addr = Chosen}
                             = {table[n] : n \in {m \in DOMAIN table : Alike(m)}}
BY LongestMatches DEF Leader, Chosen, Alike

LEMMA RouteHops ==
  ASSUME TypeOK, Origin, idout.dst # Addr[Lo], \A n \in 1 .. Len(list) : ~Fits(n), Leader # 0
  PROVE  AllHops = OverRoutes({n \in DOMAIN table : Alike(n)})
<1>1. Tables!Within(idout.dst) = {} /\ Tables!Matching(idout.dst) # {}
  BY WithinFits, LeaderMatches
<1>2. AllHops = {h \in {Tables!Hop(r) : r \in {s \in Tables!Longest(idout.dst) : s.addr = Chosen}} :
                    ~Back(h.iface)}
  BY <1>1, Onwards DEF AllHops, Tables!Hops
<1> QED BY <1>2, LeaderMatches DEF Tables!Hop, OverRoutes

LEMMA DflHops ==
  ASSUME TypeOK, Origin, idout.dst # Addr[Lo], \A n \in 1 .. Len(list) : ~Fits(n), Leader = 0
  PROVE  AllHops = Over({n \in 1 .. Len(list) : list[n] \in dfl})
<1>1. Tables!Within(idout.dst) = {} /\ Tables!Matching(idout.dst) = {}
  BY WithinFits, LeaderMatches
<1>2. AllHops = {h \in Tables!Direct(Listed \cap dfl) : ~Back(h.iface)}
  BY <1>1, Onwards DEF AllHops, Tables!Hops
<1>3. DOMAIN list = 1 .. Len(list)
  BY ListPositions
<1> QED BY <1>2, <1>3 DEF Tables!Direct, Listed, Over

LEMMA SameHops ==
  ASSUME UNCHANGED configured, idout'.dst = idout.dst, from' = from
  PROVE  AllHops' = AllHops
<1>1. list' = list /\ table' = table /\ dfl' = dfl
  BY DEF configured
<1>2. Chosen' = Chosen
  BY <1>1 DEF Chosen, FindRoute
<1> QED BY <1>1, <1>2 DEF AllHops, Tables!Hops, Tables!Onward, Tables!Similar, Tables!Direct,
     Tables!Within, Tables!Matching, Tables!Longest, Tables!Hop, Listed

------------------------------------------------------------------------------
(* Each step is a step of CspRoute, or changes nothing of it.                *)
LEMMA InitRoute == Init => Route!Init
BY ForwardAssumption DEF Init, Route!Init, Listed, Job, Shown, Copied

LEMMA ConfiguresIdle ==
  ASSUME Configures
  PROVE  Job = NoJob /\ Job' = NoJob /\ Todo = {} /\ Todo' = {}
BY DEF Configures, Job, Todo

LEMMA IflistAddRoute ==
  ASSUME TypeOK, NEW i \in Ifaces, IflistAdd(i)
  PROVE  Route!Next
<1>1. Route!Idle
  BY ConfiguresIdle DEF IflistAdd, Route!Idle, Todo, AllHops
<1>2. Shown' = [op |-> "add", iface |-> i]
  BY Events, EventAssumption DEF IflistAdd, Shown, Copied
<1>3. Listed' = Range(Added(i)) /\ dfl' = dfl /\ table' = table
  BY DEF IflistAdd, Listed, Range
<1>4. CASE i \in Listed /\ i \in Range(Added(i)) /\ Range(Added(i)) \subseteq Listed
  BY <1>1, <1>2, <1>3, <1>4 DEF Route!AddAgain, Route!Next
<1>5. CASE Range(Added(i)) \in {Listed, Listed \cup {i}}
  BY <1>1, <1>2, <1>3, <1>5 DEF Route!Add, Route!Next
<1> QED BY <1>4, <1>5, ListAdded

LEMMA IflistRemoveRoute ==
  ASSUME TypeOK, NEW i \in Ifaces, IflistRemove(i)
  PROVE  Route!Next
<1>1. Route!Idle
  BY ConfiguresIdle DEF IflistRemove, Route!Idle, Todo, AllHops
<1>2. Shown' = [op |-> "remove", iface |-> i]
  BY Events, EventAssumption DEF IflistRemove, Shown, Copied
<1>3. Listed' = Listed \ {i} /\ dfl' = dfl /\ table' = table
  BY ListRemoved DEF IflistRemove, Listed, Range
<1> QED BY <1>1, <1>2, <1>3 DEF Route!Remove, Route!Next

LEMMA CheckDflRoute ==
  ASSUME CheckDfl
  PROVE  Route!Next
<1>1. Route!Idle /\ Shown' = NoEvent
  BY ConfiguresIdle DEF CheckDfl, Route!Idle, Todo, AllHops, Shown, Copied
<1>2. Listed' = Listed /\ table' = table
  BY DEF CheckDfl, Listed
<1> QED BY <1>1, <1>2 DEF CheckDfl, Route!SetDefaults, Route!Next

LEMMA RtableClearRoute ==
  ASSUME RtableClear
  PROVE  Route!Next
<1>1. Route!Idle /\ Shown' = NoEvent
  BY ConfiguresIdle DEF RtableClear, Route!Idle, Todo, AllHops, Shown, Copied
<1>2. Listed' = Listed /\ dfl' = dfl /\ {table'[n] : n \in DOMAIN table'} = {}
  BY DEF RtableClear, Listed
<1> QED BY <1>1, <1>2 DEF Route!Clear, Route!Next

\* A new entry finds a place, or is written past the end.
LEMMA NoPlace ==
  ASSUME TypeOK, NEW r \in Entry, SetInternal(r), FindExact(r) = 0
  PROVE  IF overrun' THEN event' = NoEvent /\ table' = table ELSE table' = Append(table, r)
<1>1. PICK m \in Nat, n \in Nat : m = Len(table) /\ n = RtableSize /\ m <= n
  BY ListPositions, ForwardAssumption DEF TypeOK
<1>2. overrun' <=> m = n
  BY <1>1 DEF SetInternal
<1>3. overrun' <=> ~(m < n)
  BY <1>1, <1>2
<1> QED BY <1>1, <1>3 DEF SetInternal

\* The table as a set after an entry was set.
LEMMA TableIs ==
  ASSUME TypeOK, Keys, NEW r \in Entry, SetInternal(r), ~overrun'
  PROVE  {table'[n] : n \in DOMAIN table'} =
            {r} \cup {s \in Table : s.addr # r.addr \/ s.mask # r.mask \/ s.iface # r.iface}
<1>1. table \in Seq(Entry) /\ Len(table) \in Nat /\ DOMAIN table = 1 .. Len(table)
  BY ListPositions DEF TypeOK
<1>2. CASE FindExact(r) # 0
  <2>1. PICK n \in 1 .. Len(table) : /\ n = FindExact(r)
                                     /\ table' = [table EXCEPT ![n].via = r.via]
                                     /\ Key(table[n]) = Key(r)
    BY <1>1, <1>2, ExactFound DEF SetInternal
  <2>2. table'[n] = r
    <3>1. table[n] \in Entry /\ table'[n] = [table[n] EXCEPT !.via = r.via]
      BY <1>1, <2>1, ListPositions
    <3> QED BY <2>1, <3>1 DEF Entry, Key
  <2>3. \A m \in DOMAIN table : m # n => table'[m] = table[m] /\ Key(table[m]) # Key(r)
    BY <1>1, <2>1 DEF Keys
  <2>4. DOMAIN table' = DOMAIN table
    BY <2>1
  <2> QED BY <1>1, <2>1, <2>2, <2>3, <2>4 DEF Key, Table
<1>3. CASE FindExact(r) = 0
  <2>1. table' = Append(table, r)
    BY <1>3, NoPlace
  <2>2. /\ DOMAIN table' = 1 .. Len(table) + 1 /\ table'[Len(table) + 1] = r
        /\ \A n \in 1 .. Len(table) : table'[n] = table[n]
    BY <1>1, <2>1
  <2>3. \A n \in DOMAIN table : Key(table[n]) # Key(r)
    BY <1>3, ExactFound
  <2>4. 1 .. Len(table) + 1 = (1 .. Len(table)) \cup {Len(table) + 1}
    BY <1>1
  <2>5. {table'[n] : n \in DOMAIN table'} = Table \cup {r}
    BY <1>1, <2>2, <2>4 DEF Table
  <2>6. \A s \in Table : s.addr # r.addr \/ s.mask # r.mask \/ s.iface # r.iface
    BY <2>3 DEF Table, Key
  <2> QED BY <2>5, <2>6
<1> QED BY <1>2, <1>3

LEMMA RtableSetRoute ==
  ASSUME TypeOK, Keys,
         NEW q \in [addr : Nodes, mask : Int, iface : Ifaces, via : Nodes \cup {NoVia}],
         RtableSet(q)
  PROVE  Route!Next
<1>r. PICK r \in Entry : r = Masked(q)
  BY MaskedType
<1>1. Route!Idle
  BY ConfiguresIdle DEF RtableSet, Route!Idle, Todo, AllHops
<1>2. Listed' = Listed /\ dfl' = dfl /\ SetInternal(r)
  BY <1>r DEF RtableSet, Listed, Masked
<1>3. CASE ~overrun'
  <2>1. Shown' = [op |-> "route", route |-> r]
    BY <1>2, <1>3, Events, EventAssumption DEF SetInternal, Shown, Copied
  <2>2. {table'[n] : n \in DOMAIN table'} =
           {r} \cup {s \in Table : s.addr # r.addr \/ s.mask # r.mask \/ s.iface # r.iface}
    BY <1>2, <1>3, TableIs
  <2>3. r \in {table'[n] : n \in DOMAIN table'}
    BY <2>2
  <2>4. Route!SetRoute(r)
    BY <1>1, <1>2, <2>1, <2>2 DEF Route!SetRoute, Table
  <2> QED BY <2>3, <2>4 DEF Route!Next
<1>4. CASE overrun'
  <2>1. Shown' = NoEvent /\ table' = table
    <3>1. FindExact(r) = 0
      BY <1>2, <1>4 DEF SetInternal
    <3> QED BY <1>2, <1>4, <3>1, NoPlace DEF Shown, Copied
  <2> QED BY <1>1, <1>2, <2>1 DEF Route!Idle, Route!Quiet, Route!Next
<1> QED BY <1>3, <1>4

LEMMA ConfigureRoute ==
  ASSUME TypeOK, Keys, Configure
  PROVE  Route!Next
BY IflistAddRoute, IflistRemoveRoute, CheckDflRoute, RtableClearRoute, RtableSetRoute, CmpEntry,
   ForwardAssumption DEF Configure

\* csp_send_direct and the router begin with all the hops.
LEMMA BeginRoute ==
  ASSUME TypeOK, NEW id \in Id, NEW i \in Ifaces \cup {NoIface}, Begin(id, i)
  PROVE  Route!Next
<1>1. pc = "idle" /\ pc' # "idle" /\ Shown' = NoEvent
  BY DEF Begin, Shown, Copied
<1>2. list' = list /\ dfl' = dfl /\ table' = table /\ Listed' = Listed /\ overrun' = overrun
  BY DEF Begin, configured, Listed
<1>3. idout' = id /\ from' = i /\ tried' = {} /\ id.dst \in Nodes
  BY DEF Begin, Id
<1>k. PICK k : k = FindRoute(id.dst)
  OBVIOUS
<1>4. Chosen' = IF k = 0 THEN NoVia ELSE table[k].addr
  BY <1>2, <1>3, <1>k DEF Chosen, FindRoute
<1>5. Chosen' \in Tables!Choices(id.dst)
  BY <1>4, <1>k, LongestMatches DEF Tables!Choices
<1>6. Chosen' \in Route!Choices(id.dst)
  BY <1>5 DEF Tables!Choices, Route!Choices, Route!Matching, Tables!Matching, Route!Longest,
     Tables!Longest, Route!RouteNetwork, Tables!RouteNetwork, Route!HostBits, Tables!HostBits
<1>7. Tables!Hops(idout.dst, from, Chosen)' = Route!Hops(id.dst, i, Chosen')
  BY <1>2, <1>3 DEF Route!Hops, Tables!Hops, Route!Onward, Tables!Onward, Route!Similar, Tables!Similar,
  Route!Direct, Tables!Direct, Route!Within, Tables!Within, Route!Matching, Tables!Matching,
  Route!Longest, Tables!Longest, Route!Hop, Tables!Hop, Route!Network, Tables!Network,
  Route!RouteNetwork, Tables!RouteNetwork, Route!HostBits, Tables!HostBits
<1>8. Todo' = Route!Hops(id.dst, i, Chosen')
  BY <1>1, <1>3, <1>7 DEF Todo, AllHops
<1>9. Route!Begin(id.dst, i)
  BY <1>1, <1>2, <1>3, <1>6, <1>8 DEF Route!Begin, Job, Todo, AllHops
<1> QED BY <1>3, <1>9 DEF Route!Next

\* A round either passes its interface over, or tries a hop that is still to be tried.
LEMMA SkipRoute ==
  ASSUME UNCHANGED configured, pc # "idle", pc' # "idle", idout'.dst = idout.dst, from' = from,
         event' = NoEvent, tried' = tried
  PROVE  Route!Next
<1>1. Listed' = Listed /\ dfl' = dfl /\ table' = table
  BY DEF configured, Listed
<1>2. Job' = Job /\ Todo' = Todo /\ Shown' = NoEvent
  BY SameHops DEF Job, Todo, Shown, Copied
<1> QED BY <1>1, <1>2 DEF Route!Quiet, Route!Next, Todo, AllHops

LEMMA PassRoute ==
  ASSUME UNCHANGED configured, pc # "idle", pc' # "idle", idout'.dst = idout.dst, from' = from,
         NEW i \in Ifaces, NEW via \in Nodes \cup {NoVia}, NEW id \in Id, Pass(i, via, id),
         [iface |-> i, via |-> via] \in AllHops \ tried
  PROVE  Route!Next
<1>h. PICK hop : hop = [iface |-> i, via |-> via]
  OBVIOUS
<1>1. Listed' = Listed /\ dfl' = dfl /\ table' = table
  BY DEF configured, Listed
<1>2. tried' = tried \cup {hop} /\ hop \in Todo
  BY <1>h DEF Pass, Todo
<1>3. Job' = Job /\ Todo' = Todo \ {hop}
  BY <1>2, SameHops DEF Job, Todo
<1>4. Shown' \in {[op |-> "copy", hop |-> hop], NoEvent}
  <2>1. CASE event' = NoEvent
    BY <2>1 DEF Shown, Copied
  <2>2. CASE event' = [op |-> "copy", iface |-> i, via |-> via, id |-> id]
    BY <1>h, <2>2, Events, EventAssumption DEF Shown, Copied
  <2> QED BY <2>1, <2>2 DEF Pass
<1>5. Route!Emit(hop)
  BY <1>1, <1>2, <1>3, <1>4 DEF Route!Emit, Todo, AllHops
<1> QED BY <1>2, <1>5 DEF Route!Next, Todo, AllHops

\* The call returns when it has tried them all.
LEMMA ReturnRoute ==
  ASSUME TypeOK, Return, pc # "idle", AllHops \subseteq tried
  PROVE  Route!Next
<1>1. Listed' = Listed /\ dfl' = dfl /\ table' = table
  BY DEF Return, configured, Listed
<1>2. Job = [dst |-> idout.dst, from |-> from] /\ Job' = NoJob
  BY DEF Return, Job
<1>3. Job # NoJob
  BY <1>2, ForwardAssumption DEF TypeOK, Id
<1>4. Todo = {} /\ Todo' = {} /\ Shown' = NoEvent
  BY DEF Return, Todo, Shown, Copied
<1> QED BY <1>1, <1>2, <1>3, <1>4 DEF Route!End, Route!Next, Todo, AllHops

LEMMA ToLoRoute ==
  ASSUME RInv, ToLo
  PROVE  Route!Next
<1>1. TypeOK /\ pc = "lo" /\ InLo /\ AllHops = {[iface |-> Lo, via |-> NoVia]}
  BY LoHops DEF RInv, Progress, ToLo, InLo
<1>2. CASE found /\ Return
  BY <1>1, <1>2, ReturnRoute DEF InLo
<1>3. CASE ~found
  <2>1. Pass(Lo, NoVia, idout) /\ UNCHANGED <<configured, pc, idout, from>>
    BY <1>3 DEF ToLo
  <2>2. idout \in Id /\ tried = {}
    BY <1>1, <1>3 DEF TypeOK, InLo
  <2> QED BY <1>1, <2>1, <2>2, Addresses, PassRoute
<1> QED BY <1>2, <1>3 DEF ToLo

LEMMA SubnetRoundRoute ==
  ASSUME RInv, SubnetRound
  PROVE  Route!Next
<1>n. PICK n : n = BySubnet(idout.dst)
  OBVIOUS
<1>1. TypeOK /\ Origin /\ pc = "subnet" /\ pc' = "subnet" /\ InSubnet
  BY DEF RInv, Progress, SubnetRound
<1>2. /\ n \in cur + 1 .. Len(list) /\ Fits(n) /\ list[n] \in Ifaces
      /\ cur \in Nat /\ Len(list) \in Nat /\ DOMAIN list = 1 .. Len(list)
  BY <1>1, <1>n, SubnetFound, ListPositions DEF SubnetRound, Fits
<1>3. idout' = idout /\ from' = from /\ UNCHANGED configured
  BY DEF SubnetRound, Skip
<1>4. CASE Back(list[n])
  <2>1. event' = NoEvent /\ tried' = tried
    BY <1>n, <1>4 DEF SubnetRound, Skip
  <2> QED BY <1>1, <1>3, <2>1, SkipRoute
<1>5. CASE ~Back(list[n])
  <2>1. Pass(list[n], NoVia, Rewritten(list[n])) /\ Rewritten(list[n]) \in Id
    <3>1. Pass(list[n], NoVia, Rewritten(list[n]))
      BY <1>n, <1>5 DEF SubnetRound
    <3>2. Rewritten(list[n]) \in Id
      BY <1>1, <1>2, Addresses DEF Rewritten, TypeOK, Id
    <3> QED BY <3>1, <3>2
  <2>2. AllHops = Over({m \in 1 .. Len(list) : Fits(m)})
    BY <1>1, <1>2, SubnetHops DEF InSubnet
  <2>3. [iface |-> list[n], via |-> NoVia] \in AllHops
    BY <1>2, <1>5, <2>2 DEF Over
  <2>4. \A m \in 1 .. cur : list[m] # list[n]
    BY <1>1, <1>2 DEF TypeOK
  <2>5. [iface |-> list[n], via |-> NoVia] \notin tried
    BY <1>1, <2>4 DEF InSubnet, Over
  <2> QED BY <1>1, <1>2, <1>3, <2>1, <2>3, <2>5, PassRoute
<1> QED BY <1>4, <1>5

LEMMA DflRoundRoute ==
  ASSUME RInv, DflRound
  PROVE  Route!Next
<1>n. PICK n : n = ByDfl
  OBVIOUS
<1>1. TypeOK /\ Origin /\ pc = "dfl" /\ pc' = "dfl" /\ InDfl
  BY DEF RInv, Progress, DflRound
<1>2. /\ n \in cur + 1 .. Len(list) /\ list[n] \in dfl /\ list[n] \in Ifaces
      /\ cur \in Nat /\ Len(list) \in Nat /\ DOMAIN list = 1 .. Len(list)
  BY <1>1, <1>n, DflFound, ListPositions DEF DflRound
<1>3. idout'.dst = idout.dst /\ from' = from /\ UNCHANGED configured
  BY <1>1 DEF DflRound, Skip, TypeOK, Id
<1>4. CASE Back(list[n])
  <2>1. event' = NoEvent /\ tried' = tried
    BY <1>n, <1>4 DEF DflRound, Skip
  <2> QED BY <1>1, <1>3, <2>1, SkipRoute
<1>5. CASE ~Back(list[n])
  <2>1. PICK id \in Id : Pass(list[n], NoVia, id)
    <3>1. Pass(list[n], NoVia, idout') /\ idout' = [idout EXCEPT !.src = SrcOn(list[n])]
      BY <1>n, <1>5 DEF DflRound
    <3>2. idout' \in Id
      BY <1>1, <1>2, <3>1, SrcOnType
    <3>3. \A id : id = idout' => Pass(list[n], NoVia, id)
      BY <3>1 DEF Pass
    <3> QED BY <3>2, <3>3
  <2>2. AllHops = Over({m \in 1 .. Len(list) : list[m] \in dfl})
    BY <1>1, DflHops DEF InDfl
  <2>3. [iface |-> list[n], via |-> NoVia] \in AllHops
    BY <1>2, <1>5, <2>2 DEF Over
  <2>4. \A m \in 1 .. cur : list[m] # list[n]
    BY <1>1, <1>2 DEF TypeOK
  <2>5. [iface |-> list[n], via |-> NoVia] \notin tried
    BY <1>1, <2>4 DEF InDfl, Over
  <2> QED BY <1>1, <1>2, <1>3, <2>1, <2>3, <2>5, PassRoute
<1> QED BY <1>4, <1>5

LEMMA RouteRoundRoute ==
  ASSUME RInv, RouteRound
  PROVE  Route!Next
<1>n. PICK n : n = IF cur = 0 THEN FindRoute(idout.dst) ELSE SearchBackward(cur)
  OBVIOUS
<1>1. TypeOK /\ Keys /\ Origin /\ pc = "route" /\ pc' = "route" /\ InRoute
  BY DEF RInv, Progress, RouteRound
<1>2. /\ n \in DOMAIN table /\ Leader # 0 /\ Alike(n) /\ (cur # 0 => n < cur)
      /\ table[n] \in Entry /\ cur \in Nat /\ DOMAIN table = 1 .. Len(table) /\ Len(table) \in Nat
  BY <1>1, <1>n, NextRoute, ListPositions DEF RouteRound
<1>3. idout'.dst = idout.dst /\ from' = from /\ UNCHANGED configured
  BY <1>1 DEF RouteRound, Skip, TypeOK, Id
<1>4. CASE Back(table[n].iface)
  <2>1. event' = NoEvent /\ tried' = tried
    BY <1>n, <1>4 DEF RouteRound, Skip
  <2> QED BY <1>1, <1>3, <2>1, SkipRoute
<1>5. CASE ~Back(table[n].iface)
  <2>0. table[n].iface \in Ifaces /\ table[n].via \in Nodes \cup {NoVia}
    BY <1>2 DEF Entry
  <2>1. PICK id \in Id : Pass(table[n].iface, table[n].via, id)
    <3>1. /\ Pass(table[n].iface, table[n].via, idout')
          /\ idout' = [idout EXCEPT !.src = SrcOn(table[n].iface)]
      BY <1>n, <1>5 DEF RouteRound
    <3>2. idout' \in Id
      BY <1>1, <2>0, <3>1, SrcOnType
    <3>3. \A id : id = idout' => Pass(table[n].iface, table[n].via, id)
      BY <3>1 DEF Pass
    <3> QED BY <3>2, <3>3
  <2>2. AllHops = OverRoutes({m \in DOMAIN table : Alike(m)})
    BY <1>1, <1>2, RouteHops DEF InRoute
  <2>3. [iface |-> table[n].iface, via |-> table[n].via] \in AllHops
    BY <1>2, <1>5, <2>2 DEF OverRoutes
  <2>4. \A m \in DOMAIN table : Alike(m) /\ m # n => table[m].iface # table[n].iface
    BY <1>1, <1>2 DEF Keys, Key, Alike
  <2>5. [iface |-> table[n].iface, via |-> table[n].via] \notin tried
    <3>1. CASE cur = 0
      BY <1>1, <3>1 DEF InRoute
    <3>2. CASE cur # 0
      <4>1. \A m \in cur .. Len(table) : m \in DOMAIN table /\ m # n
        BY <1>2, <3>2
      <4>2. tried = OverRoutes({m \in cur .. Len(table) : Alike(m)})
        BY <1>1, <3>2 DEF InRoute
      <4> QED BY <2>4, <4>1, <4>2 DEF OverRoutes
    <3> QED BY <3>1, <3>2
  <2> QED BY <1>1, <1>3, <2>0, <2>1, <2>3, <2>5, PassRoute
<1> QED BY <1>4, <1>5

\* A loop that found an interface ends when there is no other.
LEMMA LoopEndRoute ==
  ASSUME RInv, LoopEnd
  PROVE  Route!Next
<1>0. TypeOK /\ Origin /\ Progress /\ pc # "idle"
  BY DEF RInv, LoopEnd
<1>1. CASE ~Return
  <2>1. /\ UNCHANGED <<configured, idout, from, tried>> /\ pc' # "idle"
        /\ event' = NoEvent
    BY <1>1 DEF LoopEnd
  <2> QED BY <1>0, <2>1, SkipRoute
<1>2. CASE Return
  <2>0. /\ Len(list) \in Nat /\ DOMAIN list = 1 .. Len(list) /\ cur \in Nat
        /\ Len(table) \in Nat /\ DOMAIN table = 1 .. Len(table)
    BY <1>0, ListPositions
  <2>1. CASE pc = "subnet" /\ BySubnet(idout.dst) = 0 /\ found
    <3>1. InSubnet /\ \A n \in cur + 1 .. Len(list) : ~Fits(n)
      BY <1>0, <2>1, SubnetFound DEF Progress, Fits
    <3>2. cur <= Len(list)
      BY <1>0, <2>1 DEF TypeOK
    <3>3. {n \in 1 .. Len(list) : Fits(n)} = {n \in 1 .. cur : Fits(n)}
      BY <2>0, <3>1, <3>2
    <3>4. \E n \in 1 .. Len(list) : Fits(n)
      BY <2>0, <2>1, <3>1, <3>2 DEF InSubnet
    <3>5. AllHops = tried
      BY <1>0, <3>1, <3>3, <3>4, SubnetHops DEF InSubnet
    <3> QED BY <1>0, <1>2, <3>5, ReturnRoute
  <2>2. CASE /\ pc = "route" /\ found
             /\ (IF cur = 0 THEN FindRoute(idout.dst) ELSE SearchBackward(cur)) = 0
    <3>1. InRoute /\ cur # 0 /\ Leader # 0 /\ Alike(cur) /\ SearchBackward(cur) = 0
      BY <1>0, <2>2 DEF Progress, InRoute
    <3>2. cur \in DOMAIN table
      BY <1>0, <2>0, <2>2, <3>1 DEF TypeOK
    <3>3. \A n \in 1 .. cur - 1 : ~Alike(n)
      <4>1. \A n \in 1 .. cur - 1 :
               ~(table[n].mask = table[cur].mask /\ table[n].addr = table[cur].addr)
        BY <1>0, <3>1, <3>2, BackwardFound
      <4> QED BY <3>1, <4>1 DEF Alike
    <3>4. {n \in DOMAIN table : Alike(n)} = {n \in cur .. Len(table) : Alike(n)}
      BY <2>0, <3>2, <3>3
    <3>5. AllHops = tried
      BY <1>0, <3>1, <3>4, RouteHops DEF InRoute
    <3> QED BY <1>0, <1>2, <3>5, ReturnRoute
  <2>3. CASE pc = "dfl" /\ ByDfl = 0
    <3>1. InDfl /\ \A n \in cur + 1 .. Len(list) : list[n] \notin dfl
      BY <1>0, <2>3, DflFound DEF Progress
    <3>2. cur <= Len(list)
      BY <1>0, <2>3 DEF TypeOK
    <3>3. {n \in 1 .. Len(list) : list[n] \in dfl} = {n \in 1 .. cur : list[n] \in dfl}
      BY <2>0, <3>1, <3>2
    <3>4. AllHops = tried
      BY <1>0, <3>1, <3>3, DflHops DEF InDfl
    <3> QED BY <1>0, <1>2, <3>4, ReturnRoute
  <2> QED BY <1>2, <2>1, <2>2, <2>3 DEF LoopEnd, Return
<1> QED BY <1>1, <1>2

LEMMA StepRoute ==
  ASSUME RInv, [Next]_vars
  PROVE  [Route!Next]_(Route!vars)
<1>1. CASE UNCHANGED vars
  BY <1>1 DEF vars, configured, sending, Route!vars, Listed, Job, Shown, Copied, Chosen, FindRoute,
     Tables!Hops, Tables!Onward, Tables!Similar, Tables!Direct, Tables!Within, Tables!Matching,
     Tables!Longest, Tables!Hop
<1>2. CASE Configure
  BY <1>2, ConfigureRoute DEF RInv
<1>3. ASSUME NEW id \in Sends, Send(id) PROVE Route!Next
  BY <1>3, BeginRoute, ForwardAssumption DEF Send, Id, RInv
<1>4. ASSUME NEW r \in Receives, Forward(r) PROVE Route!Next
  <2>1. r.id \in Id /\ r.iface \in Ifaces
    BY ForwardAssumption DEF Id
  <2> QED BY <1>4, <2>1, BeginRoute DEF Forward, RInv
<1>5. CASE Step
  BY <1>5, ToLoRoute, SubnetRoundRoute, RouteRoundRoute, DflRoundRoute, LoopEndRoute DEF Step
<1> QED BY <1>1, <1>2, <1>3, <1>4, <1>5 DEF Next

(* If every packet to route comes over an interface with a subnet, the lists, *)
(* tables and loops do what CspRoute says: every interface of one kind, none  *)
(* twice and none back, over the longest route as it was last set.            *)
THEOREM ForwardingImplementsRoute == ASSUME Subnets PROVE Spec => RouteSpec
<1>1. Init => RInv /\ Route!Init
  BY RInvInit, InitRoute
<1>2. RInv /\ [Next]_vars => RInv' /\ [Route!Next]_(Route!vars)
  BY RInvStep, StepRoute
<1> QED BY <1>1, <1>2, PTL DEF Spec, RouteSpec, Route!Spec

================================================================================
