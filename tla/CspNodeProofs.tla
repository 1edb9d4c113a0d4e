----------------------------- MODULE CspNodeProofs -----------------------------
(***************************************************************************)
(* The node for every number of packets, connections, sockets and contexts, *)
(* in the main loop or as preemptive tasks: no packet is lost or in two     *)
(* places, and no open connection is forgotten.                             *)
(*                                                                          *)
(* IInv, the inductive invariant of types and packets, comes first: a lemma *)
(* for each move of a packet from one place to another, then a lemma for    *)
(* each action. Accounts, that each open connection is answered for, is     *)
(* proved on top of it, again action by action.                             *)
(***************************************************************************)
EXTENDS CspNode, SequenceTheorems, TLAPS

(* Packet b is in one place: of this kind, and j says in which one of that   *)
(* kind (of a kind that has one only, any j will do).                        *)
Kinds == {"pool", "driver", "qfifo", "rxq", "sockq", "hand", "copy"}
Indices == Conns \cup ConnLess \cup Ctx

Sits(b, kind, j) ==
    /\ kind = "rxq" => j \in Conns
    /\ kind = "sockq" => j \in ConnLess
    /\ kind \in {"hand", "copy"} => j \in Ctx
    /\ b \in pool <=> kind = "pool"
    /\ b = driver <=> kind = "driver"
    /\ b \in Range(qfifo) <=> kind = "qfifo"
    /\ \A c \in Conns : b \in Range(rxq[c]) <=> kind = "rxq" /\ j = c
    /\ \A s \in ConnLess : b \in Range(sockq[s]) <=> kind = "sockq" /\ j = s
    /\ \A x \in Ctx : hand[x] = b <=> kind = "hand" /\ j = x
    /\ \A x \in Ctx : copy[x] = b <=> kind = "copy" /\ j = x

Owned == \A b \in Buffers : \E kind \in Kinds, j \in Indices : Sits(b, kind, j)

(* The types of the places, and that a queue holds a packet once.            *)
PoolType == pool \subseteq Buffers /\ driver \in Buffers \cup {NoBuf}
QfifoType == qfifo \in Seq(Buffers) /\ Len(qfifo) <= QfifoLen /\ IsInjective(qfifo)
RxqType ==
    /\ rxq \in [Conns -> Seq(Buffers)]
    /\ \A c \in Conns : Len(rxq[c]) <= RxqLen /\ IsInjective(rxq[c])
SockqType ==
    /\ sockq \in [Sockets -> Seq(Buffers \cup Conns)]
    /\ \A s \in Sockets : Len(sockq[s]) <= RxqLen
    /\ \A s \in ConnLess : sockq[s] \in Seq(Buffers) /\ IsInjective(sockq[s])
    /\ \A s \in Sockets \ ConnLess : sockq[s] \in Seq(Conns)
HandType ==
    /\ hand \in [Ctx -> Buffers \cup {NoBuf}]
    /\ copy \in [Ctx -> Buffers \cup {NoBuf}]

(* What the router has in its queue or in its hands has a header.            *)
HdrType ==
    /\ hdr \in [Buffers -> Header \cup {NoHdr}]
    /\ \A b \in Buffers : b \in Range(qfifo) \/ hand[Router] = b => hdr[b] \in Header

Packets == PoolType /\ QfifoType /\ RxqType /\ SockqType /\ HandType /\ HdrType /\ Owned

------------------------------------------------------------------------------
(* Queues as sets: what a dequeue and an enqueue do to them.                 *)
LEMMA Dequeue ==
  ASSUME NEW S, NEW q \in Seq(S), q # <<>>, IsInjective(q)
  PROVE  /\ Head(q) \in S /\ Head(q) \in Range(q)
         /\ Tail(q) \in Seq(S) /\ IsInjective(Tail(q))
         /\ Range(Tail(q)) = Range(q) \ {Head(q)}
         /\ Len(Tail(q)) = Len(q) - 1 /\ Len(q) \in Nat
<1>1. /\ Head(q) = q[1] /\ 1 \in DOMAIN q /\ Len(q) \in Nat /\ Head(q) \in S
      /\ DOMAIN q = 1 .. Len(q)
      /\ \A i \in 1 .. Len(q) : q[i] \in S
  OBVIOUS
<1>2. /\ Tail(q) \in Seq(S) /\ DOMAIN Tail(q) = 1 .. Len(q) - 1
      /\ Len(Tail(q)) = Len(q) - 1
      /\ \A i \in 1 .. Len(q) - 1 : Tail(q)[i] = q[i + 1]
  BY <1>1, HeadTailProperties
<1>3. IsInjective(Tail(q))
  BY <1>1, <1>2 DEF IsInjective
<1>4. ASSUME NEW b \in Range(Tail(q)) PROVE b \in Range(q) \ {Head(q)}
  <2>1. PICK i \in 1 .. Len(q) - 1 : b = Tail(q)[i]
    BY <1>2 DEF Range
  <2>2. b = q[i + 1] /\ i + 1 \in 1 .. Len(q) /\ i + 1 # 1
    BY <1>1, <1>2, <2>1
  <2> QED BY <1>1, <2>2 DEF Range, IsInjective
<1>5. ASSUME NEW b \in Range(q), b # Head(q) PROVE b \in Range(Tail(q))
  <2>1. PICK i \in 1 .. Len(q) : b = q[i]
    BY <1>1 DEF Range
  <2>2. i - 1 \in 1 .. Len(q) - 1 /\ (i - 1) + 1 = i
    BY <1>1, <1>5, <2>1
  <2>3. Tail(q)[i - 1] = b /\ i - 1 \in DOMAIN Tail(q)
    BY <1>2, <2>1, <2>2
  <2> QED BY <2>3 DEF Range
<1>6. Head(q) \in Range(q)
  BY <1>1 DEF Range
<1> QED BY <1>1, <1>2, <1>3, <1>4, <1>5, <1>6

LEMMA Enqueue ==
  ASSUME NEW S, NEW q \in Seq(S), IsInjective(q), NEW b \in S, b \notin Range(q)
  PROVE  /\ Append(q, b) \in Seq(S) /\ IsInjective(Append(q, b))
         /\ Range(Append(q, b)) = Range(q) \cup {b}
         /\ Len(Append(q, b)) = Len(q) + 1 /\ Len(q) \in Nat
<1>1. /\ Len(q) \in Nat /\ DOMAIN q = 1 .. Len(q)
      /\ DOMAIN Append(q, b) = 1 .. Len(q) + 1
      /\ \A i \in 1 .. Len(q) : Append(q, b)[i] = q[i]
      /\ Append(q, b)[Len(q) + 1] = b /\ Append(q, b) \in Seq(S)
      /\ Len(Append(q, b)) = Len(q) + 1
  BY AppendProperties
<1>2. \A i \in 1 .. Len(q) : q[i] # b
  BY <1>1 DEF Range
<1>3. IsInjective(Append(q, b))
  BY <1>1, <1>2 DEF IsInjective
<1>4. Range(Append(q, b)) \subseteq Range(q) \cup {b}
  BY <1>1 DEF Range
<1>5. Range(q) \subseteq Range(Append(q, b))
  <2> SUFFICES ASSUME NEW c \in Range(q) PROVE c \in Range(Append(q, b))
    OBVIOUS
  <2>1. PICK i \in 1 .. Len(q) : c = q[i]
    BY <1>1 DEF Range
  <2>2. i \in DOMAIN Append(q, b) /\ c = Append(q, b)[i]
    BY <1>1, <2>1
  <2> QED BY <2>2 DEF Range
<1>6. b \in Range(Append(q, b))
  <2>1. Len(q) + 1 \in DOMAIN Append(q, b)
    BY <1>1
  <2> QED BY <1>1, <2>1 DEF Range
<1> QED BY <1>1, <1>3, <1>4, <1>5, <1>6

------------------------------------------------------------------------------
(* How packets move, one lemma per pair of places.                           *)

\* pool to driver
LEMMA PoolToDriver ==
  ASSUME Packets, NEW b \in pool, driver = NoBuf,
         driver' = b, pool' = pool \ {b}, UNCHANGED <<hdr, qfifo, rxq, sockq, hand, copy>>
  PROVE  Packets'
<1>1. b \in Buffers /\ \E j \in Indices : Sits(b, "pool", j)
  BY DEF Packets, PoolType, Owned, Sits, Ctx
<1>2. PICK j \in Indices : Sits(b, "pool", j)
  BY <1>1
<1>3. j \in Indices /\ Sits(b, "driver", j)'
  BY <1>1, <1>2, NodeAssumption DEF Packets, PoolType, QfifoType, RxqType, SockqType,
     HandType, HdrType, NodeAssumption, Ctx, Sits, Release, Indices
<1>4. ASSUME NEW a \in Buffers, a # b, NEW kind \in Kinds, NEW n \in Indices,
             Sits(a, kind, n)
      PROVE  Sits(a, kind, n)'
  BY <1>1, <1>4, NodeAssumption DEF Packets, PoolType, QfifoType, RxqType, SockqType,
     HandType, HdrType, NodeAssumption, Ctx, Sits, Release, Indices
<1>5. Owned'
  BY <1>1, <1>3, <1>4 DEF Packets, Owned, Kinds
<1> QED BY <1>1, <1>2, <1>5, NodeAssumption DEF Packets, PoolType, QfifoType, RxqType,
           SockqType, HandType, HdrType, NodeAssumption, Ctx, Sits, Release, Indices

\* pool to the hands of an application
LEMMA PoolToHand ==
  ASSUME Packets, NEW x \in Apps, NEW b \in pool, hand[x] = NoBuf,
         pool' = pool \ {b}, hand' = [hand EXCEPT ![x] = b],
         UNCHANGED <<hdr, driver, qfifo, rxq, sockq, copy>>
  PROVE  Packets'
<1>1. b \in Buffers /\ \E j \in Indices : Sits(b, "pool", j)
  BY DEF Packets, PoolType, Owned, Sits, Ctx
<1>2. PICK j \in Indices : Sits(b, "pool", j)
  BY <1>1
<1>3. x \in Indices /\ Sits(b, "hand", x)'
  BY <1>1, <1>2, NodeAssumption DEF Packets, PoolType, QfifoType, RxqType, SockqType,
     HandType, HdrType, NodeAssumption, Ctx, Sits, Release, Indices
<1>4. ASSUME NEW a \in Buffers, a # b, NEW kind \in Kinds, NEW n \in Indices,
             Sits(a, kind, n)
      PROVE  Sits(a, kind, n)'
  BY <1>1, <1>4, NodeAssumption DEF Packets, PoolType, QfifoType, RxqType, SockqType,
     HandType, HdrType, NodeAssumption, Ctx, Sits, Release, Indices
<1>5. Owned'
  BY <1>1, <1>3, <1>4 DEF Packets, Owned, Kinds
<1> QED BY <1>1, <1>2, <1>5, NodeAssumption DEF Packets, PoolType, QfifoType, RxqType,
           SockqType, HandType, HdrType, NodeAssumption, Ctx, Sits, Release, Indices

\* pool to the clone of a transmission
LEMMA PoolToCopy ==
  ASSUME Packets, NEW x \in Ctx, NEW b \in pool, copy[x] = NoBuf,
         pool' = pool \ {b}, copy' = [copy EXCEPT ![x] = b],
         UNCHANGED <<hdr, driver, qfifo, rxq, sockq, hand>>
  PROVE  Packets'
<1>1. b \in Buffers /\ \E j \in Indices : Sits(b, "pool", j)
  BY DEF Packets, PoolType, Owned, Sits, Ctx
<1>2. PICK j \in Indices : Sits(b, "pool", j)
  BY <1>1
<1>3. x \in Indices /\ Sits(b, "copy", x)'
  BY <1>1, <1>2, NodeAssumption DEF Packets, PoolType, QfifoType, RxqType, SockqType,
     HandType, HdrType, NodeAssumption, Ctx, Sits, Release, Indices
<1>4. ASSUME NEW a \in Buffers, a # b, NEW kind \in Kinds, NEW n \in Indices,
             Sits(a, kind, n)
      PROVE  Sits(a, kind, n)'
  BY <1>1, <1>4, NodeAssumption DEF Packets, PoolType, QfifoType, RxqType, SockqType,
     HandType, HdrType, NodeAssumption, Ctx, Sits, Release, Indices
<1>5. Owned'
  BY <1>1, <1>3, <1>4 DEF Packets, Owned, Kinds
<1> QED BY <1>1, <1>2, <1>5, NodeAssumption DEF Packets, PoolType, QfifoType, RxqType,
           SockqType, HandType, HdrType, NodeAssumption, Ctx, Sits, Release, Indices

\* hands to pool
LEMMA HandToPool ==
  ASSUME Packets, NEW x \in Ctx, hand[x] \in Buffers, Release({hand[x]}),
         hand' = [hand EXCEPT ![x] = NoBuf],
         UNCHANGED <<driver, qfifo, rxq, sockq, copy>>
  PROVE  Packets'
<1>b. PICK b : b = hand[x]
  OBVIOUS
<1>1. b \in Buffers /\ \E j \in Indices : Sits(b, "hand", j)
  BY <1>b DEF Packets, PoolType, Owned, Sits, Ctx
<1>2. PICK j \in Indices : Sits(b, "hand", j)
  BY <1>1
<1>3. j \in Indices /\ Sits(b, "pool", j)'
  BY <1>1, <1>2, <1>b, NodeAssumption DEF Packets, PoolType, QfifoType, RxqType, SockqType,
     HandType, HdrType, NodeAssumption, Ctx, Sits, Release, Indices
<1>4. ASSUME NEW a \in Buffers, a # b, NEW kind \in Kinds, NEW n \in Indices,
             Sits(a, kind, n)
      PROVE  Sits(a, kind, n)'
  BY <1>1, <1>4, <1>b, NodeAssumption DEF Packets, PoolType, QfifoType, RxqType, SockqType,
     HandType, HdrType, NodeAssumption, Ctx, Sits, Release, Indices
<1>5. Owned'
  BY <1>1, <1>3, <1>4 DEF Packets, Owned, Kinds
<1> QED BY <1>1, <1>2, <1>5, <1>b, NodeAssumption DEF Packets, PoolType, QfifoType, RxqType,
           SockqType, HandType, HdrType, NodeAssumption, Ctx, Sits, Release, Indices

\* driver to pool
LEMMA DriverToPool ==
  ASSUME Packets, driver \in Buffers, Release({driver}), driver' = NoBuf,
         UNCHANGED <<qfifo, rxq, sockq, hand, copy>>
  PROVE  Packets'
<1>b. PICK b : b = driver
  OBVIOUS
<1>1. b \in Buffers /\ \E j \in Indices : Sits(b, "driver", j)
  BY <1>b DEF Packets, PoolType, Owned, Sits, Ctx
<1>2. PICK j \in Indices : Sits(b, "driver", j)
  BY <1>1
<1>3. j \in Indices /\ Sits(b, "pool", j)'
  BY <1>1, <1>2, <1>b, NodeAssumption DEF Packets, PoolType, QfifoType, RxqType, SockqType,
     HandType, HdrType, NodeAssumption, Ctx, Sits, Release, Indices
<1>4. ASSUME NEW a \in Buffers, a # b, NEW kind \in Kinds, NEW n \in Indices,
             Sits(a, kind, n)
      PROVE  Sits(a, kind, n)'
  BY <1>1, <1>4, <1>b, NodeAssumption DEF Packets, PoolType, QfifoType, RxqType, SockqType,
     HandType, HdrType, NodeAssumption, Ctx, Sits, Release, Indices
<1>5. Owned'
  BY <1>1, <1>3, <1>4 DEF Packets, Owned, Kinds
<1> QED BY <1>1, <1>2, <1>5, <1>b, NodeAssumption DEF Packets, PoolType, QfifoType, RxqType,
           SockqType, HandType, HdrType, NodeAssumption, Ctx, Sits, Release, Indices

\* driver to router queue
LEMMA DriverToQfifo ==
  ASSUME Packets, NEW h \in Header, driver \in Buffers,
         Len(qfifo) < QfifoLen, qfifo' = Append(qfifo, driver),
         hdr' = [hdr EXCEPT ![driver] = h], driver' = NoBuf,
         UNCHANGED <<pool, rxq, sockq, hand, copy>>
  PROVE  Packets'
<1>b. PICK b : b = driver
  OBVIOUS
<1>q. /\ qfifo' \in Seq(Buffers) /\ IsInjective(qfifo') /\ Len(qfifo') <= QfifoLen
      /\ Range(qfifo') = Range(qfifo) \cup {b}
  BY <1>b, Enqueue, NodeAssumption DEF Packets, QfifoType, Owned, Sits, NodeAssumption
<1>1. b \in Buffers /\ \E j \in Indices : Sits(b, "driver", j)
  BY <1>b DEF Packets, PoolType, Owned, Sits, Ctx
<1>2. PICK j \in Indices : Sits(b, "driver", j)
  BY <1>1
<1>3. j \in Indices /\ Sits(b, "qfifo", j)'
  BY <1>1, <1>2, <1>q, <1>b, NodeAssumption DEF Packets, PoolType, QfifoType, RxqType,
     SockqType, HandType, HdrType, NodeAssumption, Ctx, Sits, Release, Indices
<1>4. ASSUME NEW a \in Buffers, a # b, NEW kind \in Kinds, NEW n \in Indices,
             Sits(a, kind, n)
      PROVE  Sits(a, kind, n)'
  BY <1>1, <1>4, <1>q, <1>b, NodeAssumption DEF Packets, PoolType, QfifoType, RxqType,
     SockqType, HandType, HdrType, NodeAssumption, Ctx, Sits, Release, Indices
<1>5. Owned'
  BY <1>1, <1>3, <1>4 DEF Packets, Owned, Kinds
<1> QED BY <1>1, <1>2, <1>5, <1>q, <1>b, NodeAssumption DEF Packets, PoolType, QfifoType,
           RxqType, SockqType, HandType, HdrType, NodeAssumption, Ctx, Sits, Release,
           Indices

\* hands to router queue (loopback)
LEMMA HandToQfifo ==
  ASSUME Packets, NEW x \in Ctx, NEW h \in Header, hand[x] \in Buffers,
         Len(qfifo) < QfifoLen, qfifo' = Append(qfifo, hand[x]),
         hdr' = [hdr EXCEPT ![hand[x]] = h], hand' = [hand EXCEPT ![x] = NoBuf],
         UNCHANGED <<pool, driver, rxq, sockq, copy>>
  PROVE  Packets'
<1>b. PICK b : b = hand[x]
  OBVIOUS
<1>q. /\ qfifo' \in Seq(Buffers) /\ IsInjective(qfifo') /\ Len(qfifo') <= QfifoLen
      /\ Range(qfifo') = Range(qfifo) \cup {b}
  BY <1>b, Enqueue, NodeAssumption DEF Packets, QfifoType, Owned, Sits, NodeAssumption
<1>1. b \in Buffers /\ \E j \in Indices : Sits(b, "hand", j)
  BY <1>b DEF Packets, PoolType, Owned, Sits, Ctx
<1>2. PICK j \in Indices : Sits(b, "hand", j)
  BY <1>1
<1>3. j \in Indices /\ Sits(b, "qfifo", j)'
  BY <1>1, <1>2, <1>q, <1>b, NodeAssumption DEF Packets, PoolType, QfifoType, RxqType,
     SockqType, HandType, HdrType, NodeAssumption, Ctx, Sits, Release, Indices
<1>4. ASSUME NEW a \in Buffers, a # b, NEW kind \in Kinds, NEW n \in Indices,
             Sits(a, kind, n)
      PROVE  Sits(a, kind, n)'
  BY <1>1, <1>4, <1>q, <1>b, NodeAssumption DEF Packets, PoolType, QfifoType, RxqType,
     SockqType, HandType, HdrType, NodeAssumption, Ctx, Sits, Release, Indices
<1>5. Owned'
  BY <1>1, <1>3, <1>4 DEF Packets, Owned, Kinds
<1> QED BY <1>1, <1>2, <1>5, <1>q, <1>b, NodeAssumption DEF Packets, PoolType, QfifoType,
           RxqType, SockqType, HandType, HdrType, NodeAssumption, Ctx, Sits, Release,
           Indices

\* router queue to the router's hands
LEMMA QfifoToHand ==
  ASSUME Packets, qfifo # <<>>, hand[Router] = NoBuf,
         qfifo' = Tail(qfifo), hand' = [hand EXCEPT ![Router] = Head(qfifo)],
         UNCHANGED <<pool, hdr, driver, rxq, sockq, copy>>
  PROVE  Packets'
<1>b. PICK b : b = Head(qfifo)
  OBVIOUS
<1>q. /\ b \in Buffers /\ b \in Range(qfifo)
      /\ qfifo' \in Seq(Buffers) /\ IsInjective(qfifo') /\ Len(qfifo') <= QfifoLen
      /\ Range(qfifo') = Range(qfifo) \ {b}
  BY <1>b, Dequeue, NodeAssumption DEF Packets, QfifoType, NodeAssumption
<1>1. b \in Buffers /\ \E j \in Indices : Sits(b, "qfifo", j)
  BY <1>q, <1>b DEF Packets, PoolType, Owned, Sits, Ctx
<1>2. PICK j \in Indices : Sits(b, "qfifo", j)
  BY <1>1
<1>3. Router \in Indices /\ Sits(b, "hand", Router)'
  BY <1>1, <1>2, <1>q, <1>b, NodeAssumption DEF Packets, PoolType, QfifoType, RxqType,
     SockqType, HandType, HdrType, NodeAssumption, Ctx, Sits, Release, Indices
<1>4. ASSUME NEW a \in Buffers, a # b, NEW kind \in Kinds, NEW n \in Indices,
             Sits(a, kind, n)
      PROVE  Sits(a, kind, n)'
  BY <1>1, <1>4, <1>q, <1>b, NodeAssumption DEF Packets, PoolType, QfifoType, RxqType,
     SockqType, HandType, HdrType, NodeAssumption, Ctx, Sits, Release, Indices
<1>5. Owned'
  BY <1>1, <1>3, <1>4 DEF Packets, Owned, Kinds
<1> QED BY <1>1, <1>2, <1>5, <1>q, <1>b, NodeAssumption DEF Packets, PoolType, QfifoType,
           RxqType, SockqType, HandType, HdrType, NodeAssumption, Ctx, Sits, Release,
           Indices

\* the router's hands to the receive queue of a connection
LEMMA HandToRxq ==
  ASSUME Packets, NEW c \in Conns, hand[Router] \in Buffers, Len(rxq[c]) < RxqLen,
         rxq' = [rxq EXCEPT ![c] = Append(@, hand[Router])],
         hand' = [hand EXCEPT ![Router] = NoBuf],
         UNCHANGED <<pool, hdr, driver, qfifo, sockq, copy>>
  PROVE  Packets'
<1>b. PICK b : b = hand[Router]
  OBVIOUS
<1>q. /\ rxq'[c] \in Seq(Buffers) /\ IsInjective(rxq'[c]) /\ Len(rxq'[c]) <= RxqLen
      /\ Range(rxq'[c]) = Range(rxq[c]) \cup {b}
      /\ \A d \in Conns : d # c => rxq'[d] = rxq[d]
      /\ rxq' \in [Conns -> Seq(Buffers)]
  BY <1>b, Enqueue, NodeAssumption DEF Packets, RxqType, Owned, Sits, NodeAssumption, Ctx
<1>1. b \in Buffers /\ \E j \in Indices : Sits(b, "hand", j)
  BY <1>b DEF Packets, PoolType, Owned, Sits, Ctx
<1>2. PICK j \in Indices : Sits(b, "hand", j)
  BY <1>1
<1>3. c \in Indices /\ Sits(b, "rxq", c)'
  BY <1>1, <1>2, <1>q, <1>b, NodeAssumption DEF Packets, PoolType, QfifoType, RxqType,
     SockqType, HandType, HdrType, NodeAssumption, Ctx, Sits, Release, Indices
<1>4. ASSUME NEW a \in Buffers, a # b, NEW kind \in Kinds, NEW n \in Indices,
             Sits(a, kind, n)
      PROVE  Sits(a, kind, n)'
  BY <1>1, <1>4, <1>q, <1>b, NodeAssumption DEF Packets, PoolType, QfifoType, RxqType,
     SockqType, HandType, HdrType, NodeAssumption, Ctx, Sits, Release, Indices
<1>5. Owned'
  BY <1>1, <1>3, <1>4 DEF Packets, Owned, Kinds
<1> QED BY <1>1, <1>2, <1>5, <1>q, <1>b, NodeAssumption DEF Packets, PoolType, QfifoType,
           RxqType, SockqType, HandType, HdrType, NodeAssumption, Ctx, Sits, Release,
           Indices

\* the router's hands to a connection-less socket
LEMMA HandToSockq ==
  ASSUME Packets, NEW s \in ConnLess, hand[Router] \in Buffers, Len(sockq[s]) < RxqLen,
         sockq' = [sockq EXCEPT ![s] = Append(@, hand[Router])],
         hand' = [hand EXCEPT ![Router] = NoBuf],
         UNCHANGED <<pool, hdr, driver, qfifo, rxq, copy>>
  PROVE  Packets'
<1>b. PICK b : b = hand[Router]
  OBVIOUS
<1>q. /\ sockq'[s] \in Seq(Buffers) /\ IsInjective(sockq'[s]) /\ Len(sockq'[s]) <= RxqLen
      /\ Range(sockq'[s]) = Range(sockq[s]) \cup {b}
      /\ \A t \in Sockets : t # s => sockq'[t] = sockq[t]
      /\ sockq' \in [Sockets -> Seq(Buffers \cup Conns)]
  BY <1>b, Enqueue, NodeAssumption DEF Packets, SockqType, Owned, Sits, NodeAssumption, Ctx
<1>1. b \in Buffers /\ \E j \in Indices : Sits(b, "hand", j)
  BY <1>b DEF Packets, PoolType, Owned, Sits, Ctx
<1>2. PICK j \in Indices : Sits(b, "hand", j)
  BY <1>1
<1>3. s \in Indices /\ Sits(b, "sockq", s)'
  BY <1>1, <1>2, <1>q, <1>b, NodeAssumption DEF Packets, PoolType, QfifoType, RxqType,
     SockqType, HandType, HdrType, NodeAssumption, Ctx, Sits, Release, Indices
<1>4. ASSUME NEW a \in Buffers, a # b, NEW kind \in Kinds, NEW n \in Indices,
             Sits(a, kind, n)
      PROVE  Sits(a, kind, n)'
  BY <1>1, <1>4, <1>q, <1>b, NodeAssumption DEF Packets, PoolType, QfifoType, RxqType,
     SockqType, HandType, HdrType, NodeAssumption, Ctx, Sits, Release, Indices
<1>5. Owned'
  BY <1>1, <1>3, <1>4 DEF Packets, Owned, Kinds
<1> QED BY <1>1, <1>2, <1>5, <1>q, <1>b, NodeAssumption DEF Packets, PoolType, QfifoType,
           RxqType, SockqType, HandType, HdrType, NodeAssumption, Ctx, Sits, Release,
           Indices

\* receive queue to pool
LEMMA RxqToPool ==
  ASSUME Packets, NEW c \in Conns, rxq[c] # <<>>, Release({Head(rxq[c])}),
         rxq' = [rxq EXCEPT ![c] = Tail(@)],
         UNCHANGED <<driver, qfifo, sockq, hand, copy>>
  PROVE  Packets'
<1>b. PICK b : b = Head(rxq[c])
  OBVIOUS
<1>q. /\ b \in Buffers /\ b \in Range(rxq[c])
      /\ rxq'[c] \in Seq(Buffers) /\ IsInjective(rxq'[c]) /\ Len(rxq'[c]) <= RxqLen
      /\ Range(rxq'[c]) = Range(rxq[c]) \ {b}
      /\ \A d \in Conns : d # c => rxq'[d] = rxq[d]
      /\ rxq' \in [Conns -> Seq(Buffers)]
  BY <1>b, Dequeue, NodeAssumption DEF Packets, RxqType, NodeAssumption
<1>1. b \in Buffers /\ \E j \in Indices : Sits(b, "rxq", j)
  BY <1>q, <1>b DEF Packets, PoolType, Owned, Sits, Ctx
<1>2. PICK j \in Indices : Sits(b, "rxq", j)
  BY <1>1
<1>3. j \in Indices /\ Sits(b, "pool", j)'
  BY <1>1, <1>2, <1>q, <1>b, NodeAssumption DEF Packets, PoolType, QfifoType, RxqType,
     SockqType, HandType, HdrType, NodeAssumption, Ctx, Sits, Release, Indices
<1>4. ASSUME NEW a \in Buffers, a # b, NEW kind \in Kinds, NEW n \in Indices,
             Sits(a, kind, n)
      PROVE  Sits(a, kind, n)'
  BY <1>1, <1>4, <1>q, <1>b, NodeAssumption DEF Packets, PoolType, QfifoType, RxqType,
     SockqType, HandType, HdrType, NodeAssumption, Ctx, Sits, Release, Indices
<1>5. Owned'
  BY <1>1, <1>3, <1>4 DEF Packets, Owned, Kinds
<1> QED BY <1>1, <1>2, <1>5, <1>q, <1>b, NodeAssumption DEF Packets, PoolType, QfifoType,
           RxqType, SockqType, HandType, HdrType, NodeAssumption, Ctx, Sits, Release,
           Indices

\* receive queue to an application
LEMMA RxqToHand ==
  ASSUME Packets, NEW x \in Apps, NEW c \in Conns, rxq[c] # <<>>, hand[x] = NoBuf,
         hand' = [hand EXCEPT ![x] = Head(rxq[c])],
         rxq' = [rxq EXCEPT ![c] = Tail(@)],
         UNCHANGED <<pool, hdr, driver, qfifo, sockq, copy>>
  PROVE  Packets'
<1>b. PICK b : b = Head(rxq[c])
  OBVIOUS
<1>q. /\ b \in Buffers /\ b \in Range(rxq[c])
      /\ rxq'[c] \in Seq(Buffers) /\ IsInjective(rxq'[c]) /\ Len(rxq'[c]) <= RxqLen
      /\ Range(rxq'[c]) = Range(rxq[c]) \ {b}
      /\ \A d \in Conns : d # c => rxq'[d] = rxq[d]
      /\ rxq' \in [Conns -> Seq(Buffers)]
  BY <1>b, Dequeue, NodeAssumption DEF Packets, RxqType, NodeAssumption
<1>1. b \in Buffers /\ \E j \in Indices : Sits(b, "rxq", j)
  BY <1>q, <1>b DEF Packets, PoolType, Owned, Sits, Ctx
<1>2. PICK j \in Indices : Sits(b, "rxq", j)
  BY <1>1
<1>3. x \in Indices /\ Sits(b, "hand", x)'
  BY <1>1, <1>2, <1>q, <1>b, NodeAssumption DEF Packets, PoolType, QfifoType, RxqType,
     SockqType, HandType, HdrType, NodeAssumption, Ctx, Sits, Release, Indices
<1>4. ASSUME NEW a \in Buffers, a # b, NEW kind \in Kinds, NEW n \in Indices,
             Sits(a, kind, n)
      PROVE  Sits(a, kind, n)'
  BY <1>1, <1>4, <1>q, <1>b, NodeAssumption DEF Packets, PoolType, QfifoType, RxqType,
     SockqType, HandType, HdrType, NodeAssumption, Ctx, Sits, Release, Indices
<1>5. Owned'
  BY <1>1, <1>3, <1>4 DEF Packets, Owned, Kinds
<1> QED BY <1>1, <1>2, <1>5, <1>q, <1>b, NodeAssumption DEF Packets, PoolType, QfifoType,
           RxqType, SockqType, HandType, HdrType, NodeAssumption, Ctx, Sits, Release,
           Indices

\* connection-less socket to an application
LEMMA SockqToHand ==
  ASSUME Packets, NEW x \in Apps, NEW s \in ConnLess, sockq[s] # <<>>, hand[x] = NoBuf,
         hand' = [hand EXCEPT ![x] = Head(sockq[s])],
         sockq' = [sockq EXCEPT ![s] = Tail(@)],
         UNCHANGED <<pool, hdr, driver, qfifo, rxq, copy>>
  PROVE  Packets'
<1>b. PICK b : b = Head(sockq[s])
  OBVIOUS
<1>q. /\ b \in Buffers /\ b \in Range(sockq[s])
      /\ sockq'[s] \in Seq(Buffers) /\ IsInjective(sockq'[s]) /\ Len(sockq'[s]) <= RxqLen
      /\ Range(sockq'[s]) = Range(sockq[s]) \ {b}
      /\ \A t \in Sockets : t # s => sockq'[t] = sockq[t]
      /\ sockq' \in [Sockets -> Seq(Buffers \cup Conns)]
  BY <1>b, Dequeue, NodeAssumption DEF Packets, SockqType, NodeAssumption
<1>1. b \in Buffers /\ \E j \in Indices : Sits(b, "sockq", j)
  BY <1>q, <1>b DEF Packets, PoolType, Owned, Sits, Ctx
<1>2. PICK j \in Indices : Sits(b, "sockq", j)
  BY <1>1
<1>3. x \in Indices /\ Sits(b, "hand", x)'
  BY <1>1, <1>2, <1>q, <1>b, NodeAssumption DEF Packets, PoolType, QfifoType, RxqType,
     SockqType, HandType, HdrType, NodeAssumption, Ctx, Sits, Release, Indices
<1>4. ASSUME NEW a \in Buffers, a # b, NEW kind \in Kinds, NEW n \in Indices,
             Sits(a, kind, n)
      PROVE  Sits(a, kind, n)'
  BY <1>1, <1>4, <1>q, <1>b, NodeAssumption DEF Packets, PoolType, QfifoType, RxqType,
     SockqType, HandType, HdrType, NodeAssumption, Ctx, Sits, Release, Indices
<1>5. Owned'
  BY <1>1, <1>3, <1>4 DEF Packets, Owned, Kinds
<1> QED BY <1>1, <1>2, <1>5, <1>q, <1>b, NodeAssumption DEF Packets, PoolType, QfifoType,
           RxqType, SockqType, HandType, HdrType, NodeAssumption, Ctx, Sits, Release,
           Indices

\* connection-less socket to pool
LEMMA SockqToPool ==
  ASSUME Packets, NEW s \in ConnLess, sockq[s] # <<>>, Release({Head(sockq[s])}),
         sockq' = [sockq EXCEPT ![s] = Tail(@)],
         UNCHANGED <<driver, qfifo, rxq, hand, copy>>
  PROVE  Packets'
<1>b. PICK b : b = Head(sockq[s])
  OBVIOUS
<1>q. /\ b \in Buffers /\ b \in Range(sockq[s])
      /\ sockq'[s] \in Seq(Buffers) /\ IsInjective(sockq'[s]) /\ Len(sockq'[s]) <= RxqLen
      /\ Range(sockq'[s]) = Range(sockq[s]) \ {b}
      /\ \A t \in Sockets : t # s => sockq'[t] = sockq[t]
      /\ sockq' \in [Sockets -> Seq(Buffers \cup Conns)]
  BY <1>b, Dequeue, NodeAssumption DEF Packets, SockqType, NodeAssumption
<1>1. b \in Buffers /\ \E j \in Indices : Sits(b, "sockq", j)
  BY <1>q, <1>b DEF Packets, PoolType, Owned, Sits, Ctx
<1>2. PICK j \in Indices : Sits(b, "sockq", j)
  BY <1>1
<1>3. j \in Indices /\ Sits(b, "pool", j)'
  BY <1>1, <1>2, <1>q, <1>b, NodeAssumption DEF Packets, PoolType, QfifoType, RxqType,
     SockqType, HandType, HdrType, NodeAssumption, Ctx, Sits, Release, Indices
<1>4. ASSUME NEW a \in Buffers, a # b, NEW kind \in Kinds, NEW n \in Indices,
             Sits(a, kind, n)
      PROVE  Sits(a, kind, n)'
  BY <1>1, <1>4, <1>q, <1>b, NodeAssumption DEF Packets, PoolType, QfifoType, RxqType,
     SockqType, HandType, HdrType, NodeAssumption, Ctx, Sits, Release, Indices
<1>5. Owned'
  BY <1>1, <1>3, <1>4 DEF Packets, Owned, Kinds
<1> QED BY <1>1, <1>2, <1>5, <1>q, <1>b, NodeAssumption DEF Packets, PoolType, QfifoType,
           RxqType, SockqType, HandType, HdrType, NodeAssumption, Ctx, Sits, Release,
           Indices

\* the packet in hand and its clone to pool
LEMMA HandAndCopyToPool ==
  ASSUME Packets, NEW x \in Ctx, hand[x] \in Buffers, copy[x] \in Buffers,
         Release({copy[x], hand[x]}), hand' = [hand EXCEPT ![x] = NoBuf],
         copy' = [copy EXCEPT ![x] = NoBuf], UNCHANGED <<driver, qfifo, rxq, sockq>>
  PROVE  Packets'
<1>b. PICK b, d : b = hand[x] /\ d = copy[x]
  OBVIOUS
<1>1. \E j \in Indices : Sits(b, "hand", j)
  BY <1>b DEF Packets, Owned, Sits
<1>2. \E j \in Indices : Sits(d, "copy", j)
  BY <1>b DEF Packets, Owned, Sits
<1>3. \E j \in Indices : Sits(b, "pool", j)'
  BY <1>1, <1>b, NodeAssumption DEF Packets, PoolType, HandType, NodeAssumption, Sits,
     Release
<1>4. \E j \in Indices : Sits(d, "pool", j)'
  BY <1>2, <1>b, NodeAssumption DEF Packets, PoolType, HandType, NodeAssumption, Sits,
     Release
<1>5. ASSUME NEW a \in Buffers, a # b, a # d,
             NEW kind \in Kinds, NEW n \in Indices, Sits(a, kind, n)
      PROVE  Sits(a, kind, n)'
  BY <1>5, <1>b, NodeAssumption DEF Packets, PoolType, HandType, NodeAssumption, Sits,
     Release
<1>6. Owned'
  BY <1>3, <1>4, <1>5 DEF Packets, Owned, Kinds
<1> QED BY <1>1, <1>2, <1>6, <1>b, NodeAssumption DEF Packets, PoolType, QfifoType, RxqType,
           SockqType, HandType, HdrType, NodeAssumption, Ctx, Sits, Release

\* A backlog, of connections, changes.
LEMMA BacklogChanges ==
  ASSUME Packets, NEW s \in Sockets \ ConnLess, NEW q \in Seq(Conns), Len(q) <= RxqLen,
         sockq' = [sockq EXCEPT ![s] = q],
         UNCHANGED <<pool, hdr, driver, qfifo, rxq, hand, copy>>
  PROVE  Packets'
<1>1. /\ sockq'[s] = q /\ q \in Seq(Buffers \cup Conns)
      /\ \A t \in Sockets : t # s => sockq'[t] = sockq[t]
      /\ sockq' \in [Sockets -> Seq(Buffers \cup Conns)]
  BY SeqMonotonic DEF Packets, SockqType
<1>2. Owned'
  BY <1>1, NodeAssumption DEF Packets, Owned, Sits, NodeAssumption
<1> QED BY <1>1, <1>2, NodeAssumption DEF Packets, PoolType, QfifoType, RxqType, SockqType,
           HandType, HdrType, NodeAssumption

LEMMA PacketsStay ==
  ASSUME Packets, UNCHANGED <<pool, hdr, driver, qfifo, rxq, sockq, hand, copy>>
  PROVE  Packets'
BY DEF Packets, PoolType, QfifoType, RxqType, SockqType, HandType, HdrType, Owned, Sits

------------------------------------------------------------------------------
(* What a context that is inside a call has at hand.                         *)
HasConn == Setting \cup {"enqueue", "post", "unpost", "closeFlush", "setClosed"}
AppPcs == Setting \cup {"idle", "tx", "closeFlush", "setClosed", "drain"}
HasPacket == Setting \cup {"classify", "callback", "dgram", "lookup", "alloc", "enqueue"}

LocalType ==
    /\ pc \in [Ctx -> PcValues] /\ cur \in [Ctx -> Conns \cup {NoConn}]
    /\ sk \in [Ctx -> Sockets \cup {NoSock}] /\ args \in [Apps -> Args \cup {NoArgs}]
    /\ halted \in BOOLEAN

CtxOK(x) ==
    /\ pc[x] = "tx" => hand[x] \in Buffers /\ copy[x] \in Buffers
    /\ pc[x] # "tx" => copy[x] = NoBuf
    /\ pc[x] \in HasConn => cur[x] \in Conns

AppOK(a) ==
    /\ pc[a] \in AppPcs
    /\ pc[a] \in Setting => args[a] \in Args
    /\ pc[a] = "drain" => sk[a] \in Sockets

RouterOK ==
    /\ pc[Router] # "drain"
    /\ pc[Router] \in HasPacket => hand[Router] \in Buffers
    /\ pc[Router] \notin HasPacket \cup {"tx"} => hand[Router] = NoBuf
    /\ pc[Router] = "dgram" => sk[Router] \in ConnLess
    /\ pc[Router] = "lookup" => sk[Router] \notin ConnLess
    /\ pc[Router] \in Setting \cup {"alloc"} => sk[Router] \in Sockets \ ConnLess

Locals == LocalType /\ RouterOK /\ (\A x \in Ctx : CtxOK(x)) /\ (\A a \in Apps : AppOK(a))

Tables ==
    /\ conn \in [Conns -> Conn] /\ \A c \in Conns : conn[c].dest \notin ConnLess
    /\ lastGiven \in Conns
    /\ ports \in [0 .. AnyPort -> Sockets \cup {Closed, Callback}]

IInv == Packets /\ Locals /\ Tables

------------------------------------------------------------------------------
(* The interrupt handler.                                                    *)
LEMMA RxStartKeeps ==
  ASSUME IInv, RxStart
  PROVE  IInv'
<1>1. Packets'
  <2>1. CASE \E b \in pool : driver' = b /\ pool' = pool \ {b}
    BY <2>1, PoolToDriver DEF IInv, RxStart, tables
  <2>2. CASE UNCHANGED <<driver, pool>>
    BY <2>2, PacketsStay DEF IInv, RxStart, tables
  <2> QED BY <2>1, <2>2 DEF RxStart
<1>2. Locals'
  BY DEF IInv, RxStart, tables, Locals, LocalType, RouterOK, CtxOK, AppOK
<1>3. Tables'
  BY DEF IInv, RxStart, tables, Tables
<1> QED BY <1>1, <1>2, <1>3 DEF IInv

LEMMA RxDoneKeeps ==
  ASSUME IInv, NEW h \in Wire, RxDone(h)
  PROVE  IInv'
<1>1. h \in Header /\ driver \in Buffers
  BY NodeAssumption DEF NodeAssumption, IInv, RxDone, Packets, PoolType
<1>2. Packets'
  <2>1. CASE Len(qfifo) < QfifoLen
    BY <1>1, <2>1, DriverToQfifo DEF IInv, RxDone, tables, QfifoWrite
  <2>2. CASE ~(Len(qfifo) < QfifoLen)
    BY <1>1, <2>2, DriverToPool DEF IInv, RxDone, tables, QfifoWrite
  <2> QED BY <2>1, <2>2
<1>3. Locals'
  BY DEF IInv, RxDone, tables, Locals, LocalType, RouterOK, CtxOK, AppOK
<1>4. Tables'
  BY DEF IInv, RxDone, tables, Tables
<1> QED BY <1>2, <1>3, <1>4 DEF IInv

------------------------------------------------------------------------------
(* Steps that end a context's call, or send its packet on.                   *)
LEMMA ReturnKeeps ==
  ASSUME Locals, NEW x \in Ctx, Goto(x, "idle"), hand' = [hand EXCEPT ![x] = NoBuf],
         Packets, copy[x] = NoBuf,
         UNCHANGED <<copy, halted, cur, sk, args>>
  PROVE  Locals'
BY NodeAssumption DEF Locals, LocalType, RouterOK, CtxOK, AppOK, Goto, Packets, HandType,
   HasConn, AppPcs, HasPacket, Setting, PcValues, Ctx, NodeAssumption

LEMMA DropHandKeeps ==
  ASSUME Packets, Locals, NEW x \in Ctx, hand[x] \in Buffers, pc[x] # "tx", DropHand(x),
         UNCHANGED <<driver, rxq, sockq, halted, copy, cur, sk, args>>
  PROVE  Packets' /\ Locals'
<1>1. Packets'
  BY HandToPool DEF DropHand
<1>2. copy[x] = NoBuf
  BY DEF Locals, CtxOK
<1> QED BY <1>1, <1>2, ReturnKeeps DEF DropHand

LEMMA TransmitKeeps ==
  ASSUME Packets, Locals, NEW x \in Ctx, hand[x] \in Buffers, pc[x] # "tx", Transmit(x),
         UNCHANGED <<driver, rxq, sockq, halted, cur, sk, args>>
  PROVE  Packets' /\ Locals'
<1>1. CASE DropHand(x) /\ UNCHANGED copy
  BY <1>1, DropHandKeeps
<1>2. ASSUME NEW b \in pool, pool' = pool \ {b}, copy' = [copy EXCEPT ![x] = b],
             Goto(x, "tx"), UNCHANGED <<hdr, qfifo, hand>>
      PROVE  Packets' /\ Locals'
  <2>1. Packets'
    BY <1>2, PoolToCopy DEF Locals, CtxOK
  <2>2. b \in Buffers
    BY <1>2 DEF Packets, PoolType
  <2>3. Locals'
    BY <1>2, <2>2, NodeAssumption DEF Locals, LocalType, RouterOK, CtxOK, AppOK, Goto,
       Packets,
       HandType, HasConn, AppPcs, HasPacket, Setting, PcValues, Ctx, NodeAssumption
  <2> QED BY <2>1, <2>3
<1> QED BY <1>1, <1>2 DEF Transmit

LEMMA EmitKeeps ==
  ASSUME Packets, Locals, NEW x \in Ctx, hand[x] \in Buffers, pc[x] # "tx",
         NEW dst, NEW h \in Header, Emit(x, dst, h),
         UNCHANGED <<driver, rxq, sockq, halted, cur, sk, args>>
  PROVE  Packets' /\ Locals'
<1>1. CASE Transmit(x)
  BY <1>1, TransmitKeeps
<1>2. CASE DropHand(x) /\ UNCHANGED copy
  BY <1>2, DropHandKeeps
<1>3. CASE /\ QfifoWrite(hand[x], h)
           /\ hand' = [hand EXCEPT ![x] = NoBuf] /\ Goto(x, "idle") /\ UNCHANGED copy
  <2>1. Packets'
    <3>1. CASE Len(qfifo) < QfifoLen
      BY <1>3, <3>1, HandToQfifo DEF QfifoWrite
    <3>2. CASE ~(Len(qfifo) < QfifoLen)
      BY <1>3, <3>2, HandToPool DEF QfifoWrite
    <3> QED BY <3>1, <3>2
  <2>2. Locals'
    BY <1>3, ReturnKeeps DEF Locals, CtxOK
  <2> QED BY <2>1, <2>2
<1> QED BY <1>1, <1>2, <1>3 DEF Emit

LEMMA ReplyKeeps ==
  ASSUME Packets, Locals, NEW x \in Ctx, hand[x] \in Buffers, pc[x] # "tx",
         hdr[hand[x]] \in Header, Reply(x),
         UNCHANGED <<driver, rxq, sockq, halted, cur, sk, args>>
  PROVE  Packets' /\ Locals'
<1> DEFINE h(mark) == [src |-> Me, sport |-> hdr[hand[x]].dport, dport |-> hdr[hand[x]].sport,
                       mark |-> mark]
<1>1. PICK mark \in {"plain", "crc"} : Emit(x, hdr[hand[x]].src, h(mark))
  BY DEF Reply
<1>2. h(mark) \in Header
  BY DEF Header, Marks
<1> HIDE DEF h
<1> QED BY <1>1, <1>2, EmitKeeps

LEMMA TablesStay ==
  ASSUME Tables, UNCHANGED <<conn, lastGiven, ports>>
  PROVE  Tables'
BY DEF Tables

LEMMA TxDoneKeeps ==
  ASSUME IInv, NEW x \in Ctx, TxDone(x)
  PROVE  IInv'
<1>1. Packets'
  BY HandAndCopyToPool DEF IInv, TxDone, At, tables, Locals, CtxOK
<1>2. Locals'
  BY NodeAssumption DEF IInv, TxDone, At, Locals, LocalType, RouterOK, CtxOK, AppOK, Goto,
     Packets, HandType, HasConn, AppPcs, HasPacket, Setting, PcValues, Ctx, NodeAssumption
<1>3. Tables'
  BY TablesStay DEF IInv, TxDone, tables
<1> QED BY <1>1, <1>2, <1>3 DEF IInv

------------------------------------------------------------------------------
(* csp_route_work                                                            *)
LEMMA RouteReadKeeps ==
  ASSUME IInv, RouteRead
  PROVE  IInv'
<1>1. Packets'
  BY QfifoToHand DEF IInv, RouteRead, At, tables, Locals, RouterOK, HasPacket, Setting
<1>2. Head(qfifo) \in Buffers
  BY DEF IInv, Packets, QfifoType, RouteRead
<1>3. Locals'
  BY <1>2, NodeAssumption DEF IInv, RouteRead, At, Locals, LocalType, RouterOK, CtxOK,
     AppOK,
     Goto, Packets, HandType, HasConn, AppPcs, HasPacket, Setting, PcValues, Ctx,
       NodeAssumption
<1>4. Tables'
  BY TablesStay DEF IInv, RouteRead, tables
<1> QED BY <1>1, <1>3, <1>4 DEF IInv

LEMMA PortEntryType ==
  ASSUME Tables, NEW h \in Header
  PROVE  PortEntry(h.dport) \in Sockets \cup {Closed, Callback}
BY NodeAssumption DEF Tables, PortEntry, Header, Ports, AnyPort, NodeAssumption

LEMMA RouteClassifyKeeps ==
  ASSUME IInv, RouteClassify
  PROVE  IInv'
<1>1. /\ hand[Router] \in Buffers /\ pc[Router] = "classify" /\ Router \in Ctx
      /\ copy[Router] = NoBuf
  BY DEF IInv, Locals, RouterOK, CtxOK, HasPacket, RouteClassify, At, Ctx
<1>2. /\ Arrived \in Header
      /\ UNCHANGED <<driver, rxq, sockq, halted, cur, args, conn, lastGiven, ports>>
  BY <1>1 DEF IInv, Packets, HdrType, Arrived, RouteClassify, tables
<1> DEFINE entry == PortEntry(Arrived.dport)
<1>3. entry \in Sockets \cup {Closed, Callback}
  BY <1>2, PortEntryType DEF IInv
<1>4. CASE DropHand(Router) /\ UNCHANGED <<copy, sk>>
  BY <1>1, <1>2, <1>4, DropHandKeeps, TablesStay DEF IInv
<1>5. CASE Transmit(Router) /\ UNCHANGED sk
  BY <1>1, <1>2, <1>5, TransmitKeeps, TablesStay DEF IInv
<1>6. CASE Goto(Router, "callback") /\ UNCHANGED <<pool, hdr, qfifo, hand, copy, sk>>
  <2>1. Packets' /\ Tables'
    BY <1>2, <1>6, PacketsStay, TablesStay DEF IInv
  <2>2. Locals'
    BY <1>1, <1>2, <1>6, NodeAssumption DEF IInv, Locals, LocalType, RouterOK, CtxOK, AppOK,
       Goto, HasConn, AppPcs, HasPacket, Setting, PcValues, Ctx, NodeAssumption
  <2> QED BY <2>1, <2>2 DEF IInv
<1>7. CASE /\ entry # Callback
           /\ sk' = [sk EXCEPT ![Router] = IF entry = Closed THEN NoSock ELSE entry]
           /\ Goto(Router, IF entry \in ConnLess THEN "dgram" ELSE "lookup")
           /\ UNCHANGED <<pool, hdr, qfifo, hand, copy>>
  <2>1. Packets' /\ Tables'
    BY <1>2, <1>7, PacketsStay, TablesStay DEF IInv
  <2>2. /\ sk'[Router] \in Sockets \cup {NoSock}
        /\ entry \in ConnLess => sk'[Router] \in ConnLess
        /\ entry \notin ConnLess => sk'[Router] \notin ConnLess
        /\ sk' \in [Ctx -> Sockets \cup {NoSock}]
        /\ \A x \in Ctx : x # Router => sk'[x] = sk[x]
    <3> HIDE DEF entry
    <3> QED BY <1>1, <1>3, <1>7, NodeAssumption DEF IInv, Locals, LocalType, NodeAssumption,
               Closed
  <2>3. Locals'
    <3> HIDE DEF entry
    <3> QED BY <1>1, <1>2, <1>7, <2>2, NodeAssumption DEF IInv, Locals, LocalType, RouterOK,
               CtxOK,
            AppOK, Goto, HasConn, AppPcs, HasPacket, Setting, PcValues, Ctx, NodeAssumption
  <2> QED BY <2>1, <2>3 DEF IInv
<1> QED BY <1>4, <1>5, <1>6, <1>7 DEF RouteClassify

LEMMA CallbackDoneKeeps ==
  ASSUME IInv, CallbackDone
  PROVE  IInv'
<1>1. /\ hand[Router] \in Buffers /\ pc[Router] = "callback" /\ Router \in Ctx
      /\ hdr[hand[Router]] \in Header
      /\ UNCHANGED <<driver, rxq, sockq, halted, cur, sk, args, conn, lastGiven, ports>>
  BY DEF IInv, Locals, RouterOK, HasPacket, CallbackDone, At, Ctx, Packets, HdrType, tables
<1>2. Packets' /\ Locals'
  BY <1>1, ReplyKeeps, DropHandKeeps DEF IInv, CallbackDone
<1> QED BY <1>1, <1>2, TablesStay DEF IInv

LEMMA RouteDgramKeeps ==
  ASSUME IInv, RouteDgram
  PROVE  IInv'
<1>1. /\ hand[Router] \in Buffers /\ pc[Router] = "dgram" /\ Router \in Ctx
      /\ sk[Router] \in ConnLess /\ copy[Router] = NoBuf
      /\ UNCHANGED <<driver, halted, conn, lastGiven, rxq, ports, copy, cur, args>>
      /\ sk' = [sk EXCEPT ![Router] = NoSock]
  BY DEF IInv, Locals, RouterOK, CtxOK, HasPacket, RouteDgram, At, Ctx
<1>2. /\ Packets' /\ Goto(Router, "idle") /\ hand' = [hand EXCEPT ![Router] = NoBuf]
  <2>1. CASE DropHand(Router) /\ UNCHANGED sockq
    BY <1>1, <2>1, HandToPool DEF IInv, DropHand
  <2>2. CASE ~(DropHand(Router) /\ UNCHANGED sockq)
    BY <1>1, <2>2, HandToSockq DEF IInv, RouteDgram
  <2> QED BY <2>1, <2>2
<1>3. Locals'
  BY <1>1, <1>2, NodeAssumption DEF IInv, Locals, LocalType, RouterOK, CtxOK, AppOK, Goto,
     Packets, HandType, HasConn, AppPcs, HasPacket, Setting, PcValues, Ctx, NodeAssumption
<1> QED BY <1>1, <1>2, <1>3, TablesStay DEF IInv

LEMMA RouteLookupKeeps ==
  ASSUME IInv, RouteLookup
  PROVE  IInv'
<1>1. /\ hand[Router] \in Buffers /\ pc[Router] = "lookup" /\ Router \in Ctx
      /\ sk[Router] \notin ConnLess /\ copy[Router] = NoBuf
      /\ UNCHANGED <<driver, halted, conn, lastGiven, rxq, sockq, ports, copy, args>>
  BY DEF IInv, Locals, RouterOK, CtxOK, HasPacket, RouteLookup, At, Ctx, tables
<1>2. CASE /\ DropHand(Router) /\ sk' = [sk EXCEPT ![Router] = NoSock] /\ UNCHANGED cur
  <2>1. Packets'
    BY <1>1, <1>2, HandToPool DEF IInv, DropHand
  <2>2. Locals'
    BY <1>1, <1>2, NodeAssumption DEF IInv, Locals, LocalType, RouterOK, CtxOK, AppOK, Goto,
       Packets, HandType, HasConn, AppPcs, HasPacket, Setting, PcValues, Ctx,
         NodeAssumption,
       DropHand
  <2> QED BY <1>1, <2>1, <2>2, TablesStay DEF IInv
<1>3. ASSUME UNCHANGED <<pool, hdr, qfifo, hand, sk>>, NEW c \in Conns,
             cur' = [cur EXCEPT ![Router] = c], Goto(Router, "enqueue")
      PROVE  IInv'
  <2>1. Packets' /\ Tables'
    BY <1>1, <1>3, PacketsStay, TablesStay DEF IInv
  <2>2. Locals'
    BY <1>1, <1>3, NodeAssumption DEF IInv, Locals, LocalType, RouterOK, CtxOK, AppOK, Goto,
       HasConn, AppPcs, HasPacket, Setting, PcValues, Ctx, NodeAssumption
  <2> QED BY <2>1, <2>2 DEF IInv
<1>4. ASSUME UNCHANGED <<pool, hdr, qfifo, hand, sk, cur>>, Goto(Router, "alloc"),
             sk[Router] # NoSock
      PROVE  IInv'
  <2>1. Packets' /\ Tables'
    BY <1>1, <1>4, PacketsStay, TablesStay DEF IInv
  <2>2. Locals'
    BY <1>1, <1>4, NodeAssumption DEF IInv, Locals, LocalType, RouterOK, CtxOK, AppOK, Goto,
       HasConn, AppPcs, HasPacket, Setting, PcValues, Ctx, NodeAssumption
  <2> QED BY <2>1, <2>2 DEF IInv
<1>5. Existing(Arrived) \subseteq Conns
  BY DEF Existing
<1> QED BY <1>2, <1>3, <1>4, <1>5 DEF RouteLookup

------------------------------------------------------------------------------
(* csp_conn_new, csp_conn_close and what is done with their result.          *)
LEMMA AllocatedConns ==
  ASSUME Tables
  PROVE  Allocated \subseteq Conns
<1>1. ASSUME NEW n \in 1 .. NConns PROVE Turn(n) \in Conns
  <2>1. lastGiven + n \in Int /\ NConns \in Nat /\ NConns > 0
    BY <1>1, NodeAssumption DEF Tables, Conns, NodeAssumption
  <2> QED BY <2>1 DEF Turn, Conns
<1> QED BY <1>1 DEF Allocated

LEMMA TakeKeeps ==
  ASSUME Packets, Locals, Tables, NEW x \in Ctx, NEW c \in Conns, Take(x, c),
         pc[x] # "tx", x # Router => pc[x] = "idle",
         x = Router => pc[x] = "alloc",
         args' = args \/ (x \in Apps /\ \E k \in Args : args' = [args EXCEPT ![x] = k]),
         x \in Apps => args'[x] \in Args,
         UNCHANGED <<packets, rxq, sockq, ports, hand, copy, sk>>
  PROVE  IInv'
<1>1. Packets'
  BY PacketsStay DEF packets
<1>2. Tables'
  <2>1. conn'[c] \in Conn /\ \A d \in Conns \ {c} : conn'[d] = conn[d]
    BY DEF Tables, Take, Conn
  <2> QED BY <2>1 DEF Tables, Take
<1>3. args' \in [Apps -> Args \cup {NoArgs}] /\ \A a \in Apps : a # x => args'[a] = args[a]
  BY DEF Locals, LocalType
<1>4. Locals'
  BY <1>3, NodeAssumption DEF Take, Locals, LocalType, RouterOK, CtxOK, AppOK, Goto,
     packets,
     HasConn, AppPcs, HasPacket, Setting, PcValues, Ctx, NodeAssumption
<1> QED BY <1>1, <1>2, <1>4 DEF IInv

LEMMA RouteAllocKeeps ==
  ASSUME IInv, RouteAlloc
  PROVE  IInv'
<1>1. /\ hand[Router] \in Buffers /\ pc[Router] = "alloc" /\ Router \in Ctx
      /\ UNCHANGED <<driver, halted, rxq, sockq, ports, copy, args>>
  BY DEF IInv, Locals, RouterOK, HasPacket, RouteAlloc, At, Ctx
<1>2. ASSUME NEW c \in Allocated, Take(Router, c), UNCHANGED <<pool, hdr, qfifo, hand, sk>>
      PROVE  IInv'
  <2>1. c \in Conns
    BY AllocatedConns DEF IInv
  <2> QED BY <1>1, <1>2, <2>1, TakeKeeps, NodeAssumption DEF IInv, packets, NodeAssumption
<1>3. CASE /\ DropHand(Router) /\ sk' = [sk EXCEPT ![Router] = NoSock]
           /\ UNCHANGED <<conn, lastGiven, cur>>
  <2>1. Packets'
    BY <1>1, <1>3, HandToPool DEF IInv, DropHand
  <2>2. Locals'
    BY <1>1, <1>3, NodeAssumption DEF IInv, Locals, LocalType, RouterOK, CtxOK, AppOK, Goto,
       Packets, HandType, HasConn, AppPcs, HasPacket, Setting, PcValues, Ctx,
         NodeAssumption,
       DropHand
  <2> QED BY <1>1, <1>3, <2>1, <2>2, TablesStay DEF IInv
<1> QED BY <1>2, <1>3 DEF RouteAlloc

LEMMA ConnectKeeps ==
  ASSUME IInv, NEW a \in Apps, NEW k \in Connects, Connect(a, k)
  PROVE  IInv'
<1>1. PICK c \in Allocated : Take(a, c)
  BY DEF Connect
<1>2. c \in Conns
  BY AllocatedConns DEF IInv
<1>3. k \in Args /\ a \in Ctx /\ a # Router
  BY NodeAssumption DEF NodeAssumption, Ctx
<1>4. /\ pc[a] = "idle" /\ args' = [args EXCEPT ![a] = k] /\ args'[a] = k
      /\ UNCHANGED <<packets, rxq, sockq, ports, hand, copy, sk>>
  BY DEF Connect, At, IInv, Locals, LocalType
<1> QED BY <1>1, <1>2, <1>3, <1>4, TakeKeeps DEF IInv

LEMMA SetTypeKeeps ==
  ASSUME IInv, NEW x \in Ctx, SetType(x)
  PROVE  IInv'
<1>1. cur[x] \in Conns /\ pc[x] = "setType"
  BY DEF IInv, Locals, CtxOK, HasConn, Setting, SetType, At
<1>2. Packets'
  BY PacketsStay DEF IInv, SetType, packets
<1>3. Tables'
  <2> DEFINE r == [conn[cur[x]] EXCEPT !.client = (x # Router), !.crc = FALSE]
  <2>1. conn[cur[x]] \in Conn
    BY <1>1 DEF IInv, Tables
  <2>2. (x # Router) \in BOOLEAN
    OBVIOUS
  <2>3. r \in Conn /\ r.dest = conn[cur[x]].dest
    BY <2>1, <2>2 DEF Conn
  <2>4. conn' = [conn EXCEPT ![cur[x]] = r]
    BY <1>1 DEF IInv, Tables, SetType
  <2> HIDE DEF r
  <2> QED BY <1>1, <2>3, <2>4 DEF IInv, Tables, SetType
<1>4. Locals'
  BY <1>1, NodeAssumption DEF IInv, SetType, Locals, LocalType, RouterOK, CtxOK, AppOK,
     Goto,
     packets, HasConn, AppPcs, HasPacket, Setting, PcValues, Ctx, NodeAssumption
<1> QED BY <1>2, <1>3, <1>4 DEF IInv

LEMMA CopyIdsKeeps ==
  ASSUME IInv, NEW x \in Ctx, CopyIds(x)
  PROVE  IInv'
<1>1. cur[x] \in Conns /\ pc[x] = "copyIds"
  BY DEF IInv, Locals, CtxOK, HasConn, Setting, CopyIds, At
<1>2. Packets'
  BY PacketsStay DEF IInv, CopyIds, packets
<1>3. Wanted(x) \in [src : Peers \cup {Me}, sport : Ports, dport : Ports, crc : BOOLEAN]
  <2>1. CASE x = Router
    <3>1. hdr[hand[Router]] \in Header
      BY <1>1, <2>1 DEF IInv, Packets, HdrType, Locals, RouterOK, HasPacket, Setting
    <3> QED BY <2>1, <3>1 DEF Wanted, Header
  <2>2. CASE x # Router
    <3>1. args[x] \in Args
      BY <1>1, <2>2 DEF IInv, Locals, AppOK, Setting, Ctx
    <3>2. 0 \in Ports
      BY NodeAssumption DEF Ports, NodeAssumption
    <3> QED BY <2>2, <3>1, <3>2 DEF Wanted, Args
  <2> QED BY <2>1, <2>2
<1>4. Tables'
  BY <1>1, <1>3 DEF IInv, Tables, CopyIds, Conn
<1>5. Locals'
  BY <1>1, NodeAssumption DEF IInv, CopyIds, Locals, LocalType, RouterOK, CtxOK, AppOK,
     Goto,
     packets, HasConn, AppPcs, HasPacket, Setting, PcValues, Ctx, NodeAssumption
<1> QED BY <1>2, <1>4, <1>5 DEF IInv

LEMMA FlushKeeps ==
  ASSUME IInv, NEW x \in Ctx, Flush(x)
  PROVE  IInv'
<1>1. /\ cur[x] \in Conns /\ pc[x] \in {"newFlush", "closeFlush"}
      /\ UNCHANGED <<driver, qfifo, halted, conn, lastGiven, sockq, ports,
                     hand, copy, cur, sk, args>>
  BY DEF IInv, Locals, CtxOK, HasConn, Setting, Flush, At
<1>2. CASE /\ rxq[cur[x]] # <<>> /\ Release({Head(rxq[cur[x]])})
           /\ rxq' = [rxq EXCEPT ![cur[x]] = Tail(@)] /\ UNCHANGED pc
  <2>1. Packets'
    BY <1>1, <1>2, RxqToPool DEF IInv
  <2>2. Locals'
    BY <1>1, <1>2 DEF IInv, Locals, LocalType, RouterOK, CtxOK, AppOK
  <2> QED BY <1>1, <2>1, <2>2, TablesStay DEF IInv
<1>3. CASE /\ Goto(x, IF pc[x] = "newFlush" THEN "finish" ELSE "setClosed")
           /\ UNCHANGED <<pool, hdr, rxq>>
  <2>1. Packets'
    BY <1>1, <1>3, PacketsStay DEF IInv
  <2>2. Locals'
    BY <1>1, <1>3, NodeAssumption DEF IInv, Locals, LocalType, RouterOK, CtxOK, AppOK, Goto,
       HasConn, AppPcs, HasPacket, Setting, PcValues, Ctx, NodeAssumption
  <2> QED BY <1>1, <2>1, <2>2, TablesStay DEF IInv
<1> QED BY <1>2, <1>3 DEF Flush

LEMMA SetClosedKeeps ==
  ASSUME IInv, NEW x \in Ctx, SetClosed(x)
  PROVE  IInv'
<1>1. cur[x] \in Conns /\ pc[x] = "setClosed"
  BY DEF IInv, Locals, CtxOK, HasConn, SetClosed, At
<1>2. Packets'
  BY PacketsStay DEF IInv, SetClosed, packets
<1>3. Tables'
  <2> DEFINE r == [conn[cur[x]] EXCEPT !.open = FALSE]
  <2>1. conn[cur[x]] \in Conn
    BY <1>1 DEF IInv, Tables
  <2>2. r \in Conn /\ r.dest = conn[cur[x]].dest
    BY <2>1 DEF Conn
  <2>3. conn' = [conn EXCEPT ![cur[x]] = r]
    BY <1>1 DEF IInv, Tables, SetClosed
  <2> HIDE DEF r
  <2> QED BY <1>1, <2>2, <2>3 DEF IInv, Tables, SetClosed
<1>4. Locals'
  BY <1>1, NodeAssumption DEF IInv, SetClosed, Locals, LocalType, RouterOK, CtxOK, AppOK,
     Goto,
     packets, HasConn, AppPcs, HasPacket, Setting, PcValues, Ctx, NodeAssumption
<1> QED BY <1>2, <1>3, <1>4 DEF IInv

LEMMA FinishRouteKeeps ==
  ASSUME IInv, FinishRoute
  PROVE  IInv'
<1>1. /\ cur[Router] \in Conns /\ pc[Router] = "finish" /\ Router \in Ctx
      /\ sk[Router] \in Sockets \ ConnLess
  BY DEF IInv, Locals, CtxOK, RouterOK, HasConn, Setting, FinishRoute, At, Ctx
<1>2. Packets'
  BY PacketsStay DEF IInv, FinishRoute, packets
<1>3. Tables'
  BY <1>1 DEF IInv, Tables, FinishRoute, Conn
<1>4. Locals'
  BY <1>1, NodeAssumption DEF IInv, FinishRoute, Locals, LocalType, RouterOK, CtxOK, AppOK,
     Goto, packets, HasConn, AppPcs, HasPacket, Setting, PcValues, Ctx, NodeAssumption
<1> QED BY <1>2, <1>3, <1>4 DEF IInv

LEMMA FinishConnectKeeps ==
  ASSUME IInv, NEW a \in Apps, FinishConnect(a)
  PROVE  IInv'
<1>1. cur[a] \in Conns /\ pc[a] = "finish" /\ a \in Ctx /\ args[a] \in Args
  BY DEF IInv, Locals, CtxOK, AppOK, HasConn, Setting, FinishConnect, At, Ctx
<1>2. Packets'
  BY PacketsStay DEF IInv, FinishConnect, packets
<1>3. ClientPort(cur[a]) \in Ports
  BY <1>1, NodeAssumption DEF ClientPort, Ports, Conns, NodeAssumption
<1>4. Tables'
  BY <1>1, <1>3, NodeAssumption DEF IInv, Tables, FinishConnect, Conn, Args, NodeAssumption
<1>5. Locals'
  BY <1>1, NodeAssumption DEF IInv, FinishConnect, Locals, LocalType, RouterOK, CtxOK,
     AppOK,
     Goto, packets, HasConn, AppPcs, HasPacket, Setting, PcValues, Ctx, NodeAssumption
<1> QED BY <1>2, <1>4, <1>5 DEF IInv

------------------------------------------------------------------------------
(* The end of csp_route_work.                                                *)
LEMMA RouteEnqueueKeeps ==
  ASSUME IInv, RouteEnqueue
  PROVE  IInv'
<1>1. /\ hand[Router] \in Buffers /\ pc[Router] = "enqueue" /\ Router \in Ctx
      /\ cur[Router] \in Conns
      /\ UNCHANGED <<driver, halted, conn, lastGiven, sockq, ports, copy, args>>
  BY DEF IInv, Locals, RouterOK, CtxOK, HasPacket, HasConn, RouteEnqueue, At, Ctx
<1>2. CASE Deliver(cur[Router])
  <2>1. Packets'
    BY <1>1, <1>2, HandToRxq DEF IInv, Deliver
  <2>2. Locals'
    BY <1>1, <1>2, NodeAssumption DEF IInv, Deliver, Locals, LocalType, RouterOK, CtxOK,
       AppOK,
       Goto, Packets, HandType, HasConn, AppPcs, HasPacket, Setting, PcValues, Ctx,
       NodeAssumption
  <2> QED BY <1>1, <2>1, <2>2, TablesStay DEF IInv
<1>3. CASE Overflow(cur[Router])
  <2>1. Packets'
    BY <1>1, <1>3, HandToPool DEF IInv, Overflow, DropHand
  <2>2. Locals'
    BY <1>1, <1>3, NodeAssumption DEF IInv, Overflow, DropHand, Locals, LocalType, RouterOK,
       CtxOK, AppOK, Goto, Packets, HandType, HasConn, AppPcs, HasPacket, Setting, PcValues,
       Ctx, NodeAssumption
  <2> QED BY <1>1, <2>1, <2>2, TablesStay DEF IInv
<1> QED BY <1>2, <1>3 DEF RouteEnqueue

LEMMA RoutePostKeeps ==
  ASSUME IInv, RoutePost
  PROVE  IInv'
<1> DEFINE s == conn[cur[Router]].dest
<1>1. /\ cur[Router] \in Conns /\ pc[Router] = "post" /\ Router \in Ctx
      /\ hand[Router] = NoBuf /\ copy[Router] = NoBuf
      /\ UNCHANGED <<packets, conn, lastGiven, rxq, ports, hand, copy, args>>
  BY DEF IInv, Locals, CtxOK, RouterOK, HasConn, HasPacket, Setting, RoutePost, At, Ctx
<1>2. s \in (Sockets \ ConnLess) \cup {NoSock}
  BY <1>1 DEF IInv, Tables, Conn
<1>3. /\ pc'[Router] \in {"idle", "unpost", "closeFlush"}
      /\ pc' \in [Ctx -> PcValues] /\ \A x \in Ctx : x # Router => pc'[x] = pc[x]
  BY <1>1 DEF IInv, Locals, LocalType, RoutePost, Goto, PcValues
<1>4. Packets'
  <2>1. CASE UNCHANGED sockq
    BY <1>1, <2>1, PacketsStay DEF IInv, packets
  <2>2. CASE /\ s # NoSock /\ ~(Len(sockq[s]) >= RxqLen)
             /\ sockq' = [sockq EXCEPT ![s] = Append(@, cur[Router])]
    <3>1. s \in Sockets \ ConnLess /\ sockq[s] \in Seq(Conns) /\ RxqLen \in Nat
      BY <1>2, <2>2, NodeAssumption DEF IInv, Packets, SockqType, NodeAssumption
    <3>2. /\ Append(sockq[s], cur[Router]) \in Seq(Conns)
          /\ Len(Append(sockq[s], cur[Router])) <= RxqLen
      BY <1>1, <2>2, <3>1, AppendProperties
    <3> QED BY <1>1, <2>2, <3>1, <3>2, BacklogChanges DEF IInv, packets
  <2> QED BY <2>1, <2>2 DEF RoutePost
<1>5. /\ cur' \in [Ctx -> Conns \cup {NoConn}]
      /\ pc'[Router] # "idle" => cur'[Router] \in Conns
      /\ \A x \in Ctx : x # Router => cur'[x] = cur[x]
  BY <1>1 DEF IInv, Locals, LocalType, RoutePost
<1>6. Locals'
  BY <1>1, <1>3, <1>5, NodeAssumption DEF IInv, RoutePost, Locals, LocalType, RouterOK,
     CtxOK,
     AppOK, packets, HasConn, HasPacket, AppPcs, Setting, Ctx, NodeAssumption
<1> QED BY <1>1, <1>4, <1>6, TablesStay DEF IInv

LEMMA UnpostKeeps ==
  ASSUME IInv, RouteUnpost
  PROVE  IInv'
<1>1. cur[Router] \in Conns /\ pc[Router] = "unpost" /\ Router \in Ctx
  BY DEF IInv, Locals, CtxOK, HasConn, RouteUnpost, At, Ctx
<1>2. Packets'
  BY PacketsStay DEF IInv, RouteUnpost, packets
<1>3. Tables'
  BY <1>1, NodeAssumption DEF IInv, Tables, RouteUnpost, Conn, NodeAssumption
<1>4. Locals'
  BY <1>1, NodeAssumption DEF IInv, RouteUnpost, Locals, LocalType, RouterOK, CtxOK, AppOK,
     Goto, packets, HasConn, AppPcs, HasPacket, Setting, PcValues, Ctx, NodeAssumption
<1> QED BY <1>2, <1>3, <1>4 DEF IInv

------------------------------------------------------------------------------
(* The API                                                                   *)
LEMMA NewPacketKeeps ==
  ASSUME IInv, NEW a \in Apps, NewPacket(a)
  PROVE  IInv'
<1>1. PICK b \in pool : pool' = pool \ {b} /\ hand' = [hand EXCEPT ![a] = b]
  BY DEF NewPacket
<1>2. Packets'
  BY <1>1, PoolToHand DEF IInv, NewPacket, tables
<1>3. b \in Buffers /\ a # Router /\ pc[a] = "idle" /\ a \in Ctx
  BY NodeAssumption DEF IInv, Packets, PoolType, NodeAssumption, NewPacket, At, Ctx
<1>4. Locals'
  BY <1>1, <1>3 DEF IInv, NewPacket, Locals, LocalType, RouterOK, CtxOK, AppOK, Packets,
     HandType
<1> QED BY <1>2, <1>4, TablesStay DEF IInv, NewPacket, tables

LEMMA FreePacketKeeps ==
  ASSUME IInv, NEW a \in Apps, FreePacket(a)
  PROVE  IInv'
<1>1. /\ a \in Ctx /\ hand[a] \in Buffers /\ pc[a] = "idle"
      /\ UNCHANGED <<driver, rxq, sockq, halted, copy, cur, sk, args, conn, lastGiven, ports>>
  BY DEF FreePacket, At, Ctx, IInv, Packets, HandType, tables
<1> QED BY <1>1, DropHandKeeps, TablesStay DEF IInv, FreePacket

LEMMA SendKeeps ==
  ASSUME IInv, NEW a \in Apps, Send(a)
  PROVE  IInv'
<1>1. /\ a \in Ctx /\ hand[a] \in Buffers /\ pc[a] = "idle" /\ cur[a] \in Conns
      /\ UNCHANGED <<driver, rxq, sockq, halted, cur, sk, args, conn, lastGiven, ports>>
  BY DEF Send, At, Ctx, IInv, Packets, HandType, tables, Locals, LocalType
<1> DEFINE c == conn[cur[a]]
           h == [src |-> Me, sport |-> c.dport, dport |-> c.sport,
                 mark |-> IF c.crc THEN "crc" ELSE "plain"]
<1>2. h \in Header
  BY <1>1 DEF IInv, Tables, Conn, Header, Marks
<1>3. CASE Emit(a, c.src, h)
  <2> HIDE DEF h
  <2> QED BY <1>1, <1>2, <1>3, EmitKeeps, TablesStay DEF IInv
<1>4. CASE DropHand(a) /\ UNCHANGED copy
  BY <1>1, <1>4, DropHandKeeps, TablesStay DEF IInv
<1> QED BY <1>3, <1>4 DEF Send

LEMMA SendToKeeps ==
  ASSUME IInv, NEW a \in Apps, SendTo(a)
  PROVE  IInv'
<1>1. /\ a \in Ctx /\ hand[a] \in Buffers /\ pc[a] = "idle"
      /\ UNCHANGED <<driver, rxq, sockq, halted, cur, sk, args, conn, lastGiven, ports>>
  BY DEF SendTo, At, Ctx, IInv, Packets, HandType, tables
<1>2. CASE hdr[hand[a]] # NoHdr /\ Reply(a)
  <2>1. hdr[hand[a]] \in Header
    BY <1>1, <1>2 DEF IInv, Packets, HdrType
  <2> QED BY <1>1, <1>2, <2>1, ReplyKeeps, TablesStay DEF IInv
<1>3. ASSUME NEW h \in Datagrams, Emit(a, Me, h)
      PROVE  IInv'
  <2>1. h \in Header
    BY NodeAssumption DEF NodeAssumption
  <2> QED BY <1>1, <1>3, <2>1, EmitKeeps, TablesStay DEF IInv
<1>4. CASE Transmit(a)
  BY <1>1, <1>4, TransmitKeeps, TablesStay DEF IInv
<1> QED BY <1>2, <1>3, <1>4 DEF SendTo

LEMMA ReadKeeps ==
  ASSUME IInv, NEW a \in Apps, Read(a)
  PROVE  IInv'
<1>1. /\ a # Router /\ a \in Ctx /\ pc[a] = "idle" /\ cur[a] \in Conns
      /\ UNCHANGED <<packets, conn, lastGiven, sockq, ports, pc, copy, cur, sk, args>>
  BY NodeAssumption DEF Read, At, Ctx, IInv, Locals, LocalType, NodeAssumption
<1>2. Packets'
  BY <1>1, RxqToHand DEF IInv, Read, packets
<1>3. hand' \in [Ctx -> Buffers \cup {NoBuf}] /\ \A x \in Ctx : x # a => hand'[x] = hand[x]
  BY <1>2 DEF Packets, HandType, Read, IInv
<1>4. Locals'
  BY <1>1, <1>3 DEF IInv, Locals, LocalType, RouterOK, CtxOK, AppOK, packets, Ctx
<1> QED BY <1>1, <1>2, <1>4, TablesStay DEF IInv

LEMMA CloseKeeps ==
  ASSUME IInv, NEW a \in Apps, Close(a)
  PROVE  IInv'
<1>1. /\ a # Router /\ a \in Ctx /\ pc[a] = "idle" /\ cur[a] \in Conns
      /\ UNCHANGED <<packets, tables, hand, copy, sk, args>>
  BY NodeAssumption DEF Close, At, Ctx, IInv, Locals, LocalType, NodeAssumption
<1>2. Packets' /\ Tables'
  BY <1>1, PacketsStay, TablesStay DEF IInv, packets, tables
<1>3. Locals'
  BY <1>1 DEF IInv, Close, Locals, LocalType, RouterOK, CtxOK, AppOK, Goto, packets,
     HasConn, AppPcs, HasPacket, Setting, PcValues, Ctx
<1> QED BY <1>2, <1>3 DEF IInv

LEMMA AcceptKeeps ==
  ASSUME IInv, NEW a \in Apps, NEW s \in Sockets, Accept(a, s)
  PROVE  IInv'
<1>1. /\ a # Router /\ a \in Ctx /\ pc[a] = "idle" /\ s \in Sockets \ ConnLess
      /\ sockq[s] # <<>> /\ sockq[s] \in Seq(Conns) /\ Len(sockq[s]) <= RxqLen
      /\ UNCHANGED <<packets, conn, lastGiven, rxq, ports, pc, hand, copy, sk, args>>
      /\ sockq' = [sockq EXCEPT ![s] = Tail(@)]
  BY NodeAssumption DEF Accept, At, Ctx, IInv, Packets, SockqType, NodeAssumption
<1>2. /\ Head(sockq[s]) \in Conns /\ Tail(sockq[s]) \in Seq(Conns)
      /\ Len(Tail(sockq[s])) <= RxqLen
  BY <1>1, HeadTailProperties, LenProperties, NodeAssumption DEF NodeAssumption
<1>3. Packets'
  BY <1>1, <1>2, BacklogChanges DEF IInv, packets
<1>4. Locals'
  BY <1>1, <1>2 DEF IInv, Accept, Locals, LocalType, RouterOK, CtxOK, AppOK, packets, Ctx
<1> QED BY <1>1, <1>3, <1>4, TablesStay DEF IInv

LEMMA RecvfromKeeps ==
  ASSUME IInv, NEW a \in Apps, NEW s \in Sockets, Recvfrom(a, s)
  PROVE  IInv'
<1>1. /\ a # Router /\ a \in Ctx /\ pc[a] = "idle" /\ s \in ConnLess
      /\ UNCHANGED <<packets, conn, lastGiven, rxq, ports, pc, copy, cur, sk, args>>
  BY NodeAssumption DEF Recvfrom, At, Ctx, NodeAssumption
<1>2. Packets'
  BY <1>1, SockqToHand DEF IInv, Recvfrom, packets
<1>3. hand' \in [Ctx -> Buffers \cup {NoBuf}] /\ \A x \in Ctx : x # a => hand'[x] = hand[x]
  BY <1>2 DEF Packets, HandType, Recvfrom, IInv
<1>4. Locals'
  BY <1>1, <1>3 DEF IInv, Locals, LocalType, RouterOK, CtxOK, AppOK, packets, Ctx
<1> QED BY <1>1, <1>2, <1>4, TablesStay DEF IInv

LEMMA SetPortKeeps ==
  ASSUME IInv, NEW a \in Apps, NEW p \in 0 .. AnyPort,
         NEW entry \in Sockets \cup {Closed, Callback}, SetPort(a, p, entry)
  PROVE  IInv'
<1>1. Packets'
  BY PacketsStay DEF IInv, SetPort, packets
<1>2. Locals'
  BY DEF IInv, SetPort, Locals, LocalType, RouterOK, CtxOK, AppOK, packets
<1>3. Tables'
  BY DEF IInv, SetPort, Tables
<1> QED BY <1>1, <1>2, <1>3 DEF IInv

LEMMA SocketCloseKeeps ==
  ASSUME IInv, NEW a \in Apps, NEW s \in Sockets, SocketClose(a, s)
  PROVE  IInv'
<1>1. /\ a # Router /\ a \in Ctx /\ pc[a] = "idle"
      /\ UNCHANGED <<packets, conn, lastGiven, rxq, sockq, hand, copy, cur, args>>
  BY NodeAssumption DEF SocketClose, At, Ctx, NodeAssumption
<1>2. Packets'
  BY <1>1, PacketsStay DEF IInv, packets
<1>3. Locals'
  BY <1>1 DEF IInv, SocketClose, Locals, LocalType, RouterOK, CtxOK, AppOK, Goto, packets,
     HasConn, AppPcs, HasPacket, Setting, PcValues, Ctx
<1>4. Tables'
  BY <1>1 DEF IInv, SocketClose, Tables
<1> QED BY <1>2, <1>3, <1>4 DEF IInv

LEMMA DrainKeeps ==
  ASSUME IInv, NEW a \in Apps, Drain(a)
  PROVE  IInv'
<1> DEFINE s == sk[a]
<1>1. /\ a # Router /\ a \in Ctx /\ pc[a] = "drain" /\ s \in Sockets
      /\ UNCHANGED <<driver, qfifo, halted, conn, lastGiven, rxq, ports, hand, copy, cur, args>>
  BY NodeAssumption DEF Drain, At, Ctx, IInv, Locals, AppOK, NodeAssumption
<1>2. ASSUME sockq[s] # <<>>, sockq' = [sockq EXCEPT ![s] = Tail(@)], UNCHANGED <<pc, sk>>,
             IF s \in ConnLess THEN Release({Head(sockq[s])}) ELSE UNCHANGED <<pool, hdr>>
      PROVE  IInv'
  <2>1. ASSUME s \in ConnLess PROVE Packets'
    BY <1>1, <1>2, <2>1, SockqToPool DEF IInv
  <2>2. ASSUME s \notin ConnLess PROVE Packets'
    <3>1. sockq[s] \in Seq(Conns) /\ Len(sockq[s]) <= RxqLen
      BY <1>1, <2>2 DEF IInv, Packets, SockqType
    <3>2. Tail(sockq[s]) \in Seq(Conns) /\ Len(Tail(sockq[s])) <= RxqLen
      BY <1>2, <3>1, HeadTailProperties, LenProperties, NodeAssumption DEF NodeAssumption
    <3> HIDE DEF s
    <3> QED BY <1>1, <1>2, <2>2, <3>2, BacklogChanges DEF IInv
  <2>3. Packets'
    BY <2>1, <2>2
  <2>4. Locals'
    BY <1>1, <1>2 DEF IInv, Locals, LocalType, RouterOK, CtxOK, AppOK
  <2> QED BY <1>1, <2>3, <2>4, TablesStay DEF IInv
<1>3. ASSUME Goto(a, "idle"), sk' = [sk EXCEPT ![a] = NoSock],
             UNCHANGED <<pool, hdr, sockq>>
      PROVE  IInv'
  <2>1. Packets'
    BY <1>1, <1>3, PacketsStay DEF IInv
  <2>2. Locals'
    BY <1>1, <1>3 DEF IInv, Locals, LocalType, RouterOK, CtxOK, AppOK, Goto,
       HasConn, AppPcs, HasPacket, Setting, PcValues, Ctx
  <2> QED BY <1>1, <2>1, <2>2, TablesStay DEF IInv
<1> QED BY <1>2, <1>3 DEF Drain

------------------------------------------------------------------------------
LEMMA InitEstablishes == Init => IInv
<1> SUFFICES ASSUME Init PROVE IInv
  OBVIOUS
<1>1. Range(<<>>) = {} /\ IsInjective(<<>>) /\ Len(<<>>) = 0 /\ \A S : <<>> \in Seq(S)
  BY EmptySeq DEF Range, IsInjective
<1>2. 0 \in Conns /\ 0 \in Ports /\ 0 \in Nat /\ 0 <= QfifoLen /\ 0 <= RxqLen
  BY NodeAssumption DEF NodeAssumption, Conns, Ports
<1>3. Owned
  <2>1. ASSUME NEW b \in Buffers PROVE Sits(b, "pool", 0)
    BY <1>1, NodeAssumption DEF Init, Sits, NodeAssumption
  <2> QED BY <1>2, <2>1 DEF Owned, Kinds, Indices
<1>4. PoolType /\ QfifoType /\ HandType
  BY <1>1, <1>2 DEF Init, PoolType, QfifoType, HandType
<1>5. RxqType /\ SockqType
  BY <1>1, <1>2, NodeAssumption DEF Init, RxqType, SockqType, NodeAssumption
<1>6. HdrType
  BY <1>1, NodeAssumption DEF Init, HdrType, Ctx, NodeAssumption
<1>7. Locals
  BY DEF Init, Locals, LocalType, RouterOK, CtxOK, AppOK, HasConn, AppPcs, HasPacket,
         Setting,
     PcValues, Ctx
<1>8. Tables
  BY <1>2, NodeAssumption DEF Init, Tables, FreshConn, Conn, NodeAssumption
<1> QED BY <1>3, <1>4, <1>5, <1>6, <1>7, <1>8 DEF IInv, Packets

LEMMA StepKeeps == IInv /\ [Next]_vars => IInv'
<1> SUFFICES ASSUME IInv, [Next]_vars PROVE IInv'
  OBVIOUS
<1>1. CASE Interrupt
  BY <1>1, RxStartKeeps, RxDoneKeeps DEF Interrupt
<1>2. CASE RouteRead \/ RouteStep
  BY <1>2, RouteReadKeeps, RouteClassifyKeeps, CallbackDoneKeeps, RouteDgramKeeps,
     RouteLookupKeeps, RouteAllocKeeps, FinishRouteKeeps, RouteEnqueueKeeps, RoutePostKeeps,
     UnpostKeeps DEF RouteStep
<1>3. ASSUME NEW x \in Ctx, Step(x) PROVE IInv'
  BY <1>3, TxDoneKeeps, SetTypeKeeps, CopyIdsKeeps, FlushKeeps, SetClosedKeeps DEF Step
<1>4. ASSUME NEW a \in Apps, AppStep(a) PROVE IInv'
  BY <1>4, FinishConnectKeeps, DrainKeeps DEF AppStep
<1>5. ASSUME NEW a \in Apps, Call(a) PROVE IInv'
  <2>1. ASSUME NEW bind \in Bindings, SetPort(a, bind[2], bind[1]) PROVE IInv'
    <3>1. bind[1] \in Sockets /\ bind[2] \in 0 .. AnyPort
      BY NodeAssumption DEF NodeAssumption
    <3> QED BY <2>1, <3>1, SetPortKeeps
  <2>2. ASSUME NEW p \in Callbacks, SetPort(a, p, Callback) PROVE IInv'
    BY <2>2, SetPortKeeps, NodeAssumption DEF NodeAssumption
  <2> QED BY <1>5, <2>1, <2>2, ConnectKeeps, NewPacketKeeps, FreePacketKeeps, SendKeeps,
          SendToKeeps, ReadKeeps, CloseKeeps, AcceptKeeps, RecvfromKeeps, SocketCloseKeeps
          DEF Call
<1>6. CASE UNCHANGED vars
  <2>1. Packets' /\ Tables'
    BY <1>6, PacketsStay, TablesStay DEF IInv, vars
  <2>2. Locals'
    BY <1>6 DEF IInv, vars, Locals, LocalType, RouterOK, CtxOK, AppOK
  <2> QED BY <2>1, <2>2 DEF IInv
<1> QED BY <1>1, <1>2, <1>3, <1>4, <1>5, <1>6 DEF Next

LEMMA IInvAlways == Spec => []IInv
BY InitEstablishes, StepKeeps, PTL DEF Spec

(* The variables of the node keep their types (the record fields, queue      *)
(* bounds and program counters of csp_conn.c, csp_qfifo.c and csp_route.c),  *)
(* for any number of packets, connections, sockets and contexts.             *)
THEOREM NodeTypeCorrect == Spec => []TypeOK
<1>1. IInv => TypeOK
  BY NodeAssumption DEF IInv, Packets, PoolType, QfifoType, RxqType, SockqType, HandType,
     HdrType, Locals, LocalType, Tables, TypeOK, NodeAssumption
<1> QED BY <1>1, IInvAlways, PTL

LEMMA OwnedOnce ==
  ASSUME IInv
  PROVE  OnePlace
<1> SUFFICES ASSUME NEW b \in Buffers PROVE \E p \in Places(b) : Places(b) = {p}
  BY DEF OnePlace
<1>1. PICK kind \in Kinds, j \in Indices : Sits(b, kind, j)
  BY DEF IInv, Packets, Owned
<1>3. ASSUME NEW q, b \notin Range(q) PROVE Occurs(b, q) = {}
  BY <1>3 DEF Range, Occurs
<1>4. ASSUME NEW q, IsInjective(q), b \in Range(q) PROVE \E i : Occurs(b, q) = {i}
  BY <1>4 DEF Range, Occurs, IsInjective
<1>5. /\ kind # "pool" => InPool(b) = {}
      /\ kind # "driver" => InDriver(b) = {}
      /\ kind # "hand" => InHand(b) = {}
      /\ kind # "copy" => InCopy(b) = {}
  BY <1>1 DEF Sits, InPool, InDriver, InHand, InCopy
<1>6. kind # "qfifo" => InQfifo(b) = {}
  BY <1>1, <1>3 DEF Sits, InQfifo
<1>7. kind # "rxq" => InRxq(b) = {}
  BY <1>1, <1>3 DEF Sits, InRxq
<1>8. kind # "sockq" => InSockq(b) = {}
  BY <1>1, <1>3 DEF Sits, InSockq
<1>9. CASE kind = "pool"
  <2>1. InPool(b) = {<<"pool">>}
    BY <1>1, <1>9 DEF Sits, InPool
  <2> QED BY <1>5, <1>6, <1>7, <1>8, <1>9, <2>1 DEF Places
<1>10. CASE kind = "driver"
  <2>1. InDriver(b) = {<<"driver">>}
    BY <1>1, <1>10 DEF Sits, InDriver
  <2> QED BY <1>5, <1>6, <1>7, <1>8, <1>10, <2>1 DEF Places
<1>11. CASE kind = "qfifo"
  <2>1. PICK i : Occurs(b, qfifo) = {i}
    BY <1>1, <1>4, <1>11 DEF Sits, IInv, Packets, QfifoType
  <2>2. InQfifo(b) = {<<"qfifo", i>>}
    BY <2>1 DEF InQfifo
  <2> QED BY <1>5, <1>6, <1>7, <1>8, <1>11, <2>2 DEF Places
<1>12. CASE kind = "rxq"
  <2>1. PICK i : Occurs(b, rxq[j]) = {i}
    BY <1>1, <1>4, <1>12 DEF Sits, IInv, Packets, RxqType
  <2>2. j \in Conns /\ \A c \in Conns : c # j => Occurs(b, rxq[c]) = {}
    BY <1>1, <1>3, <1>12 DEF Sits
  <2>3. InRxq(b) = {<<"rxq", j, i>>}
    BY <2>1, <2>2 DEF InRxq
  <2> QED BY <1>5, <1>6, <1>7, <1>8, <1>12, <2>3 DEF Places
<1>13. CASE kind = "sockq"
  <2>1. PICK i : Occurs(b, sockq[j]) = {i}
    BY <1>1, <1>4, <1>13 DEF Sits, IInv, Packets, SockqType
  <2>2. j \in ConnLess /\ \A s \in ConnLess : s # j => Occurs(b, sockq[s]) = {}
    BY <1>1, <1>3, <1>13 DEF Sits
  <2>3. InSockq(b) = {<<"sockq", j, i>>}
    BY <2>1, <2>2 DEF InSockq
  <2> QED BY <1>5, <1>6, <1>7, <1>8, <1>13, <2>3 DEF Places
<1>14. CASE kind = "hand"
  <2>1. {y \in Ctx : hand[y] = b} = {j}
    BY <1>1, <1>14 DEF Sits
  <2>2. InHand(b) = {<<"hand", j>>}
    BY <2>1 DEF InHand
  <2> QED BY <1>5, <1>6, <1>7, <1>8, <1>14, <2>2 DEF Places
<1>15. CASE kind = "copy"
  <2>1. {y \in Ctx : copy[y] = b} = {j}
    BY <1>1, <1>15 DEF Sits
  <2>2. InCopy(b) = {<<"copy", j>>}
    BY <2>1 DEF InCopy
  <2> QED BY <1>5, <1>6, <1>7, <1>8, <1>15, <2>2 DEF Places
<1> QED BY <1>1, <1>9, <1>10, <1>11, <1>12, <1>13, <1>14, <1>15 DEF Kinds

(* No packet buffer is lost, freed twice or delivered twice: on every way    *)
(* out of csp_route_work, csp_send, csp_conn_close, csp_socket_close and     *)
(* csp_qfifo_write, with preemptive tasks or in one main loop, whatever the  *)
(* numbers of packets, connections, sockets and contexts.                    *)
THEOREM PacketsHaveOnePlace == Spec => []OnePlace
BY IInvAlways, OwnedOnce, PTL

------------------------------------------------------------------------------
(* No connection is lost, in a program that closes no socket.  The router    *)
(* answers for a connection only while it sets it up, has yet to post it to  *)
(* its socket, or closes it: one that it has merely looked up is somebody    *)
(* else's.  A connection it has just set up has room for the packet.         *)
Others(c) == Waiting(c) \/ \E a \in Apps : cur[a] = c

RouterMinds(c) ==
    /\ cur[Router] = c
    /\ \/ pc[Router] \in Setting \cup {"closeFlush", "setClosed"}
       \/ pc[Router] = "enqueue" /\ conn[c].dest # NoSock /\ rxq[c] = <<>>
       \/ pc[Router] = "post" /\ conn[c].dest # NoSock

Minding == Setting \cup {"closeFlush", "setClosed", "enqueue", "post"}

Kept == \A c \in Conns : conn[c].open => Others(c) \/ RouterMinds(c)
FinishEmpty == pc[Router] = "finish" => rxq[cur[Router]] = <<>>
NoDrain == \A a \in Apps : pc[a] # "drain"

Accounts == Kept /\ FinishEmpty /\ NoDrain

WaitingStays == \A c \in Conns : Waiting(c) => Others(c)'

LEMMA SameBacklogs ==
  ASSUME IInv, \A s \in Sockets \ ConnLess : sockq'[s] = sockq[s]
  PROVE  WaitingStays
BY DEF WaitingStays, Waiting, Others, Occurs

\* Steps that open no connection and take none from an application.
LEMMA AccountsMove ==
  ASSUME Accounts, WaitingStays,
         \A c \in Conns : conn'[c].open => conn[c].open,
         \A a \in Apps, c \in Conns : cur[a] = c /\ conn'[c].open => cur'[a] = c,
         \A c \in Conns : RouterMinds(c) /\ conn'[c].open => Others(c)' \/ RouterMinds(c)',
         FinishEmpty', NoDrain'
  PROVE  Accounts'
<1>1. ASSUME NEW c \in Conns, conn'[c].open PROVE Others(c)' \/ RouterMinds(c)'
  <2>1. CASE Waiting(c)
    BY <2>1 DEF WaitingStays
  <2>2. CASE \E a \in Apps : cur[a] = c
    BY <1>1, <2>2 DEF Others
  <2>3. CASE RouterMinds(c)
    BY <1>1, <2>3
  <2> QED BY <1>1, <2>1, <2>2, <2>3 DEF Accounts, Kept, Others
<1> QED BY <1>1 DEF Accounts, Kept

\* Steps of applications that leave connections and backlogs as they are, but
\* for closing a connection or taking packets from it.
LEMMA AppAccounts ==
  ASSUME IInv, Accounts, NEW a \in Apps, WaitingStays,
         \A c \in Conns : conn'[c].open => conn[c].open /\ conn'[c].dest = conn[c].dest,
         \A c \in Conns : rxq[c] = <<>> => rxq'[c] = <<>>,
         \A x \in Ctx, c \in Conns : cur[x] = c /\ conn'[c].open => cur'[x] = c,
         cur'[Router] = cur[Router],
         \E at \in AppPcs \ {"drain"} : pc' = pc \/ Goto(a, at)
  PROVE  Accounts'
<1>1. /\ pc'[Router] = pc[Router] /\ NoDrain' /\ Router \in Ctx
      /\ cur[Router] \in Conns \/ pc[Router] # "finish"
  BY NodeAssumption DEF NodeAssumption, Goto, IInv, Locals, LocalType, Ctx, Accounts,
     NoDrain,
     CtxOK, HasConn, Setting
<1>2. FinishEmpty'
  BY <1>1 DEF Accounts, FinishEmpty
<1>3. \A c \in Conns : RouterMinds(c) /\ conn'[c].open => RouterMinds(c)'
  BY <1>1 DEF RouterMinds
<1> QED BY <1>1, <1>2, <1>3, AccountsMove DEF Ctx

\* Steps of the router while it minds no connection.
LEMMA RouterAccounts ==
  ASSUME IInv, Accounts, WaitingStays, pc[Router] \notin Minding,
         UNCHANGED conn,
         \A a \in Apps : cur'[a] = cur[a] /\ pc'[a] = pc[a],
         pc'[Router] # "finish"
  PROVE  Accounts'
<1>1. FinishEmpty' /\ NoDrain'
  BY DEF Accounts, FinishEmpty, NoDrain
<1>2. \A c \in Conns : ~RouterMinds(c)
  BY DEF RouterMinds, Minding
<1> QED BY <1>1, <1>2, AccountsMove

LEMMA InterruptAccounts ==
  ASSUME IInv, Accounts, Interrupt
  PROVE  Accounts'
<1>1. UNCHANGED <<conn, rxq, sockq, pc, cur>>
  BY DEF Interrupt, RxStart, RxDone, tables
<1> QED BY <1>1 DEF Accounts, Kept, FinishEmpty, NoDrain, Others, Waiting, RouterMinds,
           Occurs

LEMMA EmitFrame ==
  ASSUME NEW x \in Ctx, NEW dst, NEW h, Emit(x, dst, h) \/ Transmit(x) \/ DropHand(x)
  PROVE  Goto(x, "idle") \/ Goto(x, "tx")
BY DEF Emit, Transmit, DropHand

LEMMA RouterEasyAccounts ==
  ASSUME IInv, Accounts,
         RouteRead \/ RouteClassify \/ CallbackDone \/ RouteDgram \/ RouteLookup \/ TxDone(Router)
  PROVE  Accounts'
<1>1. Router \in Ctx /\ Router \notin Apps
  BY NodeAssumption DEF Ctx, NodeAssumption
<1>2. /\ pc[Router] \notin Minding /\ UNCHANGED conn
      /\ \A s \in Sockets \ ConnLess : sockq'[s] = sockq[s]
  BY DEF RouteRead, RouteClassify, CallbackDone, RouteDgram, RouteLookup, TxDone, At,
         tables,
     Minding, Setting, IInv, Locals, RouterOK, Packets, SockqType
<1>3. \E at \in PcValues \ {"finish"} : Goto(Router, at)
  BY <1>1, EmitFrame DEF RouteRead, RouteClassify, CallbackDone, RouteDgram, RouteLookup,
     TxDone, Reply,
     DropHand, PcValues
<1>4. \A a \in Apps : cur'[a] = cur[a]
  <2>1. UNCHANGED cur \/ \E c : cur' = [cur EXCEPT ![Router] = c]
    <3>1. CASE RouteLookup
      BY <3>1 DEF RouteLookup
    <3>2. CASE ~RouteLookup
      BY <3>2 DEF RouteRead, RouteClassify, CallbackDone, RouteDgram, TxDone
    <3> QED BY <3>1, <3>2
  <2> QED BY <1>1, <2>1 DEF IInv, Locals, LocalType, Ctx
<1>5. pc'[Router] # "finish" /\ \A a \in Apps : pc'[a] = pc[a]
  BY <1>1, <1>3 DEF Goto, IInv, Locals, LocalType
<1> QED BY <1>2, <1>4, <1>5, SameBacklogs, RouterAccounts

LEMMA AppEasyAccounts ==
  ASSUME IInv, Accounts, NEW a \in Apps,
         \/ NewPacket(a) \/ FreePacket(a) \/ Send(a) \/ SendTo(a) \/ Read(a) \/ TxDone(a)
         \/ \E s \in Sockets : Recvfrom(a, s)
         \/ \E p, entry : SetPort(a, p, entry)
  PROVE  Accounts'
<1>1. a \in Ctx /\ a # Router
  BY NodeAssumption DEF Ctx, NodeAssumption
<1>2. UNCHANGED <<conn, cur>>
  BY DEF NewPacket, FreePacket, Send, SendTo, Read, TxDone, Recvfrom, SetPort, tables
<1>3. \A s \in Sockets \ ConnLess : sockq'[s] = sockq[s]
  BY DEF NewPacket, FreePacket, Send, SendTo, Read, TxDone, Recvfrom, SetPort, tables, IInv,
     Packets, SockqType
<1>4. \A c \in Conns : rxq[c] = <<>> => rxq'[c] = <<>>
  <2>1. CASE Read(a)
    BY <2>1 DEF Read, IInv, Packets, RxqType
  <2>2. CASE ~Read(a)
    BY <2>2 DEF NewPacket, FreePacket, Send, SendTo, TxDone, Recvfrom, SetPort, tables
  <2> QED BY <2>1, <2>2
<1>5. pc' = pc \/ Goto(a, "idle") \/ Goto(a, "tx")
  BY <1>1, EmitFrame DEF NewPacket, FreePacket, Send, SendTo, Read, TxDone, Recvfrom,
     SetPort,
     Reply, DropHand
<1>6. \E at \in AppPcs \ {"drain"} : pc' = pc \/ Goto(a, at)
  BY <1>5 DEF AppPcs
<1> QED BY <1>2, <1>3, <1>4, <1>6, SameBacklogs, AppAccounts

LEMMA AcceptAccounts ==
  ASSUME IInv, Accounts, NEW a \in Apps, NEW s \in Sockets, Accept(a, s)
  PROVE  Accounts'
<1>1. /\ a \in Ctx /\ a # Router /\ cur[a] = NoConn /\ NoConn \notin Conns
      /\ sockq[s] \in Seq(Conns) /\ sockq[s] # <<>> /\ UNCHANGED <<conn, rxq, pc>>
      /\ \A t \in Sockets : t # s => sockq'[t] = sockq[t]
      /\ sockq'[s] = Tail(sockq[s]) /\ cur'[a] = Head(sockq[s])
      /\ \A x \in Ctx : x # a => cur'[x] = cur[x]
  BY NodeAssumption DEF Ctx, NodeAssumption, Accept, IInv, Packets, SockqType, Locals,
     LocalType
<1>2. WaitingStays
  <2> SUFFICES ASSUME NEW c \in Conns, Waiting(c), cur'[a] # c PROVE Waiting(c)'
    BY DEF WaitingStays, Others
  <2>0. PICK t \in Sockets \ ConnLess : Occurs(c, sockq[t]) # {}
    BY DEF Waiting
  <2>1. PICK i \in DOMAIN sockq[t] : sockq[t][i] = c
    BY <2>0 DEF Occurs
  <2>2. CASE t # s
    BY <1>1, <2>0, <2>2 DEF Waiting, Occurs
  <2>3. CASE t = s
    <3>1. i \in 2 .. Len(sockq[s])
      BY <1>1, <2>1, <2>3
    <3>2. i - 1 \in DOMAIN Tail(sockq[s]) /\ Tail(sockq[s])[i - 1] = c
      BY <1>1, <2>1, <2>3, <3>1
    <3> QED BY <1>1, <2>1, <2>3, <3>2 DEF Waiting, Occurs
  <2> QED BY <2>2, <2>3
<1>3. \A x \in Ctx, c \in Conns : cur[x] = c => cur'[x] = c
  BY <1>1
<1>4. cur'[Router] = cur[Router] /\ "idle" \in AppPcs
  BY <1>1 DEF Ctx, AppPcs
<1> QED BY <1>1, <1>2, <1>3, <1>4, AppAccounts

LEMMA CloseAccounts ==
  ASSUME IInv, Accounts, NEW a \in Apps, Close(a)
  PROVE  Accounts'
<1>1. /\ a \in Ctx /\ a # Router /\ cur[a] \in Conns /\ UNCHANGED <<conn, sockq, rxq>>
      /\ pc' = pc \/ Goto(a, "closeFlush")
      /\ cur' = cur \/ (~conn[cur[a]].open /\ cur' = [cur EXCEPT ![a] = NoConn])
  BY NodeAssumption DEF Ctx, NodeAssumption, Close, tables, IInv, Locals, LocalType
<1>2. /\ \A x \in Ctx, c \in Conns : cur[x] = c /\ conn'[c].open => cur'[x] = c
      /\ cur'[Router] = cur[Router]
  BY <1>1 DEF IInv, Locals, LocalType, Ctx
<1>3. \E at \in AppPcs \ {"drain"} : pc' = pc \/ Goto(a, at)
  BY <1>1 DEF AppPcs
<1>4. WaitingStays
  BY <1>1, SameBacklogs
<1> QED BY <1>1, <1>2, <1>3, <1>4, AppAccounts

LEMMA TakeAccounts ==
  ASSUME IInv, Accounts, NEW x \in Ctx, NEW c \in Conns, Take(x, c),
         x = Router => pc[x] = "alloc", x # Router => cur[x] = NoConn,
         UNCHANGED <<rxq, sockq>>
  PROVE  Accounts'
<1>1. /\ NoConn \notin Conns /\ cur'[x] = c /\ pc'[x] = "setType"
      /\ \A y \in Ctx : y # x => cur'[y] = cur[y] /\ pc'[y] = pc[y]
      /\ \A d \in Conns : d # c => conn'[d] = conn[d]
      /\ Router \in Ctx /\ Router \notin Apps /\ (x \in Apps \/ x = Router)
  BY NodeAssumption DEF NodeAssumption, Take, Goto, IInv, Locals, LocalType, Ctx, Tables
<1>2. WaitingStays
  BY SameBacklogs
<1>3. Others(c)' \/ RouterMinds(c)'
  BY <1>1 DEF Others, RouterMinds, Setting
<1>4. ASSUME NEW d \in Conns, d # c, conn[d].open PROVE Others(d)' \/ RouterMinds(d)'
  <2>1. CASE Waiting(d)
    BY <1>2, <2>1 DEF WaitingStays
  <2>2. CASE \E a \in Apps : cur[a] = d
    <3>1. PICK a \in Apps : cur[a] = d
      BY <2>2
    <3>2. a # x
      <4>1. SUFFICES ASSUME a = x PROVE FALSE
        OBVIOUS
      <4>2. x # Router
        BY NodeAssumption, <3>1, <4>1 DEF NodeAssumption
      <4> QED BY <1>1, <1>4, <3>1, <4>1, <4>2
    <3>3. cur'[a] = d
      BY <1>1, <3>1, <3>2 DEF Ctx
    <3> QED BY <3>1, <3>3 DEF Others
  <2>3. CASE RouterMinds(d)
    <3>1. x # Router
      BY <2>3 DEF RouterMinds, Setting
    <3> QED BY <1>1, <1>4, <2>3, <3>1 DEF RouterMinds
  <2> QED BY <1>4, <2>1, <2>2, <2>3 DEF Accounts, Kept, Others
<1>5. FinishEmpty' /\ NoDrain'
  BY <1>1 DEF Accounts, FinishEmpty, NoDrain, Ctx
<1> QED BY <1>1, <1>3, <1>4, <1>5 DEF Accounts, Kept

LEMMA RouteAllocAccounts ==
  ASSUME IInv, Accounts, RouteAlloc
  PROVE  Accounts'
<1>1. pc[Router] = "alloc" /\ UNCHANGED <<rxq, sockq>> /\ Router \in Ctx /\ Router \notin Apps
  BY NodeAssumption DEF NodeAssumption, RouteAlloc, At, Ctx
<1>2. ASSUME NEW c \in Allocated, Take(Router, c) PROVE Accounts'
  <2>1. c \in Conns
    BY AllocatedConns DEF IInv
  <2> QED BY <1>1, <1>2, <2>1, TakeAccounts
<1>3. CASE DropHand(Router) /\ UNCHANGED <<conn, lastGiven, cur>>
  <2>1. pc[Router] \notin Minding /\ WaitingStays
    BY <1>1, SameBacklogs DEF Minding, Setting
  <2>2. pc'[Router] # "finish" /\ \A a \in Apps : pc'[a] = pc[a]
    BY <1>1, <1>3 DEF DropHand, Goto, IInv, Locals, LocalType, Ctx
  <2> QED BY <1>3, <2>1, <2>2, RouterAccounts
<1> QED BY <1>2, <1>3 DEF RouteAlloc

LEMMA ConnectAccounts ==
  ASSUME IInv, Accounts, NEW a \in Apps, NEW k \in Connects, Connect(a, k)
  PROVE  Accounts'
<1>1. PICK c \in Allocated : Take(a, c)
  BY DEF Connect
<1>2. c \in Conns /\ a \in Ctx /\ a # Router
  BY AllocatedConns, NodeAssumption DEF IInv, Ctx, NodeAssumption
<1> QED BY <1>1, <1>2, TakeAccounts DEF Connect

\* A step from one state of setting up or closing to the next.
LEMMA SetupAccounts ==
  ASSUME IInv, Accounts, NEW x \in Ctx, NEW at \in Setting \cup {"setClosed"}, Goto(x, at),
         pc[x] \in Setting \cup {"closeFlush"}, UNCHANGED <<cur, sockq, rxq>>,
         \A c \in Conns : conn'[c].open = conn[c].open /\ conn'[c].dest = conn[c].dest,
         at = "finish" => rxq[cur[x]] = <<>>
  PROVE  Accounts'
<1>1. /\ pc'[x] = at /\ \A y \in Ctx : y # x => pc'[y] = pc[y]
      /\ Router \in Ctx /\ Apps \subseteq Ctx /\ at # "drain"
  BY DEF Goto, IInv, Locals, LocalType, Ctx, Setting
<1>2. WaitingStays
  BY SameBacklogs
<1>3. FinishEmpty'
  BY <1>1 DEF Accounts, FinishEmpty
<1>4. NoDrain'
  BY <1>1 DEF Accounts, NoDrain
<1>5. ASSUME NEW c \in Conns, RouterMinds(c) PROVE RouterMinds(c)'
  <2>1. CASE x = Router
    BY <1>1, <1>5, <2>1 DEF RouterMinds, Setting
  <2>2. CASE x # Router
    BY <1>1, <1>5, <2>2 DEF RouterMinds
  <2> QED BY <2>1, <2>2
<1> QED BY <1>2, <1>3, <1>4, <1>5, AccountsMove

LEMMA SetTypeAccounts ==
  ASSUME IInv, Accounts, NEW x \in Ctx, SetType(x)
  PROVE  Accounts'
<1>1. \A c \in Conns : conn'[c].open = conn[c].open /\ conn'[c].dest = conn[c].dest
  BY DEF SetType, IInv, Tables, Conn
<1> QED BY <1>1, SetupAccounts DEF SetType, At, Setting

LEMMA CopyIdsAccounts ==
  ASSUME IInv, Accounts, NEW x \in Ctx, CopyIds(x)
  PROVE  Accounts'
<1>1. \A c \in Conns : conn'[c].open = conn[c].open /\ conn'[c].dest = conn[c].dest
  BY DEF CopyIds, IInv, Tables, Conn
<1> QED BY <1>1, SetupAccounts DEF CopyIds, At, Setting

LEMMA FlushAccounts ==
  ASSUME IInv, Accounts, NEW x \in Ctx, Flush(x)
  PROVE  Accounts'
<1>1. /\ pc[x] \in {"newFlush", "closeFlush"} /\ UNCHANGED <<conn, cur, sockq>>
      /\ cur[x] \in Conns
  BY DEF Flush, At, IInv, Locals, CtxOK, HasConn, Setting
<1>2. CASE UNCHANGED pc /\ rxq' = [rxq EXCEPT ![cur[x]] = Tail(@)] /\ rxq[cur[x]] # <<>>
  <2>1. WaitingStays
    BY <1>1, SameBacklogs
  <2>2. \A c \in Conns : rxq[c] = <<>> => rxq'[c] = <<>>
    BY <1>2 DEF IInv, Packets, RxqType
  <2>3. cur[Router] \in Conns \/ pc[Router] # "finish"
    BY DEF IInv, Locals, CtxOK, HasConn, Setting, Ctx
  <2>4. FinishEmpty' /\ NoDrain'
    BY <1>1, <1>2, <2>2, <2>3 DEF Accounts, FinishEmpty, NoDrain
  <2>5. \A c \in Conns : RouterMinds(c) => RouterMinds(c)'
    BY <1>1, <1>2, <2>2 DEF RouterMinds
  <2> QED BY <1>1, <2>1, <2>4, <2>5, AccountsMove
<1>3. CASE /\ rxq[cur[x]] = <<>> /\ UNCHANGED rxq
           /\ Goto(x, IF pc[x] = "newFlush" THEN "finish" ELSE "setClosed")
  BY <1>1, <1>3, SetupAccounts DEF Setting
<1> QED BY <1>2, <1>3 DEF Flush

LEMMA SetClosedAccounts ==
  ASSUME IInv, Accounts, NEW x \in Ctx, SetClosed(x)
  PROVE  Accounts'
<1>1. /\ cur[x] \in Conns /\ ~conn'[cur[x]].open /\ Apps \subseteq Ctx /\ Router \in Ctx
      /\ \A c \in Conns : c # cur[x] => conn'[c] = conn[c]
      /\ pc'[x] = "idle" /\ \A y \in Ctx : y # x => cur'[y] = cur[y] /\ pc'[y] = pc[y]
      /\ UNCHANGED <<sockq, rxq>>
  BY DEF SetClosed, At, Goto, IInv, Locals, LocalType, CtxOK, HasConn, Tables, Conn, Ctx
<1>2. WaitingStays
  BY <1>1, SameBacklogs
<1>3. FinishEmpty'
  BY <1>1 DEF Accounts, FinishEmpty
<1>4. NoDrain'
  BY <1>1 DEF Accounts, NoDrain
<1>5. ASSUME NEW c \in Conns, conn'[c].open PROVE c # cur[x] /\ conn'[c] = conn[c]
  BY <1>1, <1>5
<1>6. ASSUME NEW c \in Conns, RouterMinds(c), conn'[c].open PROVE RouterMinds(c)'
  BY <1>1, <1>5, <1>6 DEF RouterMinds
<1> QED BY <1>1, <1>2, <1>3, <1>4, <1>5, <1>6, AccountsMove

LEMMA FinishRouteAccounts ==
  ASSUME IInv, Accounts, FinishRoute
  PROVE  Accounts'
<1>1. /\ cur[Router] \in Conns /\ pc[Router] = "finish" /\ Router \in Ctx /\ Router \notin Apps
      /\ sk[Router] \in Sockets /\ sk[Router] # NoSock /\ UNCHANGED <<cur, sockq, rxq>>
  BY NodeAssumption DEF NodeAssumption, IInv, Locals, CtxOK, RouterOK, HasConn, Setting,
     FinishRoute, At, Ctx
<1>2. /\ pc'[Router] = "enqueue" /\ \A a \in Apps : pc'[a] = pc[a]
      /\ conn'[cur[Router]].dest = sk[Router]
      /\ \A c \in Conns : conn'[c].open = conn[c].open
  BY <1>1 DEF FinishRoute, Goto, IInv, Locals, LocalType, Tables, Conn, Ctx
<1>3. rxq[cur[Router]] = <<>>
  BY <1>1 DEF Accounts, FinishEmpty
<1>4. \A c \in Conns : RouterMinds(c) => RouterMinds(c)'
  BY <1>1, <1>2, <1>3 DEF RouterMinds
<1>5. FinishEmpty' /\ NoDrain'
  BY <1>2 DEF Accounts, FinishEmpty, NoDrain
<1> QED BY <1>1, <1>2, <1>4, <1>5, SameBacklogs, AccountsMove

LEMMA FinishConnectAccounts ==
  ASSUME IInv, Accounts, NEW a \in Apps, FinishConnect(a)
  PROVE  Accounts'
<1>1. /\ cur[a] \in Conns /\ a \in Ctx /\ a # Router /\ Apps \subseteq Ctx /\ Router \in Ctx
      /\ UNCHANGED <<cur, sockq, rxq>>
  BY NodeAssumption DEF NodeAssumption, IInv, Locals, CtxOK, HasConn, Setting,
     FinishConnect,
     At, Ctx
<1>2. /\ pc'[a] = "idle" /\ \A x \in Ctx : x # a => pc'[x] = pc[x]
      /\ \A c \in Conns : conn'[c].open = conn[c].open
      /\ \A c \in Conns : c # cur[a] => conn'[c] = conn[c]
  BY <1>1 DEF FinishConnect, Goto, IInv, Locals, LocalType, Tables, Conn
<1>3. \A c \in Conns : RouterMinds(c) => Others(c)' \/ RouterMinds(c)'
  BY <1>1, <1>2 DEF RouterMinds, Others
<1>4. FinishEmpty' /\ NoDrain'
  BY <1>1, <1>2 DEF Accounts, FinishEmpty, NoDrain
<1> QED BY <1>1, <1>2, <1>3, <1>4, SameBacklogs, AccountsMove

\* A full receive queue is not that of a connection just set up: it has an owner.
LEMMA RouteEnqueueAccounts ==
  ASSUME IInv, Accounts, RouteEnqueue
  PROVE  Accounts'
<1>1. /\ cur[Router] \in Conns /\ pc[Router] = "enqueue" /\ Router \in Ctx /\ Router \notin Apps
      /\ UNCHANGED <<conn, sockq>>
  BY NodeAssumption DEF NodeAssumption, IInv, Locals, CtxOK, HasConn, RouteEnqueue, At, Ctx
<1>2. CASE Deliver(cur[Router])
  <2>1. /\ pc'[Router] = "post" /\ UNCHANGED cur /\ \A a \in Apps : pc'[a] = pc[a]
    BY <1>1, <1>2 DEF Deliver, Goto, IInv, Locals, LocalType, Ctx
  <2>2. \A c \in Conns : RouterMinds(c) => RouterMinds(c)'
    BY <1>1, <2>1 DEF RouterMinds, Setting
  <2>3. FinishEmpty' /\ NoDrain'
    BY <2>1 DEF Accounts, FinishEmpty, NoDrain
  <2> QED BY <1>1, <2>1, <2>2, <2>3, SameBacklogs, AccountsMove
<1>3. CASE Overflow(cur[Router])
  <2>1. /\ pc'[Router] = "idle" /\ \A a \in Apps : pc'[a] = pc[a] /\ cur'[a] = cur[a]
    BY <1>1, <1>3 DEF Overflow, DropHand, Goto, IInv, Locals, LocalType, Ctx
  <2>2. rxq[cur[Router]] # <<>>
    BY <1>3, NodeAssumption DEF Overflow, NodeAssumption
  <2>3. \A c \in Conns : ~RouterMinds(c)
    BY <1>1, <2>2 DEF RouterMinds, Setting
  <2>4. FinishEmpty' /\ NoDrain'
    BY <2>1 DEF Accounts, FinishEmpty, NoDrain
  <2> QED BY <1>1, <2>1, <2>3, <2>4, SameBacklogs, AccountsMove
<1> QED BY <1>2, <1>3 DEF RouteEnqueue

\* The connection is posted, or has an owner already, or is closed at once.
LEMMA RoutePostAccounts ==
  ASSUME IInv, Accounts, RoutePost
  PROVE  Accounts'
<1> DEFINE c == cur[Router]
           s == conn[c].dest
<1>1. /\ c \in Conns /\ pc[Router] = "post" /\ Router \in Ctx /\ Router \notin Apps
      /\ UNCHANGED <<conn, rxq>> /\ s \in (Sockets \ ConnLess) \cup {NoSock}
  BY NodeAssumption DEF NodeAssumption, IInv, Locals, CtxOK, HasConn, RoutePost, At, Ctx,
     Tables, Conn
<1>2. /\ \A a \in Apps : pc'[a] = pc[a] /\ cur'[a] = cur[a]
      /\ pc'[Router] \in {"idle", "unpost", "closeFlush"}
      /\ pc'[Router] = "closeFlush" => cur'[Router] = c
  BY <1>1 DEF RoutePost, Goto, IInv, Locals, LocalType, Ctx
<1>3. FinishEmpty' /\ NoDrain'
  BY <1>2 DEF Accounts, FinishEmpty, NoDrain
<1>4. \A d \in Conns : RouterMinds(d) => d = c /\ s # NoSock
  BY <1>1 DEF RouterMinds, Setting
<1>5. CASE /\ s # NoSock /\ sockq' = [sockq EXCEPT ![s] = Append(@, cur[Router])]
  <2>1. /\ sockq'[s] = Append(sockq[s], c) /\ sockq[s] \in Seq(Conns) /\ s \in Sockets \ ConnLess
        /\ \A t \in Sockets : t # s => sockq'[t] = sockq[t]
    BY <1>1, <1>5 DEF IInv, Packets, SockqType
  <2>2. \A d : Occurs(d, sockq[s]) \subseteq Occurs(d, sockq'[s])
    <3>1. \A i \in DOMAIN sockq[s] : i \in DOMAIN sockq'[s] /\ sockq'[s][i] = sockq[s][i]
      BY <1>1, <2>1, AppendProperties
    <3> QED BY <3>1 DEF Occurs
  <2>3. Occurs(c, sockq'[s]) # {}
    <3>1. /\ Len(sockq[s]) + 1 \in DOMAIN sockq'[s] /\ sockq'[s][Len(sockq[s]) + 1] = c
      BY <1>1, <2>1, AppendProperties
    <3> QED BY <3>1 DEF Occurs
  <2>4. WaitingStays
    <3> HIDE DEF c, s
    <3> QED BY <2>1, <2>2 DEF WaitingStays, Waiting, Others
  <2>5. \E t \in Sockets \ ConnLess : Occurs(c, sockq'[t]) # {}
    BY <2>1, <2>3
  <2>6. \A d \in Conns : RouterMinds(d) => Others(d)'
    <3> HIDE DEF c, s
    <3> QED BY <1>4, <2>5 DEF Others, Waiting, Occurs
  <2> QED BY <1>1, <1>2, <1>3, <2>4, <2>6, AccountsMove
<1>6. CASE s = NoSock /\ UNCHANGED sockq
  BY <1>1, <1>2, <1>3, <1>4, <1>6, SameBacklogs, AccountsMove
<1>7. CASE /\ UNCHANGED sockq /\ Goto(Router, IF conn[c].open THEN "closeFlush" ELSE "idle")
  <2>1. conn[c].open => pc'[Router] = "closeFlush"
    BY <1>1, <1>7 DEF Goto, IInv, Locals, LocalType
  <2>2. \A d \in Conns : RouterMinds(d) /\ conn'[d].open => RouterMinds(d)'
    BY <1>1, <1>2, <1>4, <2>1 DEF RouterMinds
  <2> QED BY <1>1, <1>2, <1>3, <1>7, <2>2, SameBacklogs, AccountsMove
<1> QED BY <1>5, <1>6, <1>7 DEF RoutePost

LEMMA RouteUnpostAccounts ==
  ASSUME IInv, Accounts, RouteUnpost
  PROVE  Accounts'
<1>1. /\ pc[Router] = "unpost" /\ cur[Router] \in Conns /\ Router \in Ctx /\ Router \notin Apps
      /\ UNCHANGED <<sockq, rxq>>
  BY NodeAssumption DEF NodeAssumption, IInv, Locals, CtxOK, HasConn, RouteUnpost, At, Ctx
<1>2. /\ pc'[Router] = "idle" /\ \A a \in Apps : pc'[a] = pc[a] /\ cur'[a] = cur[a]
      /\ \A c \in Conns : conn'[c].open = conn[c].open
  BY <1>1 DEF RouteUnpost, Goto, IInv, Locals, LocalType, Tables, Conn, Ctx
<1>3. \A c \in Conns : ~RouterMinds(c)
  BY <1>1 DEF RouterMinds, Setting
<1>4. FinishEmpty' /\ NoDrain'
  BY <1>2 DEF Accounts, FinishEmpty, NoDrain
<1> QED BY <1>1, <1>2, <1>3, <1>4, SameBacklogs, AccountsMove

LEMMA InitAccounts == Init => Accounts
<1>1. ASSUME Init PROVE (\A c \in Conns : ~conn[c].open) /\ \A x \in Ctx : pc[x] = "idle"
  BY <1>1 DEF Init, FreshConn
<1> QED BY <1>1 DEF Accounts, Kept, FinishEmpty, NoDrain, Ctx

LEMMA StepAccounts ==
  ASSUME ~ClosesSockets, IInv, Accounts, [Next]_vars
  PROVE  Accounts'
<1>1. CASE Interrupt
  BY <1>1, InterruptAccounts
<1>2. CASE RouteRead \/ RouteStep
  BY <1>2, RouterEasyAccounts, RouteAllocAccounts, FinishRouteAccounts,
     RouteEnqueueAccounts,
     RoutePostAccounts, RouteUnpostAccounts DEF RouteStep
<1>3. ASSUME NEW x \in Ctx, Step(x) PROVE Accounts'
  <2>1. CASE TxDone(x)
    BY <2>1, RouterEasyAccounts, AppEasyAccounts DEF Ctx
  <2> QED BY <1>3, <2>1, SetTypeAccounts, CopyIdsAccounts, FlushAccounts, SetClosedAccounts
          DEF Step
<1>4. ASSUME NEW a \in Apps, AppStep(a) PROVE Accounts'
  <2>1. ~Drain(a)
    BY DEF Drain, At, Accounts, NoDrain
  <2> QED BY <1>4, <2>1, FinishConnectAccounts DEF AppStep
<1>5. ASSUME NEW a \in Apps, Call(a) PROVE Accounts'
  <2>1. \A s \in Sockets : ~SocketClose(a, s)
    BY DEF SocketClose
  <2> QED BY <1>5, <2>1, ConnectAccounts, AppEasyAccounts, CloseAccounts, AcceptAccounts
          DEF Call
<1>6. CASE UNCHANGED vars
  BY <1>6 DEF vars, Accounts, Kept, FinishEmpty, NoDrain, Others, Waiting, RouterMinds,
     Occurs
<1> QED BY <1>1, <1>2, <1>3, <1>4, <1>5, <1>6 DEF Next

(* An open connection is held by a context or waits in a backlog: none is    *)
(* lost on any path of csp_route_work, csp_connect, csp_accept and csp_close *)
(* (a full receive queue, a full backlog, a table without room), with        *)
(* preemptive tasks or without, as long as no socket is closed.              *)
THEOREM ConnectionsAreKept ==
  ASSUME ~ClosesSockets
  PROVE  Spec => []NoConnLost
<1>1. Accounts => NoConnLost
  BY DEF Accounts, Kept, Others, RouterMinds, NoConnLost, Ctx
<1>2. IInv /\ Accounts /\ [Next]_vars => (IInv /\ Accounts)'
  BY StepKeeps, StepAccounts
<1>3. Init => IInv /\ Accounts
  BY InitEstablishes, InitAccounts
<1> QED BY <1>1, <1>2, <1>3, PTL DEF Spec
================================================================================
