---------------------------- MODULE CspSessionProofs ----------------------------
(***************************************************************************)
(* The client and the server for every number of requests, length of the    *)
(* queue, size of fragments and choice of services: answers come in order   *)
(* and with the length their client wants, and what SFP returns is in its   *)
(* place and, if all of it waited, whole.                                   *)
EXTENDS CspSession, SequenceTheorems, TLAPS

------------------------------------------------------------------------------
(* The inductive invariant.                                                  *)

\* What a packet carries is what the server makes of a request of this kind.
Belongs(p, kind) ==
    IF p.frag
    THEN /\ kind.service = "file"
         /\ \E k \in DOMAIN Fragments(kind.total) :
               /\ p.offset = Fragments(kind.total)[k].offset
               /\ p.total = Fragments(kind.total)[k].total
               /\ p.size = Fragments(kind.total)[k].size
    ELSE p.len = AnswerLen(kind.service)

Meant(p) == p.req \in DOMAIN asked /\ Belongs(p, asked[p.req])

Types == /\ port \in {NoPort} \cup {PortOf(kind) : kind \in Kinds}
         /\ asked \in Seq(Kinds) /\ Len(asked) <= MaxRequests
         /\ out \in Seq(DOMAIN asked)
         /\ rxq \in Seq(Packet) /\ back \in Seq(Packet) /\ Len(rxq) <= RxqLen
         /\ recv \in [pieces : Seq(Packet), got : Nat, datasize : Nat, result : {"more"}]
         /\ last \in 0 .. Len(asked) /\ done \subseteq DOMAIN asked

Filled == /\ \A k \in DOMAIN rxq : Meant(rxq[k])
          /\ \A k \in DOMAIN back : Meant(back[k])
          /\ \A k \in DOMAIN recv.pieces : Meant(recv.pieces[k])

\* Packet p was asked for before q, or both are fragments of one transfer.
Before(p, q) == p.req < q.req \/ (p.req = q.req /\ q.frag)

\* Packet p may be returned after the answer to request n was.
Follows(p, n) == n < p.req \/ (n = p.req /\ p.frag)

\* Requests stay in order on their way to the server, there, and back to the client.
InLine(rq, bk, n) ==
    /\ \A k \in DOMAIN rq : Follows(rq[k], n) /\ \A j \in 1 .. k - 1 : Before(rq[j], rq[k])
    /\ \A k \in DOMAIN bk : /\ Follows(bk[k], n)
                            /\ \A j \in 1 .. k - 1 : Before(bk[j], bk[k])
                            /\ \A j \in DOMAIN rq : Before(rq[j], bk[k])

Later(rq, bk, ou, n) ==
    \A k \in DOMAIN ou : /\ n < ou[k]
                         /\ \A j \in 1 .. k - 1 : ou[j] < ou[k]
                         /\ \A j \in DOMAIN rq : rq[j].req < ou[k]
                         /\ \A j \in DOMAIN bk : bk[j].req < ou[k]

Sequenced == InLine(rxq, back, last) /\ Later(rxq, back, out, last)

\* Inside a call of csp_sfp_recv_fp: the pieces so far are one behind the other, and
\* there is more to come.
Assembled ==
    LET ps == recv.pieces
    IN  /\ ps = <<>> => recv = Started
        /\ ps # <<>> => /\ port = "file" /\ ps[1].offset = 0
                        /\ recv.got < recv.datasize
                        /\ recv.got = ps[Len(ps)].offset + ps[Len(ps)].size
        /\ \A k \in DOMAIN ps : /\ ps[k].frag /\ ps[k].total = recv.datasize
                                /\ ps[k].offset + ps[k].size <= recv.got
        /\ \A k \in 1 .. Len(ps) - 1 : ps[k + 1].offset = ps[k].offset + ps[k].size

SInv == Types /\ Filled /\ Sequenced /\ Assembled

------------------------------------------------------------------------------
(* Sequences.                                                                *)
LEMMA TailFacts ==
  ASSUME NEW S, NEW q \in Seq(S), q # <<>>
  PROVE  /\ Head(q) = q[1] /\ q[1] \in S /\ 1 \in DOMAIN q
         /\ Tail(q) \in Seq(S) /\ Len(Tail(q)) = Len(q) - 1
         /\ \A k \in DOMAIN Tail(q) : k + 1 \in DOMAIN q /\ Tail(q)[k] = q[k + 1]
  OBVIOUS

LEMMA AppendFacts ==
  ASSUME NEW S, NEW q \in Seq(S), NEW e \in S
  PROVE  /\ Append(q, e) \in Seq(S) /\ Len(Append(q, e)) = Len(q) + 1
         /\ Append(q, e) # <<>>
         /\ DOMAIN Append(q, e) = DOMAIN q \cup {Len(q) + 1}
         /\ \A k \in DOMAIN q : Append(q, e)[k] = q[k]
         /\ Append(q, e)[Len(q) + 1] = e
  OBVIOUS

LEMMA Elements ==
  ASSUME NEW S, NEW q \in Seq(S)
  PROVE  /\ \A k \in DOMAIN q : q[k] \in S /\ k \in Nat /\ 1 <= k /\ k <= Len(q)
         /\ Len(q) \in Nat /\ DOMAIN q = 1 .. Len(q)
         /\ q # <<>> <=> Len(q) # 0
  OBVIOUS

LEMMA Earlier ==
  ASSUME NEW S, NEW q \in Seq(S), q # <<>>, NEW k \in DOMAIN Tail(q), NEW j \in 1 .. k - 1
  PROVE  j \in DOMAIN Tail(q) /\ j + 1 \in 1 .. (k + 1) - 1
<1>1. DOMAIN Tail(q) = 1 .. Len(Tail(q)) /\ Len(Tail(q)) \in Nat
  BY TailFacts, Elements
<1> QED BY <1>1

------------------------------------------------------------------------------
(* The fragments of a transfer.                                              *)
LEMMA Ceiling ==
  ASSUME NEW total \in Nat, NEW m \in Nat \ {0}
  PROVE  LET n == (total + m - 1) \div m
         IN  n \in Nat /\ n * m >= total /\ n * m < total + m
  BY SMT

LEMMA Cut ==
  ASSUME NEW total \in Nat, NEW m \in Nat \ {0}, NEW n \in Nat, NEW k \in 1 .. n,
         n * m >= total, n * m < total + m
  PROVE  /\ (k - 1) * m \in Nat /\ (k - 1) * m < total
         /\ (k - 1) * m + m = k * m
         /\ k # n => total - (k - 1) * m > m
         /\ k = n => total - (k - 1) * m <= m
  BY SMT

\* The fragments of a transfer are not empty, lie one behind the other, the first at
\* the beginning and the last at the end.
LEMMA FragmentFacts ==
  ASSUME NEW total \in Nat
  PROVE  LET fs == Fragments(total)
         IN  /\ fs \in Seq([offset : Nat, total : {total}, size : Nat \ {0}])
             /\ \A k \in DOMAIN fs : fs[k].offset + fs[k].size <= total
             /\ \A k \in DOMAIN fs : k + 1 \in DOMAIN fs =>
                   fs[k + 1].offset = fs[k].offset + fs[k].size
             /\ fs # <<>> => /\ fs[1].offset = 0
                             /\ fs[Len(fs)].offset + fs[Len(fs)].size = total
<1> DEFINE n == (total + Mtu - 1) \div Mtu
           fs == Fragments(total)
           f(k) == [offset |-> (k - 1) * Mtu, total |-> total,
                    size |-> IF total - (k - 1) * Mtu > Mtu THEN Mtu ELSE total - (k - 1) * Mtu]
<1>1. Mtu \in Nat \ {0}
  BY SfpAssumption
<1>2. n \in Nat /\ n * Mtu >= total /\ n * Mtu < total + Mtu
  BY <1>1, Ceiling
<1>3. fs = [k \in 1 .. n |-> f(k)]
  BY DEF Fragments
<1> HIDE DEF n, fs
<1>4. ASSUME NEW k \in 1 .. n
      PROVE  /\ f(k).offset = (k - 1) * Mtu /\ f(k).total = total /\ f(k).offset \in Nat
             /\ f(k).size \in Nat \ {0} /\ f(k).offset + f(k).size <= total
             /\ k # n => f(k).offset + f(k).size = k * Mtu
             /\ k = n => f(k).offset + f(k).size = total
             /\ f(k) \in [offset : Nat, total : {total}, size : Nat \ {0}]
  <2> DEFINE o == (k - 1) * Mtu
  <2>1. /\ o \in Nat /\ o < total /\ o + Mtu = k * Mtu
        /\ k # n => total - o > Mtu
        /\ k = n => total - o <= Mtu
    BY <1>1, <1>2, Cut
  <2> HIDE DEF o
  <2>2. f(k) = [offset |-> o, total |-> total, size |-> IF total - o > Mtu THEN Mtu ELSE total - o]
    BY DEF o
  <2>3. f(k).offset = o /\ f(k).total = total
        /\ f(k).size = IF total - o > Mtu THEN Mtu ELSE total - o
    BY <2>2
  <2>4. CASE k = n
    <3>1. ~(total - o > Mtu) /\ total - o \in Nat \ {0} /\ o + (total - o) = total
      BY <1>1, <2>1, <2>4
    <3>2. f(k).size = total - o
      BY <2>3, <3>1
    <3> QED BY <2>1, <2>2, <2>3, <2>4, <3>1, <3>2 DEF o
  <2>5. CASE k # n
    <3>1. f(k).size = Mtu /\ o + Mtu <= total
      BY <1>1, <2>1, <2>3, <2>5
    <3> QED BY <1>1, <2>1, <2>2, <2>3, <2>5, <3>1 DEF o
  <2> QED BY <2>4, <2>5
<1>5. \A k \in 1 .. n : fs[k] = f(k)
  BY <1>3
<1> HIDE DEF f
<1>6. fs \in Seq([offset : Nat, total : {total}, size : Nat \ {0}]) /\ Len(fs) = n
      /\ DOMAIN fs = 1 .. n
  <2> DEFINE S == [offset : Nat, total : {total}, size : Nat \ {0}]
  <2>1. \A k \in 1 .. n : fs[k] \in S
    BY <1>4, <1>5
  <2> HIDE DEF S
  <2>2. fs \in [1 .. n -> S]
    BY <1>3, <2>1
  <2>3. fs \in Seq(S) /\ Len(fs) = n /\ DOMAIN fs = 1 .. n
    BY <1>2, <2>2
  <2> QED BY <2>3 DEF S
<1>7. ASSUME NEW k \in DOMAIN fs
      PROVE  /\ fs[k].offset + fs[k].size <= total
             /\ k + 1 \in DOMAIN fs => fs[k + 1].offset = fs[k].offset + fs[k].size
  <2>1. k \in 1 .. n /\ (k + 1 \in DOMAIN fs => k + 1 \in 1 .. n /\ k # n)
    BY <1>2, <1>6
  <2>2. k + 1 \in 1 .. n => fs[k + 1].offset = (k + 1 - 1) * Mtu /\ k + 1 - 1 = k
    BY <1>4, <1>5, <2>1
  <2> QED BY <1>4, <1>5, <2>1, <2>2
<1>8. fs # <<>> => fs[1].offset = 0 /\ fs[Len(fs)].offset + fs[Len(fs)].size = total
  <2> SUFFICES ASSUME fs # <<>>
               PROVE  fs[1].offset = 0 /\ fs[Len(fs)].offset + fs[Len(fs)].size = total
    OBVIOUS
  <2>1. 1 \in 1 .. n /\ n \in 1 .. n
    BY <1>2, <1>6
  <2>2. fs[1].offset = (1 - 1) * Mtu /\ (1 - 1) * Mtu = 0
    BY <1>1, <1>4, <1>5, <2>1
  <2>3. fs[n].offset + fs[n].size = total
    BY <1>4, <1>5, <2>1
  <2> QED BY <1>6, <2>2, <2>3
<1> QED BY <1>6, <1>7, <1>8 DEF fs

------------------------------------------------------------------------------
(* The order of requests, over what happens to the queues.                   *)
LEMMA PacketFacts ==
  /\ \A p \in Packet : p.req \in Nat /\ p.frag \in BOOLEAN
  /\ \A q \in Seq(Packet) : \A k \in DOMAIN q : q[k] \in Packet
<1>1. \A p \in Packet : p.req \in Requests /\ p.frag \in BOOLEAN
  BY DEF Packet
<1>2. Requests \subseteq Nat
  BY SessionAssumption DEF Requests
<1>3. \A q \in Seq(Packet) : \A k \in DOMAIN q : q[k] \in Packet
  BY Elements
<1> QED BY <1>1, <1>2, <1>3

LEMMA OrderFlushed ==
  ASSUME NEW rq \in Seq(Packet), NEW bk \in Seq(Packet), NEW ou \in Seq(Nat), NEW n \in Nat,
         InLine(rq, bk, n), Later(rq, bk, ou, n)
  PROVE  InLine(<<>>, bk, n) /\ Later(<<>>, bk, ou, n)
  BY DEF InLine, Later

LEMMA OrderTaken ==
  ASSUME NEW rq \in Seq(Packet), NEW bk \in Seq(Packet), NEW ou \in Seq(Nat), NEW n \in Nat,
         InLine(rq, bk, n), Later(rq, bk, ou, n), rq # <<>>
  PROVE  InLine(Tail(rq), bk, n) /\ Later(Tail(rq), bk, ou, n)
<1>1. /\ 1 \in DOMAIN rq /\ Tail(rq) \in Seq(Packet)
      /\ \A k \in DOMAIN Tail(rq) : k \in Nat /\ k + 1 \in DOMAIN rq /\ Tail(rq)[k] = rq[k + 1]
  BY TailFacts, Elements
<1>2. InLine(Tail(rq), bk, n)
  <2>1. ASSUME NEW k \in DOMAIN Tail(rq)
        PROVE  Follows(Tail(rq)[k], n) /\ \A j \in 1 .. k - 1 : Before(Tail(rq)[j], Tail(rq)[k])
    <3>1. k \in Nat /\ k + 1 \in DOMAIN rq /\ Tail(rq)[k] = rq[k + 1]
      BY <1>1
    <3>2. ASSUME NEW j \in 1 .. k - 1
          PROVE  Before(Tail(rq)[j], Tail(rq)[k])
      <4>1. j \in DOMAIN Tail(rq) /\ j + 1 \in 1 .. (k + 1) - 1
        BY <1>1, <3>1, <3>2, Elements
      <4> QED BY <1>1, <3>1, <4>1 DEF InLine
    <3> QED BY <3>1, <3>2 DEF InLine
  <2>2. ASSUME NEW k \in DOMAIN bk
        PROVE  /\ Follows(bk[k], n) /\ \A j \in 1 .. k - 1 : Before(bk[j], bk[k])
               /\ \A j \in DOMAIN Tail(rq) : Before(Tail(rq)[j], bk[k])
    BY <1>1, <2>2 DEF InLine
  <2> QED BY <2>1, <2>2 DEF InLine
<1>3. Later(Tail(rq), bk, ou, n)
  BY <1>1 DEF Later
<1> QED BY <1>2, <1>3

LEMMA OrderReturned ==
  ASSUME NEW rq \in Seq(Packet), NEW bk \in Seq(Packet), NEW ou \in Seq(Nat), NEW n \in Nat,
         InLine(rq, bk, n), Later(rq, bk, ou, n), rq # <<>>
  PROVE  InLine(Tail(rq), bk, rq[1].req) /\ Later(Tail(rq), bk, ou, rq[1].req)
<1>1. InLine(Tail(rq), bk, n) /\ Later(Tail(rq), bk, ou, n)
  BY OrderTaken
<1>2. /\ 1 \in DOMAIN rq /\ Tail(rq) \in Seq(Packet)
      /\ \A k \in DOMAIN Tail(rq) : k \in Nat /\ k + 1 \in DOMAIN rq /\ Tail(rq)[k] = rq[k + 1]
                                    /\ 1 \in 1 .. (k + 1) - 1
  BY TailFacts, Elements
<1>3. \A k \in DOMAIN Tail(rq) : Follows(Tail(rq)[k], rq[1].req)
  BY <1>2 DEF InLine, Before, Follows
<1>4. \A k \in DOMAIN bk : Follows(bk[k], rq[1].req)
  BY <1>2 DEF InLine, Before, Follows
<1>5. \A k \in DOMAIN ou : rq[1].req < ou[k]
  BY <1>2 DEF Later
<1>6. InLine(Tail(rq), bk, rq[1].req)
  BY <1>1, <1>3, <1>4 DEF InLine
<1> QED BY <1>1, <1>5, <1>6 DEF Later

LEMMA OrderLost ==
  ASSUME NEW rq \in Seq(Packet), NEW bk \in Seq(Packet), NEW ou \in Seq(Nat), NEW n \in Nat,
         InLine(rq, bk, n), Later(rq, bk, ou, n), bk # <<>>
  PROVE  InLine(rq, Tail(bk), n) /\ Later(rq, Tail(bk), ou, n)
<1>1. /\ 1 \in DOMAIN bk /\ Tail(bk) \in Seq(Packet)
      /\ \A k \in DOMAIN Tail(bk) : k \in Nat /\ k + 1 \in DOMAIN bk /\ Tail(bk)[k] = bk[k + 1]
  BY TailFacts, Elements
<1>2. ASSUME NEW k \in DOMAIN Tail(bk)
      PROVE  /\ Follows(Tail(bk)[k], n)
             /\ \A j \in 1 .. k - 1 : Before(Tail(bk)[j], Tail(bk)[k])
             /\ \A j \in DOMAIN rq : Before(rq[j], Tail(bk)[k])
  <2>1. k \in Nat /\ k + 1 \in DOMAIN bk /\ Tail(bk)[k] = bk[k + 1]
    BY <1>1
  <2>2. ASSUME NEW j \in 1 .. k - 1
        PROVE  Before(Tail(bk)[j], Tail(bk)[k])
    <3>1. j \in DOMAIN Tail(bk) /\ j + 1 \in 1 .. (k + 1) - 1
      BY <1>1, <2>1, <2>2, Elements
    <3> QED BY <1>1, <2>1, <3>1 DEF InLine
  <2> QED BY <2>1, <2>2 DEF InLine
<1>3. Later(rq, Tail(bk), ou, n)
  BY <1>1 DEF Later
<1> QED BY <1>2, <1>3 DEF InLine

LEMMA OrderRouted ==
  ASSUME NEW rq \in Seq(Packet), NEW bk \in Seq(Packet), NEW ou \in Seq(Nat), NEW n \in Nat,
         InLine(rq, bk, n), Later(rq, bk, ou, n), bk # <<>>
  PROVE  InLine(Append(rq, bk[1]), Tail(bk), n) /\ Later(Append(rq, bk[1]), Tail(bk), ou, n)
<1> DEFINE q == Append(rq, bk[1])
<1>1. InLine(rq, Tail(bk), n) /\ Later(rq, Tail(bk), ou, n)
  BY OrderLost
<1>2. /\ 1 \in DOMAIN bk /\ bk[1] \in Packet /\ Tail(bk) \in Seq(Packet)
      /\ \A k \in DOMAIN Tail(bk) : k \in Nat /\ k + 1 \in DOMAIN bk /\ Tail(bk)[k] = bk[k + 1]
                                    /\ 1 \in 1 .. (k + 1) - 1
  BY TailFacts, Elements
<1>3. /\ q \in Seq(Packet) /\ DOMAIN q = DOMAIN rq \cup {Len(rq) + 1}
      /\ \A k \in DOMAIN rq : q[k] = rq[k] /\ k \in Nat /\ 1 <= k /\ k <= Len(rq)
      /\ q[Len(rq) + 1] = bk[1] /\ DOMAIN rq = 1 .. Len(rq) /\ Len(rq) \in Nat
  BY <1>2, AppendFacts, Elements
<1> HIDE DEF q
<1>4. ASSUME NEW k \in DOMAIN q
      PROVE  Follows(q[k], n) /\ \A j \in 1 .. k - 1 : Before(q[j], q[k])
  <2>1. CASE k \in DOMAIN rq
    <3>1. \A j \in 1 .. k - 1 : j \in DOMAIN rq
      BY <1>3, <2>1
    <3> QED BY <1>3, <2>1, <3>1 DEF InLine
  <2>2. CASE k = Len(rq) + 1
    <3>1. \A j \in 1 .. k - 1 : j \in DOMAIN rq
      BY <1>3, <2>2
    <3> QED BY <1>2, <1>3, <2>2, <3>1 DEF InLine
  <2> QED BY <1>3, <2>1, <2>2
<1>5. ASSUME NEW k \in DOMAIN Tail(bk), NEW j \in DOMAIN q
      PROVE  Before(q[j], Tail(bk)[k])
  BY <1>1, <1>2, <1>3 DEF InLine
<1>6. InLine(q, Tail(bk), n)
  BY <1>1, <1>4, <1>5 DEF InLine
<1>7. Later(q, Tail(bk), ou, n)
  BY <1>1, <1>2, <1>3 DEF Later
<1> QED BY <1>6, <1>7 DEF q

\* What answers the first of the requests comes behind all other packets.
LEMMA OrderAnswered ==
  ASSUME NEW rq \in Seq(Packet), NEW bk \in Seq(Packet), NEW ou \in Seq(Nat), NEW n \in Nat,
         InLine(rq, bk, n), Later(rq, bk, ou, n), ou # <<>>,
         NEW b \in Seq(Packet), DOMAIN bk \subseteq DOMAIN b,
         \A k \in DOMAIN bk : b[k] = bk[k],
         \A k \in DOMAIN b \ DOMAIN bk : b[k].req = ou[1] /\ (b[k].frag \/ k = Len(bk) + 1)
  PROVE  InLine(rq, b, n) /\ Later(rq, b, Tail(ou), n)
<1>1. /\ 1 \in DOMAIN ou /\ ou[1] \in Nat
      /\ \A k \in DOMAIN Tail(ou) : k \in Nat /\ k + 1 \in DOMAIN ou /\ Tail(ou)[k] = ou[k + 1]
                                    /\ 1 \in 1 .. (k + 1) - 1
  BY TailFacts, Elements
<1>2. /\ \A k \in DOMAIN b : b[k] \in Packet /\ b[k].req \in Nat /\ k \in Nat /\ 1 <= k
      /\ DOMAIN bk = 1 .. Len(bk) /\ Len(bk) \in Nat /\ DOMAIN b = 1 .. Len(b) /\ Len(b) \in Nat
  BY Elements, PacketFacts
<1>3. \A k \in DOMAIN bk : bk[k].req < ou[1]
  BY <1>1 DEF Later
<1>4. \A j \in DOMAIN rq : rq[j].req < ou[1]
  BY <1>1 DEF Later
<1>5. ASSUME NEW k \in DOMAIN b
      PROVE  /\ Follows(b[k], n)
             /\ \A j \in 1 .. k - 1 : Before(b[j], b[k])
             /\ \A j \in DOMAIN rq : Before(rq[j], b[k])
  <2>1. CASE k \in DOMAIN bk
    <3>1. \A j \in 1 .. k - 1 : j \in DOMAIN bk
      BY <1>2, <2>1
    <3> QED BY <2>1, <3>1 DEF InLine
  <2>2. CASE k \notin DOMAIN bk
    <3>1. b[k].req = ou[1] /\ n < ou[1]
      BY <1>1, <2>2 DEF Later
    <3>2. ASSUME NEW j \in 1 .. k - 1
          PROVE  Before(b[j], b[k])
      <4>1. j \in DOMAIN b /\ k > Len(bk)
        BY <1>2, <2>2, <3>2
      <4>2. CASE j \in DOMAIN bk
        BY <1>3, <3>1, <4>2 DEF Before
      <4>3. CASE j \notin DOMAIN bk
        <5>1. b[j].req = ou[1] /\ b[k].frag
          BY <1>2, <2>2, <3>2, <4>1, <4>3
        <5> QED BY <3>1, <5>1 DEF Before
      <4> QED BY <4>2, <4>3
    <3> QED BY <1>4, <3>1, <3>2 DEF Before, Follows
  <2> QED BY <2>1, <2>2
<1>6. ASSUME NEW k \in DOMAIN Tail(ou)
      PROVE  /\ n < Tail(ou)[k] /\ \A j \in 1 .. k - 1 : Tail(ou)[j] < Tail(ou)[k]
             /\ \A j \in DOMAIN rq : rq[j].req < Tail(ou)[k]
             /\ \A j \in DOMAIN b : b[j].req < Tail(ou)[k]
  <2>1. k \in Nat /\ k + 1 \in DOMAIN ou /\ Tail(ou)[k] = ou[k + 1] /\ 1 \in 1 .. (k + 1) - 1
    BY <1>1
  <2>2. ou[1] < ou[k + 1]
    BY <2>1 DEF Later
  <2>3. ASSUME NEW j \in 1 .. k - 1
        PROVE  Tail(ou)[j] < Tail(ou)[k]
    <3>1. j \in DOMAIN Tail(ou) /\ j + 1 \in 1 .. (k + 1) - 1
      BY Earlier
    <3> QED BY <1>1, <2>1, <3>1 DEF Later
  <2>4. ASSUME NEW j \in DOMAIN b
        PROVE  b[j].req < ou[k + 1]
    BY <2>1, <2>2 DEF Later
  <2> QED BY <2>1, <2>3, <2>4 DEF Later
<1> QED BY <1>5, <1>6 DEF InLine, Later

LEMMA OrderAsked ==
  ASSUME NEW rq \in Seq(Packet), NEW bk \in Seq(Packet), NEW ou \in Seq(Nat), NEW n \in Nat,
         Later(rq, bk, ou, n), NEW new \in Nat, n < new,
         \A k \in DOMAIN rq : rq[k].req < new, \A k \in DOMAIN bk : bk[k].req < new,
         \A k \in DOMAIN ou : ou[k] < new
  PROVE  Later(rq, bk, Append(ou, new), n)
<1>1. /\ DOMAIN Append(ou, new) = DOMAIN ou \cup {Len(ou) + 1}
      /\ \A k \in DOMAIN ou : Append(ou, new)[k] = ou[k] /\ k \in Nat /\ 1 <= k /\ k <= Len(ou)
      /\ Append(ou, new)[Len(ou) + 1] = new /\ DOMAIN ou = 1 .. Len(ou) /\ Len(ou) \in Nat
  BY AppendFacts, Elements
<1>2. \A k \in DOMAIN Append(ou, new) : \A j \in 1 .. k - 1 : j \in DOMAIN ou
  BY <1>1
<1> QED BY <1>1, <1>2 DEF Later

LEMMA OrderDropped ==
  ASSUME NEW rq \in Seq(Packet), NEW bk \in Seq(Packet), NEW ou \in Seq(Nat), NEW n \in Nat,
         Later(rq, bk, ou, n), ou # <<>>
  PROVE  Later(rq, bk, Tail(ou), n)
<1>1. \A k \in DOMAIN Tail(ou) : k + 1 \in DOMAIN ou /\ Tail(ou)[k] = ou[k + 1]
  BY TailFacts
<1>2. ASSUME NEW k \in DOMAIN Tail(ou), NEW j \in 1 .. k - 1
      PROVE  Tail(ou)[j] < Tail(ou)[k]
  <2>1. j \in DOMAIN Tail(ou) /\ j + 1 \in 1 .. (k + 1) - 1
    BY Earlier
  <2> QED BY <1>1, <2>1 DEF Later
<1> QED BY <1>1, <1>2 DEF Later

------------------------------------------------------------------------------
(* Types.                                                                    *)
LEMMA KindFacts ==
  ASSUME NEW kind \in Kinds
  PROVE  /\ kind.service \in Services \cup {"file"} /\ kind.flaw \in STRING /\ kind.total \in Nat
         /\ kind.service # "file" => kind.service \in Services
  BY SessionAssumption

\* The handler's answer has a length, and one that its client takes.
LEMMA AnswerFits ==
  ASSUME NEW service \in Services
  PROVE  AnswerLen(service) \in Lengths /\ Expects(service, AnswerLen(service))
<1>1. /\ \A x \in CmpSized : x \notin {"ping", "ps", "reboot"}
      /\ \A x \in CmpEchoed : x \notin {"ping", "ps", "reboot"}
      /\ \A x \in Numbers : x \notin {"ping", "ps", "reboot"}
  BY DEF CmpSized, CmpEchoed, Numbers
<1>2. CmpSized \cap Numbers = {} /\ CmpEchoed \cap Numbers = {} /\ CmpSized \cap CmpEchoed = {}
  BY DEF CmpSized, CmpEchoed, Numbers
<1>3. CASE service \in CmpSized
  <2>1. service \in Cmp /\ service \notin Numbers /\ service \notin {"ps", "reboot"}
    BY <1>1, <1>2, <1>3 DEF Cmp
  <2>2. AnswerLen(service) = service /\ AskLen(service) = service
    BY <1>3, <2>1 DEF AnswerLen, AskLen
  <2> QED BY <2>1, <2>2 DEF Expects, Lengths
<1>4. CASE service \in CmpEchoed
  <2>1. service \in Cmp /\ service \notin Numbers /\ service \notin CmpSized
        /\ service \notin {"ps", "reboot"}
    BY <1>1, <1>2, <1>4 DEF Cmp
  <2>2. AskLen(service) = service
    BY <2>1 DEF AskLen
  <2>3. AnswerLen(service) = service
    BY <2>1, <2>2 DEF AnswerLen
  <2> QED BY <2>1, <2>2, <2>3 DEF Expects, Lengths
<1>5. CASE service \in Numbers
  <2>1. service \notin Cmp /\ service \notin CmpSized /\ service \notin {"ps", "reboot"}
    BY <1>1, <1>2, <1>5 DEF Cmp
  <2>2. AnswerLen(service) = "number"
    BY <1>5, <2>1 DEF AnswerLen
  <2>3. Expects(service, "number")
    BY <1>5, <2>1 DEF Expects
  <2> QED BY <2>2, <2>3 DEF Lengths
<1>6. CASE service \in {"ping", "ps", "reboot"}
  <2>1. service \notin Cmp /\ service \notin CmpSized /\ service \notin Numbers
    BY <1>1, <1>6 DEF Cmp
  <2>2. Expects(service, AnswerLen(service))
    BY <2>1 DEF Expects
  <2>3. CASE service = "ps"
    BY <2>1, <2>2, <2>3 DEF AnswerLen, Lengths
  <2>4. CASE service = "ping"
    <3>1. AskLen(service) = "ping"
      BY <2>1, <2>4 DEF AskLen
    <3> QED BY <2>1, <2>2, <2>4, <3>1 DEF AnswerLen, Lengths
  <2>5. CASE service = "reboot"
    <3>1. AskLen(service) = "number"
      BY <2>1, <2>5 DEF AskLen
    <3> QED BY <2>1, <2>2, <2>5, <3>1 DEF AnswerLen, Lengths
  <2> QED BY <1>6, <2>3, <2>4, <2>5
<1> QED BY <1>3, <1>4, <1>5, <1>6 DEF Services, Cmp

LEMMA MeantFacts ==
  ASSUME Types, NEW p \in Packet, Meant(p)
  PROVE  /\ p.req \in 1 .. Len(asked) /\ asked[p.req] \in Kinds
         /\ IsPacket(p)
         /\ p.frag => /\ asked[p.req].service = "file" /\ p.total = asked[p.req].total
                      /\ p.offset \in Nat /\ p.size \in Nat \ {0}
                      /\ p.offset + p.size <= p.total /\ p.total \in Nat
         /\ ~p.frag => p.len = AnswerLen(asked[p.req].service)
<1>1. p.req \in 1 .. Len(asked) /\ asked[p.req] \in Kinds /\ p.req \in DOMAIN asked
  BY Elements DEF Types, Meant
<1> DEFINE total == asked[p.req].total
           fs == Fragments(total)
<1>2. total \in Nat
  BY <1>1, KindFacts
<1>3. CASE p.frag
  <2>1. p \in [req : Requests, frag : {TRUE}, offset : Nat, total : Nat, size : Nat]
    BY <1>3 DEF Packet
  <2>2. asked[p.req].service = "file"
    BY <1>3 DEF Meant, Belongs
  <2>3. PICK k \in DOMAIN fs : p.offset = fs[k].offset /\ p.total = fs[k].total /\ p.size = fs[k].size
    BY <1>3 DEF Meant, Belongs
  <2>4. /\ fs \in Seq([offset : Nat, total : {total}, size : Nat \ {0}])
        /\ fs[k].offset + fs[k].size <= total
    BY <1>2, <2>3, FragmentFacts
  <2>5. fs[k] \in [offset : Nat, total : {total}, size : Nat \ {0}]
    <3> DEFINE S == [offset : Nat, total : {total}, size : Nat \ {0}]
    <3>1. fs \in Seq(S)
      BY <2>4
    <3> HIDE DEF fs, S
    <3>2. fs[k] \in S
      BY <2>3, <3>1, Elements
    <3> QED BY <3>2 DEF S
  <2>6. DOMAIN FragmentsOf(p.req) = DOMAIN fs
        /\ FragmentsOf(p.req)[k] = [req |-> p.req, frag |-> TRUE, offset |-> fs[k].offset,
                                    total |-> fs[k].total, size |-> fs[k].size]
    BY <2>3 DEF FragmentsOf
  <2>7. p = [req |-> p.req, frag |-> TRUE, offset |-> p.offset, total |-> p.total, size |-> p.size]
    BY <2>1
  <2>8. p = FragmentsOf(p.req)[k]
    BY <2>3, <2>6, <2>7
  <2>9. p \in ToSet(FragmentsOf(p.req))
    BY <2>3, <2>6, <2>8 DEF ToSet
  <2>10. IsPacket(p)
    BY <1>1, <1>3, <2>9 DEF IsPacket
  <2> HIDE DEF fs
  <2> QED BY <1>1, <1>2, <1>3, <2>2, <2>3, <2>4, <2>5, <2>10
<1>4. CASE ~p.frag
  <2>1. p \in [req : Requests, frag : {FALSE}, len : Lengths]
    BY <1>4 DEF Packet
  <2>2. p = [req |-> p.req, frag |-> FALSE, len |-> p.len]
    BY <2>1
  <2>3. p.len = AnswerLen(asked[p.req].service)
    BY <1>4 DEF Meant, Belongs
  <2>4. IsPacket(p)
    BY <1>1, <1>4, <2>2, <2>3 DEF IsPacket, Answer
  <2> QED BY <1>1, <1>4, <2>3, <2>4
<1> QED BY <1>3, <1>4

LEMMA SInvImpliesTypeOK ==
  ASSUME SInv
  PROVE  TypeOK
<1>1. Types /\ Filled
  BY DEF SInv
<1>2. rxq \in Seq(Packet) /\ back \in Seq(Packet) /\ recv.pieces \in Seq(Packet)
  BY <1>1 DEF Types
<1>3. ASSUME NEW p \in ToSet(back) \cup ToSet(rxq) \cup ToSet(recv.pieces)
      PROVE  IsPacket(p)
  <2>1. p \in Packet /\ Meant(p)
    BY <1>1, <1>2, <1>3, Elements DEF ToSet, Filled
  <2> QED BY <1>1, <2>1, MeantFacts
<1> QED BY <1>1, <1>3 DEF Types, TypeOK

\* What is asked later changes nothing for the packets on their way.
LEMMA MeantStays ==
  ASSUME NEW p, Meant(p), DOMAIN asked \subseteq DOMAIN asked',
         \A n \in DOMAIN asked : asked'[n] = asked[n]
  PROVE  Meant(p)'
<1>1. p.req \in DOMAIN asked' /\ asked'[p.req] = asked[p.req] /\ Belongs(p, asked[p.req])
  BY DEF Meant
<1>2. Belongs(p, asked'[p.req])
  BY <1>1
<1> QED BY <1>1, <1>2 DEF Meant

LEMMA AskedGrows ==
  ASSUME Types, NEW kind \in Kinds, Sends(kind, Len(asked) + 1)
  PROVE  /\ asked' \in Seq(Kinds) /\ Len(asked') = Len(asked) + 1 /\ Len(asked') <= MaxRequests
         /\ DOMAIN asked \subseteq DOMAIN asked' /\ \A n \in DOMAIN asked : asked'[n] = asked[n]
         /\ out' \in Seq(DOMAIN asked') /\ out' = Append(out, Len(asked) + 1)
<1>1. asked \in Seq(Kinds) /\ asked' = Append(asked, kind) /\ out \in Seq(DOMAIN asked)
      /\ out' = Append(out, Len(asked) + 1) /\ Len(asked) + 1 <= MaxRequests
  BY DEF Types, Sends
<1>2. /\ asked' \in Seq(Kinds) /\ Len(asked') = Len(asked) + 1
      /\ DOMAIN asked' = DOMAIN asked \cup {Len(asked) + 1}
      /\ \A n \in DOMAIN asked : asked'[n] = asked[n]
  BY <1>1, AppendFacts
<1>3. out \in Seq(DOMAIN asked') /\ Len(asked) + 1 \in DOMAIN asked'
  BY <1>1, <1>2, Elements
<1>4. out' \in Seq(DOMAIN asked')
  BY <1>1, <1>3, AppendFacts
<1> QED BY <1>1, <1>2, <1>4

LEMMA Basics ==
  ASSUME Types
  PROVE  /\ last \in Nat /\ Len(asked) \in Nat /\ DOMAIN asked = 1 .. Len(asked)
         /\ out \in Seq(Nat)
         /\ \A k \in DOMAIN out : out[k] \in DOMAIN asked /\ asked[out[k]] \in Kinds
         /\ DOMAIN asked \subseteq Requests
<1>1. /\ last \in Nat /\ Len(asked) \in Nat /\ DOMAIN asked = 1 .. Len(asked)
      /\ Len(asked) <= MaxRequests /\ MaxRequests \in Nat
      /\ \A n \in DOMAIN asked : asked[n] \in Kinds
  BY Elements, SessionAssumption DEF Types
<1>2. \A k \in DOMAIN out : out[k] \in DOMAIN asked
  BY Elements DEF Types
<1>3. out \in Seq(Nat)
  BY <1>1, <1>2, Elements DEF Types
<1> QED BY <1>1, <1>2, <1>3 DEF Requests

------------------------------------------------------------------------------
(* The client's calls.                                                       *)
LEMMA InitHolds ==
  ASSUME Init
  PROVE  SInv
<1>1. Types
  BY SessionAssumption DEF Init, Types, Started
<1>2. Filled
  BY DEF Init, Filled, Started
<1>3. Sequenced
  BY DEF Init, Sequenced, InLine, Later
<1>4. Assembled
  BY DEF Init, Assembled, Started
<1> QED BY <1>1, <1>2, <1>3, <1>4 DEF SInv

LEMMA AssembledStays ==
  ASSUME Assembled, UNCHANGED recv, port' = port \/ recv = Started \/ port # "file"
  PROVE  Assembled'
<1>1. recv = Started => recv.pieces = <<>>
  BY DEF Started
<1>2. recv.pieces = <<>> \/ port' = port
  BY <1>1 DEF Assembled
<1>3. CASE port' = port
  BY <1>3 DEF Assembled
<1>4. CASE recv.pieces = <<>>
  BY <1>4 DEF Assembled
<1> QED BY <1>2, <1>3, <1>4

LEMMA ConnectKeeps ==
  ASSUME SInv, NEW kind \in Kinds, Connect(kind)
  PROVE  SInv'
<1>1. /\ port = NoPort /\ port' = PortOf(kind) /\ rxq' = <<>>
      /\ UNCHANGED <<recv, out, back, asked, last, done>>
  BY DEF Connect
<1>2. Types'
  BY <1>1, SessionAssumption DEF SInv, Types
<1>3. Filled'
  BY <1>1 DEF SInv, Filled, Meant
<1>4. Sequenced'
  <2>1. InLine(<<>>, back, last) /\ Later(<<>>, back, out, last)
    BY OrderFlushed, Basics DEF SInv, Types, Sequenced
  <2> QED BY <1>1, <2>1 DEF Sequenced
<1>5. Assembled'
  BY <1>1, AssembledStays, SessionAssumption DEF SInv
<1> QED BY <1>2, <1>3, <1>4, <1>5 DEF SInv

LEMMA CloseKeeps ==
  ASSUME SInv, Close
  PROVE  SInv'
<1>1. /\ port' = NoPort /\ rxq' = <<>> /\ recv = Started /\ done' = done \cup ReqsOf(rxq)
      /\ UNCHANGED <<recv, out, back, asked, last>>
  BY DEF Close
<1>2. Types'
  <2>1. ReqsOf(rxq) \subseteq DOMAIN asked
    BY DEF SInv, Filled, Meant, ReqsOf
  <2> QED BY <1>1, <2>1, SessionAssumption DEF SInv, Types
<1>3. Filled'
  BY <1>1 DEF SInv, Filled, Meant
<1>4. Sequenced'
  <2>1. InLine(<<>>, back, last) /\ Later(<<>>, back, out, last)
    BY OrderFlushed, Basics DEF SInv, Types, Sequenced
  <2> QED BY <1>1, <2>1 DEF Sequenced
<1>5. Assembled'
  BY <1>1, AssembledStays DEF SInv
<1> QED BY <1>2, <1>3, <1>4, <1>5 DEF SInv

\* A new request is later than whatever is under way.
LEMMA Newest ==
  ASSUME SInv, NEW kind \in Kinds, Sends(kind, Len(asked) + 1)
  PROVE  /\ Later(rxq, back, Append(out, Len(asked) + 1), last)
         /\ \A p : Meant(p) => Meant(p)'
<1>1. /\ rxq \in Seq(Packet) /\ back \in Seq(Packet) /\ last \in 0 .. Len(asked)
      /\ Later(rxq, back, out, last) /\ Len(asked) \in Nat /\ out \in Seq(Nat)
  BY Basics DEF SInv, Types, Sequenced
<1>2. /\ \A k \in DOMAIN rxq : rxq[k].req < Len(asked) + 1
      /\ \A k \in DOMAIN back : back[k].req < Len(asked) + 1
      /\ \A k \in DOMAIN out : out[k] < Len(asked) + 1
  BY <1>1, Basics DEF SInv, Filled, Meant
<1>3. Len(asked) + 1 \in Nat /\ last < Len(asked) + 1 /\ last \in Nat
  BY <1>1
<1>4. Later(rxq, back, Append(out, Len(asked) + 1), last)
  BY <1>1, <1>2, <1>3, OrderAsked
<1>5. \A p : Meant(p) => Meant(p)'
  BY AskedGrows, MeantStays DEF SInv
<1> QED BY <1>4, <1>5, AskedGrows DEF SInv

LEMMA AskKeeps ==
  ASSUME SInv, NEW kind \in Kinds, Ask(kind)
  PROVE  SInv'
<1>1. /\ Sends(kind, Len(asked) + 1) /\ UNCHANGED <<port, rxq, recv, back, last, done>>
  BY DEF Ask
<1>2. /\ Types /\ Later(rxq, back, Append(out, Len(asked) + 1), last)
      /\ \A p : Meant(p) => Meant(p)'
      /\ asked' \in Seq(Kinds) /\ Len(asked') = Len(asked) + 1 /\ Len(asked') <= MaxRequests
      /\ DOMAIN asked \subseteq DOMAIN asked'
      /\ out' \in Seq(DOMAIN asked') /\ out' = Append(out, Len(asked) + 1)
  BY <1>1, Newest, AskedGrows DEF SInv
<1>3. Types'
  BY <1>1, <1>2, Basics DEF Types
<1>4. Filled'
  BY <1>1, <1>2 DEF SInv, Filled
<1>5. Sequenced'
  BY <1>1, <1>2 DEF SInv, Sequenced
<1>6. Assembled'
  BY <1>1, AssembledStays DEF SInv
<1> QED BY <1>3, <1>4, <1>5, <1>6 DEF SInv

LEMMA OneShotKeeps ==
  ASSUME SInv, NEW kind \in Kinds, OneShot(kind)
  PROVE  SInv'
<1>1. /\ Sends(kind, Len(asked) + 1) /\ rxq' = <<>> /\ UNCHANGED <<port, recv, back, last, done>>
  BY DEF OneShot
<1>2. /\ Types /\ Later(rxq, back, Append(out, Len(asked) + 1), last)
      /\ \A p : Meant(p) => Meant(p)'
      /\ asked' \in Seq(Kinds) /\ Len(asked') = Len(asked) + 1 /\ Len(asked') <= MaxRequests
      /\ DOMAIN asked \subseteq DOMAIN asked'
      /\ out' \in Seq(DOMAIN asked') /\ out' = Append(out, Len(asked) + 1)
  BY <1>1, Newest, AskedGrows DEF SInv
<1>3. Types'
  BY <1>1, <1>2, Basics, SessionAssumption DEF Types
<1>4. Filled'
  BY <1>1, <1>2 DEF SInv, Filled
<1>5. Sequenced'
  <2>1. InLine(<<>>, back, last) /\ Later(<<>>, back, Append(out, Len(asked) + 1), last)
    BY <1>2 DEF SInv, Sequenced, InLine, Later
  <2> QED BY <1>1, <1>2, <2>1 DEF Sequenced
<1>6. Assembled'
  BY <1>1, AssembledStays DEF SInv
<1> QED BY <1>3, <1>4, <1>5, <1>6 DEF SInv

\* The packet at the head of the queue.
LEMMA HeadFacts ==
  ASSUME SInv, rxq # <<>>
  PROVE  /\ Head(rxq) = rxq[1] /\ rxq[1] \in Packet /\ Meant(rxq[1])
         /\ rxq[1].req \in DOMAIN asked /\ Follows(rxq[1], last)
         /\ Tail(rxq) \in Seq(Packet) /\ Len(Tail(rxq)) <= RxqLen
         /\ \A k \in DOMAIN Tail(rxq) : Meant(Tail(rxq)[k])
         /\ InLine(Tail(rxq), back, last) /\ Later(Tail(rxq), back, out, last)
         /\ InLine(Tail(rxq), back, rxq[1].req) /\ Later(Tail(rxq), back, out, rxq[1].req)
<1>1. /\ rxq \in Seq(Packet) /\ back \in Seq(Packet) /\ out \in Seq(Nat) /\ last \in Nat
      /\ InLine(rxq, back, last) /\ Later(rxq, back, out, last) /\ Len(rxq) <= RxqLen
  BY Basics DEF SInv, Types, Sequenced
<1>2. /\ Head(rxq) = rxq[1] /\ rxq[1] \in Packet /\ 1 \in DOMAIN rxq
      /\ Tail(rxq) \in Seq(Packet) /\ Len(Tail(rxq)) = Len(rxq) - 1 /\ Len(rxq) \in Nat
      /\ \A k \in DOMAIN Tail(rxq) : k + 1 \in DOMAIN rxq /\ Tail(rxq)[k] = rxq[k + 1]
  BY <1>1, TailFacts, Elements
<1>3. Meant(rxq[1]) /\ \A k \in DOMAIN Tail(rxq) : Meant(Tail(rxq)[k])
  BY <1>2 DEF SInv, Filled
<1>4. rxq[1].req \in DOMAIN asked /\ Follows(rxq[1], last)
  BY <1>1, <1>2, <1>3 DEF Meant, InLine
<1>5. Len(Tail(rxq)) <= RxqLen
  BY <1>1, <1>2, SessionAssumption
<1> QED BY <1>1, <1>2, <1>3, <1>4, <1>5, OrderTaken, OrderReturned

LEMMA ReadKeeps ==
  ASSUME SInv, Read
  PROVE  SInv'
<1>1. /\ rxq # <<>> /\ rxq' = Tail(rxq) /\ Head(rxq) = rxq[1]
      /\ last' = rxq[1].req /\ done' = done \cup {rxq[1].req}
      /\ UNCHANGED <<port, recv, out, back, asked>>
  BY HeadFacts DEF Read, Take, Return
<1>2. Types'
  BY <1>1, HeadFacts, Basics DEF SInv, Types
<1>3. Filled'
  BY <1>1, HeadFacts DEF SInv, Filled, Meant
<1>4. Sequenced'
  BY <1>1, HeadFacts DEF Sequenced
<1>5. Assembled'
  BY <1>1, AssembledStays DEF SInv
<1> QED BY <1>2, <1>3, <1>4, <1>5 DEF SInv

LEMMA TransactKeeps ==
  ASSUME SInv, NEW kind \in Kinds, Transact(kind)
  PROVE  SInv'
<1>1. /\ rxq # <<>> /\ rxq' = Tail(rxq) /\ Head(rxq) = rxq[1] /\ Sends(kind, Len(asked) + 1)
      /\ UNCHANGED <<port, recv, back>>
      /\ done' = done \cup {rxq[1].req} /\ last' \in {last, rxq[1].req}
  BY HeadFacts DEF Transact, Take, Return
<1>2. /\ Types
      /\ \A p : Meant(p) => Meant(p)'
      /\ asked' \in Seq(Kinds) /\ Len(asked') = Len(asked) + 1 /\ Len(asked') <= MaxRequests
      /\ DOMAIN asked \subseteq DOMAIN asked'
      /\ out' \in Seq(DOMAIN asked') /\ out' = Append(out, Len(asked) + 1)
  BY <1>1, Newest, AskedGrows DEF SInv
<1>3. Types'
  BY <1>1, <1>2, HeadFacts, Basics DEF Types
<1>4. Filled'
  BY <1>1, <1>2, HeadFacts DEF SInv, Filled
<1>5. Sequenced'
  <2>1. /\ InLine(Tail(rxq), back, last') /\ Later(Tail(rxq), back, out, last')
        /\ Tail(rxq) \in Seq(Packet) /\ back \in Seq(Packet) /\ out \in Seq(Nat)
        /\ Len(asked) + 1 \in Nat /\ last' \in Nat /\ last' < Len(asked) + 1
    BY <1>1, <1>2, HeadFacts, Basics DEF Types
  <2>2. /\ \A k \in DOMAIN Tail(rxq) : Tail(rxq)[k].req < Len(asked) + 1
        /\ \A k \in DOMAIN back : back[k].req < Len(asked) + 1
        /\ \A k \in DOMAIN out : out[k] < Len(asked) + 1
    BY <1>1, <1>2, HeadFacts, Basics DEF SInv, Filled, Meant
  <2>3. Later(Tail(rxq), back, Append(out, Len(asked) + 1), last')
    BY <2>1, <2>2, OrderAsked
  <2> QED BY <1>1, <1>2, <2>1, <2>3 DEF Sequenced
<1>6. Assembled'
  BY <1>1, AssembledStays DEF SInv
<1> QED BY <1>3, <1>4, <1>5, <1>6 DEF SInv

------------------------------------------------------------------------------
(* A round of csp_sfp_recv_fp.                                               *)
DataSize(r, p) == IF r.pieces = <<>> THEN p.total ELSE r.datasize

Good(r, p) == /\ HeaderValid(p) /\ InPlace(r, p) /\ SizesAgree(r, p, DataSize(r, p))
              /\ ~(r.got + p.size < DataSize(r, p) /\ p.size = 0)

\* With which result a round ends, and when it goes on.
LEMMA RoundFacts ==
  ASSUME NEW r, NEW p, NEW memory \in BOOLEAN,
         r \in [pieces : Seq(Packet), got : Nat, datasize : Nat, result : {"more"}]
  PROVE  LET t == Taken(r, p, memory)
             got == r.got + p.size
         IN  /\ \/ t.result = "sfp" /\ ~Good(r, p)
                \/ t.result = "nomem"
                \/ /\ Good(r, p)
                   /\ t = [pieces |-> Append(r.pieces, p), got |-> got,
                           datasize |-> DataSize(r, p),
                           result |-> IF got >= DataSize(r, p) THEN "none" ELSE "more"]
<1> DEFINE t == Taken(r, p, memory)
           got == r.got + p.size
<1>1. \A e \in {"sfp", "nomem"} : [r EXCEPT !.result = e].result = e
  OBVIOUS
<1>2. CASE ~HeaderValid(p) \/ ~InPlace(r, p)
  <2>1. t = [r EXCEPT !.result = "sfp"]
    BY <1>2 DEF Taken
  <2> QED BY <1>1, <1>2, <2>1 DEF Good
<1>3. CASE HeaderValid(p) /\ InPlace(r, p) /\ r.pieces = <<>> /\ ~memory
  <2>1. t = [r EXCEPT !.result = "nomem"]
    BY <1>3 DEF Taken
  <2> QED BY <1>1, <2>1
<1>4. CASE HeaderValid(p) /\ InPlace(r, p) /\ (r.pieces # <<>> \/ memory)
  <2>1. CASE ~SizesAgree(r, p, DataSize(r, p))
    <3>1. t = [r EXCEPT !.result = "sfp"]
      BY <1>4, <2>1 DEF Taken, DataSize
    <3> QED BY <1>1, <2>1, <3>1 DEF Good
  <2>2. CASE SizesAgree(r, p, DataSize(r, p)) /\ got < DataSize(r, p) /\ p.size = 0
    <3>1. t = [r EXCEPT !.result = "sfp"]
      BY <1>4, <2>2 DEF Taken, DataSize
    <3> QED BY <1>1, <2>2, <3>1 DEF Good
  <2>3. CASE SizesAgree(r, p, DataSize(r, p)) /\ ~(got < DataSize(r, p) /\ p.size = 0)
    <3>1. t = [pieces |-> Append(r.pieces, p), got |-> got, datasize |-> DataSize(r, p),
               result |-> IF got >= DataSize(r, p) THEN "none" ELSE "more"]
      BY <1>4, <2>3 DEF Taken, DataSize
    <3> QED BY <1>4, <2>3, <3>1 DEF Good
  <2> QED BY <2>1, <2>2, <2>3
<1> QED BY <1>2, <1>3, <1>4

\* The pieces after a round that goes on, or completes the transfer.
LEMMA GoodRound ==
  ASSUME SInv, rxq # <<>>, Good(recv, rxq[1])
  PROVE  LET p == rxq[1]
             ps == Append(recv.pieces, p)
             got == recv.got + p.size
             total == DataSize(recv, p)
         IN  /\ p \in Packet /\ Meant(p) /\ p.frag /\ p.total = total /\ p.offset = recv.got
             /\ ps \in Seq(Packet) /\ ps # <<>> /\ Len(ps) = Len(recv.pieces) + 1
             /\ got \in Nat /\ total \in Nat /\ got <= total
             /\ ps[1].offset = 0 /\ got = ps[Len(ps)].offset + ps[Len(ps)].size
             /\ \A k \in DOMAIN ps : /\ Meant(ps[k]) /\ ps[k].frag /\ ps[k].total = total
                                     /\ ps[k].offset + ps[k].size <= got
             /\ \A k \in 1 .. Len(ps) - 1 : ps[k + 1].offset = ps[k].offset + ps[k].size
<1> DEFINE p == rxq[1]
           rs == recv.pieces
           ps == Append(rs, p)
           got == recv.got + p.size
           total == DataSize(recv, p)
<1>1. /\ Types /\ Assembled /\ p \in Packet /\ Meant(p) /\ rs \in Seq(Packet) /\ recv.got \in Nat
      /\ \A k \in DOMAIN rs : rs[k] \in Packet /\ Meant(rs[k])
  BY HeadFacts, Elements DEF SInv, Types, Filled
<1>2. p.frag /\ p.offset = recv.got /\ got <= total /\ total = p.total
  BY DEF Good, HeaderValid, InPlace, SizesAgree
<1>3. p.size \in Nat /\ p.total \in Nat /\ got \in Nat
  BY <1>1, <1>2, MeantFacts
<1>4. /\ ps \in Seq(Packet) /\ Len(ps) = Len(rs) + 1 /\ ps # <<>>
      /\ DOMAIN ps = DOMAIN rs \cup {Len(rs) + 1} /\ ps[Len(rs) + 1] = p
      /\ \A k \in DOMAIN rs : ps[k] = rs[k]
      /\ DOMAIN rs = 1 .. Len(rs) /\ Len(rs) \in Nat
  BY <1>1, AppendFacts, Elements
<1>5. \A k \in DOMAIN rs : /\ rs[k].frag /\ rs[k].total = recv.datasize
                           /\ rs[k].offset + rs[k].size <= recv.got
                           /\ rs[k].offset \in Nat /\ rs[k].size \in Nat
  BY <1>1, MeantFacts DEF Assembled
<1>6. \A k \in DOMAIN rs : rs # <<>> /\ total = recv.datasize
  BY <1>1, Elements DEF DataSize
<1>7. ASSUME NEW k \in DOMAIN ps
      PROVE  /\ Meant(ps[k]) /\ ps[k].frag /\ ps[k].total = total
             /\ ps[k].offset + ps[k].size <= got
  <2>1. CASE k \in DOMAIN rs
    <3>1. recv.got <= got /\ recv.got \in Nat /\ rs[k].offset + rs[k].size \in Nat
      <4>1. rs[k].offset \in Nat /\ rs[k].size \in Nat
        BY <1>5, <2>1
      <4>2. recv.got <= got /\ recv.got \in Nat
        BY <1>1, <1>3
      <4> QED BY <4>1, <4>2
    <3>2. rs[k].offset + rs[k].size <= got
      BY <1>3, <1>5, <2>1, <3>1
    <3> QED BY <1>1, <1>4, <1>5, <1>6, <2>1, <3>2
  <2>2. CASE k = Len(rs) + 1
    BY <1>1, <1>2, <1>3, <1>4, <2>2
  <2> QED BY <1>4, <2>1, <2>2
<1>8. CASE rs = <<>>
  <2>1. recv.got = 0 /\ Len(rs) = 0
    BY <1>1, <1>8 DEF Assembled, Started
  <2> QED BY <1>1, <1>2, <1>3, <1>4, <1>7, <2>1
<1>9. CASE rs # <<>>
  <2>1. /\ rs[1].offset = 0 /\ recv.got = rs[Len(rs)].offset + rs[Len(rs)].size
        /\ 1 \in DOMAIN rs /\ Len(rs) \in DOMAIN rs
    BY <1>1, <1>4, <1>9, Elements DEF Assembled
  <2>2. ps[1].offset = 0 /\ got = ps[Len(ps)].offset + ps[Len(ps)].size
    BY <1>2, <1>4, <2>1
  <2>3. ASSUME NEW k \in 1 .. Len(ps) - 1
        PROVE  ps[k + 1].offset = ps[k].offset + ps[k].size
    <3>1. k \in DOMAIN rs /\ ps[k] = rs[k]
      BY <1>4
    <3>2. CASE k = Len(rs)
      BY <1>2, <1>4, <2>1, <3>1, <3>2
    <3>3. CASE k # Len(rs)
      <4>1. k \in 1 .. Len(rs) - 1 /\ k + 1 \in DOMAIN rs
        BY <1>4, <3>1, <3>3
      <4> QED BY <1>1, <1>4, <3>1, <4>1 DEF Assembled
    <3> QED BY <3>2, <3>3
  <2> QED BY <1>1, <1>2, <1>3, <1>4, <1>7, <2>2, <2>3
<1> QED BY <1>8, <1>9

LEMMA SfpRecvKeeps ==
  ASSUME SInv, SfpRecv
  PROVE  SInv'
<1>1. /\ port = "file" /\ rxq # <<>> /\ rxq' = Tail(rxq) /\ Head(rxq) = rxq[1]
      /\ done' = done \cup {rxq[1].req} /\ UNCHANGED <<port, out, back, asked, last>>
  BY HeadFacts DEF SfpRecv, Take
<1>2. recv \in [pieces : Seq(Packet), got : Nat, datasize : Nat, result : {"more"}]
  BY DEF SInv, Types
<1>3. PICK memory \in BOOLEAN :
        LET r == Taken(recv, rxq[1], memory)
        IN  recv' = Started \/ (r.result = "more" /\ recv' = r)
  BY <1>1 DEF SfpRecv
<1> DEFINE p == rxq[1]
           ps == Append(recv.pieces, p)
           got == recv.got + p.size
<1>4. CASE recv' = Started
  <2>1. Types'
    BY <1>1, <1>4, HeadFacts DEF SInv, Types, Started
  <2>2. Filled'
    BY <1>1, <1>4, HeadFacts DEF SInv, Filled, Meant, Started
  <2>3. Sequenced'
    BY <1>1, HeadFacts DEF Sequenced
  <2>4. Assembled'
    BY <1>4 DEF Assembled, Started
  <2> QED BY <2>1, <2>2, <2>3, <2>4 DEF SInv
<1>5. CASE Taken(recv, p, memory).result = "more" /\ recv' = Taken(recv, p, memory)
  <2>1. /\ Good(recv, p)
        /\ recv' = [pieces |-> ps, got |-> got, datasize |-> DataSize(recv, p),
                    result |-> IF got >= DataSize(recv, p) THEN "none" ELSE "more"]
    BY <1>2, <1>5, RoundFacts
  <2>2. /\ recv'.pieces = ps /\ recv'.got = got /\ recv'.datasize = DataSize(recv, p)
        /\ recv'.result = "more" /\ ~(got >= DataSize(recv, p))
    BY <1>5, <2>1
  <2>3. /\ ps \in Seq(Packet) /\ ps # <<>> /\ got \in Nat /\ DataSize(recv, p) \in Nat
        /\ ps[1].offset = 0 /\ got = ps[Len(ps)].offset + ps[Len(ps)].size
        /\ \A k \in DOMAIN ps : /\ Meant(ps[k]) /\ ps[k].frag /\ ps[k].total = DataSize(recv, p)
                                /\ ps[k].offset + ps[k].size <= got
        /\ \A k \in 1 .. Len(ps) - 1 : ps[k + 1].offset = ps[k].offset + ps[k].size
    BY <1>1, <2>1, GoodRound
  <2>4. recv' \in [pieces : Seq(Packet), got : Nat, datasize : Nat, result : {"more"}]
    BY <2>1, <2>2, <2>3
  <2> HIDE DEF p, ps, got
  <2>5. Types'
    BY <1>1, <2>4, HeadFacts DEF SInv, Types, p
  <2>6. Filled'
    BY <1>1, <2>2, <2>3, HeadFacts DEF SInv, Filled, Meant
  <2>7. Sequenced'
    BY <1>1, HeadFacts DEF Sequenced
  <2>8. Assembled'
    BY <1>1, <2>2, <2>3 DEF Assembled
  <2> QED BY <2>5, <2>6, <2>7, <2>8 DEF SInv
<1> QED BY <1>3, <1>4, <1>5

LEMMA SfpTimeoutKeeps ==
  ASSUME SInv, SfpTimeout
  PROVE  SInv'
<1>1. recv' = Started /\ UNCHANGED <<port, rxq, out, back, asked, last, done>>
  BY DEF SfpTimeout
<1>2. Types'
  BY <1>1 DEF SInv, Types, Started
<1>3. Filled'
  BY <1>1 DEF SInv, Filled, Meant, Started
<1>4. Sequenced'
  BY <1>1 DEF SInv, Sequenced
<1>5. Assembled'
  BY <1>1 DEF Assembled, Started
<1> QED BY <1>2, <1>3, <1>4, <1>5 DEF SInv

------------------------------------------------------------------------------
(* The router, the server and the links.                                     *)
LEMMA BackFacts ==
  ASSUME SInv, back # <<>>
  PROVE  /\ Head(back) = back[1] /\ back[1] \in Packet /\ Meant(back[1])
         /\ back[1].req \in DOMAIN asked
         /\ Tail(back) \in Seq(Packet) /\ \A k \in DOMAIN Tail(back) : Meant(Tail(back)[k])
         /\ InLine(rxq, Tail(back), last) /\ Later(rxq, Tail(back), out, last)
         /\ InLine(Append(rxq, back[1]), Tail(back), last)
         /\ Later(Append(rxq, back[1]), Tail(back), out, last)
<1>1. /\ rxq \in Seq(Packet) /\ back \in Seq(Packet) /\ out \in Seq(Nat) /\ last \in Nat
      /\ InLine(rxq, back, last) /\ Later(rxq, back, out, last)
  BY Basics DEF SInv, Types, Sequenced
<1>2. /\ Head(back) = back[1] /\ back[1] \in Packet /\ 1 \in DOMAIN back
      /\ Tail(back) \in Seq(Packet)
      /\ \A k \in DOMAIN Tail(back) : k + 1 \in DOMAIN back /\ Tail(back)[k] = back[k + 1]
  BY <1>1, TailFacts
<1>3. Meant(back[1]) /\ \A k \in DOMAIN Tail(back) : Meant(Tail(back)[k])
  BY <1>2 DEF SInv, Filled
<1> QED BY <1>1, <1>2, <1>3, OrderLost, OrderRouted DEF Meant

LEMMA RouteKeeps ==
  ASSUME SInv, Route
  PROVE  SInv'
<1>1. /\ back # <<>> /\ back' = Tail(back) /\ Head(back) = back[1]
      /\ UNCHANGED <<port, recv, out, asked, last>>
      /\ \/ rxq' = Append(rxq, back[1]) /\ done' = done /\ Len(rxq) < RxqLen
         \/ rxq' = rxq /\ done' = done \cup {back[1].req}
  BY BackFacts DEF Route, Room
<1>2. CASE rxq' = Append(rxq, back[1]) /\ done' = done /\ Len(rxq) < RxqLen
  <2>0. back[1] \in Packet /\ rxq \in Seq(Packet) /\ Len(rxq) \in Nat
    BY <1>1, BackFacts DEF SInv, Types
  <2>1. /\ rxq' \in Seq(Packet) /\ Len(rxq') = Len(rxq) + 1 /\ Len(rxq) \in Nat
        /\ DOMAIN rxq' = DOMAIN rxq \cup {Len(rxq) + 1}
        /\ \A k \in DOMAIN rxq : rxq'[k] = rxq[k]
        /\ rxq'[Len(rxq) + 1] = back[1]
    BY <1>2, <2>0, AppendFacts
  <2>2. Types'
    BY <1>1, <1>2, <2>1, BackFacts, SessionAssumption DEF SInv, Types
  <2>3. \A k \in DOMAIN rxq' : Meant(rxq'[k])
    BY <1>1, <2>1, BackFacts DEF SInv, Filled
  <2>4. Filled'
    BY <1>1, <2>3, BackFacts DEF SInv, Filled, Meant
  <2>5. Sequenced'
    BY <1>1, <1>2, BackFacts DEF Sequenced
  <2>6. Assembled'
    BY <1>1, AssembledStays DEF SInv
  <2> QED BY <2>2, <2>4, <2>5, <2>6 DEF SInv
<1>3. CASE rxq' = rxq /\ done' = done \cup {back[1].req}
  <2>1. Types'
    BY <1>1, <1>3, BackFacts DEF SInv, Types
  <2>2. Filled'
    BY <1>1, <1>3, BackFacts DEF SInv, Filled, Meant
  <2>3. Sequenced'
    BY <1>1, <1>3, BackFacts DEF Sequenced
  <2>4. Assembled'
    BY <1>1, AssembledStays DEF SInv
  <2> QED BY <2>1, <2>2, <2>3, <2>4 DEF SInv
<1> QED BY <1>1, <1>2, <1>3

LEMMA LosePacketKeeps ==
  ASSUME SInv, LosePacket
  PROVE  SInv'
<1>1. /\ back # <<>> /\ back' = Tail(back) /\ Head(back) = back[1]
      /\ done' = done \cup {back[1].req} /\ UNCHANGED <<port, rxq, recv, out, asked, last>>
  BY BackFacts DEF LosePacket
<1>2. Types'
  BY <1>1, BackFacts DEF SInv, Types
<1>3. Filled'
  BY <1>1, BackFacts DEF SInv, Filled, Meant
<1>4. Sequenced'
  BY <1>1, BackFacts DEF Sequenced
<1>5. Assembled'
  BY <1>1, AssembledStays DEF SInv
<1> QED BY <1>2, <1>3, <1>4, <1>5 DEF SInv

\* The first of the requests, and what is left without it.
LEMMA OutFacts ==
  ASSUME SInv, out # <<>>
  PROVE  /\ Head(out) = out[1] /\ out[1] \in DOMAIN asked /\ out[1] \in Requests
         /\ asked[out[1]] \in Kinds /\ Tail(out) \in Seq(DOMAIN asked)
         /\ Later(rxq, back, Tail(out), last)
<1>1. /\ rxq \in Seq(Packet) /\ back \in Seq(Packet) /\ out \in Seq(Nat) /\ last \in Nat
      /\ Later(rxq, back, out, last) /\ out \in Seq(DOMAIN asked)
      /\ DOMAIN asked \subseteq Requests
      /\ \A k \in DOMAIN out : out[k] \in DOMAIN asked /\ asked[out[k]] \in Kinds
  BY Basics DEF SInv, Types, Sequenced
<1>2. Head(out) = out[1] /\ 1 \in DOMAIN out /\ Tail(out) \in Seq(DOMAIN asked)
  BY <1>1, TailFacts
<1>3. Later(rxq, back, Tail(out), last)
  BY <1>1, OrderDropped
<1> QED BY <1>1, <1>2, <1>3

LEMMA LoseRequestKeeps ==
  ASSUME SInv, LoseRequest
  PROVE  SInv'
<1>1. /\ out # <<>> /\ out' = Tail(out) /\ Head(out) = out[1]
      /\ done' = done \cup {out[1]} /\ UNCHANGED <<port, rxq, recv, back, asked, last>>
  BY OutFacts DEF LoseRequest
<1>2. Types'
  BY <1>1, OutFacts DEF SInv, Types
<1>3. Filled'
  BY <1>1 DEF SInv, Filled, Meant
<1>4. Sequenced'
  BY <1>1, OutFacts DEF SInv, Sequenced
<1>5. Assembled'
  BY <1>1, AssembledStays DEF SInv
<1> QED BY <1>2, <1>3, <1>4, <1>5 DEF SInv

\* What is sent back in answer to the first request.
LEMMA Answering ==
  ASSUME SInv, out # <<>>, out' = Tail(out),
         UNCHANGED <<port, rxq, recv, asked, last, done>>,
         back' \in Seq(Packet), DOMAIN back \subseteq DOMAIN back',
         \A k \in DOMAIN back : back'[k] = back[k],
         \A k \in DOMAIN back' \ DOMAIN back :
            Meant(back'[k]) /\ back'[k].req = out[1] /\ (back'[k].frag \/ k = Len(back) + 1)
  PROVE  SInv'
<1>1. Types'
  BY OutFacts DEF SInv, Types
<1>2. \A k \in DOMAIN back' : Meant(back'[k])
  BY DEF SInv, Filled
<1>3. Filled'
  BY <1>2 DEF SInv, Filled, Meant
<1>4. Sequenced'
  <2>1. /\ rxq \in Seq(Packet) /\ back \in Seq(Packet) /\ out \in Seq(Nat) /\ last \in Nat
        /\ InLine(rxq, back, last) /\ Later(rxq, back, out, last)
    BY Basics DEF SInv, Types, Sequenced
  <2>2. InLine(rxq, back', last) /\ Later(rxq, back', Tail(out), last)
    BY <2>1, OrderAnswered
  <2> QED BY <2>2 DEF Sequenced
<1>5. Assembled'
  BY AssembledStays DEF SInv
<1> QED BY <1>1, <1>3, <1>4, <1>5 DEF SInv

LEMMA HandleKeeps ==
  ASSUME SInv, Handle
  PROVE  SInv'
<1>1. /\ out # <<>> /\ out' = Tail(out) /\ asked[out[1]].service # "file" /\ Head(out) = out[1]
      /\ back' \in {back, Append(back, Answer(out[1]))}
      /\ UNCHANGED <<port, rxq, recv, asked, last, done>>
  BY OutFacts DEF Handle
<1>2. back \in Seq(Packet)
  BY DEF SInv, Types
<1>3. CASE back' = back
  BY <1>1, <1>2, <1>3, Answering
<1>4. CASE back' = Append(back, Answer(out[1]))
  <2> DEFINE n == out[1]
  <2>1. n \in Requests /\ n \in DOMAIN asked /\ asked[n].service \in Services
    BY <1>1, OutFacts, KindFacts
  <2>2. AnswerLen(asked[n].service) \in Lengths
    BY <2>1, AnswerFits
  <2>3. Answer(n) = [req |-> n, frag |-> FALSE, len |-> AnswerLen(asked[n].service)]
    BY DEF Answer
  <2>4. Answer(n) \in Packet
    <3> DEFINE l == AnswerLen(asked[n].service)
    <3> HIDE DEF l
    <3>1. [req |-> n, frag |-> FALSE, len |-> l] \in [req : Requests, frag : {FALSE}, len : Lengths]
      BY <2>1, <2>2 DEF l
    <3> QED BY <2>3, <3>1 DEF Packet, l
  <2>5. Answer(n).req = n /\ Answer(n).frag = FALSE
        /\ Answer(n).len = AnswerLen(asked[n].service)
    BY <2>3
  <2>6. Meant(Answer(n))
    BY <2>1, <2>5 DEF Meant, Belongs
  <2>7. /\ back' \in Seq(Packet) /\ DOMAIN back' = DOMAIN back \cup {Len(back) + 1}
        /\ \A k \in DOMAIN back : back'[k] = back[k]
        /\ back'[Len(back) + 1] = Answer(n)
    BY <1>2, <1>4, <2>4, AppendFacts
  <2> QED BY <1>1, <2>5, <2>6, <2>7, Answering
<1> QED BY <1>1, <1>3, <1>4

\* The packets of a transfer: its fragments.
LEMMA TransferFacts ==
  ASSUME SInv, NEW n \in DOMAIN asked
  PROVE  LET fs == FragmentsOf(n)
             gs == Fragments(asked[n].total)
         IN  /\ fs \in Seq(Packet) /\ Len(fs) = Len(gs) /\ DOMAIN fs = DOMAIN gs
             /\ gs \in Seq([offset : Nat, total : {asked[n].total}, size : Nat \ {0}])
             /\ \A k \in DOMAIN fs :
                   /\ fs[k].req = n /\ fs[k].frag /\ fs[k].offset = gs[k].offset
                   /\ fs[k].total = gs[k].total /\ fs[k].size = gs[k].size
<1> DEFINE total == asked[n].total
           gs == Fragments(total)
           fs == FragmentsOf(n)
           S == [offset : Nat, total : {total}, size : Nat \ {0}]
<1>1. asked[n] \in Kinds /\ total \in Nat /\ n \in Requests
  BY Basics, Elements, KindFacts DEF SInv, Types
<1>2. gs \in Seq(S)
  BY <1>1, FragmentFacts
<1>3. fs = [k \in DOMAIN gs |-> [req |-> n, frag |-> TRUE, offset |-> gs[k].offset,
                                 total |-> gs[k].total, size |-> gs[k].size]]
  BY DEF FragmentsOf
<1> HIDE DEF gs, fs, S
<1>4. /\ \A k \in DOMAIN gs : gs[k] \in S
      /\ DOMAIN gs = 1 .. Len(gs) /\ Len(gs) \in Nat
  BY <1>2, Elements
<1>5. ASSUME NEW k \in DOMAIN gs
      PROVE  /\ fs[k] \in Packet /\ fs[k].req = n /\ fs[k].frag
             /\ fs[k].offset = gs[k].offset /\ fs[k].total = gs[k].total /\ fs[k].size = gs[k].size
  <2>1. gs[k].offset \in Nat /\ gs[k].total \in Nat /\ gs[k].size \in Nat
    BY <1>1, <1>4 DEF S
  <2>2. fs[k] = [req |-> n, frag |-> TRUE, offset |-> gs[k].offset,
                 total |-> gs[k].total, size |-> gs[k].size]
    BY <1>3
  <2>3. fs[k] \in [req : Requests, frag : {TRUE}, offset : Nat, total : Nat, size : Nat]
    BY <1>1, <2>1, <2>2
  <2>4. fs[k].req = n /\ fs[k].frag = TRUE
        /\ fs[k].offset = gs[k].offset /\ fs[k].total = gs[k].total /\ fs[k].size = gs[k].size
    BY <2>2
  <2> QED BY <2>3, <2>4 DEF Packet
<1>6. fs \in [1 .. Len(gs) -> Packet]
  BY <1>3, <1>4, <1>5
<1>7. fs \in Seq(Packet) /\ Len(fs) = Len(gs) /\ DOMAIN fs = DOMAIN gs
  BY <1>4, <1>6
<1> QED BY <1>2, <1>5, <1>7 DEF fs, gs, S

LEMMA FragmentsMeant ==
  ASSUME SInv, NEW n \in DOMAIN asked, asked[n].service = "file"
  PROVE  LET fs == FragmentsOf(n)
         IN  /\ fs \in Seq(Packet)
             /\ \A k \in DOMAIN fs : Meant(fs[k]) /\ fs[k].req = n /\ fs[k].frag
<1> DEFINE fs == FragmentsOf(n)
           gs == Fragments(asked[n].total)
<1>1. /\ fs \in Seq(Packet) /\ DOMAIN fs = DOMAIN gs
      /\ \A k \in DOMAIN fs :
            /\ fs[k].req = n /\ fs[k].frag /\ fs[k].offset = gs[k].offset
            /\ fs[k].total = gs[k].total /\ fs[k].size = gs[k].size
  BY TransferFacts
<1> HIDE DEF fs
<1>2. \A k \in DOMAIN fs : Meant(fs[k])
  BY <1>1 DEF Meant, Belongs
<1> QED BY <1>1, <1>2 DEF fs

LEMMA ConcatFacts ==
  ASSUME NEW S, NEW q \in Seq(S), NEW r \in Seq(S)
  PROVE  /\ q \o r \in Seq(S) /\ Len(q \o r) = Len(q) + Len(r)
         /\ DOMAIN q \subseteq DOMAIN (q \o r)
         /\ \A k \in DOMAIN q : (q \o r)[k] = q[k]
         /\ \A k \in DOMAIN (q \o r) \ DOMAIN q :
               k - Len(q) \in DOMAIN r /\ (q \o r)[k] = r[k - Len(q)]
  OBVIOUS

LEMMA PrefixFacts ==
  ASSUME NEW S, NEW q \in Seq(S), NEW n \in 0 .. Len(q)
  PROVE  /\ SubSeq(q, 1, n) \in Seq(S) /\ Len(SubSeq(q, 1, n)) = n
         /\ \A k \in DOMAIN SubSeq(q, 1, n) : k \in DOMAIN q /\ SubSeq(q, 1, n)[k] = q[k]
  OBVIOUS

LEMMA SfpSendKeeps ==
  ASSUME SInv, SfpSend
  PROVE  SInv'
<1> DEFINE fs == FragmentsOf(out[1])
<1>1. /\ out # <<>> /\ out' = Tail(out) /\ asked[out[1]].service = "file" /\ Head(out) = out[1]
      /\ out[1] \in DOMAIN asked /\ UNCHANGED <<port, rxq, recv, asked, last, done>>
  BY OutFacts DEF SfpSend
<1>2. PICK n \in 0 .. Len(fs) : back' = back \o SubSeq(fs, 1, n)
  BY <1>1 DEF SfpSend
<1>3. /\ back \in Seq(Packet) /\ fs \in Seq(Packet)
      /\ \A k \in DOMAIN fs : Meant(fs[k]) /\ fs[k].req = out[1] /\ fs[k].frag
  BY <1>1, FragmentsMeant DEF SInv, Types
<1> DEFINE sent == SubSeq(fs, 1, n)
<1> HIDE DEF fs
<1>4. /\ sent \in Seq(Packet)
      /\ \A k \in DOMAIN sent : Meant(sent[k]) /\ sent[k].req = out[1] /\ sent[k].frag
  BY <1>3, PrefixFacts
<1> HIDE DEF sent
<1>5. back' = back \o sent
  BY <1>2 DEF sent
<1>6. /\ back' \in Seq(Packet) /\ DOMAIN back \subseteq DOMAIN back'
      /\ \A k \in DOMAIN back : back'[k] = back[k]
      /\ \A k \in DOMAIN back' \ DOMAIN back :
            k - Len(back) \in DOMAIN sent /\ back'[k] = sent[k - Len(back)]
  BY <1>3, <1>4, <1>5, ConcatFacts
<1>7. \A k \in DOMAIN back' \ DOMAIN back :
         Meant(back'[k]) /\ back'[k].req = out[1] /\ back'[k].frag
  BY <1>4, <1>6
<1> QED BY <1>1, <1>6, <1>7, Answering

------------------------------------------------------------------------------
(* The theorems.                                                             *)
LEMMA Inductive == SInv /\ [Next]_vars => SInv'
<1> SUFFICES ASSUME SInv, [Next]_vars
             PROVE  SInv'
  OBVIOUS
<1>1. ASSUME NEW kind \in Kinds, Connect(kind)
      PROVE  SInv'
  BY <1>1, ConnectKeeps
<1>2. ASSUME NEW kind \in Kinds, OneShot(kind)
      PROVE  SInv'
  BY <1>2, OneShotKeeps
<1>3. ASSUME NEW kind \in Kinds, Ask(kind)
      PROVE  SInv'
  BY <1>3, AskKeeps
<1>4. ASSUME NEW kind \in Kinds, Transact(kind)
      PROVE  SInv'
  BY <1>4, TransactKeeps
<1>5. CASE Close
  BY <1>5, CloseKeeps
<1>6. CASE Read
  BY <1>6, ReadKeeps
<1>7. CASE SfpRecv
  BY <1>7, SfpRecvKeeps
<1>8. CASE SfpTimeout
  BY <1>8, SfpTimeoutKeeps
<1>9. CASE Route
  BY <1>9, RouteKeeps
<1>10. CASE Handle
  BY <1>10, HandleKeeps
<1>11. CASE SfpSend
  BY <1>11, SfpSendKeeps
<1>12. CASE LoseRequest
  BY <1>12, LoseRequestKeeps
<1>13. CASE LosePacket
  BY <1>13, LosePacketKeeps
<1>14. CASE UNCHANGED vars
  BY <1>14 DEF vars, SInv, Types, Filled, Meant, Sequenced, Assembled
<1> QED BY <1>1, <1>2, <1>3, <1>4, <1>5, <1>6, <1>7, <1>8, <1>9, <1>10, <1>11, <1>12, <1>13,
           <1>14 DEF Next

LEMMA Reachable == Spec => []SInv
<1>1. Init => SInv
  BY InitHolds
<1> QED BY <1>1, Inductive, PTL DEF Spec

\* What a call may return, by the action that ends it.
Returns == \/ event' = Nothing
           \/ /\ rxq # <<>> /\ event' = [call |-> "answer", packet |-> rxq[1]]
           \/ \E kind \in Kinds :
                 /\ rxq # <<>> /\ kind.service # "file"
                 /\ ~(~rxq[1].frag /\ Expects(kind.service, rxq[1].len))
                 /\ event' = [call |-> "refused", req |-> rxq[1].req, by |-> kind.service]
           \/ /\ rxq = <<>> /\ recv # Started
              /\ event' = [call |-> "recv", pieces |-> recv.pieces, result |-> "timedout"]
           \/ /\ rxq # <<>> /\ asked' = asked /\ rxq' = Tail(rxq)
              /\ \E memory \in BOOLEAN :
                    LET r == Taken(recv, rxq[1], memory)
                    IN  /\ r.result # "more"
                        /\ event' = [call |-> "recv", pieces |-> r.pieces, result |-> r.result]

LEMMA EventFacts ==
  ASSUME SInv, Next
  PROVE  Returns
<1>1. CASE \/ Close \/ Route \/ Handle \/ SfpSend \/ LoseRequest \/ LosePacket
           \/ \E kind \in Kinds : Connect(kind) \/ OneShot(kind) \/ Ask(kind)
  BY <1>1 DEF Close, Route, Handle, SfpSend, LoseRequest, LosePacket, Connect, OneShot, Ask, Returns
<1>2. CASE Read
  BY <1>2, HeadFacts DEF Read, Return, Returns
<1>3. ASSUME NEW kind \in Kinds, Transact(kind)
      PROVE  Returns
  BY <1>3, HeadFacts DEF Transact, Return, Returns
<1>4. CASE SfpTimeout
  BY <1>4 DEF SfpTimeout, Returns
<1>5. CASE SfpRecv
  BY <1>5, HeadFacts DEF SfpRecv, Take, Returns
<1> QED BY <1>1, <1>2, <1>3, <1>4, <1>5 DEF Next

(* csp_conn.c, csp_io.c, csp_sfp.c: the queues have their types and limits, and every  *)
(* packet on its way, or in a transfer that is being received, is one that the server  *)
(* makes of the request that it answers.                                               *)
THEOREM SessionTypeCorrect == Spec => []TypeOK
<1>1. SInv => TypeOK
  BY SInvImpliesTypeOK
<1> QED BY <1>1, Reachable, PTL

(* csp_sfp.c:131-160: whatever was lost, or is left over, what csp_sfp_recv returns has *)
(* no hole, each piece is in its place, and the size is that of the data it was cut from.*)
THEOREM PiecesArePlaced == Spec => []Placed
<1>1. Init => Placed
  BY DEF Init, Placed
<1>2. SInv /\ Placed /\ [Next]_vars => Placed'
  <2> SUFFICES ASSUME SInv, Placed, [Next]_vars
               PROVE  Placed'
    OBVIOUS
  <2>1. CASE UNCHANGED vars
    BY <2>1 DEF vars, Placed
  <2>2. CASE Next
    <3>1. Returns
      BY <2>2, EventFacts
    <3>2. CASE event' = Nothing \/ event'.call # "recv" \/ event'.result # "none"
      BY <3>2 DEF Placed
    <3>3. CASE event' # Nothing /\ event'.call = "recv" /\ event'.result = "none"
      <4>1. PICK memory \in BOOLEAN :
              LET r == Taken(recv, rxq[1], memory)
              IN  /\ rxq # <<>> /\ asked' = asked /\ r.result # "more"
                  /\ event' = [call |-> "recv", pieces |-> r.pieces, result |-> r.result]
        BY <3>1, <3>3 DEF Returns
      <4> DEFINE p == rxq[1]
                 ps == Append(recv.pieces, p)
                 got == recv.got + p.size
                 total == DataSize(recv, p)
      <4>2. /\ Good(recv, p)
            /\ Taken(recv, p, memory) =
                 [pieces |-> ps, got |-> got, datasize |-> total,
                  result |-> IF got >= total THEN "none" ELSE "more"]
        BY <3>3, <4>1, RoundFacts DEF SInv, Types
      <4>3. /\ ps \in Seq(Packet) /\ ps # <<>> /\ got \in Nat /\ total \in Nat /\ got <= total
            /\ ps[1].offset = 0 /\ got = ps[Len(ps)].offset + ps[Len(ps)].size
            /\ \A k \in DOMAIN ps : Meant(ps[k]) /\ ps[k].frag /\ ps[k].total = total
            /\ \A k \in 1 .. Len(ps) - 1 : ps[k + 1].offset = ps[k].offset + ps[k].size
        BY <4>1, <4>2, GoodRound
      <4>4. event'.pieces = ps /\ got >= total
        <5>1. event'.pieces = Taken(recv, p, memory).pieces
              /\ Taken(recv, p, memory).result = "none"
          BY <3>3, <4>1
        <5> QED BY <4>2, <5>1
      <4> HIDE DEF ps, got, total, p
      <4>5. got = total
        BY <4>3, <4>4
      <4>6. ASSUME NEW k \in DOMAIN ps
            PROVE  asked'[ps[k].req].total = ps[Len(ps)].offset + ps[Len(ps)].size
        <5>1. ps[k] \in Packet /\ Meant(ps[k]) /\ ps[k].frag /\ ps[k].total = total
          BY <4>3, Elements
        <5>2. asked[ps[k].req].total = total
          BY <5>1, MeantFacts DEF SInv
        <5> QED BY <4>1, <4>3, <4>5, <5>2
      <4> QED BY <4>3, <4>4, <4>6 DEF Placed, Last
    <3> QED BY <3>2, <3>3
  <2> QED BY <2>1, <2>2
<1> QED BY <1>1, <1>2, Reachable, PTL DEF Spec

(* csp_io.c:335: an answer that is returned belongs to a later request than the one     *)
(* before, however late it comes; only fragments of one transfer share theirs.          *)
THEOREM AnswersAreInOrder == Spec => InOrder
<1> DEFINE A == event' # Nothing /\ event'.call = "answer"
                => LET p == event'.packet
                   IN  p.req > last \/ (p.frag /\ p.req = last)
<1>1. SInv /\ [Next]_vars => [A]_vars
  <2> SUFFICES ASSUME SInv, Next, event' # Nothing, event'.call = "answer"
               PROVE  LET p == event'.packet
                      IN  p.req > last \/ (p.frag /\ p.req = last)
    OBVIOUS
  <2>1. Returns
    BY EventFacts
  <2>2. rxq # <<>> /\ event'.packet = rxq[1]
    BY <2>1 DEF Returns
  <2>3. Follows(rxq[1], last) /\ rxq[1].req \in Nat /\ last \in Nat
    BY <2>2, HeadFacts, PacketFacts, Basics DEF SInv
  <2> QED BY <2>2, <2>3 DEF Follows
<1> QED BY <1>1, Reachable, PTL DEF Spec, InOrder

(* csp_service_handler.c and csp_services.c agree on the length of every answer.        *)
THEOREM LengthsMatch == Spec => Matched
<1> DEFINE A == event' # Nothing /\ event'.call = "refused"
                => asked[event'.req].service # event'.by
<1>1. SInv /\ [Next]_vars => [A]_vars
  <2> SUFFICES ASSUME SInv, Next, event' # Nothing, event'.call = "refused"
               PROVE  asked[event'.req].service # event'.by
    OBVIOUS
  <2>1. Returns
    BY EventFacts
  <2>2. PICK kind \in Kinds :
          /\ rxq # <<>> /\ kind.service # "file"
          /\ ~(~rxq[1].frag /\ Expects(kind.service, rxq[1].len))
          /\ event' = [call |-> "refused", req |-> rxq[1].req, by |-> kind.service]
    BY <2>1 DEF Returns
  <2>3. event'.req = rxq[1].req /\ event'.by = kind.service
    BY <2>2
  <2>4. SUFFICES ASSUME asked[rxq[1].req].service = kind.service
                 PROVE  FALSE
    BY <2>3
  <2>5. ~rxq[1].frag /\ rxq[1].len = AnswerLen(kind.service)
    BY <2>2, <2>4, HeadFacts, MeantFacts DEF SInv
  <2>6. Expects(kind.service, AnswerLen(kind.service))
    BY <2>2, KindFacts, AnswerFits
  <2> QED BY <2>2, <2>5, <2>6
<1> QED BY <1>1, Reachable, PTL DEF Spec, Matched

------------------------------------------------------------------------------
(* A transfer that waits together.                                           *)

\* Its packets lie one behind the other, from the first to the size of the data.
LEMMA TransferLies ==
  ASSUME SInv, NEW n \in DOMAIN asked, FragmentsOf(n) # <<>>
  PROVE  LET t == FragmentsOf(n)
             total == asked[n].total
         IN  /\ t \in Seq(Packet) /\ Len(t) \in Nat \ {0} /\ DOMAIN t = 1 .. Len(t) /\ total \in Nat
             /\ \A k \in DOMAIN t : /\ t[k].frag /\ t[k].total = total
                                    /\ t[k].offset \in Nat /\ t[k].size \in Nat \ {0}
                                    /\ t[k].offset + t[k].size <= total
             /\ \A k \in DOMAIN t : k + 1 \in DOMAIN t =>
                   t[k + 1].offset = t[k].offset + t[k].size
             /\ t[1].offset = 0 /\ t[Len(t)].offset + t[Len(t)].size = total
<1> DEFINE t == FragmentsOf(n)
           total == asked[n].total
           gs == Fragments(total)
           S == [offset : Nat, total : {total}, size : Nat \ {0}]
<1>1. total \in Nat
  BY Basics, Elements, KindFacts DEF SInv, Types
<1>2. /\ t \in Seq(Packet) /\ DOMAIN t = DOMAIN gs /\ Len(t) = Len(gs) /\ gs \in Seq(S)
      /\ \A k \in DOMAIN t : /\ t[k].frag /\ t[k].offset = gs[k].offset
                             /\ t[k].total = gs[k].total /\ t[k].size = gs[k].size
  BY TransferFacts
<1>3. /\ \A k \in DOMAIN gs : gs[k].offset + gs[k].size <= total
      /\ \A k \in DOMAIN gs : k + 1 \in DOMAIN gs => gs[k + 1].offset = gs[k].offset + gs[k].size
      /\ gs # <<>> => gs[1].offset = 0 /\ gs[Len(gs)].offset + gs[Len(gs)].size = total
  BY <1>1, FragmentFacts
<1> HIDE DEF gs, t, S
<1>4. Len(t) \in Nat \ {0} /\ DOMAIN t = 1 .. Len(t) /\ gs # <<>>
  BY <1>2, Elements DEF t
<1>5. \A k \in DOMAIN gs : gs[k] \in S
  BY <1>2, Elements
<1>6. \A k \in DOMAIN gs : gs[k].offset \in Nat /\ gs[k].total = total /\ gs[k].size \in Nat \ {0}
  BY <1>5 DEF S
<1>7. 1 \in DOMAIN t /\ Len(t) \in DOMAIN t
  BY <1>4
<1>8. \A k \in DOMAIN t : /\ t[k].frag /\ t[k].total = total
                          /\ t[k].offset \in Nat /\ t[k].size \in Nat \ {0}
                          /\ t[k].offset + t[k].size <= total
  BY <1>2, <1>3, <1>6
<1>9. \A k \in DOMAIN t : k + 1 \in DOMAIN t => t[k + 1].offset = t[k].offset + t[k].size
  BY <1>2, <1>3
<1>10. t[1].offset = 0 /\ t[Len(t)].offset + t[Len(t)].size = total
  BY <1>2, <1>3, <1>4, <1>7
<1> QED BY <1>1, <1>2, <1>4, <1>8, <1>9, <1>10 DEF t

\* What has been read is not all of it: the call would have ended.
LEMMA TransferAhead ==
  ASSUME SInv, NEW n \in DOMAIN asked, FragmentsOf(n) # <<>>,
         IsPrefix(FragmentsOf(n), recv.pieces \o rxq)
  PROVE  LET t == FragmentsOf(n)
             rs == recv.pieces
         IN  /\ Len(rs) < Len(t) /\ Len(t) <= Len(rs) + Len(rxq) /\ rxq # <<>>
             /\ \A k \in DOMAIN rs : rs[k] = t[k]
             /\ \A k \in DOMAIN rxq : Len(rs) + k <= Len(t) => rxq[k] = t[Len(rs) + k]
<1> DEFINE t == FragmentsOf(n)
           rs == recv.pieces
           w == rs \o rxq
<1>1. rs \in Seq(Packet) /\ rxq \in Seq(Packet) /\ Assembled
  BY DEF SInv, Types
<1>2. t \in Seq(Packet) /\ Len(t) \in Nat \ {0} /\ DOMAIN t = 1 .. Len(t)
  BY TransferLies
<1>3. /\ Len(rs) \in Nat /\ Len(rxq) \in Nat /\ Len(w) = Len(rs) + Len(rxq) /\ w \in Seq(Packet)
      /\ DOMAIN rs = 1 .. Len(rs) /\ DOMAIN rxq = 1 .. Len(rxq)
      /\ \A k \in 1 .. Len(rs) : w[k] = rs[k]
      /\ \A k \in 1 .. Len(rxq) : w[Len(rs) + k] = rxq[k]
  BY <1>1
<1>4. Len(t) <= Len(w) /\ SubSeq(t, 1, Len(t)) = SubSeq(w, 1, Len(t))
  BY DEF IsPrefix
<1> HIDE DEF t, w
<1>5. \A k \in 1 .. Len(t) : t[k] = w[k]
  <2>1. \A k \in 1 .. Len(t) : SubSeq(t, 1, Len(t))[k] = t[k] /\ SubSeq(w, 1, Len(t))[k] = w[k]
    BY <1>2, <1>3, <1>4
  <2> QED BY <1>4, <2>1
<1>6. Len(rs) < Len(t)
  <2> SUFFICES ASSUME Len(t) <= Len(rs)
               PROVE  FALSE
    BY <1>2, <1>3
  <2> DEFINE m == Len(t)
  <2>1. m \in DOMAIN rs /\ m \in 1 .. Len(t) /\ rs # <<>>
    BY <1>2, <1>3
  <2>2. rs[m] = t[m]
    BY <1>3, <1>5, <2>1
  <2>3. /\ t[m].total = asked[n].total /\ t[m].offset + t[m].size = asked[n].total
        /\ asked[n].total \in Nat
    BY <1>2, <2>1, TransferLies DEF t
  <2>4. /\ rs[m].total = recv.datasize /\ rs[m].offset + rs[m].size <= recv.got
        /\ recv.got < recv.datasize /\ recv.got \in Nat
    BY <1>1, <2>1 DEF Assembled, SInv, Types
  <2> QED BY <2>2, <2>3, <2>4
<1>7. \A k \in DOMAIN rs : rs[k] = t[k]
  BY <1>2, <1>3, <1>5, <1>6
<1>8. \A k \in DOMAIN rxq : Len(rs) + k <= Len(t) => rxq[k] = t[Len(rs) + k]
  BY <1>2, <1>3, <1>5
<1>9. rxq # <<>>
  BY <1>1, <1>2, <1>3, <1>4, <1>6
<1> QED BY <1>3, <1>4, <1>6, <1>7, <1>8, <1>9 DEF t

\* A round with its next packet succeeds, and with its last one completes it.
LEMMA TransferRound ==
  ASSUME SInv, NEW n \in DOMAIN asked, FragmentsOf(n) # <<>>,
         IsPrefix(FragmentsOf(n), recv.pieces \o rxq)
  PROVE  LET t == FragmentsOf(n)
             rs == recv.pieces
             p == rxq[1]
         IN  /\ Good(recv, p)
             /\ Len(t) # Len(rs) + 1 => recv.got + p.size < DataSize(recv, p)
             /\ Len(t) = Len(rs) + 1 => recv.got + p.size >= DataSize(recv, p)
                                        /\ t = Append(rs, p)
<1> DEFINE t == FragmentsOf(n)
           rs == recv.pieces
           p == rxq[1]
           total == asked[n].total
           m == Len(rs) + 1
<1>1. rs \in Seq(Packet) /\ rxq \in Seq(Packet) /\ Assembled /\ recv.got \in Nat
  BY DEF SInv, Types
<1>2. /\ t \in Seq(Packet) /\ Len(t) \in Nat \ {0} /\ DOMAIN t = 1 .. Len(t) /\ total \in Nat
      /\ \A k \in DOMAIN t : /\ t[k].frag /\ t[k].total = total
                             /\ t[k].offset \in Nat /\ t[k].size \in Nat \ {0}
                             /\ t[k].offset + t[k].size <= total
      /\ \A k \in DOMAIN t : k + 1 \in DOMAIN t => t[k + 1].offset = t[k].offset + t[k].size
      /\ t[1].offset = 0 /\ t[Len(t)].offset + t[Len(t)].size = total
  BY TransferLies
<1>3. /\ Len(rs) < Len(t) /\ rxq # <<>>
      /\ \A k \in DOMAIN rs : rs[k] = t[k]
      /\ \A k \in DOMAIN rxq : Len(rs) + k <= Len(t) => rxq[k] = t[Len(rs) + k]
  BY TransferAhead
<1>4. /\ Len(rs) \in Nat /\ DOMAIN rs = 1 .. Len(rs) /\ 1 \in DOMAIN rxq
      /\ rs # <<>> <=> Len(rs) # 0
      /\ rs # <<>> => 1 \in DOMAIN rs /\ Len(rs) \in DOMAIN rs
  BY <1>1, <1>3, Elements
<1> HIDE DEF t, p
<1>5. m \in DOMAIN t /\ p = t[m]
  BY <1>2, <1>3, <1>4 DEF p
<1>6. /\ p.frag /\ p.total = total /\ p.offset \in Nat /\ p.size \in Nat \ {0}
      /\ p.offset + p.size <= total
  BY <1>2, <1>5
<1>7. ASSUME rs = <<>>
      PROVE  recv.got = p.offset /\ DataSize(recv, p) = total
  <2>1. recv.got = 0 /\ DataSize(recv, p) = total /\ m = 1
    BY <1>1, <1>4, <1>6, <1>7 DEF Assembled, Started, DataSize
  <2> QED BY <1>2, <1>5, <2>1
<1>8. ASSUME rs # <<>>
      PROVE  recv.got = p.offset /\ DataSize(recv, p) = total
  <2> DEFINE l == Len(rs)
  <2>1. l \in DOMAIN rs /\ l \in DOMAIN t /\ l + 1 = m /\ 1 \in DOMAIN rs /\ 1 \in DOMAIN t
    BY <1>2, <1>3, <1>4, <1>8
  <2> HIDE DEF l, m
  <2>2. rs[1] = t[1] /\ rs[l] = t[l]
    BY <1>3, <2>1
  <2>3. recv.got = rs[l].offset + rs[l].size /\ rs[1].total = recv.datasize
    BY <1>1, <1>8, <2>1 DEF Assembled, l
  <2>4. recv.got = p.offset
    BY <1>2, <1>5, <2>1, <2>2, <2>3
  <2>5. t[1].total = total
    BY <1>2, <2>1
  <2>6. DataSize(recv, p) = total
    BY <1>8, <2>2, <2>3, <2>5 DEF DataSize
  <2> QED BY <2>4, <2>6
<1>9. recv.got = p.offset /\ DataSize(recv, p) = total
  BY <1>7, <1>8
<1>10. Good(recv, p)
  BY <1>1, <1>2, <1>6, <1>9 DEF Good, HeaderValid, InPlace, SizesAgree
<1>11. ASSUME Len(t) # m
       PROVE  recv.got + p.size < DataSize(recv, p)
  <2>1. /\ m \in DOMAIN t /\ Len(t) # m
        /\ DOMAIN t = 1 .. Len(t) /\ Len(t) \in Nat
    BY <1>2, <1>5, <1>11
  <2> HIDE DEF m
  <2>2. m \in Nat /\ m + 1 \in DOMAIN t
    BY <2>1
  <2>3. t[m + 1].offset = t[m].offset + t[m].size
    BY <1>2, <2>1, <2>2
  <2>4. t[m + 1].offset \in Nat /\ t[m + 1].size \in Nat \ {0}
        /\ t[m + 1].offset + t[m + 1].size <= total
    BY <1>2, <2>2
  <2>5. p.offset + p.size < total
    BY <1>2, <1>5, <1>6, <2>3, <2>4
  <2> QED BY <1>9, <2>5
<1>12. Len(t) = m => t = Append(rs, p) /\ recv.got + p.size >= DataSize(recv, p)
  <2> SUFFICES ASSUME Len(t) = m
               PROVE  t = Append(rs, p) /\ p.offset + p.size >= total
    BY <1>9
  <2>1. p.offset + p.size = total
    BY <1>2, <1>5
  <2>2. /\ p \in Packet /\ Append(rs, p) \in Seq(Packet) /\ Len(Append(rs, p)) = Len(t)
        /\ \A k \in 1 .. Len(t) : Append(rs, p)[k] = t[k]
    BY <1>1, <1>2, <1>3, <1>4, <1>5, AppendFacts, Elements
  <2>3. t = Append(rs, p)
    BY <1>2, <2>2
  <2> QED BY <1>2, <2>1, <2>3
<1> QED BY <1>10, <1>11, <1>12 DEF t, p

(* csp_sfp.c:98-191: a transfer whose packets waited together is returned whole, and      *)
(* csp_sfp_recv takes nothing of what waits behind it.                                   *)
THEOREM TransfersAreWhole == Spec => Whole
<1> DEFINE A == \A n \in DOMAIN asked :
                  LET transfer == FragmentsOf(n)
                      waited == recv.pieces \o rxq
                  IN  /\ event' # Nothing /\ event'.call = "recv" /\ event'.result # "nomem"
                      /\ transfer # <<>> /\ IsPrefix(transfer, waited)
                      => /\ event'.result = "none" /\ event'.pieces = transfer
                         /\ waited = transfer \o rxq'
<1>1. SInv /\ [Next]_vars => [A]_vars
  <2> SUFFICES ASSUME SInv, Next, NEW n \in DOMAIN asked,
                      event' # Nothing, event'.call = "recv", event'.result # "nomem",
                      FragmentsOf(n) # <<>>, IsPrefix(FragmentsOf(n), recv.pieces \o rxq)
               PROVE  /\ event'.result = "none" /\ event'.pieces = FragmentsOf(n)
                      /\ recv.pieces \o rxq = FragmentsOf(n) \o rxq'
    OBVIOUS
  <2> DEFINE p == rxq[1]
             t == Append(recv.pieces, p)
  <2>1. rxq # <<>> /\ Good(recv, p)
    BY TransferAhead, TransferRound
  <2>2. PICK memory \in BOOLEAN :
          LET r == Taken(recv, rxq[1], memory)
          IN  /\ rxq' = Tail(rxq) /\ r.result # "more"
              /\ event' = [call |-> "recv", pieces |-> r.pieces, result |-> r.result]
    BY <2>1, EventFacts DEF Returns
  <2>3. /\ event'.pieces = Taken(recv, p, memory).pieces
        /\ event'.result = Taken(recv, p, memory).result
        /\ Taken(recv, p, memory).result # "more"
    BY <2>2
  <2>4. Taken(recv, p, memory) = [pieces |-> t, got |-> recv.got + p.size,
                                  datasize |-> DataSize(recv, p),
                                  result |-> IF recv.got + p.size >= DataSize(recv, p)
                                             THEN "none" ELSE "more"]
    BY <2>1, <2>3, RoundFacts DEF SInv, Types
  <2>5. recv.got + p.size >= DataSize(recv, p) /\ event'.result = "none" /\ event'.pieces = t
    BY <2>3, <2>4
  <2>6. /\ recv.got + p.size \in Nat /\ DataSize(recv, p) \in Nat
        /\ rxq \in Seq(Packet) /\ recv.pieces \in Seq(Packet) /\ p \in Packet
    BY <2>1, GoodRound DEF SInv, Types
  <2>7. FragmentsOf(n) = t
    BY <2>5, <2>6, TransferRound
  <2>8. recv.pieces \o rxq = t \o Tail(rxq)
    BY <2>1, <2>6
  <2> QED BY <2>2, <2>5, <2>7, <2>8
<1> QED BY <1>1, Reachable, PTL DEF Spec, Whole

================================================================================
