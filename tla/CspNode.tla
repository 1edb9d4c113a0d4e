-------------------------------- MODULE CspNode --------------------------------
(***************************************************************************)
(* One CSP node: an interface driver that receives in interrupt context,    *)
(* the router (csp_route_work), the table of connections, the port table,   *)
(* sockets, and application code that calls the API of csp.h.               *)
(*                                                                          *)
(* A packet buffer is in one place at a time, and the module follows every  *)
(* buffer through those places: the pool (as CspPool promises it: any       *)
(* unreferenced buffer), the driver, the router queue, the receive queue of *)
(* a connection or of a connection-less socket, or the hands of a context.  *)
(* Queues are bounded FIFOs (CspFifo).  A step ends where another context   *)
(* can see its effect; with Preemptive = FALSE the contexts are the calls   *)
(* of one main loop, each of which runs to its end, and only the driver's   *)
(* interrupt comes between two steps (the port in src/src/arch/baremetal);  *)
(* with TRUE they are preemptive tasks, as the comments of csp.h assume.    *)
(***************************************************************************)
EXTENDS Naturals, Sequences, FiniteSets, Functions

CONSTANTS
    Buffers,        \* the packets of the pool
    NConns,         \* CSP_CONN_MAX
    Apps, Router,   \* users of the API, and the context that runs csp_route_work
    Sockets,        \* sockets on which csp_listen was called
    ConnLess,       \* those with CSP_SO_CONN_LESS
    CrcReq,         \* those with CSP_SO_CRC32REQ
    MaxBind,        \* CSP_PORT_MAX_BIND
    Bindings,       \* the <<socket, port>> pairs the program may bind
    Callbacks,      \* the ports it may bind a callback to
    Connects,       \* the arguments it calls csp_connect with
    Datagrams,      \* the headers it sends to itself with csp_sendto
    Me, Peers,      \* the loopback address, and other nodes
    Wire,           \* headers that can arrive on the interface
    QfifoLen,       \* CSP_QFIFO_LEN
    RxqLen,         \* CSP_CONN_RXQUEUE_LEN
    Preemptive,     \* contexts are preemptive tasks
    ClosesSockets,  \* the program calls csp_socket_close
    NoBuf, NoHdr, NoConn, NoSock, NoArgs

Conns == 0 .. NConns - 1
Ctx == Apps \cup {Router}
AnyPort == MaxBind + 1              \* the slot of the port table for CSP_ANY
ClientPort(c) == MaxBind + 1 + c    \* sport_outgoing
Ports == 0 .. MaxBind + NConns

\* What routing looks at in a packet: addresses and ports, and one mark for
\* "not addressed to this node", "asks for HMAC or RDP" and the CRC flag.
Marks == {"away", "unsupported", "plain", "crc", "badcrc"}
Header == [src : Peers \cup {Me}, sport : Ports, dport : Ports, mark : Marks]
Args == [dst : Peers \cup {Me}, dport : Ports, crc : BOOLEAN]

ASSUME NodeAssumption ==
    /\ NConns \in Nat \ {0} /\ MaxBind \in Nat
    /\ QfifoLen \in Nat \ {0} /\ RxqLen \in Nat \ {0}
    /\ Router \notin Apps /\ Me \notin Peers
    /\ ConnLess \subseteq Sockets /\ CrcReq \subseteq Sockets
    /\ Bindings \subseteq Sockets \X (0 .. AnyPort) /\ Callbacks \subseteq 0 .. AnyPort
    /\ Wire \subseteq Header /\ Datagrams \subseteq Header /\ Connects \subseteq Args
    /\ NoBuf \notin Buffers /\ NoConn \notin Conns /\ NoSock \notin Sockets
    /\ "closed" \notin Sockets /\ "callback" \notin Sockets
    /\ Preemptive \in BOOLEAN /\ ClosesSockets \in BOOLEAN

VARIABLES
    pool,       \* free buffers
    hdr,        \* header of each packet in flight
    driver,     \* rx_packet: the packet the driver is filling
    qfifo,      \* packets waiting for the router
    conn,       \* arr_conn: state, type, identifiers, dest_socket, opts
    lastGiven,  \* csp_conn_last_given
    rxq,        \* receive queue of each connection
    sockq,      \* queue of each socket: connections to accept, or packets
    ports,      \* the port table
    pc,         \* where each context is in its call, "idle" between calls
    hand,       \* the packet each context works on
    copy,       \* the clone it is transmitting
    cur,        \* the connection it holds a pointer to
    sk,         \* the socket its call is about
    args,       \* the arguments of the csp_connect it is in
    halted      \* the driver sits in the while(1) after csp_panic

vars == <<pool, hdr, driver, qfifo, conn, lastGiven, rxq, sockq, ports,
          pc, hand, copy, cur, sk, args, halted>>

packets == <<pool, hdr, driver, qfifo, halted>>
tables == <<conn, lastGiven, rxq, sockq, ports>>

Closed == "closed"
Callback == "callback"

PcValues == {"idle", "tx",
             "classify", "callback", "dgram", "lookup", "enqueue", "post", "unpost",
             "alloc", "setType", "copyIds", "newFlush", "finish",
             "closeFlush", "setClosed", "drain"}

\* Connection records are .noinit: csp_conn_init writes state; type and
\* identifiers are read only once a state is OPEN.
Conn == [open : BOOLEAN, client : BOOLEAN, src : Peers \cup {Me}, sport : Ports,
         dport : Ports, crc : BOOLEAN, dest : Sockets \cup {NoSock}, crcreq : BOOLEAN]
FreshConn == [open |-> FALSE, client |-> TRUE, src |-> Me, sport |-> 0, dport |-> 0,
              crc |-> FALSE, dest |-> NoSock, crcreq |-> FALSE]

Init ==
    /\ pool = Buffers /\ hdr = [b \in Buffers |-> NoHdr]
    /\ driver = NoBuf /\ qfifo = <<>>
    /\ conn = [c \in Conns |-> FreshConn] /\ lastGiven = 0
    /\ rxq = [c \in Conns |-> <<>>] /\ sockq = [s \in Sockets |-> <<>>]
    /\ ports = [p \in 0 .. AnyPort |-> Closed]
    /\ pc = [x \in Ctx |-> "idle"] /\ hand = [x \in Ctx |-> NoBuf]
    /\ copy = [x \in Ctx |-> NoBuf] /\ cur = [x \in Ctx |-> NoConn]
    /\ sk = [x \in Ctx |-> NoSock] /\ args = [a \in Apps |-> NoArgs]
    /\ halted = FALSE

------------------------------------------------------------------------------
\* A context takes a step unless the interrupt handler has taken the node down;
\* in the main loop, only when no other call is under way.
Runs(x) == ~halted /\ (Preemptive \/ \A y \in Ctx \ {x} : pc[y] = "idle")
At(x, at) == Runs(x) /\ pc[x] = at
Goto(x, at) == pc' = [pc EXCEPT ![x] = at]

\* csp_buffer_free of packets with one reference.
Release(freed) ==
    /\ pool' = pool \cup freed
    /\ hdr' = [b \in Buffers |-> IF b \in freed THEN NoHdr ELSE hdr[b]]

\* Mutants of QfifoWrite: no test for a full queue; its packet not freed.
QfifoWriteUnbounded(b, h) ==
    qfifo' = Append(qfifo, b) /\ hdr' = [hdr EXCEPT ![b] = h] /\ UNCHANGED pool
QfifoWriteLeaks(b, h) ==
    IF Len(qfifo) < QfifoLen THEN QfifoWriteUnbounded(b, h) ELSE UNCHANGED <<pool, hdr, qfifo>>

\* csp_qfifo_write of packet b with header h: freed if the queue is full.
QfifoWrite(b, h) ==
    IF Len(qfifo) < QfifoLen
    THEN qfifo' = Append(qfifo, b) /\ hdr' = [hdr EXCEPT ![b] = h] /\ UNCHANGED pool
    ELSE Release({b}) /\ UNCHANGED qfifo

\* A mutant of DropHand that uses the packet after the free.
DropHandKept(x) == Release({hand[x]}) /\ Goto(x, "idle") /\ UNCHANGED <<hand, qfifo>>

\* x frees the packet it works on and returns from its call.
DropHand(x) ==
    /\ Release({hand[x]})
    /\ hand' = [hand EXCEPT ![x] = NoBuf]
    /\ Goto(x, "idle")
    /\ UNCHANGED qfifo

\* csp_send_direct to another node: a clone (csp_buffer_get keeps two buffers back)
\* goes to the interface of the route, then the packet is freed; without a
\* route or a clone it is only freed.
Transmit(x) ==
    \/ DropHand(x) /\ UNCHANGED copy
    \/ /\ Cardinality(pool) >= 2
       /\ \E b \in pool : pool' = pool \ {b} /\ copy' = [copy EXCEPT ![x] = b]
       /\ Goto(x, "tx")
       /\ UNCHANGED <<hdr, qfifo, hand>>

\* csp_send_direct of the packet in hand to dst, with header h on loopback; a CRC
\* that does not fit in the buffer is csp_send_direct_iface's tx_err.
Emit(x, dst, h) ==
    \/ dst # Me /\ Transmit(x)
    \/ /\ dst = Me
       /\ QfifoWrite(hand[x], h)
       /\ hand' = [hand EXCEPT ![x] = NoBuf]
       /\ Goto(x, "idle")
       /\ UNCHANGED copy
    \/ dst = Me /\ h.mark = "crc" /\ DropHand(x) /\ UNCHANGED copy

\* The interface is done with the clone.
TxDone(x) ==
    /\ At(x, "tx")
    /\ Release({copy[x], hand[x]})
    /\ copy' = [copy EXCEPT ![x] = NoBuf]
    /\ hand' = [hand EXCEPT ![x] = NoBuf]
    /\ Goto(x, "idle")
    /\ UNCHANGED <<driver, qfifo, halted, tables, cur, sk, args>>

\* csp_port_get_callback and csp_port_get_socket: a port, else the CSP_ANY slot.
PortEntry(p) ==
    CASE p > MaxBind -> Closed
      [] p <= MaxBind /\ ports[p] # Closed -> ports[p]
      [] OTHER -> ports[AnyPort]

\* csp_route_security_check, and the check against the options of a socket, with a
\* mutant that checks a CRC if there is one and requires none.
Passes(crcreq, mark) == mark = "crc" \/ (mark = "plain" /\ ~crcreq)
AdmitsAll(s, mark) == mark # "badcrc"
Admits(s, mark) == Passes(s \in CrcReq, mark)

\* csp_conn_find_existing: the first connection that the packet matches; mutants
\* that ignore the peer, or the incoming connections.
Matches(c, h) ==
    /\ conn[c].open /\ conn[c].dport = h.dport
    /\ conn[c].client \/ (conn[c].sport = h.sport /\ conn[c].src = h.src)

ExistingAnyPeer(h) == {c \in Conns : conn[c].open /\ conn[c].dport = h.dport}
ExistingClients(h) == {c \in Conns : Matches(c, h) /\ conn[c].client}
Existing(h) == {c \in Conns : Matches(c, h) /\ \A d \in 0 .. c - 1 : ~Matches(d, h)}

\* csp_conn_allocate: the first closed connection, from the one after the last given.
Turn(n) == (lastGiven + n) % NConns
Allocated ==
    {Turn(n) : n \in {m \in 1 .. NConns :
                        ~conn[Turn(m)].open /\ \A k \in 1 .. m - 1 : conn[Turn(k)].open}}

\* The identifiers a new connection gets: those of the packet for an incoming
\* connection, those of the call for csp_connect, whose incoming dport is not
\* known before a connection is allocated.
Wanted(x) ==
    IF x = Router
    THEN LET h == hdr[hand[Router]]
         IN [src |-> h.src, sport |-> h.sport, dport |-> h.dport, crc |-> h.mark = "crc"]
    ELSE [src |-> args[x].dst, sport |-> args[x].dport, dport |-> 0, crc |-> args[x].crc]

------------------------------------------------------------------------------
(* The driver, in interrupt context: csp_kiss_rx takes a buffer at the start *)
(* of a frame and keeps it until a frame is accepted.                        *)
RxStart ==
    /\ ~halted /\ driver = NoBuf
    /\ \/ \E b \in pool : driver' = b /\ pool' = pool \ {b} /\ UNCHANGED halted
       \/ pool = {} /\ halted' = TRUE /\ UNCHANGED <<driver, pool>>
    /\ UNCHANGED <<hdr, qfifo, tables, pc, hand, copy, cur, sk, args>>

RxDone(h) ==
    /\ ~halted /\ driver # NoBuf
    /\ QfifoWrite(driver, h)
    /\ driver' = NoBuf
    /\ UNCHANGED <<halted, tables, pc, hand, copy, cur, sk, args>>

------------------------------------------------------------------------------
(* csp_route_work *)
RouteRead ==
    /\ At(Router, "idle") /\ qfifo # <<>>
    /\ qfifo' = Tail(qfifo)
    /\ hand' = [hand EXCEPT ![Router] = Head(qfifo)]
    /\ Goto(Router, "classify")
    /\ UNCHANGED <<pool, hdr, driver, halted, tables, copy, cur, sk, args>>

Arrived == hdr[hand[Router]]

\* Duplicates (any packet may look like one, see csp_dedup.c) and packets with
\* options the build lacks are dropped, others' packets forwarded; the port
\* table then says who the packet is for.
RouteClassify ==
    /\ At(Router, "classify")
    /\ LET entry == PortEntry(Arrived.dport)
           mine == Arrived.mark \notin {"away", "unsupported"}
       IN \/ DropHand(Router) /\ UNCHANGED <<copy, sk>>
          \/ Arrived.mark = "away" /\ Transmit(Router) /\ UNCHANGED sk
          \/ /\ mine /\ entry = Callback /\ Passes(TRUE, Arrived.mark)
             /\ Goto(Router, "callback")
             /\ UNCHANGED <<pool, hdr, qfifo, hand, copy, sk>>
          \/ /\ mine /\ entry # Callback
             /\ sk' = [sk EXCEPT ![Router] = IF entry = Closed THEN NoSock ELSE entry]
             /\ Goto(Router, IF entry \in ConnLess THEN "dgram" ELSE "lookup")
             /\ UNCHANGED <<pool, hdr, qfifo, hand, copy>>
    /\ UNCHANGED <<driver, halted, tables, cur, args>>

\* csp_sendto_reply to the packet in hand, with its flags or others.
Reply(x) ==
    LET h == hdr[hand[x]]
    IN \E mark \in {"plain", "crc"} :
         Emit(x, h.src, [src |-> Me, sport |-> h.dport, dport |-> h.sport, mark |-> mark])

\* The callback owns the packet: it frees it or answers with it.
CallbackDone ==
    /\ At(Router, "callback")
    /\ Reply(Router) \/ (DropHand(Router) /\ UNCHANGED copy)
    /\ UNCHANGED <<driver, halted, tables, cur, sk, args>>

\* Delivery to a connection-less socket.
RouteDgram ==
    /\ At(Router, "dgram")
    /\ LET s == sk[Router]
           fits == Admits(s, Arrived.mark) /\ Len(sockq[s]) < RxqLen
       IN \/ /\ fits
             /\ sockq' = [sockq EXCEPT ![s] = Append(@, hand[Router])]
             /\ hand' = [hand EXCEPT ![Router] = NoBuf]
             /\ Goto(Router, "idle")
             /\ UNCHANGED <<pool, hdr, qfifo>>
          \/ ~fits /\ DropHand(Router) /\ UNCHANGED sockq
    /\ sk' = [sk EXCEPT ![Router] = NoSock]
    /\ UNCHANGED <<driver, halted, conn, lastGiven, rxq, ports, copy, cur, args>>

RouteLookup ==
    /\ At(Router, "lookup")
    /\ LET s == sk[Router]
           found == Existing(Arrived)
           refused == IF found = {} THEN s = NoSock \/ ~Admits(s, Arrived.mark)
                      ELSE \E c \in found : ~Passes(conn[c].crcreq, Arrived.mark)
       IN \/ /\ refused /\ DropHand(Router)
             /\ sk' = [sk EXCEPT ![Router] = NoSock] /\ UNCHANGED cur
          \/ /\ ~refused /\ UNCHANGED <<pool, hdr, qfifo, hand, sk>>
             /\ \/ /\ \E c \in found : cur' = [cur EXCEPT ![Router] = c]
                   /\ Goto(Router, "enqueue")
                \/ found = {} /\ Goto(Router, "alloc") /\ UNCHANGED cur
    /\ UNCHANGED <<driver, halted, tables, copy, args>>

------------------------------------------------------------------------------
(* csp_conn_new, called by the router or by csp_connect of an application:   *)
(* its steps up to the flush are visible to other tasks.                     *)
Take(x, c) ==
    /\ conn' = [conn EXCEPT ![c].open = TRUE]
    /\ lastGiven' = c
    /\ cur' = [cur EXCEPT ![x] = c]
    /\ Goto(x, "setType")

RouteAlloc ==
    /\ At(Router, "alloc")
    /\ \/ \E c \in Allocated : Take(Router, c) /\ UNCHANGED <<pool, hdr, qfifo, hand, sk>>
       \/ /\ Allocated = {} /\ DropHand(Router)
          /\ sk' = [sk EXCEPT ![Router] = NoSock] /\ UNCHANGED <<conn, lastGiven, cur>>
    /\ UNCHANGED <<driver, halted, rxq, sockq, ports, copy, args>>

\* NULL is returned, and nothing changes, if every connection is open.
Connect(a, k) ==
    /\ At(a, "idle") /\ cur[a] = NoConn
    /\ \E c \in Allocated : Take(a, c)
    /\ args' = [args EXCEPT ![a] = k]
    /\ UNCHANGED <<packets, rxq, sockq, ports, hand, copy, sk>>

SetType(x) ==
    /\ At(x, "setType")
    /\ conn' = [conn EXCEPT ![cur[x]].client = (x # Router), ![cur[x]].crc = FALSE]
    /\ Goto(x, "copyIds")
    /\ UNCHANGED <<packets, lastGiven, rxq, sockq, ports, hand, copy, cur, sk, args>>

CopyIds(x) ==
    /\ At(x, "copyIds")
    /\ LET id == Wanted(x)
       IN conn' = [conn EXCEPT ![cur[x]].src = id.src, ![cur[x]].sport = id.sport,
                               ![cur[x]].dport = id.dport, ![cur[x]].crc = id.crc]
    /\ Goto(x, "newFlush")
    /\ UNCHANGED <<packets, lastGiven, rxq, sockq, ports, hand, copy, cur, sk, args>>

\* csp_conn_flush_rx_queue, one packet at a time: for a new connection, and on close.
Flush(x) ==
    /\ At(x, "newFlush") \/ At(x, "closeFlush")
    /\ LET c == cur[x]
       IN \/ /\ rxq[c] # <<>>
             /\ Release({Head(rxq[c])})
             /\ rxq' = [rxq EXCEPT ![c] = Tail(@)]
             /\ UNCHANGED pc
          \/ /\ rxq[c] = <<>>
             /\ Goto(x, IF pc[x] = "newFlush" THEN "finish" ELSE "setClosed")
             /\ UNCHANGED <<pool, hdr, rxq>>
    /\ UNCHANGED <<driver, qfifo, halted, conn, lastGiven, sockq, ports,
                   hand, copy, cur, sk, args>>

\* What csp_route_work and csp_connect store once csp_conn_new has returned.
FinishRouteUnposted ==         \* a mutant: dest_socket is not stored
    /\ At(Router, "finish")
    /\ conn' = [conn EXCEPT ![cur[Router]].crcreq = (sk[Router] \in CrcReq)]
    /\ Goto(Router, "enqueue")
    /\ UNCHANGED <<packets, lastGiven, rxq, sockq, ports, hand, copy, cur, sk, args>>

FinishRoute ==
    /\ At(Router, "finish")
    /\ conn' = [conn EXCEPT ![cur[Router]].dest = sk[Router],
                            ![cur[Router]].crcreq = (sk[Router] \in CrcReq)]
    /\ Goto(Router, "enqueue")
    /\ UNCHANGED <<packets, lastGiven, rxq, sockq, ports, hand, copy, cur, sk, args>>

FinishConnect(a) ==
    /\ At(a, "finish")
    /\ conn' = [conn EXCEPT ![cur[a]].dport = ClientPort(cur[a]),
                            ![cur[a]].dest = NoSock,
                            ![cur[a]].crcreq = args[a].crc]
    /\ args' = [args EXCEPT ![a] = NoArgs]
    /\ Goto(a, "idle")
    /\ UNCHANGED <<packets, lastGiven, rxq, sockq, ports, hand, copy, cur, sk>>

------------------------------------------------------------------------------
(* The end of csp_route_work: the packet goes to its connection, and a new   *)
(* connection to the socket that is to accept it.                            *)
Deliver(c) ==
    /\ Len(rxq[c]) < RxqLen
    /\ rxq' = [rxq EXCEPT ![c] = Append(@, hand[Router])]
    /\ hand' = [hand EXCEPT ![Router] = NoBuf]
    /\ Goto(Router, "post")
    /\ UNCHANGED <<pool, hdr, qfifo, cur, sk>>

Overflow(c) ==
    /\ Len(rxq[c]) >= RxqLen
    /\ DropHand(Router)
    /\ cur' = [cur EXCEPT ![Router] = NoConn]
    /\ sk' = [sk EXCEPT ![Router] = NoSock]
    /\ UNCHANGED rxq

RouteEnqueueBlocks ==          \* a mutant: the enqueue waits for room
    /\ At(Router, "enqueue") /\ Deliver(cur[Router])
    /\ UNCHANGED <<driver, halted, conn, lastGiven, sockq, ports, copy, args>>

RouteEnqueue ==
    /\ At(Router, "enqueue")
    /\ Deliver(cur[Router]) \/ Overflow(cur[Router])
    /\ UNCHANGED <<driver, halted, conn, lastGiven, sockq, ports, copy, args>>

\* A full backlog makes the router close the connection it has just opened.
RoutePost ==
    /\ At(Router, "post")
    /\ LET s == conn[cur[Router]].dest
           full == Len(sockq[s]) >= RxqLen
       IN \/ s = NoSock /\ Goto(Router, "idle") /\ UNCHANGED sockq
          \/ /\ s # NoSock /\ ~full
             /\ sockq' = [sockq EXCEPT ![s] = Append(@, cur[Router])]
             /\ Goto(Router, "unpost")
          \/ /\ s # NoSock /\ full
             /\ Goto(Router, IF conn[cur[Router]].open THEN "closeFlush" ELSE "idle")
             /\ UNCHANGED sockq
    /\ cur' = [cur EXCEPT ![Router] = IF pc'[Router] = "idle" THEN NoConn ELSE @]
    /\ sk' = [sk EXCEPT ![Router] = NoSock]
    /\ UNCHANGED <<packets, conn, lastGiven, rxq, ports, hand, copy, args>>

RouteUnpostKeeps ==            \* a mutant: dest_socket is not cleared
    /\ At(Router, "unpost")
    /\ cur' = [cur EXCEPT ![Router] = NoConn]
    /\ Goto(Router, "idle")
    /\ UNCHANGED <<packets, tables, hand, copy, sk, args>>

RouteUnpost ==
    /\ At(Router, "unpost")
    /\ conn' = [conn EXCEPT ![cur[Router]].dest = NoSock]
    /\ cur' = [cur EXCEPT ![Router] = NoConn]
    /\ Goto(Router, "idle")
    /\ UNCHANGED <<packets, lastGiven, rxq, sockq, ports, hand, copy, sk, args>>

------------------------------------------------------------------------------
(* The API.  A call returns before the next begins; one that fails changes   *)
(* nothing and is not a step.                                                *)

\* csp_buffer_get
NewPacket(a) ==
    /\ At(a, "idle") /\ hand[a] = NoBuf /\ Cardinality(pool) >= 2
    /\ \E b \in pool : pool' = pool \ {b} /\ hand' = [hand EXCEPT ![a] = b]
    /\ UNCHANGED <<hdr, driver, qfifo, halted, tables, pc, copy, cur, sk, args>>

FreePacket(a) ==
    /\ At(a, "idle") /\ hand[a] # NoBuf
    /\ DropHand(a)
    /\ UNCHANGED <<driver, halted, tables, copy, cur, sk, args>>

\* csp_send: a packet for a connection that is not open is freed.
Send(a) ==
    /\ At(a, "idle") /\ hand[a] # NoBuf /\ cur[a] # NoConn
    /\ LET c == conn[cur[a]]
       IN \/ c.open /\ Emit(a, c.src, [src |-> Me, sport |-> c.dport, dport |-> c.sport,
                                       mark |-> IF c.crc THEN "crc" ELSE "plain"])
          \/ ~c.open /\ DropHand(a) /\ UNCHANGED copy
    /\ UNCHANGED <<driver, halted, tables, cur, sk, args>>

\* csp_sendto_reply to a received packet, csp_sendto with any.
SendTo(a) ==
    /\ At(a, "idle") /\ hand[a] # NoBuf
    /\ \/ hdr[hand[a]] # NoHdr /\ Reply(a)
       \/ \E h \in Datagrams : Emit(a, Me, h)
       \/ Transmit(a)
    /\ UNCHANGED <<driver, halted, tables, cur, sk, args>>

\* csp_read
Read(a) ==
    /\ At(a, "idle") /\ hand[a] = NoBuf /\ cur[a] # NoConn
    /\ conn[cur[a]].open /\ rxq[cur[a]] # <<>>
    /\ hand' = [hand EXCEPT ![a] = Head(rxq[cur[a]])]
    /\ rxq' = [rxq EXCEPT ![cur[a]] = Tail(@)]
    /\ UNCHANGED <<packets, conn, lastGiven, sockq, ports, pc, copy, cur, sk, args>>

CloseUnflushed(a) ==           \* a mutant of Close: no flush
    /\ At(a, "idle") /\ cur[a] # NoConn
    /\ Goto(a, "setClosed")
    /\ UNCHANGED <<packets, tables, hand, copy, cur, sk, args>>

\* csp_close, whose caller forgets the pointer.
Close(a) ==
    /\ At(a, "idle") /\ cur[a] # NoConn
    /\ IF conn[cur[a]].open THEN Goto(a, "closeFlush") /\ UNCHANGED cur
       ELSE cur' = [cur EXCEPT ![a] = NoConn] /\ UNCHANGED pc
    /\ UNCHANGED <<packets, tables, hand, copy, sk, args>>

SetClosed(x) ==
    /\ At(x, "setClosed")
    /\ conn' = [conn EXCEPT ![cur[x]].open = FALSE]
    /\ cur' = [cur EXCEPT ![x] = NoConn]
    /\ Goto(x, "idle")
    /\ UNCHANGED <<packets, lastGiven, rxq, sockq, ports, hand, copy, sk, args>>

\* csp_accept
Accept(a, s) ==
    /\ At(a, "idle") /\ cur[a] = NoConn /\ s \notin ConnLess /\ sockq[s] # <<>>
    /\ cur' = [cur EXCEPT ![a] = Head(sockq[s])]
    /\ sockq' = [sockq EXCEPT ![s] = Tail(@)]
    /\ UNCHANGED <<packets, conn, lastGiven, rxq, ports, pc, hand, copy, sk, args>>

\* csp_recvfrom
Recvfrom(a, s) ==
    /\ At(a, "idle") /\ hand[a] = NoBuf /\ s \in ConnLess /\ sockq[s] # <<>>
    /\ hand' = [hand EXCEPT ![a] = Head(sockq[s])]
    /\ sockq' = [sockq EXCEPT ![s] = Tail(@)]
    /\ UNCHANGED <<packets, conn, lastGiven, rxq, ports, pc, copy, cur, sk, args>>

\* csp_bind and csp_bind_callback: a port in use is refused.
SetPort(a, p, entry) ==
    /\ At(a, "idle") /\ ports[p] = Closed
    /\ ports' = [ports EXCEPT ![p] = entry]
    /\ UNCHANGED <<packets, conn, lastGiven, rxq, sockq, pc, hand, copy, cur, sk, args>>

\* csp_socket_close unbinds the first port of the socket only,
SocketClose(a, s) ==
    /\ ClosesSockets /\ At(a, "idle")
    /\ ports' = [p \in 0 .. AnyPort |->
                    IF ports[p] = s /\ \A q \in 0 .. p - 1 : ports[q] # s
                    THEN Closed ELSE ports[p]]
    /\ sk' = [sk EXCEPT ![a] = s]
    /\ Goto(a, "drain")
    /\ UNCHANGED <<packets, conn, lastGiven, rxq, sockq, hand, copy, cur, args>>

\* then frees what its queue holds as packets; csp_buffer_free takes a connection
\* for a corrupt buffer and leaves it alone.
Drain(a) ==
    /\ At(a, "drain")
    /\ LET s == sk[a]
       IN \/ /\ sockq[s] # <<>>
             /\ sockq' = [sockq EXCEPT ![s] = Tail(@)]
             /\ IF s \in ConnLess THEN Release({Head(sockq[s])}) ELSE UNCHANGED <<pool, hdr>>
             /\ UNCHANGED <<pc, sk>>
          \/ /\ sockq[s] = <<>>
             /\ Goto(a, "idle")
             /\ sk' = [sk EXCEPT ![a] = NoSock]
             /\ UNCHANGED <<pool, hdr, sockq>>
    /\ UNCHANGED <<driver, qfifo, halted, conn, lastGiven, rxq, ports, hand, copy, cur, args>>

------------------------------------------------------------------------------
Interrupt == RxStart \/ \E h \in Wire : RxDone(h)

\* The rest of a call that has begun.
RouteStep ==
    \/ RouteClassify \/ CallbackDone \/ RouteDgram \/ RouteLookup \/ RouteAlloc
    \/ FinishRoute \/ RouteEnqueue \/ RoutePost \/ RouteUnpost

AppStep(a) == FinishConnect(a) \/ Drain(a)

Step(x) == TxDone(x) \/ SetType(x) \/ CopyIds(x) \/ Flush(x) \/ SetClosed(x)

Call(a) ==
    \/ \E k \in Connects : Connect(a, k)
    \/ NewPacket(a) \/ FreePacket(a) \/ Send(a) \/ SendTo(a) \/ Read(a) \/ Close(a)
    \/ \E s \in Sockets : Accept(a, s) \/ Recvfrom(a, s) \/ SocketClose(a, s)
    \/ \E bind \in Bindings : SetPort(a, bind[2], bind[1])
    \/ \E p \in Callbacks : SetPort(a, p, Callback)

Next ==
    \/ Interrupt
    \/ RouteRead \/ RouteStep
    \/ \E a \in Apps : Call(a) \/ AppStep(a)
    \/ \E x \in Ctx : Step(x)

Spec == Init /\ [][Next]_vars

\* A call that has begun goes on, and the program calls csp_route_work again and
\* again (csp.h:316-319): whenever the main loop is between calls it may.
FairSpec ==
    /\ Spec
    /\ SF_vars(RouteRead) /\ WF_vars(RouteStep)
    /\ \A a \in Apps : WF_vars(AppStep(a))
    /\ \A x \in Ctx : WF_vars(Step(x))

------------------------------------------------------------------------------
TypeOK ==
    /\ pool \subseteq Buffers /\ hdr \in [Buffers -> Header \cup {NoHdr}]
    /\ driver \in Buffers \cup {NoBuf}
    /\ qfifo \in Seq(Buffers) /\ Len(qfifo) <= QfifoLen
    /\ conn \in [Conns -> Conn] /\ lastGiven \in Conns
    /\ rxq \in [Conns -> Seq(Buffers)] /\ \A c \in Conns : Len(rxq[c]) <= RxqLen
    /\ sockq \in [Sockets -> Seq(Buffers \cup Conns)]
    /\ \A s \in Sockets : Len(sockq[s]) <= RxqLen
    /\ ports \in [0 .. AnyPort -> Sockets \cup {Closed, Callback}]
    /\ pc \in [Ctx -> PcValues] /\ hand \in [Ctx -> Buffers \cup {NoBuf}]
    /\ copy \in [Ctx -> Buffers \cup {NoBuf}] /\ cur \in [Ctx -> Conns \cup {NoConn}]
    /\ sk \in [Ctx -> Sockets \cup {NoSock}] /\ args \in [Apps -> Args \cup {NoArgs}]
    /\ halted \in BOOLEAN

Occurs(b, q) == {i \in DOMAIN q : q[i] = b}
InPool(b) == {<<"pool">> : p \in pool \cap {b}}
InDriver(b) == {<<"driver">> : d \in {driver} \cap {b}}
InQfifo(b) == {<<"qfifo", i>> : i \in Occurs(b, qfifo)}
InRxq(b) == UNION {{<<"rxq", c, i>> : i \in Occurs(b, rxq[c])} : c \in Conns}
InSockq(b) == UNION {{<<"sockq", s, i>> : i \in Occurs(b, sockq[s])} : s \in ConnLess}
InHand(b) == {<<"hand", x>> : x \in {y \in Ctx : hand[y] = b}}
InCopy(b) == {<<"copy", x>> : x \in {y \in Ctx : copy[y] = b}}
Places(b) == InPool(b) \cup InDriver(b) \cup InQfifo(b) \cup InRxq(b)
             \cup InSockq(b) \cup InHand(b) \cup InCopy(b)

(* Every packet buffer is in exactly one place: none is lost, none is freed  *)
(* or delivered twice, whichever way its journey ends (every return of       *)
(* csp_route_work, csp_send, csp_conn_close and csp_qfifo_write).            *)
OnePlace == \A b \in Buffers : \E p \in Places(b) : Places(b) = {p}

Setting == {"setType", "copyIds", "newFlush", "finish"}
Established(c) == conn[c].open /\ \A x \in Ctx : ~(cur[x] = c /\ pc[x] \in Setting)

(* Close an open connection. Any packets in the RX queue will be freed       *)
(* (csp.h:219): a closed connection keeps none for whoever is given it next. *)
ClosedEmpty == \A c \in Conns : ~conn[c].open => rxq[c] = <<>>

(* A connection that is open is somebody's to close: a context works with    *)
(* it, or it waits in the queue of a socket.  Any other is lost for ever,    *)
(* and CSP_CONN_MAX is 1 in the shipped configuration.                       *)
Waiting(c) == \E s \in Sockets \ ConnLess : Occurs(c, sockq[s]) # {}
NoConnLost == \A c \in Conns : conn[c].open => Waiting(c) \/ \E x \in Ctx : cur[x] = c

(* A connection is offered to one accept only, while it is open and still    *)
(* has the packet that opened it: never again after dest_socket is cleared   *)
(* (csp_route.c:288), never one that an application holds already.           *)
PostedReady ==
    \A s \in Sockets \ ConnLess : \A i \in DOMAIN sockq[s] :
        LET c == sockq[s][i]
        IN /\ conn[c].open /\ ~conn[c].client /\ rxq[c] # <<>>
           /\ \A a \in Apps : cur[a] # c
           /\ \A t \in Sockets \ ConnLess :
                Occurs(c, sockq[t]) = IF t = s THEN {i} ELSE {}

(* The packets a connection holds are its own: for its port, of its peer if  *)
(* it is an incoming one, and checked against the options in force for it    *)
(* (csp_route_security_check before every csp_conn_enqueue_packet); those of *)
(* a connection-less socket against the options of the socket.               *)
RightConn ==
    /\ \A c \in Conns : Established(c) =>
         \A i \in DOMAIN rxq[c] :
             LET h == hdr[rxq[c][i]] IN Matches(c, h) /\ Passes(conn[c].crcreq, h.mark)
    /\ \A s \in ConnLess : \A i \in DOMAIN sockq[s] :
         Passes(s \in CrcReq, hdr[sockq[s][i]].mark)

(* No packet matches two connections: the first that csp_conn_find_existing  *)
(* finds is the only one, and a peer's packets are not split over two.       *)
Overlap(c, d) ==
    /\ conn[c].dport = conn[d].dport
    /\ \/ conn[c].client \/ conn[d].client
       \/ conn[c].sport = conn[d].sport /\ conn[c].src = conn[d].src
NoTwins == \A c, d \in Conns : c # d /\ Established(c) /\ Established(d) => ~Overlap(c, d)

(* What is written to the router queue is routed: it leaves the queue and    *)
(* the router's hands, as long as the node is not halted.                    *)
Routed ==
    \A b \in Buffers :
        b \in Range(qfifo) ~> (halted \/ (b \notin Range(qfifo) /\ hand[Router] # b))
================================================================================
