--------------------------- MODULE CspNodeConnProofs ---------------------------
(***************************************************************************)
(* The connections of a node whose contexts are the calls of one main loop, *)
(* for every number of packets, connections, sockets and applications.      *)
(*                                                                          *)
(* Three invariants, each on top of those before it and of IInv:            *)
(*   Calm     one call at a time; what a call holds is open, and a queue is *)
(*            empty when its connection is set up or closed;                *)
(*   Backlog  who holds a connection, and which wait to be accepted;        *)
(*   Match    which packets a connection may hold, and which connections    *)
(*            may be open at once.                                          *)
(* Each has a lemma for the steps that leave what it is about alone, and    *)
(* one for each of the other actions.                                       *)
(***************************************************************************)
EXTENDS CspNodeProofs, WellFoundedInduction

Backlogs == Sockets \ ConnLess

\* One call at a time, and the router has a connection only during its call.
Solo == \A x, y \in Ctx : pc[x] # "idle" /\ pc[y] # "idle" => x = y
RouterLets == pc[Router] \notin HasConn => cur[Router] = NoConn

\* A connection that a context has is open; it is emptied before it is used or given up.
HeldOpen == \A x \in Ctx : cur[x] # NoConn => conn[cur[x]].open
Emptied == \A x \in Ctx : pc[x] \in {"finish", "setClosed"} => rxq[cur[x]] = <<>>

Calm == Solo /\ RouterLets /\ HeldOpen /\ Emptied /\ ClosedEmpty

\* A connection has one holder; it waits in one backlog, once, and then it is an open
\* incoming one with a packet, and nobody's.
Held(c) == \E a \in Apps : cur[a] = c
Posted(c) == \E s \in Backlogs : c \in Range(sockq[s])
OneHolder == \A a, b \in Apps : cur[a] = cur[b] => a = b \/ cur[a] = NoConn
PostedOnce ==
    /\ \A s \in Backlogs : IsInjective(sockq[s])
    /\ \A s, t \in Backlogs, c \in Conns : c \in Range(sockq[s]) /\ c \in Range(sockq[t]) => s = t
PostedGood ==
    \A c \in Conns : Posted(c) =>
        conn[c].open /\ ~conn[c].client /\ rxq[c] # <<>> /\ ~Held(c)

\* The connection that the router sets up, posts, or closes as it cannot post it, is its
\* own; dest_socket is set in such a connection only, or in one that csp_connect sets up.
Own == \/ pc[Router] \in Setting \cup {"closeFlush", "setClosed", "unpost"}
       \/ pc[Router] \in {"enqueue", "post"} /\ conn[cur[Router]].dest # NoSock
OwnNew == Own => ~Held(cur[Router]) /\ (Posted(cur[Router]) => pc[Router] = "unpost")
OwnFilled ==
    /\ pc[Router] = "enqueue" /\ Own => rxq[cur[Router]] = <<>> /\ ~conn[cur[Router]].client
    /\ pc[Router] = "post" => rxq[cur[Router]] # <<>>
    /\ pc[Router] = "post" /\ Own => ~conn[cur[Router]].client
Dests ==
    \A c \in Conns : conn[c].open /\ conn[c].dest # NoSock =>
        \/ cur[Router] = c /\ Own
        \/ \E a \in Apps : cur[a] = c /\ pc[a] \in Setting
Kind == \A x \in Ctx : pc[x] \in Setting \ {"setType"} => conn[cur[x]].client = (x # Router)

Backlog == OneHolder /\ PostedOnce /\ PostedGood /\ OwnNew /\ OwnFilled /\ Dests /\ Kind

------------------------------------------------------------------------------
(* What each step does to the program counters and to what contexts hold.    *)

LEMMA Contexts == Router \in Ctx /\ Apps \subseteq Ctx /\ Router \notin Apps /\ NoConn \notin Conns
BY NodeAssumption DEF Ctx, NodeAssumption

LEMMA RunsAlone ==
  ASSUME ~Preemptive, NEW x \in Ctx, Runs(x)
  PROVE  \A y \in Ctx \ {x} : pc[y] = "idle"
BY DEF Runs

LEMMA GotoMoves ==
  ASSUME ~Preemptive, IInv, NEW x \in Ctx, Runs(x), NEW at, Goto(x, at)
  PROVE  /\ pc'[x] = at
         /\ \A y \in Ctx \ {x} : pc[y] = "idle" /\ pc'[y] = "idle"
BY RunsAlone DEF Goto, IInv, Locals, LocalType

\* Only one context moves, so there is one call at a time.
LEMMA SoloMove ==
  ASSUME NEW x \in Ctx, \A y \in Ctx \ {x} : pc'[y] = "idle"
  PROVE  Solo'
BY DEF Solo

\* Steps that leave connections, their queues and who holds them alone.
LEMMA CalmFrame ==
  ASSUME Calm, Solo', UNCHANGED <<cur, rxq>>,
         \A c \in Conns : conn'[c].open = conn[c].open,
         pc'[Router] \notin HasConn => pc[Router] \notin HasConn,
         \A x \in Ctx : pc'[x] \in {"finish", "setClosed"} => pc'[x] = pc[x] \/ rxq[cur[x]] = <<>>,
         IInv
  PROVE  Calm'
<1>1. RouterLets'
  BY DEF Calm, RouterLets
<1>2. HeldOpen'
  BY DEF Calm, HeldOpen, IInv, Locals, LocalType
<1>3. Emptied'
  BY DEF Calm, Emptied
<1>4. ClosedEmpty'
  BY DEF Calm, ClosedEmpty
<1> QED BY <1>1, <1>2, <1>3, <1>4 DEF Calm

\* The steps that are about no connection: what x does elsewhere.
Aside(x) ==
    /\ Runs(x) /\ pc[x] \notin HasConn
    /\ UNCHANGED <<conn, cur, rxq>> /\ \A s \in Backlogs : sockq'[s] = sockq[s]
    /\ \E at \in PcValues \ HasConn : pc' = pc \/ Goto(x, at)

AsideRouter ==
    \/ RouteRead \/ RouteClassify \/ CallbackDone \/ RouteDgram \/ TxDone(Router)
    \/ RouteLookup /\ pc'[Router] # "enqueue"
    \/ RouteAlloc /\ pc'[Router] # "setType"

AsideApp(a) ==
    \/ NewPacket(a) \/ FreePacket(a) \/ Send(a) \/ SendTo(a) \/ TxDone(a)
    \/ \E s \in Sockets : Recvfrom(a, s) \/ SocketClose(a, s)
    \/ \E p, entry : SetPort(a, p, entry)
    \/ Drain(a) /\ \A s \in Backlogs : sockq'[s] = sockq[s]

LEMMA RouterAside ==
  ASSUME IInv, AsideRouter
  PROVE  Aside(Router)
<1>1. Router \in Ctx /\ pc \in [Ctx -> PcValues]
  BY Contexts DEF IInv, Locals, LocalType
<1>2. Runs(Router) /\ pc[Router] \notin HasConn
  BY DEF AsideRouter, RouteRead, RouteClassify, CallbackDone, RouteDgram, RouteLookup,
     RouteAlloc, TxDone, At, HasConn, Setting
<1>3. UNCHANGED <<conn, cur, rxq>>
  BY <1>1 DEF AsideRouter, RouteRead, RouteClassify, CallbackDone, RouteDgram, RouteLookup,
     RouteAlloc, TxDone, Take, Goto, tables
<1>4. \A s \in Backlogs : sockq'[s] = sockq[s]
  <2>1. CASE RouteDgram
    BY <2>1 DEF RouteDgram, At, Backlogs, IInv, Locals, RouterOK, Packets, SockqType
  <2>2. CASE ~RouteDgram
    BY <2>2, <1>1 DEF AsideRouter, RouteRead, RouteClassify, CallbackDone, RouteLookup,
       RouteAlloc, TxDone, Take, Goto, tables
  <2> QED BY <2>1, <2>2
<1>5. \E at \in PcValues \ HasConn : Goto(Router, at)
  <2>1. {"idle", "tx", "classify", "callback", "dgram", "lookup", "alloc"}
           \subseteq PcValues \ HasConn
    BY DEF PcValues, HasConn, Setting
  <2>2. CASE RouteLookup
    BY <1>1, <2>1, <2>2 DEF RouteLookup, AsideRouter, Goto, DropHand, RouteRead,
       RouteClassify, CallbackDone, RouteDgram, RouteAlloc, TxDone, At
  <2>3. CASE RouteAlloc
    BY <1>1, <2>1, <2>3 DEF RouteAlloc, AsideRouter, Take, Goto, DropHand, RouteRead,
       RouteClassify, CallbackDone, RouteDgram, RouteLookup, TxDone, At
  <2>4. CASE CallbackDone
    <3>1. Goto(Router, "idle") \/ Goto(Router, "tx")
      BY <1>1, <2>4, EmitFrame DEF CallbackDone, Reply
    <3> QED BY <2>1, <3>1
  <2>5. CASE RouteRead \/ RouteClassify \/ RouteDgram \/ TxDone(Router)
    BY <2>1, <2>5 DEF RouteRead, RouteClassify, RouteDgram, TxDone, Transmit, DropHand
  <2> QED BY <2>2, <2>3, <2>4, <2>5 DEF AsideRouter
<1> QED BY <1>2, <1>3, <1>4, <1>5 DEF Aside

LEMMA AppAside ==
  ASSUME IInv, NEW a \in Apps, AsideApp(a)
  PROVE  Aside(a)
<1>1. Runs(a) /\ pc[a] \notin HasConn
  BY DEF AsideApp, NewPacket, FreePacket, Send, SendTo, TxDone, Recvfrom, SocketClose, SetPort,
     Drain, At, HasConn, Setting
<1>2. UNCHANGED <<conn, cur, rxq>>
  BY DEF AsideApp, NewPacket, FreePacket, Send, SendTo, TxDone, Recvfrom, SocketClose, SetPort,
     Drain, tables
<1>3. \A s \in Backlogs : sockq'[s] = sockq[s]
  BY DEF AsideApp, NewPacket, FreePacket, Send, SendTo, TxDone, Recvfrom, SocketClose, SetPort,
     tables, Backlogs, IInv, Packets, SockqType
<1>4. \E at \in PcValues \ HasConn : pc' = pc \/ Goto(a, at)
  <2>1. {"idle", "tx", "drain"} \subseteq PcValues \ HasConn
    BY DEF PcValues, HasConn, Setting
  <2>2. CASE Send(a) \/ SendTo(a)
    <3>1. Goto(a, "idle") \/ Goto(a, "tx")
      BY <2>2, EmitFrame, Contexts DEF Send, SendTo, Reply
    <3> QED BY <2>1, <3>1
  <2>3. CASE ~(Send(a) \/ SendTo(a))
    BY <2>1, <2>3 DEF AsideApp, NewPacket, FreePacket, TxDone, Recvfrom, SocketClose, SetPort,
       Drain, DropHand
  <2> QED BY <2>2, <2>3
<1> QED BY <1>1, <1>2, <1>3, <1>4 DEF Aside

LEMMA AsideCalm ==
  ASSUME ~Preemptive, IInv, Calm, NEW x \in Ctx, Aside(x)
  PROVE  Calm'
<1>1. PICK at \in PcValues \ HasConn : pc' = pc \/ Goto(x, at)
  BY DEF Aside
<1>2. /\ \A y \in Ctx \ {x} : pc[y] = "idle" /\ pc'[y] = "idle"
      /\ pc'[x] \notin HasConn /\ pc[x] \notin HasConn
      /\ UNCHANGED <<conn, cur, rxq>>
  BY <1>1, RunsAlone DEF Aside, Goto, IInv, Locals, LocalType
<1>3. \A y \in Ctx : pc'[y] \notin HasConn
  BY <1>2 DEF HasConn, Setting
<1>4. Solo' /\ pc[Router] \notin HasConn /\ Router \in Ctx
  BY <1>2, SoloMove, Contexts DEF HasConn, Setting
<1> QED BY <1>2, <1>3, <1>4, CalmFrame DEF HasConn, Setting

------------------------------------------------------------------------------
(* Calm, for the steps that are about a connection.                          *)
LEMMA RouteLookupCalm ==
  ASSUME ~Preemptive, IInv, Calm, RouteLookup
  PROVE  Calm'
<1>1. CASE pc'[Router] # "enqueue"
  BY <1>1, RouterAside, AsideCalm, Contexts DEF AsideRouter
<1>2. CASE pc'[Router] = "enqueue"
  <2>1. /\ pc[Router] = "lookup" /\ Router \in Ctx /\ UNCHANGED <<conn, rxq>>
        /\ pc \in [Ctx -> PcValues] /\ cur \in [Ctx -> Conns \cup {NoConn}]
    BY Contexts DEF RouteLookup, At, tables, IInv, Locals, LocalType
  <2>2. PICK c \in Existing(Arrived) : cur' = [cur EXCEPT ![Router] = c]
    BY <1>2, <2>1 DEF RouteLookup, DropHand, Goto
  <2>3. /\ c \in Conns /\ conn[c].open
        /\ cur'[Router] = c /\ \A y \in Ctx \ {Router} : cur'[y] = cur[y]
    BY <2>1, <2>2 DEF Existing, Matches
  <2>4. \A y \in Ctx \ {Router} : pc'[y] = "idle"
    BY <1>2, <2>1, GotoMoves DEF RouteLookup, At, DropHand
  <2> QED BY <1>2, <2>1, <2>3, <2>4, SoloMove DEF Calm, RouterLets, HeldOpen, Emptied,
             ClosedEmpty, HasConn
<1> QED BY <1>1, <1>2

LEMMA TakeCalm ==
  ASSUME ~Preemptive, IInv, Calm, NEW x \in Ctx, Runs(x), NEW c \in Conns, Take(x, c),
         UNCHANGED rxq
  PROVE  Calm'
<1>1. /\ pc'[x] = "setType" /\ \A y \in Ctx \ {x} : pc[y] = "idle" /\ pc'[y] = "idle"
  BY GotoMoves DEF Take
<1>2. /\ cur'[x] = c /\ \A y \in Ctx \ {x} : cur'[y] = cur[y]
      /\ conn'[c].open /\ \A d \in Conns \ {c} : conn'[d] = conn[d]
  BY DEF Take, IInv, Locals, LocalType, Tables, Conn
<1>3. RouterLets'
  BY <1>1, <1>2 DEF Calm, RouterLets, HasConn, Setting, Ctx
<1>4. HeldOpen'
  BY <1>2 DEF Calm, HeldOpen, IInv, Locals, LocalType
<1>5. Emptied' /\ ClosedEmpty'
  BY <1>1, <1>2 DEF Calm, Emptied, ClosedEmpty
<1> QED BY <1>1, <1>3, <1>4, <1>5, SoloMove DEF Calm

LEMMA RouteAllocCalm ==
  ASSUME ~Preemptive, IInv, Calm, RouteAlloc
  PROVE  Calm'
<1>1. CASE pc'[Router] # "setType"
  BY <1>1, RouterAside, AsideCalm, Contexts DEF AsideRouter
<1>2. CASE pc'[Router] = "setType"
  <2>1. PICK c \in Allocated : Take(Router, c)
    BY <1>2, Contexts DEF RouteAlloc, DropHand, Goto, IInv, Locals, LocalType
  <2> QED BY <2>1, AllocatedConns, TakeCalm, Contexts DEF RouteAlloc, At, IInv
<1> QED BY <1>1, <1>2

LEMMA ConnectCalm ==
  ASSUME ~Preemptive, IInv, Calm, NEW a \in Apps, NEW k \in Connects, Connect(a, k)
  PROVE  Calm'
<1>1. PICK c \in Allocated : Take(a, c)
  BY DEF Connect
<1> QED BY <1>1, AllocatedConns, TakeCalm, Contexts DEF Connect, At, IInv

\* A step from one stage of setting up a connection, or of closing it, to the next.
LEMMA StageCalm ==
  ASSUME ~Preemptive, IInv, Calm, NEW x \in Ctx, Runs(x), NEW at, Goto(x, at),
         x = Router => at \in HasConn \/ pc[x] \notin HasConn,
         at \in {"finish", "setClosed"} => rxq[cur[x]] = <<>>,
         UNCHANGED <<cur, rxq>>, \A c \in Conns : conn'[c].open = conn[c].open
  PROVE  Calm'
<1>1. pc'[x] = at /\ \A y \in Ctx \ {x} : pc[y] = "idle" /\ pc'[y] = "idle"
  BY GotoMoves
<1> QED BY <1>1, SoloMove, CalmFrame, Contexts

LEMMA SetTypeCalm ==
  ASSUME ~Preemptive, IInv, Calm, NEW x \in Ctx, SetType(x)
  PROVE  Calm'
<1>1. \A c \in Conns : conn'[c].open = conn[c].open
  BY DEF SetType, IInv, Tables, Conn
<1> QED BY <1>1, StageCalm DEF SetType, At, HasConn, Setting

LEMMA CopyIdsCalm ==
  ASSUME ~Preemptive, IInv, Calm, NEW x \in Ctx, CopyIds(x)
  PROVE  Calm'
<1>1. \A c \in Conns : conn'[c].open = conn[c].open
  BY DEF CopyIds, IInv, Tables, Conn
<1> QED BY <1>1, StageCalm DEF CopyIds, At, HasConn, Setting

LEMMA FlushCalm ==
  ASSUME ~Preemptive, IInv, Calm, NEW x \in Ctx, Flush(x)
  PROVE  Calm'
<1>1. /\ pc[x] \in {"newFlush", "closeFlush"} /\ Runs(x) /\ UNCHANGED <<conn, cur>>
      /\ cur[x] \in Conns
  BY DEF Flush, At, IInv, Locals, CtxOK, HasConn, Setting
<1>2. CASE UNCHANGED pc /\ rxq' = [rxq EXCEPT ![cur[x]] = Tail(@)] /\ rxq[cur[x]] # <<>>
  <2>1. \A c \in Conns : rxq[c] = <<>> => rxq'[c] = <<>>
    BY <1>2 DEF IInv, Packets, RxqType
  <2>2. \A y \in Ctx : pc'[y] \in {"finish", "setClosed"} => cur[y] \in Conns
    BY <1>2 DEF IInv, Locals, CtxOK, HasConn, Setting
  <2> QED BY <1>1, <1>2, <2>1, <2>2 DEF Calm, Solo, RouterLets, HeldOpen, Emptied, ClosedEmpty
<1>3. CASE /\ rxq[cur[x]] = <<>> /\ UNCHANGED rxq
           /\ Goto(x, IF pc[x] = "newFlush" THEN "finish" ELSE "setClosed")
  BY <1>1, <1>3, StageCalm DEF HasConn, Setting
<1> QED BY <1>2, <1>3 DEF Flush

LEMMA FinishRouteCalm ==
  ASSUME ~Preemptive, IInv, Calm, FinishRoute
  PROVE  Calm'
<1>1. \A c \in Conns : conn'[c].open = conn[c].open
  BY DEF FinishRoute, IInv, Tables, Conn
<1> QED BY <1>1, StageCalm, Contexts DEF FinishRoute, At, HasConn

LEMMA FinishConnectCalm ==
  ASSUME ~Preemptive, IInv, Calm, NEW a \in Apps, FinishConnect(a)
  PROVE  Calm'
<1>1. \A c \in Conns : conn'[c].open = conn[c].open
  BY DEF FinishConnect, IInv, Tables, Conn
<1> QED BY <1>1, StageCalm, Contexts DEF FinishConnect, At

LEMMA RouteEnqueueCalm ==
  ASSUME ~Preemptive, IInv, Calm, RouteEnqueue
  PROVE  Calm'
<1>1. /\ pc[Router] = "enqueue" /\ Runs(Router) /\ Router \in Ctx /\ cur[Router] \in Conns
      /\ conn[cur[Router]].open /\ UNCHANGED conn
      /\ cur \in [Ctx -> Conns \cup {NoConn}] /\ NoConn \notin Conns
      /\ \A y \in Ctx \ {Router} : pc[y] = "idle"
  BY Contexts, RunsAlone DEF RouteEnqueue, At, IInv, Locals, LocalType, CtxOK, HasConn, Calm,
     HeldOpen
<1>2. CASE Deliver(cur[Router])
  <2>1. pc'[Router] = "post" /\ \A y \in Ctx \ {Router} : pc'[y] = "idle"
    BY <1>1, <1>2, GotoMoves DEF Deliver
  <2>2. UNCHANGED cur /\ \A c \in Conns \ {cur[Router]} : rxq'[c] = rxq[c]
    BY <1>2 DEF Deliver, IInv, Packets, RxqType
  <2>3. RouterLets' /\ HeldOpen' /\ Emptied' /\ ClosedEmpty'
    BY <1>1, <2>1, <2>2 DEF Calm, RouterLets, HeldOpen, Emptied, ClosedEmpty, HasConn
  <2> QED BY <1>1, <2>1, <2>3, SoloMove DEF Calm
<1>3. CASE Overflow(cur[Router])
  <2>1. pc'[Router] = "idle" /\ \A y \in Ctx \ {Router} : pc'[y] = "idle"
    BY <1>1, <1>3, GotoMoves DEF Overflow, DropHand
  <2>2. /\ cur'[Router] = NoConn /\ \A y \in Ctx \ {Router} : cur'[y] = cur[y]
        /\ UNCHANGED rxq
    BY <1>1, <1>3 DEF Overflow
  <2>3. RouterLets' /\ HeldOpen' /\ Emptied' /\ ClosedEmpty'
    BY <1>1, <2>1, <2>2 DEF Calm, RouterLets, HeldOpen, Emptied, ClosedEmpty
  <2> QED BY <1>1, <2>1, <2>3, SoloMove DEF Calm
<1> QED BY <1>2, <1>3 DEF RouteEnqueue

LEMMA RoutePostCalm ==
  ASSUME ~Preemptive, IInv, Calm, RoutePost
  PROVE  Calm'
<1>1. /\ pc[Router] = "post" /\ Runs(Router) /\ Router \in Ctx /\ UNCHANGED <<conn, rxq>>
      /\ cur \in [Ctx -> Conns \cup {NoConn}] /\ NoConn \notin Conns
      /\ cur' = [cur EXCEPT ![Router] = IF pc'[Router] = "idle" THEN NoConn ELSE @]
  BY Contexts DEF RoutePost, At, IInv, Locals, LocalType
<1>2. PICK at \in {"idle", "unpost", "closeFlush"} : Goto(Router, at)
  BY DEF RoutePost
<1>3. pc'[Router] = at /\ \A y \in Ctx \ {Router} : pc[y] = "idle" /\ pc'[y] = "idle"
  BY <1>1, <1>2, GotoMoves
<1>4. RouterLets' /\ HeldOpen' /\ Emptied' /\ ClosedEmpty'
  BY <1>1, <1>3 DEF Calm, RouterLets, HeldOpen, Emptied, ClosedEmpty, HasConn
<1> QED BY <1>1, <1>3, <1>4, SoloMove DEF Calm

LEMMA RouteUnpostCalm ==
  ASSUME ~Preemptive, IInv, Calm, RouteUnpost
  PROVE  Calm'
<1>1. /\ Runs(Router) /\ Router \in Ctx /\ cur[Router] \in Conns /\ UNCHANGED rxq
      /\ cur' = [cur EXCEPT ![Router] = NoConn] /\ cur \in [Ctx -> Conns \cup {NoConn}]
      /\ \A c \in Conns : conn'[c].open = conn[c].open
  BY Contexts DEF RouteUnpost, At, IInv, Locals, LocalType, CtxOK, HasConn, Tables, Conn
<1>2. pc'[Router] = "idle" /\ \A y \in Ctx \ {Router} : pc[y] = "idle" /\ pc'[y] = "idle"
  BY <1>1, GotoMoves DEF RouteUnpost
<1>3. RouterLets' /\ HeldOpen' /\ Emptied' /\ ClosedEmpty'
  BY <1>1, <1>2 DEF Calm, RouterLets, HeldOpen, Emptied, ClosedEmpty
<1> QED BY <1>1, <1>2, <1>3, SoloMove DEF Calm

LEMMA ReadCalm ==
  ASSUME ~Preemptive, IInv, Calm, NEW a \in Apps, Read(a)
  PROVE  Calm'
<1>1. /\ pc[a] = "idle" /\ Runs(a) /\ cur[a] \in Conns /\ UNCHANGED <<pc, cur, conn>>
      /\ rxq' = [rxq EXCEPT ![cur[a]] = Tail(@)] /\ rxq[cur[a]] # <<>>
  BY Contexts DEF Read, At, IInv, Locals, LocalType
<1>2. \A c \in Conns : rxq[c] = <<>> => rxq'[c] = <<>>
  BY <1>1 DEF IInv, Packets, RxqType
<1>3. \A y \in Ctx : pc'[y] \in {"finish", "setClosed"} => cur[y] \in Conns
  BY <1>1 DEF IInv, Locals, CtxOK, HasConn, Setting
<1> QED BY <1>1, <1>2, <1>3 DEF Calm, Solo, RouterLets, HeldOpen, Emptied, ClosedEmpty

LEMMA CloseCalm ==
  ASSUME ~Preemptive, IInv, Calm, NEW a \in Apps, Close(a)
  PROVE  Calm'
<1>1. a \in Ctx /\ a # Router /\ Runs(a) /\ UNCHANGED <<conn, rxq>> /\ pc[a] = "idle"
  BY Contexts DEF Close, At, tables
<1>2. CASE Goto(a, "closeFlush") /\ UNCHANGED cur
  BY <1>1, <1>2, StageCalm
<1>3. CASE cur' = [cur EXCEPT ![a] = NoConn] /\ UNCHANGED pc
  <2>1. cur'[a] = NoConn /\ \A y \in Ctx \ {a} : cur'[y] = cur[y]
    BY <1>1, <1>3 DEF IInv, Locals, LocalType
  <2> QED BY <1>1, <1>3, <2>1, Contexts DEF Calm, Solo, RouterLets, HeldOpen, Emptied,
             ClosedEmpty
<1> QED BY <1>2, <1>3 DEF Close

LEMMA AcceptCalm ==
  ASSUME ~Preemptive, IInv, Calm, Backlog, NEW a \in Apps, NEW s \in Sockets, Accept(a, s)
  PROVE  Calm'
<1>0. conn[Head(sockq[s])].open
  <2>1. s \in Backlogs /\ sockq[s] # <<>> /\ sockq[s] \in Seq(Conns)
    BY DEF Accept, Backlogs, IInv, Packets, SockqType
  <2>2. Head(sockq[s]) \in Conns /\ Head(sockq[s]) \in Range(sockq[s])
    BY <2>1, Dequeue DEF Backlog, PostedOnce
  <2> QED BY <2>1, <2>2 DEF Backlog, PostedGood, Posted
<1>1. /\ a \in Ctx /\ a # Router /\ UNCHANGED <<conn, rxq, pc>> /\ pc[a] = "idle"
      /\ cur'[a] = Head(sockq[s]) /\ \A y \in Ctx \ {a} : cur'[y] = cur[y]
  BY Contexts DEF Accept, At, IInv, Locals, LocalType
<1> QED BY <1>0, <1>1, Contexts DEF Calm, Solo, RouterLets, HeldOpen, Emptied, ClosedEmpty

LEMMA SetClosedCalm ==
  ASSUME ~Preemptive, IInv, Calm, Backlog, NEW x \in Ctx, SetClosed(x)
  PROVE  Calm'
<1>1. /\ Runs(x) /\ pc[x] = "setClosed" /\ cur[x] \in Conns /\ UNCHANGED rxq
      /\ cur'[x] = NoConn /\ \A y \in Ctx \ {x} : cur'[y] = cur[y]
      /\ \A c \in Conns : c # cur[x] => conn'[c] = conn[c]
      /\ cur \in [Ctx -> Conns \cup {NoConn}] /\ NoConn \notin Conns
  BY Contexts DEF SetClosed, At, IInv, Locals, LocalType, CtxOK, HasConn, Tables, Conn
<1>2. pc'[x] = "idle" /\ \A y \in Ctx \ {x} : pc[y] = "idle" /\ pc'[y] = "idle"
  BY <1>1, GotoMoves DEF SetClosed
<1>3. \A y \in Ctx \ {x} : cur[y] # cur[x]
  <2> SUFFICES ASSUME NEW y \in Ctx \ {x}, cur[y] = cur[x] PROVE FALSE
    OBVIOUS
  <2>1. cur[Router] # NoConn => pc[Router] \in HasConn
    BY DEF Calm, RouterLets
  <2>2. y \in Apps
    BY <1>1, <1>2, <2>1 DEF Ctx, HasConn, Setting
  <2>3. CASE x = Router
    BY <1>1, <2>2, <2>3 DEF Backlog, OwnNew, Own, Held
  <2>4. CASE x \in Apps
    BY <1>1, <2>2, <2>4 DEF Backlog, OneHolder
  <2> QED BY <2>3, <2>4 DEF Ctx
<1>4. RouterLets'
  BY <1>1, <1>2, Contexts DEF Calm, RouterLets
<1>5. HeldOpen'
  BY <1>1, <1>3 DEF Calm, HeldOpen
<1>6. Emptied' /\ ClosedEmpty'
  BY <1>1, <1>2 DEF Calm, Emptied, ClosedEmpty
<1> QED BY <1>2, <1>4, <1>5, <1>6, SoloMove DEF Calm

LEMMA DrainCalm ==
  ASSUME ~Preemptive, IInv, Calm, NEW a \in Apps, Drain(a)
  PROVE  Calm'
<1>1. /\ a \in Ctx /\ a # Router /\ Runs(a) /\ pc[a] = "drain" /\ UNCHANGED <<conn, rxq, cur>>
      /\ pc' = pc \/ Goto(a, "idle")
  BY Contexts DEF Drain, At
<1>2. \A y \in Ctx \ {a} : pc[y] = "idle" /\ pc'[y] = "idle"
  BY <1>1, RunsAlone, GotoMoves
<1>3. \A y \in Ctx : pc'[y] \in {"idle", "drain"}
  BY <1>1, <1>2, GotoMoves
<1> QED BY <1>1, <1>2, <1>3, SoloMove, Contexts, CalmFrame DEF HasConn, Setting

LEMMA InterruptCalm ==
  ASSUME IInv, Calm, Interrupt \/ UNCHANGED vars
  PROVE  Calm'
<1>1. UNCHANGED <<conn, rxq, pc, cur>>
  BY DEF Interrupt, RxStart, RxDone, tables, vars
<1> QED BY <1>1 DEF Calm, Solo, RouterLets, HeldOpen, Emptied, ClosedEmpty

LEMMA InitCalm == Init => Calm
<1>1. ASSUME Init
      PROVE  /\ \A x \in Ctx : pc[x] = "idle" /\ cur[x] = NoConn
             /\ \A c \in Conns : rxq[c] = <<>>
  BY <1>1 DEF Init
<1> QED BY <1>1, Contexts DEF Calm, Solo, RouterLets, HeldOpen, Emptied, ClosedEmpty

LEMMA StepCalm ==
  ASSUME ~Preemptive, IInv, Calm, Backlog, [Next]_vars
  PROVE  Calm'
<1>1. CASE Interrupt \/ UNCHANGED vars
  BY <1>1, InterruptCalm
<1>2. CASE RouteRead \/ RouteStep
  BY <1>2, RouterAside, AsideCalm, Contexts, RouteLookupCalm, RouteAllocCalm, FinishRouteCalm,
     RouteEnqueueCalm, RoutePostCalm, RouteUnpostCalm DEF RouteStep, AsideRouter
<1>3. ASSUME NEW x \in Ctx, Step(x) PROVE Calm'
  <2>1. CASE TxDone(x)
    BY <2>1, RouterAside, AppAside, AsideCalm DEF Ctx, AsideRouter, AsideApp
  <2> QED BY <1>3, <2>1, SetTypeCalm, CopyIdsCalm, FlushCalm, SetClosedCalm DEF Step
<1>4. ASSUME NEW a \in Apps, AppStep(a) PROVE Calm'
  BY <1>4, FinishConnectCalm, DrainCalm DEF AppStep
<1>5. ASSUME NEW a \in Apps, Call(a) PROVE Calm'
  <2>1. CASE AsideApp(a)
    BY <2>1, AppAside, AsideCalm, Contexts
  <2> QED BY <1>5, <2>1, ConnectCalm, ReadCalm, CloseCalm, AcceptCalm DEF Call, AsideApp
<1> QED BY <1>1, <1>2, <1>3, <1>4, <1>5 DEF Next

------------------------------------------------------------------------------
(* Backlog: first the steps that concern no connection, then the others.     *)

\* Steps that change no backlog, and of a connection no more than what it holds.
LEMMA BacklogFrame ==
  ASSUME IInv, Backlog, UNCHANGED cur,
         \A s \in Backlogs : sockq'[s] = sockq[s],
         \A c \in Conns : /\ conn'[c].open = conn[c].open /\ conn'[c].dest = conn[c].dest
                          /\ conn'[c].client = conn[c].client
                          /\ rxq'[c] = <<>> <=> rxq[c] = <<>>,
         \A x \in Ctx : pc'[x] = pc[x] \/ (pc[x] \notin HasConn /\ pc'[x] \notin HasConn)
  PROVE  Backlog'
<1>1. OneHolder' /\ PostedOnce'
  BY DEF Backlog, OneHolder, PostedOnce
<1>2. PostedGood'
  BY <1>1 DEF Backlog, PostedGood, Posted, Held
<1>3. Router \in Ctx /\ Apps \subseteq Ctx
      /\ \A x \in Ctx : pc[x] \in HasConn => cur[x] \in Conns
  BY Contexts DEF IInv, Locals, CtxOK
<1>4. pc'[Router] \in HasConn => pc'[Router] = pc[Router] /\ cur[Router] \in Conns
  BY <1>3
<1>5. Own' <=> Own
  BY <1>3, <1>4 DEF Own, HasConn
<1>6. OwnNew' /\ OwnFilled'
  BY <1>3, <1>4, <1>5 DEF Backlog, OwnNew, OwnFilled, Own, Held, Posted, HasConn
<1>7. Dests' /\ Kind'
  BY <1>3, <1>5 DEF Backlog, Dests, Kind, HasConn
<1> QED BY <1>1, <1>2, <1>6, <1>7 DEF Backlog

LEMMA AsideBacklog ==
  ASSUME IInv, Backlog, NEW x \in Ctx, Aside(x)
  PROVE  Backlog'
<1>1. PICK at \in PcValues \ HasConn : pc' = pc \/ Goto(x, at)
  BY DEF Aside
<1>2. \A y \in Ctx : pc'[y] = pc[y] \/ (pc[y] \notin HasConn /\ pc'[y] \notin HasConn)
  BY <1>1 DEF Aside, Goto, IInv, Locals, LocalType
<1> QED BY <1>2, BacklogFrame DEF Aside

\* Between calls no connection is to be posted.
LEMMA NoneOwn ==
  ASSUME Backlog, pc[Router] \notin HasConn, \A a \in Apps : pc[a] \notin Setting
  PROVE  ~Own /\ \A c \in Conns : conn[c].open => conn[c].dest = NoSock
BY DEF Backlog, Dests, Own, HasConn

LEMMA RouteLookupBacklog ==
  ASSUME ~Preemptive, IInv, Calm, Backlog, RouteLookup
  PROVE  Backlog'
<1>1. CASE pc'[Router] # "enqueue"
  BY <1>1, RouterAside, AsideBacklog, Contexts DEF AsideRouter
<1>2. CASE pc'[Router] = "enqueue"
  <2>1. /\ pc[Router] = "lookup" /\ Router \in Ctx /\ UNCHANGED <<conn, rxq, sockq>>
        /\ pc \in [Ctx -> PcValues] /\ cur \in [Ctx -> Conns \cup {NoConn}]
        /\ \A y \in Ctx \ {Router} : pc[y] = "idle" /\ pc'[y] = "idle"
    BY <1>2, Contexts, GotoMoves DEF RouteLookup, At, DropHand, tables, IInv, Locals, LocalType
  <2>2. PICK c \in Existing(Arrived) : cur' = [cur EXCEPT ![Router] = c]
    BY <1>2, <2>1 DEF RouteLookup, DropHand, Goto
  <2>3. /\ c \in Conns /\ conn[c].open
        /\ cur'[Router] = c /\ \A a \in Apps : cur'[a] = cur[a]
    BY <2>1, <2>2, Contexts DEF Existing, Matches
  <2>4. \A d \in Conns : conn[d].open => conn[d].dest = NoSock
    BY <2>1, NoneOwn, Contexts DEF HasConn, Setting
  <2>5. ~Own'
    BY <1>2, <2>1, <2>3, <2>4 DEF Own, Setting
  <2>6. OneHolder' /\ PostedOnce' /\ PostedGood'
    BY <2>1, <2>3 DEF Backlog, OneHolder, PostedOnce, PostedGood, Posted, Held
  <2>7. OwnNew' /\ OwnFilled' /\ Dests'
    BY <1>2, <2>1, <2>4, <2>5 DEF OwnNew, OwnFilled, Dests
  <2>8. Kind'
    BY <1>2, <2>1 DEF Kind, Setting
  <2> QED BY <2>6, <2>7, <2>8 DEF Backlog
<1> QED BY <1>1, <1>2

LEMMA TakeBacklog ==
  ASSUME ~Preemptive, IInv, Calm, Backlog, NEW x \in Ctx, Runs(x), NEW c \in Conns, Take(x, c),
         ~conn[c].open, pc[x] \notin HasConn, cur[x] = NoConn, UNCHANGED <<rxq, sockq>>
  PROVE  Backlog'
<1>1. /\ pc'[x] = "setType" /\ \A y \in Ctx \ {x} : pc[y] = "idle" /\ pc'[y] = "idle"
  BY GotoMoves DEF Take
<1>2. /\ cur'[x] = c /\ \A y \in Ctx \ {x} : cur'[y] = cur[y]
      /\ \A d \in Conns \ {c} : conn'[d] = conn[d]
      /\ \A y \in Ctx : cur[y] \in Conns \cup {NoConn}
  BY DEF Take, IInv, Locals, LocalType, Tables, Conn
<1>3. \A y \in Ctx : cur[y] # c
  BY Contexts DEF Calm, HeldOpen
<1>4. ~Held(c) /\ ~Posted(c) /\ \A d \in Conns : Posted(d)' <=> Posted(d)
  BY <1>3, Contexts DEF Held, Backlog, PostedGood, Posted
<1>5. /\ ~Own /\ \A d \in Conns : conn[d].open => conn[d].dest = NoSock
  <2>1. pc[Router] \notin HasConn /\ \A a \in Apps : pc[a] \notin Setting
    BY <1>1, Contexts DEF HasConn, Setting
  <2> QED BY <2>1, NoneOwn
<1>6. OneHolder'
  BY <1>2, <1>3, Contexts DEF Backlog, OneHolder
<1>7. PostedOnce' /\ PostedGood'
  <2>1. ASSUME NEW d \in Conns, Posted(d), d # c PROVE ~Held(d)'
    BY <1>2, <2>1, Contexts DEF Backlog, PostedGood, Held
  <2> QED BY <1>2, <1>4, <2>1 DEF Backlog, PostedOnce, PostedGood
<1>8. OwnNew' /\ OwnFilled' /\ Dests' /\ Kind'
  <2>1. CASE x = Router
    <3>1. ~Held(c)' /\ ~Posted(c)'
      BY <1>2, <1>4, <2>1, Contexts DEF Held
    <3>2. Own' /\ cur'[Router] = c /\ pc'[Router] = "setType"
      BY <1>1, <1>2, <2>1 DEF Own, Setting
    <3> QED BY <1>1, <1>2, <1>5, <2>1, <3>1, <3>2 DEF OwnNew, OwnFilled, Dests, Kind, Setting
  <2>2. CASE x \in Apps
    <3>1. ~Own' /\ pc'[Router] = "idle"
      BY <1>1, <2>2, Contexts DEF Own, Setting
    <3> QED BY <1>1, <1>2, <1>5, <2>2, <3>1 DEF OwnNew, OwnFilled, Dests, Kind, Setting
  <2> QED BY <2>1, <2>2 DEF Ctx
<1> QED BY <1>6, <1>7, <1>8 DEF Backlog

LEMMA AllocatedClosed ==
  ASSUME Tables, NEW c \in Allocated
  PROVE  c \in Conns /\ ~conn[c].open
BY AllocatedConns DEF Allocated, Turn

LEMMA RouteAllocBacklog ==
  ASSUME ~Preemptive, IInv, Calm, Backlog, RouteAlloc
  PROVE  Backlog'
<1>1. CASE pc'[Router] # "setType"
  BY <1>1, RouterAside, AsideBacklog, Contexts DEF AsideRouter
<1>2. CASE pc'[Router] = "setType"
  <2>1. PICK c \in Allocated : Take(Router, c)
    BY <1>2, Contexts DEF RouteAlloc, DropHand, Goto, IInv, Locals, LocalType
  <2>2. pc[Router] \notin HasConn /\ cur[Router] = NoConn
    BY DEF RouteAlloc, At, Calm, RouterLets, HasConn, Setting
  <2> QED BY <2>1, <2>2, AllocatedClosed, TakeBacklog, Contexts DEF RouteAlloc, At, IInv
<1> QED BY <1>1, <1>2

LEMMA ConnectBacklog ==
  ASSUME ~Preemptive, IInv, Calm, Backlog, NEW a \in Apps, NEW k \in Connects, Connect(a, k)
  PROVE  Backlog'
<1>1. PICK c \in Allocated : Take(a, c)
  BY DEF Connect
<1>2. pc[a] \notin HasConn /\ cur[a] = NoConn
  BY DEF Connect, At, HasConn, Setting
<1> QED BY <1>1, <1>2, AllocatedClosed, TakeBacklog, Contexts DEF Connect, At, IInv

\* What x sets up or closes waits in no backlog.
LEMMA AtWorkUnposted ==
  ASSUME IInv, Backlog, NEW x \in Ctx,
         pc[x] \in Setting \cup {"closeFlush", "setClosed"}
  PROVE  cur[x] \in Conns /\ ~Posted(cur[x])
<1>1. cur[x] \in Conns
  BY DEF IInv, Locals, CtxOK, HasConn
<1>2. CASE x = Router
  BY <1>1, <1>2 DEF Backlog, OwnNew, Own, Setting
<1>3. CASE x \in Apps
  BY <1>1, <1>3 DEF Backlog, PostedGood, Held
<1> QED BY <1>1, <1>2, <1>3 DEF Ctx

LEMMA StageBacklog ==
  ASSUME ~Preemptive, IInv, Backlog, NEW x \in Ctx, Runs(x),
         pc[x] \in Setting \cup {"closeFlush"},
         NEW at \in Setting \cup {"closeFlush", "setClosed"}, Goto(x, at),
         at \in Setting <=> pc[x] \in Setting,
         UNCHANGED <<cur, sockq>>,
         \A c \in Conns : conn'[c].open = conn[c].open /\ conn'[c].dest = conn[c].dest,
         \A c \in Conns \ {cur[x]} : conn'[c].client = conn[c].client /\ rxq'[c] = rxq[c],
         at \in Setting \ {"setType"} => conn'[cur[x]].client = (x # Router)
  PROVE  Backlog'
<1>1. /\ pc'[x] = at /\ \A y \in Ctx \ {x} : pc[y] = "idle" /\ pc'[y] = "idle"
  BY GotoMoves
<1>2. cur[x] \in Conns /\ ~Posted(cur[x])
  BY AtWorkUnposted
<1>3. OneHolder' /\ PostedOnce'
  BY DEF Backlog, OneHolder, PostedOnce
<1>4. PostedGood'
  BY <1>2 DEF Backlog, PostedGood, Posted, Held
<1>5. Kind'
  BY <1>1 DEF Kind, Setting
<1>6. CASE x = Router
  <2>1. Own /\ Own' /\ pc[x] \notin {"enqueue", "post"} /\ pc'[Router] = at
        /\ at \notin {"enqueue", "post", "unpost"}
    BY <1>1, <1>6 DEF Own, Setting
  <2>2. OwnNew' /\ OwnFilled'
    BY <1>2, <1>6, <2>1 DEF Backlog, OwnNew, OwnFilled, Posted, Held
  <2>3. Dests'
    BY <1>1, <1>6, <2>1, Contexts DEF Backlog, Dests, Setting
  <2> QED BY <1>3, <1>4, <1>5, <2>2, <2>3 DEF Backlog
<1>7. CASE x \in Apps
  <2>1. pc[Router] = "idle" /\ pc'[Router] = "idle" /\ ~Own /\ ~Own'
    BY <1>1, <1>7, Contexts DEF Own, Setting
  <2>2. OwnNew' /\ OwnFilled'
    BY <2>1 DEF OwnNew, OwnFilled
  <2>3. \A a \in Apps : pc[a] \in Setting <=> pc'[a] \in Setting
    BY <1>1, Contexts DEF Setting
  <2>4. Dests'
    BY <2>1, <2>3 DEF Backlog, Dests
  <2> QED BY <1>3, <1>4, <1>5, <2>2, <2>4 DEF Backlog
<1> QED BY <1>6, <1>7 DEF Ctx

LEMMA SetTypeBacklog ==
  ASSUME ~Preemptive, IInv, Backlog, NEW x \in Ctx, SetType(x)
  PROVE  Backlog'
<1>1. /\ pc[x] = "setType" /\ Runs(x) /\ Goto(x, "copyIds") /\ UNCHANGED <<cur, sockq, rxq>>
      /\ cur[x] \in Conns
  BY DEF SetType, At, IInv, Locals, CtxOK, HasConn, Setting
<1>2. /\ \A c \in Conns : conn'[c].open = conn[c].open /\ conn'[c].dest = conn[c].dest
      /\ \A c \in Conns \ {cur[x]} : conn'[c] = conn[c]
      /\ conn'[cur[x]].client = (x # Router)
  BY <1>1 DEF SetType, IInv, Tables, Conn
<1> QED BY <1>1, <1>2, StageBacklog DEF Setting

LEMMA CopyIdsBacklog ==
  ASSUME ~Preemptive, IInv, Backlog, NEW x \in Ctx, CopyIds(x)
  PROVE  Backlog'
<1>1. /\ pc[x] = "copyIds" /\ Runs(x) /\ Goto(x, "newFlush") /\ UNCHANGED <<cur, sockq, rxq>>
      /\ cur[x] \in Conns
  BY DEF CopyIds, At, IInv, Locals, CtxOK, HasConn, Setting
<1>2. /\ \A c \in Conns : /\ conn'[c].open = conn[c].open /\ conn'[c].dest = conn[c].dest
                          /\ conn'[c].client = conn[c].client
  BY <1>1 DEF CopyIds, IInv, Tables, Conn
<1>3. conn[cur[x]].client = (x # Router)
  BY <1>1 DEF Backlog, Kind, Setting
<1> QED BY <1>1, <1>2, <1>3, StageBacklog DEF Setting

LEMMA FlushBacklog ==
  ASSUME ~Preemptive, IInv, Backlog, NEW x \in Ctx, Flush(x)
  PROVE  Backlog'
<1>1. /\ pc[x] \in {"newFlush", "closeFlush"} /\ Runs(x) /\ UNCHANGED <<conn, cur, sockq>>
      /\ cur[x] \in Conns
  BY DEF Flush, At, IInv, Locals, CtxOK, HasConn, Setting
<1>2. \A c \in Conns \ {cur[x]} : rxq'[c] = rxq[c]
  BY DEF Flush, IInv, Packets, RxqType
<1>3. pc[x] = "newFlush" => conn[cur[x]].client = (x # Router)
  BY <1>1 DEF Backlog, Kind, Setting
<1>4. CASE UNCHANGED pc
  <2>1. Goto(x, pc[x])
    BY <1>4 DEF Goto, IInv, Locals, LocalType
  <2> QED BY <1>1, <1>2, <1>3, <2>1, StageBacklog DEF Setting
<1>5. CASE Goto(x, IF pc[x] = "newFlush" THEN "finish" ELSE "setClosed")
  <2>1. CASE pc[x] = "newFlush" /\ Goto(x, "finish")
    BY <1>1, <1>2, <1>3, <2>1, StageBacklog DEF Setting
  <2>2. CASE pc[x] = "closeFlush" /\ Goto(x, "setClosed")
    BY <1>1, <1>2, <2>2, StageBacklog DEF Setting
  <2> QED BY <1>1, <1>5, <2>1, <2>2
<1> QED BY <1>4, <1>5 DEF Flush

LEMMA FinishRouteBacklog ==
  ASSUME ~Preemptive, IInv, Calm, Backlog, FinishRoute
  PROVE  Backlog'
<1> DEFINE c == cur[Router]
<1>1. /\ pc[Router] = "finish" /\ Router \in Ctx /\ c \in Conns /\ UNCHANGED <<cur, sockq, rxq>>
      /\ sk[Router] \in Sockets /\ sk[Router] # NoSock /\ rxq[c] = <<>>
      /\ ~conn[c].client
  BY Contexts, NodeAssumption DEF NodeAssumption, FinishRoute, At, IInv, Locals, CtxOK, RouterOK,
     HasConn, Setting, Calm, Emptied, Backlog, Kind
<1>2. /\ conn'[c].dest = sk[Router]
      /\ \A d \in Conns : conn'[d].open = conn[d].open /\ conn'[d].client = conn[d].client
      /\ \A d \in Conns \ {c} : conn'[d] = conn[d]
  BY <1>1 DEF FinishRoute, IInv, Tables, Conn
<1>3. /\ pc'[Router] = "enqueue" /\ \A y \in Ctx \ {Router} : pc[y] = "idle" /\ pc'[y] = "idle"
  BY <1>1, GotoMoves DEF FinishRoute, At
<1>4. Own /\ Own' /\ ~Held(c) /\ ~Posted(c)
  BY <1>1, <1>2, <1>3 DEF Own, Setting, Backlog, OwnNew
<1>5. OneHolder' /\ PostedOnce' /\ PostedGood'
  BY <1>1, <1>2 DEF Backlog, OneHolder, PostedOnce, PostedGood, Posted, Held
<1>6. OwnNew' /\ OwnFilled'
  BY <1>1, <1>2, <1>3, <1>4 DEF OwnNew, OwnFilled, Held, Posted
<1>7. Dests'
  BY <1>1, <1>2, <1>3, <1>4, Contexts DEF Backlog, Dests, Setting
<1>8. Kind'
  BY <1>3 DEF Kind, Setting
<1> QED BY <1>5, <1>6, <1>7, <1>8 DEF Backlog

LEMMA FinishConnectBacklog ==
  ASSUME ~Preemptive, IInv, Backlog, NEW a \in Apps, FinishConnect(a)
  PROVE  Backlog'
<1> DEFINE c == cur[a]
<1>1. /\ pc[a] = "finish" /\ a \in Ctx /\ c \in Conns /\ UNCHANGED <<cur, sockq, rxq>>
  BY Contexts DEF FinishConnect, At, IInv, Locals, CtxOK, HasConn, Setting
<1>2. /\ conn'[c].dest = NoSock
      /\ \A d \in Conns : conn'[d].open = conn[d].open /\ conn'[d].client = conn[d].client
      /\ \A d \in Conns \ {c} : conn'[d] = conn[d]
  BY <1>1 DEF FinishConnect, IInv, Tables, Conn
<1>3. /\ pc'[a] = "idle" /\ \A y \in Ctx \ {a} : pc[y] = "idle" /\ pc'[y] = "idle"
  BY <1>1, GotoMoves DEF FinishConnect, At
<1>4. ~Own /\ ~Own' /\ pc'[Router] = "idle"
  BY <1>3, Contexts DEF Own, Setting
<1>5. OneHolder' /\ PostedOnce' /\ PostedGood'
  BY <1>1, <1>2 DEF Backlog, OneHolder, PostedOnce, PostedGood, Posted, Held
<1>6. OwnNew' /\ OwnFilled' /\ Kind'
  BY <1>3, <1>4 DEF OwnNew, OwnFilled, Kind, Setting
<1>7. Dests'
  BY <1>1, <1>2, <1>3, <1>4, Contexts DEF Backlog, Dests, Setting
<1> QED BY <1>5, <1>6, <1>7 DEF Backlog

LEMMA RouteEnqueueBacklog ==
  ASSUME ~Preemptive, IInv, Backlog, RouteEnqueue
  PROVE  Backlog'
<1> DEFINE c == cur[Router]
<1>1. /\ pc[Router] = "enqueue" /\ Runs(Router) /\ Router \in Ctx /\ c \in Conns
      /\ UNCHANGED <<conn, sockq>> /\ cur \in [Ctx -> Conns \cup {NoConn}]
      /\ \A y \in Ctx \ {Router} : pc[y] = "idle"
  BY Contexts, RunsAlone DEF RouteEnqueue, At, IInv, Locals, LocalType, CtxOK, HasConn
<1>2. CASE Deliver(c)
  <2>1. pc'[Router] = "post" /\ UNCHANGED cur /\ \A y \in Ctx \ {Router} : pc'[y] = "idle"
    BY <1>1, <1>2, GotoMoves DEF Deliver
  <2>2. rxq'[c] # <<>> /\ \A d \in Conns \ {c} : rxq'[d] = rxq[d]
    <3>1. rxq[c] \in Seq(Buffers) /\ hand[Router] \in Buffers
          /\ rxq' = [rxq EXCEPT ![c] = Append(@, hand[Router])] /\ rxq \in [Conns -> Seq(Buffers)]
      BY <1>1, <1>2 DEF Deliver, IInv, Packets, RxqType, Locals, RouterOK, HasPacket
    <3>2. Append(rxq[c], hand[Router]) # <<>>
      BY <3>1
    <3> HIDE DEF c
    <3> QED BY <1>1, <3>1, <3>2
  <2>3. Own' <=> Own
    BY <1>1, <2>1 DEF Own, Setting
  <2>4. OneHolder' /\ PostedOnce' /\ PostedGood'
    BY <1>1, <2>1, <2>2 DEF Backlog, OneHolder, PostedOnce, PostedGood, Posted, Held
  <2>5. OwnNew' /\ OwnFilled'
    BY <1>1, <2>1, <2>2, <2>3 DEF Backlog, OwnNew, OwnFilled, Posted, Held
  <2>6. Dests' /\ Kind'
    BY <1>1, <2>1, <2>3, Contexts DEF Backlog, Dests, Kind, Setting
  <2> QED BY <2>4, <2>5, <2>6 DEF Backlog
<1>3. CASE Overflow(c)
  <2>1. pc'[Router] = "idle" /\ \A y \in Ctx \ {Router} : pc'[y] = "idle"
    BY <1>1, <1>3, GotoMoves DEF Overflow, DropHand
  <2>2. /\ UNCHANGED rxq /\ \A a \in Apps : cur'[a] = cur[a]
    BY <1>1, <1>3, Contexts DEF Overflow
  <2>3. rxq[c] # <<>>
    BY <1>3, NodeAssumption DEF Overflow, NodeAssumption
  <2>4. ~Own /\ ~Own'
    BY <1>1, <2>1, <2>3 DEF Backlog, OwnFilled, Own, Setting
  <2>5. OneHolder' /\ PostedOnce' /\ PostedGood'
    BY <1>1, <2>2 DEF Backlog, OneHolder, PostedOnce, PostedGood, Posted, Held
  <2>6. OwnNew' /\ OwnFilled' /\ Kind'
    BY <2>1, <2>4 DEF OwnNew, OwnFilled, Kind, Setting
  <2>7. Dests'
    BY <1>1, <2>4, Contexts DEF Backlog, Dests, Setting
  <2> QED BY <2>5, <2>6, <2>7 DEF Backlog
<1> QED BY <1>2, <1>3 DEF RouteEnqueue

LEMMA RoutePostBacklog ==
  ASSUME ~Preemptive, IInv, Calm, Backlog, RoutePost
  PROVE  Backlog'
<1>0. cur[Router] \in Conns
  BY Contexts DEF RoutePost, At, IInv, Locals, CtxOK, HasConn
<1>c. PICK c \in Conns : c = cur[Router]
  BY <1>0
<1>s. PICK s : s = conn[c].dest
  OBVIOUS
<1>1. /\ pc[Router] = "post" /\ Runs(Router) /\ Router \in Ctx
      /\ UNCHANGED <<conn, rxq>> /\ cur \in [Ctx -> Conns \cup {NoConn}] /\ NoConn \notin Conns
      /\ \A y \in Ctx \ {Router} : pc[y] = "idle" /\ cur'[y] = cur[y]
      /\ cur'[Router] = IF pc'[Router] = "idle" THEN NoConn ELSE c
      /\ conn[c].open /\ s \in Backlogs \cup {NoSock} /\ NoSock \notin Backlogs
  BY <1>c, <1>s, Contexts, RunsAlone, NodeAssumption DEF NodeAssumption, RoutePost, At, IInv, Locals,
     LocalType, CtxOK, HasConn, Calm, HeldOpen, Tables, Conn, Backlogs
<1>2. \A at : Goto(Router, at) => pc'[Router] = at /\ \A y \in Ctx \ {Router} : pc'[y] = "idle"
  BY <1>1, GotoMoves
<1>3. /\ rxq[c] # <<>>
      /\ s # NoSock => Own /\ ~conn[c].client /\ ~Held(c) /\ ~Posted(c)
      /\ \A d \in Conns : conn[d].open /\ conn[d].dest # NoSock => d = c
  BY <1>1, <1>c, <1>s, Contexts DEF Backlog, OwnFilled, OwnNew, Own, Dests, Setting
<1>4. OneHolder' /\ \A d \in Conns : Held(d)' <=> Held(d)
  BY <1>1, Contexts DEF Backlog, OneHolder, Held
<1>5. CASE s = NoSock /\ Goto(Router, "idle") /\ UNCHANGED sockq
  <2>1. pc'[Router] = "idle" /\ ~Own' /\ \A y \in Ctx : pc'[y] = "idle"
    BY <1>2, <1>5 DEF Own, Setting
  <2>2. PostedOnce' /\ PostedGood'
    BY <1>1, <1>4, <1>5 DEF Backlog, PostedOnce, PostedGood, Posted
  <2>3. OwnNew' /\ OwnFilled' /\ Dests' /\ Kind'
    BY <1>1, <1>s, <1>3, <1>5, <2>1 DEF OwnNew, OwnFilled, Dests, Kind, Setting
  <2> QED BY <1>4, <2>2, <2>3 DEF Backlog
<1>6. CASE /\ s # NoSock /\ sockq' = [sockq EXCEPT ![s] = Append(@, c)] /\ Goto(Router, "unpost")
  <2>1. /\ pc'[Router] = "unpost" /\ Own' /\ cur'[Router] = c
        /\ \A y \in Ctx \ {Router} : pc'[y] = "idle"
    BY <1>1, <1>2, <1>s, <1>6 DEF Own, Setting
  <2>2. /\ s \in Backlogs /\ sockq[s] \in Seq(Conns) /\ c \notin Range(sockq[s])
        /\ sockq'[s] = Append(sockq[s], c) /\ IsInjective(sockq[s])
        /\ \A t \in Backlogs \ {s} : sockq'[t] = sockq[t] /\ c \notin Range(sockq[t])
    <3>1. s \in Backlogs /\ ~Posted(c)
      BY <1>1, <1>3, <1>6
    <3>2. /\ sockq[s] \in Seq(Conns) /\ sockq'[s] = Append(sockq[s], c)
          /\ \A t \in Backlogs \ {s} : sockq'[t] = sockq[t]
      BY <1>6, <3>1 DEF Backlogs, IInv, Packets, SockqType
    <3> QED BY <3>1, <3>2 DEF Posted, Backlog, PostedOnce
  <2>3. IsInjective(sockq'[s]) /\ Range(sockq'[s]) = Range(sockq[s]) \cup {c}
    BY <1>1, <2>2, Enqueue
  <2>4. \A d \in Conns : Posted(d)' <=> Posted(d) \/ d = c
    BY <1>1, <2>2, <2>3 DEF Posted
  <2>5. PostedOnce'
    BY <2>2, <2>3 DEF Backlog, PostedOnce
  <2>6. PostedGood'
    <3>1. ~Held(c) /\ ~conn[c].client
      BY <1>3, <1>6
    <3> QED BY <1>1, <1>3, <1>4, <2>4, <3>1 DEF Backlog, PostedGood
  <2>7. OwnNew' /\ OwnFilled' /\ Dests' /\ Kind'
    <3>1. ~Held(c)'
      BY <1>3, <1>4, <1>6
    <3>2. OwnNew'
      BY <2>1, <3>1 DEF OwnNew, Held
    <3>3. OwnFilled' /\ Kind'
      BY <2>1 DEF OwnFilled, Kind, Setting
    <3>4. Dests'
      BY <1>1, <1>3, <2>1 DEF Dests
    <3> QED BY <3>2, <3>3, <3>4
  <2> QED BY <1>4, <2>5, <2>6, <2>7 DEF Backlog
<1>7. CASE s # NoSock /\ UNCHANGED sockq /\ Goto(Router, "closeFlush")
  <2>1. /\ pc'[Router] = "closeFlush" /\ Own' /\ cur'[Router] = c
        /\ \A y \in Ctx \ {Router} : pc'[y] = "idle"
    BY <1>1, <1>2, <1>s, <1>7 DEF Own, Setting
  <2>2. PostedOnce' /\ PostedGood' /\ ~Posted(c)'
    BY <1>1, <1>3, <1>4, <1>7 DEF Backlog, PostedOnce, PostedGood, Posted
  <2>3. OwnNew' /\ OwnFilled' /\ Dests' /\ Kind'
    <3>1. ~Held(c)'
      BY <1>3, <1>4, <1>7
    <3>2. OwnNew'
      BY <2>1, <2>2, <3>1 DEF OwnNew, Held, Posted
    <3>3. OwnFilled' /\ Kind'
      BY <2>1 DEF OwnFilled, Kind, Setting
    <3>4. Dests'
      BY <1>1, <1>3, <2>1 DEF Dests
    <3> QED BY <3>2, <3>3, <3>4
  <2> QED BY <1>4, <2>2, <2>3 DEF Backlog
<1> QED BY <1>c, <1>s, <1>1, <1>5, <1>6, <1>7 DEF RoutePost

LEMMA RouteUnpostBacklog ==
  ASSUME ~Preemptive, IInv, Calm, Backlog, RouteUnpost
  PROVE  Backlog'
<1> DEFINE c == cur[Router]
<1>1. /\ pc[Router] = "unpost" /\ Runs(Router) /\ Router \in Ctx /\ c \in Conns
      /\ UNCHANGED <<sockq, rxq>> /\ cur' = [cur EXCEPT ![Router] = NoConn]
      /\ cur \in [Ctx -> Conns \cup {NoConn}]
  BY Contexts DEF RouteUnpost, At, IInv, Locals, LocalType, CtxOK, HasConn
<1>2. /\ conn'[c].dest = NoSock
      /\ \A d \in Conns : conn'[d].open = conn[d].open /\ conn'[d].client = conn[d].client
      /\ \A d \in Conns \ {c} : conn'[d] = conn[d]
  BY <1>1 DEF RouteUnpost, IInv, Tables, Conn
<1>3. /\ pc'[Router] = "idle" /\ \A y \in Ctx \ {Router} : pc[y] = "idle" /\ pc'[y] = "idle"
      /\ cur'[Router] = NoConn /\ \A a \in Apps : cur'[a] = cur[a]
  BY <1>1, GotoMoves, Contexts DEF RouteUnpost
<1>4. ~Own' /\ OwnNew' /\ OwnFilled' /\ Kind'
  BY <1>3 DEF Own, OwnNew, OwnFilled, Kind, Setting
<1>5. OneHolder' /\ PostedOnce' /\ PostedGood'
  BY <1>1, <1>2, <1>3 DEF Backlog, OneHolder, PostedOnce, PostedGood, Posted, Held
<1>6. Dests'
  BY <1>1, <1>2, <1>3, Contexts DEF Backlog, Dests, Setting
<1> QED BY <1>4, <1>5, <1>6 DEF Backlog

LEMMA ReadBacklog ==
  ASSUME ~Preemptive, IInv, Calm, Backlog, NEW a \in Apps, Read(a)
  PROVE  Backlog'
<1>1. /\ pc[a] = "idle" /\ Runs(a) /\ a \in Ctx /\ a # Router /\ cur[a] \in Conns
      /\ UNCHANGED <<pc, cur, conn, sockq>>
      /\ \A c \in Conns \ {cur[a]} : rxq'[c] = rxq[c]
  BY Contexts DEF Read, At, IInv, Locals, LocalType, Packets, RxqType
<1>2. pc[Router] = "idle" /\ ~Own /\ ~Own'
  BY <1>1, RunsAlone, Contexts DEF Own, Setting
<1>3. OneHolder' /\ PostedOnce' /\ PostedGood'
  BY <1>1 DEF Backlog, OneHolder, PostedOnce, PostedGood, Posted, Held
<1>4. OwnNew' /\ OwnFilled' /\ Dests' /\ Kind'
  BY <1>1, <1>2 DEF Backlog, OwnNew, OwnFilled, Dests, Kind
<1> QED BY <1>3, <1>4 DEF Backlog

LEMMA CloseBacklog ==
  ASSUME ~Preemptive, IInv, Calm, Backlog, NEW a \in Apps, Close(a)
  PROVE  Backlog'
<1>1. /\ pc[a] = "idle" /\ Runs(a) /\ a \in Ctx /\ UNCHANGED <<conn, rxq, sockq>>
      /\ \A y \in Ctx \ {a} : pc[y] = "idle"
  BY Contexts, RunsAlone DEF Close, At, tables
<1>2. pc' = pc \/ Goto(a, "closeFlush")
  BY DEF Close
<1>3. /\ pc'[Router] = "idle" /\ pc[Router] = "idle"
      /\ \A y \in Ctx : pc'[y] \notin Setting /\ pc[y] \notin Setting
  <2>1. \A y \in Ctx \ {a} : pc'[y] = "idle"
    BY <1>1, <1>2, GotoMoves
  <2>2. pc'[a] \in {"idle", "closeFlush"}
    BY <1>1, <1>2 DEF Goto, IInv, Locals, LocalType
  <2> QED BY <1>1, <2>1, <2>2, Contexts DEF Setting
<1>4. \A b \in Apps : cur'[b] = cur[b] \/ cur'[b] = NoConn
  BY <1>1, Contexts DEF Close, IInv, Locals, LocalType
<1>5. ~Own /\ ~Own'
  BY <1>3 DEF Own, Setting
<1>6. OneHolder' /\ PostedOnce' /\ PostedGood'
  BY <1>1, <1>4, Contexts DEF Backlog, OneHolder, PostedOnce, PostedGood, Posted, Held
<1>7. OwnNew' /\ OwnFilled' /\ Kind'
  BY <1>3, <1>5 DEF OwnNew, OwnFilled, Kind
<1>8. Dests'
  BY <1>1, <1>3, <1>5, Contexts DEF Backlog, Dests
<1> QED BY <1>6, <1>7, <1>8 DEF Backlog

LEMMA SetClosedBacklog ==
  ASSUME ~Preemptive, IInv, Calm, Backlog, NEW x \in Ctx, SetClosed(x)
  PROVE  Backlog'
<1>1. /\ Runs(x) /\ pc[x] = "setClosed" /\ cur[x] \in Conns /\ UNCHANGED <<rxq, sockq>>
      /\ cur'[x] = NoConn /\ \A y \in Ctx \ {x} : cur'[y] = cur[y]
      /\ ~conn'[cur[x]].open
      /\ \A c \in Conns : c # cur[x] => conn'[c] = conn[c]
  BY DEF SetClosed, At, IInv, Locals, LocalType, CtxOK, HasConn, Tables, Conn
<1>2. pc'[x] = "idle" /\ \A y \in Ctx \ {x} : pc[y] = "idle" /\ pc'[y] = "idle"
  BY <1>1, GotoMoves DEF SetClosed
<1>3. ~Posted(cur[x])
  BY <1>1, AtWorkUnposted
<1>4. \A y \in Ctx : pc'[y] = "idle" /\ pc[y] \notin Setting
  BY <1>1, <1>2 DEF Setting
<1>5. ~Own' /\ OwnNew' /\ OwnFilled' /\ Kind'
  BY <1>4, Contexts DEF Own, OwnNew, OwnFilled, Kind, Setting
<1>6. OneHolder'
  BY <1>1, Contexts DEF Backlog, OneHolder
<1>7. PostedOnce' /\ PostedGood'
  <2>1. \A c \in Conns : Held(c)' => Held(c)
    BY <1>1, Contexts DEF Held
  <2> QED BY <1>1, <1>3, <2>1 DEF Backlog, PostedOnce, PostedGood, Posted
<1>8. Dests'
  <2> SUFFICES ASSUME NEW c \in Conns, conn'[c].open, conn'[c].dest # NoSock PROVE FALSE
    BY DEF Dests
  <2>1. c # cur[x] /\ conn[c].open /\ conn[c].dest # NoSock
    BY <1>1
  <2>2. cur[Router] = c /\ Own
    BY <1>4, <2>1, Contexts DEF Backlog, Dests
  <2>3. x # Router /\ pc[Router] = "idle"
    BY <1>2, <2>1, <2>2, Contexts
  <2> QED BY <2>2, <2>3 DEF Own, Setting
<1> QED BY <1>5, <1>6, <1>7, <1>8 DEF Backlog

\* The head of a backlog leaves it.
LEMMA Shorter ==
  ASSUME IInv, Backlog, NEW s \in Backlogs, sockq[s] # <<>>,
         sockq' = [sockq EXCEPT ![s] = Tail(@)], NEW c, c = Head(sockq[s])
  PROVE  /\ c \in Conns /\ Posted(c) /\ ~Posted(c)'
         /\ \A d \in Conns : Posted(d)' => Posted(d)
         /\ PostedOnce'
<1>1. /\ sockq[s] \in Seq(Conns) /\ IsInjective(sockq[s]) /\ sockq'[s] = Tail(sockq[s])
      /\ \A t \in Backlogs \ {s} : sockq'[t] = sockq[t]
  BY DEF Backlogs, IInv, Packets, SockqType, Backlog, PostedOnce
<1>2. /\ c \in Conns /\ c \in Range(sockq[s])
      /\ IsInjective(sockq'[s]) /\ Range(sockq'[s]) = Range(sockq[s]) \ {c}
  BY <1>1, Dequeue
<1>3. PostedOnce'
  BY <1>1, <1>2 DEF Backlog, PostedOnce
<1>4. ASSUME NEW t \in Backlogs PROVE c \notin Range(sockq'[t])
  BY <1>1, <1>2 DEF Backlog, PostedOnce
<1>5. ASSUME NEW d \in Conns, NEW t \in Backlogs, d \in Range(sockq'[t])
      PROVE  d \in Range(sockq[t])
  BY <1>1, <1>2, <1>5
<1> QED BY <1>2, <1>3, <1>4, <1>5 DEF Posted

LEMMA AcceptBacklog ==
  ASSUME ~Preemptive, IInv, Calm, Backlog, NEW a \in Apps, NEW s \in Sockets, Accept(a, s)
  PROVE  Backlog'
<1>c. PICK c : c = Head(sockq[s])
  OBVIOUS
<1>1. /\ pc[a] = "idle" /\ Runs(a) /\ a \in Ctx /\ UNCHANGED <<conn, rxq, pc>> /\ cur[a] = NoConn
      /\ cur'[a] = c /\ \A y \in Ctx \ {a} : cur'[y] = cur[y]
      /\ s \in Backlogs /\ sockq[s] # <<>> /\ sockq' = [sockq EXCEPT ![s] = Tail(@)]
      /\ \A y \in Ctx \ {a} : pc[y] = "idle"
  BY <1>c, Contexts, RunsAlone DEF Accept, At, IInv, Locals, LocalType, Backlogs
<1>2. /\ c \in Conns /\ Posted(c) /\ ~Posted(c)' /\ \A d \in Conns : Posted(d)' => Posted(d)
      /\ PostedOnce'
  BY <1>c, <1>1, Shorter
<1>3. \A y \in Ctx : pc[y] = "idle"
  BY <1>1
<1>4. ~Own /\ ~Own' /\ OwnNew' /\ OwnFilled' /\ Kind'
  BY <1>1, <1>3, Contexts DEF Own, OwnNew, OwnFilled, Kind, Setting
<1>5. ~Held(c)
  BY <1>2 DEF Backlog, PostedGood
<1>6. OneHolder'
  BY <1>1, <1>2, <1>5, Contexts DEF Backlog, OneHolder, Held
<1>7. PostedGood'
  <2>1. \A d \in Conns : Held(d)' => Held(d) \/ d = c
    BY <1>1, Contexts DEF Held
  <2> QED BY <1>1, <1>2, <2>1 DEF Backlog, PostedGood
<1>8. Dests'
  BY <1>1, <1>3, <1>4, Contexts DEF Backlog, Dests, Setting
<1> QED BY <1>2, <1>4, <1>6, <1>7, <1>8 DEF Backlog

LEMMA DrainBacklog ==
  ASSUME ~Preemptive, IInv, Calm, Backlog, NEW a \in Apps, Drain(a)
  PROVE  Backlog'
<1>1. CASE \A s \in Backlogs : sockq'[s] = sockq[s]
  BY <1>1, AppAside, AsideBacklog, Contexts DEF AsideApp
<1>2. CASE ~ \A s \in Backlogs : sockq'[s] = sockq[s]
  <2>s. PICK s : s = sk[a]
    OBVIOUS
  <2>1. /\ UNCHANGED <<conn, rxq, cur, pc>> /\ s \in Backlogs /\ sockq[s] # <<>>
        /\ sockq' = [sockq EXCEPT ![s] = Tail(@)]
    BY <1>2, <2>s DEF Drain, Backlogs, IInv, Packets, SockqType
  <2>2. (\A d \in Conns : Posted(d)' => Posted(d)) /\ PostedOnce'
    BY <2>1, Shorter
  <2>3. /\ Own' <=> Own
        /\ \A d \in Conns : Held(d)' <=> Held(d)
    BY <2>1 DEF Own, Held
  <2>4. pc[Router] \in Setting \cup {"closeFlush", "setClosed", "unpost", "enqueue", "post"}
           => cur[Router] \in Conns
    BY Contexts DEF IInv, Locals, CtxOK, HasConn
  <2>5. OneHolder' /\ PostedGood' /\ Kind' /\ Dests' /\ OwnFilled'
    BY <2>1, <2>2, <2>3 DEF Backlog, OneHolder, PostedGood, Kind, Dests, OwnFilled
  <2>6. OwnNew'
    <3>1. Own => cur[Router] \in Conns
      BY <2>4 DEF Own
    <3>2. ASSUME Own PROVE cur'[Router] \in Conns /\ cur'[Router] = cur[Router]
      BY <2>1, <3>1, <3>2
    <3>3. ASSUME NEW c \in Conns, c = cur[Router], Own
          PROVE  ~Held(c)' /\ (Posted(c)' => pc'[Router] = "unpost")
      BY <2>1, <2>2, <2>3, <3>3 DEF Backlog, OwnNew
    <3> QED BY <2>1, <2>3, <3>2, <3>3 DEF OwnNew, Held, Posted
  <2> QED BY <2>2, <2>5, <2>6 DEF Backlog
<1> QED BY <1>1, <1>2

LEMMA InterruptBacklog ==
  ASSUME IInv, Backlog, Interrupt \/ UNCHANGED vars
  PROVE  Backlog'
<1>1. UNCHANGED <<conn, rxq, pc, cur, sockq>>
  BY DEF Interrupt, RxStart, RxDone, tables, vars
<1> QED BY <1>1, BacklogFrame

LEMMA InitBacklog == Init => Backlog
<1>1. ASSUME Init
      PROVE  /\ \A x \in Ctx : pc[x] = "idle" /\ cur[x] = NoConn
             /\ \A c \in Conns : ~conn[c].open
             /\ \A s \in Sockets : sockq[s] = <<>>
  BY <1>1 DEF Init, FreshConn
<1>2. Range(<<>>) = {} /\ IsInjective(<<>>)
  BY DEF Range, IsInjective
<1> QED BY <1>1, <1>2, Contexts DEF Backlog, OneHolder, PostedOnce, PostedGood, Posted, OwnNew,
           OwnFilled, Own, Dests, Kind, Setting, Backlogs

LEMMA StepBacklog ==
  ASSUME ~Preemptive, IInv, Calm, Backlog, [Next]_vars
  PROVE  Backlog'
<1>1. CASE Interrupt \/ UNCHANGED vars
  BY <1>1, InterruptBacklog
<1>2. CASE RouteRead \/ RouteStep
  BY <1>2, RouterAside, AsideBacklog, Contexts, RouteLookupBacklog, RouteAllocBacklog,
     FinishRouteBacklog, RouteEnqueueBacklog, RoutePostBacklog, RouteUnpostBacklog
     DEF RouteStep, AsideRouter
<1>3. ASSUME NEW x \in Ctx, Step(x) PROVE Backlog'
  <2>1. CASE TxDone(x)
    BY <2>1, RouterAside, AppAside, AsideBacklog DEF Ctx, AsideRouter, AsideApp
  <2> QED BY <1>3, <2>1, SetTypeBacklog, CopyIdsBacklog, FlushBacklog, SetClosedBacklog DEF Step
<1>4. ASSUME NEW a \in Apps, AppStep(a) PROVE Backlog'
  BY <1>4, FinishConnectBacklog, DrainBacklog DEF AppStep
<1>5. ASSUME NEW a \in Apps, Call(a) PROVE Backlog'
  <2>1. CASE AsideApp(a)
    BY <2>1, AppAside, AsideBacklog, Contexts
  <2> QED BY <1>5, <2>1, ConnectBacklog, ReadBacklog, CloseBacklog, AcceptBacklog DEF Call, AsideApp
<1> QED BY <1>1, <1>2, <1>3, <1>4, <1>5 DEF Next

LEMMA BacklogAlways ==
  ASSUME ~Preemptive
  PROVE  Spec => [](IInv /\ Calm /\ Backlog)
<1>1. Init => IInv /\ Calm /\ Backlog
  BY InitEstablishes, InitCalm, InitBacklog
<1>2. IInv /\ Calm /\ Backlog /\ [Next]_vars => (IInv /\ Calm /\ Backlog)'
  BY StepKeeps, StepCalm, StepBacklog
<1> QED BY <1>1, <1>2, PTL DEF Spec

(* A closed connection holds no packet: csp_close empties its queue before it *)
(* closes it, and nothing is delivered to it afterwards, so whoever is given  *)
(* the connection next finds none of its packets (csp.h:219).                 *)
THEOREM ClosedConnectionsAreEmpty ==
  ASSUME ~Preemptive
  PROVE  Spec => []ClosedEmpty
<1>1. IInv /\ Calm /\ Backlog => ClosedEmpty
  BY DEF Calm
<1> QED BY <1>1, BacklogAlways, PTL

(* A connection that waits to be accepted is open, incoming, has the packet   *)
(* that opened it, is nobody's yet, and waits once: a connection is offered   *)
(* to one accept only, and never to one that comes after its close.           *)
THEOREM BacklogsAreReady ==
  ASSUME ~Preemptive
  PROVE  Spec => []PostedReady
<1>1. ASSUME IInv, Calm, Backlog PROVE PostedReady
  <2> SUFFICES ASSUME NEW s \in Backlogs, NEW i \in DOMAIN sockq[s]
               PROVE  LET c == sockq[s][i]
                      IN /\ conn[c].open /\ ~conn[c].client /\ rxq[c] # <<>>
                         /\ \A a \in Apps : cur[a] # c
                         /\ \A t \in Backlogs : Occurs(c, sockq[t]) = IF t = s THEN {i} ELSE {}
    BY DEF PostedReady, Backlogs
  <2> DEFINE c == sockq[s][i]
  <2>1. c \in Conns /\ c \in Range(sockq[s])
    BY <1>1 DEF Range, IInv, Packets, SockqType, Backlogs
  <2>2. /\ conn[c].open /\ ~conn[c].client /\ rxq[c] # <<>> /\ ~Held(c)
    BY <1>1, <2>1 DEF Backlog, PostedGood, Posted
  <2>3. ASSUME NEW t \in Backlogs, t # s PROVE Occurs(c, sockq[t]) = {}
    <3>1. c \notin Range(sockq[t])
      BY <1>1, <2>1, <2>3 DEF Backlog, PostedOnce
    <3> QED BY <3>1 DEF Occurs, Range
  <2>4. Occurs(c, sockq[s]) = {i}
    BY <1>1 DEF Occurs, IsInjective, Backlog, PostedOnce
  <2> QED BY <2>2, <2>3, <2>4 DEF Held
<1> QED BY <1>1, BacklogAlways, PTL

------------------------------------------------------------------------------
(* Match: what is in a connection was checked for it.                        *)
Fitting(c, b) == Matches(c, hdr[b]) /\ Passes(conn[c].crcreq, hdr[b].mark)
RightPackets == \A c \in Conns : Established(c) => \A b \in Range(rxq[c]) : Fitting(c, b)
RightDatagrams == \A s \in ConnLess : \A b \in Range(sockq[s]) : Passes(s \in CrcReq, hdr[b].mark)

\* The packet that the router looks up is for a bound port; the one it opens a connection
\* for passes the socket's options and matches none that is open; the new connection gets
\* its identifiers, and the packet that is to be enqueued fits.
BoundPort ==
    pc[Router] \in {"lookup", "alloc"} \cup Setting /\ sk[Router] # NoSock =>
        Arrived.dport <= MaxBind
FirstOfItsKind ==
    pc[Router] \in {"alloc"} \cup Setting =>
        /\ Passes(sk[Router] \in CrcReq, Arrived.mark)
        /\ \A c \in Conns : Established(c) => ~Matches(c, Arrived)
Copied ==
    pc[Router] \in {"newFlush", "finish"} =>
        LET c == conn[cur[Router]]
        IN  c.src = Arrived.src /\ c.sport = Arrived.sport /\ c.dport = Arrived.dport
ToEnqueue == pc[Router] = "enqueue" => Fitting(cur[Router], hand[Router])

\* The ports of outgoing connections are their own, those of incoming ones are bound.
Numbers ==
    \A c \in Conns : Established(c) =>
        IF conn[c].client THEN conn[c].dport = ClientPort(c) ELSE conn[c].dport <= MaxBind

InRoute == BoundPort /\ FirstOfItsKind /\ Copied /\ ToEnqueue
Match == RightPackets /\ RightDatagrams /\ InRoute /\ Numbers /\ NoTwins

------------------------------------------------------------------------------
(* Headers: those of packets that wait in a connection or at a socket stay.  *)
Stored ==
    {b \in Buffers : (\E c \in Conns : b \in Range(rxq[c]))
                        \/ (\E s \in ConnLess : b \in Range(sockq[s]))}

\* A step of x changes the headers of the packets in its hands at most.
HandsOnly(x) == \A b \in Buffers \ {hand[x], copy[x]} : hdr'[b] = hdr[b]

LEMMA NotStored ==
  ASSUME IInv
  PROVE  /\ \A c \in Conns : Range(rxq[c]) \subseteq Stored
         /\ \A s \in ConnLess : Range(sockq[s]) \subseteq Stored
         /\ Stored \subseteq Buffers /\ driver \notin Stored
         /\ \A x \in Ctx : hand[x] \notin Stored /\ copy[x] \notin Stored
         /\ \A x, y \in Ctx : hand[x] \in Buffers => hand[x] # copy[y] /\ hand[x] # driver
                                                  /\ (hand[x] = hand[y] => x = y)
<1>1. /\ \A c \in Conns : Range(rxq[c]) \subseteq Buffers
      /\ \A s \in ConnLess : Range(sockq[s]) \subseteq Buffers
  BY DEF IInv, Packets, RxqType, SockqType, Range
<1>2. ASSUME NEW b \in Stored
      PROVE  b \in Buffers /\ b # driver /\ \A x \in Ctx : hand[x] # b /\ copy[x] # b
  <2>0. (\E c \in Conns : b \in Range(rxq[c])) \/ (\E s \in ConnLess : b \in Range(sockq[s]))
    BY DEF Stored
  <2>1. b \in Buffers
    BY <1>1, <2>0
  <2>2. PICK kind \in Kinds, j \in Indices : Sits(b, kind, j)
    BY <2>1 DEF IInv, Packets, Owned
  <2>3. kind = "rxq" \/ kind = "sockq"
    BY <2>0, <2>2 DEF Sits
  <2> QED BY <2>1, <2>2, <2>3 DEF Sits
<1>3. ASSUME NEW x \in Ctx, NEW y \in Ctx, hand[x] \in Buffers
      PROVE  hand[x] # copy[y] /\ hand[x] # driver /\ (hand[x] = hand[y] => x = y)
  <2>1. PICK kind \in Kinds, j \in Indices : Sits(hand[x], kind, j)
    BY <1>3 DEF IInv, Packets, Owned
  <2> QED BY <2>1 DEF Sits
<1>4. /\ \A c \in Conns : Range(rxq[c]) \subseteq Stored
      /\ \A s \in ConnLess : Range(sockq[s]) \subseteq Stored
  <2>1. \A c \in Conns : \A b \in Range(rxq[c]) : b \in Buffers /\ b \in Stored
    BY <1>1 DEF Stored
  <2>2. \A s \in ConnLess : \A b \in Range(sockq[s]) : b \in Buffers /\ b \in Stored
    BY <1>1 DEF Stored
  <2> QED BY <2>1, <2>2
<1>5. /\ Stored \subseteq Buffers /\ driver \notin Stored
      /\ \A x \in Ctx : hand[x] \notin Stored /\ copy[x] \notin Stored
  BY <1>2
<1> QED BY <1>3, <1>4, <1>5

LEMMA EmitHands ==
  ASSUME IInv, NEW x \in Ctx, NEW dst, NEW h, Emit(x, dst, h) \/ Transmit(x) \/ DropHand(x)
  PROVE  HandsOnly(x)
BY DEF Emit, Transmit, DropHand, QfifoWrite, Release, HandsOnly, IInv, Packets, HdrType

LEMMA RouterHands ==
  ASSUME IInv, AsideRouter
  PROVE  HandsOnly(Router)
<1>1. Router \in Ctx
  BY Contexts
<1>2. CASE CallbackDone
  BY <1>1, <1>2, EmitHands DEF CallbackDone, Reply
<1>3. CASE RouteRead \/ RouteDgram
  BY <1>1, <1>3, EmitHands DEF RouteRead, RouteDgram, HandsOnly
<1>4. CASE RouteClassify
  BY <1>1, <1>4, EmitHands DEF RouteClassify, HandsOnly
<1>5. CASE RouteLookup
  BY <1>1, <1>5, EmitHands DEF RouteLookup, HandsOnly
<1>6. CASE RouteAlloc
  BY <1>1, <1>6, EmitHands DEF RouteAlloc, HandsOnly
<1>7. CASE TxDone(Router)
  BY <1>7 DEF TxDone, Release, HandsOnly
<1> QED BY <1>2, <1>3, <1>4, <1>5, <1>6, <1>7 DEF AsideRouter

LEMMA NothingExisting ==
  ASSUME NEW h, Existing(h) = {}
  PROVE  \A c \in Conns : ~Matches(c, h)
<1> DEFINE T == {c \in Conns : Matches(c, h)}
           R == {ss \in Nat \X Nat : ss[1] < ss[2]}
<1>1. T \subseteq Nat
  BY NodeAssumption DEF NodeAssumption, Conns
<1>2. IsWellFoundedOn(R, Nat)
  BY NatLessThanWellFounded DEF OpToRel
<1>3. ASSUME T # {} PROVE FALSE
  <2>1. PICK c \in T : \A d \in T : ~(<<d, c>> \in R)
    <3> HIDE DEF T, R
    <3> QED BY <1>1, <1>2, <1>3, WFMin
  <2>2. \A d \in T : ~(d < c)
    BY <1>1, <2>1
  <2>3. \A d \in 0 .. c - 1 : d \in Conns /\ d < c
    BY <2>1, NodeAssumption DEF NodeAssumption, Conns
  <2> QED BY <2>1, <2>2, <2>3 DEF Existing
<1> QED BY <1>3

------------------------------------------------------------------------------
(* Steps after which no connection holds, or is open, that did not before.   *)
\* What is stored was stored where it is, and its header has not changed.
StillStored ==
    /\ \A c \in Conns : \A b \in Range(rxq'[c]) : b \in Range(rxq[c]) /\ hdr'[b] = hdr[b]
    /\ \A s \in ConnLess : \A b \in Range(sockq'[s]) : b \in Range(sockq[s]) /\ hdr'[b] = hdr[b]

LEMMA MatchFrame ==
  ASSUME Match, StillStored, InRoute',
         \A c \in Conns : Established(c)' =>
            /\ Established(c)
            /\ conn'[c].client = conn[c].client /\ conn'[c].src = conn[c].src
            /\ conn'[c].sport = conn[c].sport /\ conn'[c].dport = conn[c].dport
            /\ conn'[c].crcreq = conn[c].crcreq
  PROVE  Match'
<1>1. RightPackets'
  <2> SUFFICES ASSUME NEW c \in Conns, Established(c)', NEW b \in Range(rxq'[c])
               PROVE  Fitting(c, b)'
    BY DEF RightPackets
  <2> QED BY DEF StillStored, Match, RightPackets, Fitting, Matches, Established
<1>2. RightDatagrams'
  BY DEF StillStored, Match, RightDatagrams
<1>3. Numbers'
  BY DEF Match, Numbers, ClientPort
<1>4. NoTwins'
  BY DEF Match, NoTwins, Overlap
<1> QED BY <1>1, <1>2, <1>3, <1>4 DEF Match

LEMMA HandsStored ==
  ASSUME IInv, NEW x \in Ctx, HandsOnly(x), UNCHANGED rxq,
         \A s \in ConnLess : Range(sockq'[s]) \subseteq Range(sockq[s])
  PROVE  StillStored
<1>1. \A b \in Stored : hdr'[b] = hdr[b]
  BY NotStored DEF HandsOnly
<1> QED BY <1>1, NotStored DEF StillStored

LEMMA AsideStays ==
  ASSUME IInv, NEW x \in Ctx, Aside(x)
  PROVE  \A c \in Conns : Established(c)' <=> Established(c)
<1>1. PICK at \in PcValues \ HasConn : pc' = pc \/ Goto(x, at)
  BY DEF Aside
<1>2. \A y \in Ctx : pc'[y] = pc[y] \/ (pc[y] \notin Setting /\ pc'[y] \notin Setting)
  BY <1>1 DEF Aside, Goto, IInv, Locals, LocalType, HasConn
<1> QED BY <1>2 DEF Aside, Established

\* The steps of the router that end its call, or only begin it.
LEMMA RouterAsideMatch ==
  ASSUME IInv, Match, AsideRouter, pc'[Router] \in {"idle", "tx", "classify", "callback", "dgram"},
         \A s \in ConnLess : Range(sockq'[s]) \subseteq Range(sockq[s])
  PROVE  Match'
<1>1. Aside(Router) /\ HandsOnly(Router) /\ Router \in Ctx
  BY RouterAside, RouterHands, Contexts
<1>2. StillStored
  BY <1>1, HandsStored DEF Aside
<1>3. InRoute'
  BY DEF InRoute, BoundPort, FirstOfItsKind, Copied, ToEnqueue, Setting
<1> QED BY <1>1, <1>2, <1>3, AsideStays, MatchFrame DEF Aside

LEMMA RouteClassifyMatch ==
  ASSUME ~Preemptive, IInv, Match, RouteClassify
  PROVE  Match'
<1>1. Router \in Ctx /\ pc \in [Ctx -> PcValues] /\ UNCHANGED sockq
  BY Contexts DEF IInv, Locals, LocalType, RouteClassify, tables
<1>2. CASE Goto(Router, "lookup") /\ UNCHANGED <<hdr, hand>> /\ sk' = [sk EXCEPT ![Router] =
             IF PortEntry(Arrived.dport) = Closed THEN NoSock ELSE PortEntry(Arrived.dport)]
  <2>1. Aside(Router) /\ HandsOnly(Router)
    BY RouterAside, RouterHands DEF AsideRouter
  <2>2. StillStored
    BY <1>1, <2>1, HandsStored DEF Aside
  <2>3. pc'[Router] = "lookup" /\ Arrived' = Arrived
    BY <1>1, <1>2 DEF Goto, Arrived
  <2>4. BoundPort'
    <3>1. Arrived \in Header
      BY DEF RouteClassify, At, IInv, Locals, RouterOK, HasPacket, Packets, HdrType, Arrived
    <3>2. Arrived.dport \in Nat /\ MaxBind \in Nat
      BY <3>1, NodeAssumption DEF Header, Ports, NodeAssumption
    <3>3. Arrived.dport > MaxBind => PortEntry(Arrived.dport) = Closed
      BY <3>2 DEF PortEntry
    <3>4. sk'[Router] = IF PortEntry(Arrived.dport) = Closed THEN NoSock
                        ELSE PortEntry(Arrived.dport)
      BY <1>1, <1>2 DEF IInv, Locals, LocalType
    <3> QED BY <2>3, <3>2, <3>3, <3>4 DEF BoundPort
  <2>5. InRoute'
    BY <2>3, <2>4 DEF InRoute, FirstOfItsKind, Copied, ToEnqueue, Setting
  <2> QED BY <1>1, <2>1, <2>2, <2>5, AsideStays, MatchFrame DEF Aside
<1>3. CASE pc'[Router] \in {"idle", "tx", "callback", "dgram"}
  BY <1>1, <1>3, RouterAsideMatch DEF AsideRouter
<1>4. \/ Goto(Router, "idle") \/ Goto(Router, "tx") \/ Goto(Router, "callback")
      \/ Goto(Router, "dgram")
      \/ /\ Goto(Router, "lookup") /\ UNCHANGED <<hdr, hand>>
         /\ sk' = [sk EXCEPT ![Router] =
             IF PortEntry(Arrived.dport) = Closed THEN NoSock ELSE PortEntry(Arrived.dport)]
  BY DEF RouteClassify, DropHand, Transmit
<1>5. \A at : Goto(Router, at) => pc'[Router] = at
  BY <1>1 DEF Goto
<1> QED BY <1>2, <1>3, <1>4, <1>5

LEMMA RouteDgramMatch ==
  ASSUME ~Preemptive, IInv, Match, RouteDgram
  PROVE  Match'
<1>1. Router \in Ctx /\ pc \in [Ctx -> PcValues] /\ AsideRouter /\ sk[Router] \in ConnLess
      /\ pc[Router] = "dgram" /\ hand[Router] \in Buffers
  BY Contexts DEF IInv, Locals, LocalType, RouteDgram, AsideRouter, At, RouterOK, HasPacket
<1>2. pc'[Router] = "idle"
  BY <1>1 DEF RouteDgram, DropHand, Goto
<1>3. CASE UNCHANGED sockq
  BY <1>1, <1>2, <1>3, RouterAsideMatch
<1>4. CASE /\ Admits(sk[Router], Arrived.mark) /\ UNCHANGED hdr
           /\ sockq' = [sockq EXCEPT ![sk[Router]] = Append(@, hand[Router])]
  <2>s. PICK s \in ConnLess : s = sk[Router]
    BY <1>1
  <2>b. PICK b \in Buffers : b = hand[Router]
    BY <1>1
  <2>1. /\ sockq[s] \in Seq(Buffers) /\ IsInjective(sockq[s]) /\ b \notin Range(sockq[s])
        /\ sockq'[s] = Append(sockq[s], b)
        /\ \A t \in ConnLess \ {s} : sockq'[t] = sockq[t]
    BY <1>1, <1>4, <2>s, <2>b, NotStored, NodeAssumption DEF NodeAssumption, IInv, Packets,
       SockqType
  <2>2. Range(sockq'[s]) = Range(sockq[s]) \cup {b}
    BY <2>1, Enqueue
  <2>3. Passes(s \in CrcReq, hdr[b].mark)
    BY <1>4, <2>s, <2>b DEF Admits, Arrived
  <2>4. RightDatagrams'
    BY <1>4, <2>1, <2>2, <2>3 DEF Match, RightDatagrams
  <2>5. /\ UNCHANGED <<conn, cur, rxq>> /\ \A c \in Conns : Established(c)' <=> Established(c)
    BY <1>1, RouterAside, AsideStays DEF Aside
  <2>6. RightPackets' /\ Numbers' /\ NoTwins'
    BY <1>4, <2>5 DEF Match, RightPackets, Fitting, Matches, Numbers, NoTwins, Overlap
  <2>7. InRoute'
    BY <1>2 DEF InRoute, BoundPort, FirstOfItsKind, Copied, ToEnqueue, Setting
  <2> QED BY <2>4, <2>6, <2>7 DEF Match
<1> QED BY <1>1, <1>3, <1>4 DEF RouteDgram

LEMMA RouteLookupMatch ==
  ASSUME ~Preemptive, IInv, Calm, Match, RouteLookup
  PROVE  Match'
<1>1. /\ pc[Router] = "lookup" /\ Router \in Ctx /\ UNCHANGED <<conn, rxq, sockq>>
      /\ pc \in [Ctx -> PcValues] /\ cur \in [Ctx -> Conns \cup {NoConn}]
  BY Contexts DEF RouteLookup, At, tables, IInv, Locals, LocalType
<1>2. CASE DropHand(Router)
  <2>1. pc'[Router] = "idle" /\ AsideRouter
    BY <1>1, <1>2 DEF DropHand, Goto, AsideRouter
  <2> QED BY <1>1, <2>1, RouterAsideMatch
<1>3. CASE /\ UNCHANGED <<hdr, hand, sk, cur>> /\ Existing(Arrived) = {} /\ sk[Router] # NoSock
           /\ Admits(sk[Router], Arrived.mark) /\ Goto(Router, "alloc")
  <2>1. pc'[Router] = "alloc" /\ AsideRouter /\ Arrived' = Arrived
    BY <1>1, <1>3 DEF Goto, AsideRouter, Arrived
  <2>2. Aside(Router) /\ HandsOnly(Router)
    BY <2>1, RouterAside, RouterHands
  <2>3. StillStored
    BY <1>1, <2>2, HandsStored
  <2>4. BoundPort'
    <3>1. Arrived.dport <= MaxBind
      BY <1>1, <1>3 DEF Match, InRoute, BoundPort
    <3> QED BY <2>1, <3>1 DEF BoundPort
  <2>5. \A c \in Conns : ~Matches(c, Arrived)
    BY <1>3, NothingExisting
  <2>6. FirstOfItsKind'
    BY <1>1, <1>3, <2>1, <2>5 DEF FirstOfItsKind, Admits, Matches
  <2>7. InRoute'
    BY <2>1, <2>4, <2>6 DEF InRoute, Copied, ToEnqueue
  <2> QED BY <1>1, <2>2, <2>3, <2>7, AsideStays, MatchFrame
<1>4. CASE /\ UNCHANGED <<hdr, hand, sk>> /\ Goto(Router, "enqueue")
           /\ \E c \in Existing(Arrived) :
                 cur' = [cur EXCEPT ![Router] = c] /\ Passes(conn[c].crcreq, Arrived.mark)
  <2>1. PICK c \in Existing(Arrived) :
                 cur' = [cur EXCEPT ![Router] = c] /\ Passes(conn[c].crcreq, Arrived.mark)
    BY <1>4
  <2>2. /\ pc'[Router] = "enqueue" /\ cur'[Router] = c /\ Matches(c, Arrived) /\ c \in Conns
        /\ \A y \in Ctx \ {Router} : pc'[y] = pc[y] /\ cur'[y] = cur[y]
    BY <1>1, <1>4, <2>1 DEF Goto, Existing
  <2>3. ToEnqueue'
    BY <1>1, <1>4, <2>1, <2>2 DEF ToEnqueue, Fitting, Arrived, Matches
  <2>4. InRoute'
    BY <2>2, <2>3 DEF InRoute, BoundPort, FirstOfItsKind, Copied, Setting
  <2>5. \A d \in Conns : Established(d)' => Established(d)
    BY <1>1, <2>2 DEF Established, Setting
  <2>6. StillStored
    BY <1>1, <1>4 DEF StillStored
  <2> QED BY <1>1, <2>4, <2>5, <2>6, MatchFrame
<1> QED BY <1>2, <1>3, <1>4 DEF RouteLookup

------------------------------------------------------------------------------
(* Match, while a connection is set up and closed.                           *)
LEMMA RouterIdle == pc'[Router] = "idle" => InRoute'
BY DEF InRoute, BoundPort, FirstOfItsKind, Copied, ToEnqueue, Setting

LEMMA AppAlone ==
  ASSUME ~Preemptive, IInv, NEW a \in Apps, Runs(a), NEW at, Goto(a, at) \/ UNCHANGED pc
  PROVE  /\ pc[Router] = "idle" /\ InRoute'
         /\ \A y \in Ctx \ {a} : pc[y] = "idle" /\ pc'[y] = "idle"
<1>1. \A y \in Ctx \ {a} : pc[y] = "idle" /\ pc'[y] = "idle"
  BY RunsAlone, GotoMoves, Contexts
<1> QED BY <1>1, Contexts, RouterIdle

\* The router's call goes on with the same packet and socket.
LEMMA InRouteStays ==
  ASSUME InRoute, sk'[Router] = sk[Router],
         pc'[Router] \in Setting => pc[Router] \in Setting \cup {"alloc"} /\ Arrived' = Arrived,
         pc'[Router] \notin {"lookup", "alloc", "enqueue"},
         \A c \in Conns : Established(c)' => Established(c) /\ conn'[c] = conn[c],
         Copied'
  PROVE  InRoute'
<1>1. BoundPort'
  BY DEF InRoute, BoundPort, Setting
<1>2. FirstOfItsKind'
  BY DEF InRoute, FirstOfItsKind, Matches, Setting
<1> QED BY <1>1, <1>2 DEF InRoute, ToEnqueue

LEMMA TakeMatch ==
  ASSUME ~Preemptive, IInv, Match, NEW x \in Ctx, Runs(x), pc[x] \notin HasConn,
         x = Router => pc[x] = "alloc",
         NEW c \in Conns, ~conn[c].open, Take(x, c), UNCHANGED <<hdr, rxq, sockq, hand, sk>>
  PROVE  Match'
<1>1. /\ pc'[x] = "setType" /\ \A y \in Ctx \ {x} : pc[y] = "idle" /\ pc'[y] = "idle"
  BY GotoMoves DEF Take
<1>2. /\ cur'[x] = c /\ \A y \in Ctx \ {x} : cur'[y] = cur[y]
      /\ \A d \in Conns \ {c} : conn'[d] = conn[d]
  BY DEF Take, IInv, Locals, LocalType, Tables
<1>3. \A d \in Conns : Established(d)' => Established(d) /\ conn'[d] = conn[d]
  BY <1>1, <1>2 DEF Established, Setting, HasConn
<1>4. Copied'
  BY <1>1, Contexts DEF Copied
<1>5. InRoute'
  BY <1>1, <1>3, <1>4, InRouteStays, Contexts DEF Match, Arrived, Setting
<1> QED BY <1>3, <1>5, MatchFrame DEF StillStored

LEMMA RouteAllocMatch ==
  ASSUME ~Preemptive, IInv, Match, RouteAlloc
  PROVE  Match'
<1>1. Router \in Ctx /\ pc \in [Ctx -> PcValues] /\ UNCHANGED <<rxq, sockq>> /\ Runs(Router)
      /\ pc[Router] = "alloc"
  BY Contexts DEF IInv, Locals, LocalType, RouteAlloc, At
<1>2. CASE DropHand(Router)
  <2>1. pc'[Router] = "idle" /\ AsideRouter
    BY <1>1, <1>2 DEF DropHand, Goto, AsideRouter
  <2> QED BY <1>1, <2>1, RouterAsideMatch
<1>3. ASSUME NEW c \in Allocated, Take(Router, c), UNCHANGED <<pool, hdr, qfifo, hand, sk>>
      PROVE  Match'
  BY <1>1, <1>3, AllocatedClosed, TakeMatch DEF IInv, HasConn, Setting
<1> QED BY <1>2, <1>3 DEF RouteAlloc

LEMMA ConnectMatch ==
  ASSUME ~Preemptive, IInv, Match, NEW a \in Apps, NEW k \in Connects, Connect(a, k)
  PROVE  Match'
<1>1. PICK c \in Allocated : Take(a, c)
  BY DEF Connect
<1> QED BY <1>1, AllocatedClosed, TakeMatch, Contexts DEF Connect, At, IInv, packets, HasConn, Setting

\* A step from one stage of setting up or closing a connection to the next.
LEMMA StageMatch ==
  ASSUME ~Preemptive, IInv, Match, NEW x \in Ctx, Runs(x), StillStored,
         NEW at, Goto(x, at) \/ (UNCHANGED pc /\ at = pc[x]),
         pc[x] \in Setting <=> at \in Setting, at \notin {"lookup", "alloc", "enqueue"},
         UNCHANGED <<cur, sk, hand>>, x = Router /\ at \in Setting => Arrived' = Arrived,
         \A c \in Conns : Established(c) => conn'[c] = conn[c],
         \A c \in Conns : conn'[c].open => conn[c].open,
         x = Router => Copied'
  PROVE  Match'
<1>1. pc'[x] = at /\ \A y \in Ctx \ {x} : pc[y] = "idle" /\ pc'[y] = "idle"
  BY GotoMoves, RunsAlone
<1>2. \A c \in Conns : Established(c)' => Established(c) /\ conn'[c] = conn[c]
  BY <1>1 DEF Established, Setting
<1>3. CASE x = Router
  <2>1. InRoute'
    BY <1>1, <1>2, <1>3, InRouteStays DEF Match, Setting
  <2> QED BY <1>2, <2>1, MatchFrame
<1>4. CASE x # Router
  BY <1>1, <1>2, <1>4, RouterIdle, MatchFrame, Contexts
<1> QED BY <1>3, <1>4

LEMMA SetTypeMatch ==
  ASSUME ~Preemptive, IInv, Match, NEW x \in Ctx, SetType(x)
  PROVE  Match'
<1>1. /\ pc[x] = "setType" /\ Runs(x) /\ Goto(x, "copyIds") /\ cur[x] \in Conns
      /\ UNCHANGED <<hdr, hand, cur, sk, rxq, sockq>>
  BY DEF SetType, At, packets, IInv, Locals, CtxOK, HasConn, Setting
<1>2. /\ \A c \in Conns : c # cur[x] => conn'[c] = conn[c]
      /\ \A c \in Conns : conn'[c].open = conn[c].open
  BY DEF SetType, IInv, Tables, Conn
<1>3. \A c \in Conns : Established(c) => c # cur[x]
  BY <1>1 DEF Established, Setting
<1>4. x = Router => Copied'
  BY <1>1, GotoMoves DEF Copied
<1>5. StillStored /\ Arrived' = Arrived
  BY <1>1 DEF StillStored, Arrived
<1> QED BY <1>1, <1>2, <1>3, <1>4, <1>5, StageMatch DEF Setting

LEMMA CopyIdsMatch ==
  ASSUME ~Preemptive, IInv, Match, NEW x \in Ctx, CopyIds(x)
  PROVE  Match'
<1>1. /\ pc[x] = "copyIds" /\ Runs(x) /\ Goto(x, "newFlush") /\ cur[x] \in Conns
      /\ UNCHANGED <<hdr, hand, cur, sk, rxq, sockq>>
  BY DEF CopyIds, At, packets, IInv, Locals, CtxOK, HasConn, Setting
<1>2. /\ \A c \in Conns : c # cur[x] => conn'[c] = conn[c]
      /\ \A c \in Conns : conn'[c].open = conn[c].open
      /\ conn'[cur[x]].src = Wanted(x).src /\ conn'[cur[x]].sport = Wanted(x).sport
      /\ conn'[cur[x]].dport = Wanted(x).dport
  BY <1>1 DEF CopyIds, IInv, Tables, Conn
<1>3. \A c \in Conns : Established(c) => c # cur[x]
  BY <1>1 DEF Established, Setting
<1>4. StillStored /\ Arrived' = Arrived
  BY <1>1 DEF StillStored, Arrived
<1>5. x = Router => Copied'
  BY <1>1, <1>2, <1>4 DEF Copied, Wanted, Arrived
<1> QED BY <1>1, <1>2, <1>3, <1>4, <1>5, StageMatch DEF Setting

\* A packet is in one queue.
LEMMA OneQueue ==
  ASSUME IInv, NEW b \in Buffers, NEW c \in Conns, b \in Range(rxq[c])
  PROVE  /\ \A d \in Conns : b \in Range(rxq[d]) => d = c
         /\ \A s \in ConnLess : b \notin Range(sockq[s])
<1>1. PICK kind \in Kinds, j \in Indices : Sits(b, kind, j)
  BY DEF IInv, Packets, Owned
<1> QED BY <1>1 DEF Sits

LEMMA FlushMatch ==
  ASSUME ~Preemptive, IInv, Match, NEW x \in Ctx, Flush(x)
  PROVE  Match'
<1>1. /\ pc[x] \in {"newFlush", "closeFlush"} /\ Runs(x) /\ cur[x] \in Conns
      /\ UNCHANGED <<hand, cur, sk, sockq, conn>>
  BY DEF Flush, At, IInv, Locals, CtxOK, HasConn, Setting
<1>2. CASE /\ rxq[cur[x]] = <<>> /\ UNCHANGED <<pool, hdr, rxq>>
           /\ Goto(x, IF pc[x] = "newFlush" THEN "finish" ELSE "setClosed")
  <2>1. StillStored /\ Arrived' = Arrived
    BY <1>1, <1>2 DEF StillStored, Arrived
  <2>2. x = Router => Copied'
    <3>1. x = Router /\ pc'[Router] \in {"newFlush", "finish"} => pc[Router] = "newFlush"
      BY <1>1, <1>2, GotoMoves
    <3> QED BY <1>1, <2>1, <3>1 DEF Copied, Match, InRoute
  <2>3. CASE pc[x] = "newFlush"
    BY <1>1, <1>2, <2>1, <2>2, <2>3, StageMatch DEF Setting
  <2>4. CASE pc[x] = "closeFlush"
    BY <1>1, <1>2, <2>1, <2>2, <2>4, StageMatch DEF Setting
  <2> QED BY <1>1, <2>3, <2>4
<1>3. CASE /\ rxq[cur[x]] # <<>> /\ Release({Head(rxq[cur[x]])}) /\ UNCHANGED pc
           /\ rxq' = [rxq EXCEPT ![cur[x]] = Tail(@)]
  <2>c. PICK c \in Conns : c = cur[x]
    BY <1>1
  <2>b. PICK b : b = Head(rxq[c])
    OBVIOUS
  <2>1. /\ b \in Buffers /\ b \in Range(rxq[c]) /\ rxq'[c] = Tail(rxq[c])
        /\ Range(Tail(rxq[c])) = Range(rxq[c]) \ {b}
        /\ \A d \in Conns \ {c} : rxq'[d] = rxq[d]
    BY <1>3, <2>c, <2>b, Dequeue DEF IInv, Packets, RxqType
  <2>2. \A a \in Buffers \ {b} : hdr'[a] = hdr[a]
    BY <1>3, <2>c, <2>b DEF Release
  <2>3. /\ \A d \in Conns \ {c} : b \notin Range(rxq[d])
        /\ \A s \in ConnLess : b \notin Range(sockq[s])
    BY <2>1, OneQueue
  <2>4. StillStored
    <3>1. \A d \in Conns : \A a \in Range(rxq'[d]) : a \in Range(rxq[d]) /\ a # b
      BY <2>1, <2>3
    <3>2. \A s \in ConnLess : \A a \in Range(sockq'[s]) : a \in Range(sockq[s]) /\ a # b
      BY <1>1, <2>3
    <3> QED BY <2>2, <3>1, <3>2, NotStored DEF StillStored
  <2>5. pc[Router] = "newFlush" => Arrived' = Arrived
    <3>1. b # hand[Router]
      BY <2>1, NotStored, Contexts
    <3> QED BY <1>1, <2>2, <3>1 DEF Arrived, IInv, Locals, RouterOK, HasPacket, Setting
  <2>6. x = Router => Copied'
    BY <1>1, <1>3, <2>5 DEF Copied, Match, InRoute
  <2> QED BY <1>1, <1>3, <2>4, <2>5, <2>6, StageMatch DEF Setting
<1> QED BY <1>2, <1>3 DEF Flush

LEMMA SetClosedMatch ==
  ASSUME ~Preemptive, IInv, Match, NEW x \in Ctx, SetClosed(x)
  PROVE  Match'
<1>1. /\ pc[x] = "setClosed" /\ Runs(x) /\ Goto(x, "idle") /\ cur[x] \in Conns
      /\ UNCHANGED <<hdr, rxq, sockq>>
  BY DEF SetClosed, At, packets, IInv, Locals, CtxOK, HasConn, Setting
<1>2. /\ pc'[x] = "idle" /\ \A y \in Ctx \ {x} : pc[y] = "idle" /\ pc'[y] = "idle"
  BY <1>1, GotoMoves
<1>3. /\ ~conn'[cur[x]].open /\ \A c \in Conns : c # cur[x] => conn'[c] = conn[c]
  BY <1>1 DEF SetClosed, IInv, Tables, Conn
<1>4. \A c \in Conns : Established(c)' => Established(c) /\ conn'[c] = conn[c]
  BY <1>1, <1>2, <1>3 DEF Established, Setting
<1>5. InRoute' /\ StillStored
  BY <1>1, <1>2, RouterIdle, Contexts DEF StillStored
<1> QED BY <1>4, <1>5, MatchFrame

LEMMA FinishRouteMatch ==
  ASSUME ~Preemptive, IInv, Calm, Backlog, Match, FinishRoute
  PROVE  Match'
<1>c. PICK c \in Conns : c = cur[Router]
  BY Contexts DEF FinishRoute, At, IInv, Locals, CtxOK, HasConn, Setting
<1>1. /\ pc[Router] = "finish" /\ Runs(Router) /\ Router \in Ctx
      /\ UNCHANGED <<hdr, hand, rxq, sockq, cur, sk>>
      /\ pc'[Router] = "enqueue" /\ \A y \in Ctx \ {Router} : pc[y] = "idle" /\ pc'[y] = "idle"
      /\ sk[Router] # NoSock
  BY Contexts, GotoMoves, NodeAssumption DEF FinishRoute, At, packets, IInv, Locals, RouterOK,
     Setting, NodeAssumption
<1>2. /\ conn'[c].open = conn[c].open /\ conn'[c].client = conn[c].client
      /\ conn'[c].src = conn[c].src /\ conn'[c].sport = conn[c].sport
      /\ conn'[c].dport = conn[c].dport /\ conn'[c].crcreq = (sk[Router] \in CrcReq)
      /\ \A d \in Conns : d # c => conn'[d] = conn[d]
  BY <1>c DEF FinishRoute, IInv, Tables, Conn
<1>3. /\ conn[c].open /\ ~conn[c].client /\ rxq[c] = <<>>
      /\ conn[c].src = Arrived.src /\ conn[c].sport = Arrived.sport
      /\ conn[c].dport = Arrived.dport /\ Arrived.dport <= MaxBind
      /\ Passes(sk[Router] \in CrcReq, Arrived.mark)
      /\ \A d \in Conns : Established(d) => ~Matches(d, Arrived)
  <2>1. conn[c].open
    BY <1>1, <1>c, Contexts DEF Calm, HeldOpen
  <2>2. rxq[c] = <<>> /\ ~conn[c].client
    BY <1>1, <1>c DEF Calm, Emptied, Backlog, Kind, Setting
  <2>3. Copied /\ BoundPort /\ FirstOfItsKind
    BY DEF Match, InRoute
  <2> QED BY <1>1, <1>c, <2>1, <2>2, <2>3 DEF Copied, BoundPort, FirstOfItsKind, Setting
<1>4. \A d \in Conns : d # c => (Established(d)' <=> Established(d))
  BY <1>1, <1>2, <1>c DEF Established, Setting
<1>5. RightPackets'
  <2>1. Range(<<>>) = {}
    BY DEF Range
  <2> SUFFICES ASSUME NEW d \in Conns, Established(d)', NEW b \in Range(rxq[d])
               PROVE  Fitting(d, b)'
    BY <1>1 DEF RightPackets
  <2>2. d # c
    BY <1>3, <2>1
  <2> QED BY <1>1, <1>2, <1>4, <2>2 DEF Match, RightPackets, Fitting, Matches
<1>6. RightDatagrams'
  BY <1>1 DEF Match, RightDatagrams
<1>7. ToEnqueue'
  BY <1>1, <1>2, <1>3, <1>c DEF ToEnqueue, Fitting, Matches, Arrived
<1>8. InRoute'
  BY <1>1, <1>7 DEF InRoute, BoundPort, FirstOfItsKind, Copied, Setting
<1>9. Numbers'
  BY <1>2, <1>3, <1>4 DEF Match, Numbers, ClientPort
<1>10. NoTwins'
  <2> SUFFICES ASSUME NEW d \in Conns, NEW e \in Conns, d # e, Established(d)', Established(e)'
               PROVE  ~Overlap(d, e)'
    BY DEF NoTwins
  <2>1. CASE d # c /\ e # c
    BY <1>2, <1>4, <2>1 DEF Match, NoTwins, Overlap
  <2>2. CASE d = c
    BY <1>2, <1>3, <1>4, <2>2 DEF Overlap, Matches, Established
  <2>3. CASE e = c
    BY <1>2, <1>3, <1>4, <2>3 DEF Overlap, Matches, Established
  <2> QED BY <2>1, <2>2, <2>3
<1> QED BY <1>5, <1>6, <1>8, <1>9, <1>10 DEF Match

LEMMA FinishConnectMatch ==
  ASSUME ~Preemptive, IInv, Calm, Backlog, Match, NEW a \in Apps, FinishConnect(a)
  PROVE  Match'
<1>c. PICK c \in Conns : c = cur[a]
  BY Contexts DEF FinishConnect, At, IInv, Locals, CtxOK, HasConn, Setting
<1>1. /\ pc[a] = "finish" /\ Runs(a) /\ a \in Ctx /\ a # Router
      /\ UNCHANGED <<hdr, hand, rxq, sockq, cur, sk>>
      /\ pc'[a] = "idle" /\ \A y \in Ctx \ {a} : pc[y] = "idle" /\ pc'[y] = "idle"
  BY Contexts, GotoMoves DEF FinishConnect, At, packets
<1>2. /\ conn'[c].open = conn[c].open /\ conn'[c].client = conn[c].client
      /\ conn'[c].dport = ClientPort(c)
      /\ \A d \in Conns : d # c => conn'[d] = conn[d]
  BY <1>c DEF FinishConnect, IInv, Tables, Conn
<1>3. conn[c].client /\ rxq[c] = <<>>
  BY <1>1, <1>c DEF Calm, Emptied, Backlog, Kind, Setting
<1>4. \A d \in Conns : d # c => (Established(d)' <=> Established(d))
  BY <1>1, <1>2, <1>c DEF Established, Setting
<1>5. RightPackets'
  <2>1. Range(<<>>) = {}
    BY DEF Range
  <2> SUFFICES ASSUME NEW d \in Conns, Established(d)', NEW b \in Range(rxq[d])
               PROVE  Fitting(d, b)'
    BY <1>1 DEF RightPackets
  <2>2. d # c
    BY <1>3, <2>1
  <2> QED BY <1>1, <1>2, <1>4, <2>2 DEF Match, RightPackets, Fitting, Matches
<1>6. RightDatagrams'
  BY <1>1 DEF Match, RightDatagrams
<1>7. InRoute'
  BY <1>1, RouterIdle, Contexts
<1>8. Numbers'
  BY <1>2, <1>3, <1>4 DEF Match, Numbers, ClientPort
<1>9. NoTwins'
  <2>1. \A d \in Conns : d # c /\ Established(d)' => conn'[d].dport # ClientPort(c)
    <3> SUFFICES ASSUME NEW d \in Conns, d # c, Established(d)' PROVE conn[d].dport # ClientPort(c)
      BY <1>2
    <3>1. IF conn[d].client THEN conn[d].dport = ClientPort(d) ELSE conn[d].dport <= MaxBind
      BY <1>4 DEF Match, Numbers
    <3>2. c \in Nat /\ d \in Nat /\ MaxBind \in Nat
      BY NodeAssumption DEF Conns, NodeAssumption
    <3> QED BY <3>1, <3>2 DEF ClientPort
  <2> QED BY <1>2, <1>4, <2>1 DEF Match, NoTwins, Overlap
<1> QED BY <1>5, <1>6, <1>7, <1>8, <1>9 DEF Match

LEMMA RouteEnqueueMatch ==
  ASSUME ~Preemptive, IInv, Match, RouteEnqueue
  PROVE  Match'
<1>c. PICK c \in Conns : c = cur[Router]
  BY Contexts DEF RouteEnqueue, At, IInv, Locals, CtxOK, HasConn, Setting
<1>b. PICK b \in Buffers : b = hand[Router]
  BY DEF RouteEnqueue, At, IInv, Locals, RouterOK, HasPacket
<1>1. /\ pc[Router] = "enqueue" /\ Runs(Router) /\ Router \in Ctx /\ UNCHANGED <<conn, sockq>>
      /\ cur \in [Ctx -> Conns \cup {NoConn}] /\ NoConn \notin Conns
      /\ \A y \in Ctx \ {Router} : pc[y] = "idle"
  BY Contexts, RunsAlone DEF RouteEnqueue, At, IInv, Locals, LocalType
<1>2. CASE Deliver(c)
  <2>1. /\ pc'[Router] = "post" /\ \A y \in Ctx \ {Router} : pc'[y] = "idle"
        /\ UNCHANGED <<cur, hdr>>
    BY <1>1, <1>2, GotoMoves DEF Deliver
  <2>2. \A d \in Conns : Established(d)' <=> Established(d)
    BY <1>1, <2>1 DEF Established, Setting
  <2>3. Range(rxq'[c]) = Range(rxq[c]) \cup {b} /\ \A d \in Conns \ {c} : rxq'[d] = rxq[d]
    <3>1. /\ rxq[c] \in Seq(Buffers) /\ IsInjective(rxq[c]) /\ b \notin Range(rxq[c])
          /\ rxq'[c] = Append(rxq[c], b) /\ \A d \in Conns \ {c} : rxq'[d] = rxq[d]
      BY <1>1, <1>2, <1>b, NotStored DEF Deliver, IInv, Packets, RxqType
    <3> QED BY <3>1, Enqueue
  <2>4. RightPackets'
    <3>1. Fitting(c, b)
      BY <1>1, <1>c, <1>b DEF Match, InRoute, ToEnqueue
    <3> QED BY <1>1, <2>1, <2>2, <2>3, <3>1 DEF Match, RightPackets, Fitting, Matches
  <2>5. InRoute'
    BY <2>1 DEF InRoute, BoundPort, FirstOfItsKind, Copied, ToEnqueue, Setting
  <2>6. RightDatagrams' /\ Numbers' /\ NoTwins'
    BY <1>1, <2>1, <2>2 DEF Match, RightDatagrams, Numbers, NoTwins, Overlap
  <2> QED BY <2>4, <2>5, <2>6 DEF Match
<1>3. CASE Overflow(c)
  <2>1. /\ pc'[Router] = "idle" /\ \A y \in Ctx \ {Router} : pc'[y] = "idle" /\ cur'[y] = cur[y]
        /\ UNCHANGED rxq /\ HandsOnly(Router)
    BY <1>1, <1>3, GotoMoves, EmitHands DEF Overflow, DropHand
  <2>2. \A d \in Conns : Established(d)' <=> Established(d)
    BY <1>1, <2>1 DEF Established, Setting
  <2>3. StillStored /\ InRoute'
    BY <1>1, <2>1, HandsStored, RouterIdle
  <2> QED BY <1>1, <2>2, <2>3, MatchFrame
<1> QED BY <1>2, <1>3, <1>c DEF RouteEnqueue

\* Posting, or not, and the end of the call.
LEMMA RoutePostMatch ==
  ASSUME ~Preemptive, IInv, Match, RoutePost \/ RouteUnpost
  PROVE  Match'
<1>1. /\ pc[Router] \in {"post", "unpost"} /\ Runs(Router) /\ Router \in Ctx
      /\ UNCHANGED <<hdr, rxq>>
      /\ cur[Router] \in Conns /\ \A y \in Ctx \ {Router} : cur'[y] = cur[y]
  BY Contexts DEF RoutePost, RouteUnpost, At, packets, IInv, Locals, LocalType, CtxOK, HasConn
<1>2. \A s \in ConnLess : sockq'[s] = sockq[s]
  <2>1. conn[cur[Router]].dest \notin ConnLess
    BY <1>1 DEF IInv, Tables
  <2>2. CASE UNCHANGED sockq
    BY <2>2
  <2>3. CASE ~UNCHANGED sockq
    <3>1. PICK t : /\ t = conn[cur[Router]].dest
                   /\ sockq' = [sockq EXCEPT ![t] = Append(@, cur[Router])]
      BY <2>3 DEF RoutePost, RouteUnpost
    <3> QED BY <2>1, <3>1, NodeAssumption DEF IInv, Packets, SockqType, NodeAssumption
  <2> QED BY <2>2, <2>3
<1>3. \A c \in Conns : /\ conn'[c].open = conn[c].open /\ conn'[c].client = conn[c].client
                       /\ conn'[c].src = conn[c].src /\ conn'[c].sport = conn[c].sport
                       /\ conn'[c].dport = conn[c].dport /\ conn'[c].crcreq = conn[c].crcreq
  BY DEF RoutePost, RouteUnpost, IInv, Tables, Conn
<1>4. /\ pc'[Router] \in {"idle", "unpost", "closeFlush"}
      /\ \A y \in Ctx \ {Router} : pc[y] = "idle" /\ pc'[y] = "idle"
  <2>1. \E at \in {"idle", "unpost", "closeFlush"} : Goto(Router, at)
    BY DEF RoutePost, RouteUnpost
  <2> QED BY <1>1, <2>1, GotoMoves
<1>5. \A c \in Conns : Established(c)' <=> Established(c)
  BY <1>1, <1>3, <1>4 DEF Established, Setting
<1>6. InRoute' /\ StillStored
  BY <1>1, <1>2, <1>4
     DEF InRoute, BoundPort, FirstOfItsKind, Copied, ToEnqueue, Setting, StillStored
<1> QED BY <1>3, <1>5, <1>6, MatchFrame

------------------------------------------------------------------------------
(* Match, for the calls of an application.                                   *)

\* Steps that set no connection up and store nothing.
LEMMA AppMatch ==
  ASSUME ~Preemptive, IInv, Match, NEW a \in Apps, Runs(a), StillStored,
         pc[a] \notin Setting, NEW at, Goto(a, at) \/ UNCHANGED pc, at \notin Setting,
         UNCHANGED conn
  PROVE  Match'
<1>1. /\ InRoute' /\ pc'[a] \notin Setting
      /\ \A y \in Ctx \ {a} : pc[y] = "idle" /\ pc'[y] = "idle"
  BY AppAlone, GotoMoves, Contexts
<1>2. \A c \in Conns : Established(c)' => Established(c)
  BY <1>1, Contexts DEF Established, Setting
<1> QED BY <1>1, <1>2, MatchFrame

LEMMA ReadMatch ==
  ASSUME ~Preemptive, IInv, Match, NEW a \in Apps, Read(a)
  PROVE  Match'
<1>c. PICK c \in Conns : c = cur[a]
  BY Contexts DEF Read, IInv, Locals, LocalType
<1>1. /\ Runs(a) /\ pc[a] \notin Setting /\ UNCHANGED <<conn, pc, hdr, sockq>>
      /\ rxq[c] # <<>> /\ rxq' = [rxq EXCEPT ![c] = Tail(@)]
  BY <1>c DEF Read, At, packets, Setting
<1>2. Range(rxq'[c]) \subseteq Range(rxq[c]) /\ \A d \in Conns \ {c} : rxq'[d] = rxq[d]
  BY <1>1, Dequeue DEF IInv, Packets, RxqType
<1>3. StillStored
  BY <1>1, <1>2 DEF StillStored
<1> QED BY <1>1, <1>3, AppMatch

LEMMA CloseAcceptMatch ==
  ASSUME ~Preemptive, IInv, Match, NEW a \in Apps, Close(a) \/ \E s \in Sockets : Accept(a, s)
  PROVE  Match'
<1>1. /\ Runs(a) /\ pc[a] = "idle" /\ UNCHANGED <<conn, hdr, rxq>>
      /\ Goto(a, "closeFlush") \/ UNCHANGED pc
  BY DEF Close, Accept, At, packets, tables
<1>2. \A s \in ConnLess : sockq'[s] = sockq[s]
  <2>1. CASE Close(a)
    BY <2>1 DEF Close, tables
  <2>2. ASSUME NEW t \in Sockets, Accept(a, t) PROVE \A s \in ConnLess : sockq'[s] = sockq[s]
    BY <2>2, NodeAssumption DEF Accept, IInv, Packets, SockqType, NodeAssumption
  <2> QED BY <2>1, <2>2
<1>3. StillStored
  BY <1>1, <1>2 DEF StillStored
<1> QED BY <1>1, <1>3, AppMatch DEF Setting

LEMMA AppHands ==
  ASSUME IInv, NEW a \in Apps, AsideApp(a), ~Drain(a)
  PROVE  HandsOnly(a)
<1>1. CASE FreePacket(a)
  BY <1>1, EmitHands, Contexts DEF FreePacket
<1>2. CASE Send(a)
  BY <1>2, EmitHands, Contexts DEF Send
<1>3. CASE SendTo(a)
  BY <1>3, EmitHands, Contexts DEF SendTo, Reply
<1>4. CASE TxDone(a)
  BY <1>4 DEF TxDone, Release, HandsOnly
<1>5. CASE ~(FreePacket(a) \/ Send(a) \/ SendTo(a) \/ TxDone(a))
  BY <1>5 DEF AsideApp, NewPacket, Recvfrom, SocketClose, SetPort, packets, HandsOnly
<1> QED BY <1>1, <1>2, <1>3, <1>4, <1>5

\* The socket of a call hands its first packet over, and a drained one frees it.
LEMMA AppDequeues ==
  ASSUME IInv, NEW s \in ConnLess, sockq[s] # <<>>, sockq' = [sockq EXCEPT ![s] = Tail(@)]
  PROVE  /\ Head(sockq[s]) \in Range(sockq[s])
         /\ Range(sockq'[s]) = Range(sockq[s]) \ {Head(sockq[s])}
         /\ \A t \in ConnLess \ {s} : sockq'[t] = sockq[t]
BY Dequeue, NodeAssumption DEF NodeAssumption, IInv, Packets, SockqType

LEMMA AsideAppMatch ==
  ASSUME ~Preemptive, IInv, Match, NEW a \in Apps, AsideApp(a), ~Drain(a)
  PROVE  Match'
<1>1. Aside(a) /\ HandsOnly(a) /\ a \in Ctx
  BY AppAside, AppHands, Contexts
<1>2. \A s \in ConnLess : Range(sockq'[s]) \subseteq Range(sockq[s])
  <2>1. CASE \E s \in Sockets : Recvfrom(a, s)
    BY <2>1, AppDequeues DEF Recvfrom
  <2>2. CASE ~ \E s \in Sockets : Recvfrom(a, s)
    BY <2>2 DEF AsideApp, NewPacket, FreePacket, Send, SendTo, TxDone, SocketClose, SetPort, tables
  <2> QED BY <2>1, <2>2
<1>3. StillStored
  BY <1>1, <1>2, HandsStored DEF Aside
<1>4. PICK at \in PcValues \ HasConn : pc' = pc \/ Goto(a, at)
  BY <1>1 DEF Aside
<1> QED BY <1>1, <1>3, <1>4, AppMatch DEF Aside, HasConn

LEMMA DrainMatch ==
  ASSUME ~Preemptive, IInv, Match, NEW a \in Apps, Drain(a)
  PROVE  Match'
<1>s. PICK s \in Sockets : s = sk[a]
  BY DEF Drain, At, IInv, Locals, AppOK
<1>1. /\ Runs(a) /\ pc[a] \notin Setting /\ UNCHANGED <<conn, rxq>>
      /\ Goto(a, "idle") \/ UNCHANGED pc
  BY DEF Drain, At, Setting
<1>2. CASE s \in ConnLess /\ sockq[s] # <<>>
  <2>b. PICK b : b = Head(sockq[s])
    OBVIOUS
  <2>1. Release({b}) /\ sockq' = [sockq EXCEPT ![s] = Tail(@)]
    BY <1>2, <1>s, <2>b DEF Drain
  <2>2. /\ b \in Range(sockq[s]) /\ Range(sockq'[s]) = Range(sockq[s]) \ {b}
        /\ \A t \in ConnLess \ {s} : sockq'[t] = sockq[t]
    BY <1>2, <2>b, <2>1, AppDequeues
  <2>3. \A c \in Buffers \ {b} : hdr'[c] = hdr[c]
    BY <2>1 DEF Release
  <2>4. b \in Buffers
    BY <1>2, <2>2, NotStored
  <2>5. PICK kind \in Kinds, j \in Indices : Sits(b, kind, j)
    BY <2>4 DEF IInv, Packets, Owned
  <2>6. kind = "sockq" /\ j = s
    BY <1>2, <2>2, <2>5 DEF Sits
  <2>7. \A c \in Conns : \A d \in Range(rxq'[c]) : d \in Range(rxq[c]) /\ d # b
    BY <1>1, <2>5, <2>6 DEF Sits
  <2>8. \A t \in ConnLess : \A d \in Range(sockq'[t]) : d \in Range(sockq[t]) /\ d # b
    BY <2>2, <2>5, <2>6 DEF Sits
  <2>9. StillStored
    BY <2>3, <2>7, <2>8, NotStored DEF StillStored
  <2> QED BY <1>1, <2>9, AppMatch DEF Setting
<1>3. CASE ~(s \in ConnLess /\ sockq[s] # <<>>)
  <2>1. /\ UNCHANGED hdr
        /\ UNCHANGED sockq \/ (sockq' = [sockq EXCEPT ![s] = Tail(@)] /\ s \notin ConnLess)
    BY <1>3, <1>s DEF Drain
  <2>2. \A t \in ConnLess : sockq'[t] = sockq[t]
    BY <2>1, NodeAssumption DEF IInv, Packets, SockqType, NodeAssumption
  <2>3. StillStored
    BY <1>1, <2>1, <2>2 DEF StillStored
  <2> QED BY <1>1, <2>3, AppMatch DEF Setting
<1> QED BY <1>2, <1>3

LEMMA InterruptMatch ==
  ASSUME IInv, Match, Interrupt \/ UNCHANGED vars
  PROVE  Match'
<1>1. UNCHANGED <<conn, rxq, pc, cur, sockq, sk, hand>>
  BY DEF Interrupt, RxStart, RxDone, tables, vars
<1>2. \A b \in Buffers \ {driver} : hdr'[b] = hdr[b]
  <2>1. CASE RxStart \/ UNCHANGED vars
    BY <2>1 DEF RxStart, vars
  <2>2. CASE \E h \in Wire : RxDone(h)
    BY <2>2 DEF RxDone, QfifoWrite, Release, IInv, Packets, HdrType
  <2> QED BY <2>1, <2>2 DEF Interrupt
<1>3. StillStored
  BY <1>1, <1>2, NotStored DEF StillStored
<1>4. pc[Router] \in HasPacket => Arrived' = Arrived
  BY <1>1, <1>2, NotStored, Contexts DEF Arrived, IInv, Locals, RouterOK
<1>5. \A c \in Conns : Established(c)' <=> Established(c)
  BY <1>1 DEF Established
<1>6. BoundPort' /\ FirstOfItsKind' /\ Copied' /\ ToEnqueue'
  BY <1>1, <1>4, <1>5 DEF Match, InRoute, BoundPort, FirstOfItsKind, Copied, ToEnqueue, Fitting,
     Matches, HasPacket, Setting, Arrived
<1> QED BY <1>1, <1>3, <1>5, <1>6, MatchFrame DEF InRoute

LEMMA InitMatch == Init => Match
<1>1. ASSUME Init
      PROVE  /\ \A x \in Ctx : pc[x] = "idle"
             /\ \A c \in Conns : ~Established(c)
             /\ \A s \in ConnLess : sockq[s] = <<>>
  BY <1>1, NodeAssumption DEF Init, FreshConn, Established, NodeAssumption
<1>2. Range(<<>>) = {}
  BY DEF Range
<1> QED BY <1>1, <1>2, Contexts DEF Match, RightPackets, RightDatagrams, InRoute, BoundPort,
           FirstOfItsKind, Copied, ToEnqueue, Numbers, NoTwins, Setting

LEMMA StepMatch ==
  ASSUME ~Preemptive, IInv, Calm, Backlog, Match, [Next]_vars
  PROVE  Match'
<1>1. CASE Interrupt \/ UNCHANGED vars
  BY <1>1, InterruptMatch
<1>2. ASSUME AsideRouter, RouteRead \/ CallbackDone \/ TxDone(Router) PROVE Match'
  <2>1. pc'[Router] \in {"idle", "tx", "classify"} /\ UNCHANGED sockq
    <3>1. \E at \in {"idle", "tx", "classify"} : Goto(Router, at)
      BY <1>2, EmitFrame, Contexts DEF RouteRead, CallbackDone, TxDone, Reply
    <3> QED BY <1>2, <3>1, Contexts DEF Goto, IInv, Locals, LocalType, RouteRead, CallbackDone,
               TxDone, tables
  <2> QED BY <1>2, <2>1, RouterAsideMatch
<1>3. CASE RouteRead \/ RouteStep
  BY <1>2, <1>3, RouteClassifyMatch, RouteDgramMatch, RouteLookupMatch, RouteAllocMatch,
     FinishRouteMatch, RouteEnqueueMatch, RoutePostMatch DEF RouteStep, AsideRouter
<1>4. ASSUME NEW x \in Ctx, Step(x) PROVE Match'
  <2>1. CASE TxDone(x)
    <3>1. CASE x = Router
      BY <1>2, <2>1, <3>1 DEF AsideRouter
    <3>2. CASE x \in Apps
      <4>1. ~Drain(x)
        BY <2>1 DEF TxDone, Drain, At
      <4> QED BY <2>1, <3>2, <4>1, AsideAppMatch DEF AsideApp
    <3> QED BY <3>1, <3>2 DEF Ctx
  <2> QED BY <1>4, <2>1, SetTypeMatch, CopyIdsMatch, FlushMatch, SetClosedMatch DEF Step
<1>5. ASSUME NEW a \in Apps, AppStep(a) PROVE Match'
  BY <1>5, FinishConnectMatch, DrainMatch DEF AppStep
<1>6. ASSUME NEW a \in Apps, Call(a) PROVE Match'
  <2>1. CASE AsideApp(a)
    BY <2>1, AsideAppMatch, DrainMatch
  <2> QED BY <1>6, <2>1, ConnectMatch, ReadMatch, CloseAcceptMatch DEF Call, AsideApp
<1> QED BY <1>1, <1>3, <1>4, <1>5, <1>6 DEF Next

LEMMA MatchAlways ==
  ASSUME ~Preemptive
  PROVE  Spec => [](IInv /\ Calm /\ Backlog /\ Match)
<1>1. Init => IInv /\ Calm /\ Backlog /\ Match
  BY InitEstablishes, InitCalm, InitBacklog, InitMatch
<1>2. IInv /\ Calm /\ Backlog /\ Match /\ [Next]_vars => (IInv /\ Calm /\ Backlog /\ Match)'
  BY StepKeeps, StepCalm, StepBacklog, StepMatch
<1> QED BY <1>1, <1>2, PTL DEF Spec

(* What a connection holds was sent to it: the port is its own, an incoming   *)
(* connection gets the packets of its peer only, and each packet passed the   *)
(* check against the options of the connection, or of the connection-less     *)
(* socket, it is queued for (csp_route_security_check).                       *)
THEOREM PacketsAreRight ==
  ASSUME ~Preemptive
  PROVE  Spec => []RightConn
<1>1. ASSUME IInv, Calm, Backlog, Match PROVE RightConn
  <2>1. ASSUME NEW c \in Conns, Established(c), NEW i \in DOMAIN rxq[c]
        PROVE  Matches(c, hdr[rxq[c][i]]) /\ Passes(conn[c].crcreq, hdr[rxq[c][i]].mark)
    <3>1. rxq[c][i] \in Range(rxq[c])
      BY DEF Range
    <3> QED BY <1>1, <2>1, <3>1 DEF Match, RightPackets, Fitting
  <2>2. ASSUME NEW s \in ConnLess, NEW i \in DOMAIN sockq[s]
        PROVE  Passes(s \in CrcReq, hdr[sockq[s][i]].mark)
    <3>1. sockq[s][i] \in Range(sockq[s])
      BY DEF Range
    <3> QED BY <1>1, <3>1 DEF Match, RightDatagrams
  <2> QED BY <2>1, <2>2 DEF RightConn
<1> QED BY <1>1, MatchAlways, PTL

(* Two established connections never match the same packet, so the first one  *)
(* that csp_conn_find_existing finds is the only one: outgoing connections    *)
(* have ports of their own, above those that can be bound, and an incoming    *)
(* connection is only opened for a packet that no other one matches.          *)
THEOREM ConnectionsAreDistinct ==
  ASSUME ~Preemptive
  PROVE  Spec => []NoTwins
<1>1. IInv /\ Calm /\ Backlog /\ Match => NoTwins
  BY DEF Match
<1> QED BY <1>1, MatchAlways, PTL

================================================================================
