------------------------------ MODULE CspSession ------------------------------
(***************************************************************************)
(* A client and a server over links that lose packets.  The client has one *)
(* connection (CSP_CONN_MAX is 1), hence one source port for all its        *)
(* requests, and runs in a main loop: csp_read returns at once, and a call  *)
(* runs to its end before the router does.  The server answers services     *)
(* with csp_service_handler, as a callback, and requests for a file with    *)
(* csp_sfp_send on a connection of its own for each.                        *)
(***************************************************************************)
EXTENDS CspService, CspSfp, SequencesExt

CONSTANTS
    Kinds,          \* what may be asked: [service, flaw, total]
    MaxRequests,    \* bound on the number of requests
    RxqLen,         \* CSP_CONN_RXQUEUE_LEN
    NoPort,         \* the port of a closed connection
    Nothing         \* no event

ASSUME SessionAssumption ==
    /\ Kinds \subseteq [service : Services \cup {"file"}, flaw : STRING, total : Nat]
    /\ MaxRequests \in Nat /\ RxqLen \in Nat \ {0} /\ NoPort # "file"

VARIABLES
    port,       \* conn->idout.dport of the client's connection, if it is open
    rxq,        \* its receive queue
    recv,       \* the locals of csp_sfp_recv_fp, while the client is in it
    out,        \* requests on the way to the server, or in its router queue
    back,       \* packets on the way to the client, or in its router queue
    event,      \* what the call of this step returned
    asked,      \* history: what each request asked
    last,       \*          the last request whose answer was returned
    done        \*          requests whose answer was returned, refused or lost

vars == <<port, rxq, recv, out, back, event, asked, last, done>>

Init == /\ port = NoPort /\ rxq = <<>> /\ recv = Started /\ out = <<>> /\ back = <<>>
        /\ event = Nothing /\ asked = <<>> /\ last = 0 /\ done = {}

------------------------------------------------------------------------------
(* Packets to the client.                                                     *)

Answer(n) == [req |-> n, frag |-> FALSE, len |-> AnswerLen(asked[n].service)]

FragmentsOf(n) ==
    LET fragments == Fragments(asked[n].total)
    IN  [k \in DOMAIN fragments |->
            [req |-> n, frag |-> TRUE, offset |-> fragments[k].offset,
             total |-> fragments[k].total, size |-> fragments[k].size]]

ReqsOf(queue) == {queue[k].req : k \in DOMAIN queue}

------------------------------------------------------------------------------
(* The client's calls.  One that gets no buffer changes nothing.              *)

\* A packet with request n of this kind leaves.
Sends(kind, n) == /\ n <= MaxRequests
                  /\ asked' = Append(asked, kind) /\ out' = Append(out, n)

PortOf(kind) == IF kind.service = "file" THEN "file" ELSE Port(kind.service)

\* csp_connect, which flushes the queue.
Connect(kind) == /\ port = NoPort
                 /\ port' = PortOf(kind) /\ rxq' = <<>> /\ event' = Nothing
                 /\ UNCHANGED <<recv, out, back, asked, last, done>>

\* csp_close.
Close == /\ port # NoPort /\ recv = Started
         /\ port' = NoPort /\ rxq' = <<>> /\ event' = Nothing
         /\ done' = done \cup ReqsOf(rxq)
         /\ UNCHANGED <<recv, out, back, asked, last>>

\* csp_transaction_w_opts, and with it csp_get_memfree, csp_cmp, csp_reboot and the
\* like; csp_ping, csp_ping_noreply and csp_ps.  The queue was emptied by csp_connect
\* and the router has not run when they read: they return that no answer came.
OneShot(kind) == /\ port = NoPort
                 /\ kind.service # "file" /\ Sends(kind, Len(asked) + 1)
                 /\ rxq' = <<>> /\ event' = Nothing
                 /\ UNCHANGED <<port, recv, back, last, done>>

\* csp_send alone.
Ask(kind) == /\ port = PortOf(kind) /\ recv = Started
             /\ Sends(kind, Len(asked) + 1)
             /\ event' = Nothing
             /\ UNCHANGED <<port, rxq, recv, back, last, done>>

\* Mutant: the packet is read but not taken from the queue.
TakeKept == UNCHANGED rxq

Take == rxq' = Tail(rxq)

\* The client has a packet from the head of its queue.
Return(p) == /\ event' = [call |-> "answer", packet |-> p]
             /\ last' = p.req /\ done' = done \cup {p.req}

\* csp_read, by a client that expects an answer.
Read == /\ port \notin {NoPort, "file"} /\ rxq # <<>>
        /\ Take /\ Return(Head(rxq))
        /\ UNCHANGED <<port, recv, out, back, asked>>

\* csp_transaction_persistent: the packet it reads is in the queue before it sends.  If
\* there is none it returns as if no answer had come, which is Ask.
Transact(kind) ==
    /\ port = PortOf(kind) /\ kind.service # "file" /\ rxq # <<>>
    /\ Sends(kind, Len(asked) + 1) /\ Take
    /\ LET p == Head(rxq)
       IN  IF ~p.frag /\ Expects(kind.service, p.len)
           THEN Return(p)
           ELSE /\ event' = [call |-> "refused", req |-> p.req, by |-> kind.service]
                /\ done' = done \cup {p.req} /\ UNCHANGED last
    /\ UNCHANGED <<port, recv, back>>

\* A round of csp_sfp_recv_fp: the packet it reads is freed.  The first begins the call.
SfpRecv == /\ port = "file" /\ rxq # <<>>
           /\ Take /\ done' = done \cup {Head(rxq).req}
           /\ \E memory \in BOOLEAN :
                LET r == Taken(recv, Head(rxq), memory)
                IN  IF r.result = "more" THEN recv' = r /\ event' = Nothing
                    ELSE /\ recv' = Started
                         /\ event' = [call |-> "recv", pieces |-> r.pieces, result |-> r.result]
           /\ UNCHANGED <<port, out, back, asked, last>>

\* The queue is empty before the transfer is complete; csp_read does not wait.
SfpTimeout == /\ recv # Started /\ rxq = <<>>
              /\ recv' = Started
              /\ event' = [call |-> "recv", pieces |-> recv.pieces, result |-> "timedout"]
              /\ UNCHANGED <<port, rxq, out, back, asked, last, done>>

------------------------------------------------------------------------------
(* The client's router, the server and the links.                             *)

\* Mutant: a full queue is not noticed.
RoomAlways == TRUE

\* csp_conn_enqueue_packet finds room.
Room == Len(rxq) < RxqLen

\* csp_route_work, between two calls of the client: whatever comes to the source port
\* goes to the connection, if it is open and has room.
Route == /\ recv = Started /\ back # <<>> /\ back' = Tail(back)
         /\ IF port # NoPort /\ Room
            THEN rxq' = Append(rxq, Head(back)) /\ UNCHANGED done
            ELSE done' = done \cup {Head(back).req} /\ UNCHANGED rxq
         /\ event' = Nothing /\ UNCHANGED <<port, recv, out, asked, last>>

Handle == /\ out # <<>> /\ asked[Head(out)].service # "file"
          /\ out' = Tail(out)
          /\ LET n == Head(out)
             IN  back' = IF Answers(asked[n].service, asked[n].flaw)
                         THEN Append(back, Answer(n)) ELSE back
          /\ event' = Nothing /\ UNCHANGED <<port, rxq, recv, asked, last, done>>

\* The server has buffers for the first k fragments.
SfpSend == /\ out # <<>> /\ asked[Head(out)].service = "file"
           /\ out' = Tail(out)
           /\ LET fragments == FragmentsOf(Head(out))
              IN  \E k \in 0 .. Len(fragments) : back' = back \o SubSeq(fragments, 1, k)
           /\ event' = Nothing /\ UNCHANGED <<port, rxq, recv, asked, last, done>>

LoseRequest == /\ out # <<>> /\ out' = Tail(out)
               /\ done' = done \cup {Head(out)}
               /\ event' = Nothing /\ UNCHANGED <<port, rxq, recv, back, asked, last>>

LosePacket == /\ back # <<>> /\ back' = Tail(back)
              /\ done' = done \cup {Head(back).req}
              /\ event' = Nothing /\ UNCHANGED <<port, rxq, recv, out, asked, last>>

Next == \/ Close \/ Read \/ SfpRecv \/ SfpTimeout
        \/ \E kind \in Kinds : Connect(kind) \/ OneShot(kind) \/ Ask(kind) \/ Transact(kind)
        \/ Route \/ Handle \/ SfpSend \/ LoseRequest \/ LosePacket

\* The main loops go on, and the client reads what has come as long as its connection
\* is open.  Nothing is assumed of the links.
Spec == Init /\ [][Next]_vars
FairSpec == Spec /\ WF_vars(Route) /\ WF_vars(Handle \/ SfpSend)
                 /\ WF_vars(Read \/ SfpRecv \/ SfpTimeout)

------------------------------------------------------------------------------
(* Properties.                                                                *)

Requests == 1 .. MaxRequests

Packet == [req : Requests, frag : {FALSE}, len : Lengths]
          \cup [req : Requests, frag : {TRUE}, offset : Nat, total : Nat, size : Nat]

IsPacket(p) == /\ p.req \in DOMAIN asked
               /\ IF p.frag THEN p \in ToSet(FragmentsOf(p.req)) ELSE p = Answer(p.req)

TypeOK == /\ port \in {NoPort} \cup {PortOf(kind) : kind \in Kinds}
          /\ asked \in Seq(Kinds) /\ Len(asked) <= MaxRequests
          /\ out \in Seq(DOMAIN asked)
          /\ rxq \in Seq(Packet) /\ back \in Seq(Packet) /\ Len(rxq) <= RxqLen
          /\ recv \in [pieces : Seq(Packet), got : Nat, datasize : Nat, result : {"more"}]
          /\ \A p \in ToSet(back) \cup ToSet(rxq) \cup ToSet(recv.pieces) : IsPacket(p)
          /\ last \in 0 .. Len(asked) /\ done \subseteq DOMAIN asked

\* A late answer may be taken for that of a later request, as all have one source port.
\* Still each answer is returned at most once, and in the order of the requests; left-over
\* fragments of a file are in that order too.
InOrder == [][event' # Nothing /\ event'.call = "answer"
              => LET p == event'.packet
                 IN  p.req > last \/ (p.frag /\ p.req = last)]_vars

\* Handler and clients agree on the length of an answer: no answer is refused by a
\* transaction of the service that it answers.
Matched == [][event' # Nothing /\ event'.call = "refused"
              => asked[event'.req].service # event'.by]_vars

\* csp_sfp.c:131-160: whatever was lost, repeated or left over from a transfer that was
\* given up, what is returned has no holes, each piece is where it was in the data it was
\* cut from, and those data have the size returned.
Placed ==
    event # Nothing /\ event.call = "recv" /\ event.result = "none" =>
        LET pieces == event.pieces
        IN  /\ pieces[1].offset = 0
            /\ \A k \in 1 .. Len(pieces) - 1 :
                  pieces[k + 1].offset = pieces[k].offset + pieces[k].size
            /\ \A k \in DOMAIN pieces :
                  asked[pieces[k].req].total = Last(pieces).offset + Last(pieces).size

\* A transfer whose packets waited together at the head of the queue is returned whole, if
\* malloc succeeds, and what waits behind it stays.
Whole ==
    [][\A n \in DOMAIN asked :
         LET transfer == FragmentsOf(n)
             waited == recv.pieces \o rxq
         IN  /\ event' # Nothing /\ event'.call = "recv" /\ event'.result # "nomem"
             /\ transfer # <<>> /\ IsPrefix(transfer, waited)
             => /\ event'.result = "none" /\ event'.pieces = transfer
                /\ waited = transfer \o rxq']_vars

\* Every valid request, but one to reboot, is answered, or it or its answer was lost on a
\* link or dropped by the client.
Answered == \A n \in Requests :
    n \in DOMAIN asked /\ asked[n].flaw = "none" /\ asked[n].service \notin {"file", "reboot"}
    ~> n \in done
==============================================================================
