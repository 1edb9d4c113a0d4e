# libcsp (DPhi Space bare-metal port): TLA+ models, model checks and proofs

This directory holds TLA+ specifications of the Cubesat Space Protocol stack in
`src/`: what its components keep, how each operation changes it, which properties
make it correct, TLC configurations that check them on small nodes, and proofs
checked by TLAPS.

    tlc -workers 2 -config MCNode.cfg MCNode      # model-check one configuration
    tlapm CspBufferProofs.tla                     # check one module of proofs

`PROJECT.json` maps every definition to the source lines it models, and lists the
runs, the mutants (see "Mutants"), the hazards and the theorems.

## The system

A CSP node is a network layer below an application: packets come in from interface
drivers, are put in a router queue, and `csp_route_work` gives each to a callback, a
socket or a connection, forwards it, or drops it. Everything is statically allocated:
a pool of packet buffers, a table of connections, a table of ports, fixed queues.
The port in this tree is bare metal (`src/src/arch/baremetal`): queue calls mask
interrupts and ignore their timeouts, `csp_time` reads a tick, and there are no tasks.
A main loop calls the application's functions and `csp_route_work` in turn; an UART
interrupt runs the KISS decoder, which takes packets and writes them to the router
queue. The comments and the API (`csp.h`) were written for RTOS tasks as well.

### Inventory

| component | state | operations | what makes it correct |
|---|---|---|---|
| Queues (`mpmp_queue.c`, `csp_queue.c`) | storage, head, tail, count | create, enqueue, dequeue, size, free, empty, each masked | a bounded FIFO: nothing lost, repeated or reordered, through every wrap and every re-creation |
| Packet pool (`csp_buffer.c`) | queue of free buffers; reference count in each buffer | get, get_always, free, clone, refc_inc and the `_isr` forms | one owner per buffer, freed by the last reference only, never lost; two buffers kept for those who cannot do without |
| Router queue (`csp_qfifo.c`) | one queue of packet and interface | write (task or ISR), read | takes over every packet it is given, in order or by freeing it |
| Connections (`csp_conn.c`) | table of CSP_CONN_MAX records: state, type, identifiers in and out, options, socket to post to; receive queue of each; last one given | allocate, new, connect, find_existing, enqueue, flush, close | no connection lost, no packet kept over a close, a packet to its own connection and to one only |
| Ports (`csp_port.c`) | table: closed, socket or callback; one slot for CSP_ANY | bind, bind_callback, get_socket, get_callback, listen, socket_close | one owner of a port; a closed socket leaves nothing behind |
| Router (`csp_route.c`) | none of its own | route_work, check_options, security_check | each packet gets one owner or goes back to the pool; options are enforced on every path |
| Packet I/O (`csp_io.c`) | none of its own | accept, read, send, sendto, sendto_reply, recvfrom, transaction, send_direct, send_direct_iface | a send consumes its packet, once; the right interfaces get a copy |
| Initialisation (`csp_init.c`) | configuration | csp_init | the order the rest relies on |
| Loopback (`csp_if_lo.c`) | the interface record | tx | a sent packet comes back through the router |
| KISS (`csp_if_kiss.c`) | decoder mode, packet being filled, escape state | rx (byte by byte, in an ISR), tx | a frame decodes to what was encoded; resynchronises after damage; keeps at most one buffer |
| USART glue (`usart_kiss.c`) | table of contexts | open, add KISS interface | each device to its own decoder (not modelled) |
| Routing table (`csp_rtable_cidr.c`) | array of routes and its length | set, clear, find, search backward | the longest route as last set wins, over every history; the array's limit |
| Interface list (`csp_iflist.c`) | linked list of interfaces, default | add, remove, get_by_addr, get_by_name, ... | what is added is found, until removed |
| Deduplication (`csp_dedup.c`) | ring of 16 checksums and times | is_duplicate | a repeat within the window is found, and nothing else |
| Bridge (`csp_bridge.c`) | two interfaces | bridge_work | every packet crosses once and is not leaked |
| SFP (`csp_sfp.c`) | none: a loop over a connection | send, recv | what arrives whole is what was sent |
| Services (`csp_service_handler.c`, `csp_services.c`) | none | CMP, ping, ps, memfree, buf_free, uptime; the clients | each request is answered or freed, once |
| Identifiers (`csp_id.c`), CRC32, HMAC, SHA1 | none | prepend, strip; append, verify | what a peer strips is what was prepended; a checksum accepts nothing it was not made for |
| Promiscuous mode, RDP, HMAC | | | not built (`CSP_USE_*` is undefined; RDP has no source here) |
| Time, debug, hex dump | counters | | |

How they interact. The pool and the queues are used by everybody. The KISS handler
calls `csp_buffer_get_always_isr` at the start of a frame and `csp_qfifo_write` at its
end, between any two steps of the main loop. `csp_route_work` reads the router queue
and calls ports, connections, `csp_send_direct` (forwarding) and callbacks; a callback
may send, and a send to the node's own address goes through the loopback interface back
into the router queue. The router puts a connection in the receive queue of the socket
(`dest_socket`), where `csp_accept` takes it; sockets without connections get packets
there instead. Sending, reading and closing work on the connection's record and queue.

What is hard in it: ownership of a packet across fifteen returns of `csp_route_work`
and across functions that free their argument on some paths; reference counts changed
outside critical sections; connection records that are reused, with one queue reused
for packets and for pointers; limits that are reached at once in the shipped
configuration (one connection, eight buffers); the interrupt in the middle of all of
it; and the ordering assumptions that hold in a main loop but not between tasks.

## The modules

| module | what it is |
|---|---|
| `CspFifo` | abstract: a bounded FIFO whose calls return at once |
| `CspQueue` | the ring buffer; implements `CspFifo` |
| `CspQueueProofs` | proofs about it, for every length and item type |
| `CspPool` | abstract: references to buffers, given, shared and dropped |
| `CspBuffer` | `csp_buffer.c`; implements `CspPool` |
| `CspBufferProofs` | proofs about it, for any number of tasks, buffers and references |
| `CspNode` | the node: driver, router queue, router, connections, ports, sockets, API |
| `CspNodeProofs` | proofs about it, for any number of packets, connections, sockets and contexts |
| `CspNodeConnProofs` | further ones about its connections, for contexts that are calls of one main loop |
| `CspId` | identifiers: header packing, broadcast, networks, as operators |
| `CspRoute` | abstract: which interfaces a packet goes to, as sets |
| `CspForward` | interface list, routing table, `csp_send_direct`; implements `CspRoute` |
| `CspForwardProofs` | proofs about it, for any interfaces, routes, packets and both header versions |
| `CspLine` | abstract: a line that delivers some of what was sent, in order, once |
| `CspDedup` | `csp_dedup.c`: the ring of checksums and the clock |
| `CspBridge` | the bridge, with `CspDedup`; implements `CspLine` |
| `CspBridgeProofs` | proofs about it, for any traffic, ring, window and clock |
| `CspKiss` | the KISS encoder and decoder over a faulty serial line; implements `CspLine` |
| `CspKissProofs` | proofs about it, for any header, packet size, payloads and number of faults |
| `CspService` | service handlers and clients: what is answered, with which length, what is accepted |
| `CspSfp` | the fragments of a transfer, and a round of its reassembly, as operators |
| `CspSession` | a client and a server over lossy links, with `CspService` and `CspSfp` |
| `CspSessionProofs` | proofs about it, for any requests, queue length and fragment size |
| `MCQueue`, `MCBuffer`, `MCNode`, `MCForward`, `MCBridge`, `MCKiss`, `MCSession` | the small instances for TLC |

`CspNode` has the life of a packet and of a connection and leaves out addresses, bytes
and peers. The later modules each take one of those up and leave the ownership of buffers
to `CspNode`: in `CspForward` a copy is sent or not for want of a buffer, in `CspKiss` the
decoder has a packet when it asks for one, in `CspSession` the client's connection is the
one `CspNode` gives it.

### CspQueue

`slots`, `head`, `tail`, `count` are the fields of `StaticQueue_t`; `ready` says that
the handle is not NULL. Each call is one action, since each body is between
`_mpmc_cs_enter` and `_mpmc_cs_exit`; the action always has a result `ret`, the code's
`pdPASS` or `pdFAIL` and the item copied out. `Create` may run again over a queue in
use, as `csp_listen` and `csp_init` do. The constructor's and the two counters' other
argument tests (NULL storage, NULL item) are left out: no caller passes one.
`Fifo == INSTANCE CspFifo WITH elems <- Contents` reads the waiting elements off the
ring from `tail` on.

### CspBuffer

`free` is the queue `csp_buffers` (a `CspFifo`, as proved of the ring), `refcount` the
counts, and `live` a ghost: which references the program holds to each buffer. A task's
call is cut where an interrupt can come between: the size test and the dequeue of a get
(`GetTest`, `Take`), the test, decrement and enqueue of a free (`FreeTest`, `FreeDec`,
`FreePut`), and, with `SplitCount`, the read and the write-back of a count (`FreeDecStore`,
`RefIncStore`). A handler's get or free is one action (`IsrGet`, `IsrFree`).
`csp_buffer_clone` is a get and a copy into a buffer nobody else has, so it is the get.
A panic leaves the task (`"panic"`) or the whole node (`hung`) where it is, as
`csp_buffer_get_always` and its `_isr` form do. The callers' side is the rule that a
reference is freed by its holder, once; what the code does with a double free
(CSP_DBG_ERR_ALREADY_FREE) is a call that changes nothing.

### CspNode

The packets' own places make up its state: `pool` (what `CspPool` promises: any
unreferenced buffer), `driver` (the packet a frame is being decoded into), `qfifo`,
`rxq` (one per connection), `sockq` (one per socket), and for each context `hand` (the
packet it works on) and `copy` (the clone it is transmitting). `conn` has of each
record what the code branches on. `pc`, `cur`, `sk`, `args` are the locals of the call a
context is in.

The router's actions cut `csp_route_work` at the points where others see an effect:
`RouteRead`, `RouteClassify` (deduplication, forwarding, options, port lookup),
`CallbackDone`, `RouteDgram`, `RouteLookup`, `RouteAlloc` and the steps of
`csp_conn_new` (`SetType`, `CopyIds`, `Flush`, `FinishRoute`), `RouteEnqueue`,
`RoutePost`, `RouteUnpost`, and the close of a connection whose socket has no room
(`Flush`, `SetClosed`). Each API function is one or more actions of the application's
context: `NewPacket`, `FreePacket`, `Send`, `SendTo`, `Read`, `Recvfrom`, `Accept`,
`Connect` .. `FinishConnect`, `Close` .. `SetClosed`, `SetPort`, `SocketClose`, `Drain`.
A call that fails changes nothing and is not a step. `Preemptive = FALSE` makes the
contexts calls of one loop: a context moves only if no other is inside a call. The
interrupt (`RxStart`, `RxDone`) may come between any two steps either way.

What it abstracts. A header is source, source port, destination port and a mark: not for
this node, asks for what the build lacks, no CRC, right CRC, wrong CRC. Any packet may be
taken for a duplicate (`csp_dedup.c` compares checksums over a time window; a drop there
is always possible). `csp_send_direct` sends one clone to one interface and may find no
route; the loops over interfaces, subnets and routes are in `CspForward`. A packet
sent out is not answered by a model of the other node (`CspSession` has one): any header of
`Wire` may arrive at any time. Applications keep at most one packet and one connection, do not use a pointer
after they gave it away, and listen once, before the model starts.

### CspId, CspForward and CspRoute

`list` is the interface list in the order of its `next` pointers, `dfl` the interfaces with
`is_default`, `table` the routes up to `rtable_inptr`. The configuration changes only
between two sends, since both happen in the main loop (a CMP request sets a route from a
callback, which runs before or after a send). `csp_send_direct` is one action for each round
of each loop (`SubnetRound`, `RouteRound`, `DflRound`), so that the loop variable `cur`, the
caller's identifier `idout`, which the code changes on the way, and its copy `_idout` (here
`local`) are seen as they are. `Forward` is the test in `csp_route_work` that the packet is
not for this node, followed by the send. Bits of addresses are real: 14 host bits, and
`csp_iflist_is_within_subnet`, `csp_rtable_find_route` and `csp_id_is_broadcast` as the code
computes them. (Addresses of version 1 have 5 bits; the run uses version 2, the default.) In `CspId` a field is the set of its bits; `Packed` does not mask fields, as
`csp_id2_prepend` does not.

`CspRoute` has sets where the code has lists: `Hops` says which interfaces, over which next
hops, a packet is for. `todo` is mapped to the hops not yet tried; a step of the code must be
the emission of one of them or a stutter, and the return must leave none.

### CspDedup and CspBridge

`crcs`, `times` and `in` are the code's two arrays and its index; a checksum is a model value
(no two packets of the traffic collide) and `Zero` that of an entry never written. `now` is
`csp_get_ms`, modulo `ClockMod` for 2^32. `seen` is history: for each checksum, its age since
it last crossed, how many others have crossed after it, and whether the clock has wrapped. The router queue is
read by one step of `BridgeWork`, in which nothing can intervene that the step reads.
`BridgeSpec` is one line over both directions, since the queue is one: what is passed to an
interface that is not bridged, or back where it came from, is shown as "astray", which no line does.
`csp_bridge_work` tests only whether a packet came from `bif_a`, so that what a third interface
received goes to `bif_a`; the refinement allows it.

### CspKiss and CspLine

`csp_kiss_tx` sends byte by byte: `pos` is its loop variable, `Send`, `SendByte` and `SendStop`
are the calls of `tx_func` for the start of the frame, for one byte with its escape, and for the end.
Each waits until the bytes before have left the line (`Put`), which changes nothing for a decoder
that does not look at the time. `csp_kiss_rx` is called byte by byte from the interrupt: `Receive` is
its body, one disjunct for each branch of the switch. The test for a packet that is full comes
first, as in the code, and turns the byte into one outside a frame (`Mode`, `Written`). `rx_data`
holds what was written from `frame_begin` on; a byte carries the number of its frame as history.
`Close` and `Refuse` are `csp_id_strip`, `csp_crc32_verify` and `csp_qfifo_write`. `Header` is the
packed identifier, of 4 bytes or 6 with the version. The line loses and damages bytes (`LoseByte`,
`DamageByte`: the decoder gets another byte in place of the one sent); the checksum is one symbol that
stands for its contents and that damage does not make.

`frames` and `given` are history: what was sent, and the number of the last frame that reached the router.
`Undelivered` is what is still to come, and what `KissSpec` maps the abstract line's `sent` to.
`Shown` names a delivered packet by what was sent: after two faults one that has lost its header
(`Headless`) is taken for the packet it is the end of.

### CspService, CspSfp and CspSession

`CspService` says for each service what is sent, whether the handler answers, with which
length, and what length its client wants. `CspSfp` has the sender's fragments
and, as `Taken`, one round of the receiver's loop with its error returns in the order of the code.
In `CspSession` each round is an action (`SfpRecv`; `SfpTimeout` when nothing waits), with the
locals of the call in `recv`; the client makes no other call and the router does not run until it
returns. `CspSession` is a client whose
only connection has one source port, as with CSP_CONN_MAX 1, so that
`csp_conn_find_existing` gives it whatever comes to that port; its router (`Route`), the
server's handler (`Handle`) and SFP sender (`SfpSend`, which may run out of buffers after any
fragment), and links that lose any packet. The client runs in a main loop: a call that reads
gets what is in the queue, because `csp_read` does not wait on this port
(`mpmp_queue.c:66`). Each packet carries the number of its request as history.

## Properties and runs

Constants are tiny because the code's are: the shipped configuration has one connection,
eight buffers, queues of a few elements.

| run | instance | properties |
|---|---|---|
| `queue` | length 3, two items | `TypeOK`, `RingConsistent` (head, tail and count agree), `FifoSpec` |
| `buffer` | 3 buffers, 4 references, 2 preemptive tasks and handlers, atomic counts | `TypeOK`, `CountExact`, `FreeOnce`, `Conserved`, `PoolSpec` |
| `buffer_superloop` | 1 task, handlers that free only their own, counts changed in two instructions | `CountExact`, `NoLeak` (liveness) |
| `buffer_reserve` | 1 task | `ReserveKept`: **violated** |
| `node` | main loop, 4 buffers, 2 connections, a server on port 1 and a client | `TypeOK`, `OnePlace`, `ClosedEmpty`, `NoConnLost`, `PostedReady`, `RightConn`, `NoTwins` |
| `node_loopback` | main loop, 3 buffers, 1 connection, queues of one, connection-less socket with CRC on CSP_ANY, callback on port 0, loopback, sockets closed | `OnePlace`, `RightConn`, `Routed` (liveness) |
| `socket_close` | as `node`, sockets may be closed | `NoConnLost`: **violated** |
| `forward` | version 2, loopback and 3 interfaces (one's subnet inside another's, one without netmask and with another's name), a table of 3, 5 routes | `TypeOK`, `HeaderCarried`, `RouteSpec` (refinement), `SendReturns` (liveness) |
| `forward_nomask` | a router between two interfaces, one without netmask | `SplitHorizon`: **violated** |
| `bridge` | 2 bridged interfaces and a third, 4 checksums, ring of 4, window 1, clock modulo 3, queue of 2 | `TypeOK`, `DropsJustified`, `RepeatsDropped`, `BridgeSpec` (refinement) |
| `kiss` | 3 frames, 2 faults, header of 6 with one byte to escape, data of 8, 5 different bytes | `TypeOK`, `Held`, `Resync`, `KissSpec` (refinement) |
| `session` | 3 requests out of 7 kinds, fragments of 2 bytes, receive queue of 3 | `TypeOK`, `Placed`, `InOrder`, `Matched`, `Whole`, `Answered` (liveness) |

What they show.

* `queue`: length 3 is the least at which the wrap, a full ring, an empty ring and a
  partly filled one with head before tail all differ; items only have to be told apart.
* `buffer`: with three buffers a get with reserve 2 both succeeds and fails; two tasks and
  a handler can be at all three stages of a release of one buffer. `FreeOnce`
  covers the moment between the decrement and the enqueue, in which a buffer has count 0 and is
  in no queue. Counts here are assumed atomic: with `SplitCount` and sharing, updates of one
  count are lost, as one expects of a `refcount++` outside a critical section.
* `buffer_superloop` is the shipped arrangement: only one context changes the count of a
  given buffer at a time, so a plain `--refcount` is enough.
* `node`: queues of two and one make every "full" branch happen (router queue, receive queue, backlog,
  table of connections, pool with fewer than two, empty pool). `OnePlace` is the main
  invariant: each buffer is in exactly one place, at every point of every call. The
  others are about the records: `NoConnLost` (an open connection is held or waits to be accepted),
  `PostedReady` (what waits in a backlog is open, has its packet, is offered once and
  held by no application), `RightConn` and `NoTwins` (a packet is with the connection it
  belongs to, checked against its options, and no other would match it), `ClosedEmpty`.
* `node_loopback`: what is in the router queue is routed although callbacks and the
  application write to that queue too, and a full one is normal.
* `forward`: the program may add and remove interfaces (also again, also under a taken name),
  set routes directly or by a CMP request, clear them and choose defaults, in any order; `RouteSpec`
  says that each packet sent or forwarded then goes over all interfaces of the right kind,
  with the next hop set last, none twice, none it came from. It lets any copy be lost, for want of a buffer,
  but not one be skipped; no packet of this run comes from the interface without netmask, which is the
  matter of `forward_nomask`. The routes are two interfaces for one prefix, two next hops for one of them, a
  longer prefix inside and one for all: one more than the table holds. `HeaderCarried`
  unpacks every header sent. `SendReturns` is about the loop over routes, which has no counter.
* `bridge`: the ring of four sees three entries, as the code's sees 15 of 16; four
  checksums fill it, and a window of 1 in a clock of 3 gives ages inside it, outside it, and over the
  wrap. The third interface has a checksum in common with the bridged ones. What the code may drop (`DropsJustified`) and must drop (`RepeatsDropped`)
  are stated separately, with the exceptions that the code makes.
* `kiss`: one frame is spoilt, one gets the decoder back in step, one must arrive; payloads of bytes that
  need no escape, of bytes that do, and one that is longer than a header and with which the frame fills
  the packet. The header has a byte to escape, so that escapes, too, are lost and made in it. Two faults are what it takes to lose a frame's start and to make another behind its
  header: the packet then comes without its first bytes, and `KissSpec` allows just that.
* `session`: three requests are what is needed for an answer that comes late, to a connection used again,
  and meets the answer to another; files of 3 and 5 bytes have two and three fragments and differ in size,
  so that what is left of one stands before another; three fragments fill the queue, and any more overflow it.

In the shipped configuration CSP_QFIFO_LEN (16) exceeds the number of buffers (8), so the
router queue cannot overflow there; the instances make it shorter so that the path is
checked. Buffers and applications are interchangeable and the safety runs use symmetry over
them, the bridge's over checksums; the liveness runs do not. Deadlock is not checked where the system
may stop: a driver in `while(1)` after `csp_panic`, a program that has nothing to do, a route written past
the table, frames or requests used up.

### Fairness

`NoLeak` assumes that a task inside a pool call goes on (`WF` of `Step`): the handlers
return and no pool call waits. `Routed` assumes that a begun call goes on (`WF` of
`RouteStep`, `AppStep`, `Step`) and that `csp_route_work` is called again and again
(`SF` of `RouteRead`): `csp.h:316-319` requires it of the program. It is `SF` because the
application's calls disable it in a main loop, and each ends. Nothing is assumed of
applications (they need not read, accept or close) nor of the network. Both properties
except the node that has been halted by a handler that found no buffer.

`SendReturns` assumes that a begun `csp_send_direct` goes on (`WF` of `Step`): drivers return.
`Answered` assumes that both main loops go on and that the client reads while its
connection is open (`WF` of `Route`, of `Handle \/ SfpSend` and of `Read \/ SfpRecv \/ SfpTimeout`). Nothing is
assumed of links: what is lost counts as done with.

### Disagreements found

* **Closing a listening socket loses connections** (`socket_close`). `csp.h:227`:
  "Close a socket, freeing it's RX queue and unbinding it from the associated port." The
  queue of a connection-oriented socket holds connections; `csp_port.c:151-155` passes
  them to `csp_buffer_free`, which takes each for a corrupt buffer and returns. The
  connection stays open with its packets and nobody can accept or close it; with
  CSP_CONN_MAX 1 that is the only one.
* **The reserve is not two buffers** (`buffer_reserve`). `csp_buffer.c:215`: "CSP will try
  to reserve the last two buffers for calls which can take it"; the test is
  `remain < reserve`, so with two left a normal get takes one, and an interrupt after the test
  leaves it the very last.
* **No forwarding from an interface without a netmask** (`forward_nomask`). `csp_io.c:116`:
  "Do not send to interface with similar subnet (split horizon)". The test asks whether the other
  interface's address is within the subnet of the one the packet came from; with netmask 0 every
  address is, where `csp_iflist.c:46` says "Reject searches involving subnets, if the netmask is invalud".
  A KISS interface from `csp_usart_open_and_add_kiss_interface` has netmask 0 until
  the program sets one: what it receives for others is freed.

Seen while modelling, each kept in the model as the code has it, without a run of its own:

* A full routing table: `csp_rtable_set` writes one entry past the array and
  returns CSP_ERR_NONE (`csp_rtable_cidr.c:81-95`; `csp_rtable.h:40`: "or an error code"). The model
  notes it in `overrun` and ends there, since what is overwritten is another variable.
* `csp_iflist_add` of an interface that is in the list clears its `next` first, which cuts off the
  interfaces behind it (`csp_iflist.c:161`, "Insert interface last if not already in pool" at 168).
  `CspRoute` has `AddAgain` for that.
* `csp_send_direct` writes the address of the first interface it uses into the caller's identifier
  (`csp_io.c:168`, 202): copies over other interfaces, and later sends on the connection, keep it.
  The subnet loop has a copy of its own and keeps a broadcast destination for the interfaces
  that follow, nested subnets included.
* Deduplication looks at 15 of 16 entries (`csp_dedup.c:11`: "the last CSP_DEDUP_COUNT packets"), takes a
  repeat for new in the window before the clock wraps and a packet of any age for a repeat after it,
  and holds an entry never written for a packet of checksum 0 seen at time 0.
* A KISS frame that fills the packet exactly is dropped at its closing FEND, since the length is
  tested first (`csp_if_kiss.c:81`). A frame of the largest payload goes out without its checksum, as
  `csp_crc32_append` fails and `csp_kiss_tx` does not look.
* `csp_crc32_verify` accepts a checksum over header and data or over the data alone; that of an outgoing KISS
  frame covers the data alone. Damage to the header is not noticed; and if the start of a frame is lost and
  a byte of its header becomes a FEND, the first bytes of the data are taken for the header and the checksum
  is right (`Headless` in `CspKiss`). What is delivered then is the end of a packet, under a made-up header.
* In a main loop `csp_transaction_w_opts` (`csp.h:123`: "wait for reply") never has an answer, and
  `csp_transaction_persistent` (`csp.h:160`) returns the answer to the request before, if its length fits.
  `InOrder` and `Matched` say what still holds.
* A transfer whose beginning arrived and one of the same size whose end did are put together: nothing in a
  fragment tells them apart. `Placed` says what still holds. In a main loop a transfer of more fragments
  than CSP_CONN_RXQUEUE_LEN (4) is never received, as the receiver reads only what waits.
* CSP_FFRAG stays in a connection's flags after `csp_sfp_send` (`csp_sfp.c:81`).
* A `csp_ps_hook` that returns 0 makes `csp_service_handler` free the packet and answer with it
  (`csp_service_handler.c:226-231`; `csp.h:341`: "either process it or free it").

### Under preemptive tasks

Not a configuration of this tree, so no run has it, but easily repeated by changing
`Preemptive` in `MCNode.cfg`: `ClosedEmpty` fails (the router enqueues to a connection
between its flush and its close), and `RightConn`, `NoTwins` and `PostedReady` fail
(a connection is open, and found by `csp_conn_find_existing`, before `csp_conn_new` has
written its type and identifiers; the comment at `csp_conn.c:195` says that nobody can
have a reference then). `OnePlace` and
`NoConnLost` hold, and are proved for both settings.

## Mutants

Operators whose comment says "mutant" change one definition as a plausible mistake in
the code would: a wrap tested late, a count not stored, a packet used after it was freed,
a close without a flush. No specification uses them; `PROJECT.json` names for each
property one that must make its run fail, which shows that the property depends on the code.

## Proofs

All are about every value of the constants under the modules' assumptions.

**CspQueueProofs.** `TypeCorrect`, `RingStaysConsistent`: the inductive invariant is
`TypeOK /\ RingConsistent`; neither half is inductive alone, since `count` stays in
range whatever the indices do but the slot written must be the one after the last
element. `RingImplementsFifo` (`Spec => FifoSpec`): under the invariant, `Contents` changes by
one `Append` on a successful send (the new slot lies outside the elements waiting, and
`Slot` is injective on fewer than `QLen` of them), by one `Tail` on a receive, and not at
all otherwise. No recursion is needed: `Contents` is a function of the index.

**CspBufferProofs.** `PoolTypeCorrect`, `CountsAreExact`, `FreeBuffersAreFree`,
`BuffersAreConserved`, `BufferImplementsPool`, under `~SplitCount` (atomic counts). The
inductive invariant adds to the checked properties what a task's locals mean
(`Discipline`): at `dec` it still holds its reference; at `put` its buffer is
unreferenced and nobody else is to enqueue it; no two tasks have one reference, and
no reference is to two buffers. Without it the decrement in a second task could not be shown
to belong to a live reference. From `FreeOnce`, an injective queue of a finite set that
lacks one buffer is shorter than the pool, so the unchecked enqueue cannot fail
(`RoomFree`). The assumption that counts do not overflow is `Cardinality(Refs) <= MaxCount`.

**CspNodeProofs.** From `NodeAssumption` only, with tasks preemptive or not:

* `NodeTypeCorrect` and `PacketsHaveOnePlace`. The inductive invariant `IInv` is
  `Packets /\ Locals /\ Tables`. `Packets` says of each buffer that it `Sits` in one kind of
  place and which one of that kind, that no queue holds a packet twice, and that a packet
  waiting for the router has a header. The type invariant needs it: were a
  packet in two places, freeing it in one would clear a header that the router is about to
  read. `Locals` says what each program counter implies (`enqueue` has a packet and a
  connection, `idle` has nothing left of the router's); `Tables` types connections, ports and what a
  port points to. There is one lemma per move of a packet (`PoolToDriver`, `HandToRxq`, ...),
  and one per action, which cites the moves it makes.
* `ConnectionsAreKept`, under `~ClosesSockets`: closing a socket does lose connections (see
  "Disagreements found"). `NoConnLost` alone is not inductive: it lets the router
  answer for whatever connection it looked at. `Accounts` says that it does so
  only while it sets the connection up, before it has posted it, or while it closes it,
  and that a connection just set up has an empty receive queue. Hence the packet of a new connection always finds
  room, and the early return of `csp_route_work` for a full queue is only ever taken for a
  connection somebody else holds.

**CspNodeConnProofs.** `ClosedConnectionsAreEmpty`, `BacklogsAreReady`, `PacketsAreRight` and
`ConnectionsAreDistinct`, under `~Preemptive`: with preemptive tasks they are false (see "Under
preemptive tasks"). They hold with sockets closed or not. Three invariants, each on top of `IInv` and of
those before it, since each needs the earlier ones to be inductive:

* `Calm`: one call at a time; what a call holds is open; a queue is empty when its connection is set
  up or closed. `ClosedEmpty` needs it because the flush and the close are two steps, and only `Solo`
  (no other call has begun) says that nothing is delivered between them.
* `Backlog`: a connection has one holder; it waits in one backlog, once; and the one that the router sets
  up, posts, or gives up is nobody's (`OwnNew`). `PostedReady` fails to be inductive at `RoutePost`
  without it, which has to know that the connection just filled was not posted before.
* `Match`: besides `RightConn` and `NoTwins`, that the packet which opens a connection matches none that is
  open from its lookup to the end of `csp_conn_new` (`FirstOfItsKind`), that its fields are copied by then
  (`Copied`), and that ports of outgoing and of incoming connections lie apart (`Numbers`). The last is
  what keeps a client's connection, which matches on its port alone, from taking a server's packets.

**CspForwardProofs.** `ForwardTypeCorrect` and `HeadersAreCarried` for every configuration;
`HeadersAreCarried` is the bit arithmetic of `csp_id_prepend` and `csp_id_strip` for both versions: a number
below 2^k has no bit from k on, so the packed fields do not overlap. `ForwardingImplementsRoute` (`Spec =>
RouteSpec`) is for nodes whose packets to forward come over an interface with a subnet (`Subnets`); for the
others it is false, as `forward_nomask` shows. The invariant is `RInv == TypeOK /\ Keys /\ Origin /\ Progress`.
`Keys` says that no two entries of the table have one subnet and interface, as each set replaces what it finds;
without it two entries could stand for the same hop and a packet go over it twice. `Progress` says for each
loop what was tried so far: the matching interfaces up to `cur`, the routes like the longest from `cur` on, the
defaults up to `cur`; and that the loops before it found nothing. What the searches return (`SubnetFound`, `RouteFound`,
`BackwardFound`, ...) are lemmas on them; `LongestMatches` ties the longest entry of the list to the longest of
the abstract set.

**CspBridgeProofs.** `BridgeTypeCorrect`, `DropsAreJustified`, `RepeatsAreDropped`, `BridgeIsALine`. The
invariant is `BInv`. `Kept` says that a checksum among the last `Count - 1` that crossed is in the ring at the
place its history names (`Last`), with its time, and that nothing that crossed after it is older, unless the
clock has wrapped; this is why the search may stop at the first entry that is too old. `Noted` is the
converse: what the ring has did cross, and not earlier than there. `DropsAreJustified` needs the second,
`RepeatsAreDropped` the first.

**CspKissProofs.** `KissTypeCorrect`, `DecoderHoldsPacket`, `DecoderResynchronises`, `KissIsALine`.
The invariant is `KissInv`, in nine parts:

* `TypeOK /\ Held`. The bound on what is written needs `Held`: the length is tested only if the decoder has a
  packet, so a byte stored without one would not be counted.
* `Framing`: where the transmitter is and what is left on the line. `Settled`: during a frame without a
  fault the decoder is outside any or stores what it gets, so that the end of the frame puts it in step
  whatever came before. `Exact`: if the frame before had no fault either, it has received just what was sent
  of this one. `Resync` follows from `Exact` at the last byte.
* `Seen` and `Fresh`: a checksum that was received is that of the frame which its history names, and nothing
  in an open packet is of a frame already given to the router. Hence order, and at most once.
* `Lag` and `Long`: after one fault, the packet being received lacks two bytes of its frame at most, so that it
  still has a part of the header, and the checksum over the data alone can match only at
  the right place. With two faults it need not: this is the `Headless` case. It needs headers of at least 4
  bytes, which both versions have.

**CspSessionProofs.** `SessionTypeCorrect`, `PiecesArePlaced`, `AnswersAreInOrder`, `LengthsMatch`,
`TransfersAreWhole`. The invariant is `SInv == Types /\ Filled /\ Sequenced /\ Assembled`:

* `Filled`: each packet is one that the server makes of the request it belongs to, which is what
  `LengthsMatch` needs of an answer that a later request is given.
* `Sequenced`: requests are in order in the client's queue, then on the link to it, then on the link to the
  server, all after the last one answered. No step can be shown to keep only one of the three in order.
* `Assembled`: inside `csp_sfp_recv_fp` the pieces are one behind the other, all of one size, and there is more to
  come. `PiecesArePlaced` is what this becomes when the last comes. For `TransfersAreWhole` each round is
  shown to accept the fragment at the head of the queue (`TransferRound`), and to be the last exactly when the pieces
  are all of the transfer; that the sender cuts the data without holes is arithmetic with a symbolic
  fragment size (`Ceiling`, `Cut`).

**Assumptions on constants.** All are in the modules that declare the constants and hold of the code: sizes
are positive; markers such as `NoIface`, `NoPort` or `Nothing` differ from what they stand beside; addresses
fit the header, interfaces' netmasks its host bits; the loopback interface has address 0 and a
netmask of all host bits (`csp_if_lo.c`); the ring of checksums has a power of two as its length (`CSP_DEDUP_COUNT`
is 16) and the window is shorter than the clock; a KISS header has 4 or 6 bytes.
The theorems' own hypotheses are `~SplitCount` (pool), `~ClosesSockets` (`ConnectionsAreKept`), `~Preemptive`
(`CspNodeConnProofs`) and `Subnets` (`ForwardingImplementsRoute`).

**Only model-checked.** The liveness properties (`NoLeak`, `Routed`, `SendReturns`, `Answered`), which TLAPS
cannot prove from fairness; and `CountExact` with counts changed in two instructions, which run
`buffer_superloop` checks for one task.

## Plan

The system is modelled as far as the sections above say, and every safety property of a passing run is
a theorem, each for every value of the constants under the hypotheses named. What is left:

1. `CspBuffer` with `SplitCount` and one task: `CountExact` and `Conserved` for the shipped arrangement, where
   handlers free only packets of their own.
2. `CspNode` with preemptive tasks: what of `RightConn` and `PostedReady` holds of connections that no
   call is setting up or closing.
3. `CspForward` from interfaces without a netmask: that a packet for another node is sent over no interface
   but the loopback.

## Not modelled

* `usart_kiss.c`: two functions that pass bytes on, and a table filled at initialisation. Its index is not compared with the
  table's length, and a second interface under the default name does not get into the interface list.
* HMAC, SHA1, promiscuous mode and RDP: not built in this configuration, RDP not even in the tree.
* Checksums as numbers, the hooks, what peek and poke do to memory, printing, hex dump, the counters of
  interfaces, and the version 1 fix-up of headers: data without control, or without a caller.
* The order of `csp_init`: it runs once, before interrupts.
