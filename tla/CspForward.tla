------------------------------ MODULE CspForward ------------------------------
(* Where a packet goes: the interface list (csp_iflist.c), the routing table  *)
(* (csp_rtable_cidr.c), csp_send_direct with one action for each round of its *)
(* three loops, and the part of csp_route_work that decides whether a packet  *)
(* is for this node.  Ownership of the packet and its clones is in CspNode;   *)
(* here a copy is sent or is not, for want of a buffer or by a driver's error.*)
EXTENDS CspId, Sequences

CONSTANTS
    Ifaces, Lo,             \* the interfaces; csp_if_lo
    Removable,              \* those the program may remove
    Addr, Mask, Name,       \* their addr, netmask and name
    Nodes,                  \* addresses
    RtableSize,             \* CSP_RTABLE_SIZE
    Flagged,                \* is_default as the program sets it: sets of interfaces
    Routes, CmpRoutes,      \* the arguments of csp_rtable_set, those of CMP requests
    Sends, Receives,        \* identifiers sent from here; [id, iface] read by the router
    NoIface, NoVia, NoJob, NoEvent

ASSUME ForwardAssumption ==
    /\ Removable \subseteq Ifaces /\ Lo \in Ifaces /\ NoIface \notin Ifaces
    /\ Nodes \subseteq 0 .. MaxNodeId /\ MaxNodeId \in Nodes
    /\ Addr \in [Ifaces -> Nodes] /\ Mask \in [Ifaces -> 0 .. HostBits]
    /\ Addr[Lo] = 0 /\ Mask[Lo] = HostBits
    /\ RtableSize \in Nat \ {0} /\ NoVia \in Nat
    /\ Flagged \subseteq SUBSET Ifaces
    /\ Routes \cup CmpRoutes \subseteq
          [addr : Nodes, mask : Int, iface : Ifaces, via : Nodes \cup {NoVia}]
    /\ Sends \subseteq [src : Nodes, dst : Nodes]
    /\ Receives \subseteq [id : [src : Nodes, dst : Nodes], iface : Ifaces]
    /\ NoJob \notin [dst : Nodes, from : Ifaces \cup {NoIface}]

VARIABLES
    list,       \* interfaces, in the order of their next pointers
    dfl,        \* those with is_default
    table,      \* rtable up to rtable_inptr
    overrun,    \* an entry was written past the end of rtable
    pc,         \* where csp_send_direct is: idle, lo, subnet, route, dfl
    idout,      \* the caller's identifier, src and dst
    local,      \* _idout, the copy the subnet loop changes
    from,       \* routed_from
    cur,        \* iface or route: a position in list or table, 0 for NULL
    found,      \* local_found or route_found
    event,      \* what this step passed to an interface
    tried       \* history: the hops this packet was tried on

configured == <<list, dfl, table, overrun>>
sending == <<pc, idout, local, from, cur, found, event, tried>>
vars == <<configured, sending>>

Entry == [addr : Nodes, mask : 0 .. HostBits, iface : Ifaces, via : Nodes \cup {NoVia}]
Id == [src : Nodes, dst : Nodes]
Blank == [src |-> 0, dst |-> 0]
Event == [op : {"add", "remove"}, iface : Ifaces] \cup [op : {"route"}, route : Entry]
         \cup [op : {"copy"}, iface : Ifaces, via : Nodes \cup {NoVia}, id : Id]

ASSUME EventAssumption == NoEvent \notin Event

LowestOf(S) == IF S = {} THEN 0 ELSE CHOOSE n \in S : \A m \in S : n <= m
HighestOf(S) == IF S = {} THEN 0 ELSE CHOOSE n \in S : \A m \in S : n >= m

Listed == {list[n] : n \in DOMAIN list}
WithinSubnet(addr, i) == Network(addr, Mask[i]) = Network(Addr[i], Mask[i])

------------------------------------------------------------------------------
(* The interface list.                                                        *)

Init == /\ list = <<Lo>>
        /\ dfl \in Flagged
        /\ table = <<>> /\ overrun = FALSE
        /\ pc = "idle" /\ idout = Blank /\ local = Blank /\ from = NoIface
        /\ cur = 0 /\ found = FALSE /\ event = NoEvent /\ tried = {}

\* The program changes the configuration between two calls that send.  An entry
\* past the end of rtable is in some other variable: the model ends there.
Configures == pc = "idle" /\ ~overrun
              /\ UNCHANGED <<pc, idout, local, from, cur, found, tried>>

\* ifc->next is cleared before the list is searched: an interface that is in the
\* list already becomes its end.
PlaceOf(i) == LowestOf({n \in DOMAIN list : list[n] = i})

Added(i) ==
    IF PlaceOf(i) # 0 THEN SubSeq(list, 1, PlaceOf(i))
    ELSE IF \E j \in Listed : Name[j] = Name[i] THEN list ELSE Append(list, i)

IflistAdd(i) == /\ Configures
                /\ list' = Added(i)
                /\ event' = [op |-> "add", iface |-> i]
                /\ UNCHANGED <<dfl, table, overrun>>

Removed(i) ==
    LET n == PlaceOf(i)
    IN  IF n = 0 THEN list ELSE SubSeq(list, 1, n - 1) \o SubSeq(list, n + 1, Len(list))

IflistRemove(i) == /\ Configures
                   /\ list' = Removed(i)
                   /\ event' = [op |-> "remove", iface |-> i]
                   /\ UNCHANGED <<dfl, table, overrun>>

CheckDfl == /\ Configures
            /\ Listed \cap dfl = {}
            /\ dfl' = dfl \cup (Listed \ {Lo})
            /\ event' = NoEvent
            /\ UNCHANGED <<list, table, overrun>>

\* csp_iflist_get_by_subnet and csp_iflist_get_by_isdfl, from the one after "cur".
BySubnet(addr) == LowestOf({n \in cur + 1 .. Len(list) :
                               Mask[list[n]] # 0 /\ WithinSubnet(addr, list[n])})
ByDfl == LowestOf({n \in cur + 1 .. Len(list) : list[n] \in dfl})

\* csp_iflist_get_by_addr(addr) # NULL
IsMine(addr) == \E i \in Listed : Addr[i] = addr

------------------------------------------------------------------------------
(* The routing table.                                                         *)

FindExact(r) == LowestOf({n \in DOMAIN table : /\ table[n].addr = r.addr
                                               /\ table[n].mask = r.mask
                                               /\ table[n].iface = r.iface})

\* Mutant: rtable_inptr goes one past the limit.
SetInternalLate(r) ==
    LET n == FindExact(r)
    IN  /\ event' = [op |-> "route", route |-> r]
        /\ overrun' = (n = 0 /\ Len(table) > RtableSize)
        /\ table' = IF n # 0 THEN [table EXCEPT ![n].via = r.via] ELSE Append(table, r)

\* CSP_ERR_NONE in any case.
SetInternal(r) ==
    LET n == FindExact(r)
    IN  /\ overrun' = (n = 0 /\ Len(table) = RtableSize)
        /\ event' = IF overrun' THEN NoEvent ELSE [op |-> "route", route |-> r]
        /\ table' = CASE n # 0 -> [table EXCEPT ![n].via = r.via]
                      [] n = 0 /\ Len(table) < RtableSize -> Append(table, r)
                      [] OTHER -> table

RtableSet(r) ==
    /\ Configures
    /\ SetInternal([r EXCEPT !.mask = IF r.mask \in 0 .. HostBits THEN r.mask ELSE HostBits])
    /\ UNCHANGED <<list, dfl>>

\* The interface comes by name, and is the first of the list with that name.
CmpRouteSet(r) ==
    /\ \E n \in DOMAIN list : /\ Name[list[n]] = Name[r.iface]
                              /\ \A m \in 1 .. n - 1 : Name[list[m]] # Name[r.iface]
                              /\ RtableSet([r EXCEPT !.iface = list[n]])

RtableClear == Configures /\ table' = <<>> /\ event' = NoEvent /\ UNCHANGED <<list, dfl, overrun>>

\* Mutant: the first entry of the table that matches.
FindRouteFirst(addr) ==
    LowestOf({n \in DOMAIN table : RouteNetwork(table[n].addr, table[n].mask)
                                      = RouteNetwork(addr, table[n].mask)})

\* csp_rtable_find_route: the last of the longest entries that match.
FindRoute(addr) ==
    LET match == {n \in DOMAIN table : RouteNetwork(table[n].addr, table[n].mask)
                                          = RouteNetwork(addr, table[n].mask)}
    IN  HighestOf({n \in match : \A m \in match : table[m].mask <= table[n].mask})

\* Mutant: the search begins at the route it was given.
SearchBackwardFrom(k) == HighestOf({n \in 1 .. k : /\ table[n].mask = table[k].mask
                                                  /\ table[n].addr = table[k].addr})

SearchBackward(k) == HighestOf({n \in 1 .. k - 1 : /\ table[n].mask = table[k].mask
                                                   /\ table[n].addr = table[k].addr})

------------------------------------------------------------------------------
(* csp_send_direct and csp_send_direct_iface.                                 *)

Begin(id, i) ==
    /\ pc = "idle" /\ ~overrun
    /\ pc' = IF id.dst = Addr[Lo] THEN "lo" ELSE "subnet"
    /\ idout' = id /\ local' = id /\ from' = i
    /\ cur' = 0 /\ found' = FALSE /\ event' = NoEvent /\ tried' = {}
    /\ UNCHANGED configured

\* csp_send, csp_sendto and the service clients.
Send(id) == Begin(id, NoIface)

\* csp_route_work, for a packet that is not for this node.
Forward(r) == /\ ~IsMine(r.id.dst)
              /\ ~IsBroadcast(r.id.dst, Addr[r.iface], Mask[r.iface])
              /\ Begin(r.id, r.iface)

\* Split horizon.
Back(i) == from # NoIface /\ (i = from \/ WithinSubnet(Addr[i], from))

\* The clone could not be had, an option is not built in, or the driver failed:
\* the copy is not sent.
Pass(i, via, id) == /\ event' \in {[op |-> "copy", iface |-> i, via |-> via, id |-> id], NoEvent}
                    /\ tried' = tried \cup {[iface |-> i, via |-> via]}

Skip == event' = NoEvent /\ UNCHANGED <<idout, local, tried>>

Return == /\ pc' = "idle" /\ cur' = 0 /\ found' = FALSE /\ event' = NoEvent /\ tried' = {}
          /\ idout' = Blank /\ local' = Blank /\ from' = NoIface
          /\ UNCHANGED configured

\* The address of the interface, on a packet of this node that has no source yet.
SrcOn(i) == IF from = NoIface /\ idout.src = 0 THEN Addr[i] ELSE idout.src

ToLo == /\ pc = "lo"
        /\ \/ /\ ~found /\ found' = TRUE
              /\ Pass(Lo, NoVia, idout)
              /\ UNCHANGED <<configured, pc, idout, local, from, cur>>
           \/ found /\ Return

\* _idout keeps the broadcast address for the interfaces that follow.
Rewritten(i) == [src |-> IF from = NoIface /\ idout.src = 0 THEN Addr[i] ELSE local.src,
                 dst |-> IF IsBroadcast(idout.dst, Addr[i], Mask[i])
                         THEN MaxNodeId ELSE local.dst]

SubnetRound ==
    LET n == BySubnet(idout.dst)
        i == list[n]
    IN  /\ pc = "subnet" /\ n # 0
        /\ cur' = n /\ found' = TRUE
        /\ IF Back(i) THEN Skip
           ELSE /\ local' = Rewritten(i)
                /\ Pass(i, NoVia, Rewritten(i))
                /\ UNCHANGED idout
        /\ UNCHANGED <<configured, pc, from>>

RouteRound ==
    LET n == IF cur = 0 THEN FindRoute(idout.dst) ELSE SearchBackward(cur)
        i == table[n].iface
    IN  /\ pc = "route" /\ n # 0
        /\ cur' = n /\ found' = TRUE
        /\ IF Back(i) THEN Skip
           ELSE /\ idout' = [idout EXCEPT !.src = SrcOn(i)]
                /\ Pass(i, table[n].via, idout')
                /\ UNCHANGED local
        /\ UNCHANGED <<configured, pc, from>>

DflRound ==
    LET n == ByDfl
        i == list[n]
    IN  /\ pc = "dfl" /\ n # 0
        /\ cur' = n
        /\ IF Back(i) THEN Skip
           ELSE /\ idout' = [idout EXCEPT !.src = SrcOn(i)]
                /\ Pass(i, NoVia, idout')
                /\ UNCHANGED local
        /\ UNCHANGED <<configured, pc, from, found>>

\* A loop has ended: the packet is freed if it found an interface, or it was the last.
LoopEnd ==
    /\ \/ pc = "subnet" /\ BySubnet(idout.dst) = 0
       \/ pc = "route" /\ (IF cur = 0 THEN FindRoute(idout.dst) ELSE SearchBackward(cur)) = 0
       \/ pc = "dfl" /\ ByDfl = 0
    /\ IF found \/ pc = "dfl" THEN Return
       ELSE /\ pc' = IF pc = "subnet" THEN "route" ELSE "dfl"
            /\ cur' = 0 /\ event' = NoEvent
            /\ UNCHANGED <<configured, idout, local, from, found, tried>>

------------------------------------------------------------------------------
Configure == \/ \E i \in Ifaces : IflistAdd(i)
             \/ \E i \in Removable : IflistRemove(i)
             \/ CheckDfl \/ RtableClear
             \/ \E r \in Routes : RtableSet(r)
             \/ \E r \in CmpRoutes : CmpRouteSet(r)

Step == ToLo \/ SubnetRound \/ RouteRound \/ DflRound \/ LoopEnd

Next == \/ Configure
        \/ \E id \in Sends : Send(id)
        \/ \E r \in Receives : Forward(r)
        \/ Step

Spec == Init /\ [][Next]_vars
FairSpec == Spec /\ WF_vars(Step)

------------------------------------------------------------------------------
(* Properties.                                                                *)

\* The variables have their types; between two packets nothing is left of the last.
TypeOK ==
    /\ list \in Seq(Ifaces) /\ \A m, n \in DOMAIN list : list[m] = list[n] => m = n
    /\ dfl \subseteq Ifaces
    /\ table \in Seq(Entry) /\ Len(table) <= RtableSize
    /\ overrun \in BOOLEAN
    /\ pc \in {"idle", "lo", "subnet", "route", "dfl"}
    /\ idout \in Id /\ local \in Id /\ from \in Ifaces \cup {NoIface}
    /\ found \in BOOLEAN
    /\ cur \in 0 .. IF pc = "route" THEN Len(table) ELSE Len(list)
    /\ event \in Event \cup {NoEvent}
    /\ pc = "idle" => tried = {} /\ ~found /\ cur = 0

\* What a peer strips from the header of a sent copy (csp_id_prepend, csp_id_strip)
\* are the addresses it was sent with.
HeaderBits(id) == [f \in Fields |-> CASE f \in {"src", "dst"} -> Bits(id[f], 16)
                                      [] OTHER -> {0, Size[f] - 1}]

Copied == event # NoEvent /\ event.op = "copy"

HeaderCarried == Copied => Strip(Prepend(HeaderBits(event.id))) = HeaderBits(event.id)

\* csp_send_direct comes to an end, whatever the list and the table are: each round
\* moves on in the list, or back in the table.
SendReturns == pc # "idle" ~> pc = "idle"

\* A packet goes where CspRoute says: to every interface of one kind, over the
\* longest route as it was last set, to none twice and to none it came from.
Chosen == IF FindRoute(idout.dst) = 0 THEN NoVia ELSE table[FindRoute(idout.dst)].addr
Job == IF pc = "idle" THEN NoJob ELSE [dst |-> idout.dst, from |-> from]
Shown == IF Copied THEN [op |-> "copy", hop |-> [iface |-> event.iface, via |-> event.via]]
         ELSE event

Tables == INSTANCE CspRoute WITH ifs <- Listed, defaults <- dfl,
    routes <- {table[n] : n \in DOMAIN table}, job <- Job, todo <- {}, event <- Shown

Route == INSTANCE CspRoute WITH ifs <- Listed, defaults <- dfl,
    routes <- {table[n] : n \in DOMAIN table}, job <- Job, event <- Shown,
    todo <- IF pc = "idle" THEN {} ELSE Tables!Hops(idout.dst, from, Chosen) \ tried

RouteSpec == Route!Spec

\* An interface is passed over only if the packet came from it or from a neighbour
\* in the same subnet: csp_io.c:159, "Do not send to interface with similar subnet",
\* where a netmask of 0 is no subnet (csp_iflist.c:46).
Considered == IF pc = "route" THEN table[cur'].iface ELSE list[cur']

PassedOver == pc' = pc /\ cur' \notin {0, cur} /\ tried' = tried

SplitHorizon ==
    [][PassedOver /\ from \in Listed => Considered = from \/ Tables!Similar(Considered, from)]_vars
==============================================================================
