------------------------------- MODULE CspRoute -------------------------------
(* What routing promises, without lists, tables or loops: a packet goes, once *)
(* each, over the interfaces of one kind only.  These are the interfaces in   *)
(* whose subnet the destination is; if there are none, those of one longest   *)
(* matching route; if there is none, the default ones; less the interface the *)
(* packet came from and those in its subnet.  Any copy may be lost.           *)
EXTENDS CspId

CONSTANTS Ifaces, Lo, Addr, Mask, Nodes, NoIface, NoVia, NoJob, NoEvent

VARIABLES ifs,      \* the interfaces in use
          defaults, \* those with the default flag
          routes,   \* [addr, mask, iface, via], one via for the first three
          job,      \* destination and origin of the packet being sent
          todo,     \* where it is still to be sent
          event     \* what this step was asked for, or the copy it sent

vars == <<ifs, defaults, routes, job, todo, event>>

Similar(i, j) == Mask[j] # 0 /\ Network(Addr[i], Mask[j]) = Network(Addr[j], Mask[j])

Within(dst) == {i \in ifs : Mask[i] # 0 /\ Network(dst, Mask[i]) = Network(Addr[i], Mask[i])}

Matching(dst) == {r \in routes : RouteNetwork(r.addr, r.mask) = RouteNetwork(dst, r.mask)}

Longest(dst) == {r \in Matching(dst) : \A s \in Matching(dst) : s.mask <= r.mask}

Direct(S) == {[iface |-> i, via |-> NoVia] : i \in S}

\* Split horizon: not back, nor to the neighbours it came from.
Onward(hops, from) ==
    {h \in hops : from = NoIface \/ (h.iface # from /\ ~Similar(h.iface, from))}

Hop(r) == [iface |-> r.iface, via |-> r.via]

\* Routes of one length to one network under two addresses are not used together;
\* which of the addresses is used is left open.
Choices(dst) == IF Matching(dst) = {} THEN {NoVia} ELSE {r.addr : r \in Longest(dst)}

Hops(dst, from, addr) ==
    IF dst = Addr[Lo] THEN Direct({Lo})
    ELSE IF Within(dst) # {} THEN Onward(Direct(Within(dst)), from)
    ELSE IF Matching(dst) # {}
         THEN Onward({Hop(r) : r \in {s \in Longest(dst) : s.addr = addr}}, from)
    ELSE Onward(Direct(ifs \cap defaults), from)

------------------------------------------------------------------------------
Init == /\ ifs = {Lo} /\ defaults \subseteq Ifaces /\ routes = {}
        /\ job = NoJob /\ todo = {} /\ event = NoEvent

Idle == job = NoJob /\ UNCHANGED <<job, todo>>

Add(i) == /\ Idle
          /\ event' = [op |-> "add", iface |-> i]
          /\ ifs' \in {ifs, ifs \cup {i}}         \* refused, if its name is taken
          /\ UNCHANGED <<defaults, routes>>

\* Adding an interface again keeps it and loses any of the others.
AddAgain(i) == /\ Idle
               /\ event' = [op |-> "add", iface |-> i]
               /\ ifs' \in {S \in SUBSET ifs : i \in S}
               /\ UNCHANGED <<defaults, routes>>

Remove(i) == /\ Idle
             /\ event' = [op |-> "remove", iface |-> i]
             /\ ifs' = ifs \ {i}
             /\ UNCHANGED <<defaults, routes>>

SetDefaults == /\ Idle /\ event' = NoEvent
               /\ ifs \cap defaults = {}
               /\ defaults' = defaults \cup (ifs \ {Lo})
               /\ UNCHANGED <<ifs, routes>>

SetRoute(r) == /\ Idle
               /\ event' = [op |-> "route", route |-> r]
               /\ routes' = {r} \cup {s \in routes : \/ s.addr # r.addr
                                                     \/ s.mask # r.mask
                                                     \/ s.iface # r.iface}
               /\ UNCHANGED <<ifs, defaults>>

Clear == Idle /\ event' = NoEvent /\ routes' = {} /\ UNCHANGED <<ifs, defaults>>

Begin(dst, from) == /\ job = NoJob
                    /\ job' = [dst |-> dst, from |-> from]
                    /\ \E a \in Choices(dst) : todo' = Hops(dst, from, a)
                    /\ event' = NoEvent
                    /\ UNCHANGED <<ifs, defaults, routes>>

Emit(hop) == /\ hop \in todo
             /\ todo' = todo \ {hop}
             /\ event' \in {[op |-> "copy", hop |-> hop], NoEvent}
             /\ UNCHANGED <<ifs, defaults, routes, job>>

End == /\ job # NoJob /\ todo = {}
       /\ job' = NoJob /\ event' = NoEvent
       /\ UNCHANGED <<ifs, defaults, routes, todo>>

Quiet == event' = NoEvent /\ UNCHANGED <<ifs, defaults, routes, job, todo>>

Next == \/ \E i \in Ifaces : Add(i) \/ AddAgain(i) \/ Remove(i)
        \/ SetDefaults \/ Clear \/ End \/ Quiet
        \/ \E r \in routes' : SetRoute(r)
        \/ \E dst \in Nodes, from \in Ifaces \cup {NoIface} : Begin(dst, from)
        \/ \E hop \in todo : Emit(hop)

Spec == Init /\ [][Next]_vars
==============================================================================
