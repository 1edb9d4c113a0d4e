------------------------------- MODULE CspBridge -------------------------------
(* csp_bridge.c: two interfaces, and what is read from the router queue sent   *)
(* out on the other one, unless csp_dedup.c takes it for a duplicate.          *)
EXTENDS CspDedup, Sequences

CONSTANTS
    Ifaces,             \* the interfaces of the node
    A, B,               \* those that are bridged
    NoIface,            \* NULL
    Traffic,            \* what arrives: [iface, crc]
    QfifoLen,           \* CSP_QFIFO_LEN
    Nothing             \* no event

ASSUME BridgeAssumption == /\ {A, B} \subseteq Ifaces /\ A # B /\ NoIface \notin Ifaces
                           /\ Traffic \subseteq [iface : Ifaces, crc : Crcs \ {Zero}]
                           /\ QfifoLen \in Nat \ {0}

VARIABLES
    bifs,       \* <<bif_a, bif_b>>
    qfifo,      \* the router queue: [iface, crc]
    event,      \* what this step read from an interface, or passed to one
    seen        \* history: of each checksum, what happened since it last crossed

vars == <<crcs, times, in, now, bifs, qfifo, event, seen>>

Packet == [iface : Ifaces, crc : Crcs]
Event == [op : {"send", "drop"}, what : Packet] \cup [op : {"deliver"}, what : Packet, to : Ifaces]

ASSUME EventAssumption == Nothing \notin Event

\* A checksum that has not crossed, or is not among the last Count - 1.
Never == [age |-> Window + 1, later |-> Count - 1, wrapped |-> FALSE]

Init == /\ DedupInit
        /\ bifs = <<NoIface, NoIface>> /\ qfifo = <<>> /\ event = Nothing
        /\ seen = [c \in Crcs |-> Never]

\* csp_bridge_set_interfaces.
SetInterfaces == /\ bifs' = <<A, B>> /\ event' = Nothing
                 /\ UNCHANGED <<dedup, now, qfifo, seen>>

\* A driver's csp_qfifo_write, from an interrupt.  A full queue frees the packet,
\* which is as if it had not come.
Receive(p) == /\ Len(qfifo) < QfifoLen
              /\ qfifo' = Append(qfifo, p)
              /\ event' = [op |-> "send", what |-> p]
              /\ UNCHANGED <<dedup, now, bifs, seen>>

\* A millisecond passes.  Ages are counted up to the end of the window, or to a wrap.
Older(s) == IF s # Never /\ (s.wrapped \/ now' = 0)
            THEN [age |-> Window + 1, later |-> s.later, wrapped |-> TRUE]
            ELSE [s EXCEPT !.age = IF @ <= Window THEN @ + 1 ELSE @]

Tick == /\ now' = (now + 1) % ClockMod
        /\ event' = Nothing
        /\ seen' = [c \in Crcs |-> Older(seen[c])]
        /\ UNCHANGED <<dedup, bifs, qfifo>>

\* Mutant: the test names the wrong interface.
OpposingSwapped(i) == IF i = bifs[2] THEN bifs[2] ELSE bifs[1]

Opposing(i) == IF i = bifs[1] THEN bifs[2] ELSE bifs[1]

\* What happened since each checksum last crossed, after "crc" has crossed.
Crossed(crc) == [c \in Crcs |->
    IF c = crc THEN [age |-> 0, later |-> 0, wrapped |-> FALSE]
    ELSE IF seen[c].later + 1 >= Count - 1 THEN Never
    ELSE [seen[c] EXCEPT !.later = @ + 1]]

\* csp_bridge_work, with the packet at the head of the queue.  The send may fail;
\* the packet is freed then.
BridgeWork ==
    /\ NoIface \notin {bifs[1], bifs[2]} /\ qfifo # <<>>
    /\ qfifo' = Tail(qfifo)
    /\ LET p == Head(qfifo)
       IN  IF IsDuplicate(p.crc)
           THEN event' = [op |-> "drop", what |-> p] /\ UNCHANGED <<dedup, seen>>
           ELSE /\ Insert(p.crc)
                /\ seen' = Crossed(p.crc)
                /\ event' = [op |-> "deliver", what |-> p, to |-> Opposing(p.iface)]
    /\ UNCHANGED <<now, bifs>>

Next == SetInterfaces \/ Tick \/ BridgeWork \/ \E p \in Traffic : Receive(p)

Spec == Init /\ [][Next]_vars

------------------------------------------------------------------------------
(* Properties.                                                                *)

TypeOK == /\ DedupTypeOK
          /\ bifs \in (Ifaces \cup {NoIface}) \X (Ifaces \cup {NoIface})
          /\ qfifo \in Seq(Packet) /\ Len(qfifo) <= QfifoLen
          /\ event \in Event \cup {Nothing}
          /\ seen \in [Crcs -> [age : 0 .. Window + 1, later : 0 .. Count - 1, wrapped : BOOLEAN]]

Drops == event' # Nothing /\ event'.op = "drop"
Delivers == event' # Nothing /\ event'.op = "deliver"

\* csp_dedup.c:12: a packet is dropped only if the same crossed at most a window
\* ago.  After a wrap of the clock (every 49.7 days) it may have been any time before.
DropsJustified ==
    [][Drops => LET s == seen[event'.what.crc]
                IN  s.age <= Window \/ s.wrapped]_vars

\* csp_dedup.c:9: a repeat within the window does not cross, unless Count - 1 others
\* have crossed since, or the clock has wrapped or is less than a window from it.
RepeatsDropped ==
    [][Delivers => LET s == seen[event'.what.crc]
                   IN  \/ s.age > Window \/ s.later >= Count - 1
                       \/ s.wrapped \/ now + Window >= ClockMod]_vars

\* The bridge is a line: what was received on an interface is delivered on a bridged
\* interface other than that, in the order received, once or not at all.
Shown == IF event = Nothing \/ event.op = "drop" THEN Nothing
         ELSE [op |-> IF event.op = "deliver" /\ event.to \notin {A, B} \ {event.what.iface}
                      THEN "astray" ELSE event.op,
               what |-> event.what]

Line == INSTANCE CspLine WITH Message <- Traffic, sent <- qfifo, event <- Shown

BridgeSpec == Line!Spec
==============================================================================
