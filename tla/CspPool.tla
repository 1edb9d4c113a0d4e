-------------------------------- MODULE CspPool --------------------------------
(***************************************************************************)
(* What the packet pool promises (src/include/csp/csp_buffer.h): a buffer   *)
(* handed out is referenced by nobody else, a reference is added and dropped*)
(* one at a time, and a buffer is handed out again only once its last       *)
(* reference was dropped.  CspBuffer implements it.                         *)
(***************************************************************************)
CONSTANTS
    Buffers,    \* the CSP_BUFFER_COUNT packets
    Refs        \* the places of a program that can hold a packet pointer

VARIABLE live   \* live[b]: the references to b that were given and not dropped

Unused(r) == \A b \in Buffers : r \notin live[b]

PInit == live = [b \in Buffers |-> {}]

Acquire(b, r) == live[b] = {} /\ Unused(r) /\ live' = [live EXCEPT ![b] = {r}]

Share(b, r) ==
    live[b] # {} /\ Unused(r) /\ live' = [live EXCEPT ![b] = @ \cup {r}]

Release(b, r) == r \in live[b] /\ live' = [live EXCEPT ![b] = @ \ {r}]

PNext == \E b \in Buffers, r \in Refs : Acquire(b, r) \/ Share(b, r) \/ Release(b, r)

PSpec == PInit /\ [][PNext]_live
================================================================================
