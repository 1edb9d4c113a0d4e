------------------------------- MODULE CspFifo -------------------------------
(***************************************************************************)
(* What a CSP queue promises its callers (src/include/csp/arch/csp_queue.h):*)
(* a FIFO of bounded length whose operations never block and whose return   *)
(* code says whether they took effect.  CspQueue, the ring buffer of the    *)
(* bare-metal port, is shown to implement this module.                      *)
(***************************************************************************)
EXTENDS Naturals, Sequences

CONSTANTS
    Items,      \* what a queue element may hold
    QLen,       \* number of elements the queue was created with
    NoItem      \* what the caller's variable is left with when nothing is copied out

VARIABLES
    elems,      \* the elements waiting, oldest first
    ready,      \* the queue was created (a handle other than NULL exists)
    ret         \* return code of the last call and the value it copied out

fvars == <<elems, ready, ret>>

Pass(x) == [ok |-> TRUE,  item |-> x]
Fail    == [ok |-> FALSE, item |-> NoItem]

FInit == elems = <<>> /\ ready = FALSE /\ ret = Fail

\* A queue may be created again over the same storage: what it held is lost.
FCreate == elems' = <<>> /\ ready' = TRUE /\ ret' = Pass(NoItem)

FSend(x) ==
    /\ UNCHANGED ready
    /\ \/ /\ ready /\ Len(elems) < QLen
          /\ elems' = Append(elems, x)
          /\ ret' = Pass(NoItem)
       \/ /\ ~ready \/ Len(elems) = QLen
          /\ ret' = Fail
          /\ UNCHANGED elems

FReceive ==
    /\ UNCHANGED ready
    /\ \/ /\ ready /\ elems # <<>>
          /\ elems' = Tail(elems)
          /\ ret' = Pass(Head(elems))
       \/ /\ ~ready \/ elems = <<>>
          /\ ret' = Fail
          /\ UNCHANGED elems

FReset ==
    /\ UNCHANGED ready
    /\ \/ ready /\ elems' = <<>> /\ ret' = Pass(NoItem)
       \/ ~ready /\ ret' = Fail /\ UNCHANGED elems

FNext == FCreate \/ (\E x \in Items : FSend(x)) \/ FReceive \/ FReset

FSpec == FInit /\ [][FNext]_fvars
==============================================================================
