------------------------------- MODULE CspQueue -------------------------------
(***************************************************************************)
(* The static queue of the bare-metal port (arch/baremetal/mpmp_queue.c)    *)
(* behind csp_queue.h: a ring of fixed-size slots with head, tail and count *)
(* under a critical section that masks interrupts, so each call is one      *)
(* step whichever context makes it.  Timeouts are ignored by the code, so   *)
(* no call waits.                                                           *)
(***************************************************************************)
EXTENDS Naturals, Sequences

CONSTANTS
    Items,      \* the values of uxItemSize bytes that callers enqueue
    QLen,       \* uxLength
    NoItem      \* not an item: the caller's buffer was not written

ASSUME QueueAssumption == QLen \in Nat \ {0} /\ NoItem \notin Items

Index == 0 .. QLen - 1

VARIABLES
    slots,      \* pucBuffer, in units of one item
    head,       \* next slot to write
    tail,       \* next slot to read
    count,      \* elements waiting
    ready,      \* the handle is not NULL
    ret         \* result of the last call: pdPASS or pdFAIL, and the item copied out

vars == <<slots, head, tail, count, ready, ret>>

Pass(x) == [ok |-> TRUE,  item |-> x]
Fail    == [ok |-> FALSE, item |-> NoItem]

\* Two mutants of Advance: the test made before the increment, or one slot early.
AdvanceLate(i) == IF i = QLen THEN 0 ELSE i + 1
AdvanceEarly(i) == IF i + 2 = QLen THEN 0 ELSE i + 1

\* if ( ++q->head == q->uxLength ) q->head = 0U;
Advance(i) == IF i + 1 = QLen THEN 0 ELSE i + 1

\* Storage and queue record are .noinit: any bytes.  Before the constructor
\* runs the indices are never read, since the handle is NULL.
Init ==
    /\ slots \in [Index -> Items]
    /\ head = 0 /\ tail = 0 /\ count = 0
    /\ ready = FALSE
    /\ ret = Fail

\* A mutant of Create that forgets one index.
CreateKeepsTail ==
    /\ head' = 0 /\ count' = 0 /\ ready' = TRUE /\ ret' = Pass(NoItem)
    /\ UNCHANGED <<slots, tail>>

\* xQueueCreateStatic, also when run again over a queue in use (csp_listen,
\* csp_init): the indices restart and the storage keeps its bytes.
Create ==
    /\ head' = 0 /\ tail' = 0 /\ count' = 0
    /\ ready' = TRUE
    /\ ret' = Pass(NoItem)
    /\ UNCHANGED slots

Send(x) ==
    /\ UNCHANGED <<tail, ready>>
    /\ \/ /\ ready /\ count < QLen
          /\ slots' = [slots EXCEPT ![head] = x]
          /\ head' = Advance(head)
          /\ count' = count + 1
          /\ ret' = Pass(NoItem)
       \/ /\ ~ready \/ count >= QLen
          /\ ret' = Fail
          /\ UNCHANGED <<slots, head, count>>

Receive ==
    /\ UNCHANGED <<slots, head, ready>>
    /\ \/ /\ ready /\ count > 0
          /\ ret' = Pass(slots[tail])
          /\ tail' = Advance(tail)
          /\ count' = count - 1
       \/ /\ ~ready \/ count = 0
          /\ ret' = Fail
          /\ UNCHANGED <<tail, count>>

Reset ==
    /\ UNCHANGED <<slots, ready>>
    /\ \/ /\ ready
          /\ head' = 0 /\ tail' = 0 /\ count' = 0
          /\ ret' = Pass(NoItem)
       \/ /\ ~ready
          /\ ret' = Fail
          /\ UNCHANGED <<head, tail, count>>

\* uxQueueMessagesWaiting and uxQueueSpacesAvailable read and change nothing;
\* csp_queue_free is the second one and frees nothing.
MessagesWaiting == IF ready THEN count ELSE 0
SpacesAvailable == IF ready THEN QLen - count ELSE 0

Next == Create \/ (\E x \in Items : Send(x)) \/ Receive \/ Reset

Spec == Init /\ [][Next]_vars

------------------------------------------------------------------------------
(* The type invariant of the ring's fields (the StaticQueue_t record).      *)
TypeOK ==
    /\ slots \in [Index -> Items]
    /\ head \in Index /\ tail \in Index /\ count \in 0 .. QLen
    /\ ready \in BOOLEAN
    /\ ret \in [ok : BOOLEAN, item : Items \cup {NoItem}]

(* The three fields agree: head is count slots after tail, modulo the wrap,  *)
(* and a handle that is still NULL has nothing queued.  An operation that    *)
(* moves one field and not the others breaks it only after the ring wrapped. *)
Slot(i) == IF tail + i < QLen THEN tail + i ELSE tail + i - QLen

RingConsistent ==
    /\ head = IF count = QLen THEN tail ELSE Slot(count)
    /\ ~ready => count = 0

(* The ring implements a bounded FIFO: the elements waiting are the slots    *)
(* from tail on, and every call of the ring is the same call of the FIFO     *)
(* with the same result (order, loss, duplication and full/empty tests).     *)
Contents == [i \in 1 .. count |-> slots[Slot(i - 1)]]

Fifo == INSTANCE CspFifo WITH elems <- Contents

FifoSpec == Fifo!FSpec
==============================================================================
