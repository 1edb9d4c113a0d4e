------------------------------- MODULE CspBuffer -------------------------------
(***************************************************************************)
(* The pool of packet buffers (src/src/csp_buffer.c): a queue of free       *)
(* buffers and a reference count in each.  The queue calls are atomic (see  *)
(* CspQueue); what lies between two of them is not, so a task can be        *)
(* interrupted, or preempted where there is more than one task, between the *)
(* size test and the dequeue of an allocation, between the test, the        *)
(* decrement and the enqueue of a release.  An interrupt handler runs to    *)
(* its end.                                                                 *)
(*                                                                          *)
(* The corruption test (skbf_addr) is left out: only a stray write elsewhere*)
(* could make it fail.  Taking a packet apart (memset, memcpy, clone's copy)*)
(* touches a buffer its caller alone holds.                                 *)
(***************************************************************************)
EXTENDS Naturals, Sequences, FiniteSets, Functions

CONSTANTS
    Buffers,        \* csp_buffer_pool
    Refs,           \* places that can hold a packet pointer
    Tasks,          \* {main} on bare metal
    MaxCount,       \* largest value of the unsigned reference count
    SplitCount,     \* the compiler reads and writes back a count in two instructions
    IsrShares,      \* handlers also release buffers that a task references
    NoBuf, NoRef

ASSUME BufferAssumption ==
    /\ IsFiniteSet(Buffers) /\ IsFiniteSet(Refs)
    /\ MaxCount \in Nat /\ MaxCount >= 1
    /\ Cardinality(Refs) <= MaxCount
    /\ SplitCount \in BOOLEAN /\ IsrShares \in BOOLEAN
    /\ NoBuf \notin Buffers /\ NoRef \notin Refs

BufferCount == Cardinality(Buffers)

VARIABLES
    free,       \* csp_buffers: the queue of free buffers
    refcount,   \* refcount of each buffer
    live,       \* the references of the program to each buffer
    pc,         \* where each task is: "idle", or the step of a pool call it is at
    arg,        \* the buffer its call is about
    tok,        \* the reference its call gives or drops
    seen,       \* the count it has read and not yet written back
    hung        \* an interrupt handler sits in the while(1) after csp_panic

vars == <<free, refcount, live, pc, arg, tok, seen, hung>>

PcValues == {"idle", "take", "takeAlways", "panic", "dec", "decStore", "put", "incStore"}

FreeSet == Range(free)
Dec(n) == IF n = 0 THEN MaxCount ELSE n - 1
IncLost(n) == n     \* a mutant of Inc: the new count is not stored
Inc(n) == IF n = MaxCount THEN 0 ELSE n + 1

\* A reference that nobody holds, and one whose holder is not inside a call with it.
Spare(r) == (\A b \in Buffers : r \notin live[b]) /\ (\A t \in Tasks : tok[t] # r)
Held(b, r) == r \in live[b] /\ (\A t \in Tasks : tok[t] # r)

\* The counts are .noinit memory: any value, until a buffer is first taken.
\* They are read only through a packet pointer, which only Take gives out, so
\* starting them at 0 loses nothing.
Init ==
    /\ free \in {s \in [1 .. BufferCount -> Buffers] : IsInjective(s)}
    /\ refcount = [b \in Buffers |-> 0]
    /\ live = [b \in Buffers |-> {}]
    /\ pc = [t \in Tasks |-> "idle"]
    /\ arg = [t \in Tasks |-> NoBuf]
    /\ tok = [t \in Tasks |-> NoRef]
    /\ seen = [t \in Tasks |-> 0]
    /\ hung = FALSE

Begin(t, at, b, r) ==
    /\ pc' = [pc EXCEPT ![t] = at]
    /\ arg' = [arg EXCEPT ![t] = b]
    /\ tok' = [tok EXCEPT ![t] = r]

End(t) == Begin(t, "idle", NoBuf, NoRef)

------------------------------------------------------------------------------
\* csp_buffer_get (reserve 2) and csp_buffer_get_always (reserve 0): the size test.
GetTest(t, r, reserve) ==
    /\ pc[t] = "idle" /\ Spare(r)
    /\ Len(free) >= reserve         \* otherwise NULL is returned: nothing changes
    /\ Begin(t, IF reserve = 0 THEN "takeAlways" ELSE "take", NoBuf, r)
    /\ UNCHANGED <<free, refcount, live, seen, hung>>

\* A mutant of HandOut that looks at the head of the queue and leaves it there.
HandOutPeek(r) ==
    /\ free # <<>> /\ UNCHANGED free
    /\ refcount' = [refcount EXCEPT ![Head(free)] = 1]
    /\ live' = [live EXCEPT ![Head(free)] = {r}]

HandOut(r) ==
    /\ free # <<>>
    /\ free' = Tail(free)
    /\ refcount' = [refcount EXCEPT ![Head(free)] = 1]
    /\ live' = [live EXCEPT ![Head(free)] = {r}]

\* The dequeue, which fails if the queue was drained since the test: NULL is
\* returned, and csp_buffer_get_always panics and stays there.
Take(t) ==
    /\ pc[t] \in {"take", "takeAlways"}
    /\ UNCHANGED <<seen, hung>>
    /\ \/ HandOut(tok[t]) /\ End(t)
       \/ /\ free = <<>>
          /\ UNCHANGED <<free, refcount, live>>
          /\ IF pc[t] = "take" THEN End(t) ELSE Begin(t, "panic", NoBuf, NoRef)

\* csp_buffer_free by the holder of a reference: the test for a free buffer.
FreeTest(t, b, r) ==
    /\ pc[t] = "idle" /\ Held(b, r)
    /\ refcount[b] # 0              \* otherwise CSP_DBG_ERR_ALREADY_FREE: nothing changes
    /\ Begin(t, "dec", b, r)
    /\ UNCHANGED <<free, refcount, live, seen, hung>>

\* --(buf->refcount) > 0: the reference is gone once the count is written.
Drop(t, n) ==
    /\ refcount' = [refcount EXCEPT ![arg[t]] = Dec(n)]
    /\ live' = [live EXCEPT ![arg[t]] = @ \ {tok[t]}]
    /\ IF Dec(n) > 0 THEN End(t) ELSE Begin(t, "put", arg[t], NoRef)
    /\ UNCHANGED <<free, seen, hung>>

FreeDec(t) ==
    /\ pc[t] = "dec"
    /\ \/ ~SplitCount /\ Drop(t, refcount[arg[t]])
       \/ /\ SplitCount
          /\ pc' = [pc EXCEPT ![t] = "decStore"]
          /\ seen' = [seen EXCEPT ![t] = refcount[arg[t]]]
          /\ UNCHANGED <<free, refcount, live, arg, tok, hung>>

FreeDecStore(t) == pc[t] = "decStore" /\ Drop(t, seen[t])

\* A mutant of PutBack whose queue is one element short.
PutBackShort(b) == free' = IF Len(free) < BufferCount - 1 THEN Append(free, b) ELSE free

\* csp_queue_enqueue, its result ignored: on a full queue the buffer is lost.
PutBack(b) == free' = IF Len(free) < BufferCount THEN Append(free, b) ELSE free

\* A mutant of FreePut that clears its variable before it enqueues it.
FreePutLate(t) ==
    /\ pc[t] = "put"
    /\ End(t)
    /\ PutBack(arg'[t])
    /\ UNCHANGED <<refcount, live, seen, hung>>

FreePut(t) ==
    /\ pc[t] = "put"
    /\ PutBack(arg[t])
    /\ End(t)
    /\ UNCHANGED <<refcount, live, seen, hung>>

\* csp_buffer_refc_inc by the holder of a reference r: s is the new one.
Add(b, n, s) ==
    /\ refcount' = [refcount EXCEPT ![b] = Inc(n)]
    /\ live' = [live EXCEPT ![b] = @ \cup {s}]
    /\ UNCHANGED <<free, seen, hung>>

RefInc(t, b, r, s) ==
    /\ pc[t] = "idle" /\ Held(b, r) /\ Spare(s)
    /\ \/ ~SplitCount /\ Add(b, refcount[b], s) /\ UNCHANGED <<pc, arg, tok>>
       \/ /\ SplitCount
          /\ Begin(t, "incStore", b, r)
          /\ seen' = [seen EXCEPT ![t] = refcount[b]]
          /\ UNCHANGED <<free, refcount, live, hung>>

RefIncStore(t) ==
    /\ pc[t] = "incStore"
    /\ \E s \in Refs : Spare(s) /\ Add(arg[t], seen[t], s)
    /\ End(t)

\* csp_buffer_get_isr (2) and csp_buffer_get_always_isr (0), in a handler.
IsrGet(r, reserve) ==
    /\ Spare(r) /\ Len(free) >= reserve
    /\ UNCHANGED <<pc, arg, tok, seen>>
    /\ \/ HandOut(r) /\ UNCHANGED hung
       \/ free = <<>> /\ hung' = TRUE /\ UNCHANGED <<free, refcount, live>>

\* csp_buffer_free_isr, in a handler.  The one handler of the tree (csp_kiss_rx,
\* through csp_qfifo_write) frees only packets it took itself.
IsrFree(b, r) ==
    /\ Held(b, r) /\ refcount[b] # 0
    /\ IsrShares \/ live[b] = {r}
    /\ refcount' = [refcount EXCEPT ![b] = Dec(@)]
    /\ live' = [live EXCEPT ![b] = @ \ {r}]
    /\ IF Dec(refcount[b]) > 0 THEN UNCHANGED free ELSE PutBack(b)
    /\ UNCHANGED <<pc, arg, tok, seen, hung>>

\* The rest of a call a task has begun.
Step(t) == ~hung /\ (Take(t) \/ FreeDec(t) \/ FreeDecStore(t) \/ FreePut(t) \/ RefIncStore(t))

Call(t) ==
    /\ ~hung
    /\ \/ \E r \in Refs, reserve \in {0, 2} : GetTest(t, r, reserve)
       \/ \E b \in Buffers, r \in Refs : FreeTest(t, b, r)
       \/ \E b \in Buffers, r, s \in Refs : RefInc(t, b, r, s)

Interrupt ==
    /\ ~hung
    /\ \/ \E r \in Refs, reserve \in {0, 2} : IsrGet(r, reserve)
       \/ \E b \in Buffers, r \in Refs : IsrFree(b, r)

Next == (\E t \in Tasks : Call(t) \/ Step(t)) \/ Interrupt

Spec == Init /\ [][Next]_vars

\* A task inside a call is resumed: a handler that returns and a scheduler that
\* is fair let every begun call reach its end.
FairSpec == Spec /\ \A t \in Tasks : WF_vars(Step(t))

------------------------------------------------------------------------------
TypeOK ==
    /\ free \in Seq(Buffers)
    /\ refcount \in [Buffers -> 0 .. MaxCount]
    /\ live \in [Buffers -> SUBSET Refs]
    /\ pc \in [Tasks -> PcValues]
    /\ arg \in [Tasks -> Buffers \cup {NoBuf}]
    /\ tok \in [Tasks -> Refs \cup {NoRef}]
    /\ seen \in [Tasks -> 0 .. MaxCount]
    /\ hung \in BOOLEAN

(* The count of a buffer is the number of references the program holds, also *)
(* while other tasks and handlers are halfway through a release of it: the   *)
(* last release, and no other, returns the buffer (csp_buffer.c:143-153).    *)
CountExact == \A b \in Buffers : refcount[b] = Cardinality(live[b])

(* A buffer in the free queue is there once, nobody holds a reference to it  *)
(* and no release of it is still to enqueue it: it cannot be handed out to   *)
(* two owners, whatever order gets and frees interleave in.                  *)
FreeOnce ==
    /\ IsInjective(free)
    /\ \A b \in FreeSet : live[b] = {} /\ \A t \in Tasks : ~(pc[t] = "put" /\ arg[t] = b)

(* No buffer is lost: it is in the queue, or referenced, or a task is about  *)
(* to enqueue it.  In particular the unchecked enqueue of csp_buffer_free    *)
(* never meets a full queue.                                                 *)
Conserved ==
    \A b \in Buffers :
        b \in FreeSet \/ live[b] # {} \/ \E t \in Tasks : pc[t] = "put" /\ arg[t] = b

(* The pool keeps the promise of CspPool: a step gives a reference to an     *)
(* unreferenced buffer, shares one, drops one, or leaves them all.           *)
Pool == INSTANCE CspPool

PoolSpec == Pool!PSpec

(* A buffer whose last reference was dropped gets back to the queue, unless  *)
(* a handler has taken the node down for want of buffers (csp_buffer.c:206). *)
NoLeak == \A b \in Buffers : (live[b] = {}) ~> (b \in FreeSet \/ live[b] # {} \/ hung)

(* csp_buffer.c:215 and :192: csp_buffer_get leaves the last two buffers,    *)
(* which only csp_buffer_get_always is to use.                               *)
ReserveKept ==
    [][\A t \in Tasks : pc[t] = "take" /\ Len(free') < Len(free) => Len(free') >= 2]_vars
================================================================================
