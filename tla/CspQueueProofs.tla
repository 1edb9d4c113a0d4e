---------------------------- MODULE CspQueueProofs ----------------------------
(***************************************************************************)
(* The ring buffer of the bare-metal port, for every queue length and every *)
(* set of items: its fields stay consistent, and it implements the bounded  *)
(* FIFO of CspFifo.                                                         *)
(***************************************************************************)
EXTENDS CspQueue, SequenceTheorems, TLAPS

Inv == TypeOK /\ RingConsistent

(* Every operation leaves head, tail and count in range and consistent       *)
(* (mpmp_queue.c: each of the four updates happens under one lock).          *)
LEMMA InvInductive == Spec => []Inv
<1>1. Init => Inv
  <2> SUFFICES ASSUME Init PROVE Inv
    OBVIOUS
  <2>1. QLen \in Nat /\ QLen # 0 /\ 0 \in Index
    BY QueueAssumption DEF Index
  <2>2. ret \in [ok : BOOLEAN, item : Items \cup {NoItem}]
    BY DEF Init, Fail
  <2>3. TypeOK
    <3>1. count \in 0 .. QLen
      BY <2>1 DEF Init
    <3>2. ready \in BOOLEAN
      BY DEF Init
    <3> QED BY <2>1, <2>2, <3>1, <3>2, Zenon DEF Init, TypeOK
  <2>4. RingConsistent
    BY <2>1 DEF Init, RingConsistent, Slot
  <2> QED BY <2>3, <2>4 DEF Inv
<1>2. Inv /\ [Next]_vars => Inv'
  <2> SUFFICES ASSUME Inv, [Next]_vars PROVE Inv'
    OBVIOUS
  <2> USE QueueAssumption DEF Inv, TypeOK, RingConsistent, Index, Slot, Pass, Fail
  <2>1. CASE Create
    BY <2>1 DEF Create
  <2>2. ASSUME NEW x \in Items, Send(x) PROVE Inv'
    <3>1. CASE ready /\ count < QLen
      <4>1. /\ slots' = [slots EXCEPT ![head] = x] /\ head' = Advance(head)
            /\ count' = count + 1 /\ ret' = Pass(NoItem) /\ UNCHANGED <<tail, ready>>
        BY <2>2, <3>1 DEF Send
      <4>2. TypeOK'
        BY <4>1, <3>1 DEF Advance
      <4>3. RingConsistent'
        BY <4>1, <3>1 DEF Advance
      <4> QED BY <4>2, <4>3
    <3>2. CASE ~(ready /\ count < QLen)
      <4>1. /\ ret' = Fail /\ UNCHANGED <<slots, head, tail, count, ready>>
        BY <2>2, <3>2 DEF Send
      <4> QED BY <4>1
    <3> QED BY <3>1, <3>2
  <2>3. CASE Receive
    <3>1. CASE ready /\ count > 0
      <4>1. /\ ret' = Pass(slots[tail]) /\ tail' = Advance(tail)
            /\ count' = count - 1 /\ UNCHANGED <<slots, head, ready>>
        BY <2>3, <3>1 DEF Receive
      <4>2. TypeOK'
        BY <4>1, <3>1 DEF Advance
      <4>3. RingConsistent'
        BY <4>1, <3>1 DEF Advance
      <4> QED BY <4>2, <4>3
    <3>2. CASE ~(ready /\ count > 0)
      <4>1. /\ ret' = Fail /\ UNCHANGED <<slots, head, tail, count, ready>>
        BY <2>3, <3>2 DEF Receive
      <4> QED BY <4>1
    <3> QED BY <3>1, <3>2
  <2>4. CASE Reset
    <3>1. /\ UNCHANGED <<slots, ready>>
          /\ \/ ready /\ head' = 0 /\ tail' = 0 /\ count' = 0 /\ ret' = Pass(NoItem)
             \/ ~ready /\ ret' = Fail /\ UNCHANGED <<head, tail, count>>
      BY <2>4 DEF Reset
    <3>2. ret' \in [ok : BOOLEAN, item : Items \cup {NoItem}]
      <4>1. ret' = Pass(NoItem) \/ ret' = Fail
        BY <3>1, Zenon
      <4>2. CASE ret' = Pass(NoItem)
        BY <4>2
      <4>3. CASE ret' = Fail
        BY <4>3
      <4> QED BY <4>1, <4>2, <4>3, Zenon
    <3>3. TypeOK'
      <4>1. head' \in Index /\ tail' \in Index /\ count' \in 0 .. QLen
        BY <3>1
      <4>2. slots' \in [Index -> Items] /\ ready' \in BOOLEAN
        BY <3>1
      <4> QED BY <3>2, <4>1, <4>2
    <3>4. RingConsistent'
      BY <3>1
    <3> QED BY <3>3, <3>4
  <2>5. CASE UNCHANGED vars
    BY <2>5 DEF vars
  <2> QED BY <2>1, <2>2, <2>3, <2>4, <2>5 DEF Next
<1> QED BY <1>1, <1>2, PTL DEF Spec

(* Type correctness of the ring's record.                                    *)
THEOREM TypeCorrect == Spec => []TypeOK
BY InvInductive, PTL DEF Inv

(* head, tail and count never disagree, however often the ring wraps.        *)
THEOREM RingStaysConsistent == Spec => []RingConsistent
BY InvInductive, PTL DEF Inv

------------------------------------------------------------------------------
(* What waits in the ring is a sequence of count items.                      *)
LEMMA ContentsType ==
  ASSUME Inv
  PROVE  /\ Contents \in Seq(Items)
         /\ Len(Contents) = count
         /\ \A i \in 1 .. count : Contents[i] = slots[Slot(i - 1)]
<1> USE QueueAssumption DEF Inv, TypeOK, Index
<1>1. \A i \in 1 .. count : Slot(i - 1) \in Index
  BY DEF Slot
<1>2. \A i \in 1 .. count : slots[Slot(i - 1)] \in Items
  BY <1>1
<1>3. Contents \in [1 .. count -> Items]
  BY <1>2 DEF Contents
<1> QED BY <1>3 DEF Contents

(* Writing the slot at head appends to the contents: no element that waits   *)
(* is overwritten, even when the new head wraps to slot 0.                   *)
LEMMA SendAppends ==
  ASSUME Inv, Inv', NEW x \in Items, ready, count < QLen, Send(x)
  PROVE  Contents' = Append(Contents, x)
<1> USE QueueAssumption DEF Inv, TypeOK, Index
<1>1. /\ slots' = [slots EXCEPT ![head] = x]
      /\ count' = count + 1 /\ tail' = tail
  BY DEF Send
<1>2. head = Slot(count)
  BY DEF RingConsistent
<1>3. \A i \in 1 .. count' : Slot(i - 1)' = Slot(i - 1)
  BY <1>1 DEF Slot
<1>4. \A i \in 1 .. count : Slot(i - 1) \in Index /\ Slot(i - 1) # head
  BY <1>2 DEF Slot
<1>5. /\ Contents \in Seq(Items) /\ Len(Contents) = count
      /\ \A i \in 1 .. count : Contents[i] = slots[Slot(i - 1)]
  BY ContentsType
<1>6. Contents' = [i \in 1 .. count' |-> slots'[Slot(i - 1)']]
  BY DEF Contents
<1>7. /\ Contents' \in Seq(Items) /\ Len(Contents') = count + 1
      /\ \A i \in 1 .. count + 1 : Contents'[i] = slots'[Slot(i - 1)]
  <2>1. \A i \in 1 .. count' : slots'[Slot(i - 1)] \in Items
    BY <1>1, <1>2, <1>4
  <2>2. Contents' \in [1 .. count + 1 -> Items]
    BY <1>1, <1>3, <1>6, <2>1
  <2> QED BY <1>1, <1>3, <1>6, <2>2
<1>8. /\ Append(Contents, x) \in Seq(Items)
      /\ Len(Append(Contents, x)) = count + 1
      /\ \A i \in 1 .. count : Append(Contents, x)[i] = Contents[i]
      /\ Append(Contents, x)[count + 1] = x
  BY <1>5, AppendProperties
<1>9. \A i \in 1 .. count + 1 : Contents'[i] = Append(Contents, x)[i]
  <2> SUFFICES ASSUME NEW i \in 1 .. count + 1
               PROVE  Contents'[i] = Append(Contents, x)[i]
    OBVIOUS
  <2>1. CASE i = count + 1
    <3>1. Contents'[i] = slots'[head]
      BY <1>2, <1>7, <2>1
    <3> QED BY <3>1, <1>1, <1>8, <2>1
  <2>2. CASE i \in 1 .. count
    BY <1>1, <1>4, <1>5, <1>7, <1>8, <2>2
  <2>3. i = count + 1 \/ i \in 1 .. count
    OBVIOUS
  <2> QED BY <2>1, <2>2, <2>3, Zenon
<1> QED BY <1>7, <1>8, <1>9, SeqEqual

(* Reading the slot at tail takes the oldest element and leaves the others   *)
(* in order.                                                                 *)
LEMMA ReceiveTakesOldest ==
  ASSUME Inv, Inv', ready, count > 0, Receive
  PROVE  /\ Contents # <<>>
         /\ Contents' = Tail(Contents)
         /\ slots[tail] = Head(Contents)
<1> USE QueueAssumption DEF Inv, TypeOK, Index
<1>1. /\ slots' = slots /\ tail' = Advance(tail) /\ count' = count - 1
  BY DEF Receive
<1>2. /\ Contents \in Seq(Items) /\ Len(Contents) = count
      /\ \A i \in 1 .. count : Contents[i] = slots[Slot(i - 1)]
  BY ContentsType
<1>3. Contents # <<>>
  BY <1>2
<1>4. \A i \in 1 .. count' : Slot(i - 1)' = Slot(i)
  BY <1>1 DEF Slot, Advance
<1>5. Contents' = [i \in 1 .. count' |-> slots'[Slot(i - 1)']]
  BY DEF Contents
<1>6. /\ Contents' \in Seq(Items) /\ Len(Contents') = count - 1
      /\ \A i \in 1 .. count - 1 : Contents'[i] = slots[Slot(i)]
  <2>1. \A i \in 1 .. count' : Slot(i) \in Index
    BY <1>1 DEF Slot
  <2>2. Contents' \in [1 .. count - 1 -> Items]
    BY <1>1, <1>4, <1>5, <2>1
  <2> QED BY <1>1, <1>4, <1>5, <2>2
<1>7. /\ Tail(Contents) \in Seq(Items) /\ Len(Tail(Contents)) = count - 1
      /\ \A i \in 1 .. count - 1 : Tail(Contents)[i] = Contents[i + 1]
  BY <1>2, <1>3, HeadTailProperties
<1>8. \A i \in 1 .. count - 1 : Contents'[i] = Tail(Contents)[i]
  <2> SUFFICES ASSUME NEW i \in 1 .. count - 1
               PROVE  Contents'[i] = Tail(Contents)[i]
    OBVIOUS
  <2>1. Contents[i + 1] = slots[Slot(i)]
    <3>1. i + 1 \in 1 .. count /\ (i + 1) - 1 = i
      OBVIOUS
    <3> QED BY <3>1, <1>2
  <2> QED BY <2>1, <1>6, <1>7
<1>9. Contents' = Tail(Contents)
  BY <1>6, <1>7, <1>8, SeqEqual
<1>10. slots[tail] = Head(Contents)
  <2>1. Slot(0) = tail /\ 1 \in 1 .. count
    BY DEF Slot
  <2>2. Contents[1] = slots[tail]
    BY <1>2, <2>1
  <2> QED BY <1>2, <1>3, <2>2
<1> QED BY <1>3, <1>9, <1>10

(* The ring implements the bounded FIFO of CspFifo for every length: each    *)
(* call takes effect and reports exactly as the call of the FIFO does.       *)
THEOREM RingImplementsFifo == Spec => FifoSpec
<1> USE DEF Fifo!FNext, Fifo!FCreate, Fifo!FSend, Fifo!FReceive, Fifo!FReset,
            Fifo!Pass, Fifo!Fail, Fifo!fvars, Pass, Fail
<1>1. Init => Fifo!FInit
  BY DEF Init, Fifo!FInit, Contents
<1>2. Inv /\ Inv' /\ [Next]_vars => [Fifo!FNext]_(Fifo!fvars)
  <2> SUFFICES ASSUME Inv, Inv', [Next]_vars
               PROVE  [Fifo!FNext]_(Fifo!fvars)
    OBVIOUS
  <2>a. /\ Contents \in Seq(Items) /\ Len(Contents) = count
        /\ count \in 0 .. QLen /\ QLen \in Nat /\ ready \in BOOLEAN
    BY ContentsType, QueueAssumption DEF Inv, TypeOK
  <2>b. (count = 0) <=> (Contents = <<>>)
    BY <2>a
  <2>1. CASE Create
    <3>1. Contents' = <<>>
      BY <2>1 DEF Create, Contents
    <3> QED BY <2>1, <3>1 DEF Create
  <2>2. ASSUME NEW x \in Items, Send(x) PROVE Fifo!FNext
    <3>1. CASE ready /\ count < QLen
      BY <2>2, <3>1, <2>a, SendAppends DEF Send
    <3>2. CASE ~(ready /\ count < QLen)
      <4>1. Contents' = Contents
        BY <2>2, <3>2 DEF Send, Contents, Slot
      <4> QED BY <2>2, <3>2, <4>1, <2>a DEF Send
    <3> QED BY <3>1, <3>2
  <2>3. CASE Receive
    <3>1. CASE ready /\ count > 0
      BY <2>3, <3>1, ReceiveTakesOldest DEF Receive
    <3>2. CASE ~(ready /\ count > 0)
      <4>1. Contents' = Contents
        BY <2>3, <3>2 DEF Receive, Contents, Slot
      <4> QED BY <2>3, <3>2, <4>1, <2>a, <2>b DEF Receive
    <3> QED BY <3>1, <3>2
  <2>4. CASE Reset
    <3>1. CASE ready
      <4>1. Contents' = <<>>
        BY <2>4, <3>1 DEF Reset, Contents
      <4> QED BY <2>4, <3>1, <4>1 DEF Reset
    <3>2. CASE ~ready
      <4>1. Contents' = Contents
        BY <2>4, <3>2 DEF Reset, Contents, Slot
      <4> QED BY <2>4, <3>2, <4>1 DEF Reset
    <3> QED BY <3>1, <3>2
  <2>5. CASE UNCHANGED vars
    BY <2>5 DEF vars, Contents, Slot
  <2> QED BY <2>1, <2>2, <2>3, <2>4, <2>5 DEF Next
<1> QED BY <1>1, <1>2, InvInductive, PTL DEF Spec, FifoSpec, Fifo!FSpec
==============================================================================
