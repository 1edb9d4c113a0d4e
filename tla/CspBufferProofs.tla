---------------------------- MODULE CspBufferProofs ----------------------------
(***************************************************************************)
(* The packet pool for every number of buffers, references and preemptive   *)
(* tasks, when a count is read, changed and written back in one instruction *)
(* (~SplitCount; the runs show what happens otherwise).                     *)
(***************************************************************************)
EXTENDS CspBuffer, FiniteSetTheorems, SequenceTheorems, TLAPS

(* What a task inside a call relies on: the reference it gives is still      *)
(* nobody's, the one it drops is still there, and a buffer it is about to    *)
(* enqueue has no reference left.                                            *)
TaskOK(t) ==
    /\ pc[t] \in {"idle", "take", "takeAlways", "panic", "dec", "put"}
    /\ pc[t] \in {"idle", "panic", "put"} => tok[t] = NoRef
    /\ pc[t] \in {"take", "takeAlways"} =>
          tok[t] \in Refs /\ \A b \in Buffers : tok[t] \notin live[b]
    /\ pc[t] = "dec" => arg[t] \in Buffers /\ tok[t] \in live[arg[t]]
    /\ pc[t] = "put" => arg[t] \in Buffers /\ live[arg[t]] = {}

TokensApart == \A t, u \in Tasks : t # u /\ tok[t] = tok[u] => tok[t] = NoRef
PutsApart ==
    \A t, u \in Tasks : t # u /\ pc[t] = "put" /\ pc[u] = "put" => arg[t] # arg[u]
LiveApart == \A b, c \in Buffers : b # c => live[b] \cap live[c] = {}

Discipline == (\A t \in Tasks : TaskOK(t)) /\ TokensApart /\ PutsApart /\ LiveApart

IInv == TypeOK /\ CountExact /\ FreeOnce /\ Conserved /\ Discipline

------------------------------------------------------------------------------
(* The free queue as a set: what dequeue and enqueue do to it.               *)
LEMMA FreeBuffers ==
  ASSUME TypeOK
  PROVE  FreeSet \subseteq Buffers
BY DEF TypeOK, FreeSet, Range

LEMMA TailFree ==
  ASSUME free \in Seq(Buffers), IsInjective(free), free # <<>>, free' = Tail(free)
  PROVE  /\ Head(free) \in FreeSet /\ Head(free) \in Buffers
         /\ free' \in Seq(Buffers) /\ IsInjective(free)'
         /\ FreeSet' = FreeSet \ {Head(free)}
<1>1. /\ Head(free) = free[1] /\ 1 \in DOMAIN free /\ Len(free) \in Nat
      /\ DOMAIN free = 1 .. Len(free)
      /\ \A i \in 1 .. Len(free) : free[i] \in Buffers
  OBVIOUS
<1>2. /\ free' \in Seq(Buffers) /\ DOMAIN free' = 1 .. Len(free) - 1
      /\ \A i \in 1 .. Len(free) - 1 : free'[i] = free[i + 1]
  BY <1>1
<1>3. IsInjective(free)'
  BY <1>1, <1>2 DEF IsInjective
<1>4. ASSUME NEW b \in FreeSet' PROVE b \in FreeSet \ {Head(free)}
  <2>1. PICK i \in 1 .. Len(free) - 1 : b = free'[i]
    BY <1>2 DEF FreeSet, Range
  <2>2. b = free[i + 1] /\ i + 1 \in 1 .. Len(free) /\ i + 1 # 1
    BY <1>1, <1>2, <2>1
  <2> QED BY <1>1, <2>2 DEF FreeSet, Range, IsInjective
<1>5. ASSUME NEW b \in FreeSet, b # Head(free) PROVE b \in FreeSet'
  <2>1. PICK i \in 1 .. Len(free) : b = free[i]
    BY <1>1 DEF FreeSet, Range
  <2>2. i - 1 \in 1 .. Len(free) - 1 /\ (i - 1) + 1 = i
    BY <1>1, <1>5, <2>1
  <2>3. free'[i - 1] = b /\ i - 1 \in DOMAIN free'
    BY <1>2, <2>1, <2>2
  <2> QED BY <2>3 DEF FreeSet, Range
<1>6. Head(free) \in FreeSet
  BY <1>1 DEF FreeSet, Range
<1> QED BY <1>1, <1>2, <1>3, <1>4, <1>5, <1>6

LEMMA AppendFree ==
  ASSUME free \in Seq(Buffers), IsInjective(free), NEW b \in Buffers, b \notin FreeSet,
         free' = Append(free, b)
  PROVE  /\ free' \in Seq(Buffers) /\ IsInjective(free)'
         /\ FreeSet' = FreeSet \cup {b}
<1>1. /\ Len(free) \in Nat /\ DOMAIN free = 1 .. Len(free)
      /\ DOMAIN free' = 1 .. Len(free) + 1
      /\ \A i \in 1 .. Len(free) : free'[i] = free[i]
      /\ free'[Len(free) + 1] = b /\ free' \in Seq(Buffers)
  BY AppendProperties
<1>2. \A i \in 1 .. Len(free) : free[i] # b
  BY <1>1 DEF FreeSet, Range
<1>3. IsInjective(free)'
  BY <1>1, <1>2 DEF IsInjective
<1>4. FreeSet' \subseteq FreeSet \cup {b}
  BY <1>1 DEF FreeSet, Range
<1>5. FreeSet \subseteq FreeSet'
  <2> SUFFICES ASSUME NEW c \in FreeSet PROVE c \in FreeSet'
    OBVIOUS
  <2>1. PICK i \in 1 .. Len(free) : c = free[i]
    BY <1>1 DEF FreeSet, Range
  <2>2. i \in DOMAIN free' /\ c = free'[i]
    BY <1>1, <2>1
  <2> QED BY <2>2 DEF FreeSet, Range
<1>6. b \in FreeSet'
  <2>1. Len(free) + 1 \in DOMAIN free'
    BY <1>1
  <2> QED BY <1>1, <2>1 DEF FreeSet, Range
<1> QED BY <1>1, <1>3, <1>4, <1>5, <1>6

(* There is room for a buffer that is not in the queue: the enqueue whose    *)
(* result csp_buffer_free ignores cannot fail.                               *)
LEMMA RoomFree ==
  ASSUME free \in Seq(Buffers), IsInjective(free), NEW b \in Buffers, b \notin FreeSet
  PROVE  Len(free) < BufferCount
<1>1. IsFiniteSet(Buffers) /\ BufferCount \in Nat
  BY BufferAssumption, FS_CardinalityType DEF BufferCount
<1>2. /\ IsFiniteSet(Buffers \ {b})
      /\ Cardinality(Buffers \ {b}) = BufferCount - 1
  BY <1>1, FS_RemoveElement DEF BufferCount
<1>3. /\ Len(free) \in Nat /\ DOMAIN free = 1 .. Len(free)
      /\ free \in [1 .. Len(free) -> Buffers \ {b}]
  <2>1. /\ Len(free) \in Nat /\ DOMAIN free = 1 .. Len(free)
        /\ free \in [1 .. Len(free) -> Buffers]
    OBVIOUS
  <2>2. \A i \in 1 .. Len(free) : free[i] # b
    BY <2>1 DEF FreeSet, Range
  <2>3. ASSUME NEW n, NEW f \in [1 .. n -> Buffers], \A i \in 1 .. n : f[i] # b
        PROVE  f \in [1 .. n -> Buffers \ {b}]
    BY <2>3
  <2>4. free \in [1 .. Len(free) -> Buffers \ {b}]
    BY <2>1, <2>2, <2>3, Zenon
  <2> QED BY <2>1, <2>4, Zenon
<1>4. IsFiniteSet(1 .. Len(free)) /\ Cardinality(1 .. Len(free)) = Len(free)
  <2>1. 1 \in Int /\ Len(free) \in Int
    BY <1>3
  <2>2. /\ IsFiniteSet(1 .. Len(free))
        /\ Cardinality(1 .. Len(free)) = IF 1 > Len(free) THEN 0 ELSE Len(free) - 1 + 1
    BY <2>1, FS_Interval, Zenon
  <2> QED BY <1>3, <2>2
<1>5. CASE Len(free) > BufferCount - 1
  <2>1. \E x, y \in 1 .. Len(free) : x # y /\ free[x] = free[y]
    BY <1>2, <1>3, <1>4, <1>5, FS_PigeonHole
  <2> QED BY <2>1, <1>3 DEF IsInjective
<1> QED BY <1>1, <1>3, <1>5

(* Cardinalities of the reference sets.                                      *)
LEMMA LiveFinite ==
  ASSUME TypeOK, NEW b \in Buffers
  PROVE  /\ IsFiniteSet(live[b]) /\ Cardinality(live[b]) \in 0 .. MaxCount
         /\ Cardinality(live[b]) = 0 <=> live[b] = {}
<1>1. live[b] \in SUBSET Refs /\ IsFiniteSet(Refs) /\ Cardinality(Refs) <= MaxCount
  BY BufferAssumption DEF TypeOK
<1>2. IsFiniteSet(live[b]) /\ Cardinality(live[b]) <= Cardinality(Refs)
  BY <1>1, FS_Subset
<1>3. Cardinality(live[b]) \in Nat /\ Cardinality(Refs) \in Nat
  BY <1>1, <1>2, FS_CardinalityType
<1> QED BY <1>1, <1>2, <1>3, FS_EmptySet, BufferAssumption

------------------------------------------------------------------------------
(* Taking the oldest free buffer for a reference nobody holds.               *)
LEMMA HandOutKeeps ==
  ASSUME IInv, NEW r \in Refs, \A b \in Buffers : r \notin live[b], HandOut(r)
  PROVE  /\ free' \in Seq(Buffers) /\ refcount' \in [Buffers -> 0 .. MaxCount]
         /\ live' \in [Buffers -> SUBSET Refs]
         /\ CountExact' /\ LiveApart' /\ IsInjective(free)'
         /\ FreeSet' = FreeSet \ {Head(free)}
         /\ Head(free) \in FreeSet /\ Head(free) \in Buffers
         /\ \A b \in Buffers : live'[b] = IF b = Head(free) THEN {r} ELSE live[b]
<1> DEFINE h == Head(free)
<1>1. free \in Seq(Buffers) /\ IsInjective(free)
  BY DEF IInv, TypeOK, FreeOnce
<1>2. /\ h \in FreeSet /\ h \in Buffers /\ free' \in Seq(Buffers)
      /\ IsInjective(free)' /\ FreeSet' = FreeSet \ {h}
  BY <1>1, TailFree DEF HandOut
<1> HIDE DEF h
<1>3. /\ refcount' = [refcount EXCEPT ![h] = 1]
      /\ live' = [live EXCEPT ![h] = {r}]
  BY DEF HandOut, h
<1>4. /\ \A b \in Buffers : live'[b] = IF b = h THEN {r} ELSE live[b]
      /\ live' \in [Buffers -> SUBSET Refs]
  BY <1>2, <1>3 DEF IInv, TypeOK
<1>5. /\ \A b \in Buffers : refcount'[b] = IF b = h THEN 1 ELSE refcount[b]
      /\ refcount' \in [Buffers -> 0 .. MaxCount]
  BY <1>2, <1>3, BufferAssumption DEF IInv, TypeOK
<1>6. Cardinality({r}) = 1
  BY FS_Singleton
<1>7. CountExact'
  BY <1>4, <1>5, <1>6 DEF CountExact, IInv
<1>8. LiveApart'
  BY <1>4 DEF LiveApart, IInv, Discipline
<1> QED BY <1>2, <1>4, <1>5, <1>7, <1>8 DEF h

(* Dropping one reference of a buffer: the count follows, and reaches 0      *)
(* exactly when no reference is left.                                        *)
LEMMA DropKeeps ==
  ASSUME IInv, NEW b \in Buffers, NEW r \in live[b],
         refcount' = [refcount EXCEPT ![b] = Dec(refcount[b])],
         live' = [live EXCEPT ![b] = @ \ {r}]
  PROVE  /\ refcount' \in [Buffers -> 0 .. MaxCount]
         /\ live' \in [Buffers -> SUBSET Refs]
         /\ CountExact' /\ LiveApart'
         /\ \A c \in Buffers : live'[c] = IF c = b THEN live[b] \ {r} ELSE live[c]
         /\ Dec(refcount[b]) > 0 <=> live'[b] # {}
<1>1. /\ IsFiniteSet(live[b]) /\ Cardinality(live[b]) \in 0 .. MaxCount
      /\ refcount[b] = Cardinality(live[b]) /\ live[b] # {}
      /\ Cardinality(live[b]) # 0
  BY LiveFinite DEF IInv, CountExact
<1>2. /\ IsFiniteSet(live[b] \ {r})
      /\ Cardinality(live[b] \ {r}) = Cardinality(live[b]) - 1
  BY <1>1, FS_RemoveElement
<1>3. /\ Dec(refcount[b]) = Cardinality(live[b] \ {r})
      /\ Dec(refcount[b]) \in 0 .. MaxCount
  BY <1>1, <1>2, BufferAssumption DEF Dec
<1>4. /\ \A c \in Buffers : live'[c] = IF c = b THEN live[b] \ {r} ELSE live[c]
      /\ live' \in [Buffers -> SUBSET Refs]
  BY DEF IInv, TypeOK
<1>5. /\ refcount' \in [Buffers -> 0 .. MaxCount]
      /\ \A c \in Buffers : refcount'[c] = IF c = b THEN Dec(refcount[b]) ELSE refcount[c]
  BY <1>3 DEF IInv, TypeOK
<1>6. CountExact'
  BY <1>3, <1>4, <1>5 DEF CountExact, IInv
<1>7. LiveApart'
  BY <1>4 DEF LiveApart, IInv, Discipline
<1>8. Dec(refcount[b]) > 0 <=> live'[b] # {}
  <2>1. Cardinality(live[b] \ {r}) = 0 <=> live[b] \ {r} = {}
    BY <1>2, FS_EmptySet
  <2>2. live'[b] = live[b] \ {r}
    BY <1>4
  <2> QED BY <1>3, <2>1, <2>2
<1> QED BY <1>4, <1>5, <1>6, <1>7, <1>8

------------------------------------------------------------------------------
(* One lemma per operation: it keeps the inductive invariant.                *)

LEMMA GetTestKeeps ==
  ASSUME IInv, NEW t \in Tasks, NEW r \in Refs, NEW reserve \in {0, 2},
         GetTest(t, r, reserve)
  PROVE  IInv'
<1>1. /\ UNCHANGED <<free, refcount, live, seen, hung>>
      /\ pc[t] = "idle" /\ Spare(r)
      /\ pc' \in [Tasks -> PcValues] /\ pc'[t] \in {"take", "takeAlways"}
      /\ arg' = [arg EXCEPT ![t] = NoBuf] /\ tok' = [tok EXCEPT ![t] = r]
      /\ \A u \in Tasks : u # t => pc'[u] = pc[u]
  BY DEF GetTest, Begin, IInv, TypeOK, PcValues
<1>2. TypeOK' /\ CountExact'
  BY <1>1 DEF IInv, TypeOK, CountExact
<1>3. /\ FreeSet' = FreeSet
      /\ \A u \in Tasks, b \in Buffers :
            (pc'[u] = "put" /\ arg'[u] = b) <=> (pc[u] = "put" /\ arg[u] = b)
  BY <1>1 DEF FreeSet, IInv, TypeOK
<1>4. FreeOnce' /\ Conserved'
  BY <1>1, <1>3 DEF IInv, FreeOnce, Conserved
<1>5. ASSUME NEW u \in Tasks PROVE TaskOK(u)'
  <2>1. TaskOK(u)
    BY DEF IInv, Discipline
  <2>2. CASE u = t
    BY <1>1, <2>2 DEF TaskOK, Spare, IInv, TypeOK
  <2>3. CASE u # t
    BY <1>1, <2>1, <2>3 DEF TaskOK, IInv, TypeOK
  <2> QED BY <2>2, <2>3
<1>6. TokensApart' /\ PutsApart' /\ LiveApart'
  BY <1>1 DEF IInv, Discipline, TokensApart, PutsApart, LiveApart, Spare, TypeOK
<1> QED BY <1>2, <1>4, <1>5, <1>6 DEF IInv, Discipline

LEMMA TakeKeeps ==
  ASSUME IInv, NEW t \in Tasks, Take(t)
  PROVE  IInv'
<1>1. /\ UNCHANGED <<seen, hung>> /\ pc[t] \in {"take", "takeAlways"}
      /\ pc' \in [Tasks -> PcValues] /\ pc'[t] \in {"idle", "panic"}
      /\ arg' = [arg EXCEPT ![t] = NoBuf] /\ tok' = [tok EXCEPT ![t] = NoRef]
      /\ \A u \in Tasks : u # t => pc'[u] = pc[u]
  BY DEF Take, End, Begin, IInv, TypeOK, PcValues
<1>2. tok[t] \in Refs /\ \A b \in Buffers : tok[t] \notin live[b]
  BY <1>1 DEF IInv, Discipline, TaskOK
<1>3. \A u \in Tasks, b \in Buffers :
         (pc'[u] = "put" /\ arg'[u] = b) <=> (pc[u] = "put" /\ arg[u] = b)
  BY <1>1 DEF IInv, TypeOK
<1>4. TokensApart' /\ PutsApart'
  BY <1>1 DEF IInv, Discipline, TokensApart, PutsApart, TypeOK
<1>5. CASE HandOut(tok[t])
  <2>1. /\ free' \in Seq(Buffers) /\ refcount' \in [Buffers -> 0 .. MaxCount]
        /\ live' \in [Buffers -> SUBSET Refs]
        /\ CountExact' /\ LiveApart' /\ IsInjective(free)'
        /\ FreeSet' = FreeSet \ {Head(free)}
        /\ Head(free) \in FreeSet /\ Head(free) \in Buffers
        /\ \A b \in Buffers : live'[b] = IF b = Head(free) THEN {tok[t]} ELSE live[b]
    BY <1>2, <1>5, HandOutKeeps
  <2>2. TypeOK'
    BY <1>1, <2>1 DEF IInv, TypeOK
  <2>3. FreeOnce'
    <3>1. FreeSet \subseteq Buffers
      BY FreeBuffers DEF IInv
    <3> QED BY <1>3, <2>1, <3>1 DEF IInv, FreeOnce
  <2>c. Conserved'
    BY <1>3, <2>1 DEF IInv, Conserved
  <2>4. ASSUME NEW u \in Tasks PROVE TaskOK(u)'
    <3>1. TaskOK(u) /\ (u # t => tok[u] # tok[t])
      BY <1>2, BufferAssumption DEF IInv, Discipline, TokensApart
    <3>2. CASE u = t
      BY <1>1, <3>2 DEF TaskOK, IInv, TypeOK
    <3>3. CASE u # t
      <4>1. pc'[u] = pc[u] /\ arg'[u] = arg[u] /\ tok'[u] = tok[u]
        BY <1>1, <3>3 DEF IInv, TypeOK
      <4>2. pc[u] = "put" => arg[u] # Head(free)
        BY <2>1 DEF IInv, FreeOnce
      <4>3. pc[u] = "dec" => arg[u] # Head(free)
        BY <2>1, <3>1 DEF IInv, FreeOnce, TaskOK
      <4> QED BY <2>1, <3>1, <3>3, <4>1, <4>2, <4>3 DEF TaskOK
    <3> QED BY <3>2, <3>3
  <2> QED BY <1>4, <2>1, <2>2, <2>3, <2>c, <2>4 DEF IInv, Discipline
<1>6. CASE UNCHANGED <<free, refcount, live>>
  <2>1. TypeOK' /\ CountExact' /\ LiveApart'
    BY <1>1, <1>6 DEF IInv, TypeOK, CountExact, Discipline, LiveApart
  <2>a. FreeSet' = FreeSet
    BY <1>6 DEF FreeSet
  <2>2. FreeOnce'
    <3>1. FreeSet \subseteq Buffers
      BY FreeBuffers DEF IInv
    <3> QED BY <1>3, <1>6, <2>a, <3>1 DEF IInv, FreeOnce
  <2>c. Conserved'
    BY <1>3, <1>6, <2>a DEF IInv, Conserved
  <2>3. ASSUME NEW u \in Tasks PROVE TaskOK(u)'
    BY <1>1, <1>6 DEF IInv, Discipline, TaskOK, TypeOK
  <2> QED BY <1>4, <2>1, <2>2, <2>c, <2>3 DEF IInv, Discipline
<1> QED BY <1>5, <1>6 DEF Take

LEMMA FreeTestKeeps ==
  ASSUME IInv, NEW t \in Tasks, NEW b \in Buffers, NEW r \in Refs, FreeTest(t, b, r)
  PROVE  IInv'
<1>1. /\ UNCHANGED <<free, refcount, live, seen, hung>>
      /\ pc[t] = "idle" /\ Held(b, r)
      /\ pc' = [pc EXCEPT ![t] = "dec"]
      /\ arg' = [arg EXCEPT ![t] = b] /\ tok' = [tok EXCEPT ![t] = r]
  BY DEF FreeTest, Begin
<1>2. TypeOK' /\ CountExact'
  BY <1>1 DEF IInv, TypeOK, CountExact, PcValues
<1>3. /\ FreeSet' = FreeSet /\ FreeSet \subseteq Buffers
      /\ \A u \in Tasks, c \in Buffers :
            (pc'[u] = "put" /\ arg'[u] = c) <=> (pc[u] = "put" /\ arg[u] = c)
  BY <1>1, FreeBuffers DEF FreeSet, IInv, TypeOK
<1>4. FreeOnce' /\ Conserved'
  BY <1>1, <1>3 DEF IInv, FreeOnce, Conserved
<1>5. ASSUME NEW u \in Tasks PROVE TaskOK(u)'
  <2>1. TaskOK(u)
    BY DEF IInv, Discipline
  <2>2. CASE u = t
    BY <1>1, <2>2 DEF TaskOK, Held, IInv, TypeOK
  <2>3. CASE u # t
    BY <1>1, <2>1, <2>3 DEF TaskOK, IInv, TypeOK
  <2> QED BY <2>2, <2>3
<1>6. TokensApart' /\ PutsApart' /\ LiveApart'
  BY <1>1 DEF IInv, Discipline, TokensApart, PutsApart, LiveApart, Held, TypeOK
<1> QED BY <1>2, <1>4, <1>5, <1>6 DEF IInv, Discipline

LEMMA FreeDecKeeps ==
  ASSUME IInv, ~SplitCount, NEW t \in Tasks, FreeDec(t)
  PROVE  IInv'
<1> DEFINE b == arg[t]  r == tok[t]
<1>1. pc[t] = "dec" /\ Drop(t, refcount[b])
  BY DEF FreeDec
<1>2. b \in Buffers /\ r \in live[b] /\ r \in Refs /\ r # NoRef
  BY <1>1, BufferAssumption DEF IInv, Discipline, TaskOK, TypeOK
<1> HIDE DEF b, r
<1>3. /\ refcount' = [refcount EXCEPT ![b] = Dec(refcount[b])]
      /\ live' = [live EXCEPT ![b] = @ \ {r}]
      /\ UNCHANGED <<free, seen, hung>>
  BY <1>1 DEF Drop, b, r
<1>4. /\ refcount' \in [Buffers -> 0 .. MaxCount]
      /\ live' \in [Buffers -> SUBSET Refs]
      /\ CountExact' /\ LiveApart'
      /\ \A c \in Buffers : live'[c] = IF c = b THEN live[b] \ {r} ELSE live[c]
      /\ Dec(refcount[b]) > 0 <=> live'[b] # {}
  BY <1>2, <1>3, DropKeeps
<1>5. /\ pc' = [pc EXCEPT ![t] = IF live'[b] # {} THEN "idle" ELSE "put"]
      /\ arg' = [arg EXCEPT ![t] = IF live'[b] # {} THEN NoBuf ELSE b]
      /\ tok' = [tok EXCEPT ![t] = NoRef]
  BY <1>1, <1>4 DEF Drop, End, Begin, b
<1>6. TypeOK'
  BY <1>2, <1>3, <1>4, <1>5 DEF IInv, TypeOK, PcValues
<1>7. /\ FreeSet' = FreeSet /\ FreeSet \subseteq Buffers /\ b \notin FreeSet
      /\ IsInjective(free')
  BY <1>2, <1>3, FreeBuffers DEF FreeSet, IInv, FreeOnce
<1>8. \A u \in Tasks, c \in Buffers :
         (pc'[u] = "put" /\ arg'[u] = c) <=>
            (pc[u] = "put" /\ arg[u] = c) \/ (u = t /\ c = b /\ live'[b] = {})
  BY <1>1, <1>2, <1>5, BufferAssumption DEF IInv, TypeOK
<1>9. FreeOnce'
  BY <1>4, <1>7, <1>8 DEF IInv, FreeOnce
<1>10. Conserved'
  BY <1>4, <1>7, <1>8 DEF IInv, Conserved
<1>11. ASSUME NEW u \in Tasks PROVE TaskOK(u)'
  <2>1. TaskOK(u) /\ (u # t => tok[u] # r)
    BY <1>2 DEF IInv, Discipline, TokensApart, r
  <2>2. CASE u = t
    BY <1>2, <1>5, <2>2 DEF TaskOK, IInv, TypeOK
  <2>3. CASE u # t
    <3>1. pc'[u] = pc[u] /\ arg'[u] = arg[u] /\ tok'[u] = tok[u]
      BY <1>5, <2>3 DEF IInv, TypeOK
    <3> QED BY <1>2, <1>4, <2>1, <2>3, <3>1 DEF TaskOK
  <2> QED BY <2>2, <2>3
<1>12. TokensApart'
  BY <1>5 DEF IInv, Discipline, TokensApart, TypeOK
<1>13. PutsApart'
  <2> SUFFICES ASSUME NEW u \in Tasks, NEW v \in Tasks, u # v,
                      pc'[u] = "put", pc'[v] = "put", arg'[u] = arg'[v]
               PROVE  FALSE
    BY DEF PutsApart
  <2>1. \A w \in Tasks : pc[w] = "put" => arg[w] \in Buffers /\ live[arg[w]] = {}
    BY DEF IInv, Discipline, TaskOK
  <2>2. arg'[u] \in Buffers
    BY <1>11 DEF TaskOK
  <2> QED BY <1>2, <1>8, <2>1, <2>2 DEF IInv, Discipline, PutsApart
<1> QED BY <1>4, <1>6, <1>9, <1>10, <1>11, <1>12, <1>13 DEF IInv, Discipline

LEMMA FreePutKeeps ==
  ASSUME IInv, NEW t \in Tasks, FreePut(t)
  PROVE  IInv'
<1> DEFINE b == arg[t]
<1>1. /\ pc[t] = "put" /\ b \in Buffers /\ live[b] = {} /\ b \notin FreeSet
  BY DEF FreePut, IInv, Discipline, TaskOK, FreeOnce
<1> HIDE DEF b
<1>2. free \in Seq(Buffers) /\ IsInjective(free) /\ FreeSet \subseteq Buffers
  BY FreeBuffers DEF IInv, TypeOK, FreeOnce
<1>3. free' = Append(free, b)
  BY <1>1, <1>2, RoomFree DEF FreePut, PutBack, b
<1>4. free' \in Seq(Buffers) /\ IsInjective(free') /\ FreeSet' = FreeSet \cup {b}
  BY <1>1, <1>2, <1>3, AppendFree
<1>5. /\ UNCHANGED <<refcount, live, seen, hung>>
      /\ pc' = [pc EXCEPT ![t] = "idle"] /\ arg' = [arg EXCEPT ![t] = NoBuf]
      /\ tok' = [tok EXCEPT ![t] = NoRef]
  BY DEF FreePut, End, Begin
<1>6. TypeOK' /\ CountExact'
  BY <1>4, <1>5 DEF IInv, TypeOK, CountExact, PcValues
<1>7. \A u \in Tasks, c \in Buffers :
         (pc'[u] = "put" /\ arg'[u] = c) <=> (pc[u] = "put" /\ arg[u] = c /\ u # t)
  BY <1>5 DEF IInv, TypeOK
<1>8. \A u \in Tasks : u # t /\ pc[u] = "put" => arg[u] # b
  BY <1>1 DEF IInv, Discipline, PutsApart, b
<1>9. FreeOnce'
  BY <1>1, <1>2, <1>4, <1>5, <1>7, <1>8 DEF IInv, FreeOnce
<1>10. Conserved'
  BY <1>4, <1>5, <1>7 DEF IInv, Conserved, b
<1>11. ASSUME NEW u \in Tasks PROVE TaskOK(u)'
  BY <1>5 DEF IInv, Discipline, TaskOK, TypeOK
<1>12. TokensApart' /\ PutsApart' /\ LiveApart'
  BY <1>5 DEF IInv, Discipline, TokensApart, PutsApart, LiveApart, TypeOK
<1> QED BY <1>6, <1>9, <1>10, <1>11, <1>12 DEF IInv, Discipline

LEMMA RefIncKeeps ==
  ASSUME IInv, ~SplitCount, NEW t \in Tasks, NEW b \in Buffers,
         NEW r \in Refs, NEW s \in Refs, RefInc(t, b, r, s)
  PROVE  IInv'
<1>1. /\ Held(b, r) /\ Spare(s) /\ UNCHANGED <<free, seen, hung, pc, arg, tok>>
      /\ refcount' = [refcount EXCEPT ![b] = Inc(refcount[b])]
      /\ live' = [live EXCEPT ![b] = @ \cup {s}]
  BY DEF RefInc, Add
<1>2. /\ live' \in [Buffers -> SUBSET Refs]
      /\ \A c \in Buffers : live'[c] = IF c = b THEN live[b] \cup {s} ELSE live[c]
  BY <1>1 DEF IInv, TypeOK
<1>3. /\ IsFiniteSet(live[b]) /\ Cardinality(live[b]) \in 0 .. MaxCount
      /\ refcount[b] = Cardinality(live[b])
  BY LiveFinite DEF IInv, CountExact
<1>4. /\ Cardinality(live[b] \cup {s}) = Cardinality(live[b]) + 1
      /\ Cardinality(live[b] \cup {s}) <= MaxCount
  <2>1. s \notin live[b]
    BY <1>1 DEF Spare
  <2>2. Cardinality(live[b] \cup {s}) = Cardinality(live[b]) + 1
    BY <1>3, <2>1, FS_AddElement
  <2>3. live[b] \cup {s} \in SUBSET Refs
    BY DEF IInv, TypeOK
  <2>4. Cardinality(live[b] \cup {s}) <= Cardinality(Refs)
    BY <2>3, BufferAssumption, FS_Subset
  <2>5. Cardinality(Refs) \in Nat
    BY BufferAssumption, FS_CardinalityType
  <2> QED BY <1>3, <2>2, <2>4, <2>5, BufferAssumption
<1>5. Inc(refcount[b]) = Cardinality(live[b] \cup {s}) /\ Inc(refcount[b]) \in 0 .. MaxCount
  BY <1>3, <1>4, BufferAssumption DEF Inc
<1>6. /\ refcount' \in [Buffers -> 0 .. MaxCount]
      /\ \A c \in Buffers : refcount'[c] = IF c = b THEN Inc(refcount[b]) ELSE refcount[c]
  BY <1>1, <1>5 DEF IInv, TypeOK
<1>7. TypeOK'
  BY <1>1, <1>2, <1>6 DEF IInv, TypeOK
<1>8. CountExact'
  BY <1>2, <1>5, <1>6 DEF IInv, CountExact
<1>9. /\ FreeSet' = FreeSet /\ IsInjective(free') /\ b \notin FreeSet
  BY <1>1 DEF FreeSet, IInv, FreeOnce, Held
<1>10. FreeOnce'
  <2>1. FreeSet \subseteq Buffers
    BY FreeBuffers DEF IInv
  <2> QED BY <1>1, <1>2, <1>9, <2>1 DEF IInv, FreeOnce
<1>11. Conserved'
  BY <1>1, <1>2, <1>9 DEF IInv, Conserved
<1>12. ASSUME NEW u \in Tasks PROVE TaskOK(u)'
  <2>1. TaskOK(u) /\ tok[u] # s
    BY <1>1 DEF IInv, Discipline, Spare
  <2>2. pc[u] = "put" => arg[u] # b
    BY <1>1, <2>1 DEF TaskOK, Held
  <2> QED BY <1>1, <1>2, <2>1, <2>2 DEF TaskOK
<1>13. TokensApart' /\ PutsApart'
  BY <1>1 DEF IInv, Discipline, TokensApart, PutsApart
<1>14. LiveApart'
  BY <1>1, <1>2 DEF IInv, Discipline, LiveApart, Spare
<1> QED BY <1>7, <1>8, <1>10, <1>11, <1>12, <1>13, <1>14 DEF IInv, Discipline

LEMMA IsrGetKeeps ==
  ASSUME IInv, NEW r \in Refs, NEW reserve \in {0, 2}, IsrGet(r, reserve)
  PROVE  IInv'
<1>1. Spare(r) /\ UNCHANGED <<pc, arg, tok, seen>>
  BY DEF IsrGet
<1>2. CASE HandOut(r) /\ UNCHANGED hung
  <2>1. /\ free' \in Seq(Buffers) /\ refcount' \in [Buffers -> 0 .. MaxCount]
        /\ live' \in [Buffers -> SUBSET Refs]
        /\ CountExact' /\ LiveApart' /\ IsInjective(free)'
        /\ FreeSet' = FreeSet \ {Head(free)}
        /\ Head(free) \in FreeSet /\ Head(free) \in Buffers
        /\ \A b \in Buffers : live'[b] = IF b = Head(free) THEN {r} ELSE live[b]
    BY <1>1, <1>2, HandOutKeeps DEF Spare
  <2>2. TypeOK'
    BY <1>1, <1>2, <2>1 DEF IInv, TypeOK
  <2>3. FreeOnce'
    <3>1. FreeSet \subseteq Buffers
      BY FreeBuffers DEF IInv
    <3> QED BY <1>1, <2>1, <3>1 DEF IInv, FreeOnce
  <2>4. Conserved'
    BY <1>1, <2>1 DEF IInv, Conserved
  <2>5. ASSUME NEW u \in Tasks PROVE TaskOK(u)'
    <3>1. TaskOK(u) /\ tok[u] # r
      BY <1>1 DEF IInv, Discipline, Spare
    <3>2. pc[u] \in {"put", "dec"} => arg[u] # Head(free)
      BY <2>1, <3>1 DEF IInv, FreeOnce, TaskOK
    <3> QED BY <1>1, <2>1, <3>1, <3>2 DEF TaskOK
  <2>6. TokensApart' /\ PutsApart'
    BY <1>1 DEF IInv, Discipline, TokensApart, PutsApart
  <2> QED BY <2>1, <2>2, <2>3, <2>4, <2>5, <2>6 DEF IInv, Discipline
<1>3. CASE hung' = TRUE /\ UNCHANGED <<free, refcount, live>>
  <2>1. TypeOK' /\ CountExact' /\ Discipline'
    BY <1>1, <1>3 DEF IInv, TypeOK, CountExact, Discipline, TaskOK, TokensApart,
                      PutsApart, LiveApart
  <2>2. FreeOnce' /\ Conserved'
    BY <1>1, <1>3 DEF IInv, FreeOnce, Conserved, FreeSet
  <2> QED BY <2>1, <2>2 DEF IInv
<1> QED BY <1>2, <1>3 DEF IsrGet

LEMMA IsrFreeKeeps ==
  ASSUME IInv, NEW b \in Buffers, NEW r \in Refs, IsrFree(b, r)
  PROVE  IInv'
<1>1. /\ r \in live[b] /\ \A u \in Tasks : tok[u] # r
      /\ UNCHANGED <<pc, arg, tok, seen, hung>>
      /\ refcount' = [refcount EXCEPT ![b] = Dec(refcount[b])]
      /\ live' = [live EXCEPT ![b] = @ \ {r}]
      /\ IF Dec(refcount[b]) > 0 THEN UNCHANGED free ELSE PutBack(b)
  BY DEF IsrFree, Held, IInv, TypeOK
<1>2. /\ refcount' \in [Buffers -> 0 .. MaxCount]
      /\ live' \in [Buffers -> SUBSET Refs]
      /\ CountExact' /\ LiveApart'
      /\ \A c \in Buffers : live'[c] = IF c = b THEN live[b] \ {r} ELSE live[c]
      /\ Dec(refcount[b]) > 0 <=> live'[b] # {}
  BY <1>1, DropKeeps
<1>3. /\ free \in Seq(Buffers) /\ IsInjective(free) /\ FreeSet \subseteq Buffers
      /\ b \notin FreeSet
  BY <1>1, FreeBuffers DEF IInv, TypeOK, FreeOnce
<1>4. /\ free' \in Seq(Buffers) /\ IsInjective(free')
      /\ FreeSet' = IF live'[b] = {} THEN FreeSet \cup {b} ELSE FreeSet
  <2>1. CASE live'[b] # {}
    BY <1>1, <1>2, <1>3, <2>1 DEF FreeSet
  <2>2. CASE live'[b] = {}
    <3>1. free' = Append(free, b)
      BY <1>1, <1>2, <1>3, <2>2, RoomFree DEF PutBack
    <3>2. free' \in Seq(Buffers) /\ IsInjective(free') /\ FreeSet' = FreeSet \cup {b}
      BY <1>3, <3>1, AppendFree
    <3> QED BY <2>2, <3>2
  <2> QED BY <2>1, <2>2
<1>5. \A u \in Tasks : pc[u] = "put" => arg[u] # b
  BY <1>1 DEF IInv, Discipline, TaskOK
<1>6. TypeOK'
  BY <1>1, <1>2, <1>4 DEF IInv, TypeOK
<1>7. FreeOnce'
  BY <1>1, <1>2, <1>3, <1>4, <1>5 DEF IInv, FreeOnce
<1>8. Conserved'
  BY <1>1, <1>2, <1>4 DEF IInv, Conserved
<1>9. ASSUME NEW u \in Tasks PROVE TaskOK(u)'
  BY <1>1, <1>2 DEF IInv, Discipline, TaskOK
<1>10. TokensApart' /\ PutsApart'
  BY <1>1 DEF IInv, Discipline, TokensApart, PutsApart
<1> QED BY <1>2, <1>6, <1>7, <1>8, <1>9, <1>10 DEF IInv, Discipline

------------------------------------------------------------------------------
(* csp_buffer_init puts every buffer of the pool in the queue, once.         *)
LEMMA InitEstablishes == Init => IInv
<1> SUFFICES ASSUME Init PROVE IInv
  OBVIOUS
<1>1. IsFiniteSet(Buffers) /\ BufferCount \in Nat /\ IsFiniteSet({}) /\ Cardinality({}) = 0
  BY BufferAssumption, FS_CardinalityType, FS_EmptySet DEF BufferCount
<1>2. free \in [1 .. BufferCount -> Buffers] /\ IsInjective(free)
  BY DEF Init
<1>3. free \in Seq(Buffers)
  BY <1>1, <1>2
<1>4. Cardinality(1 .. BufferCount) = BufferCount
  <2>1. 1 \in Int /\ BufferCount \in Int
    BY <1>1
  <2>2. Cardinality(1 .. BufferCount) =
          IF 1 > BufferCount THEN 0 ELSE BufferCount - 1 + 1
    BY <2>1, FS_Interval, Zenon
  <2> QED BY <1>1, <2>2
<1>5. free \in Surjection(1 .. BufferCount, Buffers)
  <2>1. free \in Injection(1 .. BufferCount, Buffers)
    BY <1>2 DEF Injection
  <2> QED BY <1>1, <1>4, <2>1, FS_Injection DEF BufferCount
<1>6. FreeSet = Buffers
  BY <1>2, <1>5 DEF FreeSet, Range, Surjection
<1>7. TypeOK
  <2>1. 0 \in 0 .. MaxCount
    BY BufferAssumption
  <2>2. refcount \in [Buffers -> 0 .. MaxCount] /\ seen \in [Tasks -> 0 .. MaxCount]
    BY <2>1 DEF Init
  <2>3. live \in [Buffers -> SUBSET Refs] /\ pc \in [Tasks -> PcValues]
    BY DEF Init, PcValues
  <2>4. arg \in [Tasks -> Buffers \cup {NoBuf}] /\ tok \in [Tasks -> Refs \cup {NoRef}]
    BY DEF Init
  <2>5. hung \in BOOLEAN
    BY DEF Init
  <2> QED BY <1>3, <2>2, <2>3, <2>4, <2>5 DEF TypeOK
<1>8. CountExact /\ Conserved
  BY <1>1, <1>6 DEF Init, CountExact, Conserved
<1>9. FreeOnce
  BY <1>2, <1>6 DEF Init, FreeOnce
<1>10. Discipline
  BY DEF Init, Discipline, TaskOK, TokensApart, PutsApart, LiveApart
<1> QED BY <1>7, <1>8, <1>9, <1>10 DEF IInv

LEMMA StepKeeps ==
  ASSUME ~SplitCount, IInv, [Next]_vars
  PROVE  IInv'
<1>1. ASSUME NEW t \in Tasks, Call(t) PROVE IInv'
  BY <1>1, GetTestKeeps, FreeTestKeeps, RefIncKeeps DEF Call
<1>2. ASSUME NEW t \in Tasks, Step(t) PROVE IInv'
  <2>1. pc[t] \notin {"decStore", "incStore"}
    BY DEF IInv, Discipline, TaskOK
  <2>2. ~FreeDecStore(t) /\ ~RefIncStore(t)
    BY <2>1 DEF FreeDecStore, RefIncStore
  <2> QED BY <1>2, <2>2, TakeKeeps, FreeDecKeeps, FreePutKeeps DEF Step
<1>3. CASE Interrupt
  BY <1>3, IsrGetKeeps, IsrFreeKeeps DEF Interrupt
<1>4. CASE UNCHANGED vars
  <2>1. UNCHANGED <<free, refcount, live, pc, arg, tok, seen, hung>>
    BY <1>4 DEF vars
  <2>2. TypeOK' /\ CountExact' /\ Discipline'
    BY <2>1 DEF IInv, TypeOK, CountExact, Discipline, TaskOK, TokensApart,
                PutsApart, LiveApart
  <2>3. FreeOnce' /\ Conserved'
    BY <2>1 DEF IInv, FreeOnce, Conserved, FreeSet
  <2> QED BY <2>2, <2>3 DEF IInv
<1> QED BY <1>1, <1>2, <1>3, <1>4 DEF Next

(* Every state of the pool satisfies the inductive invariant.                *)
LEMMA IInvAlways ==
  ASSUME ~SplitCount PROVE Spec => []IInv
<1>1. IInv /\ [Next]_vars => IInv'
  BY StepKeeps
<1> QED BY <1>1, InitEstablishes, PTL DEF Spec

(* Type correctness of the pool.                                             *)
THEOREM PoolTypeCorrect ==
  ASSUME ~SplitCount PROVE Spec => []TypeOK
BY IInvAlways, PTL DEF IInv

(* The count of every buffer is the number of references to it, whatever     *)
(* releases are under way in other tasks and in handlers.                    *)
THEOREM CountsAreExact ==
  ASSUME ~SplitCount PROVE Spec => []CountExact
BY IInvAlways, PTL DEF IInv

(* No buffer is in the free queue twice, or while somebody references it, or *)
(* while a release of it is still to enqueue it.                             *)
THEOREM FreeBuffersAreFree ==
  ASSUME ~SplitCount PROVE Spec => []FreeOnce
BY IInvAlways, PTL DEF IInv

(* No buffer is lost: the enqueue whose result csp_buffer_free ignores always*)
(* finds room.                                                               *)
THEOREM BuffersAreConserved ==
  ASSUME ~SplitCount PROVE Spec => []Conserved
BY IInvAlways, PTL DEF IInv

(* The pool implements CspPool: it hands out unreferenced buffers only, for  *)
(* every interleaving of tasks and handlers.                                 *)
THEOREM BufferImplementsPool ==
  ASSUME ~SplitCount PROVE Spec => PoolSpec
<1>1. Init => Pool!PInit
  BY DEF Init, Pool!PInit
<1>2. ASSUME IInv, [Next]_vars
      PROVE  Pool!PNext \/ UNCHANGED live
  <2> USE DEF Pool!PNext
  <2>1. ASSUME NEW r \in Refs, \A b \in Buffers : r \notin live[b], HandOut(r)
        PROVE  Pool!PNext
    <3>1. free \in Seq(Buffers) /\ free # <<>>
      BY <1>2, <2>1 DEF IInv, TypeOK, HandOut
    <3>2. Head(free) \in FreeSet /\ Head(free) \in Buffers
      BY <3>1 DEF FreeSet, Range
    <3>3. live[Head(free)] = {}
      BY <1>2, <3>2 DEF IInv, FreeOnce
    <3>4. Pool!Acquire(Head(free), r)
      BY <2>1, <3>3 DEF Pool!Acquire, Pool!Unused, HandOut
    <3> QED BY <3>2, <3>4
  <2>2. ASSUME NEW t \in Tasks, Take(t) PROVE Pool!PNext \/ UNCHANGED live
    <3>1. tok[t] \in Refs /\ \A b \in Buffers : tok[t] \notin live[b]
      BY <1>2, <2>2 DEF Take, IInv, Discipline, TaskOK
    <3> QED BY <2>1, <2>2, <3>1 DEF Take
  <2>3. ASSUME NEW t \in Tasks, FreeDec(t) PROVE Pool!PNext
    <3>1. arg[t] \in Buffers /\ tok[t] \in live[arg[t]] /\ tok[t] \in Refs
      BY <1>2, <2>3 DEF FreeDec, IInv, Discipline, TaskOK, TypeOK
    <3>2. Pool!Release(arg[t], tok[t])
      BY <2>3, <3>1 DEF FreeDec, Drop, Pool!Release
    <3> QED BY <3>1, <3>2
  <2>4. ASSUME NEW t \in Tasks, NEW b \in Buffers, NEW r \in Refs, NEW s \in Refs,
               RefInc(t, b, r, s)
        PROVE  Pool!PNext
    <3>1. Pool!Share(b, s)
      BY <2>4 DEF RefInc, Add, Held, Spare, Pool!Share, Pool!Unused
    <3> QED BY <3>1
  <2>5. ASSUME NEW b \in Buffers, NEW r \in Refs, IsrFree(b, r) PROVE Pool!PNext
    <3>1. Pool!Release(b, r)
      BY <2>5 DEF IsrFree, Held, Pool!Release
    <3> QED BY <3>1
  <2>6. ASSUME NEW r \in Refs, NEW reserve \in {0, 2}, IsrGet(r, reserve)
        PROVE  Pool!PNext \/ UNCHANGED live
    BY <2>1, <2>6 DEF IsrGet, Spare
  <2>7. ASSUME NEW t \in Tasks, Call(t) PROVE Pool!PNext \/ UNCHANGED live
    BY <2>4, <2>7 DEF Call, GetTest, FreeTest
  <2>8. ASSUME NEW t \in Tasks, Step(t) PROVE Pool!PNext \/ UNCHANGED live
    <3>1. pc[t] \notin {"decStore", "incStore"}
      BY <1>2 DEF IInv, Discipline, TaskOK
    <3> QED BY <2>2, <2>3, <2>8, <3>1
            DEF Step, FreePut, FreeDecStore, RefIncStore
  <2>9. CASE UNCHANGED vars
    BY <2>9 DEF vars
  <2>10. CASE Interrupt
    BY <2>5, <2>6, <2>10 DEF Interrupt
  <2> QED BY <1>2, <2>7, <2>8, <2>9, <2>10 DEF Next
<1>3. IInv /\ [Next]_vars => [Pool!PNext]_live
  BY <1>2
<1> QED BY <1>1, <1>3, IInvAlways, PTL DEF Spec, PoolSpec, Pool!PSpec
================================================================================
