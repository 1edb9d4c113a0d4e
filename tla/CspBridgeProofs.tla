---------------------------- MODULE CspBridgeProofs ----------------------------
(***************************************************************************)
(* The bridge for every traffic, ring, window and clock: it is a line, and  *)
(* what csp_dedup.c takes for a duplicate, or lets pass, it does for the    *)
(* reason its documentation gives, but for what the clock's wrap costs.     *)
EXTENDS CspBridge, SequenceTheorems, TLAPS

------------------------------------------------------------------------------
(* The ring and the history.                                                 *)
Recent(c) == seen[c].later < Count - 1

\* The place of the last crossing of a checksum.
Last(c) == Back(seen[c].later + 1)

\* What the history says of a checksum that crossed is in the ring: it, when it
\* crossed, and that what crossed after it is not older.
Kept == \A c \in Crcs : Recent(c) =>
           /\ crcs[Last(c)] = c
           /\ ~seen[c].wrapped =>
                 /\ IF seen[c].age <= Window THEN now - times[Last(c)] = seen[c].age
                    ELSE now - times[Last(c)] > Window
                 /\ \A k \in 1 .. seen[c].later + 1 :
                       times[Last(c)] <= times[Back(k)] /\ times[Back(k)] <= now

\* What is in the ring crossed, and has not crossed earlier than there.
Noted == \A k \in 1 .. Count - 1 : crcs[Back(k)] # Zero => seen[crcs[Back(k)]].later < k

Forgotten == \A c \in Crcs : ~Recent(c) => seen[c] = Never

Bridged == bifs \in {<<NoIface, NoIface>>, <<A, B>>}

Queued == \A n \in DOMAIN qfifo : qfifo[n] \in Traffic

BInv == TypeOK /\ Kept /\ Noted /\ Forgotten /\ ~Recent(Zero) /\ Bridged /\ Queued

------------------------------------------------------------------------------
(* The ring of checksums.                                                    *)
LEMMA Counts ==
  /\ Count \in Nat /\ Count >= 2 /\ Window \in Nat /\ ClockMod \in Nat /\ Window + 1 < ClockMod
  /\ ClockMod >= 2 /\ Zero \in Crcs
BY DedupAssumption

\* The entries of the ring are apart, and a new one makes each of them one older.
LEMMA Around ==
  ASSUME in \in Slots
  PROVE  /\ (in + 1) % Count \in Slots
         /\ (((in + 1) % Count) + Count - 1) % Count = in
         /\ \A k \in 1 .. Count - 1 :
               /\ Back(k) \in Slots /\ Back(k) # in
               /\ (((in + 1) % Count) + Count - (k + 1)) % Count = Back(k)
<1>1. CASE Count = 2
  BY <1>1 DEF Slots, Back
<1>2. CASE Count = 4
  BY <1>2 DEF Slots, Back
<1>3. CASE Count = 8
  BY <1>3 DEF Slots, Back
<1>4. CASE Count = 16
  BY <1>4 DEF Slots, Back
<1> QED BY <1>1, <1>2, <1>3, <1>4, DedupAssumption

LEMMA Inserted ==
  ASSUME DedupTypeOK, NEW crc \in Crcs, Insert(crc)
  PROVE  /\ crcs' \in [Slots -> Crcs] /\ times' \in [Slots -> 0 .. ClockMod - 1] /\ in' \in Slots
         /\ crcs'[Back(1)'] = crc /\ times'[Back(1)'] = now
         /\ \A k \in 1 .. Count - 1 : /\ crcs'[Back(k + 1)'] = crcs[Back(k)]
                                      /\ times'[Back(k + 1)'] = times[Back(k)]
<1>1. in \in Slots /\ in' = (in + 1) % Count /\ now \in 0 .. ClockMod - 1
  BY DEF DedupTypeOK, Insert
<1>2. /\ in' \in Slots /\ Back(1)' = in
      /\ \A k \in 1 .. Count - 1 : Back(k) \in Slots /\ Back(k) # in /\ Back(k + 1)' = Back(k)
  BY <1>1, Around DEF Back
<1>3. crcs' = [crcs EXCEPT ![in] = crc] /\ times' = [times EXCEPT ![in] = now]
  BY DEF Insert
<1> QED BY <1>1, <1>2, <1>3 DEF DedupTypeOK

------------------------------------------------------------------------------
(* What a step does to the types.                                            *)
LEMMA Histories ==
  /\ Never \in [age : 0 .. Window + 1, later : 0 .. Count - 1, wrapped : BOOLEAN]
  /\ Never.later = Count - 1 /\ Never.age = Window + 1 /\ Never.wrapped = FALSE
BY Counts DEF Never

LEMMA OlderType ==
  ASSUME NEW s \in [age : 0 .. Window + 1, later : 0 .. Count - 1, wrapped : BOOLEAN]
  PROVE  /\ Older(s) \in [age : 0 .. Window + 1, later : 0 .. Count - 1, wrapped : BOOLEAN]
         /\ Older(s).later = s.later
         /\ Older(Never) = Never
         /\ ~Older(s).wrapped => /\ ~s.wrapped /\ (now' # 0 \/ s = Never)
                                 /\ Older(s).age = IF s.age <= Window THEN s.age + 1 ELSE s.age
BY Counts, Histories DEF Older

LEMMA TickType ==
  ASSUME TypeOK, Tick
  PROVE  /\ TypeOK'
         /\ now' \in 0 .. ClockMod - 1 /\ (now' # 0 => now' = now + 1)
         /\ \A c \in Crcs : seen'[c] = Older(seen[c])
<1>1. now \in 0 .. ClockMod - 1 /\ ClockMod \in Nat /\ ClockMod >= 2
  BY Counts DEF TypeOK, DedupTypeOK
<1>2. now' \in 0 .. ClockMod - 1 /\ (now' # 0 => now' = now + 1)
  <2>1. CASE now + 1 < ClockMod
    <3>1. (now + 1) % ClockMod = now + 1
      BY <1>1, <2>1
    <3> QED BY <1>1, <2>1, <3>1 DEF Tick
  <2>2. CASE now + 1 = ClockMod
    <3>1. (now + 1) % ClockMod = 0
      BY <1>1, <2>2
    <3> QED BY <1>1, <3>1 DEF Tick
  <2> QED BY <1>1, <2>1, <2>2
<1>3. /\ seen' \in [Crcs -> [age : 0 .. Window + 1, later : 0 .. Count - 1, wrapped : BOOLEAN]]
      /\ \A c \in Crcs : seen'[c] = Older(seen[c])
  BY OlderType DEF Tick, TypeOK
<1> QED BY <1>2, <1>3 DEF Tick, TypeOK, DedupTypeOK, dedup

LEMMA CrossedType ==
  ASSUME TypeOK, NEW crc \in Crcs
  PROVE  /\ Crossed(crc) \in [Crcs -> [age : 0 .. Window + 1, later : 0 .. Count - 1,
                                        wrapped : BOOLEAN]]
         /\ Crossed(crc)[crc] = [age |-> 0, later |-> 0, wrapped |-> FALSE]
         /\ \A c \in Crcs \ {crc} :
               IF seen[c].later + 1 >= Count - 1 THEN Crossed(crc)[c] = Never
               ELSE Crossed(crc)[c] = [seen[c] EXCEPT !.later = @ + 1]
<1>1. ASSUME NEW c \in Crcs
      PROVE  Crossed(crc)[c] \in [age : 0 .. Window + 1, later : 0 .. Count - 1, wrapped : BOOLEAN]
  <2>1. seen[c] \in [age : 0 .. Window + 1, later : 0 .. Count - 1, wrapped : BOOLEAN]
    BY DEF TypeOK
  <2> QED BY <2>1, Counts, Histories DEF Crossed
<1> QED BY <1>1 DEF Crossed

LEMMA ReceiveType ==
  ASSUME TypeOK, NEW p \in Traffic, Receive(p)
  PROVE  TypeOK'
<1>1. p \in Packet /\ [op |-> "send", what |-> p] \in Event
  BY BridgeAssumption DEF Packet, Event
<1>2. qfifo' \in Seq(Packet) /\ Len(qfifo') <= QfifoLen
  BY <1>1, BridgeAssumption DEF Receive, TypeOK
<1> QED BY <1>1, <1>2 DEF Receive, TypeOK, DedupTypeOK, dedup

LEMMA BridgeWorkType ==
  ASSUME TypeOK, BridgeWork
  PROVE  TypeOK' /\ Head(qfifo) \in Packet /\ event' \in Event
<1>p. PICK p \in Packet : p = Head(qfifo)
  BY DEF BridgeWork, TypeOK
<1>1. qfifo' \in Seq(Packet) /\ Len(qfifo') <= QfifoLen
  BY BridgeAssumption DEF BridgeWork, TypeOK
<1>2. CASE IsDuplicate(p.crc)
  <2>1. event' \in Event
    BY <1>p, <1>2 DEF BridgeWork, Event
  <2> QED BY <1>p, <1>1, <1>2, <2>1 DEF BridgeWork, TypeOK, DedupTypeOK, dedup
<1>3. CASE ~IsDuplicate(p.crc)
  <2>1. Insert(p.crc) /\ seen' = Crossed(p.crc) /\ p.crc \in Crcs
    BY <1>p, <1>3 DEF BridgeWork, Packet
  <2>2. event' \in Event
    <3>1. Opposing(p.iface) \in Ifaces
      BY DEF BridgeWork, TypeOK, Opposing
    <3> QED BY <1>p, <1>3, <3>1 DEF BridgeWork, Event
  <2>3. DedupTypeOK'
    BY <2>1, Inserted DEF BridgeWork, TypeOK, DedupTypeOK
  <2>4. seen' \in [Crcs -> [age : 0 .. Window + 1, later : 0 .. Count - 1, wrapped : BOOLEAN]]
    BY <2>1, CrossedType
  <2> QED BY <1>p, <1>1, <2>2, <2>3, <2>4 DEF BridgeWork, TypeOK
<1> QED BY <1>p, <1>2, <1>3

LEMMA InitType == Init => TypeOK
<1> SUFFICES ASSUME Init PROVE TypeOK
  OBVIOUS
<1>1. DedupTypeOK
  BY Counts DEF Init, DedupInit, DedupTypeOK, Slots
<1> QED BY <1>1, Histories, BridgeAssumption DEF Init, TypeOK

LEMMA StepType ==
  ASSUME TypeOK, [Next]_vars
  PROVE  TypeOK'
<1>1. CASE UNCHANGED vars
  BY <1>1 DEF vars, TypeOK, DedupTypeOK
<1>2. CASE SetInterfaces
  BY <1>2, BridgeAssumption DEF SetInterfaces, TypeOK, DedupTypeOK, dedup
<1> QED BY <1>1, <1>2, TickType, ReceiveType, BridgeWorkType DEF Next

(* The variables of the bridge and of csp_dedup.c have their types: the ring's *)
(* index stays in the ring, the router queue within its length.               *)
THEOREM BridgeTypeCorrect == Spec => []TypeOK
BY InitType, StepType, PTL DEF Spec

------------------------------------------------------------------------------
(* The ring and the history agree.                                           *)
Agree == Kept /\ Noted /\ Forgotten /\ ~Recent(Zero)

LEMMA SeenType ==
  ASSUME TypeOK, NEW c \in Crcs
  PROVE  /\ seen[c] \in [age : 0 .. Window + 1, later : 0 .. Count - 1, wrapped : BOOLEAN]
         /\ seen[c].later \in 0 .. Count - 1 /\ seen[c].age \in 0 .. Window + 1
         /\ seen[c].wrapped \in BOOLEAN
         /\ Recent(c) => seen[c].later + 1 \in 1 .. Count - 1 /\ Last(c) \in Slots
<1>1. seen[c] \in [age : 0 .. Window + 1, later : 0 .. Count - 1, wrapped : BOOLEAN]
  BY DEF TypeOK
<1>2. in \in Slots
  BY DEF TypeOK, DedupTypeOK
<1>3. Recent(c) => seen[c].later + 1 \in 1 .. Count - 1
  BY <1>1, Counts DEF Recent
<1> QED BY <1>1, <1>2, <1>3, Around DEF Last

\* Nothing of the ring or of the history changes.
LEMMA AgreeSame ==
  ASSUME Agree, UNCHANGED <<crcs, times, in, now, seen>>
  PROVE  Agree'
BY DEF Agree, Kept, Noted, Forgotten, Recent, Last, Back

LEMMA AgreeTick ==
  ASSUME TypeOK, Agree, Tick
  PROVE  Agree'
<1>1. /\ UNCHANGED <<crcs, times, in>> /\ now' \in 0 .. ClockMod - 1 /\ (now' # 0 => now' = now + 1)
      /\ \A c \in Crcs : seen'[c] = Older(seen[c])
      /\ now \in 0 .. ClockMod - 1 /\ times \in [Slots -> 0 .. ClockMod - 1] /\ in \in Slots
      /\ crcs \in [Slots -> Crcs]
  BY TickType DEF Tick, dedup, TypeOK, DedupTypeOK
<1>2. ASSUME NEW c \in Crcs
      PROVE  /\ seen'[c].later = seen[c].later /\ (Recent(c)' <=> Recent(c))
             /\ (seen[c] = Never => seen'[c] = Never)
             /\ ~seen'[c].wrapped => /\ ~seen[c].wrapped /\ (now' # 0 \/ seen[c] = Never)
                                     /\ seen'[c].age = IF seen[c].age <= Window THEN seen[c].age + 1
                                                       ELSE seen[c].age
  BY <1>1, OlderType, SeenType DEF Recent
<1>3. \A k : Back(k)' = Back(k)
  BY <1>1 DEF Back
<1>4. ASSUME NEW c \in Crcs, Recent(c)
      PROVE  /\ crcs'[Last(c)'] = c
             /\ ~seen'[c].wrapped =>
                   /\ IF seen'[c].age <= Window THEN now' - times'[Last(c)'] = seen'[c].age
                      ELSE now' - times'[Last(c)'] > Window
                   /\ \A k \in 1 .. seen'[c].later + 1 :
                         times'[Last(c)'] <= times'[Back(k)'] /\ times'[Back(k)'] <= now'
  <2>1. Last(c)' = Last(c) /\ crcs[Last(c)] = c /\ times[Last(c)] \in 0 .. ClockMod - 1
        /\ seen[c].later + 1 \in 1 .. Count - 1
    BY <1>1, <1>2, <1>4, SeenType DEF Last, Back, Agree, Kept
  <2>2. CASE ~seen'[c].wrapped
    <3>1. seen[c] # Never
      BY <1>4, Histories, Counts DEF Recent
    <3>2. now' = now + 1 /\ ~seen[c].wrapped
      BY <1>1, <1>2, <2>2, <3>1
    <3>3. /\ IF seen[c].age <= Window THEN now - times[Last(c)] = seen[c].age
             ELSE now - times[Last(c)] > Window
          /\ \A k \in 1 .. seen[c].later + 1 :
                times[Last(c)] <= times[Back(k)] /\ times[Back(k)] <= now
      BY <1>4, <3>2 DEF Agree, Kept
    <3>4. \A k \in 1 .. seen[c].later + 1 : times[Back(k)] \in 0 .. ClockMod - 1
      BY <1>1, <2>1, Around, Counts
    <3>5. IF seen'[c].age <= Window THEN now' - times[Last(c)] = seen'[c].age
          ELSE now' - times[Last(c)] > Window
      BY <1>1, <1>2, <2>1, <2>2, <3>2, <3>3, SeenType, Counts
    <3>6. \A k \in 1 .. seen[c].later + 1 : times[Back(k)] <= now'
      BY <1>1, <3>2, <3>3, <3>4
    <3> QED BY <1>1, <1>2, <1>3, <2>1, <3>3, <3>5, <3>6
  <2> QED BY <1>1, <2>1, <2>2
<1>5. Kept'
  BY <1>2, <1>4 DEF Kept
<1>6. Noted'
  <2>1. \A k \in 1 .. Count - 1 : crcs[Back(k)] \in Crcs
    BY <1>1, Around
  <2> QED BY <1>1, <1>2, <1>3, <2>1 DEF Noted, Agree
<1>7. Forgotten' /\ ~Recent(Zero)'
  BY <1>2, Counts DEF Forgotten, Agree
<1> QED BY <1>5, <1>6, <1>7 DEF Agree

\* A packet crosses.
LEMMA AgreeCross ==
  ASSUME TypeOK, Agree, NEW crc \in Crcs \ {Zero}, Insert(crc), seen' = Crossed(crc), now' = now
  PROVE  Agree'
<1>1. /\ crcs'[Back(1)'] = crc /\ times'[Back(1)'] = now
      /\ \A k \in 1 .. Count - 1 : /\ crcs'[Back(k + 1)'] = crcs[Back(k)]
                                   /\ times'[Back(k + 1)'] = times[Back(k)]
  BY Inserted DEF TypeOK
<1>2. /\ now \in 0 .. ClockMod - 1 /\ times \in [Slots -> 0 .. ClockMod - 1] /\ in \in Slots
      /\ crcs \in [Slots -> Crcs]
  BY DEF TypeOK, DedupTypeOK
<1>3. seen'[crc].later = 0 /\ seen'[crc].age = 0 /\ seen'[crc].wrapped = FALSE
  BY CrossedType
<1>c. ASSUME NEW c \in Crcs \ {crc}
      PROVE  /\ seen[c].later + 1 >= Count - 1 => seen'[c] = Never
             /\ seen[c].later + 1 < Count - 1 =>
                   /\ seen'[c].later = seen[c].later + 1
                   /\ seen'[c].age = seen[c].age /\ seen'[c].wrapped = seen[c].wrapped
  <2>1. PICK s \in [age : 0 .. Window + 1, later : 0 .. Count - 1, wrapped : BOOLEAN] : s = seen[c]
    BY SeenType
  <2>2. IF s.later + 1 >= Count - 1 THEN seen'[c] = Never
        ELSE seen'[c] = [s EXCEPT !.later = @ + 1]
    BY <2>1, CrossedType
  <2> QED BY <2>1, <2>2, Counts
<1>4. ASSUME NEW c \in Crcs \ {crc}, Recent(c)'
      PROVE  /\ Recent(c) /\ seen'[c].later = seen[c].later + 1
             /\ seen'[c].age = seen[c].age /\ seen'[c].wrapped = seen[c].wrapped
  BY <1>c, <1>4, SeenType, Histories, Counts DEF Recent
<1>5. ASSUME NEW c \in Crcs, Recent(c)'
      PROVE  /\ crcs'[Last(c)'] = c
             /\ ~seen'[c].wrapped =>
                   /\ IF seen'[c].age <= Window THEN now' - times'[Last(c)'] = seen'[c].age
                      ELSE now' - times'[Last(c)'] > Window
                   /\ \A k \in 1 .. seen'[c].later + 1 :
                         times'[Last(c)'] <= times'[Back(k)'] /\ times'[Back(k)'] <= now'
  <2>1. CASE c = crc
    <3>1. Last(c)' = Back(1)'
      BY <1>3, <2>1 DEF Last, Back
    <3>2. \A k \in 1 .. seen'[c].later + 1 : k = 1
      BY <1>3, <2>1
    <3> QED BY <1>1, <1>2, <1>3, <2>1, <3>1, <3>2, Counts
  <2>2. CASE c # crc
    <3>l. PICK l \in 1 .. Count - 1 :
            l = seen[c].later + 1 /\ Last(c) = Back(l) /\ Last(c) \in Slots
      BY <1>4, <1>5, <2>2, SeenType DEF Last
    <3>1. /\ Last(c)' = Back(l + 1)' /\ seen'[c].later = l
          /\ crcs[Back(l)] = c /\ Recent(c)
          /\ seen'[c].age = seen[c].age /\ seen'[c].wrapped = seen[c].wrapped
      BY <1>4, <1>5, <2>2, <3>l DEF Last, Back, Agree, Kept
    <3>2. crcs'[Last(c)'] = c /\ times'[Last(c)'] = times[Last(c)]
      BY <1>1, <3>l, <3>1
    <3>3. CASE ~seen'[c].wrapped
      <4>1. /\ IF seen[c].age <= Window THEN now - times[Last(c)] = seen[c].age
               ELSE now - times[Last(c)] > Window
            /\ \A k \in 1 .. l : times[Last(c)] <= times[Back(k)] /\ times[Back(k)] <= now
        BY <3>l, <3>1, <3>3 DEF Agree, Kept
      <4>2. ASSUME NEW k \in 1 .. l + 1
            PROVE  times'[Last(c)'] <= times'[Back(k)'] /\ times'[Back(k)'] <= now'
        <5>1. CASE k = 1
          <6>1. times[Last(c)] <= now
            BY <3>l, <4>1
          <6>2. Back(k)' = Back(1)'
            BY <5>1 DEF Back
          <6> QED BY <1>1, <1>2, <3>2, <6>1, <6>2
        <5>2. CASE k # 1
          <6>1. PICK j \in 1 .. l : k = j + 1
            <7>1. k - 1 \in 1 .. l /\ k = (k - 1) + 1
              BY <5>2, <3>l, Counts
            <7> QED BY <7>1
          <6>2. Back(k)' = Back(j + 1)' /\ j \in 1 .. Count - 1
            BY <3>l, <6>1, Counts DEF Back
          <6> QED BY <1>1, <3>2, <4>1, <6>1, <6>2
        <5> QED BY <5>1, <5>2
      <4> QED BY <3>1, <3>2, <4>1, <4>2
    <3> QED BY <3>2, <3>3
  <2> QED BY <2>1, <2>2
<1>6. Kept'
  BY <1>5 DEF Kept
<1>7. Noted'
  <2> SUFFICES ASSUME NEW k \in 1 .. Count - 1, (crcs[Back(k)] # Zero)'
               PROVE  (seen[crcs[Back(k)]].later < k)'
    BY DEF Noted
  <2>1. CASE k = 1
    BY <1>1, <1>3, <2>1 DEF Back
  <2>2. CASE k # 1
    <3>1. PICK j \in 1 .. Count - 1 : k = j + 1
      BY <2>2, Counts
    <3>2. Back(k)' = Back(j + 1)'
      BY <3>1 DEF Back
    <3>3. PICK c \in Crcs : c = crcs[Back(j)] /\ c = crcs'[Back(k)'] /\ c # Zero
      BY <1>1, <1>2, <3>1, <3>2, Around
    <3>4. seen[c].later < j
      BY <3>3 DEF Agree, Noted
    <3>5. CASE c = crc
      BY <1>3, <3>3, <3>5
    <3>6. CASE c # crc
      <4>1. seen[c].later + 1 < Count - 1
        BY <3>1, <3>4, SeenType, Counts
      <4>2. seen'[c].later = seen[c].later + 1
        BY <1>c, <3>6, <4>1, <3>3
      <4> QED BY <3>1, <3>3, <3>4, <4>2, SeenType
    <3> QED BY <3>5, <3>6
  <2> QED BY <2>1, <2>2
<1>8. Forgotten'
  <2> SUFFICES ASSUME NEW c \in Crcs, ~Recent(c)' PROVE seen'[c] = Never
    BY DEF Forgotten
  <2>1. c # crc
    BY <1>3, Counts DEF Recent
  <2>2. seen[c].later + 1 >= Count - 1
    BY <1>c, <2>1, SeenType, Counts DEF Recent
  <2> QED BY <1>c, <2>1, <2>2
<1>9. ~Recent(Zero)'
  <2>1. seen[Zero] = Never
    BY Counts DEF Agree, Forgotten
  <2>2. seen'[Zero] = Never
    BY <1>c, <2>1, Histories, Counts
  <2> QED BY <2>2, Histories, Counts DEF Recent
<1> QED BY <1>6, <1>7, <1>8, <1>9 DEF Agree

LEMMA AgreeInit == Init => Agree
<1> SUFFICES ASSUME Init PROVE Agree
  OBVIOUS
<1>1. \A c \in Crcs : seen[c] = Never /\ ~Recent(c)
  <2>1. \A c \in Crcs : seen[c] = Never
    BY DEF Init
  <2>2. ~(Never.later < Count - 1)
    <3>1. PICK n \in Nat : n = Count
      BY Counts
    <3> QED BY <3>1, Histories
  <2> QED BY <2>1, <2>2 DEF Recent
<1>2. in \in Slots /\ \A i \in Slots : crcs[i] = Zero
  BY Counts DEF Init, DedupInit, Slots
<1>3. Noted
  BY <1>2, Around DEF Noted
<1> QED BY <1>1, <1>3, Counts DEF Agree, Kept, Forgotten

LEMMA BInvInit == Init => BInv
BY InitType, AgreeInit DEF BInv, Agree, Init, Bridged, Queued

LEMMA BInvStep ==
  ASSUME BInv, [Next]_vars
  PROVE  BInv'
<1>1. TypeOK' /\ TypeOK /\ Agree /\ Bridged /\ Queued
  BY StepType DEF BInv, Agree
<1>2. Bridged'
  BY <1>1 DEF Bridged, Next, SetInterfaces, Tick, Receive, BridgeWork, vars
<1>3. Queued'
  <2>1. CASE UNCHANGED qfifo
    BY <1>1, <2>1 DEF Queued
  <2>2. ASSUME NEW p \in Traffic, Receive(p) PROVE Queued'
    BY <1>1, <2>2 DEF Queued, Receive, TypeOK
  <2>3. CASE BridgeWork
    BY <1>1, <2>3 DEF Queued, BridgeWork, TypeOK
  <2> QED BY <2>1, <2>2, <2>3 DEF Next, SetInterfaces, Tick, vars
<1>4. Agree'
  <2>1. CASE UNCHANGED <<crcs, times, in, now, seen>>
    BY <1>1, <2>1, AgreeSame
  <2>2. CASE Tick
    BY <1>1, <2>2, AgreeTick
  <2>3. CASE BridgeWork
    <3>p. PICK p \in Traffic : p = Head(qfifo)
      BY <1>1, <2>3 DEF Queued, BridgeWork, TypeOK
    <3>1. p.crc \in Crcs \ {Zero} /\ now' = now
      BY <2>3, BridgeAssumption DEF BridgeWork
    <3>2. CASE IsDuplicate(p.crc)
      BY <2>1, <2>3, <3>p, <3>2 DEF BridgeWork, dedup
    <3>3. CASE ~IsDuplicate(p.crc)
      BY <1>1, <2>3, <3>p, <3>1, <3>3, AgreeCross DEF BridgeWork
    <3> QED BY <3>2, <3>3
  <2>4. CASE SetInterfaces \/ (\E p \in Traffic : Receive(p)) \/ UNCHANGED vars
    BY <2>1, <2>4 DEF SetInterfaces, Receive, dedup, vars
  <2> QED BY <2>2, <2>3, <2>4 DEF Next
<1> QED BY <1>1, <1>2, <1>3, <1>4 DEF BInv, Agree

------------------------------------------------------------------------------
(* What the duplicates are.                                                  *)
\* csp_dedup_is_duplicate finds a checksum where it last crossed, or nowhere.
LEMMA Duplicates ==
  ASSUME BInv, NEW c \in Crcs \ {Zero}, IsDuplicate(c)
  PROVE  seen[c].age <= Window \/ seen[c].wrapped
<1>1. TypeOK /\ Kept /\ Noted
  BY DEF BInv
<1>k. PICK k \in 1 .. Count - 1 : crcs[Back(k)] = c /\ \A j \in 1 .. k : ~TooOld(Back(j))
  BY DEF IsDuplicate
<1>2. seen[c].later < k /\ seen[c].later \in 0 .. Count - 1 /\ seen[c].age \in 0 .. Window + 1
  BY <1>1, <1>k, SeenType DEF Noted
<1>3. Recent(c) /\ seen[c].later + 1 \in 1 .. k
  BY <1>2, Counts DEF Recent
<1>4. ~TooOld(Last(c)) /\ Last(c) \in Slots
  BY <1>1, <1>k, <1>3, SeenType DEF Last
<1>5. times[Last(c)] \in 0 .. ClockMod - 1 /\ now \in 0 .. ClockMod - 1
  BY <1>1, <1>4 DEF TypeOK, DedupTypeOK
<1>6. CASE ~seen[c].wrapped /\ seen[c].age > Window
  <2>1. now - times[Last(c)] > Window
    BY <1>1, <1>2, <1>3, <1>6, Counts DEF Kept
  <2>2. times[Last(c)] + Window \in 0 .. ClockMod - 1
    BY <1>5, <2>1, Counts
  <2>3. (times[Last(c)] + Window) % ClockMod = times[Last(c)] + Window
    BY <2>2, Counts
  <2> QED BY <1>4, <1>5, <2>1, <2>3, Counts DEF TooOld
<1> QED BY <1>2, <1>6, SeenType, Counts

\* It finds one that crossed in the window, unless too many crossed since.
LEMMA Repeats ==
  ASSUME BInv, NEW c \in Crcs, seen[c].age <= Window, Recent(c), ~seen[c].wrapped,
         now + Window < ClockMod
  PROVE  IsDuplicate(c)
<1>1. TypeOK /\ Kept /\ in \in Slots
  BY DEF BInv, TypeOK, DedupTypeOK
<1>k. PICK k \in 1 .. Count - 1 : k = seen[c].later + 1 /\ Last(c) = Back(k)
  BY <1>1, SeenType DEF Last
<1>2. /\ crcs[Back(k)] = c /\ now - times[Back(k)] = seen[c].age
      /\ \A j \in 1 .. k : times[Back(k)] <= times[Back(j)] /\ times[Back(j)] <= now
  BY <1>1, <1>k DEF Kept
<1>3. /\ now \in 0 .. ClockMod - 1 /\ seen[c].age \in Nat
      /\ \A j \in 1 .. k : times[Back(j)] \in 0 .. ClockMod - 1
  <2>1. seen[c].age \in 0 .. Window + 1 /\ now \in 0 .. ClockMod - 1
        /\ times \in [Slots -> 0 .. ClockMod - 1]
    BY <1>1, SeenType DEF TypeOK, DedupTypeOK
  <2>2. \A j \in 1 .. k : Back(j) \in Slots
    BY <1>1, Around, Counts
  <2> QED BY <2>1, <2>2, Counts
<1>4. ASSUME NEW j \in 1 .. k PROVE ~TooOld(Back(j))
  <2>1. PICK t \in 0 .. ClockMod - 1 : t = times[Back(j)]
    BY <1>3
  <2>2. t + Window \in 0 .. ClockMod - 1 /\ now <= t + Window
    <3>1. PICK s \in 0 .. ClockMod - 1 : s = times[Back(k)]
      BY <1>3
    <3>2. now - s <= Window /\ s <= t /\ t <= now
      BY <1>2, <2>1, <3>1
    <3> QED BY <1>3, <3>2, Counts
  <2>3. (t + Window) % ClockMod = t + Window
    BY <2>2, Counts
  <2> QED BY <1>3, <2>1, <2>2, <2>3, Counts DEF TooOld
<1> QED BY <1>2, <1>4 DEF IsDuplicate

\* Only csp_bridge_work drops a packet, or delivers one.
LEMMA WorkOn ==
  ASSUME BInv, Next, Drops \/ Delivers
  PROVE  \E p \in Traffic : /\ event'.what = p /\ p.crc \in Crcs \ {Zero}
                            /\ Drops => IsDuplicate(p.crc)
                            /\ Delivers => ~IsDuplicate(p.crc)
<1>1. BridgeWork
  BY DEF Next, SetInterfaces, Tick, Receive, Drops, Delivers
<1>p. PICK p \in Traffic : p = Head(qfifo)
  BY <1>1 DEF BInv, Queued, BridgeWork, TypeOK
<1>2. p.crc \in Crcs \ {Zero}
  BY BridgeAssumption
<1>3. CASE IsDuplicate(p.crc)
  BY <1>1, <1>p, <1>2, <1>3 DEF BridgeWork, Delivers
<1>4. CASE ~IsDuplicate(p.crc)
  BY <1>1, <1>p, <1>2, <1>4 DEF BridgeWork, Drops
<1> QED BY <1>3, <1>4

(* Nothing is dropped unless the same checksum crossed at most a window ago,   *)
(* or before the clock last wrapped: csp_dedup.c:12.                           *)
THEOREM DropsAreJustified == Spec => DropsJustified
<1>1. BInv /\ [Next]_vars => [Drops => LET s == seen[event'.what.crc]
                                       IN  s.age <= Window \/ s.wrapped]_vars
  <2> SUFFICES ASSUME BInv, Next, Drops
               PROVE  seen[event'.what.crc].age <= Window \/ seen[event'.what.crc].wrapped
    OBVIOUS
  <2>1. PICK p \in Traffic : event'.what = p /\ p.crc \in Crcs \ {Zero} /\ IsDuplicate(p.crc)
    BY WorkOn
  <2> QED BY <2>1, Duplicates
<1> QED BY <1>1, BInvInit, BInvStep, PTL DEF Spec, DropsJustified

(* A repeat within the window does not cross, unless Count - 1 others crossed  *)
(* since, or the clock wrapped or is less than a window from it:               *)
(* csp_dedup.c:9.                                                              *)
THEOREM RepeatsAreDropped == Spec => RepeatsDropped
<1>1. BInv /\ [Next]_vars =>
         [Delivers => LET s == seen[event'.what.crc]
                      IN  \/ s.age > Window \/ s.later >= Count - 1
                          \/ s.wrapped \/ now + Window >= ClockMod]_vars
  <2> SUFFICES ASSUME BInv, Next, Delivers, NEW s, s = seen[event'.what.crc]
               PROVE  \/ s.age > Window \/ s.later >= Count - 1
                      \/ s.wrapped \/ now + Window >= ClockMod
    OBVIOUS
  <2>1. PICK p \in Traffic : event'.what = p /\ p.crc \in Crcs \ {Zero} /\ ~IsDuplicate(p.crc)
    BY WorkOn
  <2>2. /\ s.age \in 0 .. Window + 1 /\ s.later \in 0 .. Count - 1 /\ now \in 0 .. ClockMod - 1
    BY <2>1, SeenType DEF BInv, TypeOK, DedupTypeOK
  <2>3. ~(s.age <= Window /\ Recent(p.crc) /\ ~s.wrapped /\ now + Window < ClockMod)
    BY <2>1, Repeats
  <2> QED BY <2>1, <2>2, <2>3, Counts DEF Recent
<1> QED BY <1>1, BInvInit, BInvStep, PTL DEF Spec, RepeatsDropped

------------------------------------------------------------------------------
(* The bridge is a line.                                                     *)
LEMMA StepLine ==
  ASSUME BInv, [Next]_vars
  PROVE  [Line!Next]_(Line!vars)
<1>1. CASE UNCHANGED vars
  BY <1>1 DEF vars, Line!vars, Shown
<1>2. CASE SetInterfaces \/ Tick
  <2>1. Shown' = Nothing /\ qfifo' = qfifo
    BY <1>2 DEF SetInterfaces, Tick, Shown
  <2> QED BY <2>1 DEF Line!Quiet, Line!Next
<1>3. ASSUME NEW p \in Traffic, Receive(p) PROVE Line!Next
  <2>1. event' # Nothing
    BY <1>3, BridgeAssumption, EventAssumption DEF Receive, Event, Packet
  <2>2. Shown' = [op |-> "send", what |-> p] /\ qfifo' = Append(qfifo, p)
    BY <1>3, <2>1 DEF Receive, Shown
  <2> QED BY <2>2 DEF Line!Send, Line!Next
<1>4. CASE BridgeWork
  <2>p. PICK p \in Traffic : p = Head(qfifo)
    BY <1>4 DEF BInv, Queued, BridgeWork, TypeOK
  <2>1. /\ qfifo \in Seq(Packet) /\ Len(qfifo) \in Nat /\ 1 \in DOMAIN qfifo /\ qfifo[1] = p
        /\ qfifo' = Tail(qfifo) /\ Tail(qfifo) = SubSeq(qfifo, 2, Len(qfifo))
    BY <1>4, <2>p DEF BInv, TypeOK, BridgeWork
  <2>2. event' # Nothing
    BY <1>4, BridgeWorkType, EventAssumption DEF BInv
  <2>3. CASE event'.op = "drop"
    <3>1. Shown' = Nothing
      BY <2>2, <2>3 DEF Shown
    <3>2. qfifo' = SubSeq(qfifo, 1, 1 - 1) \o SubSeq(qfifo, 1 + 1, Len(qfifo))
      BY <2>1
    <3> QED BY <2>1, <3>1, <3>2 DEF Line!Lose, Line!Next
  <2>4. CASE event'.op = "deliver"
    <3>1. event' = [op |-> "deliver", what |-> p, to |-> Opposing(p.iface)]
      BY <1>4, <2>p, <2>4 DEF BridgeWork
    <3>2. Opposing(p.iface) \in {A, B} \ {p.iface}
      BY <1>4, BridgeAssumption DEF BInv, Bridged, BridgeWork, Opposing
    <3>3. Shown' = [op |-> "deliver", what |-> qfifo[1]]
      BY <2>1, <2>2, <3>1, <3>2 DEF Shown
    <3>4. qfifo' = SubSeq(qfifo, 1 + 1, Len(qfifo))
      BY <2>1
    <3> QED BY <2>1, <3>3, <3>4 DEF Line!Deliver, Line!Next
  <2> QED BY <1>4, <2>3, <2>4 DEF BridgeWork
<1> QED BY <1>1, <1>2, <1>3, <1>4 DEF Next

(* What was received on an interface is delivered on the bridged interface    *)
(* opposite to it, in the order received and at most once.                    *)
THEOREM BridgeIsALine == Spec => BridgeSpec
<1>1. Init => Line!Init
  BY DEF Init, Line!Init, Shown
<1> QED BY <1>1, BInvInit, BInvStep, StepLine, PTL DEF Spec, BridgeSpec, Line!Spec

================================================================================
