------------------------------- MODULE CspDedup -------------------------------
(* csp_dedup.c: the checksums of the last packets with the time each was seen,*)
(* in a ring, searched from the newest on until one is too old.               *)
EXTENDS Integers

CONSTANTS
    Crcs, Zero,     \* checksums; the one of an entry never written
    Count,          \* CSP_DEDUP_COUNT, a power of two
    Window,         \* CSP_DEDUP_WINDOW_MS
    ClockMod        \* the clock of csp_get_ms counts modulo 2^32

ASSUME DedupAssumption == /\ Zero \in Crcs
                          /\ Count \in {2, 4, 8, 16}
                          /\ Window \in Nat /\ ClockMod \in Nat /\ Window + 1 < ClockMod

VARIABLES
    crcs, times,    \* csp_dedup_array, csp_dedup_timestamp
    in,             \* csp_dedup_in
    now             \* csp_get_ms()

dedup == <<crcs, times, in>>

Slots == 0 .. Count - 1

DedupInit == /\ crcs = [i \in Slots |-> Zero] /\ times = [i \in Slots |-> 0]
             /\ in = 0 /\ now = 0

DedupTypeOK == /\ crcs \in [Slots -> Crcs] /\ times \in [Slots -> 0 .. ClockMod - 1]
               /\ in \in Slots /\ now \in 0 .. ClockMod - 1

\* The entry written k packets before the next one; the search sees those of
\* 1 .. Count - 1.
Back(k) == (in + Count - k) % Count

TooOld(i) == now > (times[i] + Window) % ClockMod

\* Mutant: the search looks at the checksums only.
IsDuplicateEver(crc) == \E k \in 1 .. Count - 1 : crcs[Back(k)] = crc

\* Mutant: the search leaves out the oldest entry it should see.
IsDuplicateShort(crc) == \E k \in 1 .. Count - 2 :
                            /\ crcs[Back(k)] = crc
                            /\ \A j \in 1 .. k : ~TooOld(Back(j))

\* The search stops at the first entry that is too old.
IsDuplicate(crc) == \E k \in 1 .. Count - 1 :
                       /\ crcs[Back(k)] = crc
                       /\ \A j \in 1 .. k : ~TooOld(Back(j))

\* Mutant: the index is not brought back into the ring.
InsertPast(crc) == /\ crcs' = [crcs EXCEPT ![in] = crc]
                   /\ times' = [times EXCEPT ![in] = now]
                   /\ in' = in + 1

Insert(crc) == /\ crcs' = [crcs EXCEPT ![in] = crc]
               /\ times' = [times EXCEPT ![in] = now]
               /\ in' = (in + 1) % Count
==============================================================================
