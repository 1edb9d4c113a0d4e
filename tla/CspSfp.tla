-------------------------------- MODULE CspSfp --------------------------------
(* csp_sfp.c: a transfer in fragments that carry their offset and the total size. *)
EXTENDS Naturals, Sequences

CONSTANT Mtu        \* the bytes in a fragment

ASSUME SfpAssumption == Mtu \in Nat \ {0}

\* csp_sfp_send_own_memcpy: the packets of a transfer.  It ends early if no buffer is
\* free.  The flag CSP_FFRAG stays with the connection, here one of its own.
Fragments(total) ==
    [k \in 1 .. (total + Mtu - 1) \div Mtu |->
        LET offset == (k - 1) * Mtu
        IN  [offset |-> offset, total |-> total,
             size |-> IF total - offset > Mtu THEN Mtu ELSE total - offset]]

------------------------------------------------------------------------------
(* csp_sfp_recv_fp.  Of a packet it is given: frag, and then offset, total, size. *)

\* The locals of the call before its first packet: the pieces in data, data_offset,
\* datasize and error.  The result is "more" as long as the loop goes on.
Started == [pieces |-> <<>>, got |-> 0, datasize |-> 0, result |-> "more"]

HeaderValid(p) == p.frag /\ p.offset <= p.total

\* Mutant: the offset is not looked at.
InPlaceAny(r, p) == TRUE

InPlace(r, p) == p.offset = r.got

\* Mutant: a transfer has to end before its buffer does.
SizesAgreeShort(r, p, datasize) == r.got + p.size < datasize /\ datasize = p.total

SizesAgree(r, p, datasize) == r.got + p.size <= datasize /\ datasize = p.total

\* A round of the loop, with packet p; memory: whether malloc succeeds.
Taken(r, p, memory) ==
    LET datasize == IF r.pieces = <<>> THEN p.total ELSE r.datasize
        fails(error) == [r EXCEPT !.result = error]
        got == r.got + p.size
    IN  IF ~HeaderValid(p) \/ ~InPlace(r, p) THEN fails("sfp")
        ELSE IF r.pieces = <<>> /\ ~memory THEN fails("nomem")
        ELSE IF ~SizesAgree(r, p, datasize) \/ (got < datasize /\ p.size = 0) THEN fails("sfp")
        ELSE [pieces |-> Append(r.pieces, p), got |-> got, datasize |-> datasize,
              result |-> IF got >= datasize THEN "none" ELSE "more"]
==============================================================================
