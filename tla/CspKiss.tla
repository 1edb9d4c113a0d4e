-------------------------------- MODULE CspKiss --------------------------------
(* csp_if_kiss.c: frames on a serial line, encoded byte by byte by csp_kiss_tx  *)
(* and decoded so by csp_kiss_rx, with the checks of csp_id_strip and           *)
(* csp_crc32_verify.  The line loses and damages bytes.  The checksum is one    *)
(* symbol that damage never makes.  Where packets come from is in CspNode.      *)
EXTENDS Naturals, SequencesExt

CONSTANTS
    FEND, FESC, TFEND, TFESC,   \* the bytes with a meaning to the decoder
    Plain, TNC_DATA,            \* the others; one that is sent before the header
    Header,                     \* the identifier, packed: 4 bytes or 6
    DataSize,                   \* of packet->data
    Payloads,                   \* packet->data of what is sent
    MaxFrames, MaxFaults,       \* bounds: frames sent, bytes lost or damaged
    Nothing                     \* no event

Byte == {FEND, FESC, TFEND, TFESC} \cup Plain

HeaderSize == Len(Header)

\* csp_crc32_memory, with no two data of one checksum.
Crc(data) == [crcOf |-> data]
Checksums == {Crc(p) : p \in Payloads}

ASSUME KissAssumption ==
    /\ FEND \notin {FESC, TFEND, TFESC} /\ FESC \notin {TFEND, TFESC} /\ TFEND # TFESC
    /\ Plain \cap {FEND, FESC, TFEND, TFESC} = {} /\ TNC_DATA \in Plain
    /\ Header \in Seq(Byte) /\ HeaderSize \in {4, 6} /\ DataSize \in Nat \ {0}
    /\ \A p \in Payloads : p \in Seq(Byte) /\ Len(p) <= DataSize
    /\ Checksums \cap Byte = {}
    /\ MaxFrames \in Nat /\ MaxFaults \in Nat

VARIABLES
    pos,        \* i of csp_kiss_tx: the next byte of the frame; 0 between two frames
    line,       \* what is on the line: [byte, frame], the frame's number is history
    rx_mode,    \* ifdata->rx_mode; KISS_MODE_SKIP_FRAME is never entered, as
                \* csp_buffer_get_always and its _isr form do not return NULL
    rx_first,   \* ifdata->rx_first
    rx_packet,  \* ifdata->rx_packet # NULL
    rx_data,    \* what is written from frame_begin on; its length is rx_length
    event,      \* the packet this step took for sending or gave to the router
    frames,     \* history: the data of the frames sent, the number of the last
    given,      \*          that was given to the router, and the frames of the
    faults      \*          bytes lost or damaged

decoder == <<rx_mode, rx_first, rx_packet, rx_data>>
vars == <<pos, line, decoder, event, frames, given, faults>>

Event == [op : {"send", "deliver"},
          what : [frame : 1 .. MaxFrames, data : Seq(Byte \cup Checksums)]]
ASSUME EventAssumption == Nothing \notin Event

Init == /\ pos = 0 /\ line = <<>>
        /\ rx_mode = "NOT_STARTED" /\ rx_first = FALSE /\ rx_packet = FALSE /\ rx_data = <<>>
        /\ event = Nothing /\ frames = <<>> /\ given = 0 /\ faults = <<>>

------------------------------------------------------------------------------
(* csp_kiss_tx.                                                               *)

\* csp_crc32_append fails if there is no room; the frame goes out without it.
Body(data) == IF Len(data) + 1 > DataSize THEN data ELSE Append(data, Crc(data))

\* csp_id_prepend.
Framed(data) == Header \o Body(data)

\* Mutant: FESC is sent as it is.
EscapedEnd(b) == IF b = FEND THEN <<FESC, TFEND>> ELSE <<b>>

Escaped(b) == CASE b = FEND -> <<FESC, TFEND>>
                [] b = FESC -> <<FESC, TFESC>>
                [] OTHER    -> <<b>>

\* The frame that is, or was last, on the line.
Number == Len(frames)
Current == Framed(frames[Number])

\* tx_func.  The decoder does not look at the time: bytes sent while others are on the
\* line are decoded as if they were sent after them.
Put(bytes) == /\ line = <<>>
              /\ line' = [k \in DOMAIN bytes |-> [byte |-> bytes[k], frame |-> Number']]
              /\ UNCHANGED <<decoder, given, faults>>

Send(data) == /\ pos = 0 /\ pos' = 1
              /\ Number < MaxFrames /\ frames' = Append(frames, data)
              /\ Put(<<FEND, TNC_DATA>>)
              /\ event' = [op |-> "send", what |-> [frame |-> Number', data |-> data]]

SendByte == /\ pos # 0 /\ pos <= Len(Current) /\ pos' = pos + 1
            /\ event' = Nothing /\ UNCHANGED frames
            /\ Put(Escaped(Current[pos]))

SendStop == /\ pos # 0 /\ pos = Len(Current) + 1 /\ pos' = 0
            /\ event' = Nothing /\ UNCHANGED frames
            /\ Put(<<FEND>>)

------------------------------------------------------------------------------
(* csp_kiss_rx, for one byte.                                                 *)

\* Mutant: the test comes one byte late.
TooLongLate == rx_packet /\ Len(rx_data) > HeaderSize + DataSize

TooLong == rx_packet /\ Len(rx_data) >= HeaderSize + DataSize

\* The test comes first: the byte is then handled as outside a frame.
Mode == IF TooLong THEN "NOT_STARTED" ELSE rx_mode

Written == IF TooLong THEN <<>> ELSE rx_data

\* csp_crc32_verify: over the header and the data, or over the data.
Verified(frame) ==
    LET last == Len(frame)
    IN  /\ frame[last] \in Checksums
        /\ \E first \in {1, HeaderSize + 1} :
              first <= last /\ frame[last] = Crc(SubSeq(frame, first, last - 1))

\* Mutant: the checksum is not looked at.
AcceptedAny(frame) == Len(frame) > HeaderSize

\* csp_id_strip, then csp_crc32_verify.
Accepted(frame) == Len(frame) > HeaderSize /\ Verified(frame)

\* What a step does to the decoder's state; a step that is not Close has no event.
Decode(mode, first, data) ==
    /\ rx_mode' = mode /\ rx_first' = first /\ rx_data' = data
    /\ rx_packet' = (rx_packet \/ mode # "NOT_STARTED")
    /\ event' = Nothing /\ UNCHANGED given

Skip(b) == /\ Mode = "NOT_STARTED" /\ b.byte # FEND
           /\ Decode("NOT_STARTED", rx_first, Written)

Start(b) == /\ Mode = "NOT_STARTED" /\ b.byte = FEND
            /\ Decode("STARTED", TRUE, <<>>)

Escape(b) == /\ Mode = "STARTED" /\ b.byte = FESC
             /\ Decode("ESCAPED", rx_first, rx_data)

\* A FEND with nothing written leaves the frame open: it opens it again.
Reopen(b) == /\ Mode = "STARTED" /\ b.byte = FEND /\ rx_data = <<>>
             /\ Decode("STARTED", rx_first, rx_data)

SkipFirst(b) == /\ Mode = "STARTED" /\ b.byte \notin {FESC, FEND} /\ rx_first
                /\ Decode("STARTED", FALSE, rx_data)

Store(b) == /\ Mode = "STARTED" /\ b.byte \notin {FESC, FEND} /\ ~rx_first
            /\ Decode("STARTED", rx_first, Append(rx_data, b))

\* Anything but the two escaped bytes is dropped, a FEND as well.
Unescape(b) ==
    /\ Mode = "ESCAPED"
    /\ Decode("STARTED", rx_first,
              CASE b.byte = TFESC -> Append(rx_data, [b EXCEPT !.byte = FESC])
                [] b.byte = TFEND -> Append(rx_data, [b EXCEPT !.byte = FEND])
                [] OTHER          -> rx_data)

Frame == [k \in DOMAIN rx_data |-> rx_data[k].byte]

\* The packet and what is written in it stay until the next frame starts.
Refuse(b) == /\ Mode = "STARTED" /\ b.byte = FEND /\ rx_data # <<>>
             /\ ~Accepted(Frame)
             /\ Decode("NOT_STARTED", rx_first, rx_data)

\* Mutant: the decoder keeps the packet that it gives to the router.
CloseKept(b) ==
    /\ Mode = "STARTED" /\ b.byte = FEND /\ rx_data # <<>>
    /\ Accepted(Frame)
    /\ rx_mode' = "STARTED" /\ rx_packet' = FALSE
    /\ LET n == Last(rx_data).frame
       IN  /\ event' = [op |-> "deliver", what |->
                           [frame |-> n, data |-> SubSeq(Frame, HeaderSize + 1, Len(Frame) - 1)]]
           /\ given' = n
    /\ UNCHANGED <<rx_first, rx_data>>

\* csp_qfifo_write.  The number of the packet is that of its last byte.
Close(b) ==
    /\ Mode = "STARTED" /\ b.byte = FEND /\ rx_data # <<>>
    /\ Accepted(Frame)
    /\ rx_mode' = "NOT_STARTED" /\ rx_packet' = FALSE
    /\ LET n == Last(rx_data).frame
       IN  /\ event' = [op |-> "deliver", what |->
                           [frame |-> n, data |-> SubSeq(Frame, HeaderSize + 1, Len(Frame) - 1)]]
           /\ given' = n
    /\ UNCHANGED <<rx_first, rx_data>>

Decodes(b) == \/ Skip(b) \/ Start(b) \/ Escape(b) \/ Reopen(b) \/ SkipFirst(b)
              \/ Store(b) \/ Unescape(b) \/ Refuse(b) \/ Close(b)

Receive == /\ line # <<>> /\ line' = Tail(line)
           /\ Decodes(Head(line))
           /\ UNCHANGED <<pos, frames, faults>>

------------------------------------------------------------------------------
(* The line.                                                                  *)

Fault == /\ line # <<>> /\ line' = Tail(line)
         /\ Len(faults) < MaxFaults /\ faults' = Append(faults, Head(line).frame)
         /\ UNCHANGED <<pos, frames>>

LoseByte == Fault /\ event' = Nothing /\ UNCHANGED <<decoder, given>>

\* Another byte is received.
DamageByte == /\ Fault
              /\ \E b \in Byte \ {Head(line).byte} : Decodes([Head(line) EXCEPT !.byte = b])

Next == \/ Receive \/ LoseByte \/ DamageByte
        \/ SendByte \/ SendStop \/ \E data \in Payloads : Send(data)

Spec == Init /\ [][Next]_vars

------------------------------------------------------------------------------
(* Properties.                                                                *)

Symbol == [byte : Byte \cup Checksums, frame : 1 .. MaxFrames]
Packet == [frame : 1 .. MaxFrames, data : Payloads]

\* The types; and nothing is written past the end of the packet's data.
TypeOK == /\ line \in Seq(Symbol) /\ rx_data \in Seq(Symbol)
          /\ Len(rx_data) <= HeaderSize + DataSize
          /\ rx_mode \in {"NOT_STARTED", "STARTED", "ESCAPED"}
          /\ rx_first \in BOOLEAN /\ rx_packet \in BOOLEAN
          /\ frames \in Seq(Payloads) /\ Len(frames) <= MaxFrames
          /\ pos \in Nat /\ (pos # 0 => Number # 0 /\ pos <= Len(Current) + 1)
          /\ given \in 0 .. MaxFrames /\ event \in Event \cup {Nothing}
          /\ faults \in Seq(1 .. MaxFrames) /\ Len(faults) <= MaxFaults

\* The decoder writes only to a packet it holds: not to one it gave to the router.
Held == rx_mode # "NOT_STARTED" => rx_packet

Spoilt(n) == n \in Range(faults)

Fits(data) == Len(Framed(data)) < HeaderSize + DataSize

Sent(n) == [frame |-> n, data |-> frames[n]]

\* Whatever came before, after one frame without a fault the decoder is back in step:
\* the next, if nothing happens to it either and it is below the largest size, is given
\* to the router when its last byte comes.
Resync ==
    [][/\ pos = 0 /\ line # <<>> /\ UNCHANGED faults
       /\ Fits(frames[Number]) /\ ~Spoilt(Number) /\ ~Spoilt(Number - 1)
       => event' = [op |-> "deliver", what |-> Sent(Number)]]_vars

\* What csp_crc32_verify makes of a frame that has lost its header, as its checksum is
\* right: the first bytes of the data are taken for the header.
Headless(data) == SubSeq(data, HeaderSize + 1, Len(data))

\* The packet that was sent, for one that is delivered.  It takes two faults to lose the
\* header: one that hides the frame's start, and one that makes another.
Origin(p) == IF Len(faults) >= 2 /\ p.data = Headless(frames[p.frame]) THEN Sent(p.frame) ELSE p

Shown == IF event = Nothing THEN Nothing ELSE [event EXCEPT !.what = Origin(@)]

\* What is still to come, of what was sent.
Undelivered == [k \in 1 .. Number - given |-> Sent(given + k)]

\* The packets the router gets are packets that were sent, in that order, each at most
\* once; after two faults the beginning of one may have been taken for its header.
Serial == INSTANCE CspLine WITH Message <- Packet, event <- Shown, sent <- Undelivered

KissSpec == Serial!Spec
==============================================================================
