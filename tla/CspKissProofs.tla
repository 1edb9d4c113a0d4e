----------------------------- MODULE CspKissProofs -----------------------------
(***************************************************************************)
(* The KISS interface for every header, packet size, set of payloads and    *)
(* number of faults: the decoder stays in the packet it holds, it is back   *)
(* in step after one whole frame, and what it gives to the router was sent. *)
(***************************************************************************)
EXTENDS CspKiss, SequenceTheorems, TLAPS

------------------------------------------------------------------------------
(* The frames.                                                               *)

LEMMA Sizes ==
  /\ HeaderSize \in Nat /\ HeaderSize >= 4 /\ DataSize \in Nat /\ DataSize >= 1
  /\ Header \in Seq(Byte) /\ MaxFrames \in Nat /\ MaxFaults \in Nat
BY KissAssumption

LEMMA Bytes ==
  /\ {FEND, FESC, TFEND, TFESC, TNC_DATA} \subseteq Byte
  /\ FEND # FESC /\ FEND # TFEND /\ FEND # TFESC /\ FESC # TFEND /\ FESC # TFESC
  /\ TFEND # TFESC /\ TNC_DATA \notin {FEND, FESC, TFEND, TFESC}
  /\ \A b \in Byte : b \notin Checksums
BY KissAssumption DEF Byte

LEMMA BodyIs ==
  ASSUME NEW p \in Payloads
  PROVE  /\ p \in Seq(Byte) /\ Crc(p) \in Checksums
         /\ Body(p) \in Seq(Byte \cup Checksums) /\ Len(Body(p)) \in 0 .. DataSize
         /\ \/ Body(p) = p /\ Len(p) = DataSize
            \/ Body(p) = Append(p, Crc(p)) /\ Len(Body(p)) = Len(p) + 1
<1>1. p \in Seq(Byte) /\ Len(p) <= DataSize /\ Crc(p) \in Checksums
  BY KissAssumption DEF Checksums
<1>2. p \in Seq(Byte \cup Checksums) /\ Len(p) \in Nat
  BY <1>1
<1>3. CASE Len(p) + 1 > DataSize
  BY <1>1, <1>2, <1>3, Sizes DEF Body
<1>4. CASE Len(p) + 1 <= DataSize
  <2>1. Body(p) = Append(p, Crc(p))
    BY <1>2, <1>4, Sizes DEF Body
  <2>2. Append(p, Crc(p)) \in Seq(Byte \cup Checksums) /\ Len(Append(p, Crc(p))) = Len(p) + 1
    BY <1>1, <1>2
  <2> QED BY <1>1, <1>2, <1>4, <2>1, <2>2, Sizes
<1> QED BY <1>2, <1>3, <1>4, Sizes

\* A frame: the header, the data and, where it fits, the checksum.
LEMMA FramedIs ==
  ASSUME NEW p \in Payloads
  PROVE  /\ Framed(p) \in Seq(Byte \cup Checksums)
         /\ Len(Framed(p)) \in HeaderSize .. HeaderSize + DataSize
         /\ \A k \in 1 .. Len(Framed(p)) : Framed(p)[k] \in Checksums =>
               /\ k = Len(Framed(p)) /\ k = HeaderSize + Len(p) + 1
               /\ Framed(p)[k] = Crc(p)
         /\ Fits(p) => /\ Len(Framed(p)) = HeaderSize + Len(p) + 1
                       /\ Framed(p)[Len(Framed(p))] = Crc(p)
                       /\ \A k \in 1 .. Len(p) : Framed(p)[HeaderSize + k] = p[k]
<1>1. /\ p \in Seq(Byte) /\ Crc(p) \in Checksums
      /\ Body(p) \in Seq(Byte \cup Checksums) /\ Len(Body(p)) \in 0 .. DataSize
      /\ \/ Body(p) = p /\ Len(p) = DataSize
         \/ Body(p) = Append(p, Crc(p)) /\ Len(Body(p)) = Len(p) + 1
  BY BodyIs
<1>2. Header \in Seq(Byte) /\ Header \in Seq(Byte \cup Checksums) /\ Len(Header) = HeaderSize
  BY Sizes DEF HeaderSize
<1>3. /\ Framed(p) \in Seq(Byte \cup Checksums)
      /\ Len(Framed(p)) = HeaderSize + Len(Body(p))
      /\ \A k \in 1 .. HeaderSize : Framed(p)[k] = Header[k]
      /\ \A k \in 1 .. Len(Body(p)) : Framed(p)[HeaderSize + k] = Body(p)[k]
  <2>1. /\ Header \o Body(p) \in Seq(Byte \cup Checksums)
        /\ Len(Header \o Body(p)) = HeaderSize + Len(Body(p))
    BY <1>1, <1>2, ConcatProperties
  <2>2. ASSUME NEW k \in 1 .. HeaderSize
        PROVE  (Header \o Body(p))[k] = Header[k]
    BY <1>1, <1>2, <2>1, Sizes, ConcatProperties
  <2>3. ASSUME NEW k \in 1 .. Len(Body(p))
        PROVE  (Header \o Body(p))[HeaderSize + k] = Body(p)[k]
    BY <1>1, <1>2, <2>1, Sizes, ConcatProperties
  <2> QED BY <2>1, <2>2, <2>3 DEF Framed
<1>4. ASSUME NEW k \in 1 .. Len(Framed(p)), Framed(p)[k] \in Checksums
      PROVE  /\ k = Len(Framed(p)) /\ k = HeaderSize + Len(p) + 1
             /\ Framed(p)[k] = Crc(p)
  <2>1. k \in Nat /\ k > HeaderSize
    <3>1. CASE k <= HeaderSize
      <4>1. Header[k] \in Byte /\ Framed(p)[k] = Header[k]
        BY <1>2, <1>3, <3>1, Sizes
      <4> QED BY <1>4, <4>1, Bytes
    <3> QED BY <3>1, Sizes
  <2>2. PICK j \in 1 .. Len(Body(p)) : j = k - HeaderSize /\ Framed(p)[k] = Body(p)[j]
    <3>1. k - HeaderSize \in 1 .. Len(Body(p)) /\ k = HeaderSize + (k - HeaderSize)
      BY <1>1, <1>3, <2>1, Sizes
    <3> QED BY <1>3, <3>1
  <2>3. CASE j \in 1 .. Len(p)
    <3>1. Body(p)[j] = p[j] /\ p[j] \in Byte
      BY <1>1, <2>3
    <3> QED BY <1>4, <2>2, <3>1, Bytes
  <2>4. CASE j \notin 1 .. Len(p)
    <3>1. Body(p) = Append(p, Crc(p)) /\ j = Len(p) + 1 /\ j = Len(Body(p))
      BY <1>1, <2>2, <2>4
    <3>2. Body(p)[j] = Crc(p)
      BY <1>1, <3>1
    <3> QED BY <1>1, <1>3, <2>2, <3>1, <3>2, Sizes
  <2> QED BY <2>3, <2>4
<1>5. ASSUME Fits(p)
      PROVE  /\ Len(Framed(p)) = HeaderSize + Len(p) + 1
             /\ Framed(p)[Len(Framed(p))] = Crc(p)
             /\ \A k \in 1 .. Len(p) : Framed(p)[HeaderSize + k] = p[k]
  <2>1. Len(p) \in Nat /\ Body(p) = Append(p, Crc(p)) /\ Len(Body(p)) = Len(p) + 1
    BY <1>1, <1>3, <1>5, Sizes DEF Fits
  <2>2. Body(p)[Len(p) + 1] = Crc(p) /\ \A k \in 1 .. Len(p) : Body(p)[k] = p[k]
    BY <1>1, <2>1
  <2>3. Framed(p)[HeaderSize + (Len(p) + 1)] = Crc(p)
    BY <1>3, <2>1, <2>2
  <2>4. HeaderSize + (Len(p) + 1) = Len(Framed(p))
    BY <1>3, <2>1, Sizes
  <2> QED BY <1>3, <2>1, <2>2, <2>3, <2>4, Sizes
<1>6. Len(Framed(p)) \in HeaderSize .. HeaderSize + DataSize
  BY <1>1, <1>3, Sizes
<1> QED BY <1>3, <1>4, <1>5, <1>6


------------------------------------------------------------------------------
(* What the decoder makes of a byte.                                          *)

LEMMA FrameType ==
  ASSUME rx_data \in Seq(Symbol)
  PROVE  /\ Frame \in Seq(Byte \cup Checksums) /\ Len(Frame) = Len(rx_data)
         /\ \A k \in 1 .. Len(rx_data) : Frame[k] = rx_data[k].byte
<1>1. PICK n \in Nat : n = Len(rx_data) /\ DOMAIN rx_data = 1 .. n
  OBVIOUS
<1>2. ASSUME NEW k \in 1 .. n
      PROVE  rx_data[k].byte \in Byte \cup Checksums
  <2>1. rx_data[k] \in Symbol
    BY <1>1
  <2> QED BY <2>1 DEF Symbol
<1>3. Frame = [k \in 1 .. n |-> rx_data[k].byte]
  BY <1>1 DEF Frame
<1>4. Frame \in Seq(Byte \cup Checksums) /\ Len(Frame) = n
  BY <1>2, <1>3, IsASeq
<1> QED BY <1>1, <1>3, <1>4

\* A FEND starts a frame, leaves an open one as it is, ends it, or ends an escape.
LEMMA OnFend ==
  ASSUME TypeOK, NEW b \in Symbol, b.byte = FEND, Decodes(b)
  PROVE  \/ /\ TooLong \/ rx_mode = "NOT_STARTED"
            /\ rx_mode' = "STARTED" /\ rx_first' = TRUE /\ rx_data' = <<>>
         \/ /\ ~TooLong /\ rx_mode = "STARTED" /\ rx_data = <<>>
            /\ rx_mode' = "STARTED" /\ rx_first' = rx_first /\ rx_data' = <<>>
         \/ /\ ~TooLong /\ rx_mode = "STARTED" /\ rx_data # <<>>
            /\ rx_mode' = "NOT_STARTED" /\ rx_first' = rx_first /\ rx_data' = rx_data
         \/ /\ ~TooLong /\ rx_mode = "ESCAPED"
            /\ rx_mode' = "STARTED" /\ rx_first' = rx_first /\ rx_data' = rx_data
BY Bytes DEF TypeOK, Decodes, Skip, Start, Escape, Reopen, SkipFirst, Store, Unescape, Refuse,
             Close, Decode, Mode

\* A FESC starts an escape, or ends one.
LEMMA OnFesc ==
  ASSUME TypeOK, NEW b \in Symbol, b.byte = FESC, Decodes(b)
  PROVE  \/ /\ TooLong \/ rx_mode = "NOT_STARTED"
            /\ rx_mode' = "NOT_STARTED" /\ rx_first' = rx_first
            /\ rx_data' = IF TooLong THEN <<>> ELSE rx_data
         \/ /\ ~TooLong /\ rx_mode \in {"STARTED", "ESCAPED"}
            /\ rx_mode' = IF rx_mode = "STARTED" THEN "ESCAPED" ELSE "STARTED"
            /\ rx_first' = rx_first /\ rx_data' = rx_data
BY Bytes DEF TypeOK, Decodes, Skip, Start, Escape, Reopen, SkipFirst, Store, Unescape, Refuse,
             Close, Decode, Mode, Written

\* Another byte is skipped, or stored, or ends an escape.
LEMMA OnOther ==
  ASSUME TypeOK, NEW b \in Symbol, b.byte \notin {FEND, FESC}, Decodes(b)
  PROVE  \/ /\ TooLong \/ rx_mode = "NOT_STARTED"
            /\ rx_mode' = "NOT_STARTED" /\ rx_first' = rx_first
            /\ rx_data' = IF TooLong THEN <<>> ELSE rx_data
         \/ /\ ~TooLong /\ rx_mode = "STARTED" /\ rx_first
            /\ rx_mode' = "STARTED" /\ rx_first' = FALSE /\ rx_data' = rx_data
         \/ /\ ~TooLong /\ rx_mode = "STARTED" /\ rx_first = FALSE
            /\ rx_mode' = "STARTED" /\ rx_first' = FALSE /\ rx_data' = Append(rx_data, b)
         \/ /\ ~TooLong /\ rx_mode = "ESCAPED"
            /\ rx_mode' = "STARTED" /\ rx_first' = rx_first
            /\ rx_data' = CASE b.byte = TFESC -> Append(rx_data, [b EXCEPT !.byte = FESC])
                            [] b.byte = TFEND -> Append(rx_data, [b EXCEPT !.byte = FEND])
                            [] OTHER          -> rx_data
BY Bytes DEF TypeOK, Decodes, Skip, Start, Escape, Reopen, SkipFirst, Store, Unescape, Refuse,
             Close, Decode, Mode, Written

\* However it goes, the bytes written are those of before, or none, or one more.
LEMMA Grows ==
  ASSUME TypeOK, NEW b \in Symbol, Decodes(b)
  PROVE  \/ rx_data' \in {<<>>, rx_data}
         \/ /\ ~TooLong /\ rx_mode' = "STARTED" /\ b.byte \notin {FEND, FESC}
            /\ \/ /\ rx_mode = "STARTED" /\ rx_first = FALSE /\ rx_first' = FALSE
                  /\ rx_data' = Append(rx_data, b)
               \/ /\ rx_mode = "ESCAPED" /\ b.byte \in {TFEND, TFESC}
                  /\ \E e \in {FEND, FESC} : rx_data' = Append(rx_data, [b EXCEPT !.byte = e])
<1>1. CASE b.byte = FEND
  BY <1>1, OnFend
<1>2. CASE b.byte = FESC
  BY <1>2, OnFesc
<1>3. CASE b.byte \notin {FEND, FESC}
  BY <1>3, OnOther
<1> QED BY <1>1, <1>2, <1>3

\* Only the end of a frame that is accepted gives anything to the router.
LEMMA Gives ==
  ASSUME NEW b, Decodes(b)
  PROVE  \/ event' = Nothing /\ given' = given
         \/ /\ ~TooLong /\ rx_mode = "STARTED" /\ b.byte = FEND /\ rx_data # <<>>
            /\ Accepted(Frame) /\ rx_mode' = "NOT_STARTED" /\ rx_data' = rx_data
            /\ given' = Last(rx_data).frame
            /\ event' = [op |-> "deliver", what |-> [frame |-> Last(rx_data).frame,
                             data |-> SubSeq(Frame, HeaderSize + 1, Len(Frame) - 1)]]
<1>1. CASE Close(b)
  BY <1>1 DEF Close, Mode
<1>2. CASE ~Close(b)
  BY <1>2 DEF Decodes, Skip, Start, Escape, Reopen, SkipFirst, Store, Unescape, Refuse, Decode
<1> QED BY <1>1, <1>2

LEMMA Keeps ==
  ASSUME TypeOK, Held, NEW b \in Symbol, Decodes(b)
  PROVE  rx_packet' \in BOOLEAN /\ Held'
BY DEF TypeOK, Held, Decodes, Skip, Start, Escape, Reopen, SkipFirst, Store, Unescape, Refuse,
       Close, Decode, Mode


------------------------------------------------------------------------------
(* Types, and that the decoder writes where it may.                           *)

LEMMA PutIs ==
  ASSUME NEW bytes \in Seq(Byte \cup Checksums), Put(bytes), Number' \in 1 .. MaxFrames
  PROVE  /\ line' \in Seq(Symbol) /\ Len(line') = Len(bytes)
         /\ \A k \in 1 .. Len(bytes) : line'[k] = [byte |-> bytes[k], frame |-> Number']
<1>1. PICK n \in Nat : n = Len(bytes) /\ DOMAIN bytes = 1 .. n
  OBVIOUS
<1>2. PICK m \in 1 .. MaxFrames : m = Number'
  OBVIOUS
<1>3. line' = [k \in 1 .. n |-> [byte |-> bytes[k], frame |-> m]]
  BY <1>1, <1>2 DEF Put
<1>4. \A k \in 1 .. n : [byte |-> bytes[k], frame |-> m] \in Symbol
  BY <1>1 DEF Symbol
<1>5. line' \in Seq(Symbol) /\ Len(line') = n
  BY <1>3, <1>4, IsASeq
<1> QED BY <1>1, <1>2, <1>3, <1>5

LEMMA CurrentIs ==
  ASSUME TypeOK, Number # 0
  PROVE  /\ Number \in 1 .. MaxFrames /\ frames[Number] \in Payloads
         /\ Current \in Seq(Byte \cup Checksums)
         /\ Len(Current) \in HeaderSize .. HeaderSize + DataSize
<1>1. Number \in 1 .. MaxFrames /\ frames[Number] \in Payloads
  BY Sizes DEF TypeOK, Number
<1> QED BY <1>1, FramedIs DEF Current

LEMMA EscapedIs ==
  ASSUME NEW b \in Byte \cup Checksums
  PROVE  Escaped(b) \in Seq(Byte \cup Checksums)
<1>1. \A x, y \in Byte : <<x, y>> \in Seq(Byte \cup Checksums)
  OBVIOUS
<1>2. <<b>> \in Seq(Byte \cup Checksums)
  OBVIOUS
<1>3. Escaped(b) \in {<<FESC, TFEND>>, <<FESC, TFESC>>, <<b>>}
  BY DEF Escaped
<1> QED BY <1>1, <1>2, <1>3, Bytes

LEMMA SendType ==
  ASSUME TypeOK, NEW p \in Payloads, Send(p)
  PROVE  /\ TypeOK' /\ Number' = Number + 1 /\ Number' \in 1 .. MaxFrames /\ event' \in Event
         /\ frames'[Number'] = p /\ \A k \in 1 .. Number : frames'[k] = frames[k]
         /\ line' = <<[byte |-> FEND, frame |-> Number'], [byte |-> TNC_DATA, frame |-> Number']>>
<1>1. PICK n \in Nat : n = Number
  BY DEF TypeOK, Number
<1>2. /\ frames' = Append(frames, p) /\ frames' \in Seq(Payloads) /\ Number' = n + 1
      /\ Number' \in 1 .. MaxFrames /\ frames'[Number'] = p
      /\ \A k \in 1 .. n : frames'[k] = frames[k]
  BY <1>1, Sizes DEF Send, TypeOK, Number
<1>3. Len(Current') \in HeaderSize .. HeaderSize + DataSize
  BY <1>2, FramedIs DEF Current
<1>4. PICK s \in Seq(Byte \cup Checksums) : /\ Put(s)
                                            /\ Len(s) = 2 /\ s[1] = FEND /\ s[2] = TNC_DATA
  <2>1. <<FEND, TNC_DATA>> \in Seq(Byte \cup Checksums)
    BY Bytes
  <2> QED BY <2>1 DEF Send
<1>5. /\ line' \in Seq(Symbol) /\ Len(line') = 2
      /\ line'[1] = [byte |-> FEND, frame |-> Number']
      /\ line'[2] = [byte |-> TNC_DATA, frame |-> Number']
  <2>1. /\ line' \in Seq(Symbol) /\ Len(line') = Len(s)
        /\ \A k \in 1 .. Len(s) : line'[k] = [byte |-> s[k], frame |-> Number']
    BY <1>2, <1>4, PutIs
  <2> QED BY <1>4, <2>1
<1>6. line' = <<[byte |-> FEND, frame |-> Number'], [byte |-> TNC_DATA, frame |-> Number']>>
  BY <1>5
<1>7. event' \in Event
  <2>1. p \in Seq(Byte \cup Checksums)
    BY BodyIs
  <2> QED BY <1>2, <2>1 DEF Send, Event
<1>8. pos' = 1 /\ (pos' # 0 => Number' # 0 /\ pos' <= Len(Current') + 1)
  BY <1>2, <1>3, Sizes DEF Send
<1>9. UNCHANGED <<rx_mode, rx_first, rx_packet, rx_data, given, faults>>
  BY <1>4 DEF Put, decoder
<1>10. TypeOK'
  BY <1>2, <1>5, <1>7, <1>8, <1>9 DEF TypeOK, Number
<1> QED BY <1>1, <1>2, <1>6, <1>7, <1>10

LEMMA SendByteType ==
  ASSUME TypeOK, SendByte
  PROVE  /\ TypeOK' /\ Number # 0 /\ pos \in 1 .. Len(Current) /\ pos' = pos + 1
         /\ Len(line') = Len(Escaped(Current[pos]))
         /\ \A k \in 1 .. Len(line') :
               line'[k] = [byte |-> Escaped(Current[pos])[k], frame |-> Number]
<1>1. /\ Number # 0 /\ pos \in Nat /\ pos # 0 /\ pos <= Len(Current) /\ pos' = pos + 1
      /\ Number' = Number /\ Current' = Current /\ frames' = frames /\ event' = Nothing
  BY DEF TypeOK, SendByte, Number, Current
<1>2. /\ Number \in 1 .. MaxFrames /\ Current \in Seq(Byte \cup Checksums)
      /\ Len(Current) \in HeaderSize .. HeaderSize + DataSize
  BY <1>1, CurrentIs
<1>3. pos \in 1 .. Len(Current)
  BY <1>1, <1>2, Sizes
<1>4. PICK s \in Seq(Byte \cup Checksums) : s = Escaped(Current[pos])
  BY <1>2, <1>3, EscapedIs
<1>5. /\ line' \in Seq(Symbol) /\ Len(line') = Len(s)
      /\ \A k \in 1 .. Len(s) : line'[k] = [byte |-> s[k], frame |-> Number]
  <2>1. Put(s)
    BY <1>4 DEF SendByte
  <2> QED BY <1>1, <1>2, <2>1, PutIs
<1>6. UNCHANGED <<rx_mode, rx_first, rx_packet, rx_data, given, faults>>
  BY DEF SendByte, Put, decoder
<1>7. TypeOK'
  <2>1. pos' \in Nat /\ pos' <= Len(Current') + 1
    BY <1>1, <1>2, <1>3, Sizes
  <2> QED BY <1>1, <1>5, <1>6, <2>1 DEF TypeOK
<1> QED BY <1>1, <1>3, <1>4, <1>5, <1>7

LEMMA SendStopType ==
  ASSUME TypeOK, SendStop
  PROVE  /\ TypeOK' /\ Number # 0 /\ pos = Len(Current) + 1 /\ pos' = 0
         /\ line' = <<[byte |-> FEND, frame |-> Number]>>
<1>1. /\ Number # 0 /\ pos = Len(Current) + 1 /\ pos' = 0 /\ event' = Nothing
      /\ Number' = Number /\ frames' = frames
  BY DEF TypeOK, SendStop, Number
<1>2. PICK s \in Seq(Byte \cup Checksums) : /\ Put(s)
                                            /\ Len(s) = 1 /\ s[1] = FEND
  <2>1. <<FEND>> \in Seq(Byte \cup Checksums)
    BY Bytes
  <2> QED BY <2>1 DEF SendStop
<1>3. line' \in Seq(Symbol) /\ Len(line') = 1 /\ line'[1] = [byte |-> FEND, frame |-> Number]
  <2>1. Number' = Number /\ Number' \in 1 .. MaxFrames
    BY <1>1, CurrentIs
  <2>2. /\ line' \in Seq(Symbol) /\ Len(line') = Len(s)
        /\ \A k \in 1 .. Len(s) : line'[k] = [byte |-> s[k], frame |-> Number']
    BY <1>2, <2>1, PutIs
  <2> QED BY <1>2, <2>1, <2>2
<1>4. UNCHANGED <<rx_mode, rx_first, rx_packet, rx_data, given, faults>>
  BY DEF SendStop, Put, decoder
<1> QED BY <1>1, <1>3, <1>4 DEF TypeOK

LEMMA DeliveredEvent ==
  ASSUME rx_data \in Seq(Symbol), Accepted(Frame), NEW n \in 1 .. MaxFrames
  PROVE  [op |-> "deliver", what |-> [frame |-> n,
             data |-> SubSeq(Frame, HeaderSize + 1, Len(Frame) - 1)]] \in Event
<1>1. PICK f \in Seq(Byte \cup Checksums) : f = Frame /\ Len(f) > HeaderSize
  BY FrameType DEF Accepted
<1>2. \A i \in HeaderSize + 1 .. Len(f) - 1 : f[i] \in Byte \cup Checksums
  BY <1>1, Sizes
<1>3. SubSeq(Frame, HeaderSize + 1, Len(Frame) - 1) \in Seq(Byte \cup Checksums)
  BY <1>1, <1>2, Sizes, SubSeqProperties
<1> QED BY <1>3 DEF Event

\* Of the decoder and what it gives.
LEMMA DecodesType ==
  ASSUME TypeOK, Held, NEW b \in Symbol, Decodes(b)
  PROVE  /\ rx_data' \in Seq(Symbol) /\ Len(rx_data') <= HeaderSize + DataSize
         /\ rx_mode' \in {"NOT_STARTED", "STARTED", "ESCAPED"}
         /\ rx_first' \in BOOLEAN /\ rx_packet' \in BOOLEAN
         /\ given' \in 0 .. MaxFrames /\ event' \in Event \cup {Nothing}
<1>1. rx_data' \in Seq(Symbol) /\ Len(rx_data') <= HeaderSize + DataSize
  <2>1. CASE rx_data' \in {<<>>, rx_data}
    <3>1. <<>> \in Seq(Symbol) /\ Len(<<>>) = 0 /\ 0 <= HeaderSize + DataSize
      BY Sizes
    <3> QED BY <2>1, <3>1 DEF TypeOK
  <2>2. ASSUME NEW x \in Symbol, ~TooLong, rx_packet, rx_data' = Append(rx_data, x)
        PROVE  rx_data' \in Seq(Symbol) /\ Len(rx_data') <= HeaderSize + DataSize
    <3>1. PICK n \in Nat : n = Len(rx_data) /\ n < HeaderSize + DataSize
      BY <2>2, Sizes DEF TypeOK, TooLong
    <3>2. rx_data' \in Seq(Symbol) /\ Len(rx_data') = n + 1
      BY <2>2, <3>1, AppendProperties DEF TypeOK
    <3> QED BY <3>1, <3>2, Sizes
  <2>3. \A e \in {FEND, FESC} : [b EXCEPT !.byte = e] \in Symbol
    BY Bytes DEF Symbol
  <2>4. rx_mode # "NOT_STARTED" => rx_packet
    BY DEF Held
  <2> QED BY <2>1, <2>2, <2>3, <2>4, Grows
<1>2. /\ rx_mode' \in {"NOT_STARTED", "STARTED", "ESCAPED"} /\ rx_first' \in BOOLEAN
  <2>1. CASE b.byte = FEND
    BY <2>1, OnFend DEF TypeOK
  <2>2. CASE b.byte = FESC
    BY <2>2, OnFesc DEF TypeOK
  <2>3. CASE b.byte \notin {FEND, FESC}
    BY <2>3, OnOther DEF TypeOK
  <2> QED BY <2>1, <2>2, <2>3
<1>3. /\ given' \in 0 .. MaxFrames /\ event' \in Event \cup {Nothing}
  <2>1. CASE event' = Nothing /\ given' = given
    BY <2>1 DEF TypeOK
  <2>2. CASE /\ given' = Last(rx_data).frame /\ rx_data # <<>> /\ Accepted(Frame)
             /\ event' = [op |-> "deliver", what |-> [frame |-> Last(rx_data).frame,
                             data |-> SubSeq(Frame, HeaderSize + 1, Len(Frame) - 1)]]
    <3>1. Last(rx_data).frame \in 1 .. MaxFrames
      <4>1. Last(rx_data) \in Symbol
        BY <2>2 DEF TypeOK, Last
      <4> QED BY <4>1 DEF Symbol
    <3>2. PICK n \in 1 .. MaxFrames : n = Last(rx_data).frame
      BY <3>1
    <3>3. event' \in Event
      BY <2>2, <3>2, DeliveredEvent DEF TypeOK
    <3>4. given' \in 0 .. MaxFrames
      BY <2>2, <3>1, Sizes
    <3> QED BY <3>3, <3>4
  <2> QED BY <2>1, <2>2, Gives
<1> QED BY <1>1, <1>2, <1>3, Keeps

LEMMA TypesHold == TypeOK /\ Held /\ [Next]_vars => TypeOK' /\ Held'
<1> SUFFICES ASSUME TypeOK, Held, [Next]_vars PROVE TypeOK' /\ Held'
  OBVIOUS
<1>1. ASSUME line # <<>>, line' = Tail(line), UNCHANGED <<pos, frames>>
      PROVE  /\ line' \in Seq(Symbol) /\ Head(line) \in Symbol
             /\ pos' \in Nat /\ (pos' # 0 => Number' # 0 /\ pos' <= Len(Current') + 1)
             /\ frames' \in Seq(Payloads) /\ Len(frames') <= MaxFrames
  BY <1>1 DEF TypeOK, Number, Current
<1>2. ASSUME Fault
      PROVE  faults' \in Seq(1 .. MaxFrames) /\ Len(faults') <= MaxFaults
  <2>1. Head(line).frame \in 1 .. MaxFrames
    <3>1. Head(line) \in Symbol
      BY <1>2 DEF Fault, TypeOK
    <3> QED BY <3>1 DEF Symbol
  <2> QED BY <1>2, <2>1, Sizes DEF Fault, TypeOK
<1>3. CASE Receive
  <2>1. Head(line) \in Symbol /\ Decodes(Head(line))
    BY <1>1, <1>3 DEF Receive
  <2> QED BY <1>1, <1>3, <2>1, DecodesType, Keeps DEF Receive, TypeOK
<1>4. CASE LoseByte
  BY <1>1, <1>2, <1>4 DEF LoseByte, Fault, TypeOK, Held, decoder
<1>5. CASE DamageByte
  <2>1. PICK b \in Byte : Decodes([Head(line) EXCEPT !.byte = b])
    BY <1>5 DEF DamageByte
  <2>2. [Head(line) EXCEPT !.byte = b] \in Symbol
    BY <1>1, <1>5 DEF DamageByte, Fault, Symbol
  <2> QED BY <1>1, <1>2, <1>5, <2>1, <2>2, DecodesType, Keeps DEF DamageByte, Fault, TypeOK
<1>6. CASE SendByte
  BY <1>6, SendByteType DEF Held, SendByte, Put, decoder
<1>7. CASE SendStop
  BY <1>7, SendStopType DEF Held, SendStop, Put, decoder
<1>8. ASSUME NEW p \in Payloads, Send(p)
      PROVE  TypeOK' /\ Held'
  BY <1>8, SendType DEF Held, Send, Put, decoder
<1>9. CASE UNCHANGED vars
  BY <1>9 DEF vars, decoder, TypeOK, Held, Number, Current
<1> QED BY <1>3, <1>4, <1>5, <1>6, <1>7, <1>8, <1>9 DEF Next

------------------------------------------------------------------------------
(* Where the frame is: not on the line, or before its TNC_DATA, or with its   *)
(* first c bytes received, or with one of an escaped byte's two received.     *)

At(b) == [byte |-> b, frame |-> Number]
Second(b) == IF b = FEND THEN TFEND ELSE TFESC

Idle == pos = 0 /\ line = <<>>
Opening == Number # 0 /\ pos = 1 /\ line = <<At(FEND), At(TNC_DATA)>>
Tagged == Number # 0 /\ pos = 1 /\ line = <<At(TNC_DATA)>>
Closing == Number # 0 /\ pos = 0 /\ line = <<At(FEND)>>

Between(c) ==
    /\ Number # 0 /\ c \in 0 .. Len(Current)
    /\ \/ pos = c + 1 /\ line = <<>>
       \/ /\ pos = c + 2 /\ Current[c + 1] \notin {FEND, FESC}
          /\ line = <<At(Current[c + 1])>>
       \/ /\ pos = c + 2 /\ Current[c + 1] \in {FEND, FESC}
          /\ line = <<At(FESC), At(Second(Current[c + 1]))>>

Inside(c) ==
    /\ Number # 0 /\ c \in 0 .. Len(Current) - 1
    /\ pos = c + 2 /\ Current[c + 1] \in {FEND, FESC}
    /\ line = <<At(Second(Current[c + 1]))>>

Upto(c) == Between(c) \/ (Closing /\ c = Len(Current))

Framing == \/ Idle \/ Opening \/ Tagged \/ Closing
           \/ \E c \in Nat : Between(c) \/ Inside(c)

LEMMA OneOrTwo ==
  ASSUME NEW x, NEW y, NEW z
  PROVE  <<x>> # <<y, z>>
<1>1. Len(<<x>>) = 1 /\ Len(<<y, z>>) = 2
  OBVIOUS
<1> QED BY <1>1

LEMMA ConsumedAll ==
  ASSUME NEW n \in Nat, line' = <<>>, pos' = n + 1, Number' # 0, n \in 0 .. Len(Current')
  PROVE  Between(n)' /\ (\A c : Between(c)' => c = n) /\ \A c : ~Inside(c)'
<1>1. Between(n)'
  BY DEF Between
<1>2. ASSUME NEW c, Between(c)'
      PROVE  c = n
  <2>1. c \in 0 .. Len(Current') /\ (pos' = c + 1 \/ line' # <<>>)
    BY <1>2 DEF Between
  <2> QED BY <2>1
<1>3. ASSUME NEW c, Inside(c)'
      PROVE  FALSE
  BY <1>3 DEF Inside
<1> QED BY <1>1, <1>2, <1>3

\* What is received is the next of the frame.
LEMMA Consumed ==
  ASSUME TypeOK, Framing, line # <<>>, line' = Tail(line), UNCHANGED <<pos, frames>>
  PROVE  /\ Number # 0 /\ Number' = Number /\ Current' = Current /\ Framing'
         /\ ~Opening' /\ ~Closing' /\ (Idle' => Closing) /\ (Tagged' => Opening)
         /\ Opening => Head(line) = At(FEND)
         /\ Tagged => Head(line) = At(TNC_DATA)
         /\ Closing => Head(line) = At(FEND)
         /\ \A c : Between(c)' =>
               \/ c = 0 /\ Tagged
               \/ /\ c \in 1 .. Len(Current) /\ Between(c - 1)
                  /\ Current[c] \notin {FEND, FESC} /\ Head(line) = At(Current[c])
               \/ /\ c \in 1 .. Len(Current) /\ Inside(c - 1)
                  /\ Current[c] \in {FEND, FESC} /\ Head(line) = At(Second(Current[c]))
         /\ \A c : Inside(c)' => /\ c \in 0 .. Len(Current) - 1 /\ Between(c)
                                 /\ Current[c + 1] \in {FEND, FESC} /\ Head(line) = At(FESC)
         /\ \A k \in DOMAIN line : line[k].frame = Number
<1>1. /\ Number' = Number /\ Current' = Current /\ pos' = pos /\ \A b : At(b)' = At(b)
  BY DEF Number, Current, At
<1>2. \A x : line = <<x>> => Head(line) = x /\ Tail(line) = <<>> /\ Len(line) = 1
  OBVIOUS
<1>3. \A x, y : line = <<x, y>> => Head(line) = x /\ Tail(line) = <<y>> /\ Len(line) = 2
  OBVIOUS
<1>4. \A b : At(b).frame = Number /\ At(b).byte = b
  BY DEF At
<1>5. Number # 0 => Len(Current) \in Nat /\ Len(Current) >= 4
  BY CurrentIs, Sizes
<1>6. CASE Opening
  <2>1. line' = <<At(TNC_DATA)>> /\ Head(line) = At(FEND) /\ pos = 1 /\ Number # 0
    BY <1>3, <1>6 DEF Opening
  <2>2. ~Tagged /\ ~Closing
    BY <1>2, <1>3, <1>6 DEF Opening, Tagged, Closing
  <2>a. Len(line') = 1 /\ pos' = 1
    BY <1>1, <1>2, <2>1
  <2>3. Tagged' /\ ~Idle' /\ ~Opening' /\ ~Closing'
    <3>1. Tagged'
      BY <1>1, <2>1, <2>a DEF Tagged
    <3>2. ~Idle' /\ ~Closing'
      BY <2>a DEF Idle, Closing
    <3>3. ~Opening'
      BY <2>1, OneOrTwo DEF Opening
    <3> QED BY <3>1, <3>2, <3>3
  <2>4. \A c : ~Between(c)' /\ ~Inside(c)'
    <3>1. ASSUME NEW c, c \in Nat
          PROVE  c + 2 # 1 /\ (c + 1 = 1 => line' # <<>>)
      BY <2>a, <3>1
    <3>2. ASSUME NEW c, Between(c)' \/ Inside(c)'
          PROVE  c \in Nat
      BY <1>1, <1>5, <2>1, <3>2 DEF Between, Inside
    <3> QED BY <2>a, <3>1, <3>2 DEF Between, Inside
  <2>5. \A k \in DOMAIN line : line[k].frame = Number
    BY <1>4, <1>6 DEF Opening
  <2> QED BY <1>1, <1>6, <2>1, <2>2, <2>3, <2>4, <2>5 DEF Framing
<1>7. CASE Tagged
  <2>1. line' = <<>> /\ Head(line) = At(TNC_DATA) /\ pos = 1 /\ Number # 0
    BY <1>2, <1>7 DEF Tagged
  <2>2. ~Opening /\ ~Closing
    BY <1>2, <1>3, <1>7 DEF Opening, Tagged, Closing
  <2>3. ~Tagged' /\ ~Idle' /\ ~Opening' /\ ~Closing'
    BY <1>1, <2>1 DEF Tagged, Idle, Opening, Closing
  <2>4. Between(0)' /\ \A c : Between(c)' => c = 0
    BY <1>1, <1>5, <2>1 DEF Between
  <2>5. \A c : ~Inside(c)'
    BY <1>1, <2>1 DEF Inside
  <2>6. \A k \in DOMAIN line : line[k].frame = Number
    BY <1>4, <1>7 DEF Tagged
  <2> QED BY <1>1, <1>7, <2>1, <2>2, <2>3, <2>4, <2>5, <2>6 DEF Framing
<1>8. CASE Closing
  <2>1. line' = <<>> /\ Head(line) = At(FEND) /\ pos = 0 /\ Number # 0
    BY <1>2, <1>8 DEF Closing
  <2>2. ~Opening /\ ~Tagged
    BY <2>1 DEF Opening, Tagged
  <2>3. Idle' /\ ~Tagged' /\ ~Opening' /\ ~Closing'
    BY <1>1, <2>1 DEF Tagged, Idle, Opening, Closing
  <2>4. \A c : ~Between(c)' /\ ~Inside(c)'
    BY <1>1, <1>5, <2>1 DEF Between, Inside
  <2>5. \A k \in DOMAIN line : line[k].frame = Number
    BY <1>4, <1>8 DEF Closing
  <2> QED BY <1>1, <1>8, <2>1, <2>2, <2>3, <2>4, <2>5 DEF Framing
<1>9. ASSUME NEW d \in Nat, Between(d)
      PROVE  /\ Number # 0 /\ Framing' /\ ~Opening' /\ ~Closing' /\ ~Idle' /\ ~Tagged'
             /\ ~Opening /\ ~Tagged /\ ~Closing
             /\ \A c : Between(c)' =>
                   /\ c \in 1 .. Len(Current) /\ Between(c - 1)
                   /\ Current[c] \notin {FEND, FESC} /\ Head(line) = At(Current[c])
             /\ \A c : Inside(c)' =>
                   /\ c \in 0 .. Len(Current) - 1 /\ Between(c)
                   /\ Current[c + 1] \in {FEND, FESC} /\ Head(line) = At(FESC)
             /\ \A k \in DOMAIN line : line[k].frame = Number
  <2>1. Number # 0 /\ d \in 0 .. Len(Current) /\ pos = d + 2 /\ d + 1 \in 1 .. Len(Current)
    BY <1>5, <1>9 DEF Between, TypeOK
  <2>2. CASE Current[d + 1] \notin {FEND, FESC} /\ line = <<At(Current[d + 1])>>
    <3>1. line' = <<>> /\ Head(line) = At(Current[d + 1]) /\ pos' = d + 2
      BY <1>1, <1>2, <2>1, <2>2
    <3>2. ~Opening /\ ~Tagged /\ ~Closing
      BY <2>1 DEF Opening, Tagged, Closing
    <3>3. ~Idle' /\ ~Tagged' /\ ~Opening' /\ ~Closing'
      BY <2>1, <3>1 DEF Tagged, Idle, Opening, Closing
    <3>4. Between(d + 1)' /\ \A c : Between(c)' => c = d + 1
      BY <1>1, <1>5, <2>1, <3>1, ConsumedAll
    <3>5. \A c : ~Inside(c)'
      BY <3>1 DEF Inside
    <3>6. \A k \in DOMAIN line : line[k].frame = Number
      BY <1>4, <2>2
    <3>7. Framing' /\ d + 1 - 1 = d
      BY <2>1, <3>4 DEF Framing
    <3> QED BY <1>9, <2>1, <2>2, <3>1, <3>2, <3>3, <3>4, <3>5, <3>6, <3>7
  <2>3. CASE Current[d + 1] \in {FEND, FESC} /\ line = <<At(FESC), At(Second(Current[d + 1]))>>
    <3>1. /\ line' = <<At(Second(Current[d + 1]))>> /\ Head(line) = At(FESC) /\ pos' = d + 2
          /\ line' # <<>>
      BY <1>1, <1>3, <2>1, <2>3
    <3>2. ~Opening /\ ~Tagged /\ ~Closing
      BY <2>1 DEF Opening, Tagged, Closing
    <3>3. ~Idle' /\ ~Tagged' /\ ~Opening' /\ ~Closing'
      BY <2>1, <3>1 DEF Tagged, Idle, Opening, Closing
    <3>4. Inside(d)'
      BY <1>1, <2>1, <2>3, <3>1 DEF Inside
    <3>5. \A c : Inside(c)' => c = d
      BY <1>1, <2>1, <3>1 DEF Inside
    <3>6. \A c : ~Between(c)'
      <4>1. ASSUME NEW c, Between(c)' PROVE FALSE
        <5>1. c \in Nat /\ c = d
          BY <1>1, <1>5, <2>1, <3>1, <4>1 DEF Between
        <5>2. pos' # c + 1
          <6>1. line' # <<>> /\ pos' = d + 2
            BY <3>1
          <6> QED BY <2>1, <5>1, <6>1
        <5>3. \E x, y : line' = <<x, y>>
          BY <1>1, <2>3, <4>1, <5>1, <5>2 DEF Between
        <5> QED BY <3>1, <5>3, OneOrTwo
      <4> QED BY <4>1
    <3>7. \A k \in DOMAIN line : line[k].frame = Number
      BY <1>4, <2>3
    <3>8. Framing'
      BY <2>1, <3>4 DEF Framing
    <3> QED BY <1>9, <2>1, <2>3, <3>1, <3>2, <3>3, <3>4, <3>5, <3>6, <3>7, <3>8
  <2> QED BY <1>9, <2>2, <2>3 DEF Between
<1>10. ASSUME NEW d \in Nat, Inside(d)
       PROVE  /\ Number # 0 /\ Framing' /\ ~Opening' /\ ~Closing' /\ ~Idle' /\ ~Tagged'
              /\ ~Opening /\ ~Tagged /\ ~Closing
              /\ \A c : Between(c)' =>
                    /\ c \in 1 .. Len(Current) /\ Inside(c - 1)
                    /\ Current[c] \in {FEND, FESC} /\ Head(line) = At(Second(Current[c]))
              /\ \A c : ~Inside(c)'
              /\ \A k \in DOMAIN line : line[k].frame = Number
  <2>1. /\ Number # 0 /\ pos = d + 2 /\ d + 1 \in 1 .. Len(Current)
        /\ Current[d + 1] \in {FEND, FESC}
        /\ line' = <<>> /\ Head(line) = At(Second(Current[d + 1])) /\ pos' = d + 2
    BY <1>1, <1>2, <1>5, <1>10 DEF Inside
  <2>2. ~Opening /\ ~Tagged /\ ~Closing
    BY <2>1 DEF Opening, Tagged, Closing
  <2>3. ~Idle' /\ ~Tagged' /\ ~Opening' /\ ~Closing'
    BY <2>1 DEF Tagged, Idle, Opening, Closing
  <2>4. Between(d + 1)' /\ \A c : Between(c)' => c = d + 1
    BY <1>1, <1>5, <2>1, ConsumedAll
  <2>5. \A c : ~Inside(c)'
    BY <1>1, <1>5, <2>1, ConsumedAll
  <2>6. \A k \in DOMAIN line : line[k].frame = Number
    BY <1>4, <1>10 DEF Inside
  <2>7. Framing' /\ d + 1 - 1 = d
    BY <2>1, <2>4 DEF Framing
  <2> QED BY <1>10, <2>1, <2>2, <2>3, <2>4, <2>5, <2>6, <2>7
<1> QED BY <1>1, <1>6, <1>7, <1>8, <1>9, <1>10 DEF Framing, Idle


\* What the transmitter puts on the line is the next of the frame.
LEMMA SendPhase ==
  ASSUME TypeOK, NEW p \in Payloads, Send(p)
  PROVE  /\ Idle /\ Framing' /\ Opening' /\ ~Idle' /\ ~Tagged' /\ ~Closing'
         /\ \A c : ~Between(c)' /\ ~Inside(c)'
<1>1. /\ Idle /\ Number' \in 1 .. MaxFrames /\ pos' = 1
      /\ line' = <<[byte |-> FEND, frame |-> Number'], [byte |-> TNC_DATA, frame |-> Number']>>
  BY SendType DEF Send, Put, Idle
<1>2. Opening' /\ Framing'
  BY <1>1 DEF Opening, Framing, At
<1>3. ~Idle' /\ ~Closing'
  BY <1>1 DEF Idle, Closing
<1>4. ~Tagged'
  BY <1>1, OneOrTwo DEF Tagged
<1>5. ASSUME NEW c, Between(c)' \/ Inside(c)'
      PROVE  FALSE
  <2>1. Number' # 0 => Len(Current') \in Nat
    BY SendType, CurrentIs DEF TypeOK, Current, Number
  <2>2. c \in Nat
    BY <1>5, <2>1 DEF Between, Inside
  <2>3. pos' = c + 1 /\ line' = <<>>
    BY <1>1, <1>5, <2>2 DEF Between, Inside
  <2> QED BY <1>1, <2>3
<1> QED BY <1>1, <1>2, <1>3, <1>4, <1>5

LEMMA PhaseOf ==
  ASSUME NEW c \in Nat, Between(c)', line' # <<>>, Len(Current)' \in Nat
  PROVE  /\ Framing' /\ ~Idle' /\ ~Opening' /\ ~Tagged' /\ ~Closing' /\ pos' = c + 2
         /\ \A e : Between(e)' => e = c
<1>1. pos' = c + 2
  BY DEF Between
<1>2. pos' # 0 /\ pos' # 1
  BY <1>1
<1>3. \A e : Between(e)' => e \in Nat /\ e + 2 = c + 2
  BY <1>1 DEF Between
<1> QED BY <1>1, <1>2, <1>3 DEF Framing, Idle, Opening, Tagged, Closing

LEMMA SendBytePhase ==
  ASSUME TypeOK, SendByte
  PROVE  /\ Number' = Number /\ Current' = Current /\ Framing'
         /\ ~Idle' /\ ~Opening' /\ ~Tagged' /\ ~Closing'
         /\ \A c : ~Inside(c)'
         /\ \A c : Between(c)' => Between(c)
<1>1. /\ Number # 0 /\ pos \in 1 .. Len(Current) /\ pos' = pos + 1 /\ line = <<>>
      /\ Len(line') = Len(Escaped(Current[pos])) /\ line' \in Seq(Symbol)
      /\ \A k \in 1 .. Len(line') : line'[k] = [byte |-> Escaped(Current[pos])[k], frame |-> Number]
  BY SendByteType DEF TypeOK, SendByte, Put
<1>2. /\ Number' = Number /\ Current' = Current /\ \A b : At(b)' = At(b)
      /\ Len(Current) \in Nat
  BY <1>1, CurrentIs, Sizes DEF SendByte, Number, Current, At
<1>3. PICK c \in Nat : c = pos - 1 /\ pos = c + 1 /\ pos' = c + 2 /\ c + 1 \in 1 .. Len(Current)
  BY <1>1, <1>2
<1>4. Between(c) /\ c \in 0 .. Len(Current) - 1
  BY <1>1, <1>2, <1>3 DEF Between
<1>5. CASE Current[c + 1] \notin {FEND, FESC}
  <2>1. Escaped(Current[c + 1]) = <<Current[c + 1]>>
    BY <1>5 DEF Escaped
  <2>2. line' = <<At(Current[c + 1])>>
    BY <1>1, <1>3, <2>1 DEF At
  <2>3. Between(c)'
    BY <1>1, <1>2, <1>3, <1>4, <1>5, <2>2 DEF Between
  <2>4. \A e : ~Inside(e)'
    <3>1. ASSUME NEW e, Inside(e)'
          PROVE  FALSE
      <4>1. e \in Nat /\ e + 2 = c + 2
        BY <1>2, <1>3, <3>1 DEF Inside
      <4>2. e = c
        BY <4>1
      <4> QED BY <1>2, <1>5, <3>1, <4>2 DEF Inside
    <3> QED BY <3>1
  <2>5. line' # <<>> /\ Len(Current)' \in Nat
    BY <1>2, <2>2
  <2>6. /\ Framing' /\ ~Idle' /\ ~Opening' /\ ~Tagged' /\ ~Closing'
        /\ \A e : Between(e)' => e = c
    BY <2>3, <2>5, PhaseOf
  <2> QED BY <1>2, <1>4, <2>4, <2>6
<1>6. CASE Current[c + 1] \in {FEND, FESC}
  <2>1. Escaped(Current[c + 1]) = <<FESC, Second(Current[c + 1])>>
    BY <1>6, Bytes DEF Escaped, Second
  <2>2. line' = <<At(FESC), At(Second(Current[c + 1]))>>
    <3>1. PICK e : e = Second(Current[c + 1])
      OBVIOUS
    <3>2. Len(line') = 2 /\ Escaped(Current[pos]) = <<FESC, e>>
      BY <1>1, <1>3, <2>1, <3>1
    <3>3. line'[1] = At(FESC) /\ line'[2] = At(e)
      BY <1>1, <3>2 DEF At
    <3> QED BY <1>1, <3>1, <3>2, <3>3
  <2>3. Between(c)'
    BY <1>1, <1>2, <1>3, <1>4, <1>6, <2>2 DEF Between, Second
  <2>4. \A e : ~Inside(e)'
    BY <2>2, OneOrTwo DEF Inside
  <2>5. line' # <<>> /\ Len(Current)' \in Nat
    BY <1>2, <2>2
  <2>6. /\ Framing' /\ ~Idle' /\ ~Opening' /\ ~Tagged' /\ ~Closing'
        /\ \A e : Between(e)' => e = c
    BY <2>3, <2>5, PhaseOf
  <2> QED BY <1>2, <1>4, <2>4, <2>6
<1> QED BY <1>5, <1>6

LEMMA SendStopPhase ==
  ASSUME TypeOK, SendStop
  PROVE  /\ Number' = Number /\ Current' = Current /\ Framing'
         /\ Closing' /\ ~Idle' /\ ~Opening' /\ ~Tagged'
         /\ \A c : ~Between(c)' /\ ~Inside(c)'
         /\ Between(Len(Current))
<1>1. /\ Number # 0 /\ pos = Len(Current) + 1 /\ pos' = 0 /\ line = <<>>
      /\ line' = <<[byte |-> FEND, frame |-> Number]>>
  BY SendStopType DEF SendStop, Put
<1>2. /\ Number' = Number /\ Current' = Current /\ \A b : At(b)' = At(b)
      /\ Len(Current) \in Nat
  BY <1>1, CurrentIs, Sizes DEF SendStop, Number, Current, At
<1>3. Closing' /\ Framing'
  BY <1>1, <1>2 DEF Closing, Framing, At
<1>4. ~Idle' /\ ~Opening' /\ ~Tagged'
  BY <1>1 DEF Idle, Opening, Tagged
<1>5. ASSUME NEW c, Between(c)' \/ Inside(c)'
      PROVE  FALSE
  <2>1. c \in Nat
    BY <1>2, <1>5 DEF Between, Inside
  <2> QED BY <1>1, <1>5, <2>1 DEF Between, Inside
<1>6. Between(Len(Current))
  BY <1>1, <1>2 DEF Between
<1> QED BY <1>2, <1>3, <1>4, <1>5, <1>6

LEMMA FramingHolds == TypeOK /\ Framing /\ [Next]_vars => Framing'
<1> SUFFICES ASSUME TypeOK, Framing, [Next]_vars PROVE Framing'
  OBVIOUS
<1>1. CASE line # <<>> /\ line' = Tail(line) /\ UNCHANGED <<pos, frames>>
  BY <1>1, Consumed
<1>2. CASE Receive \/ LoseByte \/ DamageByte
  BY <1>1, <1>2 DEF Receive, LoseByte, DamageByte, Fault
<1>3. ASSUME NEW p \in Payloads, Send(p)
      PROVE  Framing'
  BY <1>3, SendPhase
<1>4. CASE UNCHANGED vars
  BY <1>4 DEF vars, Framing, Idle, Opening, Tagged, Closing, Between, Inside, At, Number, Current
<1> QED BY <1>2, <1>3, <1>4, SendBytePhase, SendStopPhase DEF Next

------------------------------------------------------------------------------
(* Back in step.                                                              *)

Off == rx_mode = "NOT_STARTED"
Open == rx_mode = "STARTED" /\ rx_first = FALSE

\* What the next FEND leaves at the start of a frame.
InStep == Off \/ (rx_mode = "STARTED" /\ rx_first = TRUE /\ rx_data = <<>>)

\* In a frame without a fault so far the decoder is outside any, or stores what it gets:
\* the frame's end then puts it in step.
Settled ==
    ~Spoilt(Number) =>
        /\ Idle => InStep
        /\ Tagged => rx_mode # "ESCAPED"
        /\ \A c : Upto(c) => Off \/ (Open /\ (c > 0 => rx_data # <<>>))
        /\ \A c : Inside(c) => Off \/ (rx_mode = "ESCAPED" /\ rx_first = FALSE)

\* The first c bytes of the frame.
Begun(c) == [k \in 1 .. c |-> At(Current[k])]

\* In step when the frame starts, it has what was received of it.
Exact ==
    ~Spoilt(Number) /\ ~Spoilt(Number - 1) =>
        /\ Opening => InStep
        /\ Tagged => rx_mode = "STARTED" /\ rx_first = TRUE /\ rx_data = <<>>
        /\ \A c : Upto(c) => Open /\ rx_data = Begun(c)
        /\ \A c : Inside(c) => rx_mode = "ESCAPED" /\ rx_first = FALSE /\ rx_data = Begun(c)

LEMMA Symbols ==
  ASSUME TypeOK, line # <<>>
  PROVE  Head(line) \in Symbol /\ \A b \in Byte : [Head(line) EXCEPT !.byte = b] \in Symbol
<1>1. Head(line) \in Symbol
  BY DEF TypeOK
<1> QED BY <1>1 DEF Symbol

\* A fault is of the frame on the line.
LEMMA FaultStep ==
  ASSUME TypeOK, Framing, Fault
  PROVE  /\ line # <<>> /\ line' = Tail(line) /\ UNCHANGED <<pos, frames>>
         /\ Number' = Number /\ faults' = Append(faults, Number) /\ Spoilt(Number)'
         /\ Len(faults') = Len(faults) + 1
<1>1. line # <<>> /\ line' = Tail(line) /\ UNCHANGED <<pos, frames>>
  BY DEF Fault
<1>2. Number' = Number /\ Head(line).frame = Number /\ Number \in Nat
  BY <1>1, Consumed DEF TypeOK, Number
<1>3. faults' = Append(faults, Number)
  BY <1>2 DEF Fault
<1>4. Len(faults') = Len(faults) + 1 /\ Len(faults') \in DOMAIN faults'
      /\ faults'[Len(faults')] = Number
  BY <1>2, <1>3 DEF TypeOK
<1>5. Spoilt(Number)'
  BY <1>2, <1>4 DEF Spoilt, Range
<1> QED BY <1>1, <1>2, <1>3, <1>4, <1>5

\* A step that sends, loses, damages or receives; of the last, the byte and what follows.
LEMMA Steps ==
  ASSUME [Next]_vars
  PROVE  \/ Receive \/ (Fault /\ (LoseByte \/ DamageByte)) \/ SendByte \/ SendStop
         \/ (\E p \in Payloads : Send(p)) \/ UNCHANGED vars
BY DEF Next, LoseByte, DamageByte

LEMMA ReceiveStep ==
  ASSUME TypeOK, Framing, Receive
  PROVE  /\ line # <<>> /\ line' = Tail(line) /\ UNCHANGED <<pos, frames>> /\ faults' = faults
         /\ Head(line) \in Symbol /\ Decodes(Head(line))
         /\ Number' = Number /\ Current' = Current /\ \A n : Spoilt(n)' = Spoilt(n)
BY Symbols, Consumed DEF Receive, Spoilt

LEMMA Quiet ==
  ASSUME SendByte \/ SendStop
  PROVE  /\ UNCHANGED <<rx_mode, rx_first, rx_packet, rx_data, given, faults, frames>>
         /\ event' = Nothing
BY DEF SendByte, SendStop, Put, decoder

LEMMA SettledHolds ==
  ASSUME TypeOK, Framing, Settled, [Next]_vars
  PROVE  Settled'
<1>1. CASE Receive
  <2> SUFFICES ASSUME ~Spoilt(Number)
               PROVE  /\ Idle' => InStep'
                      /\ Tagged' => rx_mode' # "ESCAPED"
                      /\ \A c : Upto(c)' => Off' \/ (Open' /\ (c > 0 => rx_data' # <<>>))
                      /\ \A c : Inside(c)' =>
                            Off' \/ (rx_mode' = "ESCAPED" /\ rx_first' = FALSE)
    BY <1>1, ReceiveStep DEF Settled
  <2>b. PICK b \in Symbol : b = Head(line) /\ Decodes(b)
    BY <1>1, ReceiveStep
  <2>0. line # <<>> /\ line' = Tail(line) /\ UNCHANGED <<pos, frames>> /\ ~Closing'
    BY <1>1, ReceiveStep, Consumed
  <2>n. \A x : At(x).byte = x
    BY DEF At
  <2>1. ASSUME Idle' PROVE InStep'
    <3>1. Closing /\ b.byte = FEND
      BY <2>0, <2>1, <2>b, <2>n, Consumed
    <3>2. Len(Current) > 0
      BY <3>1, CurrentIs, Sizes DEF Closing
    <3>3. Off \/ (Open /\ rx_data # <<>>)
      BY <3>1, <3>2 DEF Settled, Upto
    <3> QED BY <2>b, <3>1, <3>3, OnFend DEF Off, Open, InStep
  <2>2. ASSUME Tagged' PROVE rx_mode' # "ESCAPED"
    <3>1. b.byte = FEND
      BY <2>0, <2>2, <2>b, <2>n, Consumed
    <3> QED BY <2>b, <3>1, OnFend
  <2>3. ASSUME NEW c, Upto(c)'
        PROVE  Off' \/ (Open' /\ (c > 0 => rx_data' # <<>>))
    <3>1. Between(c)'
      BY <2>0, <2>3 DEF Upto
    <3>2. CASE c = 0 /\ Tagged
      <4>1. b.byte \notin {FEND, FESC} /\ rx_mode # "ESCAPED"
        BY <2>0, <2>b, <2>n, <3>2, Bytes, Consumed DEF Settled
      <4>2. Off' \/ Open'
        BY <2>b, <4>1, OnOther DEF Off, Open
      <4>3. ~(c > 0)
        BY <3>2
      <4> QED BY <4>2, <4>3
    <3>3. CASE /\ c \in 1 .. Len(Current) /\ Between(c - 1)
               /\ Current[c] \notin {FEND, FESC} /\ Head(line) = At(Current[c])
      <4>1. Off \/ Open
        BY <3>3 DEF Settled, Upto
      <4>2. b.byte \notin {FEND, FESC}
        BY <2>b, <2>n, <3>3
      <4>3. \A x : Append(rx_data, x) # <<>>
        BY DEF TypeOK
      <4> QED BY <2>b, <4>1, <4>2, <4>3, OnOther DEF Off, Open
    <3>4. CASE /\ c \in 1 .. Len(Current) /\ Inside(c - 1)
               /\ Current[c] \in {FEND, FESC} /\ Head(line) = At(Second(Current[c]))
      <4>1. Off \/ (rx_mode = "ESCAPED" /\ rx_first = FALSE)
        BY <3>4 DEF Settled
      <4>2. b.byte \in {TFEND, TFESC} /\ b.byte \notin {FEND, FESC}
        BY <2>b, <2>n, <3>4, Bytes DEF Second
      <4>3. \A x : Append(rx_data, x) # <<>>
        BY DEF TypeOK
      <4> QED BY <2>b, <4>1, <4>2, <4>3, OnOther DEF Off, Open
    <3> QED BY <2>0, <3>1, <3>2, <3>3, <3>4, Consumed
  <2>4. ASSUME NEW c, Inside(c)'
        PROVE  Off' \/ (rx_mode' = "ESCAPED" /\ rx_first' = FALSE)
    <3>1. Between(c) /\ b.byte = FESC
      BY <2>0, <2>4, <2>b, <2>n, Consumed
    <3>2. Off \/ Open
      BY <3>1 DEF Settled, Upto
    <3> QED BY <2>b, <3>1, <3>2, OnFesc DEF Off, Open
  <2> QED BY <2>1, <2>2, <2>3, <2>4
<1>2. CASE Fault
  BY <1>2, FaultStep DEF Settled
<1>3. ASSUME NEW p \in Payloads, Send(p)
      PROVE  Settled'
  BY <1>3, SendPhase DEF Settled, Upto
<1>4. CASE SendByte
  BY <1>4, SendBytePhase, Quiet DEF Settled, Upto, Off, Open, Spoilt
<1>5. CASE SendStop
  BY <1>5, SendStopPhase, Quiet DEF Settled, Upto, Off, Open, Spoilt
<1>6. CASE UNCHANGED vars
  BY <1>6 DEF vars, decoder, Settled, Idle, Tagged, Upto, Between, Closing, Inside, Off, Open, InStep, At,
              Number, Current, Spoilt
<1> QED BY <1>1, <1>2, <1>3, <1>4, <1>5, <1>6, Steps


LEMMA BegunIs ==
  ASSUME TypeOK, Number # 0
  PROVE  /\ Begun(0) = <<>>
         /\ \A c \in 0 .. Len(Current) :
               Begun(c) \in Seq(Symbol) /\ Len(Begun(c)) = c /\ (c > 0 => Begun(c) # <<>>)
         /\ \A c \in 1 .. Len(Current) : Append(Begun(c - 1), At(Current[c])) = Begun(c)
<1>1. /\ Number \in 1 .. MaxFrames /\ Current \in Seq(Byte \cup Checksums)
      /\ Len(Current) \in Nat
  BY CurrentIs, Sizes
<1>2. PICK f : \A k \in 1 .. Len(Current) : f[k] = At(Current[k]) /\ f[k] \in Symbol
  <2>1. \A k \in 1 .. Len(Current) : At(Current[k]) \in Symbol
    BY <1>1 DEF At, Symbol
  <2>2. \A k \in 1 .. Len(Current) : Begun(Len(Current))[k] = At(Current[k])
    BY DEF Begun
  <2> QED BY <2>1, <2>2
<1>3. \A c \in 0 .. Len(Current) : Begun(c) = [k \in 1 .. c |-> f[k]]
  BY <1>1, <1>2 DEF Begun
<1>4. ASSUME NEW c \in 0 .. Len(Current)
      PROVE  Begun(c) \in Seq(Symbol) /\ Len(Begun(c)) = c /\ (c > 0 => Begun(c) # <<>>)
  <2>1. c \in Nat /\ \A k \in 1 .. c : f[k] \in Symbol
    BY <1>1, <1>2
  <2>2. Begun(c) \in Seq(Symbol) /\ Len(Begun(c)) = c
    BY <1>3, <2>1, IsASeq
  <2> QED BY <2>1, <2>2
<1>5. Begun(0) = <<>>
  BY <1>1, <1>4
<1>6. ASSUME NEW c \in 1 .. Len(Current)
      PROVE  Append(Begun(c - 1), At(Current[c])) = Begun(c)
  <2>1. PICK n \in Nat : /\ n = c - 1 /\ n \in 0 .. Len(Current) /\ c = n + 1
                         /\ n + 1 \in 0 .. Len(Current)
    BY <1>1
  <2>2. Begun(n) = [k \in 1 .. n |-> f[k]] /\ Begun(n + 1) = [k \in 1 .. n + 1 |-> f[k]]
    BY <1>3, <2>1
  <2>3. f[n + 1] = At(Current[c]) /\ Begun(n) \in Seq(Symbol) /\ Len(Begun(n)) = n
    BY <1>2, <1>4, <2>1
  <2>4. Append(Begun(n), f[n + 1]) = Begun(n + 1)
    BY <2>2, <2>3
  <2> QED BY <2>1, <2>3, <2>4
<1> QED BY <1>4, <1>5, <1>6

\* In the packet there is room for the frame.
LEMMA NotTooLong ==
  ASSUME TypeOK, Number # 0, NEW c \in 0 .. Len(Current) - 1, rx_data = Begun(c)
  PROVE  ~TooLong
<1>1. Len(Current) \in Nat /\ Len(Current) <= HeaderSize + DataSize
  BY CurrentIs, Sizes
<1>2. Len(rx_data) = c /\ c < HeaderSize + DataSize
  BY <1>1, BegunIs, Sizes
<1> QED BY <1>2, Sizes DEF TooLong

LEMMA ExactHolds ==
  ASSUME TypeOK, Framing, Settled, Exact, [Next]_vars
  PROVE  Exact'
<1>1. CASE Receive
  <2> SUFFICES ASSUME ~Spoilt(Number), ~Spoilt(Number - 1)
               PROVE  /\ Opening' => InStep'
                      /\ Tagged' => rx_mode' = "STARTED" /\ rx_first' = TRUE /\ rx_data' = <<>>
                      /\ \A c : Upto(c)' => Open' /\ rx_data' = Begun(c)'
                      /\ \A c : Inside(c)' => /\ rx_mode' = "ESCAPED" /\ rx_first' = FALSE
                                              /\ rx_data' = Begun(c)'
    BY <1>1, ReceiveStep DEF Exact
  <2>b. PICK b \in Symbol : b = Head(line) /\ Decodes(b)
    BY <1>1, ReceiveStep
  <2>0. /\ line # <<>> /\ line' = Tail(line) /\ UNCHANGED <<pos, frames>> /\ ~Closing' /\ ~Opening'
        /\ Number # 0 /\ Number' = Number /\ Current' = Current
    BY <1>1, ReceiveStep, Consumed
  <2>n. \A x : At(x).byte = x
    BY DEF At
  <2>c. \A c : Begun(c)' = Begun(c)
    BY <2>0 DEF Begun, At
  <2>e. <<>> = Begun(0) /\ 0 \in 0 .. Len(Current) - 1
    BY <2>0, BegunIs, CurrentIs, Sizes
  <2>2. ASSUME Tagged'
        PROVE  rx_mode' = "STARTED" /\ rx_first' = TRUE /\ rx_data' = <<>>
    <3>1. b.byte = FEND /\ InStep
      BY <2>0, <2>2, <2>b, <2>n, Consumed DEF Exact
    <3> QED BY <2>b, <3>1, OnFend DEF InStep, Off
  <2>3. ASSUME NEW c, Upto(c)'
        PROVE  Open' /\ rx_data' = Begun(c)'
    <3>1. Between(c)'
      BY <2>0, <2>3 DEF Upto
    <3>2. CASE c = 0 /\ Tagged
      <4>1. b.byte \notin {FEND, FESC}
        BY <2>0, <2>b, <2>n, <3>2, Bytes, Consumed
      <4>2. rx_mode = "STARTED" /\ rx_first = TRUE /\ rx_data = <<>>
        BY <3>2 DEF Exact
      <4>3. ~TooLong
        BY <2>0, <2>e, <4>2, NotTooLong
      <4>4. Open' /\ rx_data' = <<>>
        BY <2>b, <4>1, <4>2, <4>3, OnOther DEF Open
      <4> QED BY <2>c, <2>e, <3>2, <4>4
    <3>3. CASE /\ c \in 1 .. Len(Current) /\ Between(c - 1)
               /\ Current[c] \notin {FEND, FESC} /\ Head(line) = At(Current[c])
      <4>1. Open /\ rx_data = Begun(c - 1)
        BY <3>3 DEF Exact, Upto
      <4>2. b.byte \notin {FEND, FESC}
        BY <2>b, <2>n, <3>3
      <4>3. ~TooLong
        <5>1. Len(Current) \in Nat
          BY <2>0, CurrentIs, Sizes
        <5>2. c - 1 \in 0 .. Len(Current) - 1
          BY <3>3, <5>1
        <5> QED BY <2>0, <4>1, <5>2, NotTooLong
      <4>4. Open' /\ rx_data' = Append(Begun(c - 1), At(Current[c]))
        BY <2>b, <3>3, <4>1, <4>2, <4>3, OnOther DEF Open
      <4> QED BY <2>0, <2>c, <3>3, <4>4, BegunIs
    <3>4. CASE /\ c \in 1 .. Len(Current) /\ Inside(c - 1)
               /\ Current[c] \in {FEND, FESC} /\ Head(line) = At(Second(Current[c]))
      <4>1. rx_mode = "ESCAPED" /\ rx_first = FALSE /\ rx_data = Begun(c - 1)
        BY <3>4 DEF Exact
      <4>2. b.byte \notin {FEND, FESC} /\ b.byte = Second(Current[c])
        BY <2>b, <2>n, <3>4, Bytes DEF Second
      <4>3. ~TooLong
        <5>1. Len(Current) \in Nat
          BY <2>0, CurrentIs, Sizes
        <5>2. c - 1 \in 0 .. Len(Current) - 1
          BY <3>4, <5>1
        <5> QED BY <2>0, <4>1, <5>2, NotTooLong
      <4>4. /\ Open'
            /\ rx_data' = CASE b.byte = TFESC -> Append(rx_data, [b EXCEPT !.byte = FESC])
                            [] b.byte = TFEND -> Append(rx_data, [b EXCEPT !.byte = FEND])
                            [] OTHER          -> rx_data
        BY <2>b, <4>1, <4>2, <4>3, OnOther DEF Open
      <4>5. b = [byte |-> b.byte, frame |-> Number] /\ \A x : [b EXCEPT !.byte = x] = At(x)
        BY <2>b, <3>4 DEF At, Symbol
      <4>6. rx_data' = Append(Begun(c - 1), At(Current[c]))
        <5>1. CASE Current[c] = FEND
          BY <4>1, <4>2, <4>4, <4>5, <5>1, Bytes DEF Second
        <5>2. CASE Current[c] = FESC
          BY <4>1, <4>2, <4>4, <4>5, <5>2, Bytes DEF Second
        <5> QED BY <3>4, <5>1, <5>2
      <4> QED BY <2>0, <2>c, <3>4, <4>4, <4>6, BegunIs
    <3> QED BY <2>0, <3>1, <3>2, <3>3, <3>4, Consumed
  <2>4. ASSUME NEW c, Inside(c)'
        PROVE  rx_mode' = "ESCAPED" /\ rx_first' = FALSE /\ rx_data' = Begun(c)'
    <3>1. Between(c) /\ b.byte = FESC /\ c \in 0 .. Len(Current) - 1
      BY <2>0, <2>4, <2>b, <2>n, Consumed
    <3>2. Open /\ rx_data = Begun(c)
      BY <3>1 DEF Exact, Upto
    <3>3. ~TooLong
      BY <2>0, <3>1, <3>2, NotTooLong
    <3> QED BY <2>b, <2>c, <3>1, <3>2, <3>3, OnFesc DEF Open
  <2> QED BY <2>0, <2>2, <2>3, <2>4
<1>2. CASE Fault
  BY <1>2, FaultStep DEF Exact
<1>3. ASSUME NEW p \in Payloads, Send(p)
      PROVE  Exact'
  <2>1. Number \in Nat /\ Number' = Number + 1 /\ UNCHANGED <<decoder, faults>>
    BY <1>3, SendType DEF TypeOK, Number, Send, Put
  <2>2. ~Spoilt(Number - 1)' => InStep'
    <3>1. (Number - 1)' = Number
      BY <2>1
    <3>2. Spoilt(Number - 1)' = Spoilt(Number) /\ InStep' = InStep
      BY <2>1, <3>1 DEF Spoilt, InStep, Off, decoder
    <3> QED BY <1>3, <3>2, SendPhase DEF Settled
  <2> QED BY <1>3, <2>2, SendPhase DEF Exact, Upto
<1>4. CASE SendByte
  <2>1. \A c : Begun(c)' = Begun(c)
    BY <1>4, SendBytePhase DEF Begun, At
  <2> QED BY <1>4, <2>1, SendBytePhase, Quiet DEF Exact, Upto, Open, Spoilt
<1>5. CASE SendStop
  <2>1. \A c : Begun(c)' = Begun(c)
    BY <1>5, SendStopPhase DEF Begun, At
  <2> QED BY <1>5, <2>1, SendStopPhase, Quiet DEF Exact, Upto, Open, Spoilt
<1>6. CASE UNCHANGED vars
  BY <1>6 DEF vars, decoder, Exact, Idle, Opening, Tagged, Upto, Between, Closing, Inside, Off, Open,
              InStep, At, Begun, Number, Current, Spoilt
<1> QED BY <1>1, <1>2, <1>3, <1>4, <1>5, <1>6, Steps


\* What stands between the header and the checksum.
LEMMA Inner ==
  ASSUME NEW S, NEW f \in Seq(S), NEW p \in Seq(S), NEW n \in Nat,
         Len(f) = n + Len(p) + 1,
         \A k \in 1 .. Len(p) : f[n + k] = p[k]
  PROVE  SubSeq(f, n + 1, Len(f) - 1) = p
<1>1. PICK m \in Nat : m = Len(p) /\ Len(f) - 1 = n + m
  OBVIOUS
<1>2. /\ SubSeq(f, n + 1, n + m) \in Seq(S) /\ Len(SubSeq(f, n + 1, n + m)) = m
      /\ \A k \in 1 .. m : SubSeq(f, n + 1, n + m)[k] = f[n + k]
  <2>1. \A i \in n + 1 .. n + m : f[i] \in S
    BY <1>1
  <2>2. /\ SubSeq(f, n + 1, n + m) \in Seq(S)
        /\ Len(SubSeq(f, n + 1, n + m)) = IF n + 1 <= n + m THEN (n + m) - (n + 1) + 1 ELSE 0
        /\ \A i \in 1 .. (n + m) - (n + 1) + 1 : SubSeq(f, n + 1, n + m)[i] = f[n + 1 + i - 1]
    BY <1>1, <2>1, SubSeqProperties
  <2> QED BY <2>2
<1> QED BY <1>1, <1>2, SeqEqual

LEMMA WholeFrame ==
  ASSUME TypeOK, Number # 0, Fits(frames[Number]), rx_data = Begun(Len(Current))
  PROVE  /\ Accepted(Frame) /\ ~TooLong /\ rx_data # <<>>
         /\ Last(rx_data).frame = Number
         /\ SubSeq(Frame, HeaderSize + 1, Len(Frame) - 1) = frames[Number]
<1>1. PICK p \in Payloads : p = frames[Number] /\ Current = Framed(p) /\ Fits(p)
  BY CurrentIs DEF Current
<1>2. PICK m \in Nat : /\ m = Len(Current) /\ m > 0 /\ m < HeaderSize + DataSize
                       /\ m = HeaderSize + Len(p) + 1 /\ p \in Seq(Byte) /\ Len(p) \in Nat
                       /\ Current[m] = Crc(p) /\ Crc(p) \in Checksums
                       /\ \A k \in 1 .. Len(p) : Current[HeaderSize + k] = p[k]
  <2>1. p \in Seq(Byte) /\ Len(p) \in Nat /\ Crc(p) \in Checksums
    BY BodyIs
  <2>2. /\ Len(Current) = HeaderSize + Len(p) + 1 /\ Current[Len(Current)] = Crc(p)
        /\ \A k \in 1 .. Len(p) : Current[HeaderSize + k] = p[k]
    BY <1>1, FramedIs
  <2>3. Len(Current) < HeaderSize + DataSize
    BY <1>1 DEF Fits
  <2>4. Len(Current) \in Nat /\ Len(Current) > 0
    BY <2>1, <2>2, Sizes
  <2> QED BY <2>1, <2>2, <2>3, <2>4
<1>3. /\ rx_data \in Seq(Symbol) /\ Len(rx_data) = m /\ rx_data # <<>>
      /\ \A k \in 1 .. m : rx_data[k] = At(Current[k])
  <2>1. m \in 0 .. Len(Current)
    BY <1>2
  <2>2. Begun(m) \in Seq(Symbol) /\ Len(Begun(m)) = m
    BY <2>1, BegunIs
  <2>3. \A k \in 1 .. m : Begun(m)[k] = At(Current[k])
    BY DEF Begun
  <2> QED BY <1>2, <2>2, <2>3
<1>4. Last(rx_data).frame = Number
  <2>1. Last(rx_data) = At(Current[m])
    BY <1>2, <1>3 DEF Last
  <2> QED BY <2>1 DEF At
<1>5. PICK f \in Seq(Byte \cup Checksums) :
         f = Frame /\ Len(f) = m /\ \A k \in 1 .. m : f[k] = Current[k]
  <2>1. \A x : At(x).byte = x
    BY DEF At
  <2> QED BY <1>3, <2>1, FrameType
<1>6. f[m] = Crc(p) /\ \A k \in 1 .. Len(p) : f[HeaderSize + k] = p[k]
  <2>1. m \in 1 .. m
    BY <1>2
  <2>2. \A k \in 1 .. Len(p) : HeaderSize + k \in 1 .. m
    BY <1>2, Sizes
  <2> QED BY <1>2, <1>5, <2>1, <2>2
<1>7. SubSeq(f, HeaderSize + 1, m - 1) = p
  <2>1. p \in Seq(Byte \cup Checksums) /\ HeaderSize \in Nat
    BY <1>2, Sizes
  <2>2. Len(f) = HeaderSize + Len(p) + 1
    BY <1>2, <1>5
  <2>3. SubSeq(f, HeaderSize + 1, Len(f) - 1) = p
    BY <1>6, <2>1, <2>2, Inner
  <2> QED BY <1>5, <2>3
<1>8. Accepted(f)
  <2>1. HeaderSize + 1 <= m /\ m > HeaderSize
    BY <1>2, Sizes
  <2> QED BY <1>2, <1>5, <1>6, <1>7, <2>1 DEF Accepted, Verified
<1>9. ~TooLong
  BY <1>2, <1>3, Sizes DEF TooLong
<1> QED BY <1>1, <1>3, <1>4, <1>5, <1>7, <1>8, <1>9

LEMMA ResyncStep ==
  ASSUME TypeOK, Framing, Exact, Next, pos = 0, line # <<>>, UNCHANGED faults,
         Fits(frames[Number]), ~Spoilt(Number), ~Spoilt(Number - 1)
  PROVE  event' = [op |-> "deliver", what |-> Sent(Number)]
<1>1. Closing
  <2>1. \A c \in Nat : ~Between(c) /\ ~Inside(c)
    BY DEF Between, Inside
  <2> QED BY <2>1 DEF Framing, Idle, Opening, Tagged
<1>2. Receive
  <2>1. ~Fault
    <3>1. ASSUME Fault PROVE FALSE
      BY <3>1, FaultStep DEF TypeOK
    <3> QED BY <3>1
  <2> QED BY <2>1 DEF Next, LoseByte, DamageByte, Send, SendByte, SendStop, Put
<1>3. PICK b \in Symbol : b.byte = FEND /\ Decodes(b)
  <2>1. Head(line) = At(FEND)
    BY <1>1, <1>2, ReceiveStep, Consumed
  <2> QED BY <1>2, <2>1, ReceiveStep DEF At
<1>4. Number # 0 /\ Open /\ rx_data = Begun(Len(Current))
  BY <1>1 DEF Exact, Upto, Closing
<1>5. /\ Accepted(Frame) /\ ~TooLong /\ rx_data # <<>>
      /\ Last(rx_data).frame = Number
      /\ SubSeq(Frame, HeaderSize + 1, Len(Frame) - 1) = frames[Number]
  BY <1>4, WholeFrame
<1>6. Close(b)
  BY <1>3, <1>4, <1>5, Bytes DEF Decodes, Skip, Start, Escape, Reopen, SkipFirst, Store, Unescape,
     Refuse, Mode, Open
<1> QED BY <1>5, <1>6 DEF Close, Sent


------------------------------------------------------------------------------
(* What is in the packet, and of which frame.                                 *)

\* Of a frame that was sent; a checksum is that frame's, which is then over.
Sound(s) ==
    /\ s.frame <= Number
    /\ s.byte \in Checksums =>
          /\ s.byte = Crc(frames[s.frame])
          /\ s.frame = Number => Idle \/ Upto(Len(Current))

Seen == \A k \in DOMAIN rx_data : Sound(rx_data[k])

\* The packet being received has nothing of a frame that was given to the router.
Fresh == /\ ~Off => \A k \in DOMAIN rx_data : rx_data[k].frame > given
         /\ given <= Number /\ (~Idle => given < Number)

\* After one fault the packet lacks two bytes of the frame at most.
Missing(c, escaped) == /\ Len(rx_data) + 2 >= c
                       /\ escaped \/ rx_first => Len(rx_data) + 1 >= c
                       /\ escaped /\ rx_first => Len(rx_data) >= c

Lag == Len(faults) <= 1 /\ ~Off =>
          /\ \A c : Between(c) => Missing(c, rx_mode = "ESCAPED")
          /\ \A c : Inside(c) => Missing(c, FALSE)

\* So that it has a part of the header, and its checksum is not one of the whole packet.
Long == Len(faults) <= 1 /\ rx_data # <<>> /\ Last(rx_data).byte \in Checksums
           => Len(rx_data) > Len(frames[Last(rx_data).frame]) + 1

LEMMA ClosingEnds ==
  ASSUME TypeOK, line # <<>>, line' = Tail(line), UNCHANGED <<pos, frames>>,
         Idle \/ Upto(Len(Current))
  PROVE  Closing /\ Idle'
<1>1. ~Idle
  BY DEF Idle
<1>2. ASSUME Between(Len(Current)) PROVE FALSE
  <2>1. Number # 0 /\ pos = Len(Current) + 2
    BY <1>2 DEF Between
  <2>2. Len(Current) \in Nat /\ pos <= Len(Current) + 1
    BY <2>1, CurrentIs, Sizes DEF TypeOK
  <2> QED BY <2>1, <2>2
<1>3. Closing
  BY <1>1, <1>2 DEF Upto
<1>4. \A x : line = <<x>> => Tail(line) = <<>>
  OBVIOUS
<1> QED BY <1>3, <1>4 DEF Closing, Idle

LEMMA ChecksumComes ==
  ASSUME TypeOK, Framing, line # <<>>, line' = Tail(line), UNCHANGED <<pos, frames>>,
         Head(line).byte \in Checksums
  PROVE  /\ Between(Len(Current) - 1) /\ Between(Len(Current))'
         /\ Head(line).byte = Crc(frames[Number]) /\ Number # 0
         /\ Len(Current) = HeaderSize + Len(frames[Number]) + 1
<1>n. \A x : At(x).byte = x
  BY DEF At
<1>1. \A x \in Byte : Head(line) # At(x)
  BY <1>n, Bytes
<1>2. ~Opening /\ ~Tagged /\ ~Closing /\ \A x : Head(line) # At(Second(x))
  BY <1>1, Bytes, Consumed DEF Second
<1>3. ~Idle' /\ ~Opening' /\ ~Tagged' /\ ~Closing' /\ \A c : ~Inside(c)'
  BY <1>1, <1>2, Bytes, Consumed
<1>4. PICK c : Between(c)'
  BY <1>3, Consumed DEF Framing
<1>5. c \in 1 .. Len(Current) /\ Between(c - 1) /\ Head(line) = At(Current[c]) /\ Number # 0
  BY <1>2, <1>4, Consumed
<1>6. PICK p \in Payloads : p = frames[Number] /\ Current = Framed(p)
  BY <1>5, CurrentIs DEF Current
<1>7. c = Len(Current) /\ c = HeaderSize + Len(p) + 1 /\ Current[c] = Crc(p)
  BY <1>5, <1>6, <1>n, FramedIs
<1>8. Between(Len(Current))'
  BY <1>4, <1>7, Consumed
<1> QED BY <1>5, <1>6, <1>7, <1>8, <1>n

\* A byte received, as it was sent or damaged.
Comes(b) == /\ line # <<>> /\ line' = Tail(line) /\ UNCHANGED <<pos, frames>>
            /\ b \in Symbol /\ Decodes(b) /\ b.frame = Number
            /\ b = Head(line) \/ b.byte \in Byte

LEMMA ReceivedComes ==
  ASSUME TypeOK, Framing, Receive \/ DamageByte
  PROVE  \/ Receive /\ faults' = faults /\ Comes(Head(line))
         \/ Fault /\ \E b : Comes(b)
<1>1. CASE Receive
  <2>1. Head(line) \in Symbol /\ Head(line).frame = Number /\ Decodes(Head(line))
    BY <1>1, ReceiveStep, Consumed DEF TypeOK
  <2> QED BY <1>1, <2>1, ReceiveStep DEF Comes
<1>2. CASE DamageByte
  <2>1. PICK x \in Byte : Decodes([Head(line) EXCEPT !.byte = x])
    BY <1>2 DEF DamageByte
  <2>2. Fault /\ line # <<>> /\ line' = Tail(line) /\ UNCHANGED <<pos, frames>>
    BY <1>2 DEF DamageByte, Fault
  <2>3. Head(line).frame = Number
    BY <2>2, Consumed DEF TypeOK
  <2>4. PICK b \in Symbol : b = [Head(line) EXCEPT !.byte = x]
    BY <2>2, Symbols
  <2>5. b.byte = x /\ b.frame = Number
    BY <2>2, <2>3, <2>4, Symbols DEF Symbol
  <2> QED BY <2>1, <2>2, <2>4, <2>5 DEF Comes
<1> QED BY <1>1, <1>2

\* What a byte adds to the packet: of this frame, and a checksum only as it was sent.
LEMMA Added ==
  ASSUME TypeOK, NEW b, Comes(b), rx_data' # <<>>, rx_data' # rx_data
  PROVE  \E x \in Symbol :
            /\ rx_data' = Append(rx_data, x) /\ x.frame = Number /\ ~Off
            /\ x.byte \in Checksums =>
                  /\ x = Head(line) /\ rx_mode = "STARTED" /\ rx_first = FALSE
<1>1. b \in Symbol /\ Decodes(b) /\ b.frame = Number /\ (b = Head(line) \/ b.byte \in Byte)
  BY DEF Comes
<1>2. CASE rx_mode = "STARTED" /\ rx_first = FALSE /\ rx_data' = Append(rx_data, b)
  BY <1>1, <1>2, Bytes DEF Off
<1>3. ASSUME rx_mode = "ESCAPED", NEW e \in {FEND, FESC},
             rx_data' = Append(rx_data, [b EXCEPT !.byte = e])
      PROVE  \E x \in Symbol :
                /\ rx_data' = Append(rx_data, x) /\ x.frame = Number /\ ~Off
                /\ x.byte \notin Checksums
  <2>1. PICK x : x = [b EXCEPT !.byte = e]
    OBVIOUS
  <2>2. x \in Symbol /\ x.frame = Number /\ x.byte = e
    BY <1>1, <2>1, Bytes DEF Symbol
  <2> QED BY <1>3, <2>1, <2>2, Bytes DEF Off
<1> QED BY <1>1, <1>2, <1>3, Grows


LEMMA Items ==
  ASSUME TypeOK
  PROVE  /\ \A k \in DOMAIN rx_data : rx_data[k] \in Symbol /\ rx_data[k].frame \in 1 .. MaxFrames
         /\ rx_data # <<>> => /\ Last(rx_data) \in Symbol
                              /\ \E k \in DOMAIN rx_data : Last(rx_data) = rx_data[k]
         /\ Number \in Nat
<1>1. rx_data \in Seq(Symbol) /\ Number \in Nat
  BY DEF TypeOK, Number
<1>2. \A k \in DOMAIN rx_data : rx_data[k] \in Symbol
  BY <1>1
<1>3. \A s \in Symbol : s.frame \in 1 .. MaxFrames
  BY DEF Symbol
<1>4. rx_data # <<>> => /\ Last(rx_data) \in Symbol
                        /\ \E k \in DOMAIN rx_data : Last(rx_data) = rx_data[k]
  BY <1>1 DEF Last
<1> QED BY <1>1, <1>2, <1>3, <1>4

\* What is in the packet stays what it was.
LEMMA SoundStays ==
  ASSUME TypeOK, Framing, [Next]_vars, NEW s \in Symbol, Sound(s)
  PROVE  Sound(s)'
<1>0. Number \in Nat /\ s.frame \in 1 .. MaxFrames
  BY Items DEF Symbol
<1>1. CASE line # <<>> /\ line' = Tail(line) /\ UNCHANGED <<pos, frames>>
  <2>1. Number' = Number /\ Current' = Current
    BY <1>1, Consumed
  <2>2. Idle \/ Upto(Len(Current)) => Idle'
    BY <1>1, ClosingEnds
  <2> QED BY <1>1, <2>1, <2>2 DEF Sound
<1>2. ASSUME NEW p \in Payloads, Send(p)
      PROVE  Sound(s)'
  <2>1. Number' = Number + 1 /\ \A k \in 1 .. Number : frames'[k] = frames[k]
    BY <1>2, SendType
  <2>2. /\ s.frame <= Number /\ s.frame # Number' /\ s.frame <= Number'
        /\ frames'[s.frame] = frames[s.frame]
    BY <1>0, <2>1 DEF Sound
  <2> QED BY <2>1, <2>2 DEF Sound
<1>3. CASE SendByte
  <2>1. ~Idle /\ ~Closing /\ pos <= Len(Current) /\ line = <<>> /\ pos \in Nat
    BY <1>3 DEF SendByte, Put, Idle, Closing, TypeOK
  <2>2. ~Upto(Len(Current))
    <3>1. ASSUME Between(Len(Current)) PROVE FALSE
      <4>1. Len(Current) \in Nat /\ pos = Len(Current) + 1
        BY <2>1, <3>1, CurrentIs, Sizes DEF Between
      <4> QED BY <2>1, <4>1
    <3> QED BY <2>1, <3>1 DEF Upto
  <2>3. Number' = Number /\ frames' = frames
    BY <1>3, SendBytePhase, Quiet
  <2> QED BY <2>1, <2>2, <2>3 DEF Sound
<1>4. CASE SendStop
  <2>1. Number' = Number /\ frames' = frames /\ Closing' /\ Current' = Current
    BY <1>4, SendStopPhase, Quiet
  <2>2. Upto(Len(Current))'
    BY <2>1 DEF Upto
  <2> QED BY <2>1, <2>2 DEF Sound
<1>5. CASE UNCHANGED vars
  BY <1>5 DEF vars, decoder, Sound, Idle, Upto, Closing, Between, At, Number, Current
<1>6. Receive \/ Fault => line # <<>> /\ line' = Tail(line) /\ UNCHANGED <<pos, frames>>
  BY DEF Receive, Fault
<1> QED BY <1>1, <1>2, <1>3, <1>4, <1>5, <1>6, Steps

LEMMA NewIsSound ==
  ASSUME TypeOK, Framing, NEW b, Comes(b), NEW x \in Symbol, x.frame = Number,
         x.byte \in Checksums => x = Head(line)
  PROVE  Sound(x)'
<1>1. line # <<>> /\ line' = Tail(line) /\ UNCHANGED <<pos, frames>>
  BY DEF Comes
<1>2. Number' = Number /\ Current' = Current /\ Number \in Nat
  BY <1>1, Consumed DEF TypeOK, Number
<1>3. ASSUME x.byte \in Checksums
      PROVE  x.byte = Crc(frames[Number]) /\ Between(Len(Current))'
  BY <1>1, <1>3, ChecksumComes
<1> QED BY <1>1, <1>2, <1>3 DEF Sound, Upto

LEMMA SeenHolds ==
  ASSUME TypeOK, Framing, Seen, [Next]_vars
  PROVE  Seen'
<1>1. \A s \in Symbol : Sound(s) => Sound(s)'
  BY SoundStays
<1>2. CASE rx_data' \in {<<>>, rx_data}
  <2>1. ASSUME NEW k \in DOMAIN rx_data', NEW s, s = rx_data'[k]
        PROVE  Sound(s)'
    <3>1. rx_data' = rx_data /\ k \in DOMAIN rx_data /\ s = rx_data[k] /\ s \in Symbol
      BY <1>2, <2>1, Items
    <3>2. Sound(s)
      BY <3>1 DEF Seen
    <3> QED BY <1>1, <3>1, <3>2
  <2> QED BY <2>1 DEF Seen, Sound
<1>3. ASSUME rx_data' \notin {<<>>, rx_data}, NEW b, Comes(b)
      PROVE  Seen'
  <2>1. PICK x \in Symbol : /\ rx_data' = Append(rx_data, x) /\ x.frame = Number
                            /\ x.byte \in Checksums => x = Head(line)
    BY <1>3, Added
  <2>2. Sound(x)'
    BY <1>3, <2>1, NewIsSound
  <2>3. PICK n \in Nat : n = Len(rx_data) /\ DOMAIN rx_data = 1 .. n
    BY DEF TypeOK
  <2>4. /\ DOMAIN rx_data' = 1 .. n + 1 /\ rx_data'[n + 1] = x
        /\ \A k \in 1 .. n : rx_data'[k] = rx_data[k]
    BY <2>1, <2>3 DEF TypeOK
  <2>5. ASSUME NEW k \in DOMAIN rx_data', NEW s, s = rx_data'[k]
        PROVE  Sound(s)'
    <3>1. CASE k = n + 1
      BY <2>2, <2>4, <2>5, <3>1
    <3>2. CASE k # n + 1
      <4>1. k \in DOMAIN rx_data /\ s = rx_data[k] /\ s \in Symbol
        BY <2>3, <2>4, <2>5, <3>2, Items
      <4>2. Sound(s)
        BY <4>1 DEF Seen
      <4> QED BY <1>1, <4>1, <4>2
    <3> QED BY <3>1, <3>2
  <2> QED BY <2>5 DEF Seen, Sound
<1>4. rx_data' = rx_data \/ Receive \/ DamageByte
  <2>1. CASE LoseByte
    BY <2>1 DEF LoseByte, decoder
  <2>2. ASSUME NEW p \in Payloads, Send(p)
        PROVE  rx_data' = rx_data
    BY <2>2 DEF Send, Put, decoder
  <2> QED BY <2>1, <2>2, Steps, Quiet DEF vars, decoder
<1>5. Receive \/ DamageByte => \E b : Comes(b)
  BY ReceivedComes
<1> QED BY <1>2, <1>3, <1>4, <1>5

\* A packet that is not being received has bytes again only once it starts anew.
LEMMA OffStays ==
  ASSUME TypeOK, NEW b \in Symbol, Decodes(b), Off
  PROVE  Off' \/ rx_data' = <<>>
<1>1. CASE b.byte = FEND
  BY <1>1, OnFend DEF Off
<1>2. CASE b.byte = FESC
  BY <1>2, OnFesc DEF Off
<1>3. CASE b.byte \notin {FEND, FESC}
  BY <1>3, OnOther DEF Off
<1> QED BY <1>1, <1>2, <1>3

\* A frame is accepted by its last byte.
LEMMA AcceptedLast ==
  ASSUME TypeOK, rx_data # <<>>, Accepted(Frame)
  PROVE  Last(rx_data).byte \in Checksums
<1>1. PICK n \in Nat : n = Len(rx_data) /\ n \in 1 .. Len(rx_data)
  BY DEF TypeOK
<1>2. Len(Frame) = n /\ Frame[n] = rx_data[n].byte
  BY <1>1, FrameType DEF TypeOK
<1> QED BY <1>1, <1>2 DEF Accepted, Verified, Last

LEMMA FreshHolds ==
  ASSUME TypeOK, Framing, Seen, Fresh, [Next]_vars
  PROVE  Fresh'
<1>0. /\ Number \in Nat /\ given \in Nat
      /\ \A k \in DOMAIN rx_data : rx_data[k].frame \in Nat /\ rx_data[k].frame <= Number
  BY Items DEF TypeOK, Seen, Sound
<1>1. ASSUME NEW b, Comes(b)
      PROVE  Fresh'
  <2>0. /\ line # <<>> /\ line' = Tail(line) /\ UNCHANGED <<pos, frames>> /\ b \in Symbol
        /\ Decodes(b) /\ Number' = Number
    BY <1>1 DEF Comes, Number
  <2>1. ~Idle /\ given < Number
    BY <2>0 DEF Idle, Fresh
  <2>2. CASE event' = Nothing /\ given' = given
    <3>1. ASSUME ~Off'
          PROVE  \A k \in DOMAIN rx_data' : rx_data'[k].frame > given
      <4>1. CASE rx_data' = <<>>
        BY <4>1
      <4>2. CASE rx_data' = rx_data /\ rx_data' # <<>>
        BY <2>0, <3>1, <4>2, OffStays DEF Fresh
      <4>3. CASE rx_data' \notin {<<>>, rx_data}
        <5>1. PICK x \in Symbol : rx_data' = Append(rx_data, x) /\ x.frame = Number /\ ~Off
          BY <1>1, <4>3, Added
        <5>2. PICK n \in Nat : n = Len(rx_data) /\ DOMAIN rx_data = 1 .. n
          BY DEF TypeOK
        <5>3. /\ DOMAIN rx_data' = 1 .. n + 1 /\ rx_data'[n + 1] = x
              /\ \A k \in 1 .. n : rx_data'[k] = rx_data[k]
          BY <5>1, <5>2 DEF TypeOK
        <5> QED BY <2>1, <5>1, <5>2, <5>3 DEF Fresh
      <4> QED BY <4>1, <4>2, <4>3
    <3> QED BY <2>0, <2>1, <2>2, <3>1 DEF Fresh
  <2>3. CASE /\ rx_data # <<>> /\ Accepted(Frame) /\ rx_mode' = "NOT_STARTED"
             /\ given' = Last(rx_data).frame
    <3>1. Off'
      BY <2>3 DEF Off
    <3>2. PICK k \in DOMAIN rx_data : Last(rx_data) = rx_data[k]
      BY <2>3, Items
    <3>3. given' <= Number /\ given' \in Nat
      BY <1>0, <2>3, <3>2
    <3>4. given' = Number => Idle'
      <4>1. Last(rx_data).byte \in Checksums
        BY <2>3, AcceptedLast
      <4> QED BY <2>0, <2>3, <3>2, <4>1, ClosingEnds DEF Seen, Sound
    <3> QED BY <1>0, <2>0, <3>1, <3>3, <3>4 DEF Fresh
  <2> QED BY <2>0, <2>2, <2>3, Gives
<1>2. CASE LoseByte
  <2>1. ~Idle /\ Number' = Number
    BY <1>2 DEF LoseByte, Fault, Idle, Number
  <2> QED BY <1>2, <2>1 DEF LoseByte, decoder, Fresh, Off
<1>3. ASSUME NEW p \in Payloads, Send(p)
      PROVE  Fresh'
  <2>1. Number' = Number + 1 /\ UNCHANGED <<rx_mode, rx_data, given>>
    BY <1>3, SendType DEF Send, Put, decoder
  <2> QED BY <1>0, <2>1 DEF Fresh, Off
<1>4. CASE SendByte \/ SendStop
  <2>1. ~Idle /\ Number' = Number /\ UNCHANGED <<rx_mode, rx_data, given>>
    BY <1>4, Quiet DEF SendByte, SendStop, Idle, Number
  <2> QED BY <2>1 DEF Fresh, Off
<1>5. CASE UNCHANGED vars
  BY <1>5 DEF vars, decoder, Fresh, Off, Idle, Number
<1>6. Receive \/ DamageByte => \E b : Comes(b)
  BY ReceivedComes
<1> QED BY <1>1, <1>2, <1>3, <1>4, <1>5, <1>6, Steps


------------------------------------------------------------------------------
(* What one fault takes from the packet.                                      *)

\* Whatever comes to a decoder that is in a frame, it leaves it or keeps what it has.
LEMMA Slip ==
  ASSUME TypeOK, NEW b \in Symbol, Decodes(b), ~TooLong, ~Off, rx_first = FALSE
  PROVE  Off' \/ (rx_first' = FALSE /\ Len(rx_data') >= Len(rx_data))
<1>1. /\ Len(rx_data) >= Len(rx_data)
      /\ \A x \in Symbol : Len(Append(rx_data, x)) >= Len(rx_data)
  BY DEF TypeOK
<1>2. CASE b.byte = FEND
  BY <1>1, <1>2, OnFend DEF Off
<1>3. CASE b.byte = FESC
  BY <1>1, <1>3, OnFesc DEF Off
<1>4. CASE b.byte \notin {FEND, FESC}
  <2>1. /\ [b EXCEPT !.byte = FESC] \in Symbol
        /\ [b EXCEPT !.byte = FEND] \in Symbol
    BY Bytes DEF Symbol
  <2> QED BY <1>1, <1>4, <2>1, OnOther DEF Off
<1> QED BY <1>2, <1>3, <1>4

\* The byte after a FESC adds one, or nothing.
LEMMA EscapeEnds ==
  ASSUME TypeOK, NEW b \in Symbol, b.byte \notin {FEND, FESC}, Decodes(b),
         rx_mode = "ESCAPED", ~Off'
  PROVE  /\ rx_mode' = "STARTED" /\ rx_first' = rx_first /\ Len(rx_data') >= Len(rx_data)
         /\ b.byte \in {TFEND, TFESC} => Len(rx_data') = Len(rx_data) + 1
<1>1. PICK x \in Symbol, y \in Symbol : x = [b EXCEPT !.byte = FESC] /\ y = [b EXCEPT !.byte = FEND]
  BY Bytes DEF Symbol
<1>2. /\ rx_mode' = "STARTED" /\ rx_first' = rx_first
      /\ rx_data' = CASE b.byte = TFESC -> Append(rx_data, x)
                      [] b.byte = TFEND -> Append(rx_data, y)
                      [] OTHER          -> rx_data
  BY <1>1, OnOther DEF Off
<1>3. /\ rx_data' \in {Append(rx_data, x), Append(rx_data, y), rx_data}
      /\ b.byte \in {TFEND, TFESC} => rx_data' \in {Append(rx_data, x), Append(rx_data, y)}
  BY <1>2, Bytes
<1>4. /\ Len(Append(rx_data, x)) = Len(rx_data) + 1 /\ Len(Append(rx_data, y)) = Len(rx_data) + 1
      /\ Len(rx_data) \in Nat
  BY DEF TypeOK
<1> QED BY <1>2, <1>3, <1>4

LEMMA LagAfterFault ==
  ASSUME TypeOK, TypeOK', Framing, Exact, Fault, LoseByte \/ DamageByte, Len(faults') <= 1, ~Off'
  PROVE  /\ \A c : Between(c)' => Missing(c, rx_mode = "ESCAPED")'
         /\ \A c : Inside(c)' => Missing(c, FALSE)'
<1>0. /\ line # <<>> /\ line' = Tail(line) /\ UNCHANGED <<pos, frames>> /\ Number # 0
      /\ Len(Current) \in Nat /\ Len(rx_data') \in Nat
  <2>1. /\ line # <<>> /\ line' = Tail(line) /\ UNCHANGED <<pos, frames>> /\ Number # 0
    BY FaultStep, Consumed
  <2> QED BY <2>1, CurrentIs, Sizes DEF TypeOK
<1>1. ~Spoilt(Number) /\ ~Spoilt(Number - 1)
  <2>1. Len(faults) \in Nat /\ Len(faults) + 1 <= 1
    BY FaultStep DEF TypeOK
  <2>2. faults = <<>>
    BY <2>1 DEF TypeOK
  <2> QED BY <2>2 DEF Spoilt, Range
<1>2. ASSUME NEW c \in 0 .. Len(Current) - 1, rx_mode \in {"STARTED", "ESCAPED"}, rx_first = FALSE,
             rx_data = Begun(c)
      PROVE  rx_first' = FALSE /\ Len(rx_data') >= c
  <2>1. Len(rx_data) = c /\ c \in Nat /\ ~TooLong
    <3>1. c \in 0 .. Len(Current)
      BY <1>0
    <3> QED BY <1>0, <1>2, <3>1, BegunIs, NotTooLong
  <2>2. CASE LoseByte
    BY <1>2, <2>1, <2>2 DEF LoseByte, decoder
  <2>3. CASE DamageByte
    <3>1. PICK b \in Byte : Decodes([Head(line) EXCEPT !.byte = b])
      BY <2>3 DEF DamageByte
    <3>2. [Head(line) EXCEPT !.byte = b] \in Symbol
      BY <1>0, Symbols
    <3> QED BY <1>2, <2>1, <3>1, <3>2, Slip DEF Off
  <2> QED BY <2>2, <2>3
<1>3. ASSUME NEW c, Between(c)', c # 0
      PROVE  rx_first' = FALSE /\ Len(rx_data') >= c - 1 /\ c \in 1 .. Len(Current)
  <2>1. c \in 1 .. Len(Current) /\ (Between(c - 1) \/ Inside(c - 1))
    BY <1>0, <1>3, Consumed
  <2>2. c - 1 \in 0 .. Len(Current) - 1
    BY <1>0, <2>1
  <2>3. rx_mode \in {"STARTED", "ESCAPED"} /\ rx_first = FALSE /\ rx_data = Begun(c - 1)
    BY <1>1, <2>1 DEF Exact, Upto, Open
  <2> QED BY <1>2, <2>1, <2>2, <2>3
<1>4. ASSUME NEW c, Inside(c)'
      PROVE  rx_first' = FALSE /\ Len(rx_data') >= c /\ c \in 0 .. Len(Current) - 1
  <2>1. c \in 0 .. Len(Current) - 1 /\ Between(c)
    BY <1>0, <1>4, Consumed
  <2>2. rx_mode \in {"STARTED", "ESCAPED"} /\ rx_first = FALSE /\ rx_data = Begun(c)
    BY <1>1, <2>1 DEF Exact, Upto, Open
  <2> QED BY <1>2, <2>1, <2>2
<1>5. \A c : c = 0 \/ (rx_first' = FALSE /\ Len(rx_data') >= c - 1 /\ c \in 1 .. Len(Current))
               => Missing(c, rx_mode = "ESCAPED")'
  BY <1>0 DEF Missing
<1>6. \A c : rx_first' = FALSE /\ Len(rx_data') >= c /\ c \in 0 .. Len(Current) - 1
               => Missing(c, FALSE)'
  BY <1>0 DEF Missing
<1> QED BY <1>3, <1>4, <1>5, <1>6

LEMMA LagHolds ==
  ASSUME TypeOK, TypeOK', Framing, Exact, Lag, [Next]_vars
  PROVE  Lag'
<1>0. Len(rx_data) \in Nat /\ Len(rx_data') \in Nat /\ rx_first \in BOOLEAN /\ rx_first' \in BOOLEAN
  BY DEF TypeOK
<1>1. CASE Receive
  <2> SUFFICES ASSUME Len(faults) <= 1, ~Off'
               PROVE  /\ \A c : Between(c)' => Missing(c, rx_mode = "ESCAPED")'
                      /\ \A c : Inside(c)' => Missing(c, FALSE)'
    BY <1>1, ReceiveStep DEF Lag
  <2>b. PICK b \in Symbol : b = Head(line) /\ Decodes(b)
    BY <1>1, ReceiveStep
  <2>0. /\ line # <<>> /\ line' = Tail(line) /\ UNCHANGED <<pos, frames>>
        /\ Number # 0 /\ Len(Current) \in Nat
    BY <1>1, ReceiveStep, Consumed, CurrentIs, Sizes
  <2>n. \A x : At(x).byte = x
    BY DEF At
  <2>a. \A x \in Symbol : Len(Append(rx_data, x)) = Len(rx_data) + 1
    BY DEF TypeOK
  <2>3. ASSUME NEW c, Between(c)'
        PROVE  Missing(c, rx_mode = "ESCAPED")'
    <3>2. CASE c = 0 /\ Tagged
      BY <1>0, <3>2 DEF Missing
    <3>3. CASE /\ c \in 1 .. Len(Current) /\ Between(c - 1)
               /\ Current[c] \notin {FEND, FESC} /\ Head(line) = At(Current[c])
      <4>1. b.byte \notin {FEND, FESC}
        BY <2>b, <2>n, <3>3
      <4>2. ~Off => Missing(c - 1, rx_mode = "ESCAPED")
        BY <3>3 DEF Lag
      <4>3. \/ /\ rx_mode = "STARTED" /\ rx_first = TRUE
               /\ rx_mode' = "STARTED" /\ rx_first' = FALSE /\ Len(rx_data') = Len(rx_data)
            \/ /\ rx_mode = "STARTED" /\ rx_first = FALSE
               /\ rx_mode' = "STARTED" /\ rx_first' = FALSE /\ Len(rx_data') = Len(rx_data) + 1
            \/ /\ rx_mode = "ESCAPED" /\ rx_mode' = "STARTED" /\ rx_first' = rx_first
               /\ Len(rx_data') >= Len(rx_data)
        <5>1. CASE rx_mode = "ESCAPED"
          BY <2>b, <4>1, <5>1, EscapeEnds DEF Off
        <5>2. CASE rx_mode = "STARTED"
          BY <1>0, <2>a, <2>b, <4>1, <5>2, OnOther DEF Off
        <5>3. ~Off
          BY <2>b, <4>1, OnOther DEF Off
        <5> QED BY <5>1, <5>2, <5>3 DEF TypeOK, Off
      <4>4. c \in Nat
        BY <2>0, <3>3
      <4> QED BY <1>0, <4>2, <4>3, <4>4 DEF Off, Missing
    <3>4. CASE /\ c \in 1 .. Len(Current) /\ Inside(c - 1)
               /\ Current[c] \in {FEND, FESC} /\ Head(line) = At(Second(Current[c]))
      <4>1. b.byte \in {TFEND, TFESC} /\ b.byte \notin {FEND, FESC}
        BY <2>b, <2>n, <3>4, Bytes DEF Second
      <4>2. ~Off => Missing(c - 1, FALSE)
        BY <3>4 DEF Lag
      <4>3. \/ /\ rx_mode = "STARTED" /\ rx_first = TRUE
               /\ rx_mode' = "STARTED" /\ rx_first' = FALSE /\ Len(rx_data') = Len(rx_data)
            \/ /\ rx_mode = "STARTED" /\ rx_first = FALSE
               /\ rx_mode' = "STARTED" /\ rx_first' = FALSE /\ Len(rx_data') = Len(rx_data) + 1
            \/ /\ rx_mode = "ESCAPED" /\ rx_mode' = "STARTED" /\ rx_first' = rx_first
               /\ Len(rx_data') = Len(rx_data) + 1
        <5>1. CASE rx_mode = "ESCAPED"
          BY <2>b, <4>1, <5>1, EscapeEnds DEF Off
        <5>2. CASE rx_mode = "STARTED"
          BY <1>0, <2>a, <2>b, <4>1, <5>2, OnOther DEF Off
        <5>3. ~Off
          BY <2>b, <4>1, OnOther DEF Off
        <5> QED BY <5>1, <5>2, <5>3 DEF TypeOK, Off
      <4>4. c \in Nat
        BY <2>0, <3>4
      <4> QED BY <1>0, <4>2, <4>3, <4>4 DEF Off, Missing
    <3> QED BY <2>0, <2>3, <3>2, <3>3, <3>4, Consumed
  <2>4. ASSUME NEW c, Inside(c)'
        PROVE  Missing(c, FALSE)'
    <3>1. Between(c) /\ b.byte = FESC /\ c \in Nat
      BY <2>0, <2>4, <2>b, <2>n, Consumed
    <3>2. ~Off /\ rx_first' = rx_first /\ rx_data' = rx_data
      BY <2>b, <3>1, OnFesc DEF Off
    <3>3. Missing(c, rx_mode = "ESCAPED")
      BY <3>1, <3>2 DEF Lag
    <3> QED BY <1>0, <3>1, <3>2, <3>3 DEF Missing
  <2> QED BY <2>3, <2>4
<1>2. CASE Fault /\ (LoseByte \/ DamageByte)
  <2> SUFFICES ASSUME Len(faults') <= 1, ~Off'
               PROVE  /\ \A c : Between(c)' => Missing(c, rx_mode = "ESCAPED")'
                      /\ \A c : Inside(c)' => Missing(c, FALSE)'
    BY DEF Lag
  <2> QED BY <1>2, LagAfterFault
<1>3. ASSUME NEW p \in Payloads, Send(p)
      PROVE  Lag'
  BY <1>3, SendPhase DEF Lag
<1>4. CASE SendByte
  BY <1>4, SendBytePhase, Quiet DEF Lag, Off, Missing
<1>5. CASE SendStop
  BY <1>5, SendStopPhase, Quiet DEF Lag, Off, Missing
<1>6. CASE UNCHANGED vars
  BY <1>6 DEF vars, decoder, Lag, Missing, Between, Inside, Off, At, Number, Current
<1> QED BY <1>1, <1>2, <1>3, <1>4, <1>5, <1>6, Steps


LEMMA LongHolds ==
  ASSUME TypeOK, Framing, Seen, Lag, Long, [Next]_vars
  PROVE  Long'
<1>0. Number \in Nat /\ Len(rx_data) \in Nat
  BY Items DEF TypeOK
<1>1. \A k \in 1 .. Number : frames'[k] = frames[k]
  <2>1. ASSUME NEW p \in Payloads, Send(p)
        PROVE  \A k \in 1 .. Number : frames'[k] = frames[k]
    BY <2>1, SendType
  <2>2. CASE frames' = frames
    BY <2>2
  <2>3. frames' = frames \/ \E p \in Payloads : Send(p)
    BY Steps, Quiet DEF Receive, Fault, vars
  <2> QED BY <2>1, <2>2, <2>3
<1>2. Len(faults') <= 1 => Len(faults) <= 1
  <2>1. CASE Fault
    BY <2>1, FaultStep DEF TypeOK
  <2>2. ~Fault => faults' = faults
    BY Steps, Quiet DEF Receive, Send, Put, vars
  <2> QED BY <2>1, <2>2
<1>3. CASE rx_data' \in {<<>>, rx_data}
  <2>1. rx_data # <<>> => Last(rx_data).frame \in 1 .. Number
    BY <1>0, Items DEF Seen, Sound
  <2>2. ASSUME rx_data' = rx_data
        PROVE  Last(rx_data)' = Last(rx_data)
    BY <2>2 DEF Last
  <2> QED BY <1>1, <1>2, <1>3, <2>1, <2>2 DEF Long
<1>4. ASSUME rx_data' \notin {<<>>, rx_data}, NEW b, Comes(b)
      PROVE  Long'
  <2>1. PICK x \in Symbol : /\ rx_data' = Append(rx_data, x) /\ x.frame = Number /\ ~Off
                            /\ x.byte \in Checksums =>
                                  x = Head(line) /\ rx_mode = "STARTED" /\ rx_first = FALSE
    BY <1>4, Added
  <2>2. Last(rx_data)' = x /\ Len(rx_data') = Len(rx_data) + 1
    BY <2>1 DEF TypeOK, Last
  <2>3. ASSUME x.byte \in Checksums, Len(faults) <= 1
        PROVE  Len(rx_data') > Len(frames'[Number]) + 1
    <3>1. /\ Between(Len(Current) - 1) /\ Number # 0
          /\ Len(Current) = HeaderSize + Len(frames[Number]) + 1
      BY <1>4, <2>1, <2>3, ChecksumComes DEF Comes
    <3>2. Len(rx_data) + 2 >= Len(Current) - 1
      BY <2>1, <2>3, <3>1 DEF Lag, Missing
    <3>3. PICK n \in Nat : n = Len(frames[Number]) /\ frames'[Number] = frames[Number]
      BY <1>0, <1>1, <3>1, CurrentIs, BodyIs
    <3>4. Len(rx_data) + 2 >= HeaderSize + n
      BY <3>1, <3>2, <3>3, Sizes
    <3> QED BY <1>0, <2>2, <3>3, <3>4, Sizes
  <2> QED BY <1>2, <2>1, <2>2, <2>3 DEF Long
<1>5. rx_data' = rx_data \/ Receive \/ DamageByte
  <2>1. CASE LoseByte
    BY <2>1 DEF LoseByte, decoder
  <2>2. ASSUME NEW p \in Payloads, Send(p)
        PROVE  rx_data' = rx_data
    BY <2>2 DEF Send, Put, decoder
  <2> QED BY <2>1, <2>2, Steps, Quiet DEF vars, decoder
<1>6. Receive \/ DamageByte => \E b : Comes(b)
  BY ReceivedComes
<1> QED BY <1>3, <1>4, <1>5, <1>6

------------------------------------------------------------------------------
(* The invariant, and what follows from it.                                   *)

\* TypeOK needs Held, for what is written is then counted by TooLong.  Settled and
\* Exact follow the frame on the line, Seen and Fresh what is in the packet.
KissInv == /\ TypeOK /\ Held /\ Framing /\ Settled /\ Exact
           /\ Seen /\ Fresh /\ Lag /\ Long

LEMMA InitKiss == Init => KissInv
<1> SUFFICES ASSUME Init PROVE KissInv
  OBVIOUS
<1>1. /\ pos = 0 /\ line = <<>> /\ rx_mode = "NOT_STARTED" /\ rx_first = FALSE /\ rx_packet = FALSE
      /\ rx_data = <<>> /\ event = Nothing /\ frames = <<>> /\ given = 0 /\ faults = <<>>
      /\ Number = 0
  BY DEF Init, Number
<1>2. TypeOK /\ Held
  <2>1. \A S : <<>> \in Seq(S)
    OBVIOUS
  <2>2. Len(<<>>) = 0 /\ 0 <= HeaderSize + DataSize /\ 0 <= MaxFrames /\ 0 <= MaxFaults
    BY Sizes
  <2>3. Len(rx_data) = 0 /\ Len(frames) = 0 /\ Len(faults) = 0
    BY <1>1
  <2>4. line \in Seq(Symbol) /\ rx_data \in Seq(Symbol) /\ frames \in Seq(Payloads)
    BY <1>1, <2>1
  <2>5. faults \in Seq(1 .. MaxFrames) /\ given \in 0 .. MaxFrames
    BY <1>1, <2>1, Sizes
  <2> QED BY <1>1, <2>2, <2>3, <2>4, <2>5 DEF TypeOK, Held
<1>3. Off /\ Idle /\ Framing /\ ~Opening /\ ~Tagged /\ \A c : ~Upto(c) /\ ~Between(c) /\ ~Inside(c)
  BY <1>1 DEF Off, Idle, Framing, Opening, Tagged, Upto, Between, Inside, Closing
<1> QED BY <1>1, <1>2, <1>3 DEF KissInv, Settled, Exact, InStep, Seen, Fresh, Lag, Long

LEMMA NextKiss == KissInv /\ [Next]_vars => KissInv'
<1> SUFFICES ASSUME KissInv, [Next]_vars PROVE KissInv'
  OBVIOUS
<1>1. TypeOK /\ Held /\ Framing /\ Settled /\ Exact /\ Seen /\ Fresh /\ Lag /\ Long
  BY DEF KissInv
<1>2. TypeOK' /\ Held' /\ Framing'
  BY <1>1, TypesHold, FramingHolds
<1>3. Settled' /\ Exact' /\ Seen' /\ Fresh'
  BY <1>1, SettledHolds, ExactHolds, SeenHolds, FreshHolds
<1>4. Lag' /\ Long'
  BY <1>1, <1>2, LagHolds, LongHolds
<1> QED BY <1>2, <1>3, <1>4 DEF KissInv

LEMMA KissInvHolds == Spec => []KissInv
BY InitKiss, NextKiss, PTL DEF Spec

\* The types, and that csp_kiss_rx writes no byte past the end of packet->data, whatever
\* comes over the line.
THEOREM KissTypeCorrect == Spec => []TypeOK
BY KissInvHolds, PTL DEF KissInv

\* The decoder is in a frame only while it holds a packet: after csp_qfifo_write it takes
\* a new one before it writes.
THEOREM DecoderHoldsPacket == Spec => []Held
BY KissInvHolds, PTL DEF KissInv

\* After one frame without a fault, whatever came before, the next without a fault, and
\* below the largest size, is given to the router as its last byte comes.
THEOREM DecoderResynchronises == Spec => Resync
<1>1. KissInv /\ [Next]_vars =>
         [pos = 0 /\ line # <<>> /\ UNCHANGED faults
          /\ Fits(frames[Number]) /\ ~Spoilt(Number) /\ ~Spoilt(Number - 1)
          => event' = [op |-> "deliver", what |-> Sent(Number)]]_vars
  BY ResyncStep DEF KissInv
<1> QED BY <1>1, KissInvHolds, PTL DEF Spec, Resync


------------------------------------------------------------------------------
(* The line.                                                                  *)

LEMMA Pending ==
  ASSUME TypeOK, given <= Number
  PROVE  /\ Number \in Nat /\ given \in Nat
         /\ Undelivered \in Seq(Packet) /\ Len(Undelivered) = Number - given
         /\ \A k \in 1 .. Number - given : Undelivered[k] = Sent(given + k)
<1>1. Number \in Nat /\ given \in Nat /\ frames \in Seq(Payloads) /\ Number <= MaxFrames
  BY Sizes DEF TypeOK, Number
<1>2. PICK n \in Nat : n = Number - given
  BY <1>1
<1>3. ASSUME NEW k \in 1 .. n
      PROVE  Sent(given + k) \in Packet
  <2>1. given + k \in 1 .. Number /\ given + k \in 1 .. MaxFrames
    BY <1>1, <1>2, Sizes
  <2>2. frames[given + k] \in Payloads
    BY <1>1, <2>1 DEF Number
  <2> QED BY <2>1, <2>2 DEF Sent, Packet
<1>4. Undelivered = [k \in 1 .. n |-> Sent(given + k)]
  BY <1>2 DEF Undelivered
<1>5. Undelivered \in Seq(Packet) /\ Len(Undelivered) = n
  BY <1>3, <1>4, IsASeq
<1> QED BY <1>1, <1>2, <1>4, <1>5

\* A frame is taken.
LEMMA LineSend ==
  ASSUME KissInv, KissInv', NEW p \in Payloads, Send(p)
  PROVE  Serial!Send(Sent(Number)') /\ Sent(Number)' \in Packet
<1>1. /\ TypeOK /\ TypeOK' /\ given <= Number /\ (given <= Number)'
  BY DEF KissInv, Fresh
<1>2. /\ Number' = Number + 1 /\ Number' \in 1 .. MaxFrames /\ event' \in Event /\ given' = given
      /\ frames'[Number'] = p /\ \A k \in 1 .. Number : frames'[k] = frames[k]
      /\ event' = [op |-> "send", what |-> [frame |-> Number', data |-> p]]
  BY <1>1, SendType DEF Send, Put
<1>3. PICK m \in Packet : m = [frame |-> Number', data |-> p] /\ m = Sent(Number)'
  BY <1>2 DEF Packet, Sent
<1>4. Shown' = [op |-> "send", what |-> m]
  <2>1. event' # Nothing /\ event' = [op |-> "send", what |-> m]
    BY <1>2, <1>3, EventAssumption
  <2>2. Origin(m)' = m
    <3>1. m.frame = Number' /\ Sent(m.frame)' = m
      BY <1>2, <1>3 DEF Sent
    <3> QED BY <3>1 DEF Origin
  <2> QED BY <2>1, <2>2 DEF Shown
<1>5. Undelivered' = Append(Undelivered, m)
  <2>1. PICK n \in Nat, g \in Nat : n = Number - given /\ g = given /\ g + n = Number
    BY <1>1, Pending
  <2>2. /\ Undelivered \in Seq(Packet) /\ Len(Undelivered) = n
        /\ \A k \in 1 .. n : Undelivered[k] = Sent(g + k)
    BY <1>1, <2>1, Pending
  <2>3. /\ Undelivered' \in Seq(Packet) /\ Len(Undelivered') = n + 1
        /\ \A k \in 1 .. n + 1 : Undelivered'[k] = Sent(g + k)'
    <3>1. given' = g /\ Number' - given' = n + 1 /\ Number' = g + n + 1
      BY <1>2, <2>1
    <3>2. Undelivered' = [k \in 1 .. n + 1 |-> Sent(g + k)']
      BY <3>1 DEF Undelivered, Sent
    <3>3. ASSUME NEW k \in 1 .. n + 1
          PROVE  Sent(g + k)' \in Packet
      <4>1. g + k \in 1 .. Number' /\ Number' <= MaxFrames /\ g + k \in 1 .. MaxFrames
        BY <1>2, <3>1, Sizes
      <4>2. frames' \in Seq(Payloads) /\ Number' = Len(frames')
        BY <1>1 DEF TypeOK, Number
      <4>3. frames'[g + k] \in Payloads
        BY <4>1, <4>2
      <4> QED BY <4>1, <4>3 DEF Sent, Packet
    <3>4. Undelivered' \in Seq(Packet) /\ Len(Undelivered') = n + 1
      BY <3>2, <3>3, IsASeq
    <3> QED BY <3>2, <3>4
  <2>4. \A k \in 1 .. n : Undelivered'[k] = Undelivered[k]
    <3>1. ASSUME NEW k \in 1 .. n
          PROVE  Sent(g + k)' = Sent(g + k) /\ k \in 1 .. n + 1
      <4>1. g + k \in 1 .. Number
        BY <2>1
      <4> QED BY <1>2, <4>1 DEF Sent
    <3> QED BY <2>2, <2>3, <3>1
  <2>5. Undelivered'[n + 1] = m
    <3>1. g + (n + 1) = Number'
      BY <1>2, <2>1
    <3> QED BY <1>3, <2>3, <3>1 DEF Sent
  <2> QED BY <2>2, <2>3, <2>4, <2>5, SeqEqual
<1> QED BY <1>3, <1>4, <1>5 DEF Serial!Send

\* A packet is given to the router: it was sent, and after the last that was given.
LEMMA GivenWasSent ==
  ASSUME KissInv, KissInv', frames' = frames, Len(faults') >= Len(faults),
         ~Off, rx_data # <<>>, Accepted(Frame), NEW n, n = Last(rx_data).frame,
         event' = [op |-> "deliver",
                   what |-> [frame |-> n, data |-> SubSeq(Frame, HeaderSize + 1, Len(Frame) - 1)]]
  PROVE  n \in given + 1 .. Number /\ Shown' = [op |-> "deliver", what |-> Sent(n)]
<1>1. TypeOK /\ TypeOK' /\ Seen /\ Fresh /\ Long /\ Number \in Nat /\ given \in Nat
  BY Items DEF KissInv, TypeOK
<1>2. PICK k \in DOMAIN rx_data : Last(rx_data) = rx_data[k] /\ rx_data[k].frame \in 1 .. MaxFrames
  BY <1>1, Items
<1>3. n \in given + 1 .. Number /\ n \in 1 .. Number
  BY <1>1, <1>2 DEF Seen, Sound, Fresh
<1>4. Last(rx_data).byte \in Checksums /\ Last(rx_data).byte = Crc(frames[n])
  BY <1>1, <1>2, AcceptedLast DEF Seen, Sound
<1>5. PICK f \in Seq(Byte \cup Checksums), m \in Nat :
         /\ f = Frame /\ Len(f) = m /\ m = Len(rx_data) /\ m > HeaderSize /\ f[m] = Crc(frames[n])
  <2>1. Frame \in Seq(Byte \cup Checksums) /\ Len(Frame) = Len(rx_data)
    BY <1>1, FrameType DEF TypeOK
  <2>2. Frame[Len(rx_data)] = Last(rx_data).byte
    <3>1. Len(rx_data) \in 1 .. Len(rx_data)
      BY <1>1 DEF TypeOK
    <3> QED BY <1>1, <3>1, FrameType DEF TypeOK, Last
  <2>3. Len(Frame) > HeaderSize /\ Len(Frame) \in Nat
    BY <2>1 DEF Accepted
  <2> QED BY <1>4, <2>1, <2>2, <2>3
<1>6. PICK first \in {1, HeaderSize + 1} : frames[n] = SubSeq(f, first, m - 1)
  <2>1. PICK first \in {1, HeaderSize + 1} : f[m] = Crc(SubSeq(f, first, m - 1))
    BY <1>5 DEF Accepted, Verified
  <2> QED BY <1>5, <2>1 DEF Crc
<1>7. event' # Nothing
  BY <1>1, <1>2, DeliveredEvent, EventAssumption DEF TypeOK
<1>8. PICK p : p = [frame |-> n, data |-> SubSeq(f, HeaderSize + 1, m - 1)]
  OBVIOUS
<1>9. Sent(n)' = Sent(n)
  BY DEF Sent
<1>10. Origin(p)' = Sent(n)
  <2>1. CASE first = HeaderSize + 1
    <3>1. p = Sent(n) /\ p.frame = n
      BY <1>6, <1>8, <2>1 DEF Sent
    <3> QED BY <1>9, <3>1 DEF Origin
  <2>2. CASE first = 1
    <3>0. PICK h \in Nat : h = HeaderSize /\ h < m /\ m - 1 \in Nat
      BY <1>5, Sizes
    <3>1. /\ frames[n] \in Seq(Byte \cup Checksums) /\ Len(frames[n]) = m - 1
          /\ \A i \in 1 .. m - 1 : frames[n][i] = f[i]
      <4>1. \A i \in 1 .. m - 1 : f[i] \in Byte \cup Checksums
        BY <1>5
      <4>2. /\ SubSeq(f, 1, m - 1) \in Seq(Byte \cup Checksums)
            /\ Len(SubSeq(f, 1, m - 1)) = IF 1 <= m - 1 THEN (m - 1) - 1 + 1 ELSE 0
            /\ \A i \in 1 .. (m - 1) - 1 + 1 : SubSeq(f, 1, m - 1)[i] = f[1 + i - 1]
        BY <3>0, <4>1, SubSeqProperties
      <4> QED BY <1>6, <2>2, <3>0, <4>2
    <3>2. SubSeq(f, h + 1, m - 1) = SubSeq(frames[n], h + 1, m - 1)
      <4>1. \A i \in h + 1 .. m - 1 : frames[n][i] = f[i] /\ f[i] \in Byte \cup Checksums
        BY <1>5, <3>0, <3>1
      <4> QED BY <1>5, <3>0, <3>1, <4>1
    <3>3. p.data = Headless(frames[n]) /\ p.frame = n
      BY <1>8, <3>0, <3>1, <3>2 DEF Headless
    <3>4. Len(faults) >= 2 /\ Len(faults') >= 2
      <4>1. Len(faults) \in Nat /\ Len(faults') \in Nat
        BY <1>1 DEF TypeOK
      <4>2. ~(Len(rx_data) > Len(frames[n]) + 1)
        BY <1>5, <3>0, <3>1
      <4>3. ~(Len(faults) <= 1)
        BY <1>1, <1>4, <4>2 DEF Long
      <4> QED BY <4>1, <4>3
    <3> QED BY <1>9, <3>3, <3>4 DEF Origin
  <2> QED BY <1>6, <2>1, <2>2
<1>11. event' = [op |-> "deliver", what |-> p]
  BY <1>5, <1>8
<1>12. Shown' = [op |-> "deliver", what |-> Origin(p)']
  <2>1. event'.what = p
    BY <1>11
  <2>2. Origin(event.what)' = Origin(p)'
    BY <2>1 DEF Origin
  <2>3. Shown' = [event' EXCEPT !.what = Origin(event.what)']
    BY <1>7 DEF Shown
  <2> QED BY <1>11, <2>2, <2>3
<1> QED BY <1>3, <1>10, <1>12


LEMMA LineDeliver ==
  ASSUME KissInv, KissInv', frames' = frames, Len(faults') >= Len(faults),
         ~Off, rx_data # <<>>, Accepted(Frame), given' = Last(rx_data).frame,
         event' = [op |-> "deliver", what |-> [frame |-> Last(rx_data).frame,
                     data |-> SubSeq(Frame, HeaderSize + 1, Len(Frame) - 1)]]
  PROVE  Serial!Deliver
<1>1. TypeOK /\ TypeOK' /\ given <= Number /\ (given <= Number)' /\ Number' = Number
  BY DEF KissInv, Fresh, Number
<1>2. PICK n : n = Last(rx_data).frame /\ given' = n
  OBVIOUS
<1>3. n \in given + 1 .. Number /\ Shown' = [op |-> "deliver", what |-> Sent(n)]
  BY <1>2, GivenWasSent
<1>4. PICK g \in Nat, j \in Nat, m \in Nat :
         g = given /\ j = n - given /\ m = Number - given /\ n = g + j /\ 1 <= j /\ j <= m
  BY <1>1, <1>3, Pending
<1>5. /\ Undelivered \in Seq(Packet) /\ Len(Undelivered) = m
      /\ \A k \in 1 .. m : Undelivered[k] = Sent(g + k)
  BY <1>1, <1>4, Pending
<1>6. j \in DOMAIN Undelivered /\ Undelivered[j] = Sent(n)
  BY <1>4, <1>5
<1>7. Undelivered' = SubSeq(Undelivered, j + 1, m)
  <2>1. Number' - given' = m - j /\ m - j \in Nat /\ given' = g + j
    <3>1. Number' = g + m /\ given' = g + j
      BY <1>1, <1>2, <1>4, Pending
    <3>2. (g + m) - (g + j) = m - j /\ m - j \in Nat
      <4>1. \A x, y, z \in Nat : y <= z => (x + z) - (x + y) = z - y /\ z - y \in Nat
        OBVIOUS
      <4>2. j <= m
        BY <1>4
      <4> QED BY <4>1, <4>2
    <3> QED BY <3>1, <3>2
  <2>2. Undelivered' = [k \in 1 .. m - j |-> Sent(g + j + k)]
    BY <2>1 DEF Undelivered, Sent
  <2>3. \A k \in 1 .. m - j : Undelivered[j + k] = Sent(g + j + k)
    <3>1. ASSUME NEW k \in 1 .. m - j
          PROVE  j + k \in 1 .. m /\ g + (j + k) = g + j + k
      BY <1>4, <2>1
    <3> QED BY <1>5, <3>1
  <2>4. ASSUME NEW k \in 1 .. m - j
        PROVE  Undelivered[j + k] \in Packet
    <3>1. j + k \in 1 .. m
      BY <1>4, <2>1
    <3> QED BY <1>5, <3>1
  <2>5. Undelivered' \in Seq(Packet) /\ Len(Undelivered') = m - j
    <3>1. PICK f : \A k \in 1 .. m - j : f[k] = Sent(g + j + k) /\ f[k] \in Packet
      <4>1. \A k \in 1 .. m - j : Undelivered'[k] = Sent(g + j + k) /\ Sent(g + j + k) \in Packet
        BY <2>2, <2>3, <2>4
      <4> QED BY <4>1
    <3>2. Undelivered' = [k \in 1 .. m - j |-> f[k]]
      BY <2>2, <3>1
    <3> QED BY <2>1, <3>1, <3>2, IsASeq
  <2>6. /\ SubSeq(Undelivered, j + 1, m) \in Seq(Packet)
        /\ Len(SubSeq(Undelivered, j + 1, m)) = m - j
        /\ \A k \in 1 .. m - j : SubSeq(Undelivered, j + 1, m)[k] = Undelivered[j + k]
    <3>1. \A k \in j + 1 .. m : Undelivered[k] \in Packet
      BY <1>4, <1>5
    <3>2. /\ SubSeq(Undelivered, j + 1, m) \in Seq(Packet)
          /\ Len(SubSeq(Undelivered, j + 1, m)) = IF j + 1 <= m THEN m - (j + 1) + 1 ELSE 0
          /\ \A k \in 1 .. m - (j + 1) + 1 :
                SubSeq(Undelivered, j + 1, m)[k] = Undelivered[j + 1 + k - 1]
      BY <1>4, <1>5, <3>1, SubSeqProperties
    <3> QED BY <1>4, <2>1, <3>2
  <2>7. \A k \in 1 .. m - j : Undelivered'[k] = SubSeq(Undelivered, j + 1, m)[k]
    BY <2>2, <2>3, <2>6
  <2> QED BY <2>5, <2>6, <2>7, SeqEqual
<1> QED BY <1>3, <1>5, <1>6, <1>7 DEF Serial!Deliver

\* A step that neither takes a frame nor gives one.
LEMMA LineQuiet ==
  ASSUME frames' = frames, given' = given, event' = Nothing
  PROVE  Serial!Quiet
<1>1. Undelivered' = Undelivered
  BY DEF Undelivered, Sent, Number
<1>2. Shown' = Nothing
  BY DEF Shown
<1> QED BY <1>1, <1>2 DEF Serial!Quiet

LEMMA LineComes ==
  ASSUME KissInv, KissInv', NEW b, Comes(b), Len(faults') >= Len(faults)
  PROVE  Serial!Next
<1>1. frames' = frames /\ Decodes(b)
  BY DEF Comes
<1>2. CASE event' = Nothing /\ given' = given
  BY <1>1, <1>2, LineQuiet DEF Serial!Next
<1>3. CASE /\ ~TooLong /\ rx_mode = "STARTED" /\ b.byte = FEND /\ rx_data # <<>>
           /\ Accepted(Frame) /\ rx_mode' = "NOT_STARTED" /\ rx_data' = rx_data
           /\ given' = Last(rx_data).frame
           /\ event' = [op |-> "deliver", what |-> [frame |-> Last(rx_data).frame,
                             data |-> SubSeq(Frame, HeaderSize + 1, Len(Frame) - 1)]]
  <2>1. ~Off
    BY <1>3 DEF Off
  <2> QED BY <1>1, <1>3, <2>1, LineDeliver DEF Serial!Next
<1> QED BY <1>1, <1>2, <1>3, Gives

LEMMA LineStep ==
  ASSUME KissInv, KissInv', [Next]_vars
  PROVE  [Serial!Next]_(Serial!vars)
<1>1. TypeOK /\ TypeOK' /\ Framing
  BY DEF KissInv
<1>2. CASE Receive \/ DamageByte
  <2>1. PICK b : Comes(b) /\ (faults' = faults \/ Fault)
    BY <1>1, <1>2, ReceivedComes
  <2>2. Len(faults') >= Len(faults)
    BY <1>1, <2>1, FaultStep DEF TypeOK
  <2> QED BY <2>1, <2>2, LineComes
<1>3. CASE LoseByte
  <2>1. frames' = frames /\ given' = given /\ event' = Nothing
    BY <1>3 DEF LoseByte, Fault
  <2> QED BY <2>1, LineQuiet DEF Serial!Next
<1>4. CASE SendByte \/ SendStop
  BY <1>4, Quiet, LineQuiet DEF Serial!Next
<1>5. ASSUME NEW p \in Payloads, Send(p)
      PROVE  Serial!Next
  <2>1. PICK m \in Packet : Serial!Send(m)
    BY <1>5, LineSend
  <2> QED BY <2>1 DEF Serial!Next
<1>6. CASE UNCHANGED vars
  <2>1. Undelivered' = Undelivered
    BY <1>6 DEF vars, Undelivered, Sent, Number
  <2>2. Shown' = Shown
    BY <1>6 DEF vars, Shown, Origin, Headless, Sent
  <2> QED BY <2>1, <2>2 DEF Serial!vars
<1> QED BY <1>2, <1>3, <1>4, <1>5, <1>6, Steps

LEMMA LineInit == Init => Serial!Init
<1> SUFFICES ASSUME Init PROVE Serial!Init
  OBVIOUS
<1>1. Number = 0 /\ given = 0 /\ event = Nothing
  BY DEF Init, Number
<1>2. Undelivered = <<>>
  BY <1>1 DEF Undelivered
<1> QED BY <1>1, <1>2 DEF Serial!Init, Shown

\* Packets reach the router in the order in which csp_kiss_tx sent them, each at most
\* once, and none that was not sent; after two faults, one that csp_crc32_verify takes
\* with the beginning of its data for the header counts as the packet it was.
THEOREM KissIsALine == Spec => KissSpec
<1>1. KissInv /\ KissInv' /\ [Next]_vars => [Serial!Next]_(Serial!vars)
  BY LineStep
<1> QED BY <1>1, LineInit, KissInvHolds, PTL DEF Spec, KissSpec, Serial!Spec

================================================================================
