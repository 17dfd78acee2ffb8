--------------------------- MODULE SensorLineProofs ---------------------------
(***************************************************************************)
(* What holds of line and parser together for every set of frames, every   *)
(* way of escaping them and of cutting the line into buffers, and any      *)
(* number of losses and closings.                                          *)
(***************************************************************************)
EXTENDS SensorLine, LunixProtocolProofs

USE DEF SEEKING_START_BYTE, SEEKING_PACKET_TYPE, SEEKING_DESTINATION_ADDRESS,
        SEEKING_AM_TYPE, SEEKING_AM_GROUP, SEEKING_PAYLOAD_LENGTH,
        SEEKING_PAYLOAD, SEEKING_CRC, SEEKING_END_BYTE

-----------------------------------------------------------------------------
(* The inductive invariant. *)

\* The bytes of frame fr that are complete when c bytes of it have come.
In(fr, c) == IF c = 0 THEN 0 ELSE IF IsEscape(fr, c) THEN fr.of[c] - 1 ELSE fr.of[c]

\* The parser after the first c bytes of fr.
Read(fr, c) ==
    /\ pos = In(fr, c)
    /\ next_is_special = IF IsEscape(fr, c) THEN fr.line[c] ELSE 0
    /\ \A i \in 1 .. pos : packet[i - 1] = fr.bytes[i]
    /\ Aligned

\* The number of the frame that the parser is at, and how much of it it has taken.
Current == IF call /\ gone = 0 THEN head - 1 ELSE head
Taken == (IF call /\ gone = 0 THEN Size(head - 1) ELSE gone) - Len(rest)

\* What has come of the frame is read, and the rest of the buffer goes on with it.
AtFrame ==
    /\ Current \in 1 .. Len(sent)
    /\ Taken \in 0 .. Size(Current)
    /\ Read(sent[Current], Taken)
    /\ \A i \in 1 .. Len(rest) : rest[i] = sent[Current].line[Taken + i]

ParserInv ==
    /\ IInv
    /\ state = SEEKING_START_BYTE => bytes_to_read = 1
    /\ ~call => rest = <<>>

PlaceInv ==
    /\ sent \in Seq(Frames)
    /\ head \in 1 .. Len(sent) + 1
    /\ gone \in Nat
    /\ gone > 0 => head <= Len(sent) /\ gone < Size(head)
    /\ faults \in Nat
    /\ attached \in BOOLEAN /\ orderly \in BOOLEAN /\ clean \in BOOLEAN

DueInv ==
    /\ due \in Seq(1 .. Len(sent))
    /\ \A i, j \in 1 .. Len(due) : i < j => due[i] < due[j]
    /\ \A i \in 1 .. Len(due) : Reports(sent[due[i]].bytes)
    /\ \A k \in 1 .. Len(sent) : Reports(sent[k].bytes) => \E i \in 1 .. Len(due) : due[i] = k

CleanInv == clean => IF call \/ gone > 0 THEN AtFrame ELSE BetweenPackets

\* The sensors have been told what the frames before the current one report.
Told ==
    /\ Len(updates) <= Len(due)
    /\ \A i \in 1 .. Len(due) : i <= Len(updates) <=> due[i] < Current
    /\ \A i \in 1 .. Len(updates) : updates[i] = ReadingOf(sent[due[i]].bytes)

ToldInv == orderly => clean /\ Told

LineInv == ParserInv /\ PlaceInv /\ DueInv /\ CleanInv /\ ToldInv

-----------------------------------------------------------------------------
(* Frames. *)

\* Flipping bit 5 twice (data[*i]^0x20 undoes what the sender did).
LEMMA FlipTwice == \A b \in Byte : Flip(Flip(b)) = b
BY DEF Flip, Byte

\* A byte is a number.
LEMMA ByteIsNat == \A b \in Byte : b \in Nat
BY DEF Byte

\* The payload length, packet[6], is a byte.
LEMMA LengthNat == ASSUME IInv, MAX_PACKET_LEN >= 7 PROVE packet[6] \in Nat
<1>1. 6 \in 0 .. (MAX_PACKET_LEN - 1)
  BY ProtocolAssumption
<1>2. packet[6] \in Byte
  BY <1>1 DEF IInv, TypeOK
<1> QED
  BY <1>2, ByteIsNat

\* The table of lunix-protocol.c:86, and the lengths of the line.
LEMMA FrameShape ==
    ASSUME NEW fr \in Frames
    PROVE  /\ fr.bytes \in Seq(Byte) /\ fr.line \in Seq(Byte)
           /\ Len(fr.bytes) \in Nat /\ Len(fr.line) \in Nat \ {0}
           /\ Len(fr.bytes) >= 10 /\ Len(fr.bytes) <= MAX_PACKET_LEN
           /\ Len(fr.bytes) = 10 + fr.bytes[7]
           /\ \A i \in 1 .. Len(fr.bytes) : fr.bytes[i] \in Byte
           /\ \A j \in 1 .. Len(fr.line) : fr.line[j] \in Byte
           /\ \A j \in 1 .. Len(fr.line) : fr.of[j] \in 1 .. Len(fr.bytes)
<1>1. Laid(fr.bytes) /\ Escaped(fr)
  BY LineAssumption
<1>2. fr.bytes \in Seq(Byte) /\ fr.line \in Seq(Byte) /\ fr.line # <<>>
  BY <1>1 DEF Laid, Escaped
<1>3. Len(fr.line) \in Nat \ {0} /\ Len(fr.bytes) \in Nat
  BY <1>2, EmptySeq, LenProperties
<1>4. /\ \A i \in 1 .. Len(fr.bytes) : fr.bytes[i] \in Byte
      /\ \A j \in 1 .. Len(fr.line) : fr.line[j] \in Byte
  BY <1>2, ElementOfSeq
<1>5. \A j \in 1 .. Len(fr.line) : fr.of[j] \in 1 .. Len(fr.bytes)
  BY <1>1 DEF Escaped
<1>6. Len(fr.bytes) \in 10 .. MAX_PACKET_LEN /\ Len(fr.bytes) = 10 + fr.bytes[7]
  BY <1>1 DEF Laid
<1> QED
  BY <1>2, <1>3, <1>4, <1>5, <1>6, ProtocolAssumption

\* The next byte on the line says the byte of the frame after those complete.
LEMMA NextPlace ==
    ASSUME NEW fr \in Frames, NEW c \in Nat, c < Len(fr.line)
    PROVE  /\ fr.of[c + 1] = In(fr, c) + 1
           /\ In(fr, c) \in Nat /\ In(fr, c) < Len(fr.bytes)
           /\ In(fr, c + 1) = IF IsEscape(fr, c + 1) THEN In(fr, c) ELSE In(fr, c) + 1
<1> DEFINE n == Len(fr.line)
<1>1. n \in Nat \ {0} /\ \A j \in 1 .. n : fr.of[j] \in 1 .. Len(fr.bytes)
  BY FrameShape
<1>2. fr.of[1] = 1 /\ \A j \in 1 .. n - 1 : fr.of[j + 1] \in {fr.of[j], fr.of[j] + 1}
  BY LineAssumption DEF Escaped
<1>3. fr.of[c + 1] = In(fr, c) + 1
  <2>1. CASE c = 0
    BY <1>2, <2>1 DEF In
  <2>2. CASE c > 0
    <3>1. c \in 1 .. n - 1 /\ c \in 1 .. n
      BY <1>1, <2>2
    <3>2. fr.of[c + 1] \in {fr.of[c], fr.of[c] + 1} /\ fr.of[c] \in Int
      BY <1>1, <1>2, <3>1
    <3>3. IsEscape(fr, c) <=> fr.of[c + 1] = fr.of[c]
      BY <3>1 DEF IsEscape
    <3> HIDE DEF n
    <3> QED
      BY <2>2, <3>2, <3>3 DEF In
  <2> QED
    BY <2>1, <2>2
<1>4. c + 1 \in 1 .. n
  BY <1>1
<1>5. fr.of[c + 1] \in 1 .. Len(fr.bytes) /\ Len(fr.bytes) \in Nat
  BY <1>1, <1>4, FrameShape
<1>6. In(fr, c) \in Int
  <2>1. CASE c = 0
    BY <2>1 DEF In
  <2>2. CASE c > 0
    <3>1. c \in 1 .. n
      BY <1>1, <2>2
    <3>2. fr.of[c] \in Int
      BY <1>1, <3>1
    <3> QED
      BY <2>2, <3>2 DEF In
  <2> QED
    BY <2>1, <2>2
<1>7. In(fr, c + 1) = IF IsEscape(fr, c + 1) THEN fr.of[c + 1] - 1 ELSE fr.of[c + 1]
  BY <1>4 DEF In
<1> QED
  BY <1>3, <1>5, <1>6, <1>7

\* All of the line says all of the frame.
LEMMA LastPlace ==
    ASSUME NEW fr \in Frames
    PROVE  In(fr, Len(fr.line)) = Len(fr.bytes) /\ ~IsEscape(fr, Len(fr.line))
<1>1. Len(fr.line) \in Nat \ {0}
  BY FrameShape
<1>2. fr.of[Len(fr.line)] = Len(fr.bytes)
  BY LineAssumption DEF Escaped
<1> QED
  BY <1>1, <1>2 DEF In, IsEscape

-----------------------------------------------------------------------------
(* The parser in the middle of a frame. *)

\* The fields in which escapes are undone are the bytes of a frame that may be
\* escaped.
LEMMA FieldPlace ==
    ASSUME IInv, NEW fr \in Frames, NEW c \in Nat, c < Len(fr.line), Read(fr, c),
           bytes_read < bytes_to_read
    PROVE  UseSpecials <=> pos + 1 \in 3 .. Len(fr.bytes) - 1
<1>1. Len(fr.bytes) = 10 + fr.bytes[7] /\ MAX_PACKET_LEN >= 7 /\ fr.bytes[7] \in Nat
  <2>1. 7 \in 1 .. Len(fr.bytes)
    BY FrameShape
  <2>2. fr.bytes[7] \in Byte
    BY <2>1, FrameShape
  <2>3. fr.bytes[7] \in Nat
    BY <2>2, ByteIsNat
  <2> QED
    BY <2>3, FrameShape, ProtocolAssumption
<1>2. packet[6] \in Nat
  BY <1>1, LengthNat
<1>3. pos >= 7 => packet[6] = fr.bytes[7]
  <2>1. pos \in Nat
    BY DEF IInv, TypeOK
  <2> SUFFICES ASSUME pos >= 7 PROVE packet[6] = fr.bytes[7]
    OBVIOUS
  <2>2. 7 \in 1 .. pos
    BY <2>1
  <2>3. packet[7 - 1] = fr.bytes[7]
    BY <2>2 DEF Read
  <2> QED
    BY <2>3
<1>4. /\ state \in 1 .. 9 /\ bytes_read \in Nat /\ bytes_to_read \in Nat
      /\ pos \in Nat
  BY DEF IInv, TypeOK, States, Byte
<1>5. Layout
  BY <1>4, AlignedIn DEF Read
<1> DEFINE p == packet[6]
           l == Len(fr.bytes)
<1>6. p \in Nat /\ (pos >= 7 => l = 10 + p)
  <2>1. p \in Nat
    BY <1>2
  <2>2. pos >= 7 => l = 10 + p
    BY <1>1, <1>3
  <2> QED
    BY <2>1, <2>2
<1>7. /\ state = 7 => bytes_to_read = p /\ pos = 7 + bytes_read
      /\ state = 8 => bytes_to_read = 2 /\ pos = 7 + p + bytes_read
      /\ state = 9 => bytes_to_read = 1 /\ pos = 9 + p + bytes_read
  BY <1>5 DEF Layout
<1>8. l >= 10 /\ l \in Nat
  BY FrameShape
<1>9. UseSpecials <=> state \in 3 .. 8
  BY DEF UseSpecials
<1> HIDE DEF p, l
<1>10. state <= 6 => (state \in 3 .. 8 <=> pos + 1 \in 3 .. l - 1)
  BY <1>4, <1>5, <1>8 DEF Layout
<1>11. state >= 7 => (state \in 3 .. 8 <=> pos + 1 \in 3 .. l - 1)
  BY <1>4, <1>6, <1>7, <1>8
<1> QED
  BY <1>4, <1>9, <1>10, <1>11 DEF l

\* A byte is stored where it belongs.
LEMMA ReadStore ==
    ASSUME IInv, IInv', NEW fr \in Frames, NEW c \in Nat, c < Len(fr.line), Read(fr, c),
           Pass, ~IsEscape(fr, c + 1), Store(fr.bytes[pos + 1]), next_is_special' = 0
    PROVE  Read(fr, c + 1)'
<1>1. pos = In(fr, c) /\ pos \in Nat /\ pos < Len(fr.bytes)
  BY NextPlace DEF Read
<1>2. pos' = pos + 1 /\ pos' = In(fr, c + 1)
  BY <1>1, NextPlace DEF Store
<1>3. Len(fr.bytes) <= MAX_PACKET_LEN /\ Len(fr.bytes) \in Nat /\ MAX_PACKET_LEN \in Nat
      /\ MAX_PACKET_LEN >= 7
  BY FrameShape, ProtocolAssumption
<1>4. fr.bytes[pos + 1] \in Byte
  <2>1. pos + 1 \in 1 .. Len(fr.bytes)
    BY <1>1, <1>3
  <2> QED
    BY <2>1, FrameShape
<1>5. Aligned'
  BY <1>3, <1>4, AlignedStore DEF Read
<1>6. ASSUME NEW i \in 1 .. pos' PROVE packet'[i - 1] = fr.bytes[i]
  <2>1. packet' = [packet EXCEPT ![pos] = fr.bytes[pos + 1]]
    BY DEF Store
  <2>2. i \in 1 .. pos \/ i = pos + 1
    BY <1>1, <1>2
  <2>3. DOMAIN packet = 0 .. (MAX_PACKET_LEN - 1)
    BY DEF IInv, TypeOK
  <2>4. CASE i \in 1 .. pos
    <3>1. packet[i - 1] = fr.bytes[i] /\ i - 1 # pos /\ i - 1 \in 0 .. (MAX_PACKET_LEN - 1)
      BY <1>1, <1>3, <2>4 DEF Read
    <3> QED
      BY <2>1, <2>3, <3>1
  <2>5. CASE i = pos + 1
    <3>1. i - 1 = pos /\ pos \in 0 .. (MAX_PACKET_LEN - 1)
      BY <1>1, <1>3, <2>5
    <3> QED
      BY <2>1, <2>3, <2>5, <3>1
  <2> QED
    BY <2>2, <2>4, <2>5
<1> QED
  BY <1>2, <1>5, <1>6 DEF Read

\* What a frame says at its next byte.
LEMMA NextByte ==
    ASSUME NEW fr \in Frames, NEW c \in Nat, c < Len(fr.line)
    PROVE  /\ Coded(fr, c + 1) /\ c + 1 \in 1 .. Len(fr.line)
           /\ AfterEscape(fr, c + 1) <=> IsEscape(fr, c)
           /\ IsEscape(fr, c) => Coded(fr, c) /\ fr.line[c] \in Special
                                 /\ c \in 1 .. Len(fr.line)
<1>1. Len(fr.line) \in Nat
  BY FrameShape
<1>2. \A j \in 1 .. Len(fr.line) : Coded(fr, j)
  BY LineAssumption DEF Escaped
<1>3. c + 1 \in 1 .. Len(fr.line)
  BY <1>1
<1>4. AfterEscape(fr, c + 1) <=> IsEscape(fr, c)
  <2>1. c + 1 \in 2 .. Len(fr.line) <=> c \in 1 .. Len(fr.line) - 1
    BY <1>1
  <2>2. (c + 1) - 1 = c
    OBVIOUS
  <2> QED
    BY <2>1, <2>2 DEF AfterEscape, IsEscape
<1>5. ASSUME IsEscape(fr, c) PROVE Coded(fr, c) /\ fr.line[c] \in Special
                                   /\ c \in 1 .. Len(fr.line)
  <2>1. c \in 1 .. Len(fr.line)
    BY <1>1, <1>5 DEF IsEscape
  <2>2. Coded(fr, c)
    BY <1>2, <2>1
  <2> QED
    BY <1>5, <2>1, <2>2 DEF Coded
<1> QED
  BY <1>2, <1>3, <1>4, <1>5
\* A pass of the loop takes one byte of the line, whatever it says.
LEMMA ReadPass ==
    ASSUME IInv, IInv', NEW fr \in Frames, NEW c \in Nat, c < Len(fr.line), Read(fr, c),
           Head(rest) = fr.line[c + 1],
           StoreRaw \/ StorePlain \/ SeeSpecial \/ StoreSpecial
    PROVE  Read(fr, c + 1)'
<1> DEFINE b == fr.bytes[pos + 1]
           x == fr.line[c + 1]
           e == fr.line[c]
           inField == pos + 1 \in 3 .. Len(fr.bytes) - 1
<1>1. InLoop /\ bytes_read < bytes_to_read /\ Pass
  BY DEF StoreRaw, StorePlain, SeeSpecial, StoreSpecial, Pass, InLoop
<1>2. UseSpecials <=> inField
  BY <1>1, FieldPlace
<1>3. fr.of[c + 1] = pos + 1 /\ pos = In(fr, c) /\ pos \in Nat /\ pos < Len(fr.bytes)
  BY NextPlace DEF Read
<1>4. b \in Byte
  <2>1. pos + 1 \in 1 .. Len(fr.bytes)
    BY <1>3, FrameShape
  <2> QED
    BY <2>1, FrameShape
<1>5. next_is_special = IF IsEscape(fr, c) THEN e ELSE 0
  BY DEF Read
<1>6. IsEscape(fr, c) => e \in Special
  BY NextByte
<1>7. \/ IsEscape(fr, c + 1) /\ ~IsEscape(fr, c) /\ inField /\ x \in Special
      \/ IsEscape(fr, c) /\ ~IsEscape(fr, c + 1) /\ x = IF e = 126 THEN b ELSE Flip(b)
      \/ ~IsEscape(fr, c) /\ ~IsEscape(fr, c + 1) /\ x = b /\ (inField => b \notin Special)
  <2>1. Coded(fr, c + 1) /\ (AfterEscape(fr, c + 1) <=> IsEscape(fr, c)) /\ (c + 1) - 1 = c
    BY NextByte
  <2> QED
    BY <1>3, <2>1 DEF Coded
<1>8. ASSUME Store(b), next_is_special' = 0, ~IsEscape(fr, c + 1) PROVE Read(fr, c + 1)'
  BY <1>1, <1>8, ReadStore
<1> HIDE DEF inField, x, e
<1>9. CASE IsEscape(fr, c + 1)
  <2>1. ~IsEscape(fr, c) /\ UseSpecials /\ x \in Special /\ next_is_special = 0
    BY <1>2, <1>5, <1>7, <1>9
  <2>2. SeeSpecial
    BY <2>1 DEF x, StoreRaw, StorePlain, StoreSpecial
  <2>3. UNCHANGED << machine, pos, packet >> /\ next_is_special' = x
    BY <2>2 DEF SeeSpecial, Pass, machine, x
  <2>4. Aligned'
    BY <2>3 DEF Read, Aligned, FieldStart, FieldSize, machine
  <2>5. In(fr, c + 1) = pos
    BY <1>3, <1>9, NextPlace
  <2> QED
    BY <1>9, <2>3, <2>4, <2>5 DEF Read, x
<1>10. CASE IsEscape(fr, c)
  <2>1. next_is_special = e /\ e \in {126, 125} /\ ~IsEscape(fr, c + 1)
        /\ x = IF e = 126 THEN b ELSE Flip(b)
    BY <1>5, <1>6, <1>7, <1>10 DEF Special
  <2>2. UseSpecials /\ next_is_special # 0
    BY <2>1 DEF IInv, EscapeStaysInField
  <2>3. StoreSpecial
    BY <2>2 DEF StoreRaw, StorePlain, SeeSpecial
  <2>4. (IF next_is_special = 126 THEN Head(rest) ELSE Flip(Head(rest))) = b
    BY <1>4, <2>1, FlipTwice DEF x
  <2> QED
    BY <1>8, <2>1, <2>3, <2>4 DEF StoreSpecial
<1>11. CASE ~IsEscape(fr, c) /\ ~IsEscape(fr, c + 1)
  <2>1. next_is_special = 0 /\ x = b /\ (inField => x \notin Special)
    BY <1>5, <1>7, <1>11
  <2>2. StoreRaw \/ StorePlain
    BY <1>2, <2>1 DEF SeeSpecial, StoreSpecial, x
  <2>3. Store(b) /\ next_is_special' = 0
    BY <2>1, <2>2 DEF StoreRaw, StorePlain, x
  <2> QED
    BY <1>8, <1>11, <2>3
<1> QED
  BY <1>9, <1>10, <1>11

\* Nothing is read.
LEMMA ReadStays ==
    ASSUME NEW fr, NEW c, Read(fr, c),
           UNCHANGED << machine, pos, next_is_special, packet >>
    PROVE  Read(fr, c)'
<1>1. Aligned'
  BY DEF Read, Aligned, FieldStart, FieldSize, machine
<1> QED
  BY <1>1 DEF Read

\* On to the next field.
LEMMA ReadAdvance ==
    ASSUME IInv, NEW fr \in Frames, NEW c, Read(fr, c), Advance
    PROVE  Read(fr, c)'
<1>1. MAX_PACKET_LEN >= 7
  BY FrameShape, ProtocolAssumption
<1>2. Aligned'
  BY <1>1, AlignedAdvance DEF Read
<1> QED
  BY <1>2 DEF Read, Advance

\* A packet is not longer than its frame, and as long only when it is complete.
LEMMA ReadTotal ==
    ASSUME IInv, NEW fr \in Frames, NEW c \in 0 .. Len(fr.line), Read(fr, c)
    PROVE  /\ Complete /\ state = SEEKING_END_BYTE => c = Len(fr.line)
           /\ c = Len(fr.line) => state = SEEKING_END_BYTE /\ bytes_read = bytes_to_read
<1> DEFINE p == packet[6]
           l == Len(fr.bytes)
<1>1. /\ state \in 1 .. 9 /\ bytes_read \in Nat /\ bytes_to_read \in Nat
      /\ bytes_read <= bytes_to_read /\ pos \in Nat
  BY DEF IInv, TypeOK, States, Byte
<1>2. Layout
  BY <1>1, AlignedIn DEF Read
<1>3. l \in Nat /\ l >= 10 /\ l = 10 + fr.bytes[7] /\ MAX_PACKET_LEN >= 7
  BY FrameShape, ProtocolAssumption
<1>4. p \in Nat
  <2>1. packet[6] \in Nat
    BY <1>3, LengthNat
  <2> QED
    BY <2>1
<1>5. pos >= 7 => l = 10 + p
  <2> SUFFICES ASSUME pos >= 7 PROVE l = 10 + p
    OBVIOUS
  <2>1. 7 \in 1 .. pos
    BY <1>1
  <2>2. packet[7 - 1] = fr.bytes[7]
    BY <2>1 DEF Read
  <2> QED
    BY <1>3, <2>2
<1>6. c = Len(fr.line) => pos = l
  BY LastPlace DEF Read
<1>7. c < Len(fr.line) => pos < l
  <2> SUFFICES ASSUME c < Len(fr.line) PROVE pos < l
    OBVIOUS
  <2>1. c \in Nat
    BY FrameShape
  <2> QED
    BY <2>1, NextPlace DEF Read
<1>8. c = Len(fr.line) \/ c < Len(fr.line)
  BY FrameShape
<1>9. Complete => bytes_read = bytes_to_read
  BY DEF Complete
<1>10. /\ state = 7 => bytes_to_read = p /\ pos = 7 + bytes_read
       /\ state = 8 => bytes_to_read = 2 /\ pos = 7 + p + bytes_read
       /\ state = 9 => bytes_to_read = 1 /\ pos = 9 + p + bytes_read
  BY <1>2 DEF Layout
<1>11. state <= 6 => pos <= 7
  BY <1>1, <1>2 DEF Layout
<1> HIDE DEF p, l
<1>12. state = 9 /\ bytes_read = bytes_to_read => pos = l
  BY <1>1, <1>4, <1>5, <1>10
<1>13. pos = l => state = 9 /\ bytes_read = bytes_to_read
  BY <1>1, <1>3, <1>4, <1>5, <1>10, <1>11
<1>14. pos = l <=> c = Len(fr.line)
  <2>1. l \in Nat /\ pos \in Nat
    BY <1>1, <1>3
  <2> QED
    BY <1>6, <1>7, <1>8, <2>1
<1> QED
  BY <1>9, <1>12, <1>13, <1>14

\* When all of a frame has come, packet[] holds it ...
LEMMA ReadAll ==
    ASSUME NEW fr \in Frames, Read(fr, Len(fr.line))
    PROVE  pos = Len(fr.bytes) /\ \A i \in 1 .. Len(fr.bytes) : packet[i - 1] = fr.bytes[i]
BY LastPlace DEF Read

\* ... and the sensors are told what it reports.
LEMMA ReadReading ==
    ASSUME NEW fr \in Frames, Read(fr, Len(fr.line))
    PROVE  /\ UpdatesSensor <=> Reports(fr.bytes)
           /\ Reports(fr.bytes) => Reading = ReadingOf(fr.bytes)
<1> DEFINE l == Len(fr.bytes)
<1>1. \A i \in 1 .. l : packet[i - 1] = fr.bytes[i]
  BY ReadAll
<1>2. /\ l \in Nat /\ PACKET_SIGNATURE_OFFSET < l
      /\ fr.bytes[PACKET_SIGNATURE_OFFSET + 1] = 11 => \A o \in Offsets : o + 2 <= l
  BY LineAssumption, FrameShape DEF Laid
<1>3. \A o \in Offsets : o \in Nat
  BY ProtocolAssumption
<1> HIDE DEF l
<1>4. ASSUME NEW o \in Nat, o + 1 <= l PROVE packet[o] = fr.bytes[o + 1]
  <2>1. o + 1 \in 1 .. l /\ (o + 1) - 1 = o
    BY <1>2, <1>4
  <2> QED
    BY <1>1, <2>1
<1>5. packet[PACKET_SIGNATURE_OFFSET] = fr.bytes[PACKET_SIGNATURE_OFFSET + 1]
  <2>1. PACKET_SIGNATURE_OFFSET \in Nat
    BY <1>3 DEF Offsets
  <2> QED
    BY <1>2, <1>4, <2>1
<1>6. ASSUME fr.bytes[PACKET_SIGNATURE_OFFSET + 1] = 11, NEW o \in Offsets
      PROVE  uint16(o) = WordAt(fr.bytes, o)
  <2>1. o \in Nat /\ o + 2 <= l
    BY <1>2, <1>3, <1>6
  <2>2. packet[o] = fr.bytes[o + 1]
    BY <1>2, <1>4, <2>1
  <2>3. o + 1 \in Nat /\ (o + 1) + 1 <= l /\ (o + 1) + 1 = o + 2
    BY <1>2, <2>1
  <2>4. packet[o + 1] = fr.bytes[o + 2]
    BY <1>4, <2>3
  <2> QED
    BY <2>2, <2>4 DEF uint16, WordAt
<1>7. ASSUME fr.bytes[PACKET_SIGNATURE_OFFSET + 1] = 11
      PROVE  Reading = ReadingOf(fr.bytes)
  BY <1>6, <1>7 DEF Reading, ReadingOf, Offsets
<1>8. Reading.node = uint16(NODE_OFFSET) /\ NODE_OFFSET \in Offsets
  BY DEF Reading, Offsets
<1> QED
  BY <1>5, <1>6, <1>7, <1>8 DEF UpdatesSensor, Reports
-----------------------------------------------------------------------------
(* The line. *)

\* A frame that was sent is a frame, and has bytes on the line.
LEMMA SentFrame ==
    ASSUME PlaceInv, NEW k \in 1 .. Len(sent)
    PROVE  sent[k] \in Frames /\ Size(k) \in Nat \ {0} /\ Len(sent) \in Nat
<1>1. sent \in Seq(Frames) /\ Len(sent) \in Nat
  BY LenProperties DEF PlaceInv
<1>2. sent[k] \in Frames
  BY <1>1, ElementOfSeq
<1> QED
  BY <1>1, <1>2, FrameShape DEF Size

\* A buffer cut off a frame.
LEMMA Buffer ==
    ASSUME NEW fr \in Frames, NEW m \in Nat, NEW n \in Nat, m + n <= Len(fr.line)
    PROVE  /\ SubSeq(fr.line, m + 1, m + n) \in Seq(Byte)
           /\ Len(SubSeq(fr.line, m + 1, m + n)) = n
           /\ \A i \in 1 .. n : SubSeq(fr.line, m + 1, m + n)[i] = fr.line[m + i]
<1>1. fr.line \in Seq(Byte) /\ Len(fr.line) \in Nat
  BY FrameShape
<1> DEFINE p == m + 1
           q == m + n
<1>2. p \in Int /\ q \in Int /\ \A i \in p .. q : fr.line[i] \in Byte
  <2>1. \A i \in p .. q : i \in 1 .. Len(fr.line)
    BY <1>1
  <2> QED
    BY <2>1, FrameShape
<1> HIDE DEF p, q
<1>3. /\ SubSeq(fr.line, p, q) \in Seq(Byte)
      /\ Len(SubSeq(fr.line, p, q)) = IF p <= q THEN q - p + 1 ELSE 0
      /\ \A i \in 1 .. q - p + 1 : SubSeq(fr.line, p, q)[i] = fr.line[p + i - 1]
  BY <1>2, SubSeqProperties
<1>4. q - p + 1 = n /\ (p <= q <=> n # 0) /\ \A i \in 1 .. n : p + i - 1 = m + i
  BY DEF p, q
<1>5. Len(SubSeq(fr.line, p, q)) = n
  BY <1>2, <1>3, <1>4
<1> QED
  BY <1>3, <1>4, <1>5 DEF p, q

\* Where the line stands after some bytes are gone.
LEMMA PastPlace ==
    ASSUME PlaceInv, NEW k \in 1 .. Len(sent), NEW n \in Nat, n <= Size(k), Past(k, n),
           sent' = sent
    PROVE  /\ head' \in 1 .. Len(sent') + 1 /\ gone' \in Nat
           /\ gone' > 0 => head' <= Len(sent') /\ gone' < Size(head')
           /\ n = Size(k) => head' = k + 1 /\ gone' = 0
           /\ n # Size(k) => head' = k /\ gone' = n
<1>1. Size(k) \in Nat \ {0} /\ Len(sent) \in Nat
  BY SentFrame
<1> QED
  BY <1>1 DEF Past

\* The pieces the tty layer hands over are not empty.
LEMMA Pieces ==
    ASSUME PlaceInv
    PROVE  /\ OnLine => head \in 1 .. Len(sent) /\ Left \in Nat \ {0} /\ gone \in Nat
           /\ head < Len(sent) => head + 1 \in 1 .. Len(sent)
           /\ BufferSizes \subseteq Nat \ {0}
<1>1. Len(sent) \in Nat /\ head \in 1 .. Len(sent) + 1 /\ gone \in Nat
  BY LenProperties DEF PlaceInv
<1>2. ASSUME OnLine PROVE head \in 1 .. Len(sent) /\ Left \in Nat \ {0}
  <2>1. head \in 1 .. Len(sent)
    BY <1>1, <1>2 DEF OnLine
  <2>2. Size(head) \in Nat \ {0}
    BY <2>1, SentFrame
  <2>3. gone < Size(head)
    BY <1>1, <2>2 DEF PlaceInv
  <2> QED
    BY <1>1, <2>1, <2>2, <2>3 DEF Left
<1> QED
  BY <1>1, <1>2, LineAssumption

\* How the line and the parser can move.
LEMMA LineMoves ==
    ASSUME PlaceInv, [LineNext]_lineVars
    PROVE  \/ \E fr \in Frames : Send(fr)
           \/ \E n \in Nat \ {0} : Receive(n)
           \/ \E n \in Nat \ {0} : ReceiveAcross(n)
           \/ \E n \in Nat \ {0} : OnLine /\ n <= Left /\ Past(head, gone + n) /\ Disturbed
                  /\ UNCHANGED << vars, sent, due, attached >> /\ faults' \in Nat
           \/ UNCHANGED << vars, sent, due, head, gone, orderly, clean >>
              /\ faults' \in Nat /\ attached' \in BOOLEAN
           \/ Parse /\ UNCHANGED line
           \/ Oops /\ Disturbed /\ UNCHANGED << sent, due, head, gone, attached, faults >>
<1>0. faults \in Nat /\ faults + 1 \in Nat /\ attached \in BOOLEAN
  BY DEF PlaceInv
<1>1. CASE Deliver
  <2>1. CASE OnLine /\ \E n \in BufferSizes \union {Left} : Receive(n) \/ ReceiveElsewhere(n)
    <3>1. PICK n \in BufferSizes \union {Left} : Receive(n) \/ ReceiveElsewhere(n)
      BY <2>1
    <3>2. n \in Nat \ {0}
      BY <2>1, Pieces
    <3>3. CASE Receive(n)
      BY <3>2, <3>3
    <3>4. CASE ReceiveElsewhere(n)
      BY <1>0, <3>2, <3>4 DEF ReceiveElsewhere
    <3> QED
      BY <3>1, <3>3, <3>4
  <2>2. CASE head < Len(sent) /\ \E n \in BufferSizes \union {Size(head + 1)} : ReceiveAcross(n)
    <3>1. PICK n \in BufferSizes \union {Size(head + 1)} : ReceiveAcross(n)
      BY <2>2
    <3>2. n \in Nat \ {0}
      BY <2>2, Pieces, SentFrame
    <3> QED
      BY <3>1, <3>2
  <2> QED
    BY <1>1, <2>1, <2>2 DEF Deliver
<1>2. CASE LoseByte
  <2>1. 1 \in Nat \ {0} /\ 1 <= Left
    BY <1>2, Pieces DEF LoseByte
  <2> QED
    BY <1>0, <1>2, <2>1 DEF LoseByte
<1>3. CASE CloseLdisc \/ OpenLdisc
  BY <1>0, <1>3 DEF CloseLdisc, OpenLdisc
<1>4. CASE UNCHANGED lineVars
  BY <1>0, <1>4 DEF lineVars, line
<1>5. CASE LineParse
  BY <1>5 DEF LineParse
<1> QED
  BY <1>1, <1>2, <1>3, <1>4, <1>5 DEF LineNext

\* The frame the parser is at, and what there is of it.
LEMMA FrameFacts ==
    ASSUME ParserInv, PlaceInv, AtFrame
    PROVE  /\ sent[Current] \in Frames /\ Current \in Int
           /\ Taken \in Nat /\ Len(rest) \in Nat
           /\ call /\ gone = 0 => Taken + Len(rest) = Size(Current) /\ Current = head - 1
           /\ ~(call /\ gone = 0) => /\ Current = head
                                     /\ Taken + Len(rest) = gone
                                     /\ gone > 0 => gone < Size(Current)
           /\ Size(Current) \in Nat \ {0} /\ Taken + Len(rest) <= Size(Current)
<1>1. Current \in 1 .. Len(sent) /\ Taken \in 0 .. Size(Current)
  BY DEF AtFrame
<1>2. sent[Current] \in Frames /\ Size(Current) \in Nat \ {0} /\ Len(sent) \in Nat
  BY <1>1, SentFrame
<1>3. rest \in Seq(Byte)
  BY DEF ParserInv, IInv, TypeOK
<1>4. Len(rest) \in Nat
  BY <1>3, LenProperties
<1>5. gone \in Nat /\ head \in Int /\ (gone > 0 => gone < Size(head))
  BY <1>2 DEF PlaceInv
<1>6. CASE call /\ gone = 0
  <2>1. Current = head - 1 /\ Taken = Size(Current) - Len(rest)
    BY <1>6 DEF Current, Taken
  <2> QED
    BY <1>1, <1>2, <1>4, <1>6, <2>1
<1>7. CASE ~(call /\ gone = 0)
  <2>1. Current = head /\ Taken = gone - Len(rest)
    BY <1>7 DEF Current, Taken
  <2> QED
    BY <1>1, <1>2, <1>4, <1>5, <1>7, <2>1
<1> QED
  BY <1>6, <1>7
-----------------------------------------------------------------------------
(* The invariant is inductive: one lemma for each way to move. *)

\* What LineInv says at the beginning.
LEMMA LineInitInv == LineInit => LineInv
<1> SUFFICES ASSUME LineInit PROVE LineInv
  OBVIOUS
<1>1. Init /\ sent = <<>> /\ due = <<>> /\ head = 1 /\ gone = 0 /\ attached = TRUE
      /\ faults = 0 /\ orderly = TRUE /\ clean = TRUE
  BY DEF LineInit
<1>2. ParserInv
  BY <1>1, InitInv DEF Init, ParserInv
<1>3. Len(sent) = 0 /\ Len(due) = 0 /\ Len(updates) = 0
  BY <1>1 DEF Init
<1>4. PlaceInv
  BY <1>1, <1>3, EmptySeq DEF PlaceInv
<1>5. DueInv
  BY <1>1, <1>3, EmptySeq DEF DueInv
<1>6. CleanInv
  BY <1>1 DEF Init, CleanInv, BetweenPackets
<1>7. ToldInv
  BY <1>1, <1>3 DEF ToldInv, Told
<1> QED
  BY <1>2, <1>4, <1>5, <1>6, <1>7 DEF LineInv

\* The parser is not touched.
LEMMA ParserStays == ASSUME ParserInv, UNCHANGED vars PROVE ParserInv'
BY DEF ParserInv, vars, IInv, TypeOK, NeverStuck, EscapeStaysInField, LengthStored,
       UseSpecials

\* What is due stays so while nothing is sent.
LEMMA DueStays == ASSUME DueInv, UNCHANGED << sent, due >> PROVE DueInv'
BY DEF DueInv

\* Nothing of what the invariant is about changes.
LEMMA StandStill ==
    ASSUME LineInv, UNCHANGED << vars, sent, due, head, gone, orderly, clean >>,
           faults' \in Nat, attached' \in BOOLEAN
    PROVE  LineInv'
<1>1. ParserInv'
  BY ParserStays DEF LineInv
<1>2. PlaceInv'
  BY DEF LineInv, PlaceInv, Size
<1>3. DueInv'
  BY DueStays DEF LineInv
<1>4. Current' = Current /\ (AtFrame => AtFrame')
  BY DEF vars, Current, Taken, AtFrame, Size, Read, Aligned, FieldStart, FieldSize
<1>5. CleanInv'
  BY <1>4 DEF LineInv, vars, CleanInv, BetweenPackets
<1>6. ToldInv'
  BY <1>4 DEF LineInv, vars, ToldInv, Told
<1> QED
  BY <1>1, <1>2, <1>3, <1>5, <1>6 DEF LineInv

\* After a loss nothing is claimed of the frame.
LEMMA AfterLoss ==
    ASSUME ParserInv', PlaceInv', DueInv', Disturbed
    PROVE  LineInv'
BY DEF Disturbed, LineInv, CleanInv, ToldInv

\* Bytes that go without a report move the next byte on line past them.
LEMMA LossPlace ==
    ASSUME PlaceInv, NEW k \in 1 .. Len(sent), NEW n \in Nat, n <= Size(k), Past(k, n),
           Disturbed, UNCHANGED << sent, attached >>, faults' \in Nat
    PROVE  PlaceInv'
<1>1. /\ head' \in 1 .. Len(sent') + 1 /\ gone' \in Nat
      /\ gone' > 0 => head' <= Len(sent') /\ gone' < Size(head')
  BY PastPlace
<1>2. Size(head') = Size(head)'
  BY DEF Size
<1>3. sent' \in Seq(Frames) /\ attached' \in BOOLEAN
  BY DEF PlaceInv
<1>4. orderly' \in BOOLEAN /\ clean' \in BOOLEAN
  BY DEF Disturbed
<1> QED
  BY <1>1, <1>2, <1>3, <1>4 DEF PlaceInv

\* Bytes are lost, or received by another line discipline.
LEMMA GoneStep ==
    ASSUME LineInv, NEW n \in Nat \ {0}, OnLine, n <= Left, Past(head, gone + n),
           Disturbed, UNCHANGED << vars, sent, due, attached >>, faults' \in Nat
    PROVE  LineInv'
<1>1. PlaceInv /\ head \in 1 .. Len(sent) /\ gone + n \in Nat /\ gone + n <= Size(head)
  <2>1. gone \in Nat /\ Size(head) \in Nat /\ head \in 1 .. Len(sent)
    BY Pieces, SentFrame DEF LineInv
  <2> QED
    BY <2>1 DEF LineInv, Left
<1>2. PlaceInv'
  BY <1>1, LossPlace
<1>3. ParserInv' /\ DueInv'
  BY ParserStays, DueStays DEF LineInv
<1> QED
  BY <1>2, <1>3, AfterLoss

\* A buffer is passed to the parser.
LEMMA ParserCall ==
    ASSUME ParserInv, NEW b \in Seq(Byte), ReceivedBuf(b), UNCHANGED calls
    PROVE  ParserInv'
<1>1. IInv'
  BY CallStep DEF ParserInv, IInv, TypeOK
<1> QED
  BY <1>1 DEF ParserInv, ReceivedBuf, machine

\* A buffer that straddles two frames.
LEMMA AcrossStep ==
    ASSUME LineInv, NEW n \in Nat \ {0}, ReceiveAcross(n)
    PROVE  LineInv'
<1> DEFINE fr == sent[head]
           nx == sent[head + 1]
           b1 == SubSeq(fr.line, gone + 1, Size(head))
           b2 == SubSeq(nx.line, 1, n)
<1>1. /\ ParserInv /\ PlaceInv /\ DueInv
      /\ head < Len(sent) /\ n <= Size(head + 1) /\ ReceivedBuf(b1 \o b2)
      /\ Past(head + 1, n) /\ Disturbed /\ UNCHANGED << sent, due, attached, faults, calls >>
  BY DEF LineInv, ReceiveAcross
<1>2. head \in 1 .. Len(sent) /\ head + 1 \in 1 .. Len(sent) /\ Left \in Nat \ {0}
      /\ gone \in Nat
  <2>1. OnLine
    BY <1>1, LenProperties DEF PlaceInv, OnLine
  <2> QED
    BY <1>1, <2>1, Pieces
<1>3. fr \in Frames /\ nx \in Frames /\ Size(head) \in Nat /\ Size(head + 1) \in Nat
  BY <1>1, <1>2, SentFrame
<1>4. b1 \in Seq(Byte)
  <2>1. gone + Left = Size(head) /\ Left \in Nat /\ gone + Left <= Len(fr.line)
    BY <1>2, <1>3 DEF Left, Size
  <2>2. SubSeq(fr.line, gone + 1, gone + Left) \in Seq(Byte)
    BY <1>2, <1>3, <2>1, Buffer
  <2> QED
    BY <2>1, <2>2
<1>5. b2 \in Seq(Byte)
  <2>1. 0 + n <= Len(nx.line) /\ 0 + n = n /\ 0 + 1 = 1
    BY <1>1, <1>3 DEF Size
  <2>2. SubSeq(nx.line, 0 + 1, 0 + n) \in Seq(Byte)
    BY <1>3, <2>1, Buffer
  <2> QED
    BY <2>1, <2>2
<1> HIDE DEF b1, b2
<1>6. b1 \o b2 \in Seq(Byte)
  BY <1>4, <1>5, ConcatProperties
<1>7. ParserInv'
  BY <1>1, <1>6, ParserCall
<1>8. PlaceInv'
  <2>1. n \in Nat /\ faults' \in Nat
    BY <1>1 DEF PlaceInv
  <2> QED
    BY <1>1, <1>2, <2>1, LossPlace
<1> QED
  BY <1>1, <1>7, <1>8, DueStays, AfterLoss

\* A buffer cut off the frame at the head of the line.
LEMMA ReceiveStep ==
    ASSUME LineInv, NEW n \in Nat \ {0}, Receive(n)
    PROVE  LineInv'
<1> PICK k : k = head
  OBVIOUS
<1> PICK g : g = gone
  OBVIOUS
<1> PICK fr : fr = sent[k]
  OBVIOUS
<1> DEFINE b == SubSeq(fr.line, g + 1, g + n)
<1>1. /\ ParserInv /\ PlaceInv /\ DueInv /\ CleanInv /\ ToldInv
      /\ OnLine /\ n <= Left /\ ReceivedBuf(b) /\ Past(k, g + n)
      /\ clean' = (IF gone = 0 THEN BetweenPackets ELSE clean)
      /\ orderly' = (orderly /\ clean')
      /\ UNCHANGED << sent, due, attached, faults, calls >>
  BY DEF LineInv, Receive
<1>2. k \in 1 .. Len(sent) /\ g \in Nat /\ Size(k) \in Nat /\ g + n \in Nat
      /\ g + n <= Size(k) /\ fr \in Frames /\ Size(k) = Len(fr.line)
  <2>1. k \in 1 .. Len(sent) /\ g \in Nat
    BY <1>1, Pieces
  <2>2. Size(k) \in Nat /\ fr \in Frames
    BY <1>1, <2>1, SentFrame
  <2> QED
    BY <1>1, <2>1, <2>2 DEF Left, Size
<1>3. b \in Seq(Byte) /\ Len(b) = n /\ \A i \in 1 .. n : b[i] = fr.line[g + i]
  <2>1. n \in Nat /\ g \in Nat /\ g + n <= Len(fr.line) /\ fr \in Frames
    BY <1>2
  <2> HIDE DEF b
  <2>2. /\ SubSeq(fr.line, g + 1, g + n) \in Seq(Byte)
        /\ Len(SubSeq(fr.line, g + 1, g + n)) = n
        /\ \A i \in 1 .. n : SubSeq(fr.line, g + 1, g + n)[i] = fr.line[g + i]
    BY <2>1, Buffer
  <2> QED
    BY <2>2 DEF b
<1> HIDE DEF b
<1>4. /\ ~call /\ call' /\ rest' = b /\ sent' = sent
      /\ UNCHANGED << machine, pos, next_is_special, packet, updates >>
  BY <1>1 DEF ReceivedBuf
<1>5. ParserInv' /\ DueInv'
  BY <1>1, <1>3, ParserCall, DueStays
<1>6. clean' \in BOOLEAN /\ orderly' \in BOOLEAN
  <2>1. orderly \in BOOLEAN /\ clean \in BOOLEAN /\ BetweenPackets \in BOOLEAN
    BY <1>1 DEF PlaceInv, BetweenPackets
  <2> QED
    BY <1>1, <2>1
<1>7. PlaceInv'
  <2>1. /\ head' \in 1 .. Len(sent') + 1 /\ gone' \in Nat
        /\ gone' > 0 => head' <= Len(sent') /\ gone' < Size(head')
    BY <1>1, <1>2, PastPlace
  <2>2. Size(head') = Size(head)'
    BY <1>1 DEF Size
  <2>3. sent' \in Seq(Frames) /\ faults' \in Nat /\ attached' \in BOOLEAN
    BY <1>1 DEF PlaceInv
  <2> QED
    BY <1>6, <2>1, <2>2, <2>3 DEF PlaceInv
<1>8. IF g + n = Size(k) THEN head' = k + 1 /\ gone' = 0 ELSE head' = k /\ gone' = g + n
  BY <1>1, <1>2, PastPlace
<1>9. Current' = k
  BY <1>2, <1>4, <1>8 DEF Current
<1>10. Taken' = g
  <2>1. Len(rest') = n
    BY <1>3, <1>4
  <2>2. CASE g + n = Size(k)
    <3>1. Size(head - 1)' = Size(k)
      BY <1>2, <1>4, <1>8, <2>2 DEF Size
    <3>2. Taken' = Size(k) - n
      BY <1>4, <1>8, <2>1, <2>2, <3>1 DEF Taken
    <3> QED
      BY <1>2, <2>2, <3>2
  <2>3. CASE g + n # Size(k)
    <3>1. gone' # 0 /\ gone' = g + n
      BY <1>2, <1>8, <2>3
    <3> QED
      BY <1>2, <1>4, <2>1, <3>1 DEF Taken
  <2> QED
    BY <2>2, <2>3
<1>11. CleanInv'
  <2> SUFFICES ASSUME clean' PROVE AtFrame'
    BY <1>4 DEF CleanInv
  <2>1. Read(fr, g)
    <3>1. CASE g = 0
      <4>1. BetweenPackets
        BY <1>1, <3>1
      <4>2. In(fr, 0) = 0 /\ ~IsEscape(fr, 0)
        BY DEF In, IsEscape
      <4>3. state = 1 /\ bytes_to_read = 1 /\ bytes_read = 0 /\ pos = 0 /\ next_is_special = 0
        BY <1>1, <4>1 DEF BetweenPackets, ParserInv
      <4>4. Aligned
        BY <4>3, AlignedIn DEF Layout
      <4> QED
        BY <3>1, <4>2, <4>3, <4>4 DEF Read
    <3>2. CASE g # 0
      <4>1. clean /\ gone > 0
        BY <1>1, <1>2, <3>2
      <4>2. AtFrame /\ rest = <<>>
        BY <1>1, <1>4, <4>1 DEF CleanInv, ParserInv
      <4>3. Current = k /\ Taken = g
        BY <1>2, <1>4, <4>2 DEF Current, Taken
      <4> QED
        BY <4>2, <4>3 DEF AtFrame
    <3> QED
      BY <3>1, <3>2
  <2>2. Read(fr, g)'
    BY <1>4, <2>1, ReadStays
  <2>3. sent'[k] = fr /\ Size(k)' = Size(k) /\ Len(sent') = Len(sent)
    BY <1>4 DEF Size
  <2>4. Read(sent[Current], Taken)'
    BY <1>9, <1>10, <2>2, <2>3
  <2>5. \A i \in 1 .. Len(rest') : rest'[i] = sent'[k].line[g + i]
    BY <1>3, <1>4, <2>3
  <2>6. g \in 0 .. Size(k)
    BY <1>2
  <2>7. Size(Current)' = Size(k)
    BY <1>9, <2>3 DEF Size
  <2> QED
    BY <1>2, <1>9, <1>10, <2>3, <2>4, <2>5, <2>6, <2>7 DEF AtFrame
<1>12. ToldInv'
  <2> SUFFICES ASSUME orderly' PROVE clean' /\ Told'
    BY DEF ToldInv
  <2>1. orderly /\ clean' /\ Told
    BY <1>1 DEF ToldInv
  <2>2. Current = k
    BY <1>4 DEF Current
  <2> QED
    BY <1>1, <1>4, <1>9, <2>1, <2>2 DEF Told
<1> QED
  BY <1>5, <1>7, <1>11, <1>12 DEF LineInv
\* One pass of the loop, the next field, the end of a packet or of the buffer.
LEMMA ParserParse == ASSUME ParserInv, Parse \/ Oops PROVE ParserInv'
<1>1. IInv'
  BY NextInv DEF ParserInv, Next
<1>2. ASSUME Pass PROVE ParserInv'
  BY <1>1, <1>2 DEF ParserInv, Pass, InLoop
<1>3. CASE Advance
  <2>1. state' # 1 /\ call'
    BY <1>3 DEF ParserInv, IInv, TypeOK, States, Advance, set_state, Complete
  <2> QED
    BY <1>1, <2>1 DEF ParserInv
<1>4. CASE PacketReceived
  BY <1>1, <1>4 DEF ParserInv, PacketReceived, set_state, Leave
<1>5. CASE Overflow \/ Return \/ Oops
  BY <1>1, <1>5 DEF ParserInv, Overflow, Return, Oops, Leave, machine
<1> QED
  BY <1>2, <1>3, <1>4, <1>5 DEF Parse, StoreRaw, StorePlain, SeeSpecial, StoreSpecial

\* A pass of the loop takes the next byte of the frame the parser is at.
LEMMA PassFrame ==
    ASSUME ParserInv, ParserInv', PlaceInv, AtFrame, UNCHANGED line,
           StoreRaw \/ StorePlain \/ SeeSpecial \/ StoreSpecial
    PROVE  AtFrame' /\ Current' = Current
<1> PICK k : k = Current
  OBVIOUS
<1> PICK c : c = Taken
  OBVIOUS
<1> PICK fr : fr = sent[k]
  OBVIOUS
<1>1. /\ call /\ rest # <<>> /\ rest' = Tail(rest) /\ call' = call
      /\ UNCHANGED << sent, head, gone >>
  BY DEF StoreRaw, StorePlain, SeeSpecial, StoreSpecial, Pass, InLoop, line
<1>2. /\ Read(fr, c) /\ k \in 1 .. Len(sent)
      /\ \A i \in 1 .. Len(rest) : rest[i] = fr.line[c + i]
  BY DEF AtFrame
<1>3. /\ fr \in Frames /\ c \in Nat /\ Len(rest) \in Nat
      /\ c + Len(rest) <= Size(k) /\ Size(k) \in Nat
  BY FrameFacts
<1>4. rest \in Seq(Byte)
  BY DEF ParserInv, IInv, TypeOK
<1>5. /\ Len(rest) >= 1 /\ Head(rest) = rest[1] /\ Len(rest') = Len(rest) - 1
      /\ \A i \in 1 .. Len(rest') : rest'[i] = rest[i + 1]
  BY <1>1, <1>4, HeadTailProperties, EmptySeq, LenProperties
<1>6. c < Len(fr.line) /\ Head(rest) = fr.line[c + 1] /\ c + 1 \in 0 .. Size(k)
  BY <1>2, <1>3, <1>5 DEF Size
<1>7. Read(fr, c + 1)'
  BY <1>2, <1>3, <1>6, ReadPass DEF ParserInv
<1>8. Current' = k
  BY <1>1 DEF Current
<1>9. Size(head - 1)' = Size(head - 1) /\ sent'[k] = fr /\ Size(k)' = Size(k)
      /\ Size(Current)' = Size(k)
  BY <1>1, <1>8 DEF Size
<1>10. Taken' = c + 1
  <2> DEFINE all == IF call /\ gone = 0 THEN Size(head - 1) ELSE gone
  <2>1. Taken = all - Len(rest) /\ Taken' = all - Len(rest')
    BY <1>1, <1>9 DEF Taken
  <2>2. all \in Int
    <3>1. CASE call /\ gone = 0
      BY <1>3, <3>1 DEF Current
    <3>2. CASE ~(call /\ gone = 0)
      BY <3>2 DEF PlaceInv
    <3> QED
      BY <3>1, <3>2
  <2> HIDE DEF all
  <2> QED
    BY <1>3, <1>5, <2>1, <2>2
<1>11. ASSUME NEW i \in 1 .. Len(rest') PROVE rest'[i] = fr.line[(c + 1) + i]
  <2>1. i + 1 \in 1 .. Len(rest) /\ c + (i + 1) = (c + 1) + i
    BY <1>3, <1>5
  <2> QED
    BY <1>2, <1>5, <2>1
<1>12. Read(sent[Current], Taken)'
  BY <1>7, <1>8, <1>9, <1>10
<1> QED
  BY <1>1, <1>2, <1>6, <1>8, <1>9, <1>10, <1>11, <1>12 DEF AtFrame

\* The next field begins, in the same frame.
LEMMA AdvanceFrame ==
    ASSUME ParserInv, PlaceInv, AtFrame, UNCHANGED line, Advance
    PROVE  AtFrame' /\ Current' = Current
<1> PICK k : k = Current
  OBVIOUS
<1> PICK c : c = Taken
  OBVIOUS
<1> PICK fr : fr = sent[k]
  OBVIOUS
<1>1. UNCHANGED << call, rest, sent, head, gone >>
  BY DEF Advance, line
<1>2. Read(fr, c)'
  BY FrameFacts, ReadAdvance DEF AtFrame, ParserInv
<1>3. Current' = k /\ Taken' = c
  BY <1>1 DEF Current, Taken, Size
<1>4. sent'[k] = fr /\ Size(Current)' = Size(k)
  BY <1>1, <1>3 DEF Size
<1>5. Read(sent[Current], Taken)'
  BY <1>2, <1>3, <1>4
<1> QED
  BY <1>1, <1>3, <1>4, <1>5 DEF AtFrame

\* A buffer that ends before its frame does leaves the parser in the frame.
LEMMA ReturnFrame ==
    ASSUME ParserInv, PlaceInv, AtFrame, UNCHANGED line, Return
    PROVE  AtFrame' /\ Current' = Current /\ gone > 0
<1> PICK k : k = Current
  OBVIOUS
<1> PICK c : c = Taken
  OBVIOUS
<1> PICK fr : fr = sent[k]
  OBVIOUS
<1>1. /\ call /\ rest = <<>> /\ bytes_read < bytes_to_read /\ ~call' /\ rest' = <<>>
      /\ UNCHANGED << machine, pos, next_is_special, packet >>
      /\ UNCHANGED << sent, head, gone >>
  BY DEF Return, Leave, line
<1>2. /\ fr \in Frames /\ c \in Nat /\ Size(k) \in Nat /\ c <= Size(k)
      /\ gone = 0 => c = Size(k)
      /\ gone # 0 => k = head /\ c = gone
  BY <1>1, FrameFacts
<1>3. Read(fr, c)
  BY DEF AtFrame
<1>4. gone # 0
  <2> SUFFICES ASSUME gone = 0 PROVE FALSE
    OBVIOUS
  <2>1. c = Len(fr.line) /\ c \in 0 .. Len(fr.line)
    BY <1>2 DEF Size
  <2>2. bytes_read = bytes_to_read
    BY <1>2, <1>3, <2>1, ReadTotal DEF ParserInv
  <2>3. bytes_read \in Nat
    BY DEF ParserInv, IInv, TypeOK, Byte
  <2> QED
    BY <1>1, <2>2, <2>3
<1>5. gone > 0 /\ gone \in Nat
  BY <1>4 DEF PlaceInv
<1>6. Current' = k /\ Taken' = c
  BY <1>1, <1>2, <1>4, <1>5 DEF Current, Taken
<1>7. sent'[k] = fr /\ Size(Current)' = Size(k)
  BY <1>1, <1>6 DEF Size
<1>8. Read(fr, c)'
  BY <1>1, <1>3, ReadStays
<1>9. Read(sent[Current], Taken)'
  BY <1>6, <1>7, <1>8
<1> QED
  BY <1>1, <1>2, <1>5, <1>6, <1>7, <1>9 DEF AtFrame

\* The parser is never without room in the middle of a frame.
LEMMA OverflowFrame == ASSUME ParserInv, PlaceInv, AtFrame, Overflow PROVE FALSE
<1> PICK k : k = Current
  OBVIOUS
<1> PICK c : c = Taken
  OBVIOUS
<1> PICK fr : fr = sent[k]
  OBVIOUS
<1>1. rest # <<>> /\ pos = MAX_PACKET_LEN
  BY DEF Overflow, InLoop
<1>2. rest \in Seq(Byte)
  BY DEF ParserInv, IInv, TypeOK
<1>3. Len(rest) # 0 /\ Len(rest) \in Nat
  BY <1>1, <1>2, EmptySeq, LenProperties
<1>4. fr \in Frames /\ c \in Nat /\ c < Len(fr.line)
  BY <1>3, FrameFacts DEF Size
<1>5. pos < Len(fr.bytes)
  BY <1>4, NextPlace DEF AtFrame, Read
<1> QED
  BY <1>1, <1>4, <1>5, FrameShape, ProtocolAssumption

\* A packet ends where its frame does, with the buffer.
LEMMA EndFrame ==
    ASSUME ParserInv, PlaceInv, AtFrame, Complete, state = SEEKING_END_BYTE
    PROVE  /\ gone = 0 /\ Current = head - 1 /\ Current \in 1 .. Len(sent)
           /\ sent[Current] \in Frames
           /\ Read(sent[Current], Len(sent[Current].line))
<1>1. /\ sent[Current] \in Frames /\ Taken \in 0 .. Len(sent[Current].line)
      /\ Read(sent[Current], Taken) /\ Current \in 1 .. Len(sent)
  BY FrameFacts DEF AtFrame, Size
<1>2. Taken = Len(sent[Current].line)
  BY <1>1, ReadTotal DEF ParserInv
<1>3. gone = 0
  <2> SUFFICES ASSUME gone # 0 PROVE FALSE
    OBVIOUS
  <2>1. gone \in Nat
    BY DEF PlaceInv
  <2>2. Taken + Len(rest) = gone /\ gone < Size(Current) /\ Len(rest) \in Nat /\ Taken \in Nat
    BY <2>1, FrameFacts
  <2> QED
    BY <1>2, <2>1, <2>2 DEF Size
<1>4. Current = head - 1
  BY <1>3 DEF Current, Complete
<1> QED
  BY <1>1, <1>2, <1>3, <1>4

\* The sensors are told what the frame reports, which is what is due next.
LEMMA PacketTold ==
    ASSUME ParserInv, PlaceInv, DueInv, AtFrame, Told, UNCHANGED line, PacketReceived
    PROVE  Told'
<1> PICK k : k = Current
  OBVIOUS
<1> PICK fr : fr = sent[k]
  OBVIOUS
<1> PICK u : u = Len(updates)
  OBVIOUS
<1> PICK d : d = Len(due)
  OBVIOUS
<1>1. /\ k = head - 1 /\ gone = 0 /\ k \in 1 .. Len(sent) /\ fr \in Frames
      /\ Read(fr, Len(fr.line))
  BY EndFrame DEF PacketReceived
<1>2. /\ UpdatesSensor <=> Reports(fr.bytes)
      /\ Reports(fr.bytes) => Reading = ReadingOf(fr.bytes)
  BY <1>1, ReadReading
<1>3. ~call' /\ UNCHANGED << sent, due, head, gone >>
  BY DEF PacketReceived, Leave, line
<1>4. Current' = k + 1 /\ k \in Int
  BY <1>1, <1>3 DEF Current, PlaceInv
<1>5. /\ updates \in Seq(Readings) /\ u \in Nat /\ d \in Nat
      /\ \A i \in 1 .. d : due[i] \in Int
  BY LenProperties, ElementOfSeq DEF ParserInv, IInv, TypeOK, DueInv
<1>6. /\ u <= d
      /\ \A i \in 1 .. d : i <= u <=> due[i] < k
      /\ \A i \in 1 .. u : updates[i] = ReadingOf(sent[due[i]].bytes)
  BY DEF Told
<1>7. /\ \A i, j \in 1 .. d : i < j => due[i] < due[j]
      /\ \A i \in 1 .. d : Reports(sent[due[i]].bytes)
      /\ Reports(fr.bytes) => \E i \in 1 .. d : due[i] = k
  BY <1>1 DEF DueInv
<1>8. CASE Reports(fr.bytes)
  <2>1. PICK m \in 1 .. d : due[m] = k
    BY <1>7, <1>8
  <2>2. m = u + 1
    <3>1. m > u
      BY <1>4, <1>5, <1>6, <2>1
    <3>2. ASSUME m > u + 1 PROVE FALSE
      <4>1. u + 1 \in 1 .. d /\ u + 1 < m
        BY <1>5, <2>1, <3>2
      <4>2. due[u + 1] < k /\ ~(u + 1 <= u)
        BY <1>5, <1>7, <2>1, <4>1
      <4> QED
        BY <1>6, <4>1, <4>2
    <3> QED
      BY <1>5, <3>1, <3>2
  <2>3. updates' = Append(updates, ReadingOf(fr.bytes))
    BY <1>2, <1>8 DEF PacketReceived
  <2>4. ReadingOf(fr.bytes) \in Readings
    BY <1>2, <1>8, ReadingType DEF ParserInv, IInv
  <2>5. /\ Len(updates') = u + 1 /\ updates'[u + 1] = ReadingOf(fr.bytes)
        /\ \A i \in 1 .. u : updates'[i] = updates[i]
    BY <1>5, <2>3, <2>4, AppendProperties
  <2>6. ASSUME NEW i \in 1 .. d PROVE i <= u + 1 <=> due[i] < k + 1
    <3>1. i \in Nat /\ due[i] \in Int /\ (i <= u <=> due[i] < k)
      BY <1>5, <1>6
    <3>2. i > m => due[i] > k
      BY <1>7, <2>1
    <3>3. i < m \/ i = m \/ i > m
      BY <3>1, <2>1
    <3> QED
      BY <1>4, <1>5, <2>1, <2>2, <3>1, <3>2, <3>3
  <2>7. ASSUME NEW i \in 1 .. u + 1 PROVE updates'[i] = ReadingOf(sent[due[i]].bytes)
    <3>1. i \in 1 .. u \/ i = u + 1
      BY <1>5
    <3> QED
      BY <1>6, <2>1, <2>2, <2>5, <3>1
  <2> QED
    BY <1>3, <1>4, <1>5, <2>1, <2>2, <2>5, <2>6, <2>7 DEF Told
<1>9. CASE ~Reports(fr.bytes)
  <2>1. updates' = updates
    BY <1>2, <1>9 DEF PacketReceived
  <2>2. ASSUME NEW i \in 1 .. d PROVE i <= u <=> due[i] < k + 1
    <3>1. due[i] # k
      BY <1>7, <1>9
    <3> QED
      BY <1>4, <1>5, <1>6, <3>1
  <2> QED
    BY <1>3, <1>4, <1>6, <2>1, <2>2 DEF Told
<1> QED
  BY <1>8, <1>9
\* A step of the parser.
LEMMA ParseStep == ASSUME LineInv, Parse, UNCHANGED line PROVE LineInv'
<1>1. ParserInv /\ PlaceInv /\ DueInv /\ CleanInv /\ ToldInv
  BY DEF LineInv
<1>2. ParserInv'
  BY <1>1, ParserParse
<1>3. PlaceInv' /\ DueInv'
  BY <1>1, DueStays DEF PlaceInv, Size, line
<1>4. UNCHANGED << clean, orderly, head, gone, due, sent >> /\ call
  BY DEF line, Parse, Overflow, StoreRaw, StorePlain, SeeSpecial, StoreSpecial, Pass,
         InLoop, Advance, PacketReceived, Complete, Return
<1>5. CASE ~clean
  BY <1>1, <1>2, <1>3, <1>4, <1>5 DEF LineInv, CleanInv, ToldInv
<1>6. CASE clean
  <2>1. AtFrame
    BY <1>1, <1>4, <1>6 DEF CleanInv
  <2>2. CASE StoreRaw \/ StorePlain \/ SeeSpecial \/ StoreSpecial
    <3>1. AtFrame' /\ Current' = Current
      BY <1>1, <1>2, <2>1, <2>2, PassFrame
    <3>2. call' /\ updates' = updates
      BY <1>4, <2>2 DEF StoreRaw, StorePlain, SeeSpecial, StoreSpecial, Pass
    <3> QED
      BY <1>1, <1>2, <1>3, <1>4, <3>1, <3>2 DEF LineInv, CleanInv, ToldInv, Told
  <2>3. CASE Advance
    <3>1. AtFrame' /\ Current' = Current
      BY <1>1, <2>1, <2>3, AdvanceFrame
    <3>2. call' /\ updates' = updates
      BY <1>4, <2>3 DEF Advance
    <3> QED
      BY <1>1, <1>2, <1>3, <1>4, <3>1, <3>2 DEF LineInv, CleanInv, ToldInv, Told
  <2>4. CASE Return
    <3>1. AtFrame' /\ Current' = Current /\ gone > 0
      BY <1>1, <2>1, <2>4, ReturnFrame
    <3>2. updates' = updates
      BY <2>4 DEF Return
    <3> QED
      BY <1>1, <1>2, <1>3, <1>4, <3>1, <3>2 DEF LineInv, CleanInv, ToldInv, Told
  <2>5. CASE PacketReceived
    <3>1. gone = 0
      BY <1>1, <2>1, <2>5, EndFrame DEF PacketReceived
    <3>2. ~call' /\ BetweenPackets'
      BY <2>5 DEF PacketReceived, Leave, set_state, BetweenPackets
    <3>3. CleanInv'
      BY <1>4, <3>1, <3>2 DEF CleanInv
    <3>4. orderly => Told'
      BY <1>1, <2>1, <2>5, PacketTold DEF ToldInv
    <3> QED
      BY <1>1, <1>2, <1>3, <1>4, <3>3, <3>4 DEF LineInv, ToldInv
  <2>6. ~Overflow
    BY <1>1, <2>1, OverflowFrame
  <2> QED
    BY <2>2, <2>3, <2>4, <2>5, <2>6 DEF Parse
<1> QED
  BY <1>5, <1>6

\* The debug build gives up, which counts as a loss.
LEMMA OopsStep ==
    ASSUME LineInv, Oops, Disturbed, UNCHANGED << sent, due, head, gone, attached, faults >>
    PROVE  LineInv'
<1>1. ParserInv'
  BY ParserParse DEF LineInv
<1>2. orderly' \in BOOLEAN /\ clean' \in BOOLEAN
  BY DEF Disturbed
<1>3. PlaceInv' /\ DueInv'
  BY <1>2, DueStays DEF LineInv, PlaceInv, Size
<1> QED
  BY <1>1, <1>3, AfterLoss

\* A frame is sent behind the others.
LEMMA SendStep == ASSUME LineInv, NEW fr \in Frames, Send(fr) PROVE LineInv'
<1> PICK m : m = Len(sent)
  OBVIOUS
<1> PICK d : d = Len(due)
  OBVIOUS
<1>1. ParserInv /\ PlaceInv /\ DueInv /\ CleanInv /\ ToldInv
  BY DEF LineInv
<1>2. /\ sent' = Append(sent, fr)
      /\ due' = IF Reports(fr.bytes) THEN Append(due, Len(sent')) ELSE due
      /\ UNCHANGED << vars, head, gone, attached, faults, orderly, clean >>
  BY DEF Send
<1>3. /\ sent \in Seq(Frames) /\ m \in Nat /\ due \in Seq(1 .. m) /\ d \in Nat
      /\ \A i \in 1 .. d : due[i] \in 1 .. m
  <2>1. sent \in Seq(Frames) /\ due \in Seq(1 .. m)
    BY <1>1 DEF PlaceInv, DueInv
  <2> QED
    BY <2>1, LenProperties, ElementOfSeq
<1>4. /\ sent' \in Seq(Frames) /\ Len(sent') = m + 1 /\ sent'[m + 1] = fr
      /\ \A k \in 1 .. m : sent'[k] = sent[k]
  BY <1>2, <1>3, AppendProperties
<1>5. \A k \in 1 .. m : Size(k)' = Size(k)
  BY <1>4 DEF Size
<1>6. ParserInv'
  BY <1>1, <1>2, ParserStays
<1>7. PlaceInv'
  <2>1. gone > 0 => head \in 1 .. m
    BY <1>1, <1>3 DEF PlaceInv
  <2>2. gone' > 0 => head' <= Len(sent') /\ gone' < Size(head)'
    BY <1>1, <1>2, <1>3, <1>4, <1>5, <2>1 DEF PlaceInv
  <2>3. head' \in 1 .. Len(sent') + 1 /\ gone' \in Nat /\ faults' \in Nat
    BY <1>1, <1>2, <1>3, <1>4 DEF PlaceInv
  <2>4. attached' \in BOOLEAN /\ orderly' \in BOOLEAN /\ clean' \in BOOLEAN
    BY <1>1, <1>2 DEF PlaceInv
  <2> QED
    BY <1>4, <2>2, <2>3, <2>4 DEF PlaceInv
<1>8. /\ \A i \in 1 .. d : due'[i] = due[i]
      /\ Reports(fr.bytes) => Len(due') = d + 1 /\ due'[d + 1] = m + 1
      /\ ~Reports(fr.bytes) => Len(due') = d
      /\ due' \in Seq(1 .. m + 1)
  <2>1. due \in Seq(1 .. m + 1)
    <3>1. 1 .. m \subseteq 1 .. m + 1
      BY <1>3
    <3> QED
      BY <1>3, <3>1, SeqMonotonic
  <2>2. m + 1 \in 1 .. m + 1
    BY <1>3
  <2>3. CASE Reports(fr.bytes)
    <3>1. due' = Append(due, m + 1)
      BY <1>2, <1>4, <2>3
    <3> QED
      BY <2>1, <2>2, <2>3, <3>1, AppendProperties
  <2>4. CASE ~Reports(fr.bytes)
    BY <1>2, <2>1, <2>4
  <2> QED
    BY <2>3, <2>4
<1>9. DueInv'
  <2>1. ASSUME NEW i \in 1 .. Len(due')
        PROVE  \/ i \in 1 .. d /\ due'[i] = due[i] /\ due[i] \in 1 .. m
               \/ i = d + 1 /\ due'[i] = m + 1 /\ Reports(fr.bytes)
    <3>1. i \in 1 .. d \/ (Reports(fr.bytes) /\ i = d + 1)
      BY <1>3, <1>8
    <3> QED
      BY <1>3, <1>8, <3>1
  <2>2. ASSUME NEW i \in 1 .. Len(due'), NEW j \in 1 .. Len(due'), i < j
        PROVE  due'[i] < due'[j]
    <3>1. i \in 1 .. d
      BY <1>3, <1>8, <2>1, <2>2
    <3>2. due'[i] = due[i] /\ due[i] \in 1 .. m
      BY <1>3, <1>8, <3>1
    <3>3. CASE j \in 1 .. d
      BY <1>1, <1>8, <2>2, <3>1, <3>2, <3>3 DEF DueInv
    <3>4. CASE j = d + 1
      BY <1>3, <2>1, <3>2, <3>4
    <3> QED
      BY <2>1, <3>3, <3>4
  <2>3. ASSUME NEW i \in 1 .. Len(due') PROVE Reports(sent'[due'[i]].bytes)
    <3>1. CASE i \in 1 .. d
      BY <1>1, <1>3, <1>4, <1>8, <3>1 DEF DueInv
    <3>2. CASE i = d + 1
      BY <1>3, <1>4, <2>1, <3>2
    <3> QED
      BY <2>1, <3>1, <3>2
  <2>4. ASSUME NEW k \in 1 .. m + 1, Reports(sent'[k].bytes)
        PROVE  \E i \in 1 .. Len(due') : due'[i] = k
    <3>1. CASE k \in 1 .. m
      <4>1. PICK i \in 1 .. d : due[i] = k
        BY <1>1, <1>4, <2>4, <3>1 DEF DueInv
      <4>2. i \in 1 .. Len(due') /\ due'[i] = k
        BY <1>3, <1>8, <4>1
      <4> QED
        BY <4>2
    <3>2. CASE k = m + 1
      <4>1. Reports(fr.bytes)
        BY <1>4, <2>4, <3>2
      <4>2. d + 1 \in 1 .. Len(due') /\ due'[d + 1] = k
        BY <1>3, <1>8, <3>2, <4>1
      <4> QED
        BY <4>2
    <3> QED
      BY <1>3, <3>1, <3>2
  <2> QED
    BY <1>4, <1>8, <2>2, <2>3, <2>4 DEF DueInv
<1>10. Current' = Current /\ call' = call /\ gone' = gone /\ rest' = rest
       /\ updates' = updates /\ clean' = clean /\ orderly' = orderly
  BY <1>2 DEF Current, vars
<1>11. CleanInv'
  <2> SUFFICES ASSUME clean PROVE (IF call \/ gone > 0 THEN AtFrame ELSE BetweenPackets)'
    BY <1>10 DEF CleanInv
  <2>1. CASE call \/ gone > 0
    <3> PICK k : k = Current
      OBVIOUS
    <3> PICK c : c = Taken
      OBVIOUS
    <3>1. AtFrame
      BY <1>1, <2>1 DEF CleanInv
    <3>2. k \in 1 .. m /\ Read(sent[k], c)
      BY <3>1 DEF AtFrame
    <3>3. Current' = k /\ sent'[k] = sent[k] /\ Size(k)' = Size(k) /\ Size(Current)' = Size(k)
      BY <1>4, <1>5, <1>10, <3>2 DEF Size
    <3>4. Taken' = c
      <4>1. call /\ gone = 0 => Size(head - 1)' = Size(head - 1)
        BY <1>2, <1>4, <3>2 DEF Current, Size
      <4> QED
        BY <1>10, <4>1 DEF Taken
    <3>5. Read(sent[k], c)'
      <4>1. \A f, n : Read(f, n) => Read(f, n)'
        BY <1>2 DEF Read, Aligned, FieldStart, FieldSize, vars
      <4>2. PICK f : f = sent[k]
        OBVIOUS
      <4>3. Read(f, c)'
        BY <3>2, <4>1, <4>2
      <4>4. sent'[k] = f
        BY <3>3, <4>2
      <4> QED
        BY <4>3, <4>4
    <3>6. Read(sent[Current], Taken)'
      BY <3>3, <3>4, <3>5
    <3>7. AtFrame'
      BY <1>3, <1>4, <1>10, <3>1, <3>2, <3>3, <3>4, <3>6 DEF AtFrame
    <3> QED
      BY <1>10, <2>1, <3>7
  <2>2. CASE ~(call \/ gone > 0)
    BY <1>1, <1>2, <1>10, <2>2 DEF CleanInv, BetweenPackets, vars
  <2> QED
    BY <2>1, <2>2
<1>12. ToldInv'
  <2> SUFFICES ASSUME orderly PROVE clean /\ Told'
    BY <1>10 DEF ToldInv
  <2>1. clean /\ Told
    BY <1>1 DEF ToldInv
  <2>2. Len(updates) <= d /\ Len(updates) \in Nat
    BY <1>1, <2>1, LenProperties DEF Told, ParserInv, IInv, TypeOK
  <2>3. Current \in Int /\ Current <= m + 1
    BY <1>1, <1>3 DEF PlaceInv, Current
  <2>4. ASSUME NEW i \in 1 .. Len(due') PROVE i <= Len(updates) <=> due'[i] < Current
    <3>1. CASE i \in 1 .. d
      BY <1>8, <2>1, <3>1 DEF Told
    <3>2. CASE Reports(fr.bytes) /\ i = d + 1
      BY <1>3, <1>8, <2>2, <2>3, <3>2
    <3> QED
      BY <1>3, <1>8, <3>1, <3>2
  <2>5. ASSUME NEW i \in 1 .. Len(updates)
        PROVE  updates[i] = ReadingOf(sent'[due'[i]].bytes)
    <3>1. i \in 1 .. d
      BY <1>3, <2>2
    <3>2. due'[i] = due[i] /\ sent'[due[i]] = sent[due[i]]
      BY <1>3, <1>4, <1>8, <3>1
    <3> QED
      BY <2>1, <3>2 DEF Told
  <2>6. Len(updates) <= Len(due')
    BY <1>3, <1>8, <2>2
  <2> QED
    BY <1>10, <2>1, <2>4, <2>5, <2>6 DEF Told
<1> QED
  BY <1>6, <1>7, <1>9, <1>11, <1>12 DEF LineInv

\* Every step of line and parser.
LEMMA LineStep == ASSUME LineInv, [LineNext]_lineVars PROVE LineInv'
<1>1. PlaceInv
  BY DEF LineInv
<1> QED
  BY <1>1, LineMoves, SendStep, ReceiveStep, AcrossStep, GoneStep, StandStill, ParseStep,
     OopsStep

-----------------------------------------------------------------------------

\* Parser and line keep in step, whatever is sent, however it is escaped and cut,
\* and whatever is lost.
THEOREM LineInvariance == LineSpec => []LineInv
<1>1. LineInv /\ [LineNext]_lineVars => LineInv'
  BY LineStep
<1> QED
  BY <1>1, LineInitInv, PTL DEF LineSpec

\* Nothing that the line or the tty layer does touches the fields of the parser.
LEMMA LineAlignedNext ==
    ASSUME LineInv, LineInv', Aligned, MAX_PACKET_LEN >= 265, [LineNext]_lineVars
    PROVE  Aligned'
<1>1. ASSUME UNCHANGED << machine, pos, packet >> PROVE Aligned'
  BY <1>1 DEF Aligned, FieldStart, FieldSize, machine
<1>2. ASSUME UNCHANGED vars PROVE Aligned'
  BY <1>1, <1>2 DEF vars, machine
<1>3. ASSUME NEW b, ReceivedBuf(b) PROVE Aligned'
  BY <1>1, <1>3 DEF ReceivedBuf
<1>4. CASE LineParse
  BY <1>4, AlignedNext DEF LineParse, Next, LineInv, ParserInv
<1>5. CASE Deliver
  BY <1>2, <1>3, <1>5 DEF Deliver, Receive, ReceiveElsewhere, ReceiveAcross
<1> QED
  BY <1>2, <1>4, <1>5 DEF LineNext, Send, LoseByte, CloseLdisc, OpenLdisc, lineVars

\* packet[] as long as the table allows for (lunix-protocol.c:86): every field lies
\* where the table puts it, whatever the line has lost and however often the
\* discipline has been closed in the middle of a packet.
THEOREM LineAligned == ASSUME MAX_PACKET_LEN >= 265 PROVE LineSpec => []Aligned
<1>1. LineInit => Aligned
  BY DEF LineInit, Init, Aligned, FieldStart, FieldSize
<1>2. LineInv /\ LineInv' /\ Aligned /\ [LineNext]_lineVars => Aligned'
  BY LineAlignedNext
<1> QED
  BY <1>1, <1>2, LineInvariance, PTL DEF LineSpec

\* A frame that comes to a parser between two packets, without a loss and alone, is
\* completed byte for byte (lunix_protocol_parse_state undoes every escape).
THEOREM FramesComplete == LineSpec => []RoundTrip
<1>1. LineInv => RoundTrip
  <2> SUFFICES ASSUME LineInv, clean, Complete, state = SEEKING_END_BYTE
               PROVE  /\ head - 1 \in DOMAIN sent
                      /\ pos = Len(sent[head - 1].bytes)
                      /\ \A i \in 1 .. pos : packet[i - 1] = sent[head - 1].bytes[i]
    BY DEF RoundTrip
  <2>1. ParserInv /\ PlaceInv /\ AtFrame
    BY DEF LineInv, CleanInv, Complete
  <2>2. /\ Current = head - 1 /\ Current \in 1 .. Len(sent) /\ sent[Current] \in Frames
        /\ Read(sent[Current], Len(sent[Current].line))
    BY <2>1, EndFrame
  <2>3. DOMAIN sent = 1 .. Len(sent)
    BY <2>1, LenProperties DEF PlaceInv
  <2> QED
    BY <2>2, <2>3, ReadAll
<1> QED
  BY <1>1, LineInvariance, PTL

\* As long as nothing is lost, the sensors are told what was reported, in this order
\* and once (lunix_protocol_update_sensors).
THEOREM ReportsInOrder == LineSpec => []InOrder
<1>1. LineInv => InOrder
  <2> SUFFICES ASSUME LineInv, orderly PROVE IsPrefix(updates, Expected)
    BY DEF InOrder
  <2>1. Told
    BY DEF LineInv, ToldInv
  <2>2. due \in Seq(1 .. Len(sent)) /\ updates \in Seq(Readings)
    BY DEF LineInv, DueInv, ParserInv, IInv, TypeOK
  <2>3. /\ DOMAIN due = 1 .. Len(due) /\ Len(due) \in Nat
        /\ DOMAIN updates = 1 .. Len(updates) /\ Len(updates) \in Nat
    BY <2>2, LenProperties
  <2>4. Expected = [i \in 1 .. Len(due) |-> ReadingOf(sent[due[i]].bytes)]
    BY <2>3 DEF Expected
  <2> DEFINE S == {ReadingOf(sent[due[i]].bytes) : i \in 1 .. Len(due)}
  <2>5. Expected \in [1 .. Len(due) -> S]
    BY <2>4
  <2> HIDE DEF S
  <2>6. Expected \in Seq(S) /\ Len(Expected) = Len(due)
    BY <2>3, <2>5, IsASeq, LenProperties
  <2>7. \A i \in 1 .. Len(updates) : updates[i] = Expected[i]
    BY <2>1, <2>3, <2>4 DEF Told
  <2> QED
    BY <2>1, <2>3, <2>6, <2>7 DEF IsPrefix, Told
<1> QED
  BY <1>1, LineInvariance, PTL
=============================================================================
