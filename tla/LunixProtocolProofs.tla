------------------------- MODULE LunixProtocolProofs -------------------------
(***************************************************************************)
(* What holds of the parser for every stream of bytes, every way of        *)
(* cutting it into calls and every size of packet[].                       *)
(***************************************************************************)
EXTENDS LunixProtocol, SequenceTheorems, TLAPS

USE DEF SEEKING_START_BYTE, SEEKING_PACKET_TYPE, SEEKING_DESTINATION_ADDRESS,
        SEEKING_AM_TYPE, SEEKING_AM_GROUP, SEEKING_PAYLOAD_LENGTH,
        SEEKING_PAYLOAD, SEEKING_CRC, SEEKING_END_BYTE

\* When a payload length is complete its byte is behind pos, even where an
\* overflow has reset pos: a field of one byte has nothing to lose to the reset.
LengthStored == state = SEEKING_PAYLOAD_LENGTH =>
                    bytes_to_read = 1 /\ (bytes_read > 0 => pos > 0)

\* The inductive invariant, for packet[] of any size.
IInv == TypeOK /\ NeverStuck /\ EscapeStaysInField /\ LengthStored

-----------------------------------------------------------------------------

\* Flipping bit 5 of a byte (data[*i]^0x20) gives a byte.
LEMMA FlipType == \A b \in Byte : Flip(b) \in Byte
BY DEF Flip, Byte

\* The head and the tail of an unfinished buffer.
LEMMA RestType == ASSUME TypeOK, InLoop
                  PROVE  Head(rest) \in Byte /\ Tail(rest) \in Seq(Byte)
BY HeadTailProperties DEF TypeOK, InLoop

\* A 16-bit field of the packet is a number: the offsets lie inside packet[].
LEMMA WordType == ASSUME TypeOK PROVE \A o \in Offsets : uint16(o) \in Nat
<1> SUFFICES ASSUME NEW o \in Offsets PROVE uint16(o) \in Nat
  OBVIOUS
<1>1. o \in 0 .. (MAX_PACKET_LEN - 1) /\ o + 1 \in 0 .. (MAX_PACKET_LEN - 1)
  BY ProtocolAssumption
<1>2. packet[o] \in Byte /\ packet[o + 1] \in Byte
  BY <1>1 DEF TypeOK
<1>3. \A x, y \in Byte : x + 256 * y \in Nat
  BY SMT DEF Byte
<1> QED
  BY <1>2, <1>3 DEF uint16

\* What lunix_protocol_update_sensors takes from the packet is a reading.
LEMMA ReadingType == ASSUME TypeOK PROVE Reading \in Readings
BY WordType DEF Reading, Readings, Offsets

\* A store (packet[pos] = b; ++pos; ++bytes_read) below the end of packet[] and
\* inside the field keeps the three in their ranges.
LEMMA StoreType ==
    ASSUME TypeOK, InLoop, Pass, NEW b \in Byte, Store(b)
    PROVE  /\ packet' \in [0 .. (MAX_PACKET_LEN - 1) -> Byte]
           /\ pos' \in 1 .. MAX_PACKET_LEN
           /\ bytes_read' \in 0 .. bytes_to_read'
           /\ bytes_to_read' \in Byte
BY ProtocolAssumption DEF TypeOK, InLoop, Pass, Store, Byte

\* A pass of the loop leaves the call running, in the same field.
LEMMA PassType ==
    ASSUME TypeOK, Pass
    PROVE  /\ rest' \in Seq(Byte) /\ iter' \in Nat /\ call' /\ call' \in BOOLEAN
           /\ state' \in States /\ state' = state
           /\ calls' \in Nat /\ updates' \in Seq(Readings)
BY RestType DEF TypeOK, Pass, InLoop

\* Leaving the call.
LEMMA LeaveType ==
    ASSUME Leave
    PROVE  rest' \in Seq(Byte) /\ iter' \in Nat /\ ~call' /\ call' \in BOOLEAN
<1>1. rest' \in Seq(Byte) /\ iter' \in Nat
  BY SMT DEF Leave
<1>2. ~call' /\ call' \in BOOLEAN
  BY Zenon DEF Leave
<1> QED
  BY <1>1, <1>2

\* The number of bytes the next field has is a byte: the payload length is read
\* from where it has just been stored.
LEMMA WantedType == ASSUME IInv, Complete, state # SEEKING_END_BYTE
                    PROVE  Wanted(state + 1) \in Byte
<1>1. CASE state = SEEKING_PAYLOAD_LENGTH
  <2>1. bytes_read \in Nat /\ bytes_to_read \in Byte /\ pos \in 0 .. MAX_PACKET_LEN
    BY DEF IInv, TypeOK, Byte
  <2>2. CASE pos > 0
    <3>1. packet[pos - 1] \in Byte
      BY <2>1, <2>2, ProtocolAssumption DEF IInv, TypeOK
    <3> QED
      BY <1>1, <3>1 DEF Wanted
  <2> QED
    BY <1>1, <2>1, <2>2 DEF IInv, LengthStored, Complete
<1>2. CASE state # SEEKING_PAYLOAD_LENGTH
  <2>1. state + 1 # SEEKING_PAYLOAD
    BY <1>2 DEF IInv, TypeOK, States
  <2>2. 1 \in Byte /\ 2 \in Byte
    BY DEF Byte
  <2> QED
    BY <2>1, <2>2 DEF Wanted
<1> QED
  BY <1>1, <1>2

-----------------------------------------------------------------------------
(* The invariant is inductive. *)

\* The zeroed structure lunix_protocol_init leaves satisfies it.
LEMMA InitInv == Init => IInv
<1> SUFFICES ASSUME Init PROVE IInv
  OBVIOUS
<1>1. packet \in [0 .. (MAX_PACKET_LEN - 1) -> Byte]
  BY DEF Init, Byte
<1>2. rest \in Seq(Byte) /\ updates \in Seq(Readings)
  BY DEF Init
<1>3. call \in BOOLEAN
  BY Zenon DEF Init
<1>4. TypeOK
  BY <1>1, <1>2, <1>3, ProtocolAssumption DEF Init, TypeOK, Byte, States, Special
<1> QED
  BY <1>4 DEF Init, IInv, NeverStuck, EscapeStaysInField, LengthStored

\* A call with a buffer of bytes.
LEMMA CallStep ==
    ASSUME IInv, NEW b \in Seq(Byte), ReceivedBuf(b),
           calls' \in Nat
    PROVE  IInv'
<1>1. call' \in BOOLEAN /\ call'
  BY Zenon DEF ReceivedBuf
<1>2. TypeOK'
  BY <1>1 DEF IInv, TypeOK, ReceivedBuf, machine
<1>3. NeverStuck'
  BY <1>1 DEF NeverStuck
<1> QED
  BY <1>2, <1>3 DEF IInv, TypeOK, ReceivedBuf, machine, EscapeStaysInField,
     LengthStored, UseSpecials

\* Giving up in the middle of a field: the debug guard, and the end of the buffer.
LEMMA GiveUpStep ==
    ASSUME IInv, bytes_read < bytes_to_read, Leave,
           UNCHANGED <<machine, pos, next_is_special, packet, calls, updates>>
    PROVE  IInv'
<1>1. TypeOK'
  BY LeaveType DEF IInv, TypeOK, machine
<1> QED
  BY <1>1 DEF IInv, machine, NeverStuck, EscapeStaysInField, LengthStored, UseSpecials

\* Giving up because packet[] is full: pos is reset, the field is not.
LEMMA OverflowStep == ASSUME IInv, Overflow PROVE IInv'
<1>1. TypeOK'
  BY LeaveType, ProtocolAssumption DEF IInv, TypeOK, Overflow, machine
<1>2. NeverStuck' /\ EscapeStaysInField'
  BY DEF IInv, Overflow, InLoop, machine, NeverStuck, EscapeStaysInField, UseSpecials
<1>3. LengthStored'
  <2>1. bytes_read < bytes_to_read /\ bytes_read \in Nat
    BY DEF IInv, TypeOK, Overflow, InLoop, Byte
  <2> QED
    BY <2>1 DEF IInv, Overflow, machine, LengthStored
<1> QED
  BY <1>1, <1>2, <1>3 DEF IInv

\* Storing a byte outside the escaped fields: the start, the type, the end.
LEMMA StoreRawStep == ASSUME IInv, StoreRaw PROVE IInv'
<1>1. Head(rest) \in Byte /\ InLoop /\ Pass
  BY RestType DEF IInv, StoreRaw, Pass
<1>2. TypeOK'
  BY <1>1, StoreType, PassType DEF IInv, TypeOK, StoreRaw
<1>3. NeverStuck'
  BY <1>1, PassType DEF IInv, NeverStuck
<1>4. EscapeStaysInField'
  BY <1>1 DEF IInv, EscapeStaysInField, StoreRaw, Pass, UseSpecials
<1>5. LengthStored'
  BY <1>1, StoreType DEF IInv, LengthStored, StoreRaw, Pass
<1> QED
  BY <1>2, <1>3, <1>4, <1>5 DEF IInv

\* Storing a plain byte.
LEMMA StorePlainStep == ASSUME IInv, StorePlain PROVE IInv'
<1>1. Head(rest) \in Byte /\ InLoop /\ Pass
  BY RestType DEF IInv, StorePlain, Pass
<1>2. TypeOK'
  BY <1>1, StoreType, PassType DEF IInv, TypeOK, StorePlain
<1>3. NeverStuck'
  BY <1>1, PassType DEF IInv, NeverStuck
<1>4. EscapeStaysInField'
  BY <1>1 DEF IInv, EscapeStaysInField, StorePlain, Pass, UseSpecials
<1>5. LengthStored'
  BY <1>1, StoreType DEF IInv, LengthStored, StorePlain, Pass
<1> QED
  BY <1>2, <1>3, <1>4, <1>5 DEF IInv

\* Remembering an escape.
LEMMA SeeSpecialStep == ASSUME IInv, SeeSpecial PROVE IInv'
<1>1. InLoop /\ Pass
  BY DEF SeeSpecial, Pass
<1>2. TypeOK'
  BY <1>1, PassType DEF IInv, TypeOK, SeeSpecial, Pass
<1>3. NeverStuck'
  BY <1>1, PassType DEF IInv, NeverStuck
<1>4. EscapeStaysInField'
  BY <1>1 DEF IInv, EscapeStaysInField, SeeSpecial, Pass, InLoop, UseSpecials
<1>5. LengthStored'
  BY <1>1 DEF IInv, LengthStored, SeeSpecial, Pass
<1> QED
  BY <1>2, <1>3, <1>4, <1>5 DEF IInv

\* Storing the byte an escape announced.
LEMMA StoreSpecialStep == ASSUME IInv, StoreSpecial PROVE IInv'
<1> DEFINE b == IF next_is_special = 126 THEN Head(rest) ELSE Flip(Head(rest))
<1>1. InLoop /\ Pass /\ Store(b) /\ next_is_special' = 0
  BY DEF StoreSpecial, Pass
<1>2. b \in Byte
  BY <1>1, RestType, FlipType DEF IInv
<1> HIDE DEF b
<1>3. TypeOK'
  BY <1>1, <1>2, StoreType, PassType DEF IInv, TypeOK
<1>4. NeverStuck'
  BY <1>1, PassType DEF IInv, NeverStuck
<1>5. EscapeStaysInField'
  BY <1>1 DEF EscapeStaysInField
<1>6. LengthStored'
  BY <1>1, <1>2, StoreType DEF IInv, LengthStored, Pass
<1> QED
  BY <1>3, <1>4, <1>5, <1>6 DEF IInv

\* On to the next field: nothing is pending, and its size is a byte.
LEMMA AdvanceStep == ASSUME IInv, Advance PROVE IInv'
<1>1. Complete /\ state # SEEKING_END_BYTE
  BY DEF Advance
<1>2. Wanted(state + 1) \in Byte
  BY <1>1, WantedType
<1>3. next_is_special = 0
  BY <1>1 DEF IInv, TypeOK, EscapeStaysInField, Complete, Byte
<1>4. state + 1 \in States
  BY <1>1 DEF IInv, TypeOK, States
<1>5. TypeOK'
  <2>1. state' \in States /\ bytes_to_read' \in Byte /\ bytes_read' = 0 /\ iter' \in Nat
    BY <1>2, <1>4 DEF Advance, set_state
  <2>2. bytes_read' \in 0 .. bytes_to_read'
    BY <2>1 DEF Byte
  <2> QED
    BY <2>1, <2>2 DEF IInv, TypeOK, Advance
<1>6. NeverStuck'
  BY <1>1 DEF NeverStuck, Advance, Complete
<1>7. EscapeStaysInField'
  BY <1>3 DEF EscapeStaysInField, Advance
<1>8. LengthStored'
  BY DEF LengthStored, Advance, set_state, Wanted
<1> QED
  BY <1>5, <1>6, <1>7, <1>8 DEF IInv

\* The end of a packet.
LEMMA PacketStep == ASSUME IInv, PacketReceived PROVE IInv'
<1>1. updates' \in Seq(Readings)
  BY ReadingType DEF IInv, TypeOK, PacketReceived
<1>2. TypeOK'
  BY <1>1, LeaveType, ProtocolAssumption
     DEF IInv, TypeOK, PacketReceived, set_state, States, Byte
<1> QED
  BY <1>2 DEF IInv, PacketReceived, set_state, NeverStuck, EscapeStaysInField, LengthStored

\* Every step of the parser or of its caller.
LEMMA NextInv == ASSUME IInv, [Next]_vars PROVE IInv'
<1>1. ASSUME NEW b \in Buffers, Call(b) PROVE IInv'
  BY <1>1, CallStep, ProtocolAssumption DEF Call, IInv, TypeOK
<1>2. CASE Oops
  BY <1>2, GiveUpStep DEF Oops, InLoop
<1>3. CASE Return
  BY <1>3, GiveUpStep DEF Return
<1>4. CASE UNCHANGED vars
  BY <1>4 DEF vars, IInv, TypeOK, NeverStuck, EscapeStaysInField, LengthStored, UseSpecials
<1> QED
  BY <1>1, <1>2, <1>3, <1>4, OverflowStep, StoreRawStep, StorePlainStep,
     SeeSpecialStep, StoreSpecialStep, AdvanceStep, PacketStep DEF Next, Parse

\* For every stream of bytes and every size of packet[], the invariant holds.
THEOREM Invariance == Spec => []IInv
<1>1. Init => IInv
  BY InitInv
<1>2. IInv /\ [Next]_vars => IInv'
  BY NextInv
<1> QED
  BY <1>1, <1>2, PTL DEF Spec

\* The parser never writes outside packet[], in particular.
THEOREM TypeCorrect == Spec => []TypeOK
<1>1. IInv => TypeOK
  BY DEF IInv
<1> QED
  BY <1>1, Invariance, PTL

\* Between calls, a field is waiting for a byte.
THEOREM CallsEndWaiting == Spec => []NeverStuck
<1>1. IInv => NeverStuck
  BY DEF IInv
<1> QED
  BY <1>1, Invariance, PTL

\* A pending escape never leaves its field.
THEOREM EscapesAreLocal == Spec => []EscapeStaysInField
<1>1. IInv => EscapeStaysInField
  BY DEF IInv
<1> QED
  BY <1>1, Invariance, PTL

-----------------------------------------------------------------------------
(* A packet[] of at least 265 bytes, 7 + 255 + 3, holds every packet.  The  *)
(* 300 of lunix-protocol.h does.                                            *)

\* The packet table, state by state: the size of the field and the next offset.
Layout == /\ state = 1 => bytes_to_read = 1 /\ pos = 0 + bytes_read
          /\ state = 2 => bytes_to_read = 1 /\ pos = 1 + bytes_read
          /\ state = 3 => bytes_to_read = 2 /\ pos = 2 + bytes_read
          /\ state = 4 => bytes_to_read = 1 /\ pos = 4 + bytes_read
          /\ state = 5 => bytes_to_read = 1 /\ pos = 5 + bytes_read
          /\ state = 6 => bytes_to_read = 1 /\ pos = 6 + bytes_read
          /\ state = 7 => bytes_to_read = packet[6] /\ pos = 7 + bytes_read
          /\ state = 8 => bytes_to_read = 2 /\ pos = 7 + packet[6] + bytes_read
          /\ state = 9 => bytes_to_read = 1 /\ pos = 9 + packet[6] + bytes_read

\* Alignment, read state by state, before a step ...
LEMMA AlignedIn == ASSUME state \in 1 .. 9 PROVE Aligned <=> Layout
<1>1. CASE state = 1
  BY <1>1 DEF Aligned, Layout, FieldStart, FieldSize
<1>2. CASE state = 2
  BY <1>2 DEF Aligned, Layout, FieldStart, FieldSize
<1>3. CASE state = 3
  BY <1>3 DEF Aligned, Layout, FieldStart, FieldSize
<1>4. CASE state = 4
  BY <1>4 DEF Aligned, Layout, FieldStart, FieldSize
<1>5. CASE state = 5
  BY <1>5 DEF Aligned, Layout, FieldStart, FieldSize
<1>6. CASE state = 6
  BY <1>6 DEF Aligned, Layout, FieldStart, FieldSize
<1>7. CASE state = 7
  BY <1>7 DEF Aligned, Layout, FieldStart, FieldSize
<1>8. CASE state = 8
  BY <1>8 DEF Aligned, Layout, FieldStart, FieldSize
<1>9. CASE state = 9
  BY <1>9 DEF Aligned, Layout, FieldStart, FieldSize
<1> QED
  BY <1>1, <1>2, <1>3, <1>4, <1>5, <1>6, <1>7, <1>8, <1>9

\* ... and after it.
LEMMA AlignedAfter == ASSUME state' \in 1 .. 9 PROVE Aligned' <=> Layout'
<1>1. CASE state' = 1
  BY <1>1 DEF Aligned, Layout, FieldStart, FieldSize
<1>2. CASE state' = 2
  BY <1>2 DEF Aligned, Layout, FieldStart, FieldSize
<1>3. CASE state' = 3
  BY <1>3 DEF Aligned, Layout, FieldStart, FieldSize
<1>4. CASE state' = 4
  BY <1>4 DEF Aligned, Layout, FieldStart, FieldSize
<1>5. CASE state' = 5
  BY <1>5 DEF Aligned, Layout, FieldStart, FieldSize
<1>6. CASE state' = 6
  BY <1>6 DEF Aligned, Layout, FieldStart, FieldSize
<1>7. CASE state' = 7
  BY <1>7 DEF Aligned, Layout, FieldStart, FieldSize
<1>8. CASE state' = 8
  BY <1>8 DEF Aligned, Layout, FieldStart, FieldSize
<1>9. CASE state' = 9
  BY <1>9 DEF Aligned, Layout, FieldStart, FieldSize
<1> QED
  BY <1>1, <1>2, <1>3, <1>4, <1>5, <1>6, <1>7, <1>8, <1>9

\* The payload length is a byte.
LEMMA LengthType == ASSUME IInv, MAX_PACKET_LEN >= 7 PROVE packet[6] \in 0 .. 255
<1>1. 6 \in 0 .. (MAX_PACKET_LEN - 1)
  BY ProtocolAssumption
<1> QED
  BY <1>1 DEF IInv, TypeOK, Byte

\* A field that wants a byte begins and ends inside packet[].
LEMMA RoomLeft ==
    ASSUME IInv, Aligned, MAX_PACKET_LEN >= 265, bytes_read < bytes_to_read
    PROVE  pos < 265
<1>1. state \in 1 .. 9 /\ bytes_read \in Nat /\ bytes_to_read \in Nat
  BY DEF IInv, TypeOK, States, Byte
<1>2. packet[6] \in 0 .. 255
  BY LengthType, ProtocolAssumption
<1> QED
  BY <1>1, <1>2, AlignedIn DEF Layout

\* So the overflow branch is dead.
LEMMA NoOverflow == ASSUME IInv, Aligned, MAX_PACKET_LEN >= 265 PROVE ~Overflow
<1> SUFFICES ASSUME Overflow PROVE FALSE
  OBVIOUS
<1>1. bytes_read < bytes_to_read /\ pos = MAX_PACKET_LEN
  BY DEF Overflow, InLoop
<1>2. pos < 265
  BY <1>1, RoomLeft
<1> QED
  BY <1>1, <1>2, ProtocolAssumption

\* Storing a byte moves pos and bytes_read together, and never touches the
\* payload length of a field that depends on it.
LEMMA AlignedStore ==
    ASSUME IInv, Aligned, MAX_PACKET_LEN >= 7, Pass, NEW b \in Byte, Store(b), IInv'
    PROVE  Aligned'
<1>1. state \in 1 .. 9 /\ bytes_read \in Nat /\ pos \in Nat
  BY DEF IInv, TypeOK, States, Byte
<1>2. state' = state /\ bytes_to_read' = bytes_to_read
      /\ pos' = pos + 1 /\ bytes_read' = bytes_read + 1
  BY DEF Pass, Store
<1>3. packet[6] \in Nat
  BY LengthType
<1>4. state >= 7 => pos >= 7
  BY <1>1, <1>3, AlignedIn DEF Layout
<1>5. state >= 7 => packet'[6] = packet[6]
  BY <1>1, <1>4 DEF Store, IInv, TypeOK
<1> QED
  BY <1>1, <1>2, <1>3, <1>5, AlignedIn, AlignedAfter DEF Layout

\* The next field begins where the last one ended, and the payload length is read
\* from offset 6.
LEMMA AlignedAdvance ==
    ASSUME IInv, Aligned, MAX_PACKET_LEN >= 7, Advance
    PROVE  Aligned'
<1>1. state \in 1 .. 8 /\ bytes_read = bytes_to_read
  BY DEF Advance, Complete, IInv, TypeOK, States
<1>2. /\ state' = state + 1 /\ bytes_read' = 0 /\ pos' = pos /\ packet' = packet
      /\ bytes_to_read' = Wanted(state + 1)
  BY DEF Advance, set_state
<1>3. packet[6] \in Nat
  BY LengthType
<1>4. state = 6 => pos - 1 = 6
  BY <1>1, AlignedIn DEF Layout
<1>5. Layout /\ state' \in 1 .. 9
  BY <1>1, <1>2, AlignedIn
<1>6. Layout'
  BY <1>1, <1>2, <1>3, <1>4, <1>5 DEF Layout, Wanted
<1> QED
  BY <1>5, <1>6, AlignedAfter

\* Every step keeps the state machine and the buffer in agreement.
LEMMA AlignedNext ==
    ASSUME IInv, Aligned, MAX_PACKET_LEN >= 265, [Next]_vars, IInv'
    PROVE  Aligned'
<1>0. MAX_PACKET_LEN >= 7
  BY ProtocolAssumption
<1>1. ASSUME UNCHANGED <<machine, pos, packet>> PROVE Aligned'
  BY <1>1 DEF Aligned, FieldStart, FieldSize, machine
<1>2. ASSUME NEW b \in Buffers, Call(b) PROVE Aligned'
  BY <1>1, <1>2 DEF Call, ReceivedBuf
<1>3. CASE Oops
  BY <1>1, <1>3 DEF Oops
<1>4. CASE StoreRaw
  BY <1>0, <1>4, AlignedStore, RestType DEF StoreRaw, Pass, IInv
<1>5. CASE StorePlain
  BY <1>0, <1>5, AlignedStore, RestType DEF StorePlain, Pass, IInv
<1>6. CASE SeeSpecial
  BY <1>1, <1>6 DEF SeeSpecial, Pass, machine
<1>7. CASE StoreSpecial
  BY <1>0, <1>7, AlignedStore, RestType, FlipType DEF StoreSpecial, Pass, IInv
<1>8. CASE Advance
  BY <1>0, <1>8, AlignedAdvance
<1>9. CASE PacketReceived
  BY <1>9 DEF PacketReceived, set_state, Aligned, FieldStart, FieldSize
<1>10. CASE Return
  BY <1>1, <1>10 DEF Return
<1>11. CASE UNCHANGED vars
  BY <1>1, <1>11 DEF vars, machine
<1> QED
  BY <1>2, <1>3, <1>4, <1>5, <1>6, <1>7, <1>8, <1>9, <1>10, <1>11, NoOverflow
     DEF Next, Parse

\* The byte taken for the payload length is the one at offset 6, and every field
\* lies where the packet table puts it, wherever the stream is cut.
THEOREM FieldsAligned == ASSUME MAX_PACKET_LEN >= 265 PROVE Spec => []Aligned
<1>1. Init => Aligned
  BY DEF Init, Aligned, FieldStart, FieldSize
<1>2. IInv /\ IInv' /\ Aligned /\ [Next]_vars => Aligned'
  BY AlignedNext
<1> QED
  BY <1>1, <1>2, Invariance, PTL DEF Spec

\* The overflow branch of lunix_protocol_parse_state is dead code.
THEOREM OverflowIsDead == ASSUME MAX_PACKET_LEN >= 265 PROVE Spec => NeverOverflows
<1>1. IInv /\ Aligned => ~Overflow
  BY NoOverflow
<1>2. IInv /\ Aligned /\ [Next]_vars => [~Overflow]_vars
  BY <1>1
<1> QED
  BY <1>2, Invariance, FieldsAligned, PTL DEF Spec, NeverOverflows
=============================================================================
