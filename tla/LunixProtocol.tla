---------------------------- MODULE LunixProtocol ----------------------------
(***************************************************************************)
(* The packet parser of Lunix:TNG (lunix-protocol.c): a state machine that *)
(* is called with whatever bytes the tty layer has, keeps its place in the *)
(* packet between calls, undoes the escaping and, at the last byte of a    *)
(* packet, hands the reading to lunix_sensor_update.                       *)
(*                                                                         *)
(* A step is one pass of the loop of lunix_protocol_parse_state, or one    *)
(* "if (state->state == ...)" of lunix_protocol_received_buf whose bytes   *)
(* are complete.  Nothing here interleaves: the line discipline is not     *)
(* re-entered.  What makes it hard is that a call may end at any byte.     *)
(***************************************************************************)
EXTENDS Integers, Sequences

CONSTANTS MAX_PACKET_LEN,
          PACKET_SIGNATURE_OFFSET, NODE_OFFSET, VREF_OFFSET,
          TEMPERATURE_OFFSET, LIGHT_OFFSET,
          lunix_sensor_cnt,
          LUNIX_DEBUG,     \* is the loop guard of the debug build compiled in?
          IterLimit,       \* the 50 of that guard
          Buffers,         \* what the tty layer may pass in one call
          MaxCalls         \* bound: calls of lunix_protocol_received_buf

Byte == 0 .. 255
Offsets == {PACKET_SIGNATURE_OFFSET, NODE_OFFSET, VREF_OFFSET,
            TEMPERATURE_OFFSET, LIGHT_OFFSET}

ASSUME ProtocolAssumption ==
    /\ MAX_PACKET_LEN \in Nat
    /\ \A o \in Offsets : o \in Nat /\ o + 1 < MAX_PACKET_LEN
    /\ lunix_sensor_cnt \in Nat
    /\ LUNIX_DEBUG \in BOOLEAN
    /\ IterLimit \in Nat \ {0}
    /\ Buffers \subseteq Seq(Byte)
    /\ MaxCalls \in Nat

VARIABLES state, bytes_read, bytes_to_read, pos, next_is_special,
          packet,    \* packet[]
          call,      \* is lunix_protocol_received_buf running?
          rest,      \* data[i .. length - 1], what the call has not consumed
          iter,      \* passes of the loop since lunix_protocol_parse_state began
          calls,     \* how many calls there have been
          updates    \* history: the readings handed to lunix_sensor_update

machine == <<state, bytes_read, bytes_to_read>>
vars == <<state, bytes_read, bytes_to_read, pos, next_is_special, packet,
          call, rest, iter, calls, updates>>

SEEKING_START_BYTE == 1
SEEKING_PACKET_TYPE == 2
SEEKING_DESTINATION_ADDRESS == 3
SEEKING_AM_TYPE == 4
SEEKING_AM_GROUP == 5
SEEKING_PAYLOAD_LENGTH == 6
SEEKING_PAYLOAD == 7
SEEKING_CRC == 8
SEEKING_END_BYTE == 9

\* lunix_protocol_init, on a zeroed structure.
Init == /\ state = SEEKING_START_BYTE
        /\ bytes_to_read = 1
        /\ bytes_read = 0
        /\ pos = 0
        /\ next_is_special = 0
        /\ packet = [i \in 0 .. (MAX_PACKET_LEN - 1) |-> 0]
        /\ call = FALSE
        /\ rest = <<>>
        /\ iter = 0
        /\ calls = 0
        /\ updates = <<>>

ReceivedBuf(b) ==
    /\ ~call
    /\ call' = TRUE
    /\ rest' = b
    /\ iter' = 0
    /\ UNCHANGED <<machine, pos, next_is_special, packet, updates>>

-----------------------------------------------------------------------------
(* One pass of the loop of lunix_protocol_parse_state. *)

InLoop == call /\ rest # <<>> /\ bytes_read < bytes_to_read
Tripped == LUNIX_DEBUG /\ iter + 1 = IterLimit
UseSpecials == state \in SEEKING_DESTINATION_ADDRESS .. SEEKING_CRC
Special == {126, 125}                          \* 0x7E, 0x7D

\* b ^ 0x20
Flip(b) == IF (b \div 32) % 2 = 1 THEN b - 32 ELSE b + 32

\* Leave the call; what is left of the buffer is gone.
Leave == call' = FALSE /\ rest' = <<>> /\ iter' = 0

\* The debug build gives up at pass IterLimit.
Oops == /\ InLoop
        /\ Tripped
        /\ Leave
        /\ UNCHANGED <<machine, pos, next_is_special, packet, calls, updates>>

\* "packet buffer would overflow!"
Overflow == /\ InLoop
            /\ ~Tripped
            /\ pos = MAX_PACKET_LEN
            /\ pos' = 0
            /\ Leave
            /\ UNCHANGED <<machine, next_is_special, packet, calls, updates>>

\* Mutant: no overflow guard before the store.
PassUnguarded ==
    /\ InLoop
    /\ ~Tripped
    /\ rest' = Tail(rest)
    /\ iter' = iter + 1
    /\ UNCHANGED <<state, bytes_to_read, call, calls, updates>>

Pass == /\ InLoop
        /\ ~Tripped
        /\ pos # MAX_PACKET_LEN
        /\ rest' = Tail(rest)
        /\ iter' = iter + 1
        /\ UNCHANGED <<state, bytes_to_read, call, calls, updates>>

Store(b) == /\ packet' = [packet EXCEPT ![pos] = b]
            /\ pos' = pos + 1
            /\ bytes_read' = bytes_read + 1

StoreRaw == /\ Pass
            /\ ~UseSpecials
            /\ Store(Head(rest))
            /\ UNCHANGED next_is_special

StorePlain == /\ Pass
              /\ UseSpecials
              /\ next_is_special = 0
              /\ Head(rest) \notin Special
              /\ Store(Head(rest))
              /\ UNCHANGED next_is_special

\* Mutant: the escape byte counts as a byte of the field.
SeeSpecialCounted ==
    /\ Pass
    /\ UseSpecials
    /\ next_is_special = 0
    /\ Head(rest) \in Special
    /\ next_is_special' = Head(rest)
    /\ bytes_read' = bytes_read + 1
    /\ UNCHANGED <<pos, packet>>

\* An escape byte is remembered, not stored; the buffer may end right here.
SeeSpecial == /\ Pass
              /\ UseSpecials
              /\ next_is_special = 0
              /\ Head(rest) \in Special
              /\ next_is_special' = Head(rest)
              /\ UNCHANGED <<bytes_read, pos, packet>>

\* Mutant: the escape is remembered for ever.
StoreSpecialSticky ==
    /\ Pass
    /\ UseSpecials
    /\ next_is_special # 0
    /\ Store(IF next_is_special = 126 THEN Head(rest) ELSE Flip(Head(rest)))
    /\ UNCHANGED next_is_special

\* The byte after 0x7E is taken as it is, the byte after 0x7D with bit 5 flipped.
StoreSpecial == /\ Pass
                /\ UseSpecials
                /\ next_is_special # 0
                /\ Store(IF next_is_special = 126 THEN Head(rest) ELSE Flip(Head(rest)))
                /\ next_is_special' = 0

-----------------------------------------------------------------------------
(* The chain of ifs of lunix_protocol_received_buf. *)

Complete == call /\ bytes_read = bytes_to_read

\* Mutant: the payload is taken to include the two bytes of its CRC.
WantedWithCRC(s) ==
    IF s = SEEKING_PAYLOAD THEN packet[pos - 1] + 2
    ELSE IF s \in {SEEKING_DESTINATION_ADDRESS, SEEKING_CRC} THEN 2 ELSE 1

\* Bytes wanted by each state; the payload length has just been stored.
Wanted(s) == IF s = SEEKING_PAYLOAD THEN packet[pos - 1]
             ELSE IF s \in {SEEKING_DESTINATION_ADDRESS, SEEKING_CRC} THEN 2 ELSE 1

set_state(s, btr) == /\ state' = s
                     /\ bytes_to_read' = btr
                     /\ bytes_read' = 0

\* On to the next field, in the same call.
Advance == /\ Complete
           /\ state # SEEKING_END_BYTE
           /\ set_state(state + 1, Wanted(state + 1))
           /\ iter' = 0
           /\ UNCHANGED <<pos, next_is_special, packet, call, rest, calls, updates>>

\* uint16_from_packet
uint16(o) == packet[o] + 256 * packet[o + 1]
Reading == [node |-> uint16(NODE_OFFSET), batt |-> uint16(VREF_OFFSET),
            temp |-> uint16(TEMPERATURE_OFFSET), light |-> uint16(LIGHT_OFFSET)]

\* Mutant: the node number is not checked.
UpdatesAnyNode == packet[PACKET_SIGNATURE_OFFSET] = 11

\* lunix_protocol_update_sensors
UpdatesSensor == /\ packet[PACKET_SIGNATURE_OFFSET] = 11      \* 0x0B
                 /\ Reading.node \in 1 .. lunix_sensor_cnt

\* Mutant: the position survives the packet.
PacketReceivedKeepsPos ==
    /\ Complete
    /\ state = SEEKING_END_BYTE
    /\ updates' = IF UpdatesSensor THEN Append(updates, Reading) ELSE updates
    /\ next_is_special' = 0
    /\ set_state(SEEKING_START_BYTE, 1)
    /\ Leave
    /\ UNCHANGED <<pos, packet, calls>>

\* The end byte is in: update, start over, and return: nothing looks at the
\* bytes of the buffer that follow the packet.
PacketReceived ==
    /\ Complete
    /\ state = SEEKING_END_BYTE
    /\ updates' = IF UpdatesSensor THEN Append(updates, Reading) ELSE updates
    /\ pos' = 0
    /\ next_is_special' = 0
    /\ set_state(SEEKING_START_BYTE, 1)
    /\ Leave
    /\ UNCHANGED <<packet, calls>>

\* The buffer ends in the middle of a field.
Return == /\ call
          /\ rest = <<>>
          /\ bytes_read < bytes_to_read
          /\ Leave
          /\ UNCHANGED <<machine, pos, next_is_special, packet, calls, updates>>

Parse == \/ Overflow
         \/ StoreRaw \/ StorePlain \/ SeeSpecial \/ StoreSpecial
         \/ Advance \/ PacketReceived \/ Return

\* The tty layer has bytes for the parser.
Call(b) == ReceivedBuf(b) /\ calls < MaxCalls /\ calls' = calls + 1

Next == (\E b \in Buffers : Call(b)) \/ Oops \/ Parse

Spec == Init /\ [][Next]_vars

-----------------------------------------------------------------------------
(* Properties *)

States == SEEKING_START_BYTE .. SEEKING_END_BYTE
Readings == [node : Nat, batt : Nat, temp : Nat, light : Nat]

\* Every variable has its type.  In particular pos never passes the end of
\* packet[], whatever the bytes ("Prevent buffer overflows",
\* lunix-protocol.c:150).
TypeOK == /\ state \in States
          /\ bytes_to_read \in Byte
          /\ bytes_read \in 0 .. bytes_to_read
          /\ pos \in 0 .. MAX_PACKET_LEN
          /\ next_is_special \in {0} \union Special
          /\ packet \in [0 .. (MAX_PACKET_LEN - 1) -> Byte]
          /\ call \in BOOLEAN
          /\ rest \in Seq(Byte)
          /\ iter \in Nat
          /\ calls \in Nat
          /\ updates \in Seq(Readings)

\* Outside a call and inside the loop a field is waiting for a byte: the parser
\* can never be called with a state it would neither fill nor leave (a payload of
\* length 0 is left in the call that announced it).
NeverStuck == ~call => bytes_read < bytes_to_read

\* A pending escape belongs to the field it was seen in: it cannot leak into the
\* end byte of its packet or into the next packet, which are read raw.
EscapeStaysInField == next_is_special # 0 => UseSpecials /\ bytes_read < bytes_to_read

\* Where each field of a packet begins, and its size ("PACKET STRUCTURE",
\* lunix-protocol.c:86).
FieldStart == <<0, 1, 2, 4, 5, 6, 7, 7 + packet[6], 9 + packet[6]>>
FieldSize == <<1, 1, 2, 1, 1, 1, packet[6], 2, 1>>

\* The state machine and the packet buffer agree after any sequence of calls cut
\* anywhere: the next byte goes to the offset the table of lunix-protocol.c:86
\* gives it, so the offsets lunix_protocol_update_sensors reads are the fields
\* they are named for.
Aligned == /\ bytes_to_read = FieldSize[state]
           /\ pos = FieldStart[state] + bytes_read

\* A packet of any length fits, and the way out that nothing resynchronises
\* from ("How will I ever resync with the input stream?") is never taken.
NeverOverflows == [][~Overflow]_vars
=============================================================================
