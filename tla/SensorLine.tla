------------------------------ MODULE SensorLine ------------------------------
(***************************************************************************)
(* The serial line from the sensor network to the parser: frames are sent  *)
(* escaped, the tty layer cuts the stream of bytes into buffers where it   *)
(* likes, and lunix_ldisc_receive passes each buffer to the parser.  The   *)
(* line loses bytes, and the line discipline is closed and opened again    *)
(* between two buffers, which leaves the parser where it was.              *)
(***************************************************************************)
EXTENDS LunixProtocol, SequencesExt

CONSTANTS Frames,      \* frames the network sends: bytes, the bytes they are on
                       \* the line, and which byte of the frame each of those is of
          BufferSizes, \* the tty layer cuts off this many bytes, or a whole frame
          MaxFrames,   \* bound: frames sent
          MaxFaults    \* bound: bytes lost by the line, and closings

WordAt(bytes, o) == bytes[o + 1] + 256 * bytes[o + 2]
ReadingOf(bytes) == [node |-> WordAt(bytes, NODE_OFFSET), batt |-> WordAt(bytes, VREF_OFFSET),
                     temp |-> WordAt(bytes, TEMPERATURE_OFFSET),
                     light |-> WordAt(bytes, LIGHT_OFFSET)]

\* A frame is laid out by the table of lunix-protocol.c:86 and fits into packet[];
\* a report reaches as far as the offsets at which it is read.
Laid(bytes) ==
    /\ bytes \in Seq(Byte)
    /\ Len(bytes) \in 10 .. MAX_PACKET_LEN
    /\ Len(bytes) = 10 + bytes[7]
    /\ PACKET_SIGNATURE_OFFSET < Len(bytes)
    /\ bytes[PACKET_SIGNATURE_OFFSET + 1] = 11 => \A o \in Offsets : o + 2 <= Len(bytes)

\* Is the j-th byte on the line an escape, or the byte after one?
IsEscape(fr, j) == j \in 1 .. Len(fr.line) - 1 /\ fr.of[j + 1] = fr.of[j]
AfterEscape(fr, j) == j \in 2 .. Len(fr.line) /\ fr.of[j - 1] = fr.of[j]

\* How the j-th byte on the line says its byte of the frame.  What looks special
\* between the packet type and the end byte is sent as two: 0x7E and the byte, or
\* 0x7D and the byte with bit 5 flipped.
Coded(fr, j) ==
    LET b == fr.bytes[fr.of[j]]
        inField == fr.of[j] \in 3 .. Len(fr.bytes) - 1
    IN  \/ IsEscape(fr, j) /\ ~AfterEscape(fr, j) /\ inField /\ fr.line[j] \in Special
        \/ /\ AfterEscape(fr, j) /\ ~IsEscape(fr, j)
           /\ fr.line[j] = IF fr.line[j - 1] = 126 THEN b ELSE Flip(b)
        \/ /\ ~IsEscape(fr, j) /\ ~AfterEscape(fr, j)
           /\ fr.line[j] = b
           /\ inField => b \notin Special

\* The bytes on the line say all bytes of the frame, in their order.
Escaped(fr) ==
    /\ fr.line \in Seq(Byte) /\ fr.line # <<>>
    /\ fr.of \in [1 .. Len(fr.line) -> 1 .. Len(fr.bytes)]
    /\ fr.of[1] = 1 /\ fr.of[Len(fr.line)] = Len(fr.bytes)
    /\ \A j \in 1 .. Len(fr.line) - 1 : fr.of[j + 1] \in {fr.of[j], fr.of[j] + 1}
    /\ \A j \in 1 .. Len(fr.line) : Coded(fr, j)

ASSUME LineAssumption ==
    /\ \A fr \in Frames : Laid(fr.bytes) /\ Escaped(fr)
    /\ BufferSizes \subseteq Nat \ {0}
    /\ MaxFrames \in Nat
    /\ MaxFaults \in Nat

VARIABLES sent,    \* history: the frames sent
          due,     \* history: the numbers of those that report to a sensor
          head,    \* the number of the frame at the head of the line
          gone,    \* how many of its bytes are gone from the line
          attached,  \* is the line discipline set on the tty?
          faults,    \* how many faults there have been
          orderly,   \* history: has every frame so far been received as below?
          clean      \* history: has the frame at the head of the line, as far as
                     \* it has come, been received without loss, alone, and from
                     \* its start by a parser between two packets?

line == <<sent, due, head, gone, attached, faults, orderly, clean>>
lineVars == <<vars, line>>

LineInit == /\ Init /\ sent = <<>> /\ due = <<>>
            /\ head = 1 /\ gone = 0
            /\ attached = TRUE /\ faults = 0
            /\ orderly = TRUE /\ clean = TRUE

\* What lunix_protocol_update_sensors passes on, read from the frame.
Reports(bytes) == /\ bytes[PACKET_SIGNATURE_OFFSET + 1] = 11
                  /\ WordAt(bytes, NODE_OFFSET) \in 1 .. lunix_sensor_cnt

Send(fr) == /\ Len(sent) < MaxFrames
            /\ sent' = Append(sent, fr)
            /\ due' = IF Reports(fr.bytes) THEN Append(due, Len(sent')) ELSE due
            /\ UNCHANGED <<vars, head, gone, attached, faults, orderly, clean>>

Size(k) == Len(sent[k].line)
OnLine == head <= Len(sent)
Left == Size(head) - gone

\* n bytes of the k-th frame are gone, and all that were before it.
Past(k, n) == /\ head' = IF n = Size(k) THEN k + 1 ELSE k
              /\ gone' = IF n = Size(k) THEN 0 ELSE n

BetweenPackets ==
    state = SEEKING_START_BYTE /\ bytes_read = 0 /\ pos = 0 /\ next_is_special = 0

Disturbed == orderly' = FALSE /\ clean' = FALSE

\* lunix_ldisc_receive, with bytes of one frame ...
Receive(n) == /\ attached
              /\ OnLine /\ n <= Left
              /\ ReceivedBuf(SubSeq(sent[head].line, gone + 1, gone + n))
              /\ Past(head, gone + n)
              /\ clean' = IF gone = 0 THEN BetweenPackets ELSE clean
              /\ orderly' = (orderly /\ clean')
              /\ UNCHANGED <<sent, due, attached, faults, calls>>

\* ... or with the last bytes of one and the first n of the next.
ReceiveAcross(n) ==
    /\ attached
    /\ head < Len(sent) /\ n <= Size(head + 1)
    /\ ReceivedBuf(SubSeq(sent[head].line, gone + 1, Size(head))
                       \o SubSeq(sent[head + 1].line, 1, n))
    /\ Past(head + 1, n)
    /\ Disturbed
    /\ UNCHANGED <<sent, due, attached, faults, calls>>

\* The line loses a byte.
LoseByte ==
    /\ OnLine
    /\ faults < MaxFaults
    /\ faults' = faults + 1
    /\ Past(head, gone + 1)
    /\ Disturbed
    /\ UNCHANGED <<vars, sent, due, attached>>

\* lunix_ldisc_close.  The tty layer does not call it while a buffer is being
\* received.
CloseLdisc ==
    /\ attached /\ ~call
    /\ faults < MaxFaults
    /\ faults' = faults + 1
    /\ attached' = FALSE
    /\ UNCHANGED <<vars, sent, due, head, gone, orderly, clean>>

\* Another line discipline gets what comes until lunix_ldisc_open.
ReceiveElsewhere(n) ==
    /\ ~attached
    /\ OnLine /\ n <= Left
    /\ Past(head, gone + n)
    /\ Disturbed
    /\ UNCHANGED <<vars, sent, due, attached, faults>>

OpenLdisc ==
    /\ ~attached
    /\ attached' = TRUE
    /\ UNCHANGED <<vars, sent, due, head, gone, faults, orderly, clean>>

Deliver ==
    \/ OnLine /\ \E n \in BufferSizes \union {Left} : Receive(n) \/ ReceiveElsewhere(n)
    \/ head < Len(sent) /\ \E n \in BufferSizes \union {Size(head + 1)} : ReceiveAcross(n)

LineParse == \/ Parse /\ UNCHANGED line
             \/ Oops /\ Disturbed /\ UNCHANGED <<sent, due, head, gone, attached, faults>>

LineNext == \/ \E fr \in Frames : Send(fr)
            \/ Deliver \/ LineParse
            \/ LoseByte \/ CloseLdisc \/ OpenLdisc

LineSpec == LineInit /\ [][LineNext]_lineVars

(* The parser does not sleep, and the tty layer passes on what it has.      *)
LineFairSpec == LineSpec /\ WF_lineVars(LineParse) /\ WF_lineVars(Deliver)

-----------------------------------------------------------------------------
(* Properties *)

\* What the sensors are to be told.
Expected == [i \in DOMAIN due |-> ReadingOf(sent[due[i]].bytes)]

\* As long as no byte is lost and no buffer straddles two frames, the sensors are
\* told what the network reported, in that order and once each, wherever the tty
\* layer cuts a frame and whatever bytes had to be escaped.
InOrder == orderly => IsPrefix(updates, Expected)

\* The parser recovers: whatever was lost, dropped or misread before, a frame that
\* comes to it between two packets, without a loss and alone, is completed as it
\* was sent, byte for byte.  Unescaping undoes escaping across every cut, even one
\* between an escape and its byte, and whatever an earlier packet left behind.
RoundTrip == clean /\ Complete /\ state = SEEKING_END_BYTE =>
    LET k == head - 1
    IN  /\ k \in DOMAIN sent
        /\ pos = Len(sent[k].bytes)
        /\ \A i \in 1 .. pos : packet[i - 1] = sent[k].bytes[i]

\* Every report sent reaches its sensor, unless a byte was lost, a buffer has
\* straddled two frames or the line discipline is closed.
EveryReportArrives ==
    \A k \in 1 .. MaxFrames : Len(due) >= k ~> ~orderly \/ ~attached \/ Len(updates) >= k
=============================================================================
