----------------------------- MODULE MCSensorLine -----------------------------
(* Instances of SensorLine for TLC: frames laid out by the table of            *)
(* lunix-protocol.c:86.  The payload is packed, node, battery, temperature and *)
(* light without the gaps of lunix-protocol.h, and the offsets are scaled to   *)
(* match.                                                                      *)
EXTENDS SensorLine

Head7(am, pl) == <<126, 66, 126, 0, am, 125, pl>>
Whole(am, payload) == Head7(am, Len(payload)) \o payload \o <<43, 126, 126>>
Payload(node, batt, temp, light) == <<node, 0>> \o batt \o temp \o light

\* The frame, escaped with e.
On(bytes, e) ==
    LET twice(i) == i \in 3 .. Len(bytes) - 1 /\ bytes[i] \in Special
        said(i) == IF ~twice(i) THEN <<bytes[i]>>
                   ELSE <<e, IF e = 126 THEN bytes[i] ELSE Flip(bytes[i])>>
    IN  [bytes |-> bytes,
         line |-> FlattenSeq([i \in 1 .. Len(bytes) |-> said(i)]),
         of |-> FlattenSeq([i \in 1 .. Len(bytes) |-> [j \in DOMAIN said(i) |-> i]])]

\* Every byte of a word is special, or becomes special when flipped.  Its payload
\* takes 11 passes when it comes in one buffer, which trips the loop guard of the
\* debug build, scaled from 50 down to 11.
SensorA == Whole(11, Payload(1, <<126, 1>>, <<125, 94>>, <<93, 125>>))
\* For a node nobody has.
OutOfRange == Whole(11, Payload(9, <<1, 1>>, <<1, 1>>, <<1, 1>>))
\* Not a sensor report, and without a payload.
Empty == Whole(3, <<>>)

MCFrames == {On(SensorA, 125), On(OutOfRange, 126), On(Empty, 125)}
=============================================================================
