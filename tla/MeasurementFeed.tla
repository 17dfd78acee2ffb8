--------------------------- MODULE MeasurementFeed ---------------------------
(***************************************************************************)
(* What the Lunix character device promises to the programs that read it,  *)
(* without semaphores, wait queues, timestamps or text.                    *)
(*                                                                         *)
(* Every sensor publishes a sequence of measurements, numbered 1, 2, ...   *)
(* (0 is the zeroed page of a sensor that has not reported yet).  A        *)
(* program that asks an open file for a measurement is answered with one   *)
(* that was the latest at some moment between the question and the answer, *)
(* and the answers given through one open file never go back.              *)
(***************************************************************************)
EXTENDS Naturals

CONSTANTS Procs,     \* the processes that read
          Files,     \* the open files (struct file) there may be
          Sensors,   \* the sensors of the network
          NoFile,    \* no request is pending
          NoSensor   \* the file is not open

VARIABLES published, \* published[s]: the number of the latest measurement of s
          source,    \* source[f]: the sensor the open file f reads
          seen,      \* seen[f]: the measurement f holds
          request    \* request[p]: the question process p has asked

vars == <<published, source, seen, request>>

NoRequest == [file |-> NoFile, floor |-> 0, answered |-> FALSE]

Init == /\ published = [s \in Sensors |-> 0]
        /\ source = [f \in Files |-> NoSensor]
        /\ seen = [f \in Files |-> 0]
        /\ request = [p \in Procs |-> NoRequest]

Publish(s) == /\ published' = [published EXCEPT ![s] = @ + 1]
              /\ UNCHANGED <<source, seen, request>>

Open(f, s) == /\ source[f] = NoSensor
              /\ source' = [source EXCEPT ![f] = s]
              /\ UNCHANGED <<published, seen, request>>

Close(f) == /\ source[f] # NoSensor
            /\ \A p \in Procs : request[p].file # f
            /\ source' = [source EXCEPT ![f] = NoSensor]
            /\ seen' = [seen EXCEPT ![f] = 0]
            /\ UNCHANGED <<published, request>>

Ask(p, f) ==
    /\ request[p] = NoRequest
    /\ source[f] # NoSensor
    /\ request' = [request EXCEPT ![p] = [file |-> f, answered |-> FALSE,
                                          floor |-> published[source[f]]]]
    /\ UNCHANGED <<published, source, seen>>

Asked(p) == request[p] # NoRequest /\ ~request[p].answered

\* The file moves to a measurement no older than the question and than the one
\* it held; nobody is collecting the one it held.
Answer(p) ==
    /\ Asked(p)
    /\ LET f == request[p].file
       IN  /\ \A q \in Procs : ~(request[q].file = f /\ request[q].answered)
           /\ \E m \in request[p].floor .. published[source[f]] :
                /\ seen[f] <= m
                /\ seen' = [seen EXCEPT ![f] = m]
    /\ request' = [request EXCEPT ![p] = [file |-> request[p].file, answered |-> TRUE,
                                          floor |-> request[p].floor]]
    /\ UNCHANGED <<published, source>>

\* The program takes what it was answered.
Collect(p) == /\ request[p].answered
              /\ request' = [request EXCEPT ![p] = NoRequest]
              /\ UNCHANGED <<published, source, seen>>

\* A signal ends the wait without an answer.
GiveUp(p) == /\ Asked(p)
             /\ request' = [request EXCEPT ![p] = NoRequest]
             /\ UNCHANGED <<published, source, seen>>

Next == \/ \E s \in Sensors : Publish(s)
        \/ \E f \in Files, s \in Sensors : Open(f, s)
        \/ \E f \in Files : Close(f)
        \/ \E p \in Procs, f \in Files : Ask(p, f)
        \/ \E p \in Procs : Answer(p) \/ Collect(p) \/ GiveUp(p)

Spec == Init /\ [][Next]_vars

=============================================================================
