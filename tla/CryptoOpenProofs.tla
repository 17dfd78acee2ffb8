--------------------------- MODULE CryptoOpenProofs ---------------------------
(***************************************************************************)
(* What holds of the control path of the crypto devices for any number of  *)
(* processes, devices and host descriptors and any length of the control   *)
(* queues; and what holds of a device that one process has for itself.     *)
(***************************************************************************)
EXTENDS CryptoOpen, SequenceTheorems, FiniteSetTheorems, TLAPS

\* The steps of a process by what they touch: nothing but pc and ret, crdev->fd,
\* or a control queue.
LocalStep(p) == \/ Refused(p) \/ Admitted(p) \/ SendNoOpen(p) \/ FoundReady(p)
                \/ WouldBlock(p) \/ Sleep(p) \/ Wake(p) \/ Interrupted(p)
                \/ OpenFails(p) \/ OpenSucceeds(p) \/ SendNoClose(p)
ResetStep(p) == Claim(p) \/ Clear(p)
SendStep(p) == SendOpen(p) \/ SendClose(p)
PollStep(p) == PollOpen(p) \/ PollClose(p)

\* What the proofs use of the constants.
LEMMA DevIsDevice == \A p \in Openers : Dev[p] \in Devices
<1>1. Dev \in [Openers -> Devices]
  BY ConstantsAssumption
<1> QED
  BY <1>1

LEMMA NoDeviceApart == \A d \in Devices : d # NoDevice
<1>1. NoDevice \notin Devices
  BY ConstantsAssumption
<1> QED
  BY <1>1

LEMMA QueueLength == CtlQueueSize \in Nat /\ CtlQueueSize > 0
<1>1. CtlQueueSize \in Nat \ {0}
  BY ConstantsAssumption
<1> QED
  BY <1>1

LEMMA OpenersFinite == IsFiniteSet(Openers)
BY ConstantsAssumption

\* A descriptor is a number.
LEMMA HostFdsNat == \A f \in HostFds : f \in Nat
<1>1. MaxShort \in Nat
  BY DEF MaxShort
<1>2. HostFds \subseteq 0 .. MaxShort
  BY ConstantsAssumption
<1> QED
  BY <1>1, <1>2

LEMMA StepKinds ==
    ASSUME Next
    PROVE  \/ \E p \in Openers : LocalStep(p) \/ ResetStep(p) \/ SendStep(p) \/ PollStep(p)
           \/ \E d \in Devices : ControlInIntr(d) \/ ControlOut(d)
BY DEF Next, Begin, Continue, LocalStep, ResetStep, SendStep, PollStep

LEMMA LocalFrame == ASSUME NEW p \in Openers, LocalStep(p)
                    PROVE  UNCHANGED <<fd, queues, host>>
BY DEF LocalStep, Refused, Admitted, SendNoOpen, FoundReady, WouldBlock, Sleep, Wake,
       Interrupted, OpenFails, OpenSucceeds, SendNoClose, SendNothing, queues, host

\* A step of a process leaves the places of the others alone.
LEMMA OnePlace ==
    ASSUME TypeOK, NEW p \in Openers,
           LocalStep(p) \/ ResetStep(p) \/ SendStep(p) \/ PollStep(p)
    PROVE  /\ \E to \in Places : pc' = [pc EXCEPT ![p] = to]
           /\ ret' \in [Openers -> {"none", "OK", "EMFILE", "EAGAIN", "ENODEV"}]
<1>1. CASE LocalStep(p)
  BY <1>1 DEF LocalStep, Refused, Admitted, SendNoOpen, FoundReady, WouldBlock, Sleep, Wake,
       Interrupted, OpenFails, OpenSucceeds, SendNoClose, SendNothing, Goto, Return, Places,
       TypeOK
<1>2. CASE ResetStep(p) \/ SendStep(p) \/ PollStep(p)
  BY <1>2 DEF ResetStep, SendStep, PollStep, Claim, Clear, SendOpen, SendClose, PollOpen,
       PollClose, Send, Poll, Goto, Places, TypeOK
<1> QED
  BY <1>1, <1>2

-----------------------------------------------------------------------------
(* Types *)

\* Returning spoils the messages of p and keeps the queue.
LEMMA AbandonProperties ==
    ASSUME NEW p \in Openers, NEW q \in Seq(Messages)
    PROVE  /\ Abandon(p, q) \in Seq(Messages)
           /\ Len(Abandon(p, q)) = Len(q)
<1>1. q \in [1 .. Len(q) -> Messages] /\ Len(q) \in Nat /\ DOMAIN q = 1 .. Len(q)
  BY LenProperties
<1>2. [from |-> p, value |-> Garbage] \in Messages
  BY DEF Messages
<1>3. Abandon(p, q) \in [1 .. Len(q) -> Messages]
  BY <1>1, <1>2 DEF Abandon
<1> QED
  BY <1>1, <1>3, SeqDef

\* open and close of the host, with the answer, keep the types of what they touch.
LEMMA AnswerType ==
    ASSUME TypeOK, NEW d \in Devices, NEW v \in Replies, Answer(d, v)
    PROVE  /\ c_ivq' \in [Devices -> Seq(Replies)]
           /\ dropped' \in [Devices -> BOOLEAN]
<1>1. CASE Len(c_ivq[d]) < CtlQueueSize
  <2>1. c_ivq' = [c_ivq EXCEPT ![d] = Append(@, v)] /\ dropped' = dropped
    BY <1>1 DEF Answer
  <2>2. Append(c_ivq[d], v) \in Seq(Replies)
    BY DEF TypeOK
  <2> QED
    BY <2>1, <2>2 DEF TypeOK
<1>2. CASE ~(Len(c_ivq[d]) < CtlQueueSize)
  <2>1. c_ivq' = c_ivq /\ dropped' = [dropped EXCEPT ![d] = TRUE]
    BY <1>2 DEF Answer
  <2> QED
    BY <2>1 DEF TypeOK
<1> QED
  BY <1>1, <1>2

LEMMA ControlOutType ==
    ASSUME TypeOK, NEW d \in Devices, ControlOut(d)
    PROVE  TypeOK'
<1>1. /\ UNCHANGED <<fd, pc, ret>>
      /\ c_ovq[d] # <<>>
      /\ c_ovq' = [c_ovq EXCEPT ![d] = Tail(@)]
      /\ consumed' = [consumed EXCEPT ![d] = @ + 1]
  BY DEF ControlOut
<1>2. c_ovq' \in [Devices -> Seq(Messages)] /\ consumed' \in [Devices -> Nat]
  BY <1>1 DEF TypeOK
<1>3. HostOpens(d) \/ HostCloses(d) \/ UNCHANGED <<hostFd, hostFiles, c_ivq, dropped>>
  BY DEF ControlOut
<1>4. /\ c_ivq' \in [Devices -> Seq(Replies)]
      /\ dropped' \in [Devices -> BOOLEAN]
      /\ hostFd' \in [Devices -> Replies \union {NotTried}]
      /\ hostFiles' \in [HostFds -> Devices \union {NoDevice}]
  <2>1. CASE HostOpens(d)
    <3>1. CASE \E f \in HostFds : /\ hostFiles' = [hostFiles EXCEPT ![f] = d]
                                  /\ hostFd' = [hostFd EXCEPT ![d] = f]
                                  /\ Answer(d, f)
      BY <3>1, AnswerType DEF TypeOK, Replies
    <3>2. CASE hostFd' = [hostFd EXCEPT ![d] = Failed] /\ Answer(d, Failed) /\ UNCHANGED hostFiles
      BY <3>2, AnswerType DEF TypeOK, Replies
    <3> QED
      BY <2>1, <3>1, <3>2 DEF HostOpens
  <2>2. CASE HostCloses(d)
    BY <2>2 DEF HostCloses, TypeOK
  <2>3. CASE UNCHANGED <<hostFd, hostFiles, c_ivq, dropped>>
    BY <2>3 DEF TypeOK
  <2> QED
    BY <1>3, <2>1, <2>2, <2>3
<1> QED
  BY <1>1, <1>2, <1>4 DEF TypeOK

LEMMA TypeStep == ASSUME TypeOK, [Next]_vars PROVE TypeOK'
<1>1. CASE UNCHANGED vars
  BY <1>1 DEF TypeOK, vars
<1>2. ASSUME NEW p \in Openers, LocalStep(p) PROVE TypeOK'
  <2>1. pc' \in [Openers -> Places] /\ ret' \in [Openers -> {"none", "OK", "EMFILE", "EAGAIN", "ENODEV"}]
    BY <1>2, OnePlace DEF TypeOK
  <2> QED
    BY <1>2, <2>1, LocalFrame DEF TypeOK, queues, host
<1>3. ASSUME NEW p \in Openers, ResetStep(p) PROVE TypeOK'
  <2>1. pc' \in [Openers -> Places] /\ ret' \in [Openers -> {"none", "OK", "EMFILE", "EAGAIN", "ENODEV"}]
    BY <1>3, OnePlace DEF TypeOK
  <2> QED
    BY <1>3, <2>1 DEF TypeOK, ResetStep, Claim, Clear, queues, host
<1>4. ASSUME NEW p \in Openers, SendStep(p) PROVE TypeOK'
  <2>1. pc' \in [Openers -> Places] /\ ret' \in [Openers -> {"none", "OK", "EMFILE", "EAGAIN", "ENODEV"}]
    BY <1>4, OnePlace DEF TypeOK
  <2>2. PICK v \in {Open, Close} : c_ovq' = [c_ovq EXCEPT ![Dev[p]] = Append(@, [from |-> p, value |-> v])]
    BY <1>4 DEF SendStep, SendOpen, SendClose, Send
  <2>3. Dev[p] \in Devices /\ [from |-> p, value |-> v] \in Messages
    BY DevIsDevice DEF Messages
  <2>4. c_ovq' \in [Devices -> Seq(Messages)]
    BY <2>2, <2>3 DEF TypeOK
  <2>5. UNCHANGED <<fd, ret, consumed, c_ivq, dropped, host>>
    BY <1>4 DEF SendStep, SendOpen, SendClose, Send
  <2> QED
    BY <2>1, <2>4, <2>5 DEF TypeOK, host
<1>5. ASSUME NEW p \in Openers, PollStep(p) PROVE TypeOK'
  <2>1. pc' \in [Openers -> Places] /\ ret' \in [Openers -> {"none", "OK", "EMFILE", "EAGAIN", "ENODEV"}]
    BY <1>5, OnePlace DEF TypeOK
  <2>2. /\ consumed[Dev[p]] > 0
        /\ consumed' = [consumed EXCEPT ![Dev[p]] = @ - 1]
        /\ c_ovq' = [c_ovq EXCEPT ![Dev[p]] = Abandon(p, @)]
        /\ UNCHANGED <<fd, ret, c_ivq, dropped, host>>
    BY <1>5 DEF PollStep, PollOpen, PollClose, Poll
  <2>3. consumed' \in [Devices -> Nat]
    <3>1. Dev[p] \in Devices
      BY DevIsDevice
    <3>2. consumed[Dev[p]] \in Nat
      BY <3>1 DEF TypeOK
    <3>3. consumed[Dev[p]] - 1 \in Nat
      BY <2>2, <3>2
    <3> QED
      BY <2>2, <3>1, <3>3 DEF TypeOK
  <2>4. c_ovq' \in [Devices -> Seq(Messages)]
    <3>1. Dev[p] \in Devices /\ Abandon(p, c_ovq[Dev[p]]) \in Seq(Messages)
      BY DevIsDevice, AbandonProperties DEF TypeOK
    <3> QED
      BY <2>2, <3>1 DEF TypeOK
  <2> QED
    BY <2>1, <2>2, <2>3, <2>4 DEF TypeOK, host
<1>6. ASSUME NEW d \in Devices, ControlInIntr(d) PROVE TypeOK'
  <2>1. Head(c_ivq[d]) \in Replies /\ Tail(c_ivq[d]) \in Seq(Replies)
    BY <1>6 DEF ControlInIntr, TypeOK
  <2> QED
    BY <1>6, <2>1 DEF ControlInIntr, TypeOK, host
<1> QED
  BY <1>1, <1>2, <1>3, <1>4, <1>5, <1>6, ControlOutType, StepKinds

LEMMA InitType == ASSUME Init PROVE TypeOK
BY DEF Init, TypeOK, Places, Replies

\* Whatever processes, devices, descriptors and queues there are, every variable
\* keeps its type: no poll takes a message that is not there.
THEOREM TypeCorrect == Spec => []TypeOK
<1> QED
  BY InitType, TypeStep, PTL DEF Spec

-----------------------------------------------------------------------------
(* The guest and the host agree on the descriptor. *)

Agrees(d) == ~dropped[d] =>
    IF c_ivq[d] = <<>> THEN fd[d] \in {NotTried, hostFd[d]}
    ELSE c_ivq[d][Len(c_ivq[d])] = hostFd[d]

LEMMA AgreesElsewhere ==
    ASSUME NEW d \in Devices, Agrees(d), fd'[d] = fd[d], c_ivq'[d] = c_ivq[d],
           dropped'[d] = dropped[d], hostFd'[d] = hostFd[d]
    PROVE  Agrees(d)'
BY DEF Agrees

\* An answer that is queued is the last one; one that is not is remembered.
LEMMA AnswerAgrees ==
    ASSUME TypeOK, NEW d \in Devices, NEW v \in Replies, Answer(d, v),
           hostFd' = [hostFd EXCEPT ![d] = v]
    PROVE  Agrees(d)'
<1>1. CASE Len(c_ivq[d]) < CtlQueueSize
  <2>1. c_ivq'[d] = Append(c_ivq[d], v)
    BY <1>1 DEF Answer, TypeOK
  <2>2. c_ivq[d] \in Seq(Replies)
    BY DEF TypeOK
  <2>3. c_ivq'[d] # <<>> /\ c_ivq'[d][Len(c_ivq'[d])] = v
    BY <2>1, <2>2, AppendProperties
  <2>4. hostFd'[d] = v
    BY DEF TypeOK
  <2> QED
    BY <2>3, <2>4 DEF Agrees
<1>2. CASE ~(Len(c_ivq[d]) < CtlQueueSize)
  <2>1. dropped' = [dropped EXCEPT ![d] = TRUE]
    BY <1>2 DEF Answer
  <2>2. dropped'[d]
    BY <2>1, Zenon DEF TypeOK
  <2> QED
    BY <2>2 DEF Agrees
<1> QED
  BY <1>1, <1>2

\* The answer of one device is not that of another.
LEMMA AnswerElsewhere ==
    ASSUME TypeOK, NEW d \in Devices, NEW v \in Replies, Answer(d, v),
           NEW e \in Devices, e # d
    PROVE  c_ivq'[e] = c_ivq[e] /\ dropped'[e] = dropped[e]
<1>1. CASE Len(c_ivq[d]) < CtlQueueSize
  BY <1>1 DEF Answer, TypeOK
<1>2. CASE ~(Len(c_ivq[d]) < CtlQueueSize)
  <2>1. c_ivq' = c_ivq /\ dropped' = [dropped EXCEPT ![d] = TRUE]
    BY <1>2 DEF Answer
  <2> QED
    BY <2>1 DEF TypeOK
<1> QED
  BY <1>1, <1>2

\* What the host does with one message.
LEMMA HostActs ==
    ASSUME TypeOK, NEW d \in Devices, ControlOut(d)
    PROVE  \/ \E f \in HostFds : /\ hostFiles[f] = NoDevice
                                 /\ hostFiles' = [hostFiles EXCEPT ![f] = d]
                                 /\ hostFd' = [hostFd EXCEPT ![d] = f]
                                 /\ Answer(d, f)
           \/ /\ hostFd' = [hostFd EXCEPT ![d] = Failed]
              /\ Answer(d, Failed)
              /\ UNCHANGED hostFiles
           \/ UNCHANGED <<hostFd, c_ivq, dropped>>
<1>1. HostOpens(d) \/ HostCloses(d) \/ UNCHANGED <<hostFd, hostFiles, c_ivq, dropped>>
  BY DEF ControlOut
<1> QED
  BY <1>1 DEF HostOpens, HostCloses

LEMMA ControlOutAgrees ==
    ASSUME TypeOK, \A e \in Devices : Agrees(e), NEW d \in Devices, ControlOut(d),
           NEW e \in Devices
    PROVE  Agrees(e)'
<1>1. fd' = fd
  BY DEF ControlOut
<1>2. CASE \E v \in Replies : Answer(d, v) /\ hostFd' = [hostFd EXCEPT ![d] = v]
  <2>1. PICK v \in Replies : Answer(d, v) /\ hostFd' = [hostFd EXCEPT ![d] = v]
    BY <1>2
  <2>2. CASE e = d
    BY <2>1, <2>2, AnswerAgrees
  <2>3. CASE e # d
    <3>1. hostFd'[e] = hostFd[e]
      BY <2>1, <2>3 DEF TypeOK
    <3>2. c_ivq'[e] = c_ivq[e] /\ dropped'[e] = dropped[e]
      BY <2>1, <2>3, AnswerElsewhere
    <3> QED
      BY <1>1, <3>1, <3>2, AgreesElsewhere
  <2> QED
    BY <2>2, <2>3
<1>3. CASE UNCHANGED <<hostFd, c_ivq, dropped>>
  BY <1>1, <1>3, AgreesElsewhere
<1> QED
  BY <1>2, <1>3, HostActs DEF Replies

\* Taking the first element leaves the last one, unless it is the only one.
LEMMA TailLast ==
    ASSUME NEW S, NEW q \in Seq(S), q # <<>>
    PROVE  IF Tail(q) = <<>> THEN Len(q) = 1 ELSE Tail(q)[Len(Tail(q))] = q[Len(q)]
<1>1. Len(Tail(q)) = Len(q) - 1 /\ Tail(q) \in Seq(S) /\ Len(q) \in Nat
  BY HeadTailProperties
<1>2. CASE Tail(q) = <<>>
  <2>1. Len(Tail(q)) = 0
    BY <1>2, EmptySeq
  <2> QED
    BY <1>1, <1>2, <2>1
<1>3. CASE Tail(q) # <<>>
  <2>1. Len(Tail(q)) \in 1 .. Len(Tail(q))
    BY <1>1, <1>3, EmptySeq
  <2>2. Tail(q)[Len(Tail(q))] = q[Len(Tail(q)) + 1]
    BY <2>1, HeadTailProperties
  <2> QED
    BY <1>1, <1>3, <2>2
<1> QED
  BY <1>2, <1>3

LEMMA AgreesStep ==
    ASSUME TypeOK, \A e \in Devices : Agrees(e), [Next]_vars, NEW e \in Devices
    PROVE  Agrees(e)'
<1>1. CASE UNCHANGED vars
  BY <1>1, AgreesElsewhere DEF vars
<1>2. ASSUME NEW p \in Openers, LocalStep(p) PROVE Agrees(e)'
  BY <1>2, LocalFrame, AgreesElsewhere DEF queues, host
<1>3. ASSUME NEW p \in Openers, ResetStep(p) PROVE Agrees(e)'
  <2>1. fd' = [fd EXCEPT ![Dev[p]] = NotTried] /\ UNCHANGED <<queues, host>>
    BY <1>3 DEF ResetStep, Claim, Clear
  <2>2. fd'[e] \in {NotTried, fd[e]}
    BY <2>1 DEF TypeOK
  <2>3. c_ivq' = c_ivq /\ dropped' = dropped /\ hostFd' = hostFd
    BY <2>1 DEF queues, host
  <2> QED
    BY <2>2, <2>3 DEF Agrees
<1>4. ASSUME NEW p \in Openers, SendStep(p) \/ PollStep(p) PROVE Agrees(e)'
  BY <1>4, AgreesElsewhere DEF SendStep, SendOpen, SendClose, Send, PollStep, PollOpen,
     PollClose, Poll, host
<1>5. ASSUME NEW d \in Devices, ControlInIntr(d) PROVE Agrees(e)'
  <2>1. /\ c_ivq[d] # <<>>
        /\ fd' = [fd EXCEPT ![d] = Head(c_ivq[d])]
        /\ c_ivq' = [c_ivq EXCEPT ![d] = Tail(@)]
        /\ dropped' = dropped /\ hostFd' = hostFd
    BY <1>5 DEF ControlInIntr, host
  <2>2. CASE e = d
    <3> DEFINE q == c_ivq[d]
    <3>1. q \in Seq(Replies) /\ q # <<>> /\ Len(q) \in Nat \ {0}
      BY <2>1 DEF TypeOK
    <3>2. fd'[d] = q[1] /\ c_ivq'[d] = Tail(q)
      BY <2>1 DEF TypeOK
    <3>3. CASE Tail(q) = <<>>
      <4>1. Len(q) = 1
        BY <3>1, <3>3, TailLast
      <4> QED
        BY <2>1, <2>2, <3>2, <3>3, <4>1 DEF Agrees
    <3>4. CASE Tail(q) # <<>>
      <4>1. Tail(q)[Len(Tail(q))] = q[Len(q)]
        BY <3>1, <3>4, TailLast
      <4> QED
        BY <2>1, <2>2, <3>2, <3>4, <4>1 DEF Agrees
    <3> QED
      BY <3>3, <3>4
  <2>3. CASE e # d
    <3>1. fd'[e] = fd[e] /\ c_ivq'[e] = c_ivq[e]
      BY <2>1, <2>3 DEF TypeOK
    <3> QED
      BY <2>1, <3>1, AgreesElsewhere
  <2> QED
    BY <2>2, <2>3
<1> QED
  BY <1>1, <1>2, <1>3, <1>4, <1>5, ControlOutAgrees, StepKinds

\* For any number of openers that overlap, are interrupted or do not wait, and
\* any host: as long as no answer was dropped, what the guest has is never an
\* answer older than the last one handled.
THEOREM Agreement == Spec => []DescriptorAgrees
<1>1. Init => \A d \in Devices : Agrees(d)
  BY DEF Init, Agrees
<1>2. TypeOK /\ (\A d \in Devices : Agrees(d)) /\ [Next]_vars => (\A d \in Devices : Agrees(d))'
  BY AgreesStep
<1>3. (\A d \in Devices : Agrees(d)) => DescriptorAgrees
  BY DEF Agrees, DescriptorAgrees
<1> QED
  BY <1>1, <1>2, <1>3, TypeCorrect, PTL DEF Spec

-----------------------------------------------------------------------------
(* Control messages are conserved. *)

InFlight(d) == Len(c_ovq[d]) + consumed[d]

LEMMA PollingFinite == ASSUME NEW d \in Devices PROVE IsFiniteSet(Polling(d))
<1>1. Polling(d) \in SUBSET Openers
  BY DEF Polling
<1> QED
  BY <1>1, FS_Subset, OpenersFinite

LEMMA PollingFinitePrimed == ASSUME NEW d \in Devices PROVE IsFiniteSet(Polling(d)')
<1>1. Polling(d)' \in SUBSET Openers
  BY DEF Polling
<1> QED
  BY <1>1, FS_Subset, OpenersFinite

Conserved(d) == InFlight(d) = Cardinality(Polling(d))

LEMMA ConservedElsewhere ==
    ASSUME NEW d \in Devices, Conserved(d), InFlight(d)' = InFlight(d), Polling(d)' = Polling(d)
    PROVE  Conserved(d)'
BY DEF Conserved

\* Sending: the sender begins to poll, with one more message in flight.
LEMMA SendConserves ==
    ASSUME TypeOK, NEW p \in Openers, SendStep(p), NEW d \in Devices, Conserved(d)
    PROVE  Conserved(d)'
<1>1. PICK at \in {"pollOpen", "pollClose"}, v \in {Open, Close} :
        /\ pc[p] \in {"ask", "opened"}
        /\ pc' = [pc EXCEPT ![p] = at]
        /\ c_ovq' = [c_ovq EXCEPT ![Dev[p]] = Append(@, [from |-> p, value |-> v])]
        /\ consumed' = consumed
  BY DEF SendStep, SendOpen, SendClose, Send, Goto
<1>2. CASE d = Dev[p]
  <2>1. Polling(d)' = Polling(d) \union {p}
    BY <1>1, <1>2 DEF Polling, TypeOK
  <2>2. p \notin Polling(d)
    BY <1>1 DEF Polling
  <2>3. Cardinality(Polling(d)') = Cardinality(Polling(d)) + 1
    BY <2>1, <2>2, PollingFinite, FS_AddElement
  <2>4. c_ovq[d] \in Seq(Messages) /\ [from |-> p, value |-> v] \in Messages
    BY DEF TypeOK, Messages
  <2>5. c_ovq'[d] = Append(c_ovq[d], [from |-> p, value |-> v])
    BY <1>1, <1>2 DEF TypeOK
  <2>6. Len(c_ovq'[d]) = Len(c_ovq[d]) + 1 /\ Len(c_ovq[d]) \in Nat
    BY <2>4, <2>5, AppendProperties
  <2>7. consumed'[d] = consumed[d] /\ consumed[d] \in Nat
    BY <1>1 DEF TypeOK
  <2>8. InFlight(d)' = InFlight(d) + 1
    BY <2>6, <2>7 DEF InFlight
  <2> QED
    BY <2>3, <2>8 DEF Conserved
<1>3. CASE d # Dev[p]
  <2>1. Polling(d)' = Polling(d)
    BY <1>1, <1>3 DEF Polling, TypeOK
  <2>2. InFlight(d)' = InFlight(d)
    BY <1>1, <1>3 DEF InFlight, TypeOK
  <2> QED
    BY <2>1, <2>2, ConservedElsewhere
<1> QED
  BY <1>2, <1>3

\* Taking a consumed message: one of the pollers leaves with one of them.
LEMMA PollConserves ==
    ASSUME TypeOK, NEW p \in Openers, PollStep(p), NEW d \in Devices, Conserved(d)
    PROVE  Conserved(d)'
<1>1. PICK at \in {"test", "clear"} :
        /\ pc[p] \in {"pollOpen", "pollClose"}
        /\ pc' = [pc EXCEPT ![p] = at]
        /\ consumed[Dev[p]] > 0
        /\ consumed' = [consumed EXCEPT ![Dev[p]] = @ - 1]
        /\ c_ovq' = [c_ovq EXCEPT ![Dev[p]] = Abandon(p, @)]
  BY DEF PollStep, PollOpen, PollClose, Poll, Goto
<1>2. CASE d = Dev[p]
  <2>1. Polling(d)' = Polling(d) \ {p}
    BY <1>1, <1>2 DEF Polling, TypeOK
  <2>2. p \in Polling(d)
    BY <1>1, <1>2 DEF Polling
  <2>3. Cardinality(Polling(d)') = Cardinality(Polling(d)) - 1
    BY <2>1, <2>2, PollingFinite, FS_RemoveElement
  <2>4. c_ovq'[d] = Abandon(p, c_ovq[d])
    BY <1>1, <1>2 DEF TypeOK
  <2>5. Len(c_ovq'[d]) = Len(c_ovq[d]) /\ Len(c_ovq[d]) \in Nat
    BY <2>4, AbandonProperties DEF TypeOK
  <2>6. consumed'[d] = consumed[d] - 1 /\ consumed[d] \in Nat
    BY <1>1, <1>2 DEF TypeOK
  <2>7. InFlight(d)' = InFlight(d) - 1
    BY <2>5, <2>6 DEF InFlight
  <2> QED
    BY <2>3, <2>7 DEF Conserved
<1>3. CASE d # Dev[p]
  <2>1. Polling(d)' = Polling(d)
    BY <1>1, <1>3 DEF Polling, TypeOK
  <2>2. InFlight(d)' = InFlight(d)
    BY <1>1, <1>3 DEF InFlight, TypeOK
  <2> QED
    BY <2>1, <2>2, ConservedElsewhere
<1> QED
  BY <1>2, <1>3

\* The host moves a message from one side to the other.
LEMMA ControlOutConserves ==
    ASSUME TypeOK, NEW e \in Devices, ControlOut(e), NEW d \in Devices, Conserved(d)
    PROVE  Conserved(d)'
<1>1. /\ pc' = pc
      /\ c_ovq[e] # <<>>
      /\ c_ovq' = [c_ovq EXCEPT ![e] = Tail(@)]
      /\ consumed' = [consumed EXCEPT ![e] = @ + 1]
  BY DEF ControlOut
<1>2. Polling(d)' = Polling(d)
  BY <1>1 DEF Polling
<1>3. CASE d = e
  <2>1. c_ovq[d] \in Seq(Messages) /\ c_ovq[d] # <<>> /\ c_ovq'[d] = Tail(c_ovq[d])
    BY <1>1, <1>3 DEF TypeOK
  <2>2. Len(c_ovq'[d]) = Len(c_ovq[d]) - 1 /\ Len(c_ovq[d]) \in Nat
    BY <2>1, HeadTailProperties
  <2>3. consumed'[d] = consumed[d] + 1 /\ consumed[d] \in Nat
    BY <1>1, <1>3 DEF TypeOK
  <2>4. InFlight(d)' = InFlight(d)
    BY <2>2, <2>3 DEF InFlight
  <2> QED
    BY <1>2, <2>4, ConservedElsewhere
<1>4. CASE d # e
  <2>1. InFlight(d)' = InFlight(d)
    BY <1>1, <1>4 DEF InFlight, TypeOK
  <2> QED
    BY <1>2, <2>1, ConservedElsewhere
<1> QED
  BY <1>3, <1>4

LEMMA ConservedStep ==
    ASSUME TypeOK, \A e \in Devices : Conserved(e), [Next]_vars, NEW d \in Devices
    PROVE  Conserved(d)'
<1>1. CASE UNCHANGED vars
  BY <1>1, ConservedElsewhere DEF vars, InFlight, Polling
<1>2. ASSUME NEW p \in Openers, LocalStep(p) PROVE Conserved(d)'
  <2>1. InFlight(d)' = InFlight(d)
    BY <1>2, LocalFrame DEF InFlight, queues
  <2>2. PICK from \in Places \ {"pollOpen", "pollClose"}, to \in Places \ {"pollOpen", "pollClose"} :
           pc[p] = from /\ pc' = [pc EXCEPT ![p] = to]
    BY <1>2 DEF LocalStep, Refused, Admitted, SendNoOpen, FoundReady, WouldBlock, Sleep, Wake,
       Interrupted, OpenFails, OpenSucceeds, SendNoClose, SendNothing, Goto, Return, Places
  <2>3. Polling(d)' = Polling(d)
    BY <2>2 DEF Polling, TypeOK
  <2> QED
    BY <2>1, <2>3, ConservedElsewhere
<1>3. ASSUME NEW p \in Openers, ResetStep(p) PROVE Conserved(d)'
  <2>1. InFlight(d)' = InFlight(d)
    BY <1>3 DEF ResetStep, Claim, Clear, InFlight, queues
  <2>2. PICK from \in {"claim", "clear"}, to \in {"ask", "idle"} :
           pc[p] = from /\ pc' = [pc EXCEPT ![p] = to]
    BY <1>3 DEF ResetStep, Claim, Clear, Goto
  <2>3. Polling(d)' = Polling(d)
    BY <2>2 DEF Polling, TypeOK
  <2> QED
    BY <2>1, <2>3, ConservedElsewhere
<1>4. ASSUME NEW e \in Devices, ControlInIntr(e) PROVE Conserved(d)'
  BY <1>4, ConservedElsewhere DEF ControlInIntr, InFlight, Polling
<1> QED
  BY <1>1, <1>2, <1>3, <1>4, SendConserves, PollConserves, ControlOutConserves, StepKinds

\* Of any number of openers, none is left to poll for a message that another
\* has taken.
THEOREM Conservation == Spec => []MessagesConserved
<1>1. ASSUME Init PROVE \A d \in Devices : Conserved(d)
  <2> SUFFICES ASSUME NEW d \in Devices PROVE Conserved(d)
    OBVIOUS
  <2>1. Polling(d) = {}
    BY <1>1 DEF Init, Polling
  <2>2. InFlight(d) = 0
    BY <1>1 DEF Init, InFlight
  <2> QED
    BY <2>1, <2>2, FS_EmptySet DEF Conserved
<1>2. TypeOK /\ (\A d \in Devices : Conserved(d)) /\ [Next]_vars => (\A d \in Devices : Conserved(d))'
  BY ConservedStep
<1>3. (\A d \in Devices : Conserved(d)) => MessagesConserved
  BY DEF Conserved, InFlight, MessagesConserved
<1> QED
  BY <1>1, <1>2, <1>3, TypeCorrect, PTL DEF Spec
=============================================================================
