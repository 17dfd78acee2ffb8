-------------------------- MODULE CryptoOwnerProofs --------------------------
(***************************************************************************)
(* A crypto device that one process has for itself: no O_NONBLOCK, no      *)
(* signals.  Every device of the machine may be in use at the same time,   *)
(* and they share the descriptors of QEMU.                                 *)
(***************************************************************************)
EXTENDS CryptoOpenProofs

Exclusive == /\ \A p, q \in Openers : Dev[p] = Dev[q] => p = q
             /\ NonBlocking = {}
             /\ ~Signals

\* What the control queue of the messages of p can hold.
Empty(p) == Len(c_ovq[Dev[p]]) = 0 /\ consumed[Dev[p]] = 0
Pending(p, value) == /\ Len(c_ovq[Dev[p]]) = 1
                     /\ c_ovq[Dev[p]][1].value = value
                     /\ consumed[Dev[p]] = 0
Done(p) == Len(c_ovq[Dev[p]]) = 0 /\ consumed[Dev[p]] = 1

\* What the host can have open for the device of p: nothing; the descriptor it
\* has noted, if it has noted one.
NoFiles(p) == \A f \in HostFds : hostFiles[f] # Dev[p]
OneFile(p) == /\ hostFd[Dev[p]] \in HostFds
              /\ \A f \in HostFds : hostFiles[f] = Dev[p] <=> f = hostFd[Dev[p]]

\* Before an open has reached the host, and after a close has.
Free(p) == NoFiles(p) /\ Len(c_ivq[Dev[p]]) = 0
\* The host has opened or failed, and its answer is on the way or has come.
Answered(p) == /\ (hostFd[Dev[p]] = Failed /\ NoFiles(p)) \/ OneFile(p)
               /\ \/ /\ Len(c_ivq[Dev[p]]) = 1
                     /\ c_ivq[Dev[p]][1] = hostFd[Dev[p]]
                     /\ fd[Dev[p]] = NotTried
                  \/ /\ Len(c_ivq[Dev[p]]) = 0
                     /\ fd[Dev[p]] = hostFd[Dev[p]]
Arrived(p) == Answered(p) /\ Len(c_ivq[Dev[p]]) = 0
Held(p) == OneFile(p) /\ Len(c_ivq[Dev[p]]) = 0 /\ fd[Dev[p]] = hostFd[Dev[p]]

\* The places of open and release.
AtIdle(p) == /\ pc[p] = "idle" /\ Empty(p) /\ Free(p) /\ fd[Dev[p]] < 0
             /\ \/ ret[p] \in {"none", "OK"}
                \/ ret[p] = "ENODEV" /\ hostFd[Dev[p]] = Failed
AtClaim(p) == pc[p] = "claim" /\ Empty(p) /\ Free(p)
AtAsk(p) == pc[p] = "ask" /\ Empty(p) /\ Free(p) /\ fd[Dev[p]] = NotTried
AtPollOpen(p) == /\ pc[p] = "pollOpen"
                 /\ \/ Pending(p, Open) /\ Free(p) /\ fd[Dev[p]] = NotTried
                    \/ Done(p) /\ Answered(p)
AtWait(p) == pc[p] \in {"test", "asleep"} /\ Empty(p) /\ Answered(p)
AtLook(p) == pc[p] = "look" /\ Empty(p) /\ Arrived(p)
AtOpened(p) == pc[p] = "opened" /\ ret[p] = "OK" /\ Empty(p) /\ Held(p)
AtPollClose(p) == /\ pc[p] = "pollClose" /\ ret[p] = "OK"
                  /\ \/ Pending(p, Close) /\ Held(p)
                     \/ Done(p) /\ Free(p)
AtClear(p) == pc[p] = "clear" /\ ret[p] = "OK" /\ Empty(p) /\ Free(p)

Stage(p) == \/ AtIdle(p) \/ AtClaim(p) \/ AtAsk(p) \/ AtPollOpen(p) \/ AtWait(p)
            \/ AtLook(p) \/ AtOpened(p) \/ AtPollClose(p) \/ AtClear(p)

\* A device that nobody opens never hears anything.
Silent(d) == (\A p \in Openers : Dev[p] # d) => Len(c_ovq[d]) = 0 /\ Len(c_ivq[d]) = 0

IInv == /\ TypeOK
        /\ \A p \in Openers : Stage(p)
        /\ \A d \in Devices : Silent(d)

-----------------------------------------------------------------------------

\* What Stage(p) looks at.
Same(p) == /\ pc'[p] = pc[p] /\ ret'[p] = ret[p]
           /\ fd'[Dev[p]] = fd[Dev[p]]
           /\ c_ovq'[Dev[p]] = c_ovq[Dev[p]]
           /\ consumed'[Dev[p]] = consumed[Dev[p]]
           /\ c_ivq'[Dev[p]] = c_ivq[Dev[p]]
           /\ hostFd'[Dev[p]] = hostFd[Dev[p]]
           /\ \A f \in HostFds : hostFiles'[f] = Dev[p] <=> hostFiles[f] = Dev[p]

LEMMA StageSame == ASSUME NEW p \in Openers, Stage(p), Same(p) PROVE Stage(p)'
<1>1. /\ Empty(p)' <=> Empty(p)
      /\ Done(p)' <=> Done(p)
      /\ \A v : Pending(p, v)' <=> Pending(p, v)
  BY DEF Same, Empty, Done, Pending
<1>2. /\ NoFiles(p)' <=> NoFiles(p)
      /\ OneFile(p)' <=> OneFile(p)
  BY DEF Same, NoFiles, OneFile
<1>3. /\ Free(p)' <=> Free(p)
      /\ Answered(p)' <=> Answered(p)
      /\ Arrived(p)' <=> Arrived(p)
      /\ Held(p)' <=> Held(p)
  BY <1>2 DEF Same, Free, Answered, Arrived, Held
<1> QED
  BY <1>1, <1>3 DEF Same, Stage, AtIdle, AtClaim, AtAsk, AtPollOpen, AtWait, AtLook,
     AtOpened, AtPollClose, AtClear

\* The place of a process in open or release says at which stage its device is.
LEMMA PlaceStage ==
    ASSUME NEW p \in Openers, Stage(p)
    PROVE  /\ pc[p] = "idle" => AtIdle(p)
           /\ pc[p] = "claim" => AtClaim(p)
           /\ pc[p] = "ask" => AtAsk(p)
           /\ pc[p] = "pollOpen" => AtPollOpen(p)
           /\ pc[p] \in {"test", "asleep"} => AtWait(p)
           /\ pc[p] = "look" => AtLook(p)
           /\ pc[p] = "opened" => AtOpened(p)
           /\ pc[p] = "pollClose" => AtPollClose(p)
           /\ pc[p] = "clear" => AtClear(p)
BY Zenon DEF Stage, AtIdle, AtClaim, AtAsk, AtPollOpen, AtWait, AtLook, AtOpened,
   AtPollClose, AtClear

\* A message in the queue is that of a process that polls.
LEMMA QueueStage ==
    ASSUME NEW p \in Openers, Stage(p), Len(c_ovq[Dev[p]]) # 0
    PROVE  \/ pc[p] = "pollOpen" /\ Pending(p, Open) /\ Free(p) /\ fd[Dev[p]] = NotTried
           \/ pc[p] = "pollClose" /\ ret[p] = "OK" /\ Pending(p, Close) /\ Held(p)
<1>1. ~Empty(p) /\ ~Done(p)
  BY DEF Empty, Done
<1>2. AtPollOpen(p) \/ AtPollClose(p)
  BY <1>1 DEF Stage, AtIdle, AtClaim, AtAsk, AtWait, AtLook, AtOpened, AtClear
<1> QED
  BY <1>1, <1>2 DEF AtPollOpen, AtPollClose

\* An answer on its way is that of an open that polls or waits.
LEMMA AnswerStage ==
    ASSUME NEW p \in Openers, Stage(p), Len(c_ivq[Dev[p]]) # 0
    PROVE  /\ \/ pc[p] = "pollOpen" /\ Done(p)
              \/ pc[p] \in {"test", "asleep"} /\ Empty(p)
           /\ Answered(p)
<1>1. ~Free(p) /\ ~Arrived(p) /\ ~Held(p)
  BY DEF Free, Arrived, Held
<1>2. AtPollOpen(p) \/ AtWait(p)
  BY <1>1 DEF Stage, AtIdle, AtClaim, AtAsk, AtLook, AtOpened, AtPollClose, AtClear
<1> QED
  BY <1>1, <1>2 DEF AtPollOpen, AtWait

\* A step of p is not noticed by the process of another device.
LEMMA OthersSame ==
    ASSUME TypeOK, Exclusive, NEW p \in Openers,
           LocalStep(p) \/ ResetStep(p) \/ SendStep(p) \/ PollStep(p),
           NEW q \in Openers, q # p
    PROVE  Same(q)
<1>1. Dev[q] # Dev[p] /\ Dev[q] \in Devices /\ Dev[p] \in Devices
  BY DevIsDevice DEF Exclusive
<1>2. pc'[q] = pc[q]
  BY OnePlace DEF TypeOK
<1>3. ret'[q] = ret[q]
  BY DEF LocalStep, Refused, Admitted, SendNoOpen, FoundReady, WouldBlock, Sleep, Wake,
     Interrupted, OpenFails, OpenSucceeds, SendNoClose, SendNothing, Return, TypeOK,
     ResetStep, SendStep, PollStep, Claim, Clear, SendOpen, SendClose, PollOpen,
     PollClose, Send, Poll
<1>4. UNCHANGED <<c_ivq, hostFd, hostFiles>>
  BY DEF LocalStep, Refused, Admitted, SendNoOpen, FoundReady, WouldBlock, Sleep, Wake,
     Interrupted, OpenFails, OpenSucceeds, SendNoClose, SendNothing,
     ResetStep, SendStep, PollStep, Claim, Clear, SendOpen, SendClose, PollOpen,
     PollClose, Send, Poll, queues, host
<1>5. CASE LocalStep(p)
  <2>1. UNCHANGED <<fd, c_ovq, consumed>>
    BY <1>5, LocalFrame DEF queues
  <2> QED
    BY <1>2, <1>3, <1>4, <2>1 DEF Same
<1>6. CASE ResetStep(p)
  <2>1. UNCHANGED <<c_ovq, consumed>> /\ fd' = [fd EXCEPT ![Dev[p]] = NotTried]
    BY <1>6 DEF ResetStep, Claim, Clear, queues
  <2>2. fd'[Dev[q]] = fd[Dev[q]]
    BY <1>1, <2>1 DEF TypeOK
  <2> QED
    BY <1>2, <1>3, <1>4, <2>1, <2>2 DEF Same
<1>7. CASE SendStep(p)
  <2>1. PICK m : UNCHANGED <<fd, consumed>> /\ c_ovq' = [c_ovq EXCEPT ![Dev[p]] = Append(@, m)]
    BY <1>7 DEF SendStep, SendOpen, SendClose, Send
  <2>2. c_ovq'[Dev[q]] = c_ovq[Dev[q]]
    BY <1>1, <2>1 DEF TypeOK
  <2> QED
    BY <1>2, <1>3, <1>4, <2>1, <2>2 DEF Same
<1>8. CASE PollStep(p)
  <2>1. /\ UNCHANGED fd
        /\ consumed' = [consumed EXCEPT ![Dev[p]] = @ - 1]
        /\ c_ovq' = [c_ovq EXCEPT ![Dev[p]] = Abandon(p, @)]
    BY <1>8 DEF PollStep, PollOpen, PollClose, Poll
  <2>2. c_ovq'[Dev[q]] = c_ovq[Dev[q]] /\ consumed'[Dev[q]] = consumed[Dev[q]]
    BY <1>1, <2>1 DEF TypeOK
  <2> QED
    BY <1>2, <1>3, <1>4, <2>1, <2>2 DEF Same
<1> QED
  BY <1>5, <1>6, <1>7, <1>8

-----------------------------------------------------------------------------
(* The steps of a process that has the device for itself. *)

USE DEF NotTried, Failed, Close, Open, Other, Garbage

\* open and release up to their messages, and what follows them.
LEMMA LocalStage ==
    ASSUME TypeOK, Exclusive, NEW p \in Openers, Stage(p), LocalStep(p)
    PROVE  Stage(p)'
<1> DEFINE d == Dev[p]
<1>0. d \in Devices /\ CtlQueueSize \in Nat /\ CtlQueueSize > 0 /\ \A f \in HostFds : f \in Nat
  BY DevIsDevice, QueueLength, HostFdsNat
<1>1. UNCHANGED <<fd, c_ovq, consumed, c_ivq, hostFd, hostFiles>>
  BY LocalFrame DEF queues, host
<1>2. /\ Empty(p)' <=> Empty(p)
      /\ Free(p)' <=> Free(p)
      /\ Answered(p)' <=> Answered(p)
      /\ Arrived(p)' <=> Arrived(p)
      /\ Held(p)' <=> Held(p)
  BY <1>1 DEF Empty, Free, NoFiles, OneFile, Answered, Arrived, Held
<1>3. /\ \A to \in Places : pc' = [pc EXCEPT ![p] = to] => pc'[p] = to
      /\ \A r : ret' = [ret EXCEPT ![p] = r] => ret'[p] = r
  BY DEF TypeOK
<1>4. Empty(p) => RoomToSend(d)
  BY <1>0 DEF Empty, RoomToSend
<1>5. CASE Refused(p)
  <2>1. pc[p] = "idle" /\ fd[d] >= 0
    BY <1>5 DEF Refused, Return, Goto
  <2>2. fd[d] < 0
    BY <2>1, PlaceStage DEF AtIdle
  <2>3. fd[d] \in Int
    <3>1. fd[d] \in HostFds \union {Failed, NotTried}
      BY <1>0 DEF TypeOK, Replies
    <3>2. CASE fd[d] \in HostFds
      BY <1>0, <3>2
    <3> QED
      BY <3>1, <3>2
  <2> QED
    BY <2>1, <2>2, <2>3
<1>6. CASE Admitted(p)
  <2>1. Empty(p) /\ Free(p)
    BY <1>6, PlaceStage DEF Admitted, Goto, AtIdle
  <2>2. pc'[p] = "claim"
    BY <1>6, <1>3 DEF Admitted, Goto, Places
  <2> QED
    BY <1>2, <2>1, <2>2 DEF Stage, AtClaim
<1>7. CASE SendNoOpen(p) \/ SendNoClose(p)
  <2>1. ~RoomToSend(d) /\ pc[p] \in {"ask", "opened"}
    BY <1>7 DEF SendNoOpen, SendNoClose, SendNothing, Goto
  <2>2. Empty(p)
    BY <2>1, PlaceStage DEF AtAsk, AtOpened
  <2> QED
    BY <1>4, <2>1, <2>2
<1>8. CASE FoundReady(p) \/ Wake(p)
  <2>1. pc[p] \in {"test", "asleep"} /\ pc'[p] = "look" /\ Ready(d)
    BY <1>8, <1>3 DEF FoundReady, Wake, Goto, Places
  <2>2. Empty(p) /\ Answered(p)
    BY <2>1, PlaceStage DEF AtWait
  <2>3. Arrived(p)
    BY <2>1, <2>2 DEF Ready, Answered, Arrived
  <2> QED
    BY <1>2, <2>1, <2>2, <2>3 DEF Stage, AtLook
<1>9. CASE WouldBlock(p) \/ Interrupted(p)
  BY <1>9 DEF WouldBlock, Interrupted, Exclusive
<1>10. CASE Sleep(p)
  <2>1. pc[p] = "test" /\ pc'[p] = "asleep"
    BY <1>10, <1>3 DEF Sleep, Goto, Places
  <2>2. Empty(p) /\ Answered(p)
    BY <2>1, PlaceStage DEF AtWait
  <2> QED
    BY <1>2, <2>1, <2>2 DEF Stage, AtWait
<1>11. ASSUME pc[p] = "look" PROVE Empty(p) /\ Arrived(p)
  BY <1>11, PlaceStage DEF AtLook
<1>12. CASE OpenFails(p)
  <2>1. pc[p] = "look" /\ pc'[p] = "idle" /\ ret'[p] = "ENODEV" /\ fd[d] < 0
    BY <1>12, <1>3 DEF OpenFails, Return, Goto, Places
  <2>2. hostFd[d] = Failed /\ Free(p)
    <3>1. fd[d] = hostFd[d]
      BY <1>11 , <2>1 DEF Arrived, Answered
    <3>2. hostFd[d] \notin HostFds
      <4> SUFFICES ASSUME hostFd[d] \in HostFds PROVE FALSE
        OBVIOUS
      <4>1. hostFd[d] \in Nat
        BY <1>0
      <4> QED
        BY <2>1, <3>1, <4>1
    <3> QED
      BY <1>11, <2>1, <3>2 DEF Arrived, Answered, OneFile, Free
  <2>3. fd'[d] < 0 /\ hostFd'[d] = Failed
    BY <1>1, <2>1, <2>2
  <2> QED
    BY <1>2, <1>11, <2>1, <2>2, <2>3 DEF Stage, AtIdle
<1>13. CASE OpenSucceeds(p)
  <2>1. pc[p] = "look" /\ pc'[p] = "opened" /\ ret'[p] = "OK" /\ fd[d] >= 0
    BY <1>13, <1>3 DEF OpenSucceeds, Return, Goto, Places
  <2>2. Held(p)
    BY <1>11, <2>1 DEF Arrived, Answered, Held
  <2> QED
    BY <1>2, <1>11, <2>1, <2>2 DEF Stage, AtOpened
<1> QED
  BY <1>5, <1>6, <1>7, <1>8, <1>9, <1>10, <1>12, <1>13 DEF LocalStep

\* crdev->fd = -13, at the beginning of open and at the end of release.
LEMMA ResetStage ==
    ASSUME TypeOK, Exclusive, NEW p \in Openers, Stage(p), ResetStep(p)
    PROVE  Stage(p)'
<1> DEFINE d == Dev[p]
<1>1. UNCHANGED <<ret, c_ovq, consumed, c_ivq, hostFd, hostFiles>>
  BY DEF ResetStep, Claim, Clear, queues, host
<1>2. fd'[d] = NotTried
  BY DevIsDevice DEF ResetStep, Claim, Clear, TypeOK
<1>3. (Empty(p)' <=> Empty(p)) /\ (Free(p)' <=> Free(p))
  BY <1>1 DEF Empty, Free, NoFiles
<1>4. \/ pc[p] = "claim" /\ pc'[p] = "ask"
      \/ pc[p] = "clear" /\ pc'[p] = "idle"
  BY DEF ResetStep, Claim, Clear, Goto, TypeOK
<1>5. Empty(p) /\ Free(p) /\ (pc[p] = "clear" => ret[p] = "OK")
  BY <1>4, PlaceStage DEF AtClaim, AtClear
<1>6. CASE pc'[p] = "ask"
  BY <1>2, <1>3, <1>5, <1>6 DEF Stage, AtAsk
<1>7. CASE pc'[p] = "idle"
  <2>1. ret'[p] = "OK" /\ fd'[d] < 0
    BY <1>1, <1>2, <1>4, <1>5, <1>7
  <2> QED
    BY <1>3, <1>5, <1>7, <2>1 DEF Stage, AtIdle
<1> QED
  BY <1>4, <1>6, <1>7

\* The message is alone in the queue.
LEMMA SendStage ==
    ASSUME TypeOK, Exclusive, NEW p \in Openers, Stage(p), SendStep(p)
    PROVE  Stage(p)'
<1> DEFINE d == Dev[p]
<1>1. UNCHANGED <<fd, ret, consumed, c_ivq, hostFd, hostFiles>>
  BY DEF SendStep, SendOpen, SendClose, Send, host
<1>2. PICK v \in {Open, Close} :
        /\ \/ v = Open /\ pc[p] = "ask" /\ pc'[p] = "pollOpen"
           \/ v = Close /\ pc[p] = "opened" /\ pc'[p] = "pollClose"
        /\ c_ovq' = [c_ovq EXCEPT ![d] = Append(@, [from |-> p, value |-> v])]
  BY DEF SendStep, SendOpen, SendClose, Send, Goto, TypeOK
<1>3. Empty(p)
  BY <1>2, PlaceStage DEF AtAsk, AtOpened
<1>4. Pending(p, v)'
  <2>0. d \in Devices
    BY DevIsDevice
  <2>1. c_ovq'[d] = Append(c_ovq[d], [from |-> p, value |-> v]) /\ c_ovq[d] \in Seq(Messages)
    BY <1>2, <2>0 DEF TypeOK
  <2>2. [from |-> p, value |-> v] \in Messages
    BY DEF Messages
  <2>3. Len(c_ovq'[d]) = 1 /\ c_ovq'[d][1] = [from |-> p, value |-> v]
    BY <1>3, <2>1, <2>2, AppendProperties DEF Empty
  <2> QED
    BY <1>1, <1>3, <2>3 DEF Pending, Empty
<1>5. (Free(p)' <=> Free(p)) /\ (Held(p)' <=> Held(p))
  BY <1>1 DEF Free, NoFiles, Held, OneFile
<1>6. CASE v = Open
  <2>1. Free(p) /\ fd[d] = NotTried
    BY <1>2, <1>6, PlaceStage DEF AtAsk
  <2>2. fd'[d] = NotTried
    BY <1>1, <2>1
  <2> QED
    BY <1>2, <1>4, <1>5, <1>6, <2>1, <2>2 DEF Stage, AtPollOpen
<1>7. CASE v = Close
  <2>1. Held(p) /\ ret'[p] = "OK"
    BY <1>1, <1>2, <1>7, PlaceStage DEF AtOpened
  <2> QED
    BY <1>2, <1>4, <1>5, <1>7, <2>1 DEF Stage, AtPollClose
<1> QED
  BY <1>2, <1>6, <1>7

\* The completion is that of the message of p, and the queue is empty again.
LEMMA PollStage ==
    ASSUME TypeOK, Exclusive, NEW p \in Openers, Stage(p), PollStep(p)
    PROVE  Stage(p)'
<1> DEFINE d == Dev[p]
<1>1. UNCHANGED <<fd, ret, c_ivq, hostFd, hostFiles>>
  BY DEF PollStep, PollOpen, PollClose, Poll, host
<1>2. /\ \/ pc[p] = "pollOpen" /\ pc'[p] = "test"
         \/ pc[p] = "pollClose" /\ pc'[p] = "clear"
      /\ consumed[d] > 0
      /\ consumed' = [consumed EXCEPT ![d] = @ - 1]
      /\ c_ovq' = [c_ovq EXCEPT ![d] = Abandon(p, @)]
  BY DEF PollStep, PollOpen, PollClose, Poll, Goto, TypeOK
<1>3. Done(p)
  BY <1>2, PlaceStage DEF AtPollOpen, AtPollClose, Pending
<1>4. Empty(p)'
  <2>1. c_ovq'[d] = Abandon(p, c_ovq[d]) /\ c_ovq[d] \in Seq(Messages)
    BY <1>2, DevIsDevice DEF TypeOK
  <2>2. Len(c_ovq'[d]) = 0
    BY <1>3, <2>1, AbandonProperties DEF Done
  <2>3. consumed'[d] = 0
    BY <1>2, <1>3, DevIsDevice DEF TypeOK, Done
  <2> QED
    BY <2>2, <2>3 DEF Empty
<1>5. (Free(p)' <=> Free(p)) /\ (Answered(p)' <=> Answered(p))
  BY <1>1 DEF Free, NoFiles, Answered, OneFile
<1>6. CASE pc[p] = "pollOpen"
  <2>1. Answered(p)
    BY <1>2, <1>6, PlaceStage DEF AtPollOpen, Pending
  <2> QED
    BY <1>2, <1>4, <1>5, <1>6, <2>1 DEF Stage, AtWait
<1>7. CASE pc[p] = "pollClose"
  <2>1. Free(p) /\ ret'[p] = "OK"
    BY <1>1, <1>2, <1>7, PlaceStage DEF AtPollClose, Pending
  <2> QED
    BY <1>2, <1>4, <1>5, <1>7, <2>1 DEF Stage, AtClear
<1> QED
  BY <1>2, <1>6, <1>7

-----------------------------------------------------------------------------
(* The interrupt and the host. *)

\* A device that has something in a queue has an opener.
LEMMA HasOpener ==
    ASSUME NEW d \in Devices, Silent(d), Len(c_ovq[d]) # 0 \/ Len(c_ivq[d]) # 0
    PROVE  \E p \in Openers : Dev[p] = d
BY DEF Silent

\* The answer arrives while the opener polls or waits.
LEMMA InIntrStage ==
    ASSUME TypeOK, Exclusive, NEW p \in Openers, Stage(p), ControlInIntr(Dev[p])
    PROVE  Stage(p)'
<1> DEFINE d == Dev[p]
<1>1. /\ c_ivq[d] # <<>>
      /\ fd' = [fd EXCEPT ![d] = Head(c_ivq[d])]
      /\ c_ivq' = [c_ivq EXCEPT ![d] = Tail(@)]
      /\ UNCHANGED <<pc, ret, c_ovq, consumed, hostFd, hostFiles>>
  BY DEF ControlInIntr, host
<1>2. d \in Devices /\ c_ivq[d] \in Seq(Replies)
  BY DevIsDevice DEF TypeOK
<1>3. Len(c_ivq[d]) # 0
  BY <1>1, <1>2, EmptySeq
<1>4. /\ \/ pc[p] = "pollOpen" /\ Done(p)
         \/ pc[p] \in {"test", "asleep"} /\ Empty(p)
      /\ Answered(p)
  BY <1>3, AnswerStage
<1>5. Len(c_ivq[d]) = 1 /\ c_ivq[d][1] = hostFd[d]
  BY <1>3, <1>4 DEF Answered
<1>6. fd'[d] = hostFd'[d]
  BY <1>1, <1>2, <1>5 DEF TypeOK
<1>7. Len(c_ivq'[d]) = 0
  <2>1. c_ivq'[d] = Tail(c_ivq[d])
    BY <1>1, <1>2 DEF TypeOK
  <2>2. Len(Tail(c_ivq[d])) = Len(c_ivq[d]) - 1
    BY <1>1, <1>2, HeadTailProperties
  <2> QED
    BY <1>5, <2>1, <2>2
<1>8. (NoFiles(p)' <=> NoFiles(p)) /\ (OneFile(p)' <=> OneFile(p))
  BY <1>1 DEF NoFiles, OneFile
<1>9. Answered(p)'
  BY <1>1, <1>4, <1>6, <1>7, <1>8 DEF Answered
<1>10. (Done(p)' <=> Done(p)) /\ (Empty(p)' <=> Empty(p)) /\ pc'[p] = pc[p]
  BY <1>1 DEF Done, Empty
<1> QED
  BY <1>4, <1>9, <1>10 DEF Stage, AtPollOpen, AtWait

\* A queue that is empty has room for the answer.
LEMMA AnswerAlone ==
    ASSUME TypeOK, NEW d \in Devices, NEW v \in Replies, Answer(d, v), Len(c_ivq[d]) = 0
    PROVE  Len(c_ivq'[d]) = 1 /\ c_ivq'[d][1] = v
<1>1. Len(c_ivq[d]) < CtlQueueSize
  BY QueueLength
<1>2. c_ivq'[d] = Append(c_ivq[d], v) /\ c_ivq[d] \in Seq(Replies)
  BY <1>1 DEF Answer, TypeOK
<1> QED
  BY <1>2, AppendProperties

\* The host finds the message of the opener, as it was sent.
LEMMA HostReads ==
    ASSUME TypeOK, NEW p \in Openers, Stage(p), ControlOut(Dev[p])
    PROVE  \/ /\ pc[p] = "pollOpen" /\ Pending(p, Open) /\ Free(p)
              /\ fd[Dev[p]] = NotTried
              /\ HostOpens(Dev[p])
           \/ /\ pc[p] = "pollClose" /\ ret[p] = "OK" /\ Pending(p, Close) /\ Held(p)
              /\ HostCloses(Dev[p])
<1> DEFINE d == Dev[p]
<1>1. c_ovq[d] # <<>> /\ c_ovq[d] \in Seq(Messages)
  BY DevIsDevice DEF ControlOut, TypeOK
<1>2. Len(c_ovq[d]) # 0
  BY <1>1, EmptySeq
<1>3. \/ pc[p] = "pollOpen" /\ Pending(p, Open) /\ Free(p) /\ fd[d] = NotTried
      \/ pc[p] = "pollClose" /\ ret[p] = "OK" /\ Pending(p, Close) /\ Held(p)
  BY <1>2, QueueStage
<1>4. Head(c_ovq[d]).value = c_ovq[d][1].value
  OBVIOUS
<1>5. ASSUME Pending(p, Open) PROVE HostOpens(d)
  <2>1. Contents(Head(c_ovq[d]).value) = {Open}
    BY <1>4, <1>5 DEF Pending, Contents
  <2> QED
    BY <2>1 DEF ControlOut
<1>6. ASSUME Pending(p, Close) PROVE HostCloses(d)
  <2>1. Contents(Head(c_ovq[d]).value) = {Close}
    BY <1>4, <1>6 DEF Pending, Contents
  <2> QED
    BY <2>1 DEF ControlOut
<1> QED
  BY <1>3, <1>5, <1>6

\* An open that the host hears, with room for the answer, is answered.
LEMMA OpenAnswered ==
    ASSUME TypeOK, NEW p \in Openers, Free(p), fd'[Dev[p]] = NotTried, HostOpens(Dev[p])
    PROVE  Answered(p)'
<1> DEFINE d == Dev[p]
<1>1. d \in Devices /\ Len(c_ivq[d]) = 0 /\ NoFiles(p)
  BY DevIsDevice DEF Free
<1>2. CASE \E f \in HostFds : /\ hostFiles' = [hostFiles EXCEPT ![f] = d]
                              /\ hostFd' = [hostFd EXCEPT ![d] = f]
                              /\ Answer(d, f)
  <2>1. PICK f \in HostFds : /\ hostFiles' = [hostFiles EXCEPT ![f] = d]
                             /\ hostFd' = [hostFd EXCEPT ![d] = f]
                             /\ Answer(d, f)
    BY <1>2
  <2>2. hostFd'[d] = f
    BY <1>1, <2>1 DEF TypeOK
  <2>3. OneFile(p)'
    BY <1>1, <2>1, <2>2 DEF OneFile, NoFiles, TypeOK
  <2>4. Len(c_ivq'[d]) = 1 /\ c_ivq'[d][1] = f
    BY <1>1, <2>1, AnswerAlone DEF Replies
  <2> QED
    BY <2>2, <2>3, <2>4 DEF Answered
<1>3. CASE hostFd' = [hostFd EXCEPT ![d] = Failed] /\ Answer(d, Failed) /\ UNCHANGED hostFiles
  <2>1. hostFd'[d] = Failed
    BY <1>1, <1>3 DEF TypeOK
  <2>2. NoFiles(p)'
    BY <1>1, <1>3 DEF NoFiles
  <2>3. Len(c_ivq'[d]) = 1 /\ c_ivq'[d][1] = Failed
    BY <1>1, <1>3, AnswerAlone DEF Replies
  <2> QED
    BY <2>1, <2>2, <2>3 DEF Answered
<1> QED
  BY <1>2, <1>3 DEF HostOpens

\* What the host closes is what the device had.
LEMMA CloseFrees ==
    ASSUME TypeOK, NEW p \in Openers, Held(p), HostCloses(Dev[p])
    PROVE  Free(p)'
<1>1. Len(c_ivq'[Dev[p]]) = 0
  BY DEF HostCloses, Held
<1>2. ASSUME NEW f \in HostFds PROVE hostFiles'[f] # Dev[p]
  <2>1. hostFiles'[f] = IF f = hostFd[Dev[p]] THEN NoDevice ELSE hostFiles[f]
    BY DEF HostCloses
  <2>2. Dev[p] # NoDevice
    BY DevIsDevice, NoDeviceApart
  <2> QED
    BY <2>1, <2>2 DEF Held, OneFile
<1> QED
  BY <1>1, <1>2 DEF Free, NoFiles

LEMMA ControlOutStage ==
    ASSUME TypeOK, NEW p \in Openers, Stage(p), ControlOut(Dev[p])
    PROVE  Stage(p)'
<1> DEFINE d == Dev[p]
<1>1. /\ c_ovq[d] # <<>>
      /\ c_ovq' = [c_ovq EXCEPT ![d] = Tail(@)]
      /\ consumed' = [consumed EXCEPT ![d] = @ + 1]
      /\ UNCHANGED <<fd, pc, ret>>
  BY DEF ControlOut
<1>2. d \in Devices /\ c_ovq[d] \in Seq(Messages)
  BY DevIsDevice DEF TypeOK
<1>3. Len(c_ovq[d]) = 1 /\ consumed[d] = 0
  BY HostReads DEF Pending
<1>4. Done(p)'
  <2>1. c_ovq'[d] = Tail(c_ovq[d]) /\ consumed'[d] = consumed[d] + 1
    BY <1>1, <1>2 DEF TypeOK
  <2>2. Len(Tail(c_ovq[d])) = Len(c_ovq[d]) - 1
    BY <1>1, <1>2, HeadTailProperties
  <2> QED
    BY <1>3, <2>1, <2>2 DEF Done
<1>5. CASE pc[p] = "pollOpen"
  <2>1. Free(p) /\ fd'[d] = NotTried /\ HostOpens(d) /\ pc'[p] = "pollOpen"
    BY <1>1, <1>5, HostReads
  <2> QED
    BY <1>4, <2>1, OpenAnswered DEF Stage, AtPollOpen
<1>6. CASE pc[p] = "pollClose"
  <2>1. Held(p) /\ HostCloses(d) /\ pc'[p] = "pollClose" /\ ret'[p] = "OK"
    BY <1>1, <1>6, HostReads
  <2> QED
    BY <1>4, <2>1, CloseFrees DEF Stage, AtPollClose
<1> QED
  BY <1>5, <1>6, HostReads

\* The interrupt and the host of one device do not touch what another has: a
\* descriptor is opened when nobody has it, and closed by the device that has it.
LEMMA HostSame ==
    ASSUME TypeOK, Exclusive, NEW p \in Openers, Stage(p),
           ControlInIntr(Dev[p]) \/ ControlOut(Dev[p]),
           NEW q \in Openers, q # p
    PROVE  Same(q)
<1> DEFINE d == Dev[p]
           e == Dev[q]
<1>1. d \in Devices /\ e \in Devices /\ e # d
  BY DevIsDevice DEF Exclusive
<1>2. CASE ControlInIntr(d)
  <2>1. /\ fd' = [fd EXCEPT ![d] = Head(c_ivq[d])]
        /\ c_ivq' = [c_ivq EXCEPT ![d] = Tail(@)]
        /\ UNCHANGED <<pc, ret, c_ovq, consumed, hostFd, hostFiles>>
    BY <1>2 DEF ControlInIntr, host
  <2>2. fd'[e] = fd[e] /\ c_ivq'[e] = c_ivq[e]
    BY <1>1, <2>1 DEF TypeOK
  <2> QED
    BY <2>1, <2>2 DEF Same
<1>3. CASE ControlOut(d)
  <2>1. /\ c_ovq[d] # <<>>
        /\ c_ovq' = [c_ovq EXCEPT ![d] = Tail(@)]
        /\ consumed' = [consumed EXCEPT ![d] = @ + 1]
        /\ UNCHANGED <<fd, pc, ret>>
    BY <1>3 DEF ControlOut
  <2>2. c_ovq'[e] = c_ovq[e] /\ consumed'[e] = consumed[e]
    BY <1>1, <2>1 DEF TypeOK
  <2>3. HostOpens(d) \/ (HostCloses(d) /\ Held(p))
    BY <1>3, HostReads
  <2>4. /\ c_ivq'[e] = c_ivq[e] /\ hostFd'[e] = hostFd[e]
        /\ \A f \in HostFds : hostFiles'[f] = e <=> hostFiles[f] = e
    <3>1. CASE \E f \in HostFds : /\ hostFiles[f] = NoDevice
                                  /\ hostFiles' = [hostFiles EXCEPT ![f] = d]
                                  /\ hostFd' = [hostFd EXCEPT ![d] = f]
                                  /\ Answer(d, f)
      <4>1. PICK f \in HostFds : /\ hostFiles[f] = NoDevice
                                 /\ hostFiles' = [hostFiles EXCEPT ![f] = d]
                                 /\ hostFd' = [hostFd EXCEPT ![d] = f]
                                 /\ Answer(d, f)
        BY <3>1
      <4>2. c_ivq'[e] = c_ivq[e]
        BY <1>1, <4>1, AnswerElsewhere DEF Replies
      <4>3. hostFd'[e] = hostFd[e]
        BY <1>1, <4>1 DEF TypeOK
      <4>4. ASSUME NEW g \in HostFds PROVE hostFiles'[g] = e <=> hostFiles[g] = e
        <5>1. NoDevice # e
          BY <1>1, NoDeviceApart
        <5>2. hostFiles'[g] = IF g = f THEN d ELSE hostFiles[g]
          BY <4>1 DEF TypeOK
        <5> QED
          BY <1>1, <4>1, <5>1, <5>2
      <4> QED
        BY <4>2, <4>3, <4>4
    <3>2. CASE hostFd' = [hostFd EXCEPT ![d] = Failed] /\ Answer(d, Failed) /\ UNCHANGED hostFiles
      <4>1. c_ivq'[e] = c_ivq[e]
        BY <1>1, <3>2, AnswerElsewhere DEF Replies
      <4>2. hostFd'[e] = hostFd[e]
        BY <1>1, <3>2 DEF TypeOK
      <4> QED
        BY <3>2, <4>1, <4>2
    <3>3. CASE HostCloses(d) /\ Held(p)
      <4>1. UNCHANGED <<hostFd, c_ivq>>
        BY <3>3 DEF HostCloses
      <4>2. ASSUME NEW g \in HostFds PROVE hostFiles'[g] = e <=> hostFiles[g] = e
        <5>1. hostFiles'[g] = IF g = hostFd[d] THEN NoDevice ELSE hostFiles[g]
          BY <3>3 DEF HostCloses
        <5>2. g = hostFd[d] => hostFiles[g] = d
          BY <3>3 DEF Held, OneFile
        <5> QED
          BY <1>1, <5>1, <5>2, NoDeviceApart
      <4> QED
        BY <4>1, <4>2
    <3> QED
      BY <2>3, <3>1, <3>2, <3>3 DEF HostOpens
  <2> QED
    BY <2>1, <2>2, <2>4 DEF Same
<1> QED
  BY <1>2, <1>3

-----------------------------------------------------------------------------
(* The invariant is inductive. *)

LEMMA InitOwner == ASSUME Init PROVE IInv
<1>1. TypeOK
  BY InitType
<1>2. ASSUME NEW p \in Openers PROVE AtIdle(p)
  <2>1. Empty(p)
    BY DevIsDevice DEF Init, Empty
  <2>2. NoFiles(p)
    BY DevIsDevice, NoDeviceApart DEF Init, NoFiles
  <2>3. Free(p)
    BY <2>2, DevIsDevice DEF Init, Free
  <2>4. pc[p] = "idle" /\ ret[p] = "none" /\ fd[Dev[p]] < 0
    BY DevIsDevice DEF Init, NotTried
  <2> QED
    BY <2>1, <2>3, <2>4 DEF AtIdle
<1>3. ASSUME NEW d \in Devices PROVE Silent(d)
  BY DEF Init, Silent
<1> QED
  BY <1>1, <1>2, <1>3 DEF IInv, Stage

\* A device without an opener gets no message, and no answer.
LEMMA SilentStep ==
    ASSUME IInv, [Next]_vars, NEW d \in Devices
    PROVE  Silent(d)'
<1> SUFFICES ASSUME \A p \in Openers : Dev[p] # d
             PROVE  Len(c_ovq'[d]) = 0 /\ Len(c_ivq'[d]) = 0
  BY DEF Silent
<1>1. TypeOK /\ Len(c_ovq[d]) = 0 /\ Len(c_ivq[d]) = 0
  BY DEF IInv, Silent
<1>2. CASE UNCHANGED vars
  BY <1>1, <1>2 DEF vars
<1>3. ASSUME NEW p \in Openers, LocalStep(p) \/ ResetStep(p)
      PROVE  Len(c_ovq'[d]) = 0 /\ Len(c_ivq'[d]) = 0
  <2>1. UNCHANGED queues
    BY <1>3, LocalFrame DEF ResetStep, Claim, Clear
  <2> QED
    BY <1>1, <2>1 DEF queues
<1>4. ASSUME NEW p \in Openers, SendStep(p) \/ PollStep(p)
      PROVE  Len(c_ovq'[d]) = 0 /\ Len(c_ivq'[d]) = 0
  <2>1. PICK q : c_ovq' = [c_ovq EXCEPT ![Dev[p]] = q]
    BY <1>4 DEF SendStep, SendOpen, SendClose, Send, PollStep, PollOpen, PollClose, Poll
  <2>2. c_ivq' = c_ivq
    BY <1>4 DEF SendStep, SendOpen, SendClose, Send, PollStep, PollOpen, PollClose, Poll
  <2>3. c_ovq'[d] = c_ovq[d]
    BY <1>1, <2>1 DEF TypeOK
  <2> QED
    BY <1>1, <2>2, <2>3
<1>5. ASSUME NEW e \in Devices, ControlInIntr(e)
      PROVE  Len(c_ovq'[d]) = 0 /\ Len(c_ivq'[d]) = 0
  <2>1. c_ivq[e] # <<>> /\ c_ivq' = [c_ivq EXCEPT ![e] = Tail(@)] /\ c_ovq' = c_ovq
    BY <1>5 DEF ControlInIntr
  <2>2. c_ivq[e] \in Seq(Replies)
    BY <1>1 DEF TypeOK
  <2>3. Len(c_ivq[e]) # 0
    BY <2>1, <2>2, EmptySeq
  <2>4. c_ivq'[d] = c_ivq[d]
    BY <1>1, <2>1, <2>3 DEF TypeOK
  <2> QED
    BY <1>1, <2>1, <2>4
<1>6. ASSUME NEW e \in Devices, ControlOut(e)
      PROVE  Len(c_ovq'[d]) = 0 /\ Len(c_ivq'[d]) = 0
  <2>1. c_ovq[e] # <<>> /\ c_ovq' = [c_ovq EXCEPT ![e] = Tail(@)]
    BY <1>6 DEF ControlOut
  <2>2. c_ovq[e] \in Seq(Messages)
    BY <1>1 DEF TypeOK
  <2>3. Len(c_ovq[e]) # 0
    BY <2>1, <2>2, EmptySeq
  <2>4. d # e /\ c_ovq'[d] = c_ovq[d]
    BY <1>1, <2>1, <2>3 DEF TypeOK
  <2>5. c_ivq'[d] = c_ivq[d]
    BY <1>1, <1>6, <2>4, HostActs, AnswerElsewhere DEF Replies
  <2> QED
    BY <1>1, <2>4, <2>5
<1> QED
  BY <1>2, <1>3, <1>4, <1>5, <1>6, StepKinds

LEMMA OwnerStep == ASSUME Exclusive, IInv, [Next]_vars PROVE IInv'
<1>1. TypeOK'
  BY TypeStep DEF IInv
<1>2. \A d \in Devices : Silent(d)'
  BY SilentStep
<1>3. ASSUME NEW q \in Openers PROVE Stage(q)'
  <2>1. TypeOK /\ Stage(q) /\ \A p \in Openers : Stage(p)
    BY DEF IInv
  <2>2. CASE UNCHANGED vars
    BY <2>1, <2>2, StageSame DEF vars, Same
  <2>3. ASSUME NEW p \in Openers, LocalStep(p) \/ ResetStep(p) \/ SendStep(p) \/ PollStep(p)
        PROVE  Stage(q)'
    <3>1. CASE q = p
      BY <2>1, <2>3, <3>1, LocalStage, ResetStage, SendStage, PollStage
    <3>2. CASE q # p
      BY <2>1, <2>3, <3>2, OthersSame, StageSame
    <3> QED
      BY <3>1, <3>2
  <2>4. ASSUME NEW d \in Devices, ControlInIntr(d) \/ ControlOut(d) PROVE Stage(q)'
    <3>1. Silent(d) /\ c_ovq[d] \in Seq(Messages) /\ c_ivq[d] \in Seq(Replies)
      BY DEF IInv, TypeOK
    <3>2. c_ovq[d] # <<>> \/ c_ivq[d] # <<>>
      BY <2>4 DEF ControlInIntr, ControlOut
    <3>3. Len(c_ovq[d]) # 0 \/ Len(c_ivq[d]) # 0
      BY <3>1, <3>2, EmptySeq
    <3>4. PICK p \in Openers : Dev[p] = d
      BY <3>1, <3>3, HasOpener
    <3>5. CASE q = p
      BY <2>1, <2>4, <3>4, <3>5, InIntrStage, ControlOutStage
    <3>6. CASE q # p
      BY <2>1, <2>4, <3>4, <3>6, HostSame, StageSame
    <3> QED
      BY <3>5, <3>6
  <2> QED
    BY <2>2, <2>3, <2>4, StepKinds
<1> QED
  BY <1>1, <1>2, <1>3 DEF IInv

\* A garbage message would have to be that of a sender who is not polling.
LEMMA StageMeans ==
    ASSUME IInv
    PROVE  OwnerHasDescriptor /\ AvailableWhenFree /\ RefusalMeansHostFailure
           /\ MessagesOutliveUse
<1>1. OwnerHasDescriptor
  <2> SUFFICES ASSUME NEW p \in Openers, pc[p] = "opened"
               PROVE  /\ fd[Dev[p]] = hostFd[Dev[p]]
                      /\ hostFd[Dev[p]] \in HostFds
                      /\ hostFiles[hostFd[Dev[p]]] = Dev[p]
    BY DEF OwnerHasDescriptor
  <2>1. Held(p)
    BY PlaceStage DEF IInv, AtOpened
  <2> QED
    BY <2>1 DEF Held, OneFile
<1>2. ASSUME NEW p \in Openers, pc[p] = "idle" PROVE AtIdle(p)
  BY <1>2, PlaceStage DEF IInv
<1>3. AvailableWhenFree
  BY <1>2 DEF AvailableWhenFree, AtIdle, Free, NoFiles
<1>4. RefusalMeansHostFailure
  BY <1>2 DEF RefusalMeansHostFailure, AtIdle
<1>5. MessagesOutliveUse
  <2> SUFFICES ASSUME NEW d \in Devices, NEW i \in DOMAIN c_ovq[d]
               PROVE  c_ovq[d][i].value # Garbage
    BY DEF MessagesOutliveUse
  <2>1. c_ovq[d] \in Seq(Messages) /\ Silent(d)
    BY DEF IInv, TypeOK
  <2>2. i \in 1 .. Len(c_ovq[d]) /\ Len(c_ovq[d]) \in Nat
    BY <2>1, LenProperties
  <2>3. PICK p \in Openers : Dev[p] = d
    BY <2>1, <2>2, HasOpener
  <2>4. \E v \in {Open, Close} : Pending(p, v)
    BY <2>2, <2>3, QueueStage DEF IInv
  <2> QED
    BY <2>2, <2>3, <2>4 DEF Pending
<1> QED
  BY <1>1, <1>3, <1>4, <1>5

\* The stages of open and release are what a device with one process goes through.
THEOREM OwnerInvariant == ASSUME Exclusive PROVE Spec => []IInv
<1>1. IInv /\ [Next]_vars => IInv'
  BY OwnerStep
<1>2. Init => IInv
  BY InitOwner
<1> QED
  BY <1>1, <1>2, PTL DEF Spec

\* For any number of devices with one process each, whoever has a device open has
\* a descriptor of the host, and no other device's release has closed it.
THEOREM OwnersKeepDescriptors == ASSUME Exclusive PROVE Spec => []OwnerHasDescriptor
<1>1. IInv => OwnerHasDescriptor
  BY StageMeans
<1> QED
  BY <1>1, OwnerInvariant, PTL

\* For any number of devices with one process each, a device that nobody uses can
\* be opened, and nothing of it is left open in QEMU.
THEOREM FreeDevicesAvailable == ASSUME Exclusive PROVE Spec => []AvailableWhenFree
<1>1. IInv => AvailableWhenFree
  BY StageMeans
<1> QED
  BY <1>1, OwnerInvariant, PTL

\* For any number of devices with one process each, the only failure of open is
\* that of the host.
THEOREM RefusalsExplained == ASSUME Exclusive PROVE Spec => []RefusalMeansHostFailure
<1>1. IInv => RefusalMeansHostFailure
  BY StageMeans
<1> QED
  BY <1>1, OwnerInvariant, PTL

\* For any number of devices with one process each, no control message is read
\* after its sender has returned.
THEOREM MessagesLive == ASSUME Exclusive PROVE Spec => []MessagesOutliveUse
<1>1. IInv => MessagesOutliveUse
  BY StageMeans
<1> QED
  BY <1>1, OwnerInvariant, PTL
=============================================================================
