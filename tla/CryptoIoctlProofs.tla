--------------------------- MODULE CryptoIoctlProofs ---------------------------
(***************************************************************************)
(* What holds of the data path of a crypto device for any number of        *)
(* callers, buffers and calls, although no lock protects it: its type, the *)
(* conservation of the requests in the output queue and of the blocks, how *)
(* many buffers of the input queue the lost stores to crdev->inbuf can     *)
(* cost; and that a call that has the device for itself, whatever happened *)
(* before it, returns its own answer and leaves nothing behind.            *)
(*                                                                         *)
(* First what each step does to each variable; then the type, the requests *)
(* and the buffers, each from those lemmas; then how calls begin, go on    *)
(* and end; last the course of a call alone, step by step.                 *)
(***************************************************************************)
EXTENDS CryptoIoctl, FiniteSetTheorems, SequenceTheorems, TLAPS

ReaderPlaces == Places \union {"handler"}
TestSteps == {"read", "take", "keep", "store"}

\* What cannot be said of one variable alone: a caller in a call has a request,
\* and what is to be stored or copied is a buffer.
BusyInv ==
    /\ \A p \in Callers : Busy(p) => req[p] \in Requests
    /\ \A p \in Callers : pc[p] = "requeue" => got[p] \in Buffers

IoctlInv == TypeOK /\ BusyInv

LEMMA TypeInit == ASSUME Init PROVE IoctlInv
<1> USE DEF Init
<1>1. ivAvail \in Seq(Buffers) /\ ivUsed \in Seq(Buffers)
  BY ConstantsAssumption DEF Buffers
<1>2. ovAvail \in Seq(Requests) /\ ovUsed \in Seq(Requests)
  OBVIOUS
<1>3. /\ pc \in [Readers -> ReaderPlaces] /\ step \in [Readers -> TestSteps]
      /\ got \in [Readers -> Buffers \union {NoBuffer}] /\ inbuf \in Buffers \union {NoBuffer}
      /\ woken \subseteq Callers
  BY DEF ReaderPlaces, TestSteps, Places
<1>4. /\ reply \in [Buffers -> Requests \union {None}] /\ read \subseteq Buffers
      /\ ovqSize \in OvqSizes /\ host \in Requests \union {None} /\ pending \in BOOLEAN
  OBVIOUS
<1>5. /\ calls \in 0 .. MaxCalls /\ req \in [Callers -> Requests \union {None}]
      /\ request \in [Requests -> [cmd : Commands \union {"none", "unknown"}, ses : Requests \union {None}]]
      /\ live \subseteq Requests /\ answer \in [Requests -> Requests \union {None}]
  BY ConstantsAssumption
<1>6. /\ outcome \in [Requests -> Outcomes] /\ session \in [Callers -> Requests \union {None}]
      /\ sessions \subseteq Requests /\ result \in [Requests -> {"none", "ok", "failed"}]
      /\ alone \subseteq Requests /\ lost \in Nat /\ robbed \in Nat
  BY DEF Outcomes
<1>7. BusyInv
  BY DEF BusyInv, Busy, Readers
<1> QED
  BY <1>1, <1>2, <1>3, <1>4, <1>5, <1>6, <1>7 DEF IoctlInv, TypeOK, ReaderPlaces, TestSteps

(* What a step does to each variable.  Every action is expanded for these lemmas, *)
(* and for these alone.                                                           *)

USE DEF Next, Call, UnknownCommand, Continue, Signal, InIntr, Host, Test, Reclaim, Reclaimed, AddBuffer,
        AddNothing, PollSent, ReadInbuf, TakeReply, HasReply, WouldBlock, BeginWait, PrepareToWait,
        NeedNotWait, GoToSleep, InterruptedWait, StillThere, Gone, NothingToCopy,
        SomethingToCopy, Wake, Oops, CopyReply, Requeue, Fails, CannotCopyOut, Succeeds,
        Returned, BeginInterrupt, EndInterrupt, HandleOutput, HandleGarbage, GiveBack,
        Tested, GiveUp, StoreInbuf

LEMMA PcStep ==
    ASSUME TypeOK, Next
    PROVE  \E r \in Readers, s \in ReaderPlaces : pc' = pc \/ pc' = [pc EXCEPT ![r] = s]
BY DEF Then, Goto, guest, Readers, Places, ReaderPlaces

LEMMA StepStep ==
    ASSUME TypeOK, Next
    PROVE  \E r \in Readers, s \in TestSteps : step' = step \/ step' = [step EXCEPT ![r] = s]
<1>1. ASSUME NEW r \in Readers, ReadInbuf(r) \/ TakeReply(r) \/ StoreInbuf(r)
      PROVE  \E s \in TestSteps : step' = [step EXCEPT ![r] = s]
  BY <1>1 DEF TestSteps
<1>2. ASSUME \A r \in Readers : ~ReadInbuf(r) /\ ~TakeReply(r) /\ ~StoreInbuf(r)
      PROVE  step' = step
  <2>1. Callers \subseteq Readers /\ Interrupt \in Readers
    BY DEF Readers
  <2>2. \A p \in Callers : ~Test(p)
    BY <1>2, <2>1
  <2>3. ~EndInterrupt /\ ~ReadInbuf(Interrupt) /\ ~TakeReply(Interrupt)
    BY <1>2, <2>1
  <2> HIDE DEF Test, EndInterrupt, ReadInbuf, TakeReply
  <2> QED
    BY <2>2, <2>3 DEF guest
<1> QED
  BY <1>1, <1>2 DEF Readers, TestSteps

LEMMA QueueStep ==
    ASSUME TypeOK, Next
    PROVE  /\ \/ ivAvail' = ivAvail
              \/ \E p \in Callers : pc[p] = "requeue" /\ ivAvail' = Append(ivAvail, got[p])
              \/ ivAvail # <<>> /\ ivAvail' = Tail(ivAvail)
           /\ \/ ivUsed' = ivUsed
              \/ ivUsed # <<>> /\ ivUsed' = Tail(ivUsed)
              \/ ivAvail # <<>> /\ ivUsed' = Append(ivUsed, Head(ivAvail))
BY DEF SendBuffer, Goto, guest, input

LEMMA OutputStep ==
    ASSUME TypeOK, Next
    PROVE  /\ \/ ovAvail' = ovAvail
              \/ \E p \in Callers : pc[p] = "add" /\ ovAvail' = Append(ovAvail, req[p])
              \/ ovAvail # <<>> /\ ovAvail' = Tail(ovAvail)
           /\ \/ ovUsed' = ovUsed
              \/ ovUsed # <<>> /\ ovUsed' = Tail(ovUsed)
              \/ host # None /\ ovUsed' = Append(ovUsed, host)
           /\ host' = host \/ host' = None \/ (ovAvail # <<>> /\ host' = Head(ovAvail))
           /\ ovqSize' = ovqSize
BY DEF Goto, output, device

LEMMA InbufStep ==
    ASSUME TypeOK, Next
    PROVE  inbuf' = inbuf \/ inbuf' = NoBuffer \/ \E r \in Readers : inbuf' = got[r]
BY DEF guest, Readers

LEMMA GotStep ==
    ASSUME TypeOK, Next
    PROVE  \/ got' = got
           \/ \E r \in Readers : \/ got' = [got EXCEPT ![r] = inbuf]
                                 \/ got' = [got EXCEPT ![r] = NoBuffer]
                                 \/ ivUsed # <<>> /\ got' = [got EXCEPT ![r] = Head(ivUsed)]
BY DEF guest, Readers

LEMMA ReplyStep ==
    ASSUME TypeOK, Next
    PROVE  /\ \/ reply' = reply
              \/ /\ ivAvail # <<>> /\ ovAvail # <<>>
                 /\ reply' = [reply EXCEPT ![Head(ivAvail)] = Head(ovAvail)]
           /\ \/ read' = read
              \/ ivUsed # <<>> /\ read' = read \ {Head(ivUsed)}
              \/ inbuf # NoBuffer /\ read' = read \union {inbuf}
           /\ woken' \subseteq woken \union Callers
           /\ pending' = pending \/ pending' = TRUE \/ pending' = FALSE
BY DEF SendBuffer, input, device, guest

LEMMA CallStep ==
    ASSUME TypeOK, Next
    PROVE  \/ UNCHANGED << calls, req, request >>
           \/ \E p \in Callers, cmd \in Commands \union {"unknown"} : \E ses \in {session[p], None} :
                /\ calls < MaxCalls /\ calls' = calls + 1
                /\ req' = [req EXCEPT ![p] = calls']
                /\ request' = [request EXCEPT ![calls'] = [cmd |-> cmd, ses |-> ses]]
<1>1. ASSUME NEW p \in Callers, UnknownCommand(p) \/ \E cmd \in Commands : Call(p, cmd)
      PROVE  \E cmd \in Commands \union {"unknown"} : \E ses \in {session[p], None} :
                /\ calls < MaxCalls /\ calls' = calls + 1
                /\ req' = [req EXCEPT ![p] = calls']
                /\ request' = [request EXCEPT ![calls'] = [cmd |-> cmd, ses |-> ses]]
  BY <1>1
<1>2. ASSUME \A p \in Callers : ~UnknownCommand(p) /\ \A cmd \in Commands : ~Call(p, cmd)
      PROVE  UNCHANGED << calls, req, request >>
  BY <1>2 DEF blocks
<1> QED
  BY <1>1, <1>2

LEMMA LiveStep ==
    ASSUME TypeOK, Next
    PROVE  live' \subseteq Requests
<1>1. live' \subseteq live \/ (calls < MaxCalls /\ calls' = calls + 1 /\ live' = live \union {calls'})
  BY DEF blocks
<1>2. live \subseteq Requests /\ calls \in 0 .. MaxCalls /\ MaxCalls \in Nat
  BY ConstantsAssumption DEF TypeOK
<1>3. calls < MaxCalls => calls + 1 \in Requests
  BY <1>2 DEF Requests
<1> QED
  BY <1>1, <1>2, <1>3

LEMMA BlockStep ==
    ASSUME TypeOK, Next
    PROVE  /\ \/ answer' = answer
              \/ \E p \in Callers : /\ pc[p] = "copy" /\ inbuf # NoBuffer
                                     /\ answer' = [answer EXCEPT ![req[p]] = reply[inbuf]]
              \/ ovAvail # <<>> /\ answer' = [answer EXCEPT ![Head(ovAvail)] = Head(ovAvail)]
           /\ \/ session' = session
              \/ \E p \in Callers : pc[p] = "finish" /\ session' = [session EXCEPT ![p] = answer[req[p]]]
BY DEF blocks, Goto

LEMMA ResultStep ==
    ASSUME TypeOK, Next
    PROVE  /\ \/ outcome' = outcome
              \/ \E p \in Callers, o \in Outcomes : outcome' = [outcome EXCEPT ![req[p]] = o]
              \/ outcome' = [outcome EXCEPT ![calls'] = "EINVAL"]
           /\ \/ result' = result
              \/ \E ok \in {"ok", "failed"} :
                   ovAvail # <<>> /\ result' = [result EXCEPT ![Head(ovAvail)] = ok]
           /\ sessions' \subseteq sessions \/ (ovAvail # <<>> /\ sessions' \subseteq sessions \union {Head(ovAvail)})
BY DEF blocks, device, Outcomes, Answers, SessionsAfter

LEMMA HistoryStep ==
    ASSUME TypeOK, Next
    PROVE  /\ lost' = lost \/ lost' = lost + 1
           /\ robbed' = robbed \/ robbed' = robbed + 1
           /\ \/ alone' \subseteq alone
              \/ calls < MaxCalls /\ calls' = calls + 1 /\ alone' \subseteq alone \union {calls'}
BY DEF history, Undone, TypeOK

\* The head of a queue is one of its elements, its tail has the others.
LEMMA HeadTail ==
    ASSUME NEW S, NEW q \in Seq(S), q # << >>
    PROVE  Head(q) \in S /\ Tail(q) \in Seq(S) /\ Len(q) \in Nat /\ Len(Tail(q)) = Len(q) - 1
<1>1. Len(q) # 0 /\ Len(q) \in Nat
  BY EmptySeq, LenProperties
<1> QED
  BY <1>1, HeadTailProperties

\* A caller in a call has a request: a new one is given with the call.
LEMMA BusyStep ==
    ASSUME IoctlInv, Next
    PROVE  \A p \in Callers : Busy(p)' => Busy(p) \/ (calls < MaxCalls /\ calls' = calls + 1 /\ req'[p] = calls')
<1>1. pc \in [Readers -> ReaderPlaces] /\ req \in [Callers -> Requests \union {None}]
      /\ Callers \subseteq Readers /\ Interrupt \notin Callers
  BY ConstantsAssumption DEF IoctlInv, TypeOK, ReaderPlaces, Readers
<1>2. ASSUME NEW q \in Callers, NEW cmd \in Commands, Call(q, cmd), NEW p \in Callers, Busy(p)'
      PROVE  Busy(p) \/ (calls < MaxCalls /\ calls' = calls + 1 /\ req'[p] = calls')
  <2>1. /\ pc' = [pc EXCEPT ![q] = "reclaim"] /\ req' = [req EXCEPT ![q] = calls']
        /\ calls < MaxCalls /\ calls' = calls + 1
    BY <1>2 DEF Call, Goto
  <2> QED
    BY <1>1, <1>2, <2>1 DEF Busy
<1>3. ASSUME \A q \in Callers, cmd \in Commands : ~Call(q, cmd), NEW p \in Callers, pc[p] = "idle"
      PROVE  pc'[p] = "idle"
  BY <1>1, <1>3 DEF Then, Goto, guest
<1> QED
  BY <1>2, <1>3 DEF Busy

LEMMA RequeueStep ==
    ASSUME IoctlInv, Next
    PROVE  \A p \in Callers : pc'[p] = "requeue" =>
              \/ pc[p] = "requeue" /\ got'[p] = got[p]
              \/ inbuf # NoBuffer /\ got'[p] = inbuf
<1>1. /\ pc \in [Readers -> ReaderPlaces] /\ got \in [Readers -> Buffers \union {NoBuffer}]
      /\ Callers \subseteq Readers /\ Interrupt \notin Callers
  BY ConstantsAssumption DEF IoctlInv, TypeOK, ReaderPlaces, Readers
<1> SUFFICES ASSUME NEW p \in Callers, pc'[p] = "requeue"
             PROVE  \/ pc[p] = "requeue" /\ got'[p] = got[p]
                    \/ inbuf # NoBuffer /\ got'[p] = inbuf
  OBVIOUS
<1>2. CASE \E q \in Callers : CopyReply(q)
  BY <1>1, <1>2 DEF Goto, Then, guest
<1>3. CASE \A q \in Callers : ~CopyReply(q)
  <2>1. pc[p] = "requeue"
    BY <1>1, <1>3 DEF Then, Goto, guest
  <2>2. pc'[p] = pc[p] /\ p \in Readers
    BY <1>1, <2>1
  <2>3. got'[p] = got[p]
    BY <1>1, <1>3, <2>1, <2>2 DEF Then, Goto, guest, Testing
  <2> QED
    BY <2>1, <2>3
<1> QED
  BY <1>2, <1>3

HIDE DEF Next, Call, UnknownCommand, Continue, Signal, InIntr, Host, Test, Reclaim, Reclaimed, AddBuffer,
         AddNothing, PollSent, ReadInbuf, TakeReply, HasReply, WouldBlock, BeginWait, PrepareToWait,
         NeedNotWait, GoToSleep, InterruptedWait, StillThere, Gone, NothingToCopy,
         SomethingToCopy, Wake, Oops, CopyReply, Requeue, Fails, CannotCopyOut, Succeeds,
         Returned, BeginInterrupt, EndInterrupt, HandleOutput, HandleGarbage, GiveBack,
         Tested, GiveUp, StoreInbuf

-----------------------------------------------------------------------------
LEMMA NextInv == ASSUME IoctlInv, Next PROVE IoctlInv'
<1>1. /\ pc \in [Readers -> ReaderPlaces] /\ step \in [Readers -> TestSteps]
      /\ got \in [Readers -> Buffers \union {NoBuffer}] /\ inbuf \in Buffers \union {NoBuffer}
      /\ ivAvail \in Seq(Buffers) /\ ivUsed \in Seq(Buffers)
      /\ ovAvail \in Seq(Requests) /\ ovUsed \in Seq(Requests) /\ host \in Requests \union {None}
      /\ reply \in [Buffers -> Requests \union {None}] /\ read \subseteq Buffers
      /\ TypeOK
  BY DEF IoctlInv, TypeOK, ReaderPlaces, TestSteps
<1>2. /\ calls \in 0 .. MaxCalls /\ req \in [Callers -> Requests \union {None}]
      /\ request \in [Requests -> [cmd : Commands \union {"none", "unknown"}, ses : Requests \union {None}]]
      /\ live \subseteq Requests /\ answer \in [Requests -> Requests \union {None}]
      /\ outcome \in [Requests -> Outcomes] /\ session \in [Callers -> Requests \union {None}]
      /\ sessions \subseteq Requests /\ result \in [Requests -> {"none", "ok", "failed"}]
      /\ alone \subseteq Requests /\ lost \in Nat /\ robbed \in Nat /\ woken \subseteq Callers /\ Callers \subseteq Readers
      /\ ovqSize \in OvqSizes /\ pending \in BOOLEAN /\ MaxCalls \in Nat
  BY ConstantsAssumption DEF IoctlInv, TypeOK, Readers
<1>3. /\ \A p \in Callers : Busy(p) => req[p] \in Requests
      /\ \A p \in Callers : pc[p] = "requeue" => got[p] \in Buffers
  BY DEF IoctlInv, BusyInv
<1>4. /\ ivAvail # << >> => Head(ivAvail) \in Buffers /\ Tail(ivAvail) \in Seq(Buffers)
      /\ ivUsed # << >> => Head(ivUsed) \in Buffers /\ Tail(ivUsed) \in Seq(Buffers)
      /\ ovAvail # << >> => Head(ovAvail) \in Requests /\ Tail(ovAvail) \in Seq(Requests)
      /\ ovUsed # << >> => Head(ovUsed) \in Requests /\ Tail(ovUsed) \in Seq(Requests)
  BY <1>1, HeadTail
<1>5. pc' \in [Readers -> ReaderPlaces] /\ step' \in [Readers -> TestSteps]
  BY <1>1, PcStep, StepStep
<1>6. got' \in [Readers -> Buffers \union {NoBuffer}] /\ inbuf' \in Buffers \union {NoBuffer}
  <2>1. got' \in [Readers -> Buffers \union {NoBuffer}]
    BY <1>1, <1>4, GotStep
  <2>2. inbuf' \in Buffers \union {NoBuffer}
    BY <1>1, InbufStep
  <2> QED
    BY <2>1, <2>2
<1>7. ivAvail' \in Seq(Buffers) /\ ivUsed' \in Seq(Buffers)
  <2>1. \A b \in Buffers : Append(ivAvail, b) \in Seq(Buffers) /\ Append(ivUsed, b) \in Seq(Buffers)
    BY <1>1, AppendProperties
  <2> QED
    BY <1>1, <1>3, <1>4, <2>1, QueueStep
<1>8. /\ ovAvail' \in Seq(Requests) /\ ovUsed' \in Seq(Requests)
      /\ host' \in Requests \union {None} /\ ovqSize' \in OvqSizes
  <2>1. \A n \in Requests : Append(ovAvail, n) \in Seq(Requests) /\ Append(ovUsed, n) \in Seq(Requests)
    BY <1>1, AppendProperties
  <2>2. \A p \in Callers : pc[p] = "add" => req[p] \in Requests
    BY <1>3 DEF Busy
  <2>3. host # None => host \in Requests
    BY <1>1
  <2> QED
    BY <1>1, <1>2, <1>4, <2>1, <2>2, <2>3, OutputStep
<1>9. reply' \in [Buffers -> Requests \union {None}] /\ read' \subseteq Buffers
  BY <1>1, <1>4, ReplyStep
<1>10. woken' \subseteq Callers /\ pending' \in BOOLEAN
  <2>1. woken' \subseteq Callers
    BY <1>1, <1>2, ReplyStep
  <2>2. pending' = pending \/ pending' = TRUE \/ pending' = FALSE
    BY <1>1, ReplyStep
  <2> QED
    BY <1>2, <2>1, <2>2, Zenon
<1>11. calls' \in 0 .. MaxCalls
  BY <1>1, <1>2, CallStep DEF Requests
<1>12. /\ req' \in [Callers -> Requests \union {None}]
       /\ request' \in [Requests -> [cmd : Commands \union {"none", "unknown"}, ses : Requests \union {None}]]
  <2>1. CASE UNCHANGED << calls, req, request >>
    BY <1>2, <2>1
  <2>2. CASE ~UNCHANGED << calls, req, request >>
    <3>1. PICK p \in Callers, cmd \in Commands \union {"unknown"} :
             \E ses \in {session[p], None} :
              /\ calls < MaxCalls /\ calls' = calls + 1
              /\ req' = [req EXCEPT ![p] = calls']
              /\ request' = [request EXCEPT ![calls'] = [cmd |-> cmd, ses |-> ses]]
      BY <1>1, <2>2, CallStep
    <3>2. PICK ses \in {session[p], None} :
              /\ calls < MaxCalls /\ calls' = calls + 1
              /\ req' = [req EXCEPT ![p] = calls']
              /\ request' = [request EXCEPT ![calls'] = [cmd |-> cmd, ses |-> ses]]
      BY <3>1
    <3>3. calls' \in Requests
      BY <1>2, <3>2 DEF Requests
    <3>4. [cmd |-> cmd, ses |-> ses]
             \in [cmd : Commands \union {"none", "unknown"}, ses : Requests \union {None}]
      BY <1>2
    <3> QED
      BY <1>2, <3>2, <3>3, <3>4
  <2> QED
    BY <2>1, <2>2
<1>13. live' \subseteq Requests
  BY LiveStep, <1>1, <1>2
<1>14. answer' \in [Requests -> Requests \union {None}]
  <2>1. inbuf # NoBuffer => reply[inbuf] \in Requests \union {None}
    BY <1>1
  <2> QED
    BY <1>1, <1>2, <1>4, <2>1, BlockStep
<1>15. session' \in [Callers -> Requests \union {None}]
  <2>1. \A p \in Callers : pc[p] = "finish" => req[p] \in Requests
    BY <1>3 DEF Busy
  <2>2. \/ session' = session
        \/ \E p \in Callers : pc[p] = "finish" /\ session' = [session EXCEPT ![p] = answer[req[p]]]
    BY <1>1, BlockStep
  <2> QED
    BY <1>2, <2>1, <2>2
<1>16. outcome' \in [Requests -> Outcomes] /\ result' \in [Requests -> {"none", "ok", "failed"}]
  <2>1. outcome' \in [Requests -> Outcomes]
    BY <1>1, <1>2, ResultStep DEF Outcomes
  <2>2. result' \in [Requests -> {"none", "ok", "failed"}]
    BY <1>1, <1>2, <1>4, ResultStep
  <2> QED
    BY <2>1, <2>2
<1>17. /\ sessions' \subseteq Requests /\ alone' \subseteq Requests
       /\ lost' \in Nat /\ robbed' \in Nat
  <2>1. sessions' \subseteq Requests
    BY <1>1, <1>2, <1>4, ResultStep
  <2>2. calls < MaxCalls /\ calls' = calls + 1 => calls' \in Requests
    BY <1>2 DEF Requests
  <2>3. alone' \subseteq Requests
    BY <1>1, <1>2, <2>2, HistoryStep
  <2>4. lost' \in Nat /\ robbed' \in Nat
    BY <1>1, <1>2, HistoryStep
  <2> QED
    BY <2>1, <2>3, <2>4
<1>18. TypeOK'
  BY <1>5, <1>6, <1>7, <1>8, <1>9, <1>10, <1>11, <1>12, <1>13, <1>14, <1>15, <1>16, <1>17
     DEF TypeOK, ReaderPlaces, TestSteps
<1>19. BusyInv'
  <2>1. ASSUME NEW p \in Callers, Busy(p)' PROVE req'[p] \in Requests
    <3>1. CASE Busy(p)
      <4>1. req[p] \in Requests
        BY <1>3, <3>1
      <4>2. UNCHANGED req \/ \E q \in Callers : calls' \in Requests /\ req' = [req EXCEPT ![q] = calls']
        <5>1. UNCHANGED req \/ \E q \in Callers :
                 calls < MaxCalls /\ calls' = calls + 1 /\ req' = [req EXCEPT ![q] = calls']
          BY <1>1, CallStep
        <5>2. calls < MaxCalls /\ calls' = calls + 1 => calls' \in Requests
          BY <1>2 DEF Requests
        <5> QED
          BY <5>1, <5>2
      <4> QED
        BY <1>2, <4>1, <4>2
    <3>2. CASE calls < MaxCalls /\ calls' = calls + 1 /\ req'[p] = calls'
      BY <1>2, <3>2 DEF Requests
    <3> QED
      BY <2>1, <3>1, <3>2, BusyStep
  <2>2. \A p \in Callers : pc'[p] = "requeue" => got'[p] \in Buffers
    BY <1>1, <1>3, RequeueStep
  <2> QED
    BY <2>1, <2>2 DEF BusyInv
<1> QED
  BY <1>18, <1>19 DEF IoctlInv

-----------------------------------------------------------------------------
(* The requests on their way through the output queue *)

Polling == {p \in Callers : pc[p] = "poll"}

\* The ways in which a step changes the output queue and those who poll it.
Freeing == /\ ovUsed # << >> /\ ovUsed' = Tail(ovUsed) /\ robbed' = robbed + 1
           /\ UNCHANGED << pc, ovAvail, host >>
Sending(p) == /\ pc[p] = "add" /\ pc' = [pc EXCEPT ![p] = "poll"]
              /\ ovAvail' = Append(ovAvail, req[p]) /\ UNCHANGED << ovUsed, host, robbed >>
Collecting(p) == /\ pc[p] = "poll" /\ pc' = [pc EXCEPT ![p] = "first"]
                 /\ ovUsed # << >> /\ ovUsed' = Tail(ovUsed) /\ UNCHANGED << ovAvail, host, robbed >>
Handling == /\ host = None /\ ovAvail # << >>
            /\ host' = Head(ovAvail) /\ ovAvail' = Tail(ovAvail) /\ UNCHANGED << pc, ovUsed, robbed >>
Consuming == /\ host # None /\ host' = None /\ ovUsed' = Append(ovUsed, host)
             /\ UNCHANGED << pc, ovAvail, robbed >>
NotSending == /\ UNCHANGED << ovAvail, ovUsed, host, robbed >>
              /\ \E r \in Readers, s \in ReaderPlaces :
                   pc[r] # "poll" /\ s # "poll" /\ pc' \in {pc, [pc EXCEPT ![r] = s]}

LEMMA PollStep ==
    ASSUME TypeOK, Next
    PROVE  \/ Freeing \/ Handling \/ Consuming \/ NotSending
           \/ \E p \in Callers : Sending(p) \/ Collecting(p)
<1> USE DEF Then, Goto, Testing, guest, output, device, history, Readers, Places, ReaderPlaces
<1>1. ASSUME NEW p \in Callers, AddBuffer(p) \/ PollSent(p) \/ Reclaim(p)
      PROVE  Freeing \/ Sending(p) \/ Collecting(p)
  BY <1>1 DEF AddBuffer, PollSent, Reclaim, Freeing, Sending, Collecting
<1>2. ASSUME Host PROVE Handling \/ Consuming
  BY <1>2 DEF Host, HandleOutput, HandleGarbage, GiveBack, Handling, Consuming
<1>3. ASSUME ~Host, \A p \in Callers : ~(AddBuffer(p) \/ PollSent(p) \/ Reclaim(p))
      PROVE  NotSending
  BY <1>3 DEF NotSending, Busy, Next, Call, UnknownCommand, Continue, Signal, InIntr, Test, Reclaimed,
         AddNothing, ReadInbuf, TakeReply, HasReply, WouldBlock, BeginWait, PrepareToWait,
         NeedNotWait, GoToSleep, InterruptedWait, StillThere, Gone, NothingToCopy,
         SomethingToCopy, Wake, Oops, CopyReply, Requeue, Fails, CannotCopyOut, Succeeds,
         Returned, BeginInterrupt, EndInterrupt, Tested, GiveUp, StoreInbuf
<1> QED
  BY <1>1, <1>2, <1>3

LEMMA PollingFinite == IsFiniteSet(Polling) /\ Cardinality(Polling) \in Nat
<1>1. IsFiniteSet(Polling)
  BY ConstantsAssumption, FS_Subset DEF Polling
<1> QED
  BY <1>1, FS_CardinalityType

LEMMA NextRequests == ASSUME IoctlInv, RequestsConserved, Next PROVE RequestsConserved'
<1> SUFFICES InFlight' + robbed' = Cardinality(Polling')
  BY DEF RequestsConserved, Polling
<1>1. InFlight + robbed = Cardinality(Polling) /\ robbed \in Nat
  BY DEF RequestsConserved, Polling, IoctlInv, TypeOK
<1>2. /\ pc \in [Readers -> ReaderPlaces] /\ Callers \subseteq Readers
      /\ ovAvail \in Seq(Requests) /\ ovUsed \in Seq(Requests) /\ host \in Requests \union {None}
      /\ Len(ovAvail) \in Nat /\ Len(ovUsed) \in Nat
      /\ None \notin Requests
      /\ \A p \in Callers : pc[p] = "add" => req[p] \in Requests
  BY LenProperties DEF IoctlInv, TypeOK, BusyInv, Busy, ReaderPlaces, Readers, Requests, None
<1>3. ASSUME NEW p \in Callers, Sending(p)
      PROVE  InFlight' + robbed' = Cardinality(Polling')
  <2>1. Polling' = Polling \union {p} /\ p \notin Polling
    BY <1>2, <1>3 DEF Polling, Sending
  <2>2. Cardinality(Polling') = Cardinality(Polling) + 1
    BY <2>1, PollingFinite, FS_AddElement
  <2>3. Len(ovAvail') = Len(ovAvail) + 1
    BY <1>2, <1>3, AppendProperties DEF Sending
  <2> QED
    BY <1>1, <1>2, <1>3, <2>2, <2>3, PollingFinite DEF InFlight, Sending
<1>4. ASSUME NEW p \in Callers, Collecting(p)
      PROVE  InFlight' + robbed' = Cardinality(Polling')
  <2>1. Polling' = Polling \ {p} /\ p \in Polling
    BY <1>2, <1>4 DEF Polling, Collecting
  <2>2. Cardinality(Polling') = Cardinality(Polling) - 1
    BY <2>1, PollingFinite, FS_RemoveElement
  <2>3. Len(ovUsed') = Len(ovUsed) - 1
    BY <1>2, <1>4, HeadTail DEF Collecting
  <2> QED
    BY <1>1, <1>2, <1>4, <2>2, <2>3, PollingFinite DEF InFlight, Collecting
<1>5. CASE Handling
  <2>1. Len(ovAvail') = Len(ovAvail) - 1 /\ host' # None
    BY <1>2, <1>5, HeadTail DEF Handling
  <2> QED
    BY <1>1, <1>2, <1>5, <2>1 DEF InFlight, Polling, Handling
<1>6. CASE Consuming
  <2>1. Len(ovUsed') = Len(ovUsed) + 1
    BY <1>2, <1>6, AppendProperties DEF Consuming
  <2> QED
    BY <1>1, <1>2, <1>6, <2>1 DEF InFlight, Polling, Consuming
<1>7. CASE NotSending
  <2>1. Polling' = Polling
    BY <1>2, <1>7 DEF Polling, NotSending
  <2> QED
    BY <1>1, <1>7, <2>1 DEF InFlight, NotSending
<1>8. CASE Freeing
  <2>1. Len(ovUsed') = Len(ovUsed) - 1
    BY <1>2, <1>8, HeadTail DEF Freeing
  <2> QED
    BY <1>1, <1>2, <1>8, <2>1 DEF InFlight, Polling, Freeing
<1> QED
  BY <1>3, <1>4, <1>5, <1>6, <1>7, <1>8, PollStep DEF IoctlInv

-----------------------------------------------------------------------------
(* The buffers of the input queue *)

\* A reader holds a buffer only between the two ends of its test, and while it
\* copies a reply.
HandsInv ==
    \A r \in Readers :
        /\ ~Testing(r) => step[r] = "read"
        /\ step[r] \in {"read", "take"} /\ pc[r] # "requeue" => got[r] = NoBuffer
        /\ step[r] = "keep" => got[r] # NoBuffer

LEMMA InitHands == ASSUME Init PROVE HandsInv
BY DEF Init, HandsInv, Testing

LEMMA NextHands == ASSUME IoctlInv, HandsInv, Next PROVE HandsInv'
<1> SUFFICES ASSUME NEW r \in Readers
             PROVE  /\ ~Testing(r)' => step'[r] = "read"
                    /\ step'[r] \in {"read", "take"} /\ pc'[r] # "requeue" => got'[r] = NoBuffer
                    /\ step'[r] = "keep" => got'[r] # NoBuffer
  BY DEF HandsInv
<1>1. /\ pc \in [Readers -> ReaderPlaces] /\ step \in [Readers -> TestSteps]
      /\ got \in [Readers -> Buffers \union {NoBuffer}] /\ Callers \subseteq Readers
      /\ Interrupt \in Readers
  BY DEF IoctlInv, TypeOK, ReaderPlaces, TestSteps, Readers
<1>3. ivUsed # << >> => Head(ivUsed) # NoBuffer
  <2>1. ivUsed # << >> => Head(ivUsed) \in Buffers
    BY HeadTail DEF IoctlInv, TypeOK
  <2> QED
    BY <2>1 DEF Buffers, NoBuffer
<1>2. /\ ~Testing(r) => step[r] = "read"
      /\ step[r] \in {"read", "take"} /\ pc[r] # "requeue" => got[r] = NoBuffer
      /\ step[r] = "keep" => got[r] # NoBuffer
  BY DEF HandsInv
<1> QED
  BY <1>1, <1>2, <1>3 DEF Next, Call, UnknownCommand, Continue, Signal, InIntr, Host, Test, Reclaim, Reclaimed, AddBuffer,
         AddNothing, PollSent, ReadInbuf, TakeReply, HasReply, WouldBlock, BeginWait, PrepareToWait,
         NeedNotWait, GoToSleep, InterruptedWait, StillThere, Gone, NothingToCopy,
         SomethingToCopy, Wake, Oops, CopyReply, Requeue, Fails, CannotCopyOut, Succeeds,
         Returned, BeginInterrupt, EndInterrupt, HandleOutput, HandleGarbage, GiveBack,
         Tested, GiveUp, StoreInbuf, Then, Goto, Testing, guest

\* The buffer a reader has taken from the queue and not yet stored.
Hand(r) == IF step[r] = "store" THEN got[r] ELSE NoBuffer

\* Five ways in which buffers move, with nothing lost.
Resting ==
    /\ UNCHANGED << ivAvail, ivUsed, inbuf >>
    /\ \A q \in Readers : Hand(q)' = Hand(q)
Taking(r) ==
    /\ Hand(r) = NoBuffer /\ ivUsed # << >>
    /\ Hand(r)' = Head(ivUsed) /\ ivUsed' = Tail(ivUsed)
    /\ UNCHANGED << ivAvail, inbuf >>
    /\ \A q \in Readers \ {r} : Hand(q)' = Hand(q)
Storing(r) ==
    /\ inbuf = NoBuffer /\ inbuf' = Hand(r) /\ Hand(r)' = NoBuffer
    /\ UNCHANGED << ivAvail, ivUsed >>
    /\ \A q \in Readers \ {r} : Hand(q)' = Hand(q)
Requeuing(b) ==
    /\ inbuf' = NoBuffer
    /\ ivAvail' = IF Len(ivAvail) + Len(ivUsed) < NumBuffers THEN Append(ivAvail, b) ELSE ivAvail
    /\ UNCHANGED ivUsed
    /\ \A q \in Readers : Hand(q)' = Hand(q)
Replying ==
    /\ ivAvail # << >> /\ ivAvail' = Tail(ivAvail) /\ ivUsed' = Append(ivUsed, Head(ivAvail))
    /\ UNCHANGED inbuf
    /\ \A q \in Readers : Hand(q)' = Hand(q)

\* A store that undoes another one: what crdev->inbuf held is gone, or what was
\* taken from it is put back.
Undoing(r) ==
    /\ UNCHANGED << ivAvail, ivUsed >> /\ Hand(r)' = NoBuffer
    /\ \/ inbuf # NoBuffer /\ inbuf' = Hand(r)
       \/ Hand(r) = NoBuffer /\ inbuf' \in Buffers
    /\ \A q \in Readers \ {r} : Hand(q)' = Hand(q)

\* The store of device_has_data, whether or not something has come in between.
LEMMA StoreMoves ==
    ASSUME IoctlInv, HandsInv, NEW r \in Readers, StoreInbuf(r), UNCHANGED input
    PROVE  /\ Undone(r) = 0 => Resting \/ Storing(r)
           /\ Undone(r) # 0 => Undoing(r) /\ Undone(r) = 1
<1>1. /\ step \in [Readers -> TestSteps] /\ got \in [Readers -> Buffers \union {NoBuffer}]
      /\ step[r] = "keep" => got[r] # NoBuffer
  BY DEF IoctlInv, TypeOK, TestSteps, HandsInv
<1>2. /\ step[r] \in {"keep", "store"} /\ inbuf' = got[r]
      /\ step' = [step EXCEPT ![r] = "read"] /\ got' = [got EXCEPT ![r] = NoBuffer]
      /\ UNCHANGED << ivAvail, ivUsed >>
  BY DEF StoreInbuf, input
<1>3. Hand(r)' = NoBuffer /\ \A q \in Readers \ {r} : Hand(q)' = Hand(q)
  BY <1>1, <1>2 DEF Hand
<1>4. CASE step[r] = "keep"
  <2>1. Hand(r) = NoBuffer /\ Seen(r) = got[r]
    BY <1>4 DEF Hand, Seen
  <2>2. \A q \in Readers : inbuf = got[r] => Hand(q)' = Hand(q)
    BY <1>3, <2>1
  <2> QED
    BY <1>1, <1>2, <1>3, <1>4, <2>1, <2>2 DEF Resting, Undoing, Undone
<1>5. CASE step[r] = "store"
  <2>1. Hand(r) = got[r] /\ Seen(r) = NoBuffer
    BY <1>5 DEF Hand, Seen
  <2> QED
    BY <1>2, <1>3, <2>1 DEF Storing, Undoing, Undone
<1> QED
  BY <1>2, <1>4, <1>5

\* What a step does to the buffers, and whether it is counted as a lost store.
BufferMoves ==
    \/ lost' = lost /\ (Resting \/ Replying \/ \E r \in Readers : Taking(r) \/ Storing(r))
    \/ lost' = lost /\ inbuf # NoBuffer /\ Requeuing(inbuf)
    \/ lost' = lost + 1 /\ \/ \E r \in Readers : Undoing(r)
                           \/ \E b \in Buffers : Requeuing(b)

LEMMA StoreStep ==
    ASSUME IoctlInv, HandsInv, NEW r \in Readers, StoreInbuf(r), lost' = lost + Undone(r),
           UNCHANGED input
    PROVE  BufferMoves
<1>1. lost \in Nat
  BY DEF IoctlInv, TypeOK
<1> QED
  BY <1>1, StoreMoves DEF BufferMoves

LEMMA BufferStep ==
    ASSUME IoctlInv, HandsInv, Next
    PROVE  BufferMoves
<1>1. /\ pc \in [Readers -> ReaderPlaces] /\ step \in [Readers -> TestSteps]
      /\ got \in [Readers -> Buffers \union {NoBuffer}] /\ Callers \subseteq Readers
      /\ Interrupt \in Readers /\ lost \in Nat
      /\ \A p \in Callers : pc[p] = "requeue" => got[p] \in Buffers /\ got[p] # NoBuffer
  BY DEF IoctlInv, BusyInv, TypeOK, ReaderPlaces, TestSteps, Readers, Buffers, NoBuffer
<1>2. \A r \in Readers :
        /\ ~Testing(r) => step[r] = "read"
        /\ step[r] \in {"read", "take"} /\ pc[r] # "requeue" => got[r] = NoBuffer
        /\ step[r] = "keep" => got[r] # NoBuffer
  BY DEF HandsInv
<1>3. ASSUME NEW r \in Readers, ReadInbuf(r) PROVE lost' = lost /\ Resting
  BY <1>1, <1>2, <1>3 DEF ReadInbuf, Resting, Hand, Testing, input, history
<1>4. ASSUME NEW r \in Readers, TakeReply(r) PROVE lost' = lost /\ (Resting \/ Taking(r))
  BY <1>1, <1>2, <1>4 DEF TakeReply, Resting, Taking, Hand, Testing, history
<1>5. ASSUME NEW p \in Callers, Requeue(p) PROVE BufferMoves
  <2>1. pc[p] = "requeue" /\ step[p] = "read" /\ got[p] \in Buffers /\ got[p] # NoBuffer
    BY <1>1, <1>2, <1>5 DEF Requeue, Goto, Testing
  <2>2. \A q \in Readers : Hand(q)' = Hand(q)
    BY <1>1, <1>5, <2>1 DEF Requeue, Hand
  <2>3. Requeuing(got[p])
    BY <1>5, <2>2 DEF Requeue, Requeuing
  <2>4. lost' = IF inbuf # got[p] THEN lost + 1 ELSE lost
    BY <1>5 DEF Requeue
  <2> QED
    BY <2>1, <2>3, <2>4 DEF BufferMoves
<1>6. ASSUME Host PROVE lost' = lost /\ (Resting \/ Replying)
  BY <1>6 DEF Host, HandleOutput, HandleGarbage, GiveBack, SendBuffer, Resting, Replying,
         guest, input, history, Hand
<1>7. ASSUME NEW p \in Callers, Test(p), ~ReadInbuf(p), ~TakeReply(p) PROVE BufferMoves
  <2>1. StoreInbuf(p) /\ lost' = lost + Undone(p) /\ UNCHANGED input
    BY <1>7 DEF Test, HasReply, WouldBlock, BeginWait, PrepareToWait, NeedNotWait, GoToSleep,
           InterruptedWait, StillThere, Gone, NothingToCopy, SomethingToCopy, Tested, GiveUp
  <2> QED
    BY <1>1, <2>1, StoreStep
<1>8. ASSUME InIntr PROVE BufferMoves
  <2>1. CASE BeginInterrupt
    BY <2>1 DEF BeginInterrupt, BufferMoves, Resting, Hand, input, history
  <2>2. CASE EndInterrupt
    BY <1>1, <2>2, StoreStep DEF EndInterrupt
  <2> QED
    BY <1>1, <1>3, <1>4, <1>8, <2>1, <2>2 DEF InIntr, BufferMoves
<1>9. ASSUME NEW p \in Callers, CopyReply(p) PROVE lost' = lost /\ Resting
  BY <1>1, <1>2, <1>9 DEF CopyReply, Goto, Testing, Resting, Hand, history
<1>10. ASSUME NEW p \in Callers,
              \/ Reclaim(p) \/ Reclaimed(p) \/ AddBuffer(p) \/ AddNothing(p) \/ PollSent(p)
              \/ Wake(p) \/ Oops(p) \/ Fails(p) \/ CannotCopyOut(p) \/ Succeeds(p) \/ Signal(p)
              \/ UnknownCommand(p) \/ \E cmd \in Commands : Call(p, cmd)
       PROVE  lost' = lost /\ Resting
  BY <1>10 DEF Reclaim, Reclaimed, AddBuffer, AddNothing, PollSent, Wake, Oops, Fails,
         CannotCopyOut, Succeeds, Returned, Signal, Call, UnknownCommand, Resting, Hand,
         guest, input, history
<1>11. ASSUME NEW p \in Callers, Test(p) PROVE BufferMoves
  BY <1>1, <1>3, <1>4, <1>7, <1>11 DEF BufferMoves
<1>12. ASSUME NEW p \in Callers, Continue(p) PROVE BufferMoves
  BY <1>5, <1>9, <1>10, <1>11, <1>12 DEF Continue, BufferMoves
<1> QED
  BY <1>6, <1>8, <1>10, <1>12 DEF Next, BufferMoves

-----------------------------------------------------------------------------
(* The elements of a queue *)

LEMMA RangeIs ==
    ASSUME NEW S, NEW q \in Seq(S)
    PROVE  /\ \A x : x \in Range(q) <=> \E i \in 1 .. Len(q) : x = q[i]
           /\ Range(q) \subseteq S /\ Len(q) \in Nat
BY LenProperties, ElementOfSeq DEF Range

LEMMA RangeEmpty == Range(<< >>) = {}
BY DEF Range

LEMMA RangeTail ==
    ASSUME NEW S, NEW q \in Seq(S), q # << >>
    PROVE  Head(q) \in S /\ Range(q) = {Head(q)} \union Range(Tail(q))
<1>1. /\ Tail(q) \in Seq(S) /\ Len(q) \in Nat \ {0} /\ Len(Tail(q)) = Len(q) - 1
      /\ \A i \in 1 .. Len(q) - 1 : Tail(q)[i] = q[i + 1]
      /\ Head(q) = q[1] /\ Head(q) \in S
  BY EmptySeq, HeadTailProperties
<1>2. /\ \A x : x \in Range(q) <=> \E i \in 1 .. Len(q) : x = q[i]
      /\ \A x : x \in Range(Tail(q)) <=> \E i \in 1 .. Len(q) - 1 : x = Tail(q)[i]
  <2>1. \A x : x \in Range(q) <=> \E i \in 1 .. Len(q) : x = q[i]
    BY RangeIs
  <2>2. \A x : x \in Range(Tail(q)) <=> \E i \in 1 .. Len(Tail(q)) : x = Tail(q)[i]
    BY <1>1, RangeIs
  <2>3. Len(Tail(q)) = Len(q) - 1
    BY <1>1
  <2> QED
    BY <2>1, <2>2, <2>3, Zenon
<1>3. Head(q) \in Range(q)
  BY <1>1, <1>2
<1>4. ASSUME NEW x \in Range(Tail(q)) PROVE x \in Range(q)
  <2>1. PICK i \in 1 .. Len(q) - 1 : x = q[i + 1]
    BY <1>1, <1>2, <1>4
  <2>2. i + 1 \in 1 .. Len(q)
    BY <1>1
  <2> QED
    BY <1>2, <2>1, <2>2
<1>5. ASSUME NEW x \in Range(q), x # Head(q) PROVE x \in Range(Tail(q))
  <2>1. PICK i \in 1 .. Len(q) : x = q[i]
    BY <1>2, <1>5
  <2>2. i # 1
    BY <1>1, <1>5, <2>1
  <2>3. i - 1 \in 1 .. Len(q) - 1 /\ Tail(q)[i - 1] = x
    BY <1>1, <2>1, <2>2
  <2> QED
    BY <1>2, <2>3
<1> QED
  BY <1>1, <1>3, <1>4, <1>5

LEMMA RangeAppend ==
    ASSUME NEW S, NEW q \in Seq(S), NEW e \in S
    PROVE  Range(Append(q, e)) = Range(q) \union {e}
<1>1. /\ Append(q, e) \in Seq(S) /\ Len(q) \in Nat /\ Len(Append(q, e)) = Len(q) + 1
      /\ \A i \in 1 .. Len(q) : Append(q, e)[i] = q[i]
      /\ Append(q, e)[Len(q) + 1] = e
  BY AppendProperties, LenProperties
<1>2. /\ \A x : x \in Range(q) <=> \E i \in 1 .. Len(q) : x = q[i]
      /\ \A x : x \in Range(Append(q, e)) <=> \E i \in 1 .. Len(q) + 1 : x = Append(q, e)[i]
  <2>1. \A x : x \in Range(q) <=> \E i \in 1 .. Len(q) : x = q[i]
    BY RangeIs
  <2>2. \A x : x \in Range(Append(q, e)) <=> \E i \in 1 .. Len(Append(q, e)) : x = Append(q, e)[i]
    <3>1. Append(q, e) \in Seq(S)
      BY <1>1
    <3> QED
      BY <3>1, RangeIs, Zenon
  <2>3. Len(Append(q, e)) = Len(q) + 1
    BY <1>1
  <2> QED
    BY <2>1, <2>2, <2>3, Zenon
<1>3. \A i \in 1 .. Len(q) + 1 : i \in 1 .. Len(q) \/ i = Len(q) + 1
  BY <1>1
<1>4. \A x \in Range(Append(q, e)) : x \in Range(q) \union {e}
  BY <1>1, <1>2, <1>3
<1>5. e \in Range(Append(q, e))
  <2>1. Len(q) + 1 \in 1 .. Len(q) + 1
    BY <1>1
  <2> QED
    BY <1>1, <1>2, <2>1
<1>6. \A x \in Range(q) : x \in Range(Append(q, e))
  <2>1. \A i \in 1 .. Len(q) : i \in 1 .. Len(q) + 1
    BY <1>1
  <2> QED
    BY <1>1, <1>2, <2>1
<1> QED
  BY <1>4, <1>5, <1>6

-----------------------------------------------------------------------------
\* The buffers that are nowhere.
Missing == Buffers \ Placed

\* What a step may do to the places: keep every buffer, or drop one.
Keeps(n) == Taken' = Taken + n /\ Placed \subseteq Placed'
Drops(n) == Taken' = Taken + n /\ \E x : Placed \subseteq Placed' \union {x}

LEMMA BuffersFinite == /\ IsFiniteSet(Buffers) /\ Cardinality(Buffers) = NumBuffers
                       /\ NumBuffers \in Nat /\ NoBuffer \notin Buffers
<1>1. NumBuffers \in Nat /\ NumBuffers \in Int /\ 1 \in Int
  BY ConstantsAssumption
<1>2. /\ IsFiniteSet(1 .. NumBuffers)
      /\ Cardinality(1 .. NumBuffers) = IF 1 > NumBuffers THEN 0 ELSE NumBuffers - 1 + 1
  BY <1>1, FS_Interval
<1> QED
  BY <1>1, <1>2 DEF Buffers, NoBuffer

LEMMA MissingFinite == IsFiniteSet(Missing) /\ Cardinality(Missing) \in Nat
<1>1. IsFiniteSet(Missing)
  BY BuffersFinite, FS_Subset DEF Missing
<1> QED
  BY <1>1, FS_CardinalityType

LEMMA InHandFinite == IsFiniteSet(InHand) /\ Cardinality(InHand) \in Nat
<1>1. IsFiniteSet(Readers)
  BY ConstantsAssumption, FS_AddElement DEF Readers
<1>2. IsFiniteSet(InHand)
  BY <1>1, FS_Subset DEF InHand
<1> QED
  BY <1>2, FS_CardinalityType

\* As many buffers are missing afterwards, or one more.
LEMMA MissingAfter ==
    /\ Placed \subseteq Placed' => Cardinality(Missing') <= Cardinality(Missing)
    /\ (\E x : Placed \subseteq Placed' \union {x}) => Cardinality(Missing') <= Cardinality(Missing) + 1
<1>1. IsFiniteSet(Missing) /\ Cardinality(Missing) \in Nat
  BY MissingFinite
<1>2. ASSUME Placed \subseteq Placed' PROVE Cardinality(Missing') <= Cardinality(Missing)
  <2>1. Missing' \subseteq Missing
    BY <1>2 DEF Missing, Buffers
  <2> QED
    BY <1>1, <2>1, FS_Subset
<1>3. ASSUME NEW x, Placed \subseteq Placed' \union {x}
      PROVE  Cardinality(Missing') <= Cardinality(Missing) + 1
  <2>1. Missing' \subseteq Missing \union {x}
    BY <1>3 DEF Missing, Buffers
  <2>2. /\ IsFiniteSet(Missing \union {x})
        /\ Cardinality(Missing \union {x}) \in {Cardinality(Missing), Cardinality(Missing) + 1}
    BY <1>1, FS_AddElement
  <2>3. Cardinality(Missing') <= Cardinality(Missing \union {x}) /\ Cardinality(Missing') \in Nat
    <3>1. IsFiniteSet(Missing') /\ Cardinality(Missing') <= Cardinality(Missing \union {x})
      BY <2>1, <2>2, FS_Subset
    <3> QED
      BY <3>1, FS_CardinalityType
  <2> QED
    BY <1>1, <2>2, <2>3
<1> QED
  BY <1>2, <1>3

\* The places by reader and by buffer, before a step and after it.
LEMMA PlacesAre ==
    /\ InHand = {r \in Readers : Hand(r) # NoBuffer}
    /\ InHand' = {r \in Readers : Hand(r)' # NoBuffer}
    /\ \A x : x \in Placed <=>
         \/ x \in Range(ivAvail) \/ x \in Range(ivUsed)
         \/ x # NoBuffer /\ (x = inbuf \/ \E r \in Readers : x = Hand(r))
    /\ \A x : x \in Placed' <=>
         \/ x \in Range(ivAvail') \/ x \in Range(ivUsed')
         \/ x # NoBuffer /\ (x = inbuf' \/ \E r \in Readers : x = Hand(r)')
<1>1. InHand = {r \in Readers : Hand(r) # NoBuffer} /\ InHand' = {r \in Readers : Hand(r)' # NoBuffer}
  BY DEF InHand, Hand
<1>2. /\ \A r \in InHand : got[r] = Hand(r)
      /\ \A r \in InHand' : got'[r] = Hand(r)'
  BY DEF InHand, Hand
<1>3. ASSUME NEW x
      PROVE  x \in {got[r] : r \in InHand} <=> x # NoBuffer /\ \E r \in Readers : x = Hand(r)
  BY <1>1, <1>2
<1>4. ASSUME NEW x
      PROVE  x \in {got'[r] : r \in InHand'} <=> x # NoBuffer /\ \E r \in Readers : x = Hand(r)'
  BY <1>1, <1>2
<1>5. \A x : x \in Placed <=>
         \/ x \in Range(ivAvail) \/ x \in Range(ivUsed)
         \/ x # NoBuffer /\ (x = inbuf \/ \E r \in Readers : x = Hand(r))
  BY <1>3 DEF Placed
<1>6. \A x : x \in Placed' <=>
         \/ x \in Range(ivAvail') \/ x \in Range(ivUsed')
         \/ x # NoBuffer /\ (x = inbuf' \/ \E r \in Readers : x = Hand(r)')
  BY <1>4 DEF Placed
<1> QED
  BY <1>1, <1>5, <1>6

LEMMA PlacesCounted ==
    ASSUME IoctlInv
    PROVE  /\ Len(ivAvail) \in Nat /\ Len(ivUsed) \in Nat /\ Cardinality(InHand) \in Nat
           /\ IsFiniteSet(InHand) /\ Taken \in Nat
<1>1. Len(ivAvail) \in Nat /\ Len(ivUsed) \in Nat
  BY LenProperties DEF IoctlInv, TypeOK
<1> QED
  BY <1>1, InHandFinite DEF Taken

LEMMA RestingCount == ASSUME IoctlInv, Resting PROVE Keeps(0)
<1>1. InHand' = InHand /\ \A x : x \in Placed' <=> x \in Placed
  BY PlacesAre DEF Resting
<1>2. Taken' = Taken /\ Taken \in Nat
  BY <1>1, PlacesCounted DEF Resting, Taken
<1> QED
  BY <1>1, <1>2 DEF Keeps

LEMMA ReplyingCount == ASSUME IoctlInv, Replying PROVE Keeps(0)
<1>1. ivAvail \in Seq(Buffers) /\ ivUsed \in Seq(Buffers)
  BY DEF IoctlInv, TypeOK
<1>2. PICK b : b = Head(ivAvail)
  OBVIOUS
<1>3. /\ b \in Buffers /\ Range(ivAvail) = {b} \union Range(ivAvail')
      /\ Len(ivAvail') = Len(ivAvail) - 1
  BY <1>1, <1>2, RangeTail, HeadTail DEF Replying
<1>4. Range(ivUsed') = Range(ivUsed) \union {b} /\ Len(ivUsed') = Len(ivUsed) + 1
  BY <1>1, <1>2, <1>3, RangeAppend, AppendProperties DEF Replying
<1>5. InHand' = InHand /\ inbuf' = inbuf
  BY PlacesAre DEF Replying
<1>6. Placed \subseteq Placed'
  BY <1>3, <1>4, PlacesAre DEF Replying
<1>7. Taken' = Taken + 0
  BY <1>3, <1>4, <1>5, PlacesCounted DEF Taken
<1> QED
  BY <1>6, <1>7 DEF Keeps

LEMMA TakingCount == ASSUME IoctlInv, NEW r \in Readers, Taking(r) PROVE Keeps(0)
<1>1. ivUsed \in Seq(Buffers)
  BY DEF IoctlInv, TypeOK
<1>2. PICK b : b = Head(ivUsed)
  OBVIOUS
<1>3. /\ b \in Buffers /\ Range(ivUsed) = {b} \union Range(ivUsed')
      /\ Len(ivUsed') = Len(ivUsed) - 1 /\ Hand(r)' = b /\ b # NoBuffer
  BY <1>1, <1>2, RangeTail, HeadTail, BuffersFinite DEF Taking
<1>4. InHand' = InHand \union {r} /\ r \notin InHand
  BY <1>3, PlacesAre DEF Taking
<1>5. Cardinality(InHand') = Cardinality(InHand) + 1
  BY <1>4, PlacesCounted, FS_AddElement
<1>6. Placed \subseteq Placed'
  <2> SUFFICES ASSUME NEW x \in Placed PROVE x \in Placed'
    OBVIOUS
  <2>1. CASE x \in Range(ivAvail) \/ (x # NoBuffer /\ x = inbuf)
    BY <2>1, PlacesAre DEF Taking
  <2>2. CASE x \in Range(ivUsed)
    BY <1>3, <2>2, PlacesAre
  <2>3. CASE x # NoBuffer /\ \E q \in Readers : x = Hand(q)
    <3>1. PICK q \in Readers : x = Hand(q)
      BY <2>3
    <3>2. Hand(q)' = x
      BY <2>3, <3>1 DEF Taking
    <3> QED
      BY <2>3, <3>2, PlacesAre
  <2> QED
    BY <2>1, <2>2, <2>3, PlacesAre
<1>7. Taken' = Taken + 0
  BY <1>3, <1>5, PlacesCounted DEF Taken, Taking
<1> QED
  BY <1>6, <1>7 DEF Keeps

\* What r had in its hand, if anything, is in crdev->inbuf afterwards.
LEMMA HandEmptied ==
    ASSUME IoctlInv, NEW r \in Readers, Hand(r)' = NoBuffer, inbuf' = Hand(r),
           \A q \in Readers \ {r} : Hand(q)' = Hand(q), UNCHANGED << ivAvail, ivUsed >>
    PROVE  /\ Placed \subseteq Placed' \union ({inbuf} \ {NoBuffer})
           /\ Cardinality(InHand') + (IF inbuf' = NoBuffer THEN 0 ELSE 1) = Cardinality(InHand)
           /\ Cardinality(InHand') \in Nat
<1>1. ASSUME NEW x \in Placed PROVE x \in Placed' \union ({inbuf} \ {NoBuffer})
  <2>1. CASE \E q \in Readers : x # NoBuffer /\ x = Hand(q)
    <3>1. PICK q \in Readers : x # NoBuffer /\ x = Hand(q)
      BY <2>1
    <3>2. x = inbuf' \/ x = Hand(q)'
      BY <3>1
    <3> QED
      BY <3>1, <3>2, PlacesAre
  <2> QED
    BY <2>1, PlacesAre
<1>2. CASE Hand(r) = NoBuffer
  <2>1. InHand' = InHand
    BY <1>2, PlacesAre
  <2> QED
    BY <1>1, <1>2, <2>1, PlacesCounted
<1>3. CASE Hand(r) # NoBuffer
  <2>1. InHand' = InHand \ {r} /\ r \in InHand
    BY <1>3, PlacesAre
  <2>2. Cardinality(InHand') = Cardinality(InHand) - 1 /\ Cardinality(InHand') \in Nat
    BY <2>1, PlacesCounted, FS_RemoveElement, FS_CardinalityType
  <2> QED
    BY <1>1, <1>3, <2>2, PlacesCounted
<1> QED
  BY <1>2, <1>3

LEMMA StoringCount == ASSUME IoctlInv, NEW r \in Readers, Storing(r) PROVE Keeps(0)
<1>1. /\ Placed \subseteq Placed' \union ({inbuf} \ {NoBuffer}) /\ inbuf = NoBuffer
      /\ Cardinality(InHand') + (IF inbuf' = NoBuffer THEN 0 ELSE 1) = Cardinality(InHand)
      /\ Cardinality(InHand') \in Nat
  BY HandEmptied DEF Storing
<1>2. Taken' = Taken + 0
  BY <1>1, PlacesCounted DEF Taken, Storing
<1> QED
  BY <1>1, <1>2 DEF Keeps

LEMMA UndoingCount ==
    ASSUME IoctlInv, NEW r \in Readers, Undoing(r)
    PROVE  Keeps(1) \/ Drops(0) \/ Drops(-1)
<1>1. CASE inbuf # NoBuffer /\ inbuf' = Hand(r)
  <2>1. /\ Placed \subseteq Placed' \union {inbuf}
        /\ Cardinality(InHand') + (IF inbuf' = NoBuffer THEN 0 ELSE 1) = Cardinality(InHand)
        /\ Cardinality(InHand') \in Nat
    BY <1>1, HandEmptied DEF Undoing
  <2>2. Taken' = Taken + (-1)
    BY <1>1, <2>1, PlacesCounted DEF Taken, Undoing
  <2> QED
    BY <2>1, <2>2 DEF Drops
<1>2. CASE Hand(r) = NoBuffer /\ inbuf' \in Buffers
  <2>1. \A q \in Readers : Hand(q)' = Hand(q)
    BY <1>2 DEF Undoing
  <2>2. InHand' = InHand /\ inbuf' # NoBuffer
    BY <1>2, <2>1, PlacesAre, BuffersFinite
  <2>3. Placed \subseteq Placed' \union ({inbuf} \ {NoBuffer})
    BY <2>1, PlacesAre DEF Undoing
  <2>4. Taken' = Taken + (IF inbuf = NoBuffer THEN 1 ELSE 0)
    BY <2>2, PlacesCounted DEF Taken, Undoing
  <2> QED
    BY <2>3, <2>4 DEF Keeps, Drops
<1> QED
  BY <1>1, <1>2 DEF Undoing

LEMMA RequeuingCount ==
    ASSUME IoctlInv, NEW b \in Buffers, Requeuing(b)
    PROVE  /\ Keeps(1) \/ Keeps(0) \/ Drops(0) \/ Drops(-1)
           /\ b = inbuf => Keeps(0) \/ (Drops(-1) /\ Taken >= NumBuffers + 1)
<1>1. /\ ivAvail \in Seq(Buffers) /\ inbuf' = NoBuffer /\ NumBuffers \in Nat /\ b # NoBuffer
      /\ InHand' = InHand /\ UNCHANGED ivUsed /\ \A q \in Readers : Hand(q)' = Hand(q)
  BY PlacesAre, BuffersFinite DEF IoctlInv, TypeOK, Requeuing
<1>2. CASE Len(ivAvail) + Len(ivUsed) < NumBuffers
  <2>1. Range(ivAvail') = Range(ivAvail) \union {b} /\ Len(ivAvail') = Len(ivAvail) + 1
    BY <1>1, <1>2, RangeAppend, AppendProperties DEF Requeuing
  <2>2. /\ Placed \subseteq Placed' \union ({inbuf} \ {NoBuffer})
        /\ b = inbuf => Placed \subseteq Placed'
    BY <1>1, <2>1, PlacesAre
  <2>3. Taken' = Taken + (IF inbuf = NoBuffer THEN 1 ELSE 0)
    BY <1>1, <2>1, PlacesCounted DEF Taken
  <2> QED
    BY <1>1, <2>2, <2>3 DEF Keeps, Drops
<1>3. CASE ~(Len(ivAvail) + Len(ivUsed) < NumBuffers)
  <2>1. ivAvail' = ivAvail
    BY <1>3 DEF Requeuing
  <2>2. Placed \subseteq Placed' \union ({inbuf} \ {NoBuffer})
    BY <1>1, <2>1, PlacesAre
  <2>3. /\ Taken' = Taken + (IF inbuf = NoBuffer THEN 0 ELSE -1)
        /\ inbuf # NoBuffer => Taken >= NumBuffers + 1
    BY <1>1, <1>3, <2>1, PlacesCounted DEF Taken
  <2> QED
    BY <1>1, <2>2, <2>3 DEF Keeps, Drops
<1> QED
  BY <1>2, <1>3

LEMMA InitBuffers == ASSUME Init PROVE BuffersConserved
<1>1. /\ ivAvail = [i \in Buffers |-> i] /\ ivUsed = << >> /\ inbuf = NoBuffer /\ lost = 0
      /\ InHand = {}
  BY DEF Init, InHand
<1>2. ivAvail \in Seq(Buffers) /\ NumBuffers \in Nat
  BY TypeInit, BuffersFinite DEF IoctlInv, TypeOK
<1>3. Len(ivAvail) = NumBuffers /\ Len(ivUsed) = 0
  <2>1. DOMAIN ivAvail = 1 .. NumBuffers /\ DOMAIN ivAvail = 1 .. Len(ivAvail) /\ Len(ivAvail) \in Nat
    BY <1>1, <1>2, LenProperties DEF Buffers
  <2>2. Len(ivUsed) = 0
    BY <1>1, EmptySeq
  <2> QED
    BY <1>2, <2>1, <2>2
<1>4. Range(ivAvail) = Buffers
  BY <1>1 DEF Range
<1>5. Cardinality(Buffers \ Placed) = 0
  <2>1. Buffers \ Placed = {}
    BY <1>4 DEF Placed
  <2> QED
    BY <2>1, FS_EmptySet
<1>6. Taken = NumBuffers
  BY <1>1, <1>2, <1>3, FS_EmptySet DEF Taken
<1> QED
  BY <1>1, <1>2, <1>5, <1>6 DEF BuffersConserved

LEMMA NextBuffers == ASSUME IoctlInv, HandsInv, BuffersConserved, Next PROVE BuffersConserved'
<1>1. /\ lost \in Nat /\ NumBuffers \in Nat /\ Taken \in Nat /\ Cardinality(Missing) \in Nat
      /\ Cardinality(Missing) <= lost
      /\ Taken + Cardinality(Missing) <= NumBuffers + lost
  BY PlacesCounted, MissingFinite, BuffersFinite DEF BuffersConserved, Missing, IoctlInv, TypeOK
<1>2. IsFiniteSet(Missing') /\ Cardinality(Missing') \in Nat
  <2>1. IsFiniteSet(Missing')
    BY BuffersFinite, FS_Subset DEF Missing, Buffers
  <2> QED
    BY <2>1, FS_CardinalityType
<1>3. \/ lost' = lost /\ (Keeps(0) \/ (Drops(-1) /\ Taken >= NumBuffers + 1))
      \/ lost' = lost + 1 /\ (Keeps(1) \/ Keeps(0) \/ Drops(0) \/ Drops(-1))
  <2>1. BufferMoves
    BY BufferStep
  <2>2. inbuf # NoBuffer => inbuf \in Buffers
    BY DEF IoctlInv, TypeOK
  <2>3. CASE lost' = lost /\ (Resting \/ Replying \/ \E r \in Readers : Taking(r) \/ Storing(r))
    BY <2>3, RestingCount, ReplyingCount, TakingCount, StoringCount
  <2>4. CASE lost' = lost /\ inbuf # NoBuffer /\ Requeuing(inbuf)
    BY <2>2, <2>4, RequeuingCount
  <2>5. CASE lost' = lost + 1 /\ \/ \E r \in Readers : Undoing(r)
                                 \/ \E b \in Buffers : Requeuing(b)
    BY <2>5, UndoingCount, RequeuingCount
  <2> QED
    BY <2>1, <2>3, <2>4, <2>5 DEF BufferMoves
<1>4. /\ Cardinality(Missing') <= lost'
      /\ Taken' + Cardinality(Missing') <= NumBuffers + lost'
  BY <1>1, <1>2, <1>3, MissingAfter DEF Keeps, Drops
<1> QED
  BY <1>4 DEF BuffersConserved, Missing, Buffers

-----------------------------------------------------------------------------
(* The calls: how each begins, goes on and ends *)

\* What the types say of the parts of the state.
LEMMA Shape ==
    ASSUME IoctlInv
    PROVE  /\ pc \in [Readers -> ReaderPlaces] /\ step \in [Readers -> TestSteps]
           /\ got \in [Readers -> Buffers \union {NoBuffer}]
           /\ Callers \subseteq Readers /\ Interrupt \in Readers /\ Interrupt \notin Callers
           /\ NoBuffer \notin Buffers /\ None \notin Requests
           /\ req \in [Callers -> Requests \union {None}]
           /\ answer \in [Requests -> Requests \union {None}]
           /\ outcome \in [Requests -> Outcomes] /\ result \in [Requests -> {"none", "ok", "failed"}]
           /\ DOMAIN request = Requests /\ live \subseteq Requests /\ alone \subseteq Requests
           /\ calls \in Nat /\ Requests \subseteq Nat /\ lost \in Nat /\ robbed \in Nat
           /\ \A p \in Callers : Busy(p) => req[p] \in Requests
           /\ \A p \in Callers : pc[p] = "requeue" => got[p] \in Buffers
<1>1. Requests \subseteq Nat /\ None \notin Requests /\ Buffers \subseteq Nat \ {0}
  BY DEF Requests, None, Buffers
<1>2. calls \in Nat
  BY DEF IoctlInv, TypeOK
<1> QED
  BY <1>1, <1>2, ConstantsAssumption
     DEF IoctlInv, TypeOK, BusyInv, ReaderPlaces, TestSteps, Readers, NoBuffer

\* A step of a caller in a call.
LEMMA CallerStep ==
    ASSUME IoctlInv, NEW p \in Callers, Continue(p) \/ Signal(p)
    PROVE  /\ Busy(p) /\ UNCHANGED << calls, req, request, alone, host >>
           /\ \A q \in Readers \ {p} : pc'[q] = pc[q]
<1>1. pc \in [Readers -> ReaderPlaces] /\ Callers \subseteq Readers
  BY Shape
<1>2. CASE Test(p)
  BY <1>1, <1>2 DEF Test, ReadInbuf, TakeReply, HasReply, WouldBlock, BeginWait, PrepareToWait,
         NeedNotWait, GoToSleep, InterruptedWait, StillThere, Gone, NothingToCopy, SomethingToCopy,
         Tested, GiveUp, StoreInbuf, Goto, Testing, Busy, blocks, device, history
<1>3. CASE ~Test(p)
  BY <1>1, <1>3 DEF Continue, Signal, Reclaim, Reclaimed, AddBuffer, AddNothing, PollSent, Wake,
         Oops, CopyReply, Requeue, Fails, CannotCopyOut, Succeeds, Returned, Goto, Busy, guest,
         blocks, device, history
<1> QED
  BY <1>2, <1>3

\* A call goes on, or it ends with the outcome v.
Going ==
    /\ UNCHANGED << calls, req, request, outcome, alone >>
    /\ live' = live \/ robbed' = robbed + 1
    /\ \A p \in Callers : Busy(p)' <=> Busy(p)
Ending(p, v) ==
    /\ Busy(p) /\ pc' = [pc EXCEPT ![p] = "idle"]
    /\ v \in Outcomes \ {"none"} /\ outcome' = [outcome EXCEPT ![req[p]] = v]
    /\ live' = live \ (IF v \in {"EAGAIN", "ENOTTY"} THEN {} ELSE {req[p]})
    /\ UNCHANGED << calls, req, request, alone, answer, result, ovAvail >>
    /\ v \in Answered => pc[p] = "finish" /\ UNCHANGED << step, got, inbuf, ivUsed, lost >>
    /\ v = "OK" => Success(p)
    /\ v = "EINVAL" => ~Success(p)

LEMMA ReturnEnds ==
    ASSUME IoctlInv, NEW p \in Callers, Fails(p) \/ CannotCopyOut(p) \/ Succeeds(p)
    PROVE  \E v \in Outcomes : Ending(p, v)
<1>1. PICK v \in {"OK", "EINVAL", "EFAULT"} :
        Returned(p, v) /\ (v = "OK" => Success(p)) /\ (v = "EINVAL" => ~Success(p))
  BY DEF Fails, CannotCopyOut, Succeeds
<1>2. Ending(p, v)
  BY <1>1 DEF Returned, Goto, Ending, Busy, Outcomes, input, output, device, history
<1> QED
  BY <1>1, <1>2 DEF Outcomes

LEMMA GiveUpEnds ==
    ASSUME IoctlInv, NEW p \in Callers, WouldBlock(p) \/ InterruptedWait(p) \/ Gone(p)
    PROVE  \E v \in Outcomes : Ending(p, v)
<1>1. PICK from \in Places \ {"idle"}, v \in {"EAGAIN", "ERESTARTSYS", "ENOTTY"} :
        GiveUp(p, from, v, IF v \in {"EAGAIN", "ENOTTY"} THEN {} ELSE {req[p]})
  BY DEF WouldBlock, InterruptedWait, Gone, Places
<1>2. Ending(p, v)
  BY <1>1 DEF GiveUp, Goto, Ending, Busy, Outcomes, Answered, output, device
<1> QED
  BY <1>1, <1>2 DEF Outcomes

LEMMA LifeStep ==
    ASSUME IoctlInv, Next
    PROVE  \/ Going
           \/ \E p \in Callers : \/ UnknownCommand(p) \/ \E cmd \in Commands : Call(p, cmd)
                                 \/ \E v \in Outcomes : Ending(p, v)
<1>1. pc \in [Readers -> ReaderPlaces] /\ Callers \subseteq Readers /\ Interrupt \notin Callers
  BY Shape
<1>2. ASSUME NEW p \in Callers, Test(p), ~WouldBlock(p), ~InterruptedWait(p), ~Gone(p)
      PROVE  Going
  BY <1>1, <1>2 DEF Test, ReadInbuf, TakeReply, HasReply, BeginWait, PrepareToWait,
         NeedNotWait, GoToSleep, StillThere, NothingToCopy, SomethingToCopy,
         Tested, StoreInbuf, Then, Goto, Testing, Busy, blocks, history, Going
<1>3. ASSUME NEW p \in Callers,
             \/ Reclaim(p) \/ Reclaimed(p) \/ AddBuffer(p) \/ AddNothing(p) \/ PollSent(p)
             \/ Wake(p) \/ Oops(p) \/ CopyReply(p) \/ Requeue(p) \/ Signal(p)
      PROVE  Going
  BY <1>1, <1>3 DEF Reclaim, Reclaimed, AddBuffer, AddNothing, PollSent, Wake, Oops, CopyReply,
         Requeue, Signal, Goto, Busy, guest, blocks, history, Going
<1>4. ASSUME InIntr \/ Host PROVE Going
  BY <1>1, <1>4 DEF InIntr, BeginInterrupt, ReadInbuf, TakeReply, EndInterrupt, StoreInbuf, Goto,
         Host, HandleOutput, HandleGarbage, GiveBack, Busy, guest, blocks, history, Going
<1> QED
  BY <1>2, <1>3, <1>4, ReturnEnds, GiveUpEnds DEF Next, Continue, Test

\* A call has no outcome before it returns, and is one caller's; the calls to
\* come are blank.
Records ==
    /\ \A m \in Requests : m > calls => /\ outcome[m] = "none" /\ request[m].cmd = "none"
                                        /\ m \notin alone
    /\ \A p \in Callers : Busy(p) => /\ req[p] <= calls /\ request[req[p]].cmd \in Commands
                                     /\ outcome[req[p]] = "none"
    /\ \A p, q \in Callers : Busy(p) /\ Busy(q) /\ req[p] = req[q] => p = q

\* The call m begins: what that does to the records of all calls.
LEMMA NewCall ==
    ASSUME IoctlInv, Records, NEW p \in Callers, UnknownCommand(p) \/ \E cmd \in Commands : Call(p, cmd)
    PROVE  \E m \in Requests :
             /\ m = calls + 1 /\ calls' = m /\ ~Busy(p) /\ live' = live \union {m}
             /\ req' = [req EXCEPT ![p] = m] /\ m \notin alone
             /\ outcome[m] = "none" /\ request[m].cmd = "none"
             /\ \A q \in Callers : Busy(q) => req[q] < m
             /\ \A k \in Requests \ {m} : request'[k] = request[k] /\ outcome'[k] = outcome[k]
             /\ UNCHANGED << ovAvail, ovUsed, host, answer, result, reply, ivUsed, inbuf, step, got,
                             lost, robbed >>
             /\ \/ /\ UnknownCommand(p) /\ request'[m].cmd = "unknown" /\ pc' = pc /\ alone' = alone
                \/ /\ \E cmd \in Commands : Call(p, cmd)
                   /\ request'[m].cmd \in Commands /\ outcome' = outcome
                   /\ pc' = [pc EXCEPT ![p] = "reclaim"]
<1>1. PICK m : m = calls + 1
  OBVIOUS
<1>2. calls < MaxCalls /\ calls' = m /\ ~Busy(p)
  BY <1>1 DEF UnknownCommand, Call, Goto, Busy
<1>3. m \in Requests /\ m > calls
  BY <1>1, <1>2, Shape, ConstantsAssumption DEF Requests
<1>4. /\ req' = [req EXCEPT ![p] = m] /\ live' = live \union {m}
      /\ UNCHANGED << ovAvail, ovUsed, host, answer, result, reply, ivUsed, inbuf, step, got, lost, robbed >>
  BY <1>2 DEF UnknownCommand, Call, guest, input, output, device, history
<1>5. /\ outcome[m] = "none" /\ request[m].cmd = "none" /\ m \notin alone
      /\ \A q \in Callers : Busy(q) => req[q] < m
  <2>1. \A q \in Callers : Busy(q) => req[q] <= calls /\ req[q] \in Nat
    BY Shape DEF Records
  <2> QED
    BY <1>1, <1>3, <2>1, Shape DEF Records
<1>6. CASE UnknownCommand(p)
  <2>1. /\ request' = [request EXCEPT ![m] = [cmd |-> "unknown", ses |-> None]]
        /\ outcome' = [outcome EXCEPT ![m] = "EINVAL"] /\ pc' = pc /\ alone' = alone
    BY <1>2, <1>6 DEF UnknownCommand, guest, history
  <2>2. /\ request'[m].cmd = "unknown"
        /\ \A k \in Requests \ {m} : request'[k] = request[k] /\ outcome'[k] = outcome[k]
    BY <1>3, <2>1, Shape
  <2> QED
    BY <1>1, <1>2, <1>3, <1>4, <1>5, <1>6, <2>1, <2>2
<1>7. CASE \E cmd \in Commands : Call(p, cmd)
  <2>1. PICK cmd \in Commands : Call(p, cmd)
    BY <1>7
  <2>2. /\ request' = [request EXCEPT ![m] = [cmd |-> cmd, ses |-> session[p]]]
        /\ outcome' = outcome /\ pc' = [pc EXCEPT ![p] = "reclaim"]
    BY <1>2, <2>1 DEF Call, Goto
  <2>3. /\ request'[m].cmd = cmd
        /\ \A k \in Requests \ {m} : request'[k] = request[k] /\ outcome'[k] = outcome[k]
    BY <1>3, <2>2, Shape
  <2> QED
    BY <1>1, <1>2, <1>3, <1>4, <1>5, <1>7, <2>2, <2>3
<1> QED
  BY <1>6, <1>7

LEMMA InitRecords == ASSUME Init PROVE Records
BY DEF Init, Records, Busy, Readers

LEMMA NextRecords == ASSUME IoctlInv, Records, Next PROVE Records'
<1>1. CASE Going
  BY <1>1 DEF Going, Records
<1>2. ASSUME NEW p \in Callers, NEW v \in Outcomes, Ending(p, v) PROVE Records'
  <2>1. /\ req[p] \in Requests /\ req[p] <= calls /\ p \in Readers
        /\ \A q \in Callers : Busy(q)' => Busy(q) /\ q # p /\ req[q] # req[p] /\ req[q] \in Requests
    BY <1>2, Shape DEF Ending, Records, Busy
  <2>2. \A m \in Requests : m # req[p] => outcome'[m] = outcome[m]
    BY <1>2, Shape DEF Ending
  <2>3. \A m \in Requests : m > calls => m # req[p]
    BY <2>1, Shape
  <2> QED
    BY <1>2, <2>1, <2>2, <2>3 DEF Ending, Records
<1>3. ASSUME NEW p \in Callers, UnknownCommand(p) \/ \E cmd \in Commands : Call(p, cmd)
      PROVE  Records'
  <2>1. PICK m \in Requests :
             /\ m = calls + 1 /\ calls' = m /\ ~Busy(p)
             /\ req' = [req EXCEPT ![p] = m] /\ m \notin alone
             /\ outcome[m] = "none"
             /\ \A q \in Callers : Busy(q) => req[q] < m
             /\ \A k \in Requests \ {m} : request'[k] = request[k] /\ outcome'[k] = outcome[k]
             /\ \/ /\ UnknownCommand(p) /\ pc' = pc /\ alone' = alone
                \/ /\ request'[m].cmd \in Commands /\ outcome' = outcome
                   /\ pc' = [pc EXCEPT ![p] = "reclaim"]
    BY <1>3, NewCall
  <2>2. alone' \subseteq alone \union {m}
    BY <1>3, <2>1 DEF UnknownCommand, Call, history
  <2>3. ASSUME NEW k \in Requests, k > calls'
        PROVE  outcome'[k] = "none" /\ request'[k].cmd = "none" /\ k \notin alone'
    <3>1. k > calls /\ k # m
      BY <2>1, <2>3, Shape
    <3> QED
      BY <2>1, <2>2, <3>1 DEF Records
  <2>4. ASSUME NEW q \in Callers, Busy(q)', q # p
        PROVE  /\ Busy(q) /\ req'[q] = req[q] /\ req[q] < m /\ req[q] \in Requests
               /\ req[q] <= calls' /\ request'[req[q]].cmd \in Commands /\ outcome'[req[q]] = "none"
    <3>1. Busy(q) /\ req'[q] = req[q]
      BY <2>1, <2>4, Shape DEF Busy
    <3>2. /\ req[q] < m /\ req[q] \in Requests /\ req[q] # m /\ req[q] <= calls'
          /\ request[req[q]].cmd \in Commands /\ outcome[req[q]] = "none"
      BY <2>1, <3>1, Shape DEF Records
    <3> QED
      BY <2>1, <3>1, <3>2
  <2>5. Busy(p)' => /\ req'[p] = m /\ m <= calls' /\ request'[m].cmd \in Commands /\ outcome'[m] = "none"
    BY <2>1, Shape DEF Busy
  <2>6. \A q \in Callers : Busy(q)' /\ q # p => req'[q] # m
    BY <2>1, <2>4, Shape
  <2> QED
    BY <2>3, <2>4, <2>5, <2>6 DEF Records
<1> QED
  BY <1>1, <1>2, <1>3, LifeStep

\* Unless one was reclaimed, the blocks allocated are those of the calls in progress
\* and the leaked ones.
LiveInv == robbed = 0 => live = InProgress \union Leaked

LEMMA InitLive == ASSUME Init PROVE LiveInv
BY DEF Init, LiveInv, InProgress, Leaked, Busy, Readers

LEMMA NextLive == ASSUME IoctlInv, Records, LiveInv, Next PROVE LiveInv'
<1> SUFFICES ASSUME robbed' = 0 PROVE live' = InProgress' \union Leaked'
  BY DEF LiveInv
<1>1. robbed = 0 /\ robbed' # robbed + 1
  BY HistoryStep, Shape DEF IoctlInv
<1>2. live = InProgress \union Leaked
  BY <1>1 DEF LiveInv
<1>3. CASE Going
  <2>1. InProgress' = InProgress /\ Leaked' = Leaked /\ live' = live
    BY <1>1, <1>3 DEF Going, InProgress, Leaked
  <2> QED
    BY <1>2, <2>1
<1>4. ASSUME NEW p \in Callers, NEW v \in Outcomes, Ending(p, v)
      PROVE  live' = InProgress' \union Leaked'
  <2>1. /\ req[p] \in Requests /\ request[req[p]].cmd \in Commands /\ outcome[req[p]] = "none"
        /\ \A q \in Callers : Busy(q)' <=> Busy(q) /\ q # p
        /\ \A q \in Callers : Busy(q) /\ q # p => req[q] # req[p]
    BY <1>4, Shape DEF Ending, Records, Busy
  <2>2. InProgress' = InProgress \ {req[p]} /\ req[p] \in InProgress
    BY <1>4, <2>1 DEF Ending, InProgress
  <2>3. /\ req[p] \notin Leaked
        /\ Leaked' = Leaked \union (IF v \in {"EAGAIN", "ENOTTY"} THEN {req[p]} ELSE {})
    BY <1>4, <2>1, Shape DEF Ending, Leaked, Commands
  <2> QED
    BY <1>2, <1>4, <2>2, <2>3 DEF Ending
<1>5. ASSUME NEW p \in Callers, UnknownCommand(p) \/ \E cmd \in Commands : Call(p, cmd)
      PROVE  live' = InProgress' \union Leaked'
  <2>1. PICK m \in Requests :
             /\ ~Busy(p) /\ live' = live \union {m} /\ req' = [req EXCEPT ![p] = m]
             /\ outcome[m] = "none" /\ request[m].cmd = "none"
             /\ \A k \in Requests \ {m} : request'[k] = request[k] /\ outcome'[k] = outcome[k]
             /\ \/ request'[m].cmd = "unknown" /\ pc' = pc
                \/ request'[m].cmd \in Commands /\ outcome' = outcome /\ pc' = [pc EXCEPT ![p] = "reclaim"]
    BY <1>5, NewCall
  <2>2. \A q \in Callers : q # p => req'[q] = req[q]
    BY <2>1, Shape
  <2>3. m \notin Leaked
    BY <2>1 DEF Leaked
  <2>4. CASE request'[m].cmd = "unknown" /\ pc' = pc
    <3>1. InProgress' = InProgress
      BY <2>1, <2>2, <2>4 DEF InProgress, Busy
    <3>2. Leaked' = Leaked \union {m}
      BY <2>1, <2>4 DEF Leaked
    <3> QED
      BY <1>2, <2>1, <3>1, <3>2
  <2>5. CASE request'[m].cmd \in Commands /\ outcome' = outcome /\ pc' = [pc EXCEPT ![p] = "reclaim"]
    <3>1. (\A q \in Callers : Busy(q)' <=> Busy(q) \/ q = p) /\ req'[p] = m
      BY <2>1, <2>5, Shape DEF Busy
    <3>2. InProgress' = InProgress \union {m}
      BY <2>1, <2>2, <3>1 DEF InProgress
    <3>3. Leaked' = Leaked
      BY <2>1, <2>3, <2>5 DEF Leaked, Commands
    <3> QED
      BY <1>2, <2>1, <3>2, <3>3
  <2> QED
    BY <2>1, <2>4, <2>5
<1> QED
  BY <1>3, <1>4, <1>5, LifeStep

-----------------------------------------------------------------------------
(* The course of a call alone *)

QueueEmpty == ovAvail = <<>> /\ ovUsed = <<>> /\ host = None

\* QEMU has performed the call, and its block says so.
Performed(n) == answer[n] = n /\ result[n] # "none"

\* The buffers the callers or the interrupt may still find a reply in.
Around == (Range(ivUsed) \union {inbuf} \union {got[r] : r \in Readers}) \ {NoBuffer}

\* Its request is the only one in the output queue.
Polls(n) ==
    \/ ovAvail = <<n>> /\ ovUsed = <<>> /\ host = None
    \/ /\ ovAvail = <<>> /\ Performed(n)
       /\ \/ host = n /\ ovUsed = <<>>
          \/ host = None /\ ovUsed = <<n>>

\* What there is of the call of p, wherever p stands in it: nobody else is in a
\* call, and the replies around are all its own.
AloneCourse(p) ==
    /\ \A q \in Callers : Busy(q) => q = p
    /\ \A b \in Around : reply[b] = req[p]
    /\ pc[p] = "poll" => Polls(req[p])
    /\ pc[p] \notin {"reclaim", "add", "poll"} => Performed(req[p])

\* No reply is on its way to the callers; or one is: in the queue, in crdev->inbuf,
\* or in the hand of a reader.
NoReply == ivUsed = <<>> /\ inbuf = NoBuffer /\ \A r \in Readers : Hand(r) = NoBuffer
OneReply ==
    \E b \in Buffers :
        \/ ivUsed = <<b>> /\ inbuf = NoBuffer /\ \A r \in Readers : Hand(r) = NoBuffer
        \/ ivUsed = <<>> /\ inbuf = b /\ \A r \in Readers : Hand(r) = NoBuffer
        \/ /\ ivUsed = <<>> /\ inbuf = NoBuffer
           /\ \E r \in Readers : Hand(r) = b /\ \A q \in Readers \ {r} : Hand(q) = NoBuffer

\* Where the reply is, as long as no store was lost.
CleanCourse(p) ==
    /\ pc[p] \in {"reclaim", "add", "finish"} => NoReply
    /\ pc[p] = "poll" /\ ovAvail # <<>> => NoReply
    /\ pc[p] \in {"poll", "first", "event", "wait", "asleep", "last"} => NoReply \/ OneReply
    /\ pc[p] \in {"session", "fill", "copy", "requeue"} => OneReply /\ inbuf # NoBuffer
    /\ pc[p] \in {"session", "fill"} => step[p] \in {"read", "keep"}
    /\ step[p] = "keep" => got[p] = inbuf
    /\ pc[p] # "handler"

CourseInv(p) == AloneCourse(p) /\ (lost = 0 => CleanCourse(p))

AloneInv == \A p \in Callers : Busy(p) /\ req[p] \in alone => CourseInv(p)

\* A call alone that got its reply has the answer to its own request, for good.
DoneInv ==
    \A m \in alone : outcome[m] \in Answered =>
        /\ answer[m] = m /\ m \notin Range(ovAvail)
        /\ outcome[m] = "OK" => result[m] = "ok"
        /\ outcome[m] = "EINVAL" => result[m] = "failed"

\* Until the next one is made it leaves nothing behind, if no store was lost.
LeftInv ==
    calls \in alone /\ outcome[calls] \in Answered =>
        (\A p \in Callers : ~Busy(p)) /\ (lost = 0 => NoReply)

LEMMA NobodyPolls ==
    ASSUME IoctlInv, RequestsConserved, \A p \in Callers : pc[p] # "poll"
    PROVE  QueueEmpty /\ robbed = 0
<1>1. Cardinality(Polling) = 0
  <2>1. Polling = {}
    BY DEF Polling
  <2> QED
    BY <2>1, FS_EmptySet
<1>2. /\ ovAvail \in Seq(Requests) /\ ovUsed \in Seq(Requests) /\ robbed \in Nat
      /\ Len(ovAvail) \in Nat /\ Len(ovUsed) \in Nat
  BY LenProperties DEF IoctlInv, TypeOK
<1>3. Len(ovAvail) = 0 /\ Len(ovUsed) = 0 /\ host = None /\ robbed = 0
  BY <1>1, <1>2 DEF RequestsConserved, Polling, InFlight
<1> QED
  BY <1>2, <1>3, EmptySeq DEF QueueEmpty

\* A caller alone finds the queue empty but while it polls, and no block was
\* reclaimed.
LEMMA AloneQueue ==
    ASSUME IoctlInv, RequestsConserved, NEW p \in Callers, AloneCourse(p), Busy(p)
    PROVE  /\ pc[p] # "poll" => QueueEmpty
           /\ robbed = 0
<1>1. \A q \in Callers : q # p => pc[q] # "poll"
  BY DEF AloneCourse, Busy
<1>2. CASE pc[p] # "poll"
  BY <1>1, <1>2, NobodyPolls
<1>3. CASE pc[p] = "poll"
  <2>1. Polling = {p}
    BY <1>1, <1>3 DEF Polling
  <2>2. Cardinality(Polling) = 1
    BY <2>1, FS_Singleton
  <2>3. InFlight = 1
    <3>1. PICK n : n = req[p]
      OBVIOUS
    <3>2. n # None /\ Polls(n)
      BY <1>3, <3>1, Shape DEF AloneCourse
    <3>3. Len(<<n>>) = 1 /\ Len(<< >>) = 0
      OBVIOUS
    <3>4. CASE ovAvail = <<n>> /\ ovUsed = << >> /\ host = None
      BY <3>3, <3>4 DEF InFlight
    <3>5. CASE ovAvail = << >> /\ host = n /\ ovUsed = << >>
      BY <3>2, <3>3, <3>5 DEF InFlight
    <3>6. CASE ovAvail = << >> /\ host = None /\ ovUsed = <<n>>
      BY <3>3, <3>6 DEF InFlight
    <3> QED
      BY <3>2, <3>4, <3>5, <3>6 DEF Polls
  <2> QED
    BY <1>3, <2>2, <2>3, Shape DEF RequestsConserved, Polling
<1> QED
  BY <1>2, <1>3

\* But for QEMU nobody writes a reply, or brings one in.
LEMMA AroundStep ==
    ASSUME IoctlInv, Next, host' = host
    PROVE  reply' = reply /\ Around' \subseteq Around
<1>1. ~Host
  <2>1. ovAvail # <<>> => Head(ovAvail) # None
    BY HeadTail, Shape DEF IoctlInv, TypeOK
  <2> QED
    BY <2>1 DEF Host, HandleOutput, HandleGarbage, GiveBack
<1>2. reply' = reply /\ (ivUsed' = ivUsed \/ (ivUsed # <<>> /\ ivUsed' = Tail(ivUsed)))
  <2>1. CASE InIntr
    BY <2>1 DEF InIntr, BeginInterrupt, ReadInbuf, TakeReply, EndInterrupt, input
  <2>2. CASE \E p \in Callers : Test(p)
    BY <2>2 DEF Test, ReadInbuf, TakeReply, HasReply, WouldBlock, BeginWait, PrepareToWait,
         NeedNotWait, GoToSleep, InterruptedWait, StillThere, Gone, NothingToCopy, SomethingToCopy,
         Tested, GiveUp, input
  <2>3. CASE ~InIntr /\ \A p \in Callers : ~Test(p)
    BY <1>1, <2>3 DEF Next, Continue, Signal, Call, UnknownCommand, Reclaim, Reclaimed, AddBuffer,
         AddNothing, PollSent, Wake, Oops, CopyReply, Requeue, Fails, CannotCopyOut, Succeeds,
         Returned, input
  <2> QED
    BY <2>1, <2>2, <2>3
<1>3. Range(ivUsed') \subseteq Range(ivUsed) /\ (ivUsed # <<>> => Head(ivUsed) \in Range(ivUsed))
  BY <1>2, RangeTail DEF IoctlInv, TypeOK
<1>4. inbuf' \in {inbuf, NoBuffer} \union {got[r] : r \in Readers}
  BY InbufStep DEF IoctlInv
<1>5. \A r \in Readers : got'[r] \in {got[r], inbuf, NoBuffer} \union Range(ivUsed)
  BY <1>3, GotStep, Shape DEF IoctlInv
<1> QED
  BY <1>2, <1>3, <1>4, <1>5 DEF Around

\* A step in the course of a call that leaves its request where it is.
LEMMA CourseGoesOn ==
    ASSUME IoctlInv, Next, NEW p \in Callers, AloneCourse(p),
           UNCHANGED << ovAvail, ovUsed, host, answer, result >>, req'[p] = req[p],
           \A q \in Callers \ {p} : pc'[q] = pc[q],
           \/ pc'[p] = pc[p]
           \/ pc[p] \notin {"reclaim", "add", "poll"} /\ pc'[p] # "poll"
    PROVE  AloneCourse(p)'
<1>1. PICK n : n = req[p]
  OBVIOUS
<1>2. /\ \A q \in Callers : pc[q] # "idle" => q = p
      /\ \A b \in Around : reply[b] = n
      /\ pc[p] = "poll" => Polls(n)
      /\ pc[p] \notin {"reclaim", "add", "poll"} => Performed(n)
  BY <1>1 DEF AloneCourse, Busy
<1>3. \A b \in Around' : reply'[b] = n
  BY <1>2, AroundStep
<1>4. (Polls(n) => Polls(n)') /\ (Performed(n) => Performed(n)')
  BY DEF Polls, Performed
<1>5. /\ pc'[p] = "poll" => Polls(n)'
      /\ pc'[p] \notin {"reclaim", "add", "poll"} => Performed(n)'
  BY <1>2, <1>4
<1>6. \A q \in Callers : pc'[q] # "idle" => q = p
  BY <1>2
<1> QED
  BY <1>1, <1>3, <1>5, <1>6 DEF AloneCourse, Busy

-----------------------------------------------------------------------------
(* Where the reply is *)

Moves(r) == Resting \/ Taking(r) \/ Storing(r)

LEMMA ReaderMoves ==
    ASSUME IoctlInv, HandsInv, NEW r \in Readers,
           \/ ReadInbuf(r) \/ TakeReply(r)
           \/ StoreInbuf(r) /\ Undone(r) = 0 /\ UNCHANGED input
    PROVE  Moves(r)
<1>1. /\ step \in [Readers -> TestSteps] /\ got \in [Readers -> Buffers \union {NoBuffer}]
      /\ \A q \in Readers :
           /\ ~Testing(q) => step[q] = "read"
           /\ step[q] \in {"read", "take"} /\ pc[q] # "requeue" => got[q] = NoBuffer
           /\ step[q] = "keep" => got[q] # NoBuffer
  BY Shape DEF HandsInv
<1>2. CASE ReadInbuf(r)
  BY <1>1, <1>2 DEF ReadInbuf, Moves, Resting, Hand, Testing, input
<1>3. CASE TakeReply(r)
  BY <1>1, <1>3 DEF TakeReply, Moves, Resting, Taking, Hand, Testing
<1>4. CASE StoreInbuf(r) /\ Undone(r) = 0 /\ UNCHANGED input
  BY <1>4, StoreMoves DEF Moves
<1> QED
  BY <1>2, <1>3, <1>4

LEMMA NoReplyKept ==
    ASSUME NoReply, NEW r \in Readers, Moves(r)
    PROVE  NoReply'
BY DEF NoReply, Moves, Resting, Taking, Storing

LEMMA OneReplyKept ==
    ASSUME OneReply, NEW r \in Readers, Moves(r)
    PROVE  OneReply' /\ (inbuf # NoBuffer => inbuf' = inbuf)
<1>1. PICK b \in Buffers :
        \/ ivUsed = <<b>> /\ inbuf = NoBuffer /\ \A q \in Readers : Hand(q) = NoBuffer
        \/ ivUsed = <<>> /\ inbuf = b /\ \A q \in Readers : Hand(q) = NoBuffer
        \/ /\ ivUsed = <<>> /\ inbuf = NoBuffer
           /\ \E q \in Readers : Hand(q) = b /\ \A k \in Readers \ {q} : Hand(k) = NoBuffer
  BY DEF OneReply
<1>2. b # NoBuffer
  BY BuffersFinite
<1>3. CASE Resting
  BY <1>1, <1>2, <1>3 DEF Resting, OneReply
<1>4. CASE Taking(r)
  <2>1. /\ ivUsed = <<b>> /\ inbuf = NoBuffer /\ \A q \in Readers : Hand(q) = NoBuffer
        /\ Hand(r)' = Head(ivUsed) /\ ivUsed' = Tail(ivUsed) /\ inbuf' = inbuf
        /\ \A q \in Readers \ {r} : Hand(q)' = Hand(q)
    BY <1>1, <1>4 DEF Taking
  <2>2. Hand(r)' = b /\ ivUsed' = << >>
    BY <2>1
  <2> QED
    BY <1>2, <2>1, <2>2 DEF OneReply
<1>5. CASE Storing(r)
  <2>1. /\ inbuf = NoBuffer /\ inbuf' = Hand(r) /\ Hand(r)' = NoBuffer /\ ivUsed' = ivUsed
        /\ \A q \in Readers \ {r} : Hand(q)' = Hand(q)
    BY <1>5 DEF Storing
  <2>2. CASE Hand(r) = NoBuffer
    BY <1>1, <1>2, <2>1, <2>2 DEF OneReply
  <2>3. CASE Hand(r) # NoBuffer
    <3>1. Hand(r) = b /\ ivUsed = << >> /\ \A q \in Readers \ {r} : Hand(q) = NoBuffer
      BY <1>1, <2>1, <2>3
    <3> QED
      BY <1>2, <2>1, <3>1 DEF OneReply
  <2> QED
    BY <2>1, <2>2, <2>3
<1> QED
  BY <1>3, <1>4, <1>5 DEF Moves

\* What the interrupt does leaves the call where it is.
LEMMA CleanKept ==
    ASSUME IoctlInv, HandsInv, NEW p \in Callers, CleanCourse(p), NEW r \in Readers, Moves(r),
           ovAvail' = ovAvail, pc'[p] = pc[p], step'[p] = step[p], got'[p] = got[p]
    PROVE  CleanCourse(p)'
<1>1. /\ NoReply => NoReply'
      /\ OneReply => OneReply' /\ (inbuf # NoBuffer => inbuf' = inbuf)
  BY NoReplyKept, OneReplyKept
<1>2. step[p] = "keep" => got[p] = inbuf /\ got[p] # NoBuffer /\ ~NoReply /\ Testing(p) /\ pc[p] # "handler"
  BY Shape DEF HandsInv, CleanCourse, NoReply
<1>3. step[p] = "keep" => OneReply
  BY <1>2 DEF CleanCourse, Testing
<1>4. step'[p] = "keep" => got'[p] = inbuf'
  BY <1>1, <1>2, <1>3
<1> QED
  BY <1>1, <1>4 DEF CleanCourse


\* What the steps of device_has_data come to while no store is lost.
LEMMA TestStep ==
    ASSUME IoctlInv, HandsInv, NEW p \in Callers, Test(p), lost' = 0, pc'[p] # "idle"
    PROVE  /\ Testing(p) /\ Moves(p)
           /\ \/ ReadInbuf(p) \/ TakeReply(p)
              \/ /\ step[p] \in {"keep", "store"} /\ step'[p] = "read" /\ inbuf' = got[p]
                 /\ \/ HasData(p) /\ pc[p] \in {"first", "event", "wait", "last"} /\ pc'[p] \in {"session", "fill"}
                    \/ ~HasData(p) /\ pc[p] \in {"first", "event", "wait"} /\ pc'[p] \in {"event", "wait", "asleep"}
                    \/ HasData(p) /\ pc[p] = "session" /\ pc'[p] = "fill"
                    \/ HasData(p) /\ pc[p] = "fill" /\ pc'[p] = "copy"
                    \/ ~HasData(p) /\ pc[p] = "fill" /\ pc'[p] = "finish"
<1>1. /\ p \in Readers /\ pc \in [Readers -> ReaderPlaces] /\ step \in [Readers -> TestSteps]
      /\ lost \in Nat
  BY Shape
<1>2. CASE ReadInbuf(p) \/ TakeReply(p)
  BY <1>1, <1>2, ReaderMoves DEF ReadInbuf, TakeReply
<1>3. ASSUME StoreInbuf(p), lost' = lost + Undone(p), UNCHANGED input, Testing(p)
      PROVE  /\ Testing(p) /\ Moves(p) /\ step[p] \in {"keep", "store"}
             /\ step'[p] = "read" /\ inbuf' = got[p]
  <2>1. Undone(p) = 0
    BY <1>1, <1>3 DEF Undone
  <2> QED
    BY <1>1, <1>3, <2>1, ReaderMoves DEF StoreInbuf
<1>4. ASSUME NEW from, NEW to, Tested(p, from, to)
      PROVE  /\ Testing(p) /\ Moves(p) /\ step[p] \in {"keep", "store"}
             /\ step'[p] = "read" /\ inbuf' = got[p] /\ pc[p] = from /\ pc'[p] = to
  <2>1. StoreInbuf(p) /\ lost' = lost + Undone(p) /\ UNCHANGED input /\ Testing(p)
    BY <1>4 DEF Tested, StoreInbuf
  <2> QED
    BY <1>1, <1>3, <1>4, <2>1 DEF Tested, Goto
<1>5. ASSUME NEW from, NEW error, NEW freed PROVE ~GiveUp(p, from, error, freed)
  BY <1>1 DEF GiveUp, Goto
<1>6. CASE GoToSleep(p)
  <2>1. StoreInbuf(p) /\ lost' = lost + Undone(p) /\ UNCHANGED input /\ Testing(p)
    BY <1>6 DEF GoToSleep, StoreInbuf
  <2>2. pc[p] = "wait" /\ pc'[p] = "asleep" /\ ~HasData(p)
    BY <1>1, <1>6 DEF GoToSleep, Goto
  <2> QED
    BY <1>3, <2>1, <2>2
<1>7. CASE HasReply(p) \/ BeginWait(p) \/ PrepareToWait(p)
  BY <1>4, <1>7 DEF HasReply, BeginWait, PrepareToWait, Then
<1>8. CASE NeedNotWait(p)
  BY <1>4, <1>8 DEF NeedNotWait, Then
<1>9. CASE StillThere(p) \/ NothingToCopy(p) \/ SomethingToCopy(p)
  BY <1>4, <1>9 DEF StillThere, NothingToCopy, SomethingToCopy
<1> QED
  BY <1>2, <1>5, <1>6, <1>7, <1>8, <1>9 DEF Test, WouldBlock, InterruptedWait, Gone

LEMMA TestClean ==
    ASSUME IoctlInv, HandsInv, NEW p \in Callers, CleanCourse(p), Test(p), lost' = 0,
           pc'[p] # "idle", ovAvail' = ovAvail
    PROVE  CleanCourse(p)'
<1>1. /\ Testing(p) /\ Moves(p) /\ p \in Readers
      /\ pc \in [Readers -> ReaderPlaces] /\ step \in [Readers -> TestSteps]
      /\ got \in [Readers -> Buffers \union {NoBuffer}]
  BY TestStep, Shape
<1>2. /\ NoReply \/ OneReply
      /\ pc[p] \in {"first", "event", "wait", "last", "session", "fill"}
      /\ pc[p] \in {"session", "fill"} => OneReply /\ inbuf # NoBuffer /\ step[p] \in {"read", "keep"}
      /\ step[p] = "keep" => got[p] = inbuf /\ got[p] # NoBuffer
  BY <1>1 DEF CleanCourse, HandsInv, Testing
<1>3. /\ NoReply' \/ OneReply'
      /\ pc[p] \in {"session", "fill"} => OneReply' /\ inbuf' = inbuf
  BY <1>1, <1>2, OneReplyKept, NoReplyKept
<1>4. CASE ReadInbuf(p)
  <2>1. /\ pc' = pc /\ inbuf' = inbuf /\ got'[p] = inbuf
        /\ step'[p] = IF inbuf # NoBuffer THEN "keep" ELSE "take"
    BY <1>1, <1>4 DEF ReadInbuf
  <2> QED
    BY <1>2, <1>3, <2>1 DEF CleanCourse
<1>5. CASE TakeReply(p)
  <2>1. pc' = pc /\ step[p] = "take" /\ step'[p] = "store"
    BY <1>1, <1>5 DEF TakeReply
  <2> QED
    BY <1>2, <1>3, <2>1 DEF CleanCourse
<1>6. CASE ~ReadInbuf(p) /\ ~TakeReply(p)
  <2>1. /\ step[p] \in {"keep", "store"} /\ step'[p] = "read" /\ inbuf' = got[p]
        /\ \/ HasData(p) /\ pc[p] \in {"first", "event", "wait", "last"} /\ pc'[p] \in {"session", "fill"}
           \/ ~HasData(p) /\ pc[p] \in {"first", "event", "wait"} /\ pc'[p] \in {"event", "wait", "asleep"}
           \/ HasData(p) /\ pc[p] = "session" /\ pc'[p] = "fill"
           \/ HasData(p) /\ pc[p] = "fill" /\ pc'[p] = "copy"
           \/ ~HasData(p) /\ pc[p] = "fill" /\ pc'[p] = "finish"
    BY <1>6, TestStep
  <2>2. HasData(p) => OneReply' /\ inbuf' # NoBuffer
    BY <1>3, <2>1 DEF NoReply, HasData
  <2>3. \/ pc'[p] \in {"session", "fill", "copy"} /\ HasData(p)
        \/ pc'[p] \in {"event", "wait", "asleep"}
    BY <1>2, <2>1 DEF HasData
  <2> QED
    BY <1>3, <2>1, <2>2, <2>3 DEF CleanCourse
<1> QED
  BY <1>4, <1>5, <1>6


-----------------------------------------------------------------------------
(* The course of a call alone, step by step *)

LEMMA BeginAlone ==
    ASSUME IoctlInv, HandsInv, NEW p \in Callers, NEW cmd \in Commands, Call(p, cmd), AtRest
    PROVE  CourseInv(p)'
<1>1. /\ \A q \in Callers : ~Busy(q)
      /\ ivUsed = <<>> /\ inbuf = NoBuffer /\ \A r \in Readers : got[r] = NoBuffer
  BY DEF AtRest
<1>2. /\ pc' = [pc EXCEPT ![p] = "reclaim"] /\ pc[p] = "idle"
      /\ UNCHANGED << step, got, inbuf, ivUsed, reply >>
  BY DEF Call, Goto, input
<1>3. /\ pc \in [Readers -> ReaderPlaces] /\ p \in Readers /\ Callers \subseteq Readers
  BY Shape
<1>4. pc'[p] = "reclaim" /\ \A q \in Callers : Busy(q)' => q = p
  BY <1>1, <1>2, <1>3 DEF Busy
<1>5. Around' = {}
  BY <1>1, <1>2, RangeEmpty DEF Around
<1>6. AloneCourse(p)'
  BY <1>4, <1>5 DEF AloneCourse
<1>7. NoReply'
  BY <1>1, <1>2 DEF NoReply, Hand
<1>8. step'[p] = "read"
  BY <1>2, <1>3 DEF HandsInv, Testing
<1>9. CleanCourse(p)'
  BY <1>4, <1>7, <1>8 DEF CleanCourse
<1> QED
  BY <1>6, <1>9 DEF CourseInv

\* A step that QEMU has no part in.
LEMMA CourseAfter ==
    ASSUME IoctlInv, Next, NEW p \in Callers, AloneCourse(p), host' = host,
           NEW n, n = req[p], n = req'[p], \A q \in Callers \ {p} : pc'[q] = pc[q],
           pc'[p] = "poll" => Polls(n)',
           pc'[p] \notin {"reclaim", "add", "poll"} => Performed(n)'
    PROVE  AloneCourse(p)'
<1>1. \A q \in Callers : pc'[q] # "idle" => q = p
  BY DEF AloneCourse, Busy
<1>2. \A b \in Around' : reply'[b] = n
  BY AroundStep DEF AloneCourse
<1> QED
  BY <1>1, <1>2 DEF AloneCourse, Busy

LEMMA SendAlone ==
    ASSUME IoctlInv, HandsInv, RequestsConserved, Next, NEW p \in Callers, Busy(p), CourseInv(p),
           \/ Reclaim(p) \/ Reclaimed(p) \/ AddBuffer(p) \/ AddNothing(p) \/ PollSent(p)
           \/ Wake(p) \/ Signal(p)
    PROVE  CourseInv(p)'
<1>1. /\ p \in Readers /\ pc \in [Readers -> ReaderPlaces] /\ Callers \subseteq Readers
      /\ lost \in Nat /\ AloneCourse(p) /\ (lost = 0 => CleanCourse(p))
  BY Shape DEF CourseInv
<1>2. pc[p] # "poll" => QueueEmpty
  BY <1>1, AloneQueue
<1>3. ~Reclaim(p)
  BY <1>2 DEF Reclaim, QueueEmpty
<1>4. ~AddNothing(p)
  <2>1. QueueEmpty => InFlight = 0
    BY EmptySeq DEF QueueEmpty, InFlight
  <2>2. ovqSize \in Nat /\ ovqSize > 0
    BY ConstantsAssumption DEF IoctlInv, TypeOK
  <2> QED
    BY <1>2, <2>1, <2>2 DEF AddNothing, Goto
<1>5. PICK n : n = req[p]
  OBVIOUS
<1>6. /\ UNCHANGED << step, got, inbuf, ivUsed, reply, host, answer, result, lost >>
      /\ n = req'[p] /\ \A q \in Callers \ {p} : pc'[q] = pc[q]
  BY <1>1, <1>3, <1>4, <1>5 DEF Reclaimed, AddBuffer, PollSent, Wake, Signal, Goto, guest, input,
         blocks, device, history
<1>7. (NoReply => NoReply') /\ (OneReply => OneReply') /\ (Performed(n) => Performed(n)')
  BY <1>6 DEF NoReply, OneReply, Hand, Performed
<1>8. /\ pc[p] = "poll" => Polls(n)
      /\ pc[p] \notin {"reclaim", "add", "poll"} => Performed(n)
  BY <1>1, <1>5 DEF AloneCourse
<1>9. step[p] = "keep" => got[p] = inbuf \/ lost # 0
  BY <1>1 DEF CleanCourse
<1>10. pc[p] \in {"reclaim", "add", "poll", "asleep"} /\ step[p] = "read"
  BY <1>1, <1>3, <1>4 DEF Reclaimed, AddBuffer, PollSent, Wake, Signal, Goto, HandsInv, Testing
<1>11. CASE Reclaimed(p)
  <2>1. pc[p] = "reclaim" /\ pc'[p] = "add"
    BY <1>1, <1>11 DEF Reclaimed, Goto
  <2>2. AloneCourse(p)'
    BY <1>1, <1>5, <1>6, <2>1, CourseAfter
  <2> QED
    BY <1>1, <1>6, <1>7, <1>10, <2>1, <2>2 DEF CourseInv, CleanCourse
<1>12. CASE AddBuffer(p)
  <2>1. /\ pc[p] = "add" /\ pc'[p] = "poll" /\ QueueEmpty
        /\ ovAvail' = Append(ovAvail, n) /\ ovUsed' = ovUsed
    BY <1>1, <1>2, <1>5, <1>12 DEF AddBuffer, Goto
  <2>2. ovAvail' = <<n>> /\ ovUsed' = <<>> /\ host' = None
    BY <1>6, <2>1 DEF QueueEmpty
  <2>3. Polls(n)'
    BY <2>2 DEF Polls
  <2>4. AloneCourse(p)'
    BY <1>1, <1>5, <1>6, <2>1, <2>3, CourseAfter
  <2> QED
    BY <1>1, <1>6, <1>7, <1>10, <2>1, <2>4 DEF CourseInv, CleanCourse
<1>13. CASE PollSent(p)
  <2>1. /\ pc[p] = "poll" /\ pc'[p] = "first" /\ ovUsed # <<>> /\ ovAvail' = ovAvail
    BY <1>1, <1>13 DEF PollSent, Goto
  <2>2. Performed(n)
    BY <1>8, <2>1 DEF Polls
  <2>3. AloneCourse(p)'
    BY <1>1, <1>5, <1>6, <1>7, <2>1, <2>2, CourseAfter
  <2> QED
    BY <1>1, <1>6, <1>7, <1>10, <2>1, <2>3 DEF CourseInv, CleanCourse
<1>14. CASE Wake(p) \/ Signal(p)
  <2>1. pc[p] = "asleep" /\ pc'[p] \in {"wait", "last"}
    BY <1>1, <1>14 DEF Wake, Signal, Goto
  <2>2. AloneCourse(p)'
    BY <1>1, <1>5, <1>6, <1>7, <1>8, <2>1, CourseAfter
  <2> QED
    BY <1>1, <1>6, <1>7, <1>10, <2>1, <2>2 DEF CourseInv, CleanCourse
<1> QED
  BY <1>3, <1>4, <1>11, <1>12, <1>13, <1>14

LEMMA ReadAlone ==
    ASSUME IoctlInv, HandsInv, Next, NEW p \in Callers, CourseInv(p),
           Oops(p) \/ CopyReply(p) \/ Requeue(p)
    PROVE  CourseInv(p)'
<1>1. /\ p \in Readers /\ pc \in [Readers -> ReaderPlaces] /\ Callers \subseteq Readers
      /\ got \in [Readers -> Buffers \union {NoBuffer}]
      /\ lost \in Nat /\ AloneCourse(p) /\ (lost = 0 => CleanCourse(p))
      /\ answer \in [Requests -> Requests \union {None}]
      /\ (Busy(p) => req[p] \in Requests)
  BY Shape DEF CourseInv
<1>2. PICK n : n = req[p]
  OBVIOUS
<1>3. pc[p] \in {"copy", "requeue"} /\ step[p] = "read" /\ n \in Requests /\ Performed(n)
  BY <1>1, <1>2 DEF AloneCourse, Oops, CopyReply, Requeue, Goto, HandsInv, Testing, Busy
<1>4. CASE Oops(p)
  <2>1. /\ pc[p] = "copy" /\ pc'[p] = "oops" /\ inbuf = NoBuffer /\ n = req'[p]
        /\ UNCHANGED << host, step, answer, result, lost >>
        /\ \A q \in Callers \ {p} : pc'[q] = pc[q]
    BY <1>1, <1>2, <1>4 DEF Oops, Goto, blocks, device, history
  <2>2. Performed(n)'
    BY <1>3, <2>1 DEF Performed
  <2>3. AloneCourse(p)'
    BY <1>1, <1>2, <2>1, <2>2, CourseAfter
  <2>4. lost' # 0
    BY <1>1, <2>1 DEF CleanCourse
  <2> QED
    BY <2>3, <2>4 DEF CourseInv
<1>5. CASE CopyReply(p)
  <2>1. /\ pc[p] = "copy" /\ pc'[p] = "requeue" /\ inbuf # NoBuffer /\ n = req'[p]
        /\ got' = [got EXCEPT ![p] = inbuf] /\ inbuf' = inbuf /\ ivUsed' = ivUsed
        /\ answer' = IF inbuf \in read THEN answer ELSE [answer EXCEPT ![n] = reply[inbuf]]
        /\ UNCHANGED << host, step, result, lost >>
        /\ \A q \in Callers \ {p} : pc'[q] = pc[q]
    BY <1>1, <1>2, <1>5 DEF CopyReply, Goto, device, output, history
  <2>2. reply[inbuf] = n
    BY <1>1, <1>2, <2>1 DEF AloneCourse, Around
  <2>3. Performed(n)'
    BY <1>1, <1>3, <2>1, <2>2 DEF Performed
  <2>4. AloneCourse(p)'
    BY <1>1, <1>2, <2>1, <2>3, CourseAfter
  <2>5. \A r \in Readers : Hand(r)' = Hand(r)
    BY <1>1, <1>3, <2>1 DEF Hand
  <2>6. OneReply => OneReply'
    BY <2>1, <2>5 DEF OneReply
  <2> QED
    BY <1>1, <1>3, <2>1, <2>4, <2>6 DEF CourseInv, CleanCourse
<1>6. CASE Requeue(p)
  <2>1. /\ pc[p] = "requeue" /\ pc'[p] = "finish" /\ n = req'[p]
        /\ got' = [got EXCEPT ![p] = NoBuffer] /\ inbuf' = NoBuffer /\ ivUsed' = ivUsed
        /\ UNCHANGED << host, step, answer, result >>
        /\ \A q \in Callers \ {p} : pc'[q] = pc[q]
        /\ lost' = lost \/ lost' = lost + 1
    BY <1>1, <1>2, <1>6 DEF Requeue, Goto, device, output, blocks
  <2>2. Performed(n)'
    BY <1>3, <2>1 DEF Performed
  <2>3. AloneCourse(p)'
    BY <1>1, <1>2, <2>1, <2>2, CourseAfter
  <2>4. \A r \in Readers : Hand(r)' = Hand(r)
    BY <1>1, <1>3, <2>1 DEF Hand
  <2>5. OneReply /\ inbuf # NoBuffer => NoReply'
    BY <2>1, <2>4 DEF OneReply, NoReply
  <2> QED
    BY <1>1, <1>3, <2>1, <2>3, <2>5 DEF CourseInv, CleanCourse
<1> QED
  BY <1>4, <1>5, <1>6

LEMMA TestAlone ==
    ASSUME IoctlInv, HandsInv, Next, NEW p \in Callers, CourseInv(p), Test(p), pc'[p] # "idle"
    PROVE  CourseInv(p)'
<1>1. /\ pc \in [Readers -> ReaderPlaces] /\ p \in Readers /\ Callers \subseteq Readers /\ lost \in Nat
      /\ AloneCourse(p) /\ (lost = 0 => CleanCourse(p))
  BY Shape DEF CourseInv
<1>2. /\ UNCHANGED << ovAvail, ovUsed, host, answer, result >> /\ req'[p] = req[p] /\ Testing(p)
  BY DEF Test, ReadInbuf, TakeReply, HasReply, WouldBlock, BeginWait, PrepareToWait,
         NeedNotWait, GoToSleep, InterruptedWait, StillThere, Gone, NothingToCopy, SomethingToCopy,
         Tested, GiveUp, StoreInbuf, blocks, device, output
<1>3. \A q \in Callers \ {p} : pc'[q] = pc[q]
  BY <1>1, CallerStep DEF Continue
<1>4. pc'[p] # "poll"
  BY <1>1, <1>2 DEF Test, ReadInbuf, TakeReply, HasReply, WouldBlock, BeginWait, PrepareToWait,
         NeedNotWait, GoToSleep, InterruptedWait, StillThere, Gone, NothingToCopy, SomethingToCopy,
         Tested, GiveUp, Goto, Then, Testing
<1>5. AloneCourse(p)'
  BY <1>1, <1>2, <1>3, <1>4, CourseGoesOn DEF Testing
<1>6. lost' = 0 => lost = 0
  BY <1>1, HistoryStep DEF IoctlInv
<1> QED
  BY <1>1, <1>2, <1>5, <1>6, TestClean DEF CourseInv

LEMMA InterruptAlone ==
    ASSUME IoctlInv, HandsInv, Next, NEW p \in Callers, CourseInv(p), InIntr
    PROVE  CourseInv(p)'
<1>1. /\ pc \in [Readers -> ReaderPlaces] /\ p \in Readers /\ p # Interrupt /\ Callers \subseteq Readers
      /\ Interrupt \in Readers /\ Interrupt \notin Callers /\ lost \in Nat
      /\ step \in [Readers -> TestSteps] /\ got \in [Readers -> Buffers \union {NoBuffer}]
      /\ AloneCourse(p) /\ (lost = 0 => CleanCourse(p))
  BY Shape DEF CourseInv
<1>2. /\ UNCHANGED << ovAvail, ovUsed, host, answer, result >> /\ req'[p] = req[p]
      /\ \A q \in Callers : pc'[q] = pc[q]
      /\ step'[p] = step[p] /\ got'[p] = got[p]
  BY <1>1 DEF InIntr, BeginInterrupt, ReadInbuf, TakeReply, EndInterrupt, StoreInbuf, Goto, output,
         device, blocks
<1>3. AloneCourse(p)'
  BY <1>1, <1>2, CourseGoesOn
<1>4. ASSUME lost' = 0 PROVE lost = 0 /\ Moves(Interrupt)
  <2>1. lost = 0
    BY <1>1, <1>4, HistoryStep DEF IoctlInv
  <2>2. CASE BeginInterrupt
    BY <2>1, <2>2 DEF BeginInterrupt, Moves, Resting, Hand, input
  <2>3. CASE EndInterrupt
    <3>1. StoreInbuf(Interrupt) /\ Undone(Interrupt) = 0 /\ UNCHANGED input
      BY <1>4, <2>1, <2>3 DEF EndInterrupt, Undone
    <3> QED
      BY <1>1, <2>1, <3>1, ReaderMoves
  <2> QED
    BY <1>1, <2>1, <2>2, <2>3, ReaderMoves DEF InIntr
<1> QED
  BY <1>1, <1>2, <1>3, <1>4, CleanKept DEF CourseInv


\* QEMU performs the call on its block, and sends the reply.
LEMMA HostAlone ==
    ASSUME IoctlInv, HandsInv, RequestsConserved, LiveInv, Next, NEW p \in Callers, Busy(p),
           CourseInv(p), Host
    PROVE  CourseInv(p)'
<1>1. /\ p \in Readers /\ req[p] \in Requests /\ None \notin Requests /\ lost \in Nat
      /\ AloneCourse(p) /\ (lost = 0 => CleanCourse(p))
      /\ answer \in [Requests -> Requests \union {None}]
      /\ result \in [Requests -> {"none", "ok", "failed"}]
  BY Shape DEF CourseInv
<1>2. PICK n : n = req[p]
  OBVIOUS
<1>3. ~QueueEmpty /\ UNCHANGED << pc, step, got, inbuf, req, lost >>
  BY DEF Host, HandleOutput, HandleGarbage, GiveBack, QueueEmpty, guest, blocks, history
<1>4. pc[p] = "poll" /\ Polls(n) /\ robbed = 0
  BY <1>1, <1>2, <1>3, AloneQueue DEF AloneCourse
<1>5. n \in live
  BY <1>2, <1>4 DEF LiveInv, InProgress
<1>6. /\ \A r \in Readers : Hand(r)' = Hand(r)
      /\ \A q \in Callers : Busy(q)' => q = p
  BY <1>1, <1>3 DEF Hand, AloneCourse, Busy
<1>7. CASE ovAvail = <<n>> /\ ovUsed = <<>> /\ host = None
  <2>1. Head(ovAvail) = n /\ Tail(ovAvail) = <<>> /\ ovAvail # <<>>
    BY <1>7
  <2>2. HandleOutput
    BY <1>5, <1>7, <2>1 DEF Host, HandleGarbage, GiveBack
  <2>3. \E ok \in Answers(n) : result' = [result EXCEPT ![n] = ok]
    BY <2>1, <2>2 DEF HandleOutput
  <2>4. Answers(n) \subseteq {"ok", "failed"}
    BY DEF Answers
  <2>5. /\ host' = n /\ ovAvail' = <<>> /\ ovUsed' = <<>> /\ answer' = [answer EXCEPT ![n] = n]
        /\ SendBuffer(n)
    BY <1>5, <1>7, <2>1, <2>2 DEF HandleOutput
  <2>6. Performed(n)'
    BY <1>1, <1>2, <2>3, <2>4, <2>5 DEF Performed
  <2>7. Polls(n)'
    BY <2>5, <2>6 DEF Polls
  <2>8. CASE ivAvail = <<>>
    <3>1. UNCHANGED << ivUsed, reply >>
      BY <2>5, <2>8 DEF SendBuffer
    <3>2. Around' = Around /\ (NoReply => NoReply')
      BY <1>3, <1>6, <3>1 DEF Around, NoReply
    <3> QED
      BY <1>1, <1>2, <1>3, <1>4, <1>6, <1>7, <2>1, <2>5, <2>7, <3>1, <3>2
         DEF CourseInv, AloneCourse, CleanCourse
  <2>9. CASE ivAvail # <<>>
    <3>1. PICK b : b = Head(ivAvail)
      OBVIOUS
    <3>2. b \in Buffers /\ ivUsed \in Seq(Buffers) /\ reply \in [Buffers -> Requests \union {None}]
      BY <2>9, <3>1, HeadTail DEF IoctlInv, TypeOK
    <3>3. reply' = [reply EXCEPT ![b] = n] /\ ivUsed' = Append(ivUsed, b)
      BY <2>5, <2>9, <3>1 DEF SendBuffer
    <3>4. Range(ivUsed') = Range(ivUsed) \union {b}
      BY <3>2, <3>3, RangeAppend
    <3>5. Around' \subseteq Around \union {b}
      BY <1>3, <3>4 DEF Around
    <3>6. \A c \in Around' : reply'[c] = n
      <4>1. \A c \in Around : c \in Buffers /\ reply[c] = n
        <5>1. Range(ivUsed) \subseteq Buffers
          BY <3>2, RangeIs
        <5>2. Around \subseteq Buffers
          BY <5>1, Shape DEF Around, IoctlInv, TypeOK
        <5> QED
          BY <1>1, <1>2, <5>2 DEF AloneCourse
      <4> QED
        BY <3>2, <3>3, <3>5, <4>1
    <3>7. NoReply => OneReply'
      <4>1. ivUsed = <<>> => ivUsed' = <<b>>
        BY <3>3
      <4> QED
        BY <1>3, <1>6, <3>2, <4>1 DEF NoReply, OneReply
    <3> QED
      BY <1>1, <1>2, <1>3, <1>4, <1>6, <1>7, <2>1, <2>5, <2>7, <3>6, <3>7
         DEF CourseInv, AloneCourse, CleanCourse
  <2> QED
    BY <2>8, <2>9
<1>8. CASE ovAvail = <<>> /\ Performed(n)
  <2>1. GiveBack
    BY <1>8 DEF Host, HandleOutput, HandleGarbage
  <2>2. /\ host # None /\ host' = None /\ ovUsed' = Append(ovUsed, host)
        /\ UNCHANGED << ivUsed, reply, ovAvail, answer, result >>
    BY <2>1 DEF GiveBack, input, blocks
  <2>3. host = n /\ ovUsed = <<>>
    BY <1>2, <1>4, <1>8, <2>2 DEF Polls
  <2>4. ovUsed' = <<n>>
    BY <2>2, <2>3
  <2>5. Performed(n)'
    BY <1>8, <2>2 DEF Performed
  <2>6. Polls(n)'
    BY <1>8, <2>2, <2>4, <2>5 DEF Polls
  <2>7. Around' = Around /\ (NoReply => NoReply') /\ (OneReply => OneReply')
    BY <1>3, <1>6, <2>2 DEF Around, NoReply, OneReply
  <2> QED
    BY <1>1, <1>2, <1>3, <1>4, <1>6, <1>8, <2>2, <2>6, <2>7 DEF CourseInv, AloneCourse, CleanCourse
<1> QED
  BY <1>4, <1>7, <1>8 DEF Polls

\* Once alone, a call stays so until another one begins; and no other one begins
\* alone while it lasts.
LEMMA NextAlone ==
    ASSUME IoctlInv, HandsInv, RequestsConserved, Records, LiveInv, AloneInv, Next
    PROVE  AloneInv'
<1> SUFFICES ASSUME NEW p \in Callers, Busy(p)', req'[p] \in alone'
             PROVE  CourseInv(p)'
  BY DEF AloneInv
<1>1. /\ pc \in [Readers -> ReaderPlaces] /\ p \in Readers /\ Callers \subseteq Readers
      /\ Interrupt \notin Callers /\ req \in [Callers -> Requests \union {None}]
  BY Shape
<1>2. ASSUME NEW q \in Callers, NEW cmd \in Commands, Call(q, cmd) PROVE CourseInv(p)'
  <2>1. PICK m \in Requests :
          /\ calls' = m /\ ~Busy(q) /\ m \notin alone /\ req' = [req EXCEPT ![q] = m]
    BY <1>2, NewCall
  <2>2. alone' = IF AtRest THEN alone \union {m} ELSE alone \ InProgress
    BY <1>2, <2>1 DEF Call
  <2>3. CASE p = q
    BY <1>1, <1>2, <2>1, <2>2, <2>3, BeginAlone
  <2>4. CASE p # q
    <3>1. Busy(p) /\ req'[p] = req[p]
      BY <1>1, <1>2, <2>1, <2>4 DEF Call, Goto, Busy
    <3>2. ~AtRest /\ req[p] \in InProgress
      BY <3>1 DEF AtRest, InProgress
    <3> QED
      BY <2>2, <3>1, <3>2
  <2> QED
    BY <2>3, <2>4
<1>3. ASSUME NEW q \in Callers, UnknownCommand(q) PROVE CourseInv(p)'
  <2>1. /\ ~Busy(q) /\ req' = [req EXCEPT ![q] = calls']
        /\ UNCHANGED << pc, step, got, inbuf, ivUsed, ovAvail, ovUsed, host, answer, result, alone, lost >>
    BY <1>3 DEF UnknownCommand, guest, input, output, device, history
  <2>2. Busy(p) /\ p # q /\ req'[p] = req[p]
    BY <1>1, <2>1 DEF Busy
  <2>3. CourseInv(p)
    BY <2>1, <2>2 DEF AloneInv
  <2>4. AloneCourse(p)'
    BY <1>1, <2>1, <2>2, <2>3, CourseGoesOn DEF CourseInv
  <2>5. CleanCourse(p) => CleanCourse(p)'
    BY <2>1 DEF CleanCourse, NoReply, OneReply, Hand
  <2> QED
    BY <2>1, <2>3, <2>4, <2>5 DEF CourseInv
<1>4. ASSUME NEW q \in Callers, Continue(q) \/ Signal(q) PROVE CourseInv(p)'
  <2>1. Busy(q) /\ UNCHANGED << req, alone >> /\ \A k \in Readers \ {q} : pc'[k] = pc[k]
    BY <1>4, CallerStep
  <2>2. Busy(p)
    BY <1>1, <2>1 DEF Busy
  <2>3. CourseInv(p) /\ q = p
    BY <2>1, <2>2 DEF AloneInv, CourseInv, AloneCourse
  <2>4. ~Fails(p) /\ ~CannotCopyOut(p) /\ ~Succeeds(p)
    BY <1>1 DEF Fails, CannotCopyOut, Succeeds, Returned, Goto, Busy
  <2>5. pc'[p] # "idle"
    BY DEF Busy
  <2> QED
    BY <1>4, <2>2, <2>3, <2>4, <2>5, SendAlone, ReadAlone, TestAlone DEF Continue
<1>5. ASSUME InIntr \/ Host PROVE CourseInv(p)'
  <2>1. UNCHANGED << req, alone >> /\ pc'[p] = pc[p]
    BY <1>1, <1>5 DEF InIntr, BeginInterrupt, ReadInbuf, TakeReply, EndInterrupt, Goto, Host,
           HandleOutput, HandleGarbage, GiveBack, guest, blocks, history
  <2>2. Busy(p) /\ CourseInv(p)
    BY <2>1 DEF Busy, AloneInv
  <2> QED
    BY <1>5, <2>2, InterruptAlone, HostAlone
<1> QED
  BY <1>2, <1>3, <1>4, <1>5 DEF Next

LEMMA InitAlone == ASSUME Init PROVE AloneInv /\ DoneInv /\ LeftInv
<1>1. alone = {} /\ \A p \in Callers : ~Busy(p)
  BY DEF Init, Busy, Readers
<1> QED
  BY <1>1 DEF AloneInv, DoneInv, LeftInv


-----------------------------------------------------------------------------
(* What a call alone leaves *)

LEMMA NextDone ==
    ASSUME IoctlInv, HandsInv, RequestsConserved, Records, AloneInv, DoneInv, Next
    PROVE  DoneInv'
<1>1. /\ req \in [Callers -> Requests \union {None}] /\ None \notin Requests /\ alone \subseteq Requests
      /\ outcome \in [Requests -> Outcomes] /\ answer \in [Requests -> Requests \union {None}]
      /\ result \in [Requests -> {"none", "ok", "failed"}]
      /\ ovAvail \in Seq(Requests) /\ TypeOK
      /\ \A p \in Callers : Busy(p) => req[p] \in Requests
  BY Shape DEF IoctlInv, TypeOK
<1>2. \A q \in Callers : Busy(q) => outcome[req[q]] = "none"
  BY DEF Records
<1>3. ASSUME NEW m \in alone, outcome[m] \in Answered, Going
      PROVE  /\ answer'[m] = m /\ m \notin Range(ovAvail') /\ result'[m] = result[m]
  <2>1. answer[m] = m /\ m \notin Range(ovAvail) /\ \A q \in Callers : Busy(q) => req[q] # m
    BY <1>2, <1>3 DEF DoneInv, Answered
  <2>2. ovAvail # <<>> => Head(ovAvail) # m /\ Range(Tail(ovAvail)) \subseteq Range(ovAvail)
    BY <1>1, <2>1, RangeTail
  <2>3. \A p \in Callers : pc[p] \in {"add", "copy"} => req[p] # m /\ req[p] \in Requests
    BY <1>1, <2>1 DEF Busy
  <2>4. answer'[m] = m
    BY <1>1, <2>1, <2>2, <2>3, BlockStep
  <2>5. result'[m] = result[m]
    BY <1>1, <2>2, ResultStep
  <2>6. m \notin Range(ovAvail')
    <3>1. ASSUME NEW p \in Callers, pc[p] = "add", ovAvail' = Append(ovAvail, req[p])
          PROVE  m \notin Range(ovAvail')
      BY <1>1, <2>1, <2>3, <3>1, RangeAppend
    <3> QED
      BY <1>1, <2>1, <2>2, <3>1, OutputStep
  <2> QED
    BY <2>4, <2>5, <2>6
<1>4. CASE Going
  BY <1>3, <1>4 DEF Going, DoneInv
<1>5. ASSUME NEW p \in Callers, NEW v \in Outcomes, Ending(p, v) PROVE DoneInv'
  <2>1. Busy(p) /\ UNCHANGED << answer, result, ovAvail, alone >> /\ outcome' = [outcome EXCEPT ![req[p]] = v]
    BY <1>5 DEF Ending
  <2>2. ASSUME req[p] \in alone, v \in Answered
        PROVE  /\ answer[req[p]] = req[p] /\ req[p] \notin Range(ovAvail)
               /\ v = "OK" => result[req[p]] = "ok"
               /\ v = "EINVAL" => result[req[p]] = "failed"
    <3>1. pc[p] = "finish" /\ AloneCourse(p)
      BY <1>5, <2>1, <2>2 DEF Ending, AloneInv, CourseInv
    <3>2. Performed(req[p]) /\ QueueEmpty
      BY <2>1, <3>1, AloneQueue DEF AloneCourse
    <3>3. answer[req[p]] = req[p] /\ result[req[p]] \in {"ok", "failed"}
      BY <1>1, <2>1, <3>2 DEF Performed
    <3>4. /\ v = "OK" => Success(p)
          /\ v = "EINVAL" => ~Success(p)
      BY <1>5 DEF Ending
    <3>5. Success(p) <=> result[req[p]] = "ok"
      BY <1>1, <2>1, <3>3 DEF Success
    <3> QED
      BY <3>2, <3>3, <3>4, <3>5, RangeEmpty DEF QueueEmpty
  <2>3. ASSUME NEW m \in alone, outcome'[m] \in Answered
        PROVE  /\ answer[m] = m /\ m \notin Range(ovAvail)
               /\ outcome'[m] = "OK" => result[m] = "ok"
               /\ outcome'[m] = "EINVAL" => result[m] = "failed"
    <3>1. CASE m = req[p]
      BY <1>1, <2>1, <2>2, <2>3, <3>1
    <3>2. CASE m # req[p]
      BY <1>1, <2>1, <2>3, <3>2 DEF DoneInv
    <3> QED
      BY <3>1, <3>2
  <2> QED
    BY <2>1, <2>3 DEF DoneInv
<1>6. ASSUME NEW p \in Callers, UnknownCommand(p) \/ \E cmd \in Commands : Call(p, cmd)
      PROVE  DoneInv'
  <2>1. PICK m \in Requests :
             /\ m = calls + 1 /\ calls' = m /\ m \notin alone /\ outcome[m] = "none"
             /\ \A k \in Requests \ {m} : outcome'[k] = outcome[k]
             /\ UNCHANGED << ovAvail, answer, result >>
             /\ \/ UnknownCommand(p) /\ alone' = alone
                \/ (\E cmd \in Commands : Call(p, cmd)) /\ outcome' = outcome
    BY <1>6, NewCall
  <2>2. alone' \subseteq alone \union {m}
    BY <2>1 DEF Call
  <2>3. ASSUME NEW k \in alone', outcome'[k] \in Answered PROVE k \in alone /\ outcome'[k] = outcome[k]
    BY <1>1, <2>1, <2>2, <2>3 DEF Answered
  <2> QED
    BY <2>1, <2>3 DEF DoneInv
<1> QED
  BY <1>4, <1>5, <1>6, LifeStep

\* What the steps of the interrupt come to while nobody is in a call.
LEMMA QuietStep ==
    ASSUME IoctlInv, HandsInv, RequestsConserved, \A p \in Callers : ~Busy(p), Next, Going
    PROVE  /\ \A p \in Callers : ~Busy(p)'
           /\ lost = 0 /\ lost' = 0 /\ NoReply => NoReply'
<1>1. InIntr
  <2>1. \A p \in Callers : ~(Continue(p) \/ Signal(p))
    BY CallerStep
  <2>2. \A p \in Callers : ~UnknownCommand(p) /\ \A cmd \in Commands : ~Call(p, cmd)
    <3>1. calls' = calls /\ calls \in Nat
      BY Shape DEF Going
    <3> QED
      BY <3>1 DEF UnknownCommand, Call
  <2>3. QueueEmpty
    BY NobodyPolls DEF Busy
  <2>4. ~Host
    BY <2>3 DEF QueueEmpty, Host, HandleOutput, HandleGarbage, GiveBack
  <2> QED
    BY <2>1, <2>2, <2>4 DEF Next
<1>2. ASSUME lost = 0, lost' = 0 PROVE Moves(Interrupt)
  <2>1. CASE BeginInterrupt
    BY <2>1 DEF BeginInterrupt, Moves, Resting, Hand, input
  <2>2. CASE EndInterrupt
    <3>1. StoreInbuf(Interrupt) /\ Undone(Interrupt) = 0 /\ UNCHANGED input
      BY <1>2, <2>2 DEF EndInterrupt, Undone
    <3> QED
      BY <3>1, ReaderMoves, Shape
  <2> QED
    BY <1>1, <2>1, <2>2, ReaderMoves, Shape DEF InIntr
<1>3. \A p \in Callers : ~Busy(p)'
  BY DEF Going
<1> QED
  BY <1>2, <1>3, NoReplyKept, Shape

LEMMA NextLeft ==
    ASSUME IoctlInv, HandsInv, RequestsConserved, Records, AloneInv, LeftInv, Next
    PROVE  LeftInv'
<1> SUFFICES ASSUME calls' \in alone', outcome'[calls'] \in Answered
             PROVE  (\A p \in Callers : ~Busy(p)') /\ (lost' = 0 => NoReply')
  BY DEF LeftInv
<1>1. lost' = 0 => lost = 0
  BY HistoryStep, Shape DEF IoctlInv
<1>2. /\ req \in [Callers -> Requests \union {None}] /\ alone \subseteq Requests
      /\ outcome \in [Requests -> Outcomes] /\ calls \in Nat
      /\ pc \in [Readers -> ReaderPlaces] /\ Callers \subseteq Readers
  BY Shape DEF IoctlInv, TypeOK
<1>3. CASE Going
  BY <1>1, <1>2, <1>3, QuietStep DEF Going, LeftInv
<1>4. ASSUME NEW p \in Callers, NEW v \in Outcomes, Ending(p, v)
      PROVE  (\A q \in Callers : ~Busy(q)') /\ (lost' = 0 => NoReply')
  <2>1. /\ calls' = calls /\ alone' = alone /\ outcome' = [outcome EXCEPT ![req[p]] = v]
        /\ Busy(p) /\ pc' = [pc EXCEPT ![p] = "idle"]
        /\ v \in Answered => pc[p] = "finish" /\ UNCHANGED << step, got, inbuf, ivUsed, lost >>
    BY <1>4 DEF Ending
  <2>2. req[p] = calls
    <3>1. CASE req[p] # calls
      <4>1. outcome[calls] \in Answered
        BY <1>2, <2>1, <3>1
      <4> QED
        BY <2>1, <4>1 DEF LeftInv
    <3> QED
      BY <3>1
  <2>3. v \in Answered
    BY <1>2, <2>1, <2>2
  <2>4. CourseInv(p) /\ pc[p] = "finish"
    BY <2>1, <2>2, <2>3 DEF AloneInv
  <2>5. lost' = 0 => NoReply'
    BY <1>1, <2>1, <2>3, <2>4 DEF CourseInv, CleanCourse, NoReply, Hand
  <2>6. \A q \in Callers : ~Busy(q)'
    BY <1>2, <2>1, <2>4 DEF CourseInv, AloneCourse, Busy
  <2> QED
    BY <2>5, <2>6
<1>5. ASSUME NEW p \in Callers, UnknownCommand(p) \/ \E cmd \in Commands : Call(p, cmd)
      PROVE  FALSE
  <2>1. PICK m \in Requests :
             /\ calls' = m /\ m \notin alone /\ outcome[m] = "none"
             /\ \/ UnknownCommand(p) /\ alone' = alone
                \/ outcome' = outcome
    BY <1>5, NewCall
  <2> QED
    BY <2>1 DEF Answered
<1> QED
  BY <1>3, <1>4, <1>5, LifeStep

-----------------------------------------------------------------------------
(* Theorems *)

DataPathInv == /\ IoctlInv /\ RequestsConserved /\ HandsInv /\ BuffersConserved
               /\ Records /\ LiveInv /\ AloneInv /\ DoneInv /\ LeftInv

LEMMA StutterInv == ASSUME DataPathInv, UNCHANGED vars PROVE DataPathInv'
<1>1. /\ UNCHANGED << pc, step, got, inbuf, woken, ivAvail, ivUsed, reply, read >>
      /\ UNCHANGED << ovqSize, ovAvail, ovUsed, host, pending, sessions, result >>
      /\ UNCHANGED << calls, req, request, live, answer, outcome, session, alone, lost, robbed >>
  BY DEF vars, guest, input, output, device, blocks, history
<1>2. IoctlInv' /\ RequestsConserved' /\ HandsInv'
  BY <1>1 DEF DataPathInv, IoctlInv, TypeOK, BusyInv, Busy, RequestsConserved, InFlight, HandsInv,
         Testing
<1>3. BuffersConserved'
  BY <1>1 DEF DataPathInv, BuffersConserved, Placed, Taken, InHand
<1>4. Records' /\ LiveInv' /\ DoneInv'
  BY <1>1 DEF DataPathInv, Records, LiveInv, InProgress, Leaked, Busy, DoneInv
<1>5. (NoReply <=> NoReply') /\ (OneReply <=> OneReply')
  BY <1>1 DEF NoReply, OneReply, Hand
<1>6. LeftInv'
  BY <1>1, <1>5 DEF DataPathInv, LeftInv, Busy
<1>7. ASSUME NEW p \in Callers PROVE CourseInv(p) <=> CourseInv(p)'
  <2>1. AloneCourse(p) <=> AloneCourse(p)'
    BY <1>1 DEF AloneCourse, Around, Polls, Performed, Busy
  <2>2. CleanCourse(p) <=> CleanCourse(p)'
    BY <1>1, <1>5 DEF CleanCourse
  <2> QED
    BY <1>1, <2>1, <2>2 DEF CourseInv
<1>8. AloneInv'
  BY <1>1, <1>7 DEF DataPathInv, AloneInv, Busy
<1> QED
  BY <1>2, <1>3, <1>4, <1>6, <1>8 DEF DataPathInv

\* The inductive invariant: types, requests, what a reader has in its hands, where
\* the buffers are, which blocks are allocated, where the call of a caller alone
\* is, and what it leaves.
THEOREM Invariance == Spec => []DataPathInv
<1>1. Init => DataPathInv
  <2>1. ASSUME Init PROVE RequestsConserved
    <3>1. InFlight = 0 /\ robbed = 0
      BY <2>1, EmptySeq DEF Init, InFlight
    <3>2. Polling = {}
      BY <2>1 DEF Init, Polling, Readers
    <3> QED
      BY <3>1, <3>2, FS_EmptySet DEF RequestsConserved, Polling
  <2> QED
    BY <2>1, TypeInit, InitHands, InitBuffers, InitRecords, InitLive, InitAlone DEF DataPathInv
<1>2. DataPathInv /\ [Next]_vars => DataPathInv'
  BY StutterInv, NextInv, NextRequests, NextHands, NextBuffers, NextRecords, NextLive, NextAlone,
     NextDone, NextLeft DEF DataPathInv
<1> QED
  BY <1>1, <1>2, PTL DEF Spec

\* Every variable keeps its type.
THEOREM TypeCorrect == Spec => []TypeOK
<1>1. DataPathInv => TypeOK
  BY DEF DataPathInv, IoctlInv
<1> QED
  BY <1>1, Invariance, PTL

\* send_buf, reclaim_consumed_buffers and QEMU's handler (crypto-vq.c,
\* virtio-crypto.c): a caller that polls for a completion is owed one, but for as
\* many as blocks were reclaimed.
THEOREM PollersAreOwed == Spec => []RequestsConserved
<1>1. DataPathInv => RequestsConserved
  BY DEF DataPathInv
<1> QED
  BY <1>1, Invariance, PTL

\* device_has_data, fill_readbuf and in_intr without a lock: no more buffers are
\* lost, or in two places, than stores to crdev->inbuf undid another one.
THEOREM NoBufferLost == Spec => []BuffersConserved
<1>1. DataPathInv => BuffersConserved
  BY DEF DataPathInv
<1> QED
  BY <1>1, Invariance, PTL

\* crypto_ioctl, in_intr and crypto_handle_ioctl_packet, with no lock between them: a
\* call that found the device at rest and that no other one joined returns the
\* answer to its own request, and what the real device said of it.
THEOREM AnswersAreOwn == Spec => []OwnAnswer
<1>1. DataPathInv => OwnAnswer
  BY DEF DataPathInv, DoneInv, OwnAnswer, Answered
<1> QED
  BY <1>1, Invariance, PTL

\* kzalloc and kfree in crypto_ioctl, and the replies in the input queue: a block is
\* allocated exactly while its call lasts, but for those that leak, until one is
\* reclaimed; and a call alone leaves no reply behind, until a store is lost.
THEOREM NothingStays == Spec => []NothingLeftBehind
<1>1. ASSUME DataPathInv PROVE NothingLeftBehind
  <2>1. NoReply => inbuf = NoBuffer /\ ivUsed = <<>> /\ InHand = {}
    BY DEF NoReply, Hand, InHand
  <2> QED
    BY <1>1, <2>1 DEF DataPathInv, LiveInv, LeftInv, NothingLeftBehind
<1> QED
  BY <1>1, Invariance, PTL
=============================================================================
