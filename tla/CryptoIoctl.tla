----------------------------- MODULE CryptoIoctl -----------------------------
(***************************************************************************)
(* The data path of one crypto device: ioctl in the guest                  *)
(* (guest/crypto-ioctl.c), the buffers it sends and receives               *)
(* (guest/crypto-vq.c), the interrupt that takes a reply                   *)
(* (guest/crypto-module.c), and the handler in QEMU that performs the call *)
(* on the real device (qemu/virtio-crypto.c).                              *)
(*                                                                         *)
(* No lock protects crdev->inbuf or the queues, so a step is a stretch of  *)
(* code between two accesses to them; an operation on a virtqueue is one   *)
(* step.  The handler in QEMU replies first and gives the request back     *)
(* afterwards, and the guest can act in between.                           *)
(*                                                                         *)
(* A request is its number: its cr_data, the block that kzalloc gave, is   *)
(* sent by reference, and the host writes its answer into that block as    *)
(* well as into the reply.  A reply fits its buffer, so it is read whole.  *)
(* ovq_full, which nothing reads, and the calls that fail before they      *)
(* touch a queue and leave nothing behind (ENOMEM, a bad address) are left *)
(* out.                                                                    *)
(***************************************************************************)
EXTENDS Integers, Sequences, FiniteSets, Functions

CONSTANTS Callers,       \* processes that share the open device file
          NonBlocking,   \* those whose file has O_NONBLOCK
          Signals,       \* may a signal interrupt a sleeping caller?
          Interrupt,     \* the interrupt handler of the input queue
          NumBuffers,    \* how many buffers fill_queue puts in the input queue
          OvqSizes,      \* the lengths QEMU may give the output queue, 128 in the code
          MaxCalls       \* bound: how many calls are made

ASSUME ConstantsAssumption ==
    /\ IsFiniteSet(Callers)
    /\ NonBlocking \subseteq Callers
    /\ Signals \in BOOLEAN
    /\ Interrupt \notin Callers
    /\ NumBuffers \in Nat
    /\ OvqSizes \subseteq Nat \ {0}
    /\ MaxCalls \in Nat

Readers == Callers \union {Interrupt}   \* who runs get_inbuf
Requests == 1 .. MaxCalls
Buffers == 1 .. NumBuffers
NoBuffer == 0                           \* NULL
None == 0                               \* no request, no answer, session 0

VARIABLES pc,        \* pc[r]: where r stands in ioctl, or in the interrupt
          step,      \* step[r]: where it stands in device_has_data
          got,       \* got[r]: the buffer get_inbuf found for it
          inbuf,     \* crdev->inbuf
          ivAvail, ivUsed,   \* the input queue: empty buffers, replies
          reply,     \* reply[b]: the request that buffer b last answered
          read,      \* the buffers with offset = len
          ovqSize,   \* the length of the output queue
          ovAvail, ovUsed,   \* its requests, its consumed requests
          host,      \* the request QEMU is about to give back
          pending,   \* has QEMU raised an interrupt not yet delivered?
          woken,     \* the callers woken since they prepared to sleep
          calls,     \* the number of calls made
          req,       \* req[p]: the last call of p
          request,   \* request[n]: its command and session
          live,      \* the blocks allocated and not freed
          answer,    \* answer[n]: whose answer the block of n holds
          outcome,   \* outcome[n]: what the call returned
          session,   \* session[p]: the session p was given
          sessions,  \* the sessions open in the real device
          result,    \* result[n]: what the real device said
          alone,     \* history: the calls that found the device at rest and that
                     \* no other call has joined
          lost,      \* history: how many stores to crdev->inbuf undid another one
          robbed     \* history: how many blocks were reclaimed under their senders

guest == <<pc, step, got, inbuf, woken>>
input == <<ivAvail, ivUsed, reply, read>>
output == <<ovqSize, ovAvail, ovUsed>>
device == <<host, pending, sessions, result>>
blocks == <<calls, req, request, live, answer, outcome, session>>
history == <<alone, lost, robbed>>
vars == <<guest, input, output, device, blocks, history>>

Init == /\ pc = [r \in Readers |-> "idle"]
        /\ step = [r \in Readers |-> "read"]
        /\ got = [r \in Readers |-> NoBuffer]
        /\ inbuf = NoBuffer
        /\ ivAvail = [i \in Buffers |-> i]      \* fill_queue
        /\ ivUsed = <<>>
        /\ reply = [b \in Buffers |-> None]
        /\ read = {}
        /\ ovqSize \in OvqSizes /\ ovAvail = <<>> /\ ovUsed = <<>>
        /\ host = None /\ pending = FALSE
        /\ woken = {}
        /\ calls = 0
        /\ req = [p \in Callers |-> None]
        /\ request = [n \in Requests |-> [cmd |-> "none", ses |-> None]]
        /\ live = {}
        /\ answer = [n \in Requests |-> None]
        /\ outcome = [n \in Requests |-> "none"]
        /\ session = [p \in Callers |-> None]
        /\ sessions = {}
        /\ result = [n \in Requests |-> "none"]
        /\ alone = {} /\ lost = 0 /\ robbed = 0

Goto(r, from, to) == pc[r] = from /\ pc' = [pc EXCEPT ![r] = to]

-----------------------------------------------------------------------------
(* crypto_ioctl up to the end of send_buf *)

Busy(p) == pc[p] # "idle"

\* The calls in progress.
InProgress == {req[p] : p \in {q \in Callers : Busy(q)}}

\* Nobody is in a call, and no reply is left, not even in the hands of the
\* interrupt.
AtRest == /\ \A p \in Callers : ~Busy(p)
          /\ ivUsed = <<>> /\ inbuf = NoBuffer
          /\ \A r \in Readers : got[r] = NoBuffer

\* kzalloc and copy_from_user.  A session is asked for first and used
\* afterwards.
Call(p, cmd) ==
    /\ calls < MaxCalls
    /\ cmd = "CIOCGSESSION" \/ session[p] # None
    /\ Goto(p, "idle", "reclaim")
    /\ calls' = calls + 1
    /\ req' = [req EXCEPT ![p] = calls']
    /\ request' = [request EXCEPT ![calls'] = [cmd |-> cmd, ses |-> session[p]]]
    /\ live' = live \union {calls'}
    /\ alone' = IF AtRest THEN alone \union {calls'} ELSE alone \ InProgress
    /\ UNCHANGED <<step, got, inbuf, woken, input, output, device,
                   answer, outcome, session, lost, robbed>>

\* A command ioctl does not know is refused, and the block is not freed.
UnknownCommand(p) ==
    /\ calls < MaxCalls
    /\ ~Busy(p)
    /\ calls' = calls + 1
    /\ req' = [req EXCEPT ![p] = calls']
    /\ request' = [request EXCEPT ![calls'] = [cmd |-> "unknown", ses |-> None]]
    /\ live' = live \union {calls'}
    /\ outcome' = [outcome EXCEPT ![calls'] = "EINVAL"]
    /\ UNCHANGED <<guest, input, output, device, answer, session, history>>

\* reclaim_consumed_buffers: one pass of its loop.  Whoever sent the request,
\* its block is freed, and its sender no longer finds it in the queue.
Reclaim(p) ==
    /\ pc[p] = "reclaim"
    /\ ovUsed # <<>>
    /\ live' = live \ {Head(ovUsed)}
    /\ ovUsed' = Tail(ovUsed)
    /\ robbed' = robbed + 1
    /\ UNCHANGED <<guest, input, ovqSize, ovAvail, device,
                   calls, req, request, answer, outcome, session, alone, lost>>

Reclaimed(p) ==
    /\ ovUsed = <<>>
    /\ Goto(p, "reclaim", "add")
    /\ UNCHANGED <<step, got, inbuf, woken, input, output, device, blocks, history>>

\* The requests that occupy the output queue: to be consumed, with QEMU,
\* consumed.
InFlight == Len(ovAvail) + Len(ovUsed) + (IF host = None THEN 0 ELSE 1)

AddBuffer(p) ==
    /\ InFlight < ovqSize
    /\ Goto(p, "add", "poll")
    /\ ovAvail' = Append(ovAvail, req[p])
    /\ UNCHANGED <<step, got, inbuf, woken, input, ovqSize, ovUsed, device, blocks, history>>

\* Mutant: the sender waits for the host although nothing was sent.
AddNothingAndPoll(p) ==
    /\ InFlight >= ovqSize
    /\ Goto(p, "add", "poll")
    /\ UNCHANGED <<step, got, inbuf, woken, input, output, device, blocks, history>>

\* With the queue full send_buf returns 0, which ioctl does not take for a
\* failure.
AddNothing(p) ==
    /\ InFlight >= ovqSize
    /\ Goto(p, "add", "first")
    /\ UNCHANGED <<step, got, inbuf, woken, input, output, device, blocks, history>>

\* while (!virtqueue_get_buf(ovq)): any consumed request will do.
PollSent(p) ==
    /\ ovUsed # <<>>
    /\ Goto(p, "poll", "first")
    /\ ovUsed' = Tail(ovUsed)
    /\ UNCHANGED <<step, got, inbuf, woken, input, ovqSize, ovAvail, device, blocks, history>>

-----------------------------------------------------------------------------
(* device_has_data, which the caller runs at several places *)

Testing(r) ==
    pc[r] \in {"first", "event", "wait", "last", "session", "fill", "handler"}

ReadInbuf(r) ==
    /\ Testing(r)
    /\ step[r] = "read"
    /\ got' = [got EXCEPT ![r] = inbuf]
    /\ step' = [step EXCEPT ![r] = IF inbuf # NoBuffer THEN "keep" ELSE "take"]
    /\ UNCHANGED <<pc, inbuf, woken, input, output, device, blocks, history>>

\* virtqueue_get_buf: the first reply, if there is one, to be read from its
\* start.
TakeReply(r) ==
    /\ Testing(r)
    /\ step[r] = "take"
    /\ step' = [step EXCEPT ![r] = "store"]
    /\ IF ivUsed = <<>>
       THEN UNCHANGED <<got, ivUsed, read>>
       ELSE /\ got' = [got EXCEPT ![r] = Head(ivUsed)]
            /\ ivUsed' = Tail(ivUsed)
            /\ read' = read \ {Head(ivUsed)}
    /\ UNCHANGED <<pc, inbuf, woken, ivAvail, reply, output, device, blocks, history>>

\* What crdev->inbuf held when r looked at it.
Seen(r) == IF step[r] = "keep" THEN got[r] ELSE NoBuffer

\* A store that overwrites something else than what was looked at.
Undone(r) == IF inbuf # Seen(r) THEN 1 ELSE 0

StoreInbuf(r) ==
    /\ Testing(r)
    /\ step[r] \in {"keep", "store"}
    /\ inbuf' = got[r]
    /\ step' = [step EXCEPT ![r] = "read"]
    /\ got' = [got EXCEPT ![r] = NoBuffer]

HasData(r) == got[r] # NoBuffer

\* The caller goes on once it has stored the result of its test.
Tested(p, from, to) ==
    /\ StoreInbuf(p)
    /\ Goto(p, from, to)
    /\ lost' = lost + Undone(p)
    /\ woken' = woken \ {p}
    /\ UNCHANGED <<input, output, device, blocks, alone, robbed>>

\* The call ends without a reply; its block is freed or forgotten.
GiveUp(p, from, error, freed) ==
    /\ StoreInbuf(p)
    /\ Goto(p, from, "idle")
    /\ outcome' = [outcome EXCEPT ![req[p]] = error]
    /\ live' = live \ freed
    /\ lost' = lost + Undone(p)
    /\ UNCHANGED <<woken, input, output, device, calls, req, request, answer, session,
                   alone, robbed>>

\* CIOCGSESSION alone looks once more before it reads.
Then(p) == IF request[req[p]].cmd = "CIOCGSESSION" THEN "session" ELSE "fill"

HasReply(p) == HasData(p) /\ Tested(p, "first", Then(p))
WouldBlock(p) ==
    ~HasData(p) /\ p \in NonBlocking /\ GiveUp(p, "first", "EAGAIN", {})
BeginWait(p) == ~HasData(p) /\ p \notin NonBlocking /\ Tested(p, "first", "event")

\* wait_event_interruptible tests of its own before it prepares to sleep, and
\* again once it has.
PrepareToWait(p) == ~HasData(p) /\ Tested(p, "event", "wait")
NeedNotWait(p) ==
    HasData(p) /\ \E from \in {"event", "wait", "last"} : Tested(p, from, Then(p))
GoToSleep(p) ==
    /\ ~HasData(p)
    /\ StoreInbuf(p)
    /\ Goto(p, "wait", "asleep")
    /\ lost' = lost + Undone(p)
    /\ UNCHANGED <<woken, input, output, device, blocks, alone, robbed>>
Wake(p) ==
    /\ p \in woken
    /\ Goto(p, "asleep", "wait")
    /\ woken' = woken \ {p}
    /\ UNCHANGED <<step, got, inbuf, input, output, device, blocks, history>>
Signal(p) ==
    /\ Signals
    /\ Goto(p, "asleep", "last")
    /\ UNCHANGED <<step, got, inbuf, woken, input, output, device, blocks, history>>
InterruptedWait(p) == ~HasData(p) /\ GiveUp(p, "last", "ERESTARTSYS", {req[p]})

StillThere(p) == HasData(p) /\ Tested(p, "session", "fill")
Gone(p) == ~HasData(p) /\ GiveUp(p, "session", "ENOTTY", {})

-----------------------------------------------------------------------------
(* fill_readbuf and the end of crypto_ioctl *)

\* With no data fill_readbuf returns 0, which ioctl does not look at.
NothingToCopy(p) == ~HasData(p) /\ Tested(p, "fill", "finish")
SomethingToCopy(p) == HasData(p) /\ Tested(p, "fill", "copy")

\* buf = crdev->inbuf, read once more: somebody may have cleared it.
Oops(p) ==
    /\ inbuf = NoBuffer
    /\ Goto(p, "copy", "oops")
    /\ UNCHANGED <<step, got, inbuf, woken, input, output, device, blocks, history>>

\* What has been read already is not read again.
CopyReply(p) ==
    /\ inbuf # NoBuffer
    /\ Goto(p, "copy", "requeue")
    /\ got' = [got EXCEPT ![p] = inbuf]
    /\ answer' = IF inbuf \in read THEN answer
                 ELSE [answer EXCEPT ![req[p]] = reply[inbuf]]
    /\ read' = read \union {inbuf}
    /\ UNCHANGED <<step, inbuf, woken, ivAvail, ivUsed, reply, output, device,
                   calls, req, request, live, outcome, session, history>>

\* Mutant: crdev->inbuf is queued after it was cleared.
RequeueCleared(p) ==
    /\ Goto(p, "requeue", "finish")
    /\ inbuf' = NoBuffer
    /\ got' = [got EXCEPT ![p] = NoBuffer]
    /\ ivAvail' = Append(ivAvail, inbuf')
    /\ UNCHANGED <<step, woken, ivUsed, reply, read, output, device, blocks, history>>

\* Mutant: the buffer is not given back to the host.
RequeueNothing(p) ==
    /\ Goto(p, "requeue", "finish")
    /\ inbuf' = NoBuffer
    /\ got' = [got EXCEPT ![p] = NoBuffer]
    /\ UNCHANGED <<step, woken, input, output, device, blocks, history>>

\* crdev->inbuf = NULL and add_inbuf, which fails when the queue is full.
Requeue(p) ==
    /\ Goto(p, "requeue", "finish")
    /\ inbuf' = NoBuffer
    /\ got' = [got EXCEPT ![p] = NoBuffer]
    /\ ivAvail' = IF Len(ivAvail) + Len(ivUsed) < NumBuffers
                  THEN Append(ivAvail, got[p]) ELSE ivAvail
    /\ lost' = IF inbuf # got[p] THEN lost + 1 ELSE lost
    /\ UNCHANGED <<step, woken, ivUsed, reply, read, output, device, blocks, alone, robbed>>

\* success is 1 until an answer says otherwise.
Success(p) == answer[req[p]] # None => result[answer[req[p]]] = "ok"

Returned(p, value) ==
    /\ Goto(p, "finish", "idle")
    /\ outcome' = [outcome EXCEPT ![req[p]] = value]
    /\ live' = live \ {req[p]}
    /\ UNCHANGED <<step, got, inbuf, woken, input, output, device,
                   calls, req, request, answer, history>>

\* Mutant: a failed call returns without freeing its block.
FailsLeaking(p) ==
    /\ Goto(p, "finish", "idle")
    /\ ~Success(p)
    /\ outcome' = [outcome EXCEPT ![req[p]] = "EINVAL"]
    /\ UNCHANGED <<step, got, inbuf, woken, input, output, device,
                   calls, req, request, live, answer, session, history>>

Fails(p) == Returned(p, "EINVAL") /\ ~Success(p) /\ UNCHANGED session
CannotCopyOut(p) == Returned(p, "EFAULT") /\ Success(p) /\ UNCHANGED session
Succeeds(p) ==
    /\ Returned(p, "OK")
    /\ Success(p)
    /\ session' = IF request[req[p]].cmd = "CIOCGSESSION"
                  THEN [session EXCEPT ![p] = answer[req[p]]] ELSE session

-----------------------------------------------------------------------------
(* in_intr.  vring_interrupt calls it only if the queue has a reply. *)

BeginInterrupt ==
    /\ pending
    /\ pending' = FALSE
    /\ pc[Interrupt] = "idle"
    /\ IF ivUsed # <<>> THEN Goto(Interrupt, "idle", "handler") ELSE UNCHANGED pc
    /\ UNCHANGED <<step, got, inbuf, woken, input, output, host, sessions, result,
                   blocks, history>>

\* Mutant: nobody is woken.
EndInterruptQuietly ==
    /\ StoreInbuf(Interrupt)
    /\ Goto(Interrupt, "handler", "idle")
    /\ lost' = lost + Undone(Interrupt)
    /\ UNCHANGED <<woken, input, output, device, blocks, alone, robbed>>

\* The end of in_intr: crdev->inbuf is stored and every sleeper is woken.
EndInterrupt ==
    /\ StoreInbuf(Interrupt)
    /\ Goto(Interrupt, "handler", "idle")
    /\ lost' = lost + Undone(Interrupt)
    /\ woken' = woken \union {p \in Callers : pc[p] \in {"wait", "asleep"}}
    /\ UNCHANGED <<input, output, device, blocks, alone, robbed>>

-----------------------------------------------------------------------------
(* QEMU: handle_output, crypto_handle_ioctl_packet and send_buffer *)

\* The session the call is about: CIOCFSESSION takes it from a member of the
\* union that the guest has left zero.
SessionOf(n) == IF request[n].cmd = "CIOCFSESSION" THEN None ELSE request[n].ses

\* The real device, which finishes any session that is open.
Answers(n) ==
    CASE request[n].cmd = "CIOCGSESSION" -> {"ok", "failed"}
      [] SessionOf(n) \notin sessions -> {"failed"}
      [] request[n].cmd = "CIOCCRYPT" -> {"ok", "failed"}
      [] OTHER -> {"ok"}

SessionsAfter(n, ok) ==
    IF ok = "failed" THEN sessions
    ELSE CASE request[n].cmd = "CIOCGSESSION" -> sessions \union {n}
           [] request[n].cmd = "CIOCFSESSION" -> sessions \ {SessionOf(n)}
           [] OTHER -> sessions

\* Mutant: the buffer is pushed before it is written.
SendBufferEmpty(n) ==
    IF ivAvail = <<>>
    THEN UNCHANGED <<ivAvail, ivUsed, reply, pending>>
    ELSE /\ ivUsed' = Append(ivUsed, Head(ivAvail))
         /\ ivAvail' = Tail(ivAvail)
         /\ pending' = TRUE
         /\ UNCHANGED reply

\* send_buffer: without a buffer of the guest there is no reply.
SendBuffer(n) ==
    IF ivAvail = <<>>
    THEN UNCHANGED <<ivAvail, ivUsed, reply, pending>>
    ELSE /\ reply' = [reply EXCEPT ![Head(ivAvail)] = n]
         /\ ivUsed' = Append(ivUsed, Head(ivAvail))
         /\ ivAvail' = Tail(ivAvail)
         /\ pending' = TRUE

\* The call is performed on the block of the guest, which holds the answer
\* from then on, and the reply is sent.
HandleOutput ==
    /\ host = None
    /\ ovAvail # <<>>
    /\ LET n == Head(ovAvail) IN
       /\ host' = n
       /\ ovAvail' = Tail(ovAvail)
       /\ \E ok \in Answers(n) :
             /\ result' = [result EXCEPT ![n] = ok]
             /\ sessions' = SessionsAfter(n, ok)
       /\ answer' = IF n \in live THEN [answer EXCEPT ![n] = n] ELSE answer
       /\ SendBuffer(n)
    /\ UNCHANGED <<guest, read, ovqSize, ovUsed, calls, req, request, live, outcome,
                   session, history>>

\* A block that has been freed may hold anything: a command QEMU does not know
\* gets no reply.
HandleGarbage ==
    /\ host = None
    /\ ovAvail # <<>>
    /\ Head(ovAvail) \notin live
    /\ host' = Head(ovAvail)
    /\ ovAvail' = Tail(ovAvail)
    /\ UNCHANGED <<guest, input, ovqSize, ovUsed, pending, sessions, result, blocks, history>>

GiveBack ==
    /\ host # None
    /\ host' = None
    /\ ovUsed' = Append(ovUsed, host)
    /\ UNCHANGED <<guest, input, ovqSize, ovAvail, pending, sessions, result, blocks, history>>

-----------------------------------------------------------------------------
Commands == {"CIOCGSESSION", "CIOCCRYPT", "CIOCFSESSION"}

Test(p) == \/ ReadInbuf(p) \/ TakeReply(p)
           \/ HasReply(p) \/ WouldBlock(p) \/ BeginWait(p)
           \/ PrepareToWait(p) \/ NeedNotWait(p) \/ GoToSleep(p) \/ InterruptedWait(p)
           \/ StillThere(p) \/ Gone(p)
           \/ NothingToCopy(p) \/ SomethingToCopy(p)

\* What a caller does once it has begun.
Continue(p) == \/ Reclaim(p) \/ Reclaimed(p) \/ AddBuffer(p) \/ AddNothing(p)
               \/ PollSent(p) \/ Test(p) \/ Wake(p)
               \/ Oops(p) \/ CopyReply(p) \/ Requeue(p)
               \/ Fails(p) \/ CannotCopyOut(p) \/ Succeeds(p)

InIntr == BeginInterrupt \/ ReadInbuf(Interrupt) \/ TakeReply(Interrupt) \/ EndInterrupt

Host == HandleOutput \/ HandleGarbage \/ GiveBack

Next == \/ \E p \in Callers : \/ \E cmd \in Commands : Call(p, cmd)
                              \/ UnknownCommand(p)
                              \/ Continue(p)
                              \/ Signal(p)
        \/ InIntr
        \/ Host

\* A caller that has begun is scheduled; neither the interrupt nor QEMU is put
\* off for ever.
Fairness == /\ \A p \in Callers : WF_vars(Continue(p))
            /\ WF_vars(InIntr) /\ WF_vars(Host)

Spec == Init /\ [][Next]_vars /\ Fairness

-----------------------------------------------------------------------------
(* Properties *)

Places == {"idle", "reclaim", "add", "poll", "first", "event", "wait", "asleep",
           "last", "session", "fill", "copy", "requeue", "finish", "oops"}
Outcomes == {"none", "OK", "EINVAL", "EFAULT", "EAGAIN", "ERESTARTSYS", "ENOTTY"}
Answered == {"OK", "EINVAL", "EFAULT"}    \* the outcomes of a call that waited for its reply

\* Every variable has its type.
TypeOK ==
    /\ pc \in [Readers -> Places \union {"handler"}]
    /\ step \in [Readers -> {"read", "take", "keep", "store"}]
    /\ got \in [Readers -> Buffers \union {NoBuffer}]
    /\ inbuf \in Buffers \union {NoBuffer}
    /\ ivAvail \in Seq(Buffers) /\ ivUsed \in Seq(Buffers)
    /\ reply \in [Buffers -> Requests \union {None}]
    /\ read \subseteq Buffers
    /\ ovqSize \in OvqSizes
    /\ ovAvail \in Seq(Requests) /\ ovUsed \in Seq(Requests)
    /\ host \in Requests \union {None}
    /\ pending \in BOOLEAN
    /\ woken \subseteq Callers
    /\ calls \in 0 .. MaxCalls
    /\ req \in [Callers -> Requests \union {None}]
    /\ request \in [Requests -> [cmd : Commands \union {"none", "unknown"}, ses : Requests \union {None}]]
    /\ live \subseteq Requests
    /\ answer \in [Requests -> Requests \union {None}]
    /\ outcome \in [Requests -> Outcomes]
    /\ session \in [Callers -> Requests \union {None}]
    /\ sessions \subseteq Requests
    /\ result \in [Requests -> {"none", "ok", "failed"}]
    /\ alone \subseteq Requests /\ lost \in Nat /\ robbed \in Nat

\* A call that found the device at rest and had it for itself returns the
\* answer to its own request, and succeeds only if the real device did: whatever
\* went wrong before, and however the interrupt runs beside it.
OwnAnswer ==
    \A n \in alone :
        /\ outcome[n] \in Answered => answer[n] = n
        /\ outcome[n] = "OK" => result[n] = "ok"
        /\ outcome[n] = "EINVAL" => result[n] = "failed"

\* For each caller that polls there is one request on its way through the output
\* queue, but for those reclaimed: taking the completion of somebody else leaves
\* nobody to poll for ever, and each block that reclaim_consumed_buffers finds
\* to free leaves one who does.
RequestsConserved ==
    InFlight + robbed = Cardinality({p \in Callers : pc[p] = "poll"})

\* The buffers of the input queue, empty or filled in the queue, on their way from
\* it, or in crdev->inbuf; and how many such places there are.
InHand == {r \in Readers : step[r] = "store" /\ got[r] # NoBuffer}
Placed == Range(ivAvail) \union Range(ivUsed) \union {got[r] : r \in InHand}
              \union ({inbuf} \ {NoBuffer})
Taken == Len(ivAvail) + Len(ivUsed) + Cardinality(InHand)
             + (IF inbuf = NoBuffer THEN 0 ELSE 1)

\* A buffer leaks, or is in two places at once, only by a store to crdev->inbuf
\* that undid another one, and each such store does at most one of the two.
BuffersConserved ==
    /\ Cardinality(Buffers \ Placed) <= lost
    /\ Taken + Cardinality(Buffers \ Placed) <= NumBuffers + lost

\* The blocks nobody will free: of unknown commands, and of calls that left
\* without a reply.
Leaked == {n \in Requests : request[n].cmd = "unknown" \/ outcome[n] \in {"EAGAIN", "ENOTTY"}}

\* Unless one is reclaimed, a block is allocated exactly while its call lasts, or
\* for ever.  A call alone that gets its reply leaves no reply to the next one,
\* as long as no store to crdev->inbuf was lost.
NothingLeftBehind ==
    /\ robbed = 0 => live = InProgress \union Leaked
    /\ lost = 0 /\ calls \in alone /\ outcome[calls] \in Answered
           => inbuf = NoBuffer /\ ivUsed = <<>> /\ InHand = {}

\* test_crypto.c:122 finishes its session and takes a failure for a failed
\* test: a session that is open in the real device can be finished.
OpenSessionCanBeFinished ==
    \A n \in Requests :
        request[n].cmd = "CIOCFSESSION" /\ outcome[n] = "EINVAL"
            => request[n].ses \notin sessions

\* A call alone returns, unless a store to crdev->inbuf was lost.
CallReturns ==
    InProgress \intersect alone # {} ~> InProgress \intersect alone = {} \/ lost > 0
=============================================================================
