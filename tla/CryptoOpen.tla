------------------------------ MODULE CryptoOpen ------------------------------
(***************************************************************************)
(* The control path of the crypto devices: open and release of a guest     *)
(* device file (guest/crypto-chrdev.c), the control messages they send     *)
(* (guest/crypto-vq.c), the interrupt that takes the answers               *)
(* (guest/crypto-module.c), and the virtual device in QEMU, which opens    *)
(* and closes a descriptor of its own process (qemu/virtio-crypto.c).      *)
(*                                                                         *)
(* A step is a stretch of code between two accesses to what others share:  *)
(* crdev->fd of the guest, and the two control queues.  The handler in     *)
(* QEMU runs under its global lock and is one step.                        *)
(*                                                                         *)
(* A control message lives on the stack of its sender, which polls the     *)
(* queue for any consumed message and then returns: a message whose sender *)
(* has left by taking the completion of another one is garbage, and the    *)
(* host may read anything in it.                                           *)
(***************************************************************************)
EXTENDS Integers, Sequences, FiniteSets

CONSTANTS Openers,       \* processes of the guest that open crypto devices
          Devices,       \* crypto devices, one per virtual device in QEMU
          Dev,           \* Dev[p]: the device that p opens
          NonBlocking,   \* the openers that pass O_NONBLOCK
          Signals,       \* may a signal interrupt a sleeping opener?
          HostFds,       \* the descriptors QEMU has for the devices
          NoDevice,
          CtlQueueSize   \* the length of a control queue, 32 in the code

\* The largest descriptor an answer can hold: struct virtio_crypto_control has a
\* short for it.
MaxShort == 32767

ASSUME ConstantsAssumption ==
    /\ IsFiniteSet(Openers)
    /\ Dev \in [Openers -> Devices]
    /\ NonBlocking \subseteq Openers
    /\ Signals \in BOOLEAN
    /\ HostFds \subseteq 0 .. MaxShort
    /\ NoDevice \notin Devices
    /\ CtlQueueSize \in Nat \ {0}

VARIABLES fd,         \* fd[d]: crdev->fd in the guest
          pc,         \* pc[p]: where p stands in open or release
          ret,        \* ret[p]: what its last open returned
          c_ovq,      \* c_ovq[d]: control messages the host has not consumed
          consumed,   \* consumed[d]: messages consumed, not yet taken by a poll
          c_ivq,      \* c_ivq[d]: answers the interrupt has not handled
          dropped,    \* history: has an answer been lost for want of a buffer?
          hostFd,     \* hostFd[d]: crdev->fd in QEMU
          hostFiles   \* hostFiles[f]: the device that has descriptor f open

vars == <<fd, pc, ret, c_ovq, consumed, c_ivq, dropped, hostFd, hostFiles>>

NotTried == -13     \* the value of probe, of open and of release
Failed == -1        \* what a failed open gives the host
Close == 0
Open == 1
Other == 2          \* an event the host ignores
Garbage == 3        \* what is left of a message whose sender has returned

Init == /\ fd = [d \in Devices |-> NotTried]
        /\ pc = [p \in Openers |-> "idle"]
        /\ ret = [p \in Openers |-> "none"]
        /\ c_ovq = [d \in Devices |-> <<>>]
        /\ consumed = [d \in Devices |-> 0]
        /\ c_ivq = [d \in Devices |-> <<>>]
        /\ dropped = [d \in Devices |-> FALSE]
        /\ hostFd = [d \in Devices |-> NotTried]
        /\ hostFiles = [f \in HostFds |-> NoDevice]

Goto(p, from, to) == pc[p] = from /\ pc' = [pc EXCEPT ![p] = to]

\* Leave open with a value, which is an errno or success.
Return(p, from, to, r) == Goto(p, from, to) /\ ret' = [ret EXCEPT ![p] = r]

host == <<hostFd, hostFiles>>
queues == <<c_ovq, consumed, c_ivq, dropped>>

-----------------------------------------------------------------------------
(* crypto_chrdev_open *)

\* The look at crdev->fd that is to keep a second process out.
Refused(p) ==
    /\ fd[Dev[p]] >= 0
    /\ Return(p, "idle", "idle", "EMFILE")
    /\ UNCHANGED <<fd, queues, host>>

Admitted(p) ==
    /\ fd[Dev[p]] < 0
    /\ Goto(p, "idle", "claim")
    /\ UNCHANGED <<fd, ret, queues, host>>

\* Mutant: the old descriptor stays in crdev->fd.
ClaimWithoutReset(p) ==
    /\ Goto(p, "claim", "ask")
    /\ UNCHANGED <<fd, ret, queues, host>>

\* crdev->fd = -13
Claim(p) ==
    /\ Goto(p, "claim", "ask")
    /\ fd' = [fd EXCEPT ![Dev[p]] = NotTried]
    /\ UNCHANGED <<ret, queues, host>>

\* The sender's part of send_control_msg.  With the ring full nothing is sent
\* and nothing is waited for.
RoomToSend(d) == Len(c_ovq[d]) + consumed[d] < CtlQueueSize

Send(p, from, polling, value) ==
    /\ RoomToSend(Dev[p])
    /\ Goto(p, from, polling)
    /\ c_ovq' = [c_ovq EXCEPT ![Dev[p]] = Append(@, [from |-> p, value |-> value])]
    /\ UNCHANGED <<fd, ret, consumed, c_ivq, dropped, host>>

SendNothing(p, from, after) ==
    /\ ~RoomToSend(Dev[p])
    /\ Goto(p, from, after)
    /\ UNCHANGED <<fd, ret, queues, host>>

\* What becomes of the messages of p when it returns.
Abandon(p, q) ==
    [i \in DOMAIN q |-> IF q[i].from = p THEN [from |-> p, value |-> Garbage] ELSE q[i]]

\* Mutant: the sender does not wait for the host.
NoPoll(p, polling, after) ==
    /\ Goto(p, polling, after)
    /\ c_ovq' = [c_ovq EXCEPT ![Dev[p]] = Abandon(p, @)]
    /\ UNCHANGED <<fd, ret, consumed, c_ivq, dropped, host>>

\* Mutant: NULL is taken for a message.
PollBlindly(p, polling, after) ==
    /\ Goto(p, polling, after)
    /\ consumed' = [consumed EXCEPT ![Dev[p]] = @ - 1]
    /\ c_ovq' = [c_ovq EXCEPT ![Dev[p]] = Abandon(p, @)]
    /\ UNCHANGED <<fd, ret, c_ivq, dropped, host>>

\* while (!virtqueue_get_buf(c_ovq)): any consumed message will do.
Poll(p, polling, after) ==
    /\ consumed[Dev[p]] > 0
    /\ Goto(p, polling, after)
    /\ consumed' = [consumed EXCEPT ![Dev[p]] = @ - 1]
    /\ c_ovq' = [c_ovq EXCEPT ![Dev[p]] = Abandon(p, @)]
    /\ UNCHANGED <<fd, ret, c_ivq, dropped, host>>

SendOpen(p) == Send(p, "ask", "pollOpen", Open)
SendNoOpen(p) == SendNothing(p, "ask", "test")
PollOpen(p) == Poll(p, "pollOpen", "test")

\* Mutant: the failure of the host is not an answer.
ReadyOnDescriptor(d) == fd[d] >= 0

\* crypto_device_ready: a descriptor, or the failure of the host.
Ready(d) == fd[d] >= -1

FoundReady(p) ==
    /\ Ready(Dev[p])
    /\ Goto(p, "test", "look")
    /\ UNCHANGED <<fd, ret, queues, host>>

WouldBlock(p) ==
    /\ ~Ready(Dev[p])
    /\ p \in NonBlocking
    /\ Return(p, "test", "idle", "EAGAIN")
    /\ UNCHANGED <<fd, queues, host>>

Sleep(p) ==
    /\ ~Ready(Dev[p])
    /\ p \notin NonBlocking
    /\ Goto(p, "test", "asleep")
    /\ UNCHANGED <<fd, ret, queues, host>>

\* Only the interrupt makes the device ready, and it wakes every sleeper, who
\* tests again: a sleeper leaves when it is scheduled while the device is ready.
Wake(p) ==
    /\ Ready(Dev[p])
    /\ Goto(p, "asleep", "look")
    /\ UNCHANGED <<fd, ret, queues, host>>

\* A signal ends wait_event_interruptible; open does not look at its result.
Interrupted(p) ==
    /\ Signals
    /\ Goto(p, "asleep", "look")
    /\ UNCHANGED <<fd, ret, queues, host>>

OpenFails(p) ==
    /\ fd[Dev[p]] < 0
    /\ Return(p, "look", "idle", "ENODEV")
    /\ UNCHANGED <<fd, queues, host>>

OpenSucceeds(p) ==
    /\ fd[Dev[p]] >= 0
    /\ Return(p, "look", "opened", "OK")
    /\ UNCHANGED <<fd, queues, host>>

-----------------------------------------------------------------------------
(* crypto_chrdev_release *)

SendClose(p) == Send(p, "opened", "pollClose", Close)
SendNoClose(p) == SendNothing(p, "opened", "clear")
PollClose(p) == Poll(p, "pollClose", "clear")

\* Mutant: crdev->fd is left alone.
ReleaseWithoutReset(p) ==
    /\ Goto(p, "clear", "idle")
    /\ UNCHANGED <<fd, ret, queues, host>>

Clear(p) ==
    /\ Goto(p, "clear", "idle")
    /\ fd' = [fd EXCEPT ![Dev[p]] = NotTried]
    /\ UNCHANGED <<ret, queues, host>>

-----------------------------------------------------------------------------
(* The interrupt and the host. *)

\* Mutant: the answer is read as an unsigned short.
ControlInIntrUnsigned(d) ==
    /\ c_ivq[d] # <<>>
    /\ fd' = [fd EXCEPT ![d] = Head(c_ivq[d]) % 65536]
    /\ c_ivq' = [c_ivq EXCEPT ![d] = Tail(@)]
    /\ UNCHANGED <<pc, ret, c_ovq, consumed, dropped, host>>

\* control_in_intr: one pass of its loop, with handle_control_message.
ControlInIntr(d) ==
    /\ c_ivq[d] # <<>>
    /\ fd' = [fd EXCEPT ![d] = Head(c_ivq[d])]
    /\ c_ivq' = [c_ivq EXCEPT ![d] = Tail(@)]
    /\ UNCHANGED <<pc, ret, c_ovq, consumed, dropped, host>>

\* Mutant: only a descriptor is announced.
AnswerDescriptor(d, value) ==
    IF value >= 0 /\ Len(c_ivq[d]) < CtlQueueSize
    THEN /\ c_ivq' = [c_ivq EXCEPT ![d] = Append(@, value)]
         /\ UNCHANGED dropped
    ELSE UNCHANGED <<c_ivq, dropped>>

\* send_control_event: without a free buffer of the guest the answer is lost.
Answer(d, value) ==
    IF Len(c_ivq[d]) < CtlQueueSize
    THEN /\ c_ivq' = [c_ivq EXCEPT ![d] = Append(@, value)]
         /\ UNCHANGED dropped
    ELSE /\ dropped' = [dropped EXCEPT ![d] = TRUE]
         /\ UNCHANGED c_ivq

\* Mutant: a failure leaves crdev->fd alone, and the old value is announced.
HostOpensOrKeeps(d) ==
    \/ \E f \in HostFds :
          /\ hostFiles[f] = NoDevice
          /\ hostFiles' = [hostFiles EXCEPT ![f] = d]
          /\ hostFd' = [hostFd EXCEPT ![d] = f]
          /\ Answer(d, f)
    \/ Answer(d, hostFd[d]) /\ UNCHANGED <<hostFd, hostFiles>>

\* open("/dev/crypto") gives an unused descriptor or fails; crdev->fd forgets
\* what it held.
HostOpens(d) ==
    \/ \E f \in HostFds :
          /\ hostFiles[f] = NoDevice
          /\ hostFiles' = [hostFiles EXCEPT ![f] = d]
          /\ hostFd' = [hostFd EXCEPT ![d] = f]
          /\ Answer(d, f)
    \/ /\ hostFd' = [hostFd EXCEPT ![d] = Failed]
       /\ Answer(d, Failed)
       /\ UNCHANGED hostFiles

\* Mutant: nothing is closed.
HostClosesNothing(d) == UNCHANGED <<hostFd, hostFiles, c_ivq, dropped>>

\* close(crdev->fd), whoever has that descriptor by now; crdev->fd keeps it.
HostCloses(d) ==
    /\ hostFiles' = [f \in HostFds |-> IF f = hostFd[d] THEN NoDevice ELSE hostFiles[f]]
    /\ UNCHANGED <<hostFd, c_ivq, dropped>>

Contents(value) == IF value = Garbage THEN {Close, Open, Other} ELSE {value}

\* Mutant: the message is not given back to the guest.
ControlOutKeeps(d) ==
    /\ c_ovq[d] # <<>>
    /\ \E v \in Contents(Head(c_ovq[d]).value) :
          \/ v = Open /\ HostOpens(d)
          \/ v = Close /\ HostCloses(d)
          \/ v = Other /\ UNCHANGED <<hostFd, hostFiles, c_ivq, dropped>>
    /\ c_ovq' = [c_ovq EXCEPT ![d] = Tail(@)]
    /\ UNCHANGED <<fd, pc, ret, consumed>>

\* control_out, for one message.
ControlOut(d) ==
    /\ c_ovq[d] # <<>>
    /\ \E v \in Contents(Head(c_ovq[d]).value) :
          \/ v = Open /\ HostOpens(d)
          \/ v = Close /\ HostCloses(d)
          \/ v = Other /\ UNCHANGED <<hostFd, hostFiles, c_ivq, dropped>>
    /\ c_ovq' = [c_ovq EXCEPT ![d] = Tail(@)]
    /\ consumed' = [consumed EXCEPT ![d] = @ + 1]
    /\ UNCHANGED <<fd, pc, ret>>

-----------------------------------------------------------------------------
\* The steps of open after the check, and those of release after it is called:
\* what a process does once it has begun.
Continue(p) == \/ Claim(p) \/ SendOpen(p) \/ SendNoOpen(p) \/ PollOpen(p)
               \/ FoundReady(p) \/ WouldBlock(p) \/ Sleep(p) \/ Wake(p)
               \/ OpenFails(p) \/ OpenSucceeds(p)
               \/ PollClose(p) \/ Clear(p)

Begin(p) == Refused(p) \/ Admitted(p) \/ SendClose(p) \/ SendNoClose(p)

Next == \/ \E p \in Openers : Begin(p) \/ Continue(p) \/ Interrupted(p)
        \/ \E d \in Devices : ControlInIntr(d) \/ ControlOut(d)

\* A process that has begun is scheduled, and neither QEMU nor the interrupt
\* is put off for ever.  Nobody is obliged to open or to close.
Fairness == /\ \A p \in Openers : WF_vars(Continue(p))
            /\ \A d \in Devices : WF_vars(ControlInIntr(d)) /\ WF_vars(ControlOut(d))

Spec == Init /\ [][Next]_vars /\ Fairness

-----------------------------------------------------------------------------
(* Properties *)

Places == {"idle", "claim", "ask", "pollOpen", "test", "asleep", "look",
           "opened", "pollClose", "clear"}
Replies == HostFds \union {Failed}
Messages == [from : Openers, value : {Close, Open, Garbage}]

\* Every variable has its type.
TypeOK == /\ fd \in [Devices -> Replies \union {NotTried}]
          /\ pc \in [Openers -> Places]
          /\ ret \in [Openers -> {"none", "OK", "EMFILE", "EAGAIN", "ENODEV"}]
          /\ c_ovq \in [Devices -> Seq(Messages)]
          /\ consumed \in [Devices -> Nat]
          /\ c_ivq \in [Devices -> Seq(Replies)]
          /\ dropped \in [Devices -> BOOLEAN]
          /\ hostFd \in [Devices -> Replies \union {NotTried}]
          /\ hostFiles \in [HostFds -> Devices \union {NoDevice}]

Polling(d) == {p \in Openers : Dev[p] = d /\ pc[p] \in {"pollOpen", "pollClose"}}

\* Whatever the openers of a device do, there is exactly one message, consumed
\* or still to be consumed, for each process that polls for one: taking the
\* completion of somebody else never leaves the other to spin for ever.
MessagesConserved == \A d \in Devices : Len(c_ovq[d]) + consumed[d] = Cardinality(Polling(d))

\* Whatever the openers of a device do, once all answers are handled the guest
\* either believes that nothing was tried, or has the very descriptor (or
\* failure) that the host has: answers are never applied out of order.
DescriptorAgrees ==
    \A d \in Devices : ~dropped[d] =>
        IF c_ivq[d] = <<>> THEN fd[d] \in {NotTried, hostFd[d]}
        ELSE c_ivq[d][Len(c_ivq[d])] = hostFd[d]

\* Who has a file of the device open.
Holders(d) == {p \in Openers : Dev[p] = d /\ pc[p] = "opened"}

\* "Only one process can open a specific device at a time"
\* (crypto-chrdev.c:84): not so when two opens overlap.
OneOwner == \A d \in Devices : Cardinality(Holders(d)) <= 1

\* The following hold when each device has one opener, who does not pass
\* O_NONBLOCK and is not interrupted.

\* A process that has the device open has a descriptor of the host behind it,
\* and it is the device's own: no other device's release has closed it.
OwnerHasDescriptor ==
    \A p \in Openers : pc[p] = "opened" =>
        /\ fd[Dev[p]] = hostFd[Dev[p]]
        /\ hostFd[Dev[p]] \in HostFds
        /\ hostFiles[hostFd[Dev[p]]] = Dev[p]

\* A device that nobody uses can be opened again, and has nothing open in QEMU.
AvailableWhenFree ==
    \A p \in Openers : pc[p] = "idle" =>
        /\ fd[Dev[p]] < 0
        /\ \A f \in HostFds : hostFiles[f] # Dev[p]

\* open fails only when the host could not open its device.
RefusalMeansHostFailure ==
    \A p \in Openers : pc[p] = "idle" /\ ret[p] \notin {"none", "OK"} =>
        ret[p] = "ENODEV" /\ hostFd[Dev[p]] = Failed

\* The host never reads a message whose sender has returned.
MessagesOutliveUse ==
    \A d \in Devices : \A i \in DOMAIN c_ovq[d] : c_ovq[d][i].value # Garbage

\* An open that passed the check comes to an end.
OpenReturns == \A p \in Openers : pc[p] = "claim" ~> pc[p] \in {"idle", "opened"}
=============================================================================
