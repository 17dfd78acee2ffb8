# A verification project for NTUA-OSLab

The repository holds the laboratory work of an operating-systems course. Two
parts are systems in their own right: **Lunix:TNG** (`Lab1/lunix-tng`), a Linux
driver that turns the serial stream of a wireless sensor network into character
devices, and a **paravirtual crypto device** (`Lab2`), a guest driver and a QEMU
device with an encrypted chat program on top. `Lab3` is a set of independent
exercise programs.

This directory specifies them in TLA+, checks small instances with TLC and
proves the main results for every instance with TLAPS.

    tlc -config ChrdevShared.cfg MCLunixChrdev      # any .cfg, with its MC module
    tlapm LunixChrdevProofs.tla                     # any *Proofs.tla

## 1. Inventory

### Lunix:TNG (`Lab1/lunix-tng`)

The serial port delivers bytes to the line discipline; the line discipline hands
each buffer to the parser; the parser calls `lunix_sensor_update` once per sensor
packet; that writes the pages of the sensor under its spinlock and wakes the
readers; a reader in `lunix_chrdev_read` copies a page under the spinlock and
formats it into the private state of its open file under a semaphore.

| component | state | operations | what is hard | what makes it correct |
|---|---|---|---|---|
| sensor buffers, `lunix-sensors.c` | three pages per sensor (raw value, timestamp), a spinlock, a wait queue | `lunix_sensor_update`, init, destroy | one writer against any number of readers; a timestamp in whole seconds stands for a version | value and timestamp are read as one; a wake-up follows every update |
| character device, `lunix-chrdev.c` | per open file: cached text, its length and timestamp, display mode, semaphore; `f_pos` in `struct file` | open, release, ioctl, read | semaphore dropped and retaken around the wait, two unlocked looks at `last_update`, five exits, open files inherited through `fork`, `f_pos` outside the semaphore | the semaphore is a lock; texts are whole and never go back; no wake-up is lost; a read stays within the text |
| parser, `lunix-protocol.c` | state 1..9, bytes read and wanted, `pos`, pending escape, `packet[]` | `lunix_protocol_received_buf` | a call may end at any byte; overflow and debug exits leave in the middle; one packet per call | fields stay aligned; stores stay inside `packet[]`; every report reaches its sensor |
| line discipline, `lunix-ldisc.c` | one availability counter | init, destroy, open, close, receive | one TTY at a time; the parser keeps its place through a close | one line at most; the parser gets back into step |
| module, `lunix-module.c` | the array of sensors, what is registered | init, cleanup | failure part-way, and the discipline already in use by then | whoever reaches a sensor finds its pages; what was acquired is released |
| attach helper, `lunix-attach.c` | lock file, saved terminal settings, discipline | lock, open, close, signals | two helpers at once; stale lock files; a helper killed at any step | one owner of the port; who has given the port its discipline keeps it until restoring |
| `mk_lookup_tables.c`, generated `lunix-lookup.h`, `testMultipleRead.c`, scripts | none | none | none | tables and a test program |

### The crypto device and the chat (`Lab2`)

| component | state | operations | what is hard | what makes it correct |
|---|---|---|---|---|
| guest driver, control path: `crypto-chrdev.c`, `crypto-module.c` | per device: host descriptor, wait queue, control queues | open, release, probe, remove, control interrupt | open checks and sends without a lock, waits for the answer, can be interrupted | one opener; descriptors are closed |
| guest driver, data path: `crypto-ioctl.c`, `crypto-vq.c` | input and output virtqueue, the input buffer | ioctl, send, fill, reclaim, interrupt | "some reply is here" stands for "my reply is here"; buffers reclaimed by whoever comes | each caller gets its own answer; no buffer is used after it is freed |
| QEMU device, `virtio-crypto.c` | host descriptor | control and data output handlers | requests through a union; answers when the guest may have gone | one answer per request, made from the fields the guest filled |
| chat server, `server.c`, `server_ops.c` | list of clients, descriptor set | accept, relay, remove | the list is changed while it is walked; one client's error | a message reaches all others; one client cannot end the server |
| chat client, `client.c`, `io_ops.c`, `chat.c` | socket, session | connect, encrypt and send, receive | `select` and its time budget; search for a free device | both directions keep moving |

### How far each part is modelled

`PROJECT.json` lists every component with its status, and under "hazards" what
in this code is hard to test, at its line. In short: the sensor buffers, the
character device, the parser, the line discipline, the module, the attach helper
and the QEMU device are modelled with every operation that changes state. The
guest crypto driver and the chat are modelled in part; what is missing stands
under "Not modelled" at the end.

## 2. Modules

| module | what it is |
|---|---|
| `MeasurementFeed` | abstract: what the character device promises |
| `LunixChrdev` | sensor buffers and character device, updater against readers |
| `LunixChrdevProofs` | invariants, action property and refinement of `LunixChrdev`; the file position of files that are not inherited |
| `LunixProtocol` | the parser, one pass of its loop per step |
| `LunixProtocolProofs` | its invariants |
| `SensorLine` | extends `LunixProtocol` by the network, a line that loses bytes, the tty layer and the closing and opening of the line discipline |
| `SensorLineProofs` | parser and line in step: for any frames, escaping, cuts and faults |
| `LunixModule` | loading and unloading, line discipline and device files as others use them; also the abstract view of `LunixAttach` |
| `LunixAttach` | extends `LunixModule` by the helpers and the lock files they share |
| `LunixAttachProofs` | invariants of both, and the refinement |
| `CryptoOpen` | open and release of the crypto device: guest, control queues, interrupt and QEMU |
| `CryptoOpenProofs`, `CryptoOwnerProofs` | for any number of openers of a device; for a device that one process has for itself |
| `CryptoIoctl` | ioctl of the crypto device: callers, data queues, interrupt, QEMU and the real device |
| `CryptoIoctlProofs` | its invariants; the course of a call that has the device for itself |
| `ChatServer` | chat server, clients and the sockets between them |
| `ChatServerProofs` | its invariants, for any number of clients |
| `MC...` | values of the constants for TLC |

Operators whose comment begins with "Mutant:" are not part of any
specification. Each is the definition that follows it with a plausible mistake;
putting it in the place of that definition makes the property named beside it in
`PROJECT.json` fail, which shows that the property can fail.

### `LunixChrdev`

One updater (the tty layer does not re-enter `receive_buf`, lunix-ldisc.c:62, and
only one TTY can be attached) and a set of processes. A step is a stretch of code
between two points where another actor can be seen: taking or releasing the
spinlock or the semaphore, joining or leaving the wait queue, each unlocked look
at `last_update`, and the load and store of the file position.

| TLA+ | code |
|---|---|
| `msr[s]`, `spin[s]`, `wq[s]` | `msr_data[]`, `lock`, `wq` of a sensor; `id` numbers its measurements (history) |
| `BeginUpdate`, `StampUpdate`, `EndUpdate`, `WakeSleepers` | `lunix_sensor_update` |
| `chr[f]`, `sem[f]` | `struct lunix_chrdev_state_struct`; `buf_data` is the number of the measurement the text was made from |
| `ReadBegin` ... `ReadReturn`, `pc[p]`, `rd[p]` | `lunix_chrdev_read` and the `sys_read` around it |
| `Snapshot`, `Format`, `NoNewData` | `lunix_chrdev_state_update` |
| `WaitCheck`, `Prepare`, `Recheck`, `Woken`, `Signal`, `InterruptedWait` | `wait_event_interruptible` as the kernel expands it: test, queue, test again, sleep |
| `InterruptedDown` | `down_interruptible` fails only while it waits |
| `Fork` | an open file shared by two processes, as `testMultipleRead.c` does |

Abstracted: the three pages of a sensor, which one update writes together and of
which an open file reads one, are one page; a text is the number of its
measurement and its length (`TextLen`, for a raw value and a display mode). The
kernel the driver was built for (2.6.32) copies `f_pos` to a local for the
duration of `read` and stores it back without a lock. `MinGap` states how far
apart the network leaves two reports of one sensor; `Sharing` whether open files
are inherited.

### `LunixProtocol` and `SensorLine`

`Oops`, `Overflow`, `StoreRaw`, `StorePlain`, `SeeSpecial` and `StoreSpecial` are
the ways one pass of the loop of `lunix_protocol_parse_state` can go; `Advance`,
`PacketReceived` and `Return` are the ends of an `if` of
`lunix_protocol_received_buf`. `rest` is what the call has not consumed, and
leaving the call discards it, as the code does. `LUNIX_DEBUG` is on in the
Makefile, so the loop guard (50 passes) is part of the program.

`SensorLine` adds the network, and a tty layer that hands over the first bytes of
a frame (`Receive`) or the end of one with the beginning of the next
(`ReceiveAcross`). A frame is a record of its `bytes`, of the bytes it is on the
`line`, and of which byte of the frame each of those is `of`. `Escaped` says when a
line is one for these bytes: what looks special inside a field is sent as 0x7E and
the byte, or as 0x7D and the byte with bit 5 flipped, the two things the parser
undoes; the network may choose either each time. `head` and `gone` are the number
of the frame at the head of the line and how many of its bytes are gone; `due` are
the numbers of the frames that report to a sensor (history). The line may lose any
byte (`LoseByte`); the discipline may be closed between two buffers, what arrives
until it is opened again goes elsewhere (`CloseLdisc`, `ReceiveElsewhere`,
`OpenLdisc`), and neither call touches the parser. Two history variables say what
has been spared: `orderly` that every buffer so far began and stayed within one
frame, without a loss and below the loop guard; `clean` only that the frame now
arriving did.

### `LunixModule` and `LunixAttach`

| TLA+ | code |
|---|---|
| `phase`, `si` | where `lunix_module_init` or `lunix_module_cleanup` stands, `si_done + 1` |
| `held`, `lost` | pages the sensor structures point to; pages nothing points to any more (history) |
| `ldisc`, `available`, `lines` | the registration, `lunix_disc_available`, the TTYs that have the discipline |
| `cdev`, `files` | the registered device numbers, the open device files |
| `LoadBegin`, `SensorInit`, `LdiscInit`, `ChrdevInit` | the steps of the initialisation, each of which may fail |
| `UndoLdisc`, `UndoSensors` | the labels `out_with_ldisc` and `out_with_sensors` |
| `CleanupChrdev`, `CleanupLdisc`, `CleanupSensors` | `lunix_module_cleanup` |
| `LdiscOpen`, `LdiscClose` | the callbacks of the tty layer |
| `pc[h]`, `tty[h]`, `before[h]`, `saved[h]` | a helper: where it stands, its line, `ldisc_before`, `saved_lock` |
| `lock[t]`, `linked[h]` | the lock file: absent, empty or with a pid; whether the file a helper has open is still the one of that name |
| `Check`, `Create`, `WritePid`, `WriteFails` | `tty_already_locked` and `tty_lock`, cut where another helper can act |
| `OpenTty`, `GetLdisc`, `SetLdisc`, `OpenFails` | `tty_open` |
| `Stop`, `RestoreLdisc`, `Unlock`, `Leave` | `sig_catch` and `tty_close` |
| `Killed` | a signal for which no handler is installed, at any step |

The kernel does not take a module away while a file is open or a TTY has its
discipline, and gives neither once the removal has begun; it does give the
discipline while `lunix_module_init` runs. If the initialisation then fails, the
answer of `tty_unregister_ldisc` is ignored and the discipline points into memory
that is freed; what happens then is undefined, and the model ends there (phase
"dangling"). A pid is the helper itself and is not reused. When the user `uucp` is
unknown the helper does not remember its lock and never removes it (`saved`).

### `CryptoOpen`

The processes of a guest, the interrupt of its control queue and the device model
in QEMU. A step is a stretch of code between two accesses to what others share,
`crdev->fd` and the two control queues; the handler in QEMU runs under its global
lock.

| TLA+ | code |
|---|---|
| `fd[d]`, `hostFd[d]` | `crdev->fd` of the guest and of QEMU |
| `pc[p]`, `ret[p]` | where a process stands in open and release, and what open returned |
| `c_ovq[d]`, `consumed[d]` | the control queue to the host: messages not consumed, and messages consumed that no `virtqueue_get_buf` has taken |
| `c_ivq[d]`, `dropped[d]` | answers the interrupt has not handled; whether one was lost for want of a buffer (history) |
| `hostFiles` | the descriptors of QEMU, shared by its devices; a closed number is given out again |
| `Refused`, `Admitted`, `Claim`, `SendOpen`, `PollOpen`, `FoundReady`, `WouldBlock`, `Sleep`, `Wake`, `Interrupted`, `OpenFails`, `OpenSucceeds` | `crypto_chrdev_open`, access by access |
| `SendClose`, `PollClose`, `Clear` | `crypto_chrdev_release` |
| `Send`, `SendNothing`, `Poll` | `send_control_msg` |
| `ControlInIntr` | `control_in_intr` and the guest's `handle_control_message` |
| `ControlOut`, `HostOpens`, `HostCloses`, `Answer` | `control_out`, QEMU's `handle_control_message`, `send_control_event` |

A control message is a variable on its sender's stack. `send_control_msg` returns
when it has taken any consumed message; if that was another's, its own is still
in the queue and the host reads a dead stack frame: the message becomes `Garbage`
and the host may find an open, a close or an unknown event in it. Which
descriptor QEMU gets is left open (any free one), and its open may fail at any
time. Each message is kicked once and a kick is not lost; the device is not
removed while processes use it.

### `CryptoIoctl`

Processes that share one open device file, the interrupt of the input queue, the
handler in QEMU, and the real device. No lock protects `crdev->inbuf` or the
queues (the spinlock in `crypto-vq.c` is commented out), so a step is a stretch of
code between two accesses to them.

| TLA+ | code |
|---|---|
| `pc[r]`, `step[r]`, `got[r]` | where a caller stands in `crypto_ioctl`, where it or the interrupt stands in `device_has_data`, and the buffer `get_inbuf` found |
| `inbuf` | `crdev->inbuf` |
| `ivAvail`, `ivUsed`, `reply`, `read` | the input queue, what each buffer answers, and whether it has been read |
| `ovAvail`, `host`, `ovUsed`, `ovqSize` | the output queue, from the guest through QEMU back to the guest, and its length |
| `request`, `live`, `answer` | the `crypto_data` blocks: command and session, allocated, whose answer |
| `Reclaim`, `Reclaimed`, `AddBuffer`, `AddNothing`, `PollSent` | `send_buf` |
| `ReadInbuf`, `TakeReply`, `StoreInbuf`, `HasData` | `device_has_data` and `get_inbuf`, shared by callers and interrupt |
| `HasReply`, `WouldBlock`, `BeginWait` | the test of `crypto_ioctl` before it waits (place "first") |
| `PrepareToWait`, `NeedNotWait`, `GoToSleep`, `Wake`, `Signal`, `InterruptedWait` | `wait_event_interruptible` as the kernel expands it: its own test ("event"), queue, test again ("wait"), sleep; after a signal `crypto_ioctl` looks once more ("last") |
| `NothingToCopy`, `Oops`, `CopyReply`, `Requeue` | `fill_readbuf` |
| `HandleOutput`, `HandleGarbage`, `SendBuffer`, `GiveBack` | `handle_output`: reply first, request back afterwards |
| `UnknownCommand` | the `default` of the switch, which returns without freeing the block |
| `SessionOf` | the union of `crypto_data` as `crypto_handle_ioctl_packet` reads it |

A block is sent by reference: the host that reads one already freed may find
anything in it. Three history variables say what the properties need to know of the
past: `alone` are the calls that found nobody else in a call and no reply left
(`AtRest`), and that no other call has joined since; `lost` counts the stores to
`inbuf` that overwrote something else than their writer had looked at (`Undone`, and
in `Requeue`); `robbed` counts the blocks that were reclaimed.

With them the properties take the code as it is. `RequestsConserved` and
`BuffersConserved` hold whatever the callers do, and say how much each reclaimed
block and each lost store can cost. `OwnAnswer` and `CallReturns` are about every
call that has the device for itself, whatever went wrong in the calls before it and
however the interrupt runs beside it; of overlapping callers the code keeps no such
promise, since it does not look whose reply it has taken, and two of them can
exchange their answers. `NothingLeftBehind` names the blocks that leak, and says of a
call alone that was answered that no reply stays.

### `ChatServer`

The server's loop over `select`, one socket operation per step; clients that
connect, type, read and leave; sockets that hold `UpCap` and `DownCap` blocks.
Everything travels in blocks of one size, so a block is what it says. `log` is
what has been said in the room, `pos[c]` how far client `c` has read it. `Say`
begins the inner loop over the list (`ptr2`): `todo` are the clients still to be
written to, `due` how many of the one or two blocks being said the first of them
still lacks; `Write` is one `insist_write` of the next of these (`NextBlock`,
`OneLess`). What the server does when the loop is over, putting a newcomer into the
list or taking a client out, follows from what it has said (`LastKind`). Closing a
socket with unread data resets the connection; a client killed in a write may
leave part of a block. The loop over the list of clients goes on from a client it
has just freed (server.c:206); the model follows the link that the allocator
leaves in place, which is what happens in the build, not what C promises.

## 3. What the runs check

| run | properties | bounds | states |
|---|---|---|---|
| `ChrdevShared` | `TypeOK`, `SemExclusive`, `Untorn`, `NoLostWakeup`, `NeverGoesBack`, `ImplementsFeed`, `ServedEventually` | 2 processes on 1 shared open file, 1 sensor, 2 measurements, 2 clock values with `MinGap = 0`, reads of 2, texts of 1 and 3 | 550 thousand |
| `ChrdevPrivate` | `SleeperIsCurrent`, `CopyWithinCache`, `NoEmptyRead` | 2 processes, 2 files, 2 sensors, `MinGap = 1`, no sharing, reads of 2 | 4.1 million |
| `ChrdevSharedEOF` | finding: `NoEmptyRead` fails with sharing | 2 processes, 1 file | |
| `ProtocolBytes` | `TypeOK`, `EscapeStaysInField` | 8 calls with buffers of 1 to 3 bytes out of {0, 0x7D, 0x7E}, `packet[]` of 11 bytes, loop guard 3 | 2.6 million |
| `LineReports` | `InOrder`, `RoundTrip`, `Aligned`, `EveryReportArrives` | 2 frames out of 3 kinds, every cut, 1 fault (a lost byte or a closing), loop guard 11 | 750 thousand |
| `Attach` | `TypeOK`, `InUseMeansReady`, `LeftoverPages`, `OneLine`, `OneOwner`, `OwnerKeepsLine` | 3 helpers, 2 lines, 2 sensors of 3 pages, 1 user, 2 loads | 3.3 million |
| `CryptoOwnDevice` | `OwnerHasDescriptor`, `AvailableWhenFree`, `RefusalMeansHostFailure`, `MessagesOutliveUse`, `OpenReturns` | 3 devices with a process each, 2 descriptors in QEMU | 430 thousand |
| `CryptoContended` | `TypeOK`, `MessagesConserved`, `DescriptorAgrees` | 3 openers of 1 device, one with `O_NONBLOCK`, signals, 1 descriptor, queues of 2 | 3.6 million |
| `CryptoOneOwner` | finding: `OneOwner` fails | 3 openers of 1 device | |
| `CryptoIoctl` | `TypeOK`, `OwnAnswer`, `RequestsConserved`, `BuffersConserved`, `NothingLeftBehind`, `CallReturns` | 2 callers, one with `O_NONBLOCK`, signals, 1 buffer, output queue of 1 or 2, 2 calls | 480 thousand |
| `CryptoFinish` | finding: `OpenSessionCanBeFinished` fails | 1 caller, 3 calls | |
| `Chat` | `TypeOK`, `SameForAll`, `EveryLineSaid`, `BackToSelect` | 3 clients, one of which types 2 lines, socket buffers of 1 block | 2.6 million |

Why the bounds are enough for the interesting cases.

* *Character device.* Two processes are what the semaphore, the wait queue and a
  shared position need to conflict. Two measurements let one arrive before and
  one after a reader's snapshot; with `MinGap = 0` they can carry the same second.
  A read of 2 leaves a position inside the long text and takes the short one
  whole, and the second text can be shorter than the first. `MaxPos` stops reads
  that start beyond any text. Processes and files are symmetric in
  `ChrdevPrivate`; the run with liveness uses no symmetry.
* *Parser.* The bytes of `ProtocolBytes` mean an empty payload, a payload longer
  than `packet[]`, both escapes and bytes that become special when flipped; the
  small `packet[]` and loop guard make both early exits fire.
* *Line.* Every 16-bit field of the sensor's frame holds a byte that must be
  escaped; the others are a frame for a node nobody has and one with an empty
  payload. The payload is packed and the offsets scaled to match; the loop guard
  is scaled from 50 to 11, the passes that the payload of the first takes when it
  arrives in one buffer, so that a frame without a fault trips it. One
  fault takes any byte of any frame, or closes the discipline at any point.
* *Module and helpers.* A second load finds what the first left behind; three
  helpers on two lines can race for a lock while another line has the discipline;
  two sensors of three pages are one initialised and one that fails half-way.
* *Control path.* Needs no bound on how often a device is opened: the state is
  bounded by processes, descriptors and queues. Three devices for two descriptors
  make QEMU run out of them and give a closed number to another device; queues of
  2 for three openers (32 in the code) make both full queues happen, and let a
  sender leave with the completion of another.
* *Data path.* Two calls overlap, or the second finds what the first has left; an
  output queue of 1 is full when a second call comes, one of 2 holds both
  requests. With one buffer the host can find none for its reply, and a store to
  `crdev->inbuf` can lose it or bring it back twice. `NumBuffers = 2`, which lets
  both replies wait at once, also passes, with 2.3 million states and some minutes
  for `CallReturns`. `CryptoFinish` needs three calls to open, use and finish a
  session.
* *Chat.* Two listeners are needed for an order to differ, and for one to leave
  while the other is written to; buffers of one block make writes wait, which is
  also what leads to the deadlock of server and client.

Deadlock is checked for the character device, whose programs can always open and
close. The others may stop: the bounded network has no more to send, no loads or
calls are left, nobody is obliged to close, a refused device refuses for ever,
the server has ended.

**Fairness.** `LunixChrdev` (`ServedEventually`): weak fairness of the updater,
which runs in the receive path of the tty and never sleeps; weak fairness of a
process that can take a step inside read (the scheduler); strong fairness of
taking the semaphore, because the kernel's semaphore serves its waiters first
come, first served. Nothing is assumed of the network, of signals or of programs.
`SensorLine` (`EveryReportArrives`): weak fairness of the parser, which never
sleeps, and of the tty layer, which passes on what it has. `CryptoOpen`
(`OpenReturns`): weak fairness of a process that has begun an open or a release
(the scheduler; it polls or is runnable), of the interrupt and of QEMU's handler;
none of beginning, of signals or of closing. `CryptoIoctl` (`CallReturns`): the
same for a call that has begun. `ChatServer` (`BackToSelect`): weak fairness of
the server as long as it has not timed out, and of each client's reading and
sending; none of typing, leaving, connecting or being killed, nor of the timeout.

### What was found

1. `testMultipleRead.c:51` calls a read of 0 bytes an internal error; two
   processes on one inherited file can get one, since the position is kept
   outside the semaphore (`ChrdevSharedEOF`). `CopyWithinCache` fails for the same
   reason when files are shared: the unsigned comparison at `lunix-chrdev.c:251`
   turns a negative remainder into a large count. Without sharing both are proved.
2. `crypto-chrdev.c:86`: "Only one process can open a specific device at a time"
   is checked without a lock, and the field that is checked holds -13 until the
   host has answered: two processes pass and both get the device
   (`CryptoOneOwner`).
3. `virtio-crypto.c:283`: the host takes the number of the session to finish from
   a member of a union that the guest has left zero; no session is ever finished
   before its descriptor is closed, while `test_crypto.c:122` expects success
   (`CryptoFinish`). The real device of the model finishes any session that is open,
   so with `SessionOf(n) == request[n].ses`, the correction, the property holds.

Other limits of the code that the models follow and no run reports:

* `lunix-chrdev.c:89`: the copy is made under the spinlock and judged without it;
  an update in between makes an old measurement pass as new. The text is still
  whole and never goes back, which is proved.
* `lunix-sensors.c:87`: two reports in one second have one timestamp.
  `SleeperIsCurrent` is stated, and proved, for reports at least a second apart.
* `lunix-protocol.c:254`: the rest of a buffer is dropped after an end byte, so a
  buffer that straddles two frames loses the second; `lunix-protocol.c:66`: the
  fixed offsets are read however short the payload is. `InOrder` excludes the
  first, the frames of the model the second.
* `lunix-attach.c:119`: a lock file is examined and created in two steps;
  `OneOwner` says that nothing else gives a line two owners.
* `lunix-module.c:69`: a discipline set while an initialisation runs that then
  fails outlives the module; `lunix-module.c:83`: a sensor that failed half-way
  keeps its pages. `InUseMeansReady` and `LeftoverPages` bound both.
* `crypto-chrdev.c:99`: an open that is interrupted, or does not block, returns
  after the host has opened its descriptor; nobody releases it, and `crdev->fd`
  refuses every open from then on. `AvailableWhenFree` is about openers that wait.
* `crypto-vq.c:40`: callers that overlap can exchange their answers, and a call that
  leaves before its reply (`crypto-ioctl.c:77`) leaves it to the next one; `OwnAnswer`
  is about a call that finds nothing and is joined by nobody. `crypto-vq.c:125` frees
  the block of another caller; `RequestsConserved` counts these. `crypto-ioctl.c:77`
  and the unknown command leak their blocks, which `NothingLeftBehind` names.
* `server.c:67` sets out to survive a broken connection, which succeeds for
  writes; a failed or short read (`server.c:187`) ends the server. Server and
  client can also wait for each other in a write. `BackToSelect` names both.
* `client.c:124` sets the timeout once, outside its loop: a client has a hundred
  seconds of waiting in all.

## 4. What is proved

Eight modules, each checked from nothing by `tlapm`. TLC agrees with every
property below on its instance; the proofs are for every value of the constants
that satisfies the named assumptions.

**Character device** (`LunixChrdevProofs`; any number of processes, files and
sensors, any raw values and text lengths).

* `Invariance`: `IInv` is the conjunction of the types; of `FeedInv` and
  `StampInv`, which tie spinlock, page and history of timestamps together; of
  `ReaderInv` (a process inside read keeps its file open); of `SemExclusive`; of
  `Untorn` and `SnapInv` for the cached text and for the copy waiting to be
  formatted; and of `NoLostWakeup`. None of the last four is inductive alone. That
  formatting keeps a text whole needs the copy to be whole, which needs the page
  to be whole outside the spinlock. That it never goes back needs that no other
  process can replace the text meanwhile, which is the semaphore. That a sleeper
  is woken needs that a page whose timestamp changed belongs to an update that has
  not reached its wake-up.
* `TypeCorrect`, `MutualExclusion`, `NeverTorn`, `WakeupsArrive`: its parts.
  `SleepersAreCurrent`, under `MinGap > 0`: equal timestamps then mean equal
  measurements. `Monotonic`: the action property `NeverGoesBack`.
* `Refinement`: `LunixChrdev` implements `MeasurementFeed`. An answer is the
  formatting of a snapshot; it is no older than the question because the snapshot
  is taken after the question and measurements only grow.

**File position** (`LunixChrdevProofs`, under `~Sharing`). `CursorInv`: a file
has one user; its position is 0 or inside the cached text whenever nobody reads
from it, and so is the position a reader has loaded. A new text replaces the old
one only for a reader at position 0, and the rewind at the end of a text brings it
back there. From it `CopiesWithinCache` and `NeverEndOfFile`.

**Parser** (`LunixProtocolProofs`; every stream of bytes, every way of cutting it,
every size of `packet[]`). `Invariance`, `TypeCorrect` (so no store outside
`packet[]`), `CallsEndWaiting`, `EscapesAreLocal`. The invariant needs
`LengthStored`: an overflow resets `pos` but not `bytes_read`, and the payload
length is read at `pos - 1`; a field of one byte has nothing read when the reset
happens. With at least 265 = 7 + 255 + 3 bytes of `packet[]` (the code has 300):
`FieldsAligned` and, from it, `OverflowIsDead`: the branch that asks "How will I
ever resync with the input stream?" is dead code.

**Line** (`SensorLineProofs`; any frames laid out by the table of
`lunix-protocol.c:86`, escaped in any way the parser may undo, any number of them,
every way of cutting the line, any losses and closings at any moment). `LineInvariance`:
`LineInv` is the parser's invariant, the types of the line, and three parts that
need each other. `CleanInv`: while `clean` holds, the parser is where the frame is
(`AtFrame`): it has stored the bytes of the frame that are complete, holds the
escape if the last byte was one, its fields are those of the frame, and the rest of
the buffer is the next stretch of that frame's line. `DueInv`: `due` lists exactly
the frames that report, in the order sent. `ToldInv`: while `orderly` holds, the
sensors have been told what the due frames before the parser's current one report,
and nothing else. `InOrder` alone says nothing of a packet half read, and a packet
half read says nothing without the bytes still to come. A loss breaks the second
part and not the first of the next frame, which is why `RoundTrip` speaks of any
frame that begins between packets, whatever has gone wrong before. From it
`FramesComplete` and `ReportsInOrder`; and, with at least 265 bytes of `packet[]`,
`LineAligned`: losses and closings in the middle of a packet put no field out of
place.

**Module and helpers** (`LunixAttachProofs`; any number of sensors, pages, lines,
users, loads and helpers).

* `ModuleInvariance`: `ModuleInv` adds to `OneLine` and `LeftoverPages` the table
  `LifeInv` of what is registered, allocated and used in each phase, and that the
  pages lost so far belong to earlier loads; only with the table does each step of
  the way back find what it expects.
* `SystemInvariance` adds `LockInv`: on a line that was not raced for, one helper at
  most is past the check of the lock file, and from the writing of its pid on the
  file names it. A helper that dies, at whatever step, leaves a file that names the
  dead or nobody, which the check of the next one sees through.
* `TypeCorrect`, `ReachableIsReady`, `FewPagesLost`, `OneLineOnly`, `LockExcludes`,
  `OwnersKeepLines`: their parts. The last rests on
  the order in `tty_close`, which restores the old discipline before it unlocks.
* `HelpersUseModule`: `Spec => ModuleSpec`. To the module, helpers are lines that
  get the discipline and lose it, so what holds of `LunixModule` holds with them.

**Control path** (`CryptoOpenProofs`, `CryptoOwnerProofs`; any number of processes,
devices and host descriptors, any assignment of processes to devices, any queue
length).

* `TypeCorrect`, `Agreement`, `Conservation`: the types, `DescriptorAgrees` and
  `MessagesConserved`, whatever the openers of a device do. The first uses that a
  poll takes what is there; the second that the last answer on its way is always
  the host's latest; the third counts the pollers of a device.
* Under `Exclusive` (no two processes share a device, all wait, no signals):
  `OwnerInvariant` and from it `OwnersKeepDescriptors`, `FreeDevicesAvailable`,
  `RefusalsExplained` and `MessagesLive`. None of the four properties is
  inductive: the invariant `Stage` says for each place in open and release what
  the two queues hold, which of "asked", "answered" and "arrived" the request has
  reached, and that the host has exactly the descriptor it has noted, or none.
  Devices meet only in the descriptors of QEMU: opening takes a free one, and
  closing one that `Stage` shows to be the device's own.

**Data path** (`CryptoIoctlProofs`; any number of callers, blocking or not, of
buffers and calls, any length of the output queue). `Invariance`: `DataPathInv` is
the conjunction of nine parts.

* The types; `RequestsConserved`; `HandsInv` (what a reader holds at each step of
  `device_has_data`); and `BuffersConserved`. A step of the buffers keeps every place
  and every buffer, or is a store that undoes another one and adds one to `lost`: it
  drops a buffer or brings one back, and the bound moves with it. When `add_inbuf`
  refuses a buffer the queue is full, so the one that is dropped was one too many.
* `Records` and `LiveInv`: a call belongs to one caller and has no outcome before it
  ends; unless a block was reclaimed, those allocated are those of the calls in
  progress and the leaked ones.
* `AloneInv` follows a call alone through guest and host. Whatever happens to
  `inbuf`, its request is the only one in the output queue, QEMU has performed it
  once it is consumed, and every reply that is still about answers it
  (`AloneCourse`). That the queue is empty when the call begins follows from
  `RequestsConserved`: no pollers, no requests. As long as no store is lost, its one
  reply is in the queue, in `inbuf` or in one hand, and `inbuf` is set when it is
  read (`CleanCourse`).
* `DoneInv` and `LeftInv`: what a call alone was answered stays, and it leaves no
  reply behind.

From it `TypeCorrect`, `PollersAreOwed`, `NoBufferLost`, `AnswersAreOwn` and
`NothingStays`. `AnswersAreOwn` asks of the past only that it left no call and no
reply: calls before it may have overlapped or been interrupted, and stores may have
been lost, before it and in it.

**Chat** (`ChatServerProofs`; any number of clients, lines and blocks that fit into
a socket). `ChatInvariance`: `ChatInv` is the conjunction of the types; of
`ListsInv` (nobody is twice in a list, and who waits to be accepted is not in the
room); of `SayingInv` (what the server is in the middle of saying, and whether the
client it is about is in the list yet, or still); of `ClientInv` (a client has a
connection while it acts, and something in its socket only while it is in the room);
of `SameInv`, and of `EveryLineSaid`. `SameInv` says of every client in the room
that what it has read, what is in its socket and what it is still to be written are
together the whole of the log, block by block. That a write keeps this needs that a
client is once in the list; that the insertion of a newcomer keeps it needs that
nothing said before is on its way to it, and so that it is not in the list while the
others are told. From
it `ChatTypeCorrect`, `RoomInStep` (`SameForAll`) and `LinesSaid`.

**Only model-checked.** The liveness properties `ServedEventually`,
`EveryReportArrives`, `OpenReturns`, `CallReturns` and `BackToSelect`: the prover
has no rules for fairness. Every safety property of a passing run is proved.
`Aligned`, which `LineReports` checks with a small `packet[]` and the frames that fit
into it, is proved for one of at least 265 bytes.

## 5. Not modelled, and why

* **Generated tables** (`lunix-lookup.h`, 49 thousand of the repository's 54
  thousand lines, and `mk_lookup_tables.c`, which prints them): constants without
  control. The formatting they serve is abstracted to the length of a text. They
  are also why the share of the repository's lines that the models translate is
  small; of the lines of the two systems it is a third or more.
* **`cryptodev.h`** is the interface of an external driver, `test_crypto.c`,
  `testMultipleRead.c` and the scripts are sequential programs. They are read for
  what they expect of the drivers.
* **`Lab3`** consists of separate programs of a few dozen lines that keep no state
  between runs.
* **Guest crypto driver**: probe and removal of a device (`crypto-module.c`), and
  the calls that fail before they touch a queue and free what they have allocated,
  which change nothing. Removal while a device is in use is nowhere handled in the code.
* **Chat**: the connection phase before the loops, the failures of the crypto
  device at either end, and the search of the client for a free device
  (`client.c`), which is a loop over `CryptoOpen`.
* **Line settings** of the attach helper (speed, parity), which no other part
  reads.
* **Minor numbers** of sensors or types that do not exist: open does not refuse
  them (`lunix-chrdev.c:147`), and what a read then finds lies outside the pages.
* Below the models' grain: virtqueue memory barriers, TCP segments smaller than a
  block, reuse of pids.

A next step would be `SensorLine` composed with `LunixChrdev`, from the wire to the
text, and probe and removal added to `CryptoOpen`.
