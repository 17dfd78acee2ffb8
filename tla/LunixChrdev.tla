----------------------------- MODULE LunixChrdev -----------------------------
(***************************************************************************)
(* The sensor buffers (lunix-sensors.c) and the character device           *)
(* (lunix-chrdev.c) of Lunix:TNG: one updater, the line discipline that    *)
(* has parsed a packet, against processes that open, read, switch with     *)
(* ioctl and close files of /dev/lunix*.                                   *)
(*                                                                         *)
(* A step is a stretch of code between two points where another process    *)
(* or the updater can be observed: taking or releasing the spinlock of a   *)
(* sensor or the semaphore of an open file, joining or leaving a wait      *)
(* queue, the two unlocked looks at last_update, and the load and the      *)
(* store of the file position around the read, which the kernel of the     *)
(* time did without a lock.                                                *)
(*                                                                         *)
(* Abstractions.  The three pages of a sensor, written together under one  *)
(* lock, are one page: an open file only ever looks at one of them.  A     *)
(* formatted text is the number of the measurement it was made from and    *)
(* its length.                                                             *)
(***************************************************************************)
EXTENDS Integers, Sequences

CONSTANTS Procs,       \* processes (or threads) that use the device
          Files,       \* open files (struct file)
          Sensors,     \* lunix_sensors[]
          RawValues,   \* 16-bit raw values
          Zero,        \* the raw value of a zeroed page
          TextLen,     \* TextLen[v][t]: what snprintf returns for v under data_type t
          Counts,      \* the byte counts programs ask for
          NoFile, NoSensor,
          BUFSZ,       \* LUNIX_CHRDEV_BUFSZ
          Sharing,     \* may an open file be inherited through fork?
          MinGap,      \* seconds the network leaves between two reports of a sensor
          MaxUpdates,  \* bound: measurements per sensor
          MaxTime,     \* bound: the clock
          MaxPos       \* bound: no read starts beyond this file position

ASSUME ConstantsAssumption ==
    /\ Zero \in RawValues
    /\ BUFSZ \in Nat
    /\ TextLen \in [RawValues -> [{0, 1} -> 1 .. (BUFSZ - 1)]]
    /\ Counts \subseteq Nat
    /\ NoFile \notin Files
    /\ NoSensor \notin Sensors
    /\ Sharing \in BOOLEAN
    /\ MinGap \in Nat
    /\ MaxUpdates \in Nat /\ MaxTime \in Nat /\ MaxPos \in Nat

VARIABLES now,     \* get_seconds()
          msr,     \* msr[s]: the measurement page of sensor s
          spin,    \* spin[s]: is sensor->lock held by the updater?
          wq,      \* wq[s]: the processes on sensor->wq
          upd,     \* where lunix_sensor_update stands, and for which sensor
          stamps,  \* history: stamps[s][i] is the timestamp of measurement i
          chr,     \* chr[f]: the private state behind open file f
          sem,     \* sem[f]: the count of the semaphore of that state
          f_pos,   \* f_pos[f]: the position kept in struct file
          users,   \* users[f]: the processes that have f open
          pc,      \* pc[p]: where process p stands in lunix_chrdev_read
          rd       \* rd[p]: the arguments and locals of that read

feed == <<now, msr, spin, upd, stamps>>
files == <<chr, f_pos, users>>
vars == <<now, msr, spin, wq, upd, stamps, chr, sem, f_pos, users, pc, rd>>

ZeroPage == [id |-> 0, val |-> Zero, last_update |-> 0]
NewState(s) == [sensor |-> s, buf_data |-> 0, buf_lim |-> 0,
                buf_timestamp |-> 0, data_type |-> 1]
Closed == NewState(NoSensor)
NoRead == [file |-> NoFile, pos |-> 0, cnt |-> 0, snap |-> ZeroPage, floor |-> 0]

\* The timestamp measurement i of s was published with; 0 for the zeroed page.
StampOf(s, i) == IF i = 0 THEN 0 ELSE stamps[s][i]

SensorOf(p) == chr[rd[p].file].sensor

Goto(p, from, to) == pc[p] = from /\ pc' = [pc EXCEPT ![p] = to]

Init == /\ now = 1
        /\ msr = [s \in Sensors |-> ZeroPage]
        /\ spin = [s \in Sensors |-> FALSE]
        /\ wq = [s \in Sensors |-> {}]
        /\ upd = [at |-> "idle", sensor |-> NoSensor]
        /\ stamps = [s \in Sensors |-> <<>>]
        /\ chr = [f \in Files |-> Closed]
        /\ sem = [f \in Files |-> 1]
        /\ f_pos = [f \in Files |-> 0]
        /\ users = [f \in Files |-> {}]
        /\ pc = [p \in Procs |-> "idle"]
        /\ rd = [p \in Procs |-> NoRead]

-----------------------------------------------------------------------------
(* lunix_sensor_update, called for one packet at a time. *)

\* spin_lock, and the raw values.
BeginUpdate(s, v) ==
    /\ upd.at = "idle"
    /\ ~spin[s]
    /\ Len(stamps[s]) < MaxUpdates
    /\ now >= msr[s].last_update + MinGap
    /\ upd' = [at |-> "stamp", sensor |-> s]
    /\ spin' = [spin EXCEPT ![s] = TRUE]
    /\ msr' = [msr EXCEPT ![s] = [id |-> Len(stamps[s]) + 1, val |-> v,
                                  last_update |-> msr[s].last_update]]
    /\ UNCHANGED <<now, wq, stamps, chr, sem, f_pos, users, pc, rd>>

\* last_update = get_seconds()
StampUpdate ==
    /\ upd.at = "stamp"
    /\ upd' = [upd EXCEPT !.at = "unlock"]
    /\ msr' = [msr EXCEPT ![upd.sensor].last_update = now]
    /\ stamps' = [stamps EXCEPT ![upd.sensor] = Append(@, now)]
    /\ UNCHANGED <<now, spin, wq, chr, sem, f_pos, users, pc, rd>>

EndUpdate ==
    /\ upd.at = "unlock"
    /\ upd' = [upd EXCEPT !.at = "wake"]
    /\ spin' = [spin EXCEPT ![upd.sensor] = FALSE]
    /\ UNCHANGED <<now, msr, wq, stamps, chr, sem, f_pos, users, pc, rd>>

\* Mutant: the sleepers are not woken.
WakeNobody ==
    /\ upd.at = "wake"
    /\ upd' = [at |-> "idle", sensor |-> NoSensor]
    /\ UNCHANGED <<now, msr, spin, wq, stamps, chr, sem, f_pos, users, pc, rd>>

\* wake_up_interruptible: every sleeper becomes runnable and leaves the queue.
WakeSleepers ==
    /\ upd.at = "wake"
    /\ upd' = [at |-> "idle", sensor |-> NoSensor]
    /\ wq' = [wq EXCEPT ![upd.sensor] = {}]
    /\ UNCHANGED <<now, msr, spin, stamps, chr, sem, f_pos, users, pc, rd>>

Tick == /\ now < MaxTime
        /\ now' = now + 1
        /\ UNCHANGED <<msr, spin, wq, upd, stamps, chr, sem, f_pos, users, pc, rd>>

-----------------------------------------------------------------------------
(* open, fork, close, ioctl *)

Open(p, f, s) ==
    /\ pc[p] = "idle"
    /\ users[f] = {}
    /\ users' = [users EXCEPT ![f] = {p}]
    /\ chr' = [chr EXCEPT ![f] = NewState(s)]
    /\ sem' = [sem EXCEPT ![f] = 1]
    /\ f_pos' = [f_pos EXCEPT ![f] = 0]
    /\ UNCHANGED <<now, msr, spin, wq, upd, stamps, pc, rd>>

\* fork: the child shares struct file, and with it f_pos and the private state.
Fork(p, q, f) ==
    /\ Sharing
    /\ p \in users[f] /\ q \notin users[f]
    /\ pc[p] = "idle" /\ pc[q] = "idle"
    /\ users' = [users EXCEPT ![f] = @ \union {q}]
    /\ UNCHANGED <<feed, wq, chr, sem, f_pos, pc, rd>>

\* The last close calls lunix_chrdev_release, which frees the state.
Close(p, f) ==
    /\ pc[p] = "idle"
    /\ p \in users[f]
    /\ users' = [users EXCEPT ![f] = @ \ {p}]
    /\ chr' = IF users[f] = {p} THEN [chr EXCEPT ![f] = Closed] ELSE chr
    /\ f_pos' = IF users[f] = {p} THEN [f_pos EXCEPT ![f] = 0] ELSE f_pos
    /\ UNCHANGED <<feed, wq, sem, pc, rd>>

\* LUNIX_IOC_DATA_TYPE: nothing blocks between down and up.
Ioctl(p, f) ==
    /\ pc[p] = "idle"
    /\ p \in users[f]
    /\ sem[f] = 1
    /\ chr' = [chr EXCEPT ![f].data_type = IF @ = 0 THEN 1 ELSE 0]
    /\ UNCHANGED <<feed, wq, sem, f_pos, users, pc, rd>>

-----------------------------------------------------------------------------
(* lunix_chrdev_read *)

\* lunix_chrdev_state_needs_refresh, without any lock.
NeedsRefresh(f) == msr[chr[f].sensor].last_update # chr[f].buf_timestamp

\* sys_read loads the position and calls the driver.
ReadBegin(p, f, n) ==
    /\ Goto(p, "idle", "down")
    /\ p \in users[f]
    /\ f_pos[f] <= MaxPos
    /\ rd' = [rd EXCEPT ![p] = [file |-> f, pos |-> f_pos[f], cnt |-> n,
                                snap |-> ZeroPage,
                                floor |-> Len(stamps[chr[f].sensor])]]
    /\ UNCHANGED <<feed, wq, sem, files>>

\* Mutant: every chunk goes through the update, whatever *f_pos is.
DownAndUpdate(p) ==
    /\ Goto(p, "down", "snapshot")
    /\ sem[rd[p].file] = 1
    /\ sem' = [sem EXCEPT ![rd[p].file] = 0]
    /\ UNCHANGED <<feed, wq, files, rd>>

\* Mutant: a cached text is good enough, the update is skipped.
DownAndReuse(p) ==
    /\ Goto(p, "down", IF chr[rd[p].file].buf_lim = 0 THEN "snapshot" ELSE "copy")
    /\ sem[rd[p].file] = 1
    /\ sem' = [sem EXCEPT ![rd[p].file] = 0]
    /\ UNCHANGED <<feed, wq, files, rd>>

\* down_interruptible, then the test of *f_pos.
Down(p) ==
    /\ Goto(p, "down", IF rd[p].pos = 0 THEN "snapshot" ELSE "copy")
    /\ sem[rd[p].file] = 1
    /\ sem' = [sem EXCEPT ![rd[p].file] = 0]
    /\ UNCHANGED <<feed, wq, files, rd>>

\* Mutant: the page is read without the spinlock.
SnapshotUnlocked(p) ==
    /\ Goto(p, "snapshot", "format")
    /\ rd' = [rd EXCEPT ![p].snap = msr[SensorOf(p)]]
    /\ UNCHANGED <<feed, wq, sem, files>>

\* The locked part of lunix_chrdev_state_update.
Snapshot(p) ==
    /\ Goto(p, "snapshot", "format")
    /\ ~spin[SensorOf(p)]
    /\ rd' = [rd EXCEPT ![p].snap = msr[SensorOf(p)]]
    /\ UNCHANGED <<feed, wq, sem, files>>

\* Mutant: buf_timestamp is taken from the page, not from the snapshot.
FormatWithLatestStamp(p) ==
    LET f == rd[p].file
        s == rd[p].snap
    IN  /\ Goto(p, "format", "copy")
        /\ NeedsRefresh(f)
        /\ chr' = [chr EXCEPT ![f] =
                      [sensor |-> chr[f].sensor, data_type |-> chr[f].data_type,
                       buf_data |-> s.id,
                       buf_lim |-> TextLen[s.val][chr[f].data_type],
                       buf_timestamp |-> msr[chr[f].sensor].last_update]]
        /\ UNCHANGED <<feed, wq, sem, f_pos, users, rd>>

\* New data, by the unlocked look at last_update: cache the snapshot.
Format(p) ==
    LET f == rd[p].file
        s == rd[p].snap
    IN  /\ Goto(p, "format", "copy")
        /\ NeedsRefresh(f)
        /\ chr' = [chr EXCEPT ![f] =
                      [sensor |-> chr[f].sensor, data_type |-> chr[f].data_type,
                       buf_data |-> s.id,
                       buf_lim |-> TextLen[s.val][chr[f].data_type],
                       buf_timestamp |-> s.last_update]]
        /\ UNCHANGED <<feed, wq, sem, f_pos, users, rd>>

\* -EAGAIN: up, and on to wait_event_interruptible.
NoNewData(p) ==
    /\ Goto(p, "format", "wait")
    /\ ~NeedsRefresh(rd[p].file)
    /\ sem' = [sem EXCEPT ![rd[p].file] = 1]
    /\ UNCHANGED <<feed, wq, files, rd>>

\* wait_event_interruptible looks at the condition before it queues ...
WaitCheck(p) ==
    /\ Goto(p, "wait", IF NeedsRefresh(rd[p].file) THEN "redown" ELSE "prepare")
    /\ UNCHANGED <<feed, wq, sem, files, rd>>

\* ... joins the queue ...
Prepare(p) ==
    /\ Goto(p, "prepare", "recheck")
    /\ wq' = [wq EXCEPT ![SensorOf(p)] = @ \union {p}]
    /\ UNCHANGED <<feed, sem, files, rd>>

\* Mutant: the process sleeps without the second look.
SleepAtOnce(p) ==
    /\ Goto(p, "recheck", "asleep")
    /\ UNCHANGED <<feed, wq, sem, files, rd>>

\* ... and looks again before it sleeps.
Recheck(p) ==
    /\ \/ /\ Goto(p, "recheck", "redown")
          /\ NeedsRefresh(rd[p].file)
          /\ wq' = [wq EXCEPT ![SensorOf(p)] = @ \ {p}]
       \/ /\ Goto(p, "recheck", "asleep")
          /\ ~NeedsRefresh(rd[p].file)
          /\ UNCHANGED wq
    /\ UNCHANGED <<feed, sem, files, rd>>

\* Woken by the updater, a sleeper queues again and looks again.
Woken(p) ==
    /\ Goto(p, "asleep", "prepare")
    /\ p \notin wq[SensorOf(p)]
    /\ UNCHANGED <<feed, wq, sem, files, rd>>

\* A signal makes a sleeper runnable too ...
Signal(p) ==
    /\ Goto(p, "asleep", "prepare")
    /\ p \in wq[SensorOf(p)]
    /\ UNCHANGED <<feed, wq, sem, files, rd>>

\* ... and ends the wait if the condition is still false.
InterruptedWait(p) ==
    /\ Goto(p, "recheck", "ret")
    /\ ~NeedsRefresh(rd[p].file)
    /\ wq' = [wq EXCEPT ![SensorOf(p)] = @ \ {p}]
    /\ UNCHANGED <<feed, sem, files, rd>>

\* Mutant: the interrupted down leaves through the common exit, which ups.
InterruptedDownUps(p) ==
    /\ Goto(p, "down", "ret") \/ Goto(p, "redown", "ret")
    /\ sem[rd[p].file] = 0
    /\ sem' = [sem EXCEPT ![rd[p].file] = 1]
    /\ UNCHANGED <<feed, wq, files, rd>>

\* A signal while waiting for the semaphore: -ERESTARTSYS without it.
InterruptedDown(p) ==
    /\ Goto(p, "down", "ret") \/ Goto(p, "redown", "ret")
    /\ sem[rd[p].file] = 0
    /\ UNCHANGED <<feed, wq, sem, files, rd>>

\* Mutant: the loop updates again without the semaphore.
RedownForgotten(p) ==
    /\ Goto(p, "redown", "snapshot")
    /\ UNCHANGED <<feed, wq, sem, files, rd>>

\* down_interruptible at the end of the loop, then lunix_chrdev_state_update again.
Redown(p) ==
    /\ Goto(p, "redown", "snapshot")
    /\ sem[rd[p].file] = 1
    /\ sem' = [sem EXCEPT ![rd[p].file] = 0]
    /\ UNCHANGED <<feed, wq, files, rd>>

\* min(cnt, remain_bytes), compared as unsigned: a negative remain_bytes is huge.
CopyCount(p) ==
    LET remain == chr[rd[p].file].buf_lim - rd[p].pos
    IN  IF remain < 0 \/ rd[p].cnt < remain THEN rd[p].cnt ELSE remain

\* Mutant: no rewind at the end of the text.
CopyNoRewind(p) ==
    /\ Goto(p, "copy", "ret")
    /\ rd' = [rd EXCEPT ![p].pos = rd[p].pos + CopyCount(p)]
    /\ sem' = [sem EXCEPT ![rd[p].file] = 1]
    /\ UNCHANGED <<feed, wq, files>>

\* copy_to_user succeeds: advance, rewind at the end of the text, up.
Copy(p) ==
    LET f == rd[p].file
        end == rd[p].pos + CopyCount(p)
    IN  /\ Goto(p, "copy", "ret")
        /\ rd' = [rd EXCEPT ![p].pos = IF end = chr[f].buf_lim THEN 0 ELSE end]
        /\ sem' = [sem EXCEPT ![f] = 1]
        /\ UNCHANGED <<feed, wq, files>>

\* Mutant: up on the error path and again at the common exit.
CopyFaultUpsTwice(p) ==
    /\ Goto(p, "copy", "ret")
    /\ CopyCount(p) > 0
    /\ sem' = [sem EXCEPT ![rd[p].file] = @ + 2]
    /\ UNCHANGED <<feed, wq, files, rd>>

\* copy_to_user fails: -EFAULT, up.
CopyFault(p) ==
    /\ Goto(p, "copy", "ret")
    /\ CopyCount(p) > 0
    /\ sem' = [sem EXCEPT ![rd[p].file] = 1]
    /\ UNCHANGED <<feed, wq, files, rd>>

\* sys_read stores the position, whatever the driver returned.
ReadReturn(p) ==
    /\ Goto(p, "ret", "idle")
    /\ f_pos' = [f_pos EXCEPT ![rd[p].file] = rd[p].pos]
    /\ rd' = [rd EXCEPT ![p] = NoRead]
    /\ UNCHANGED <<feed, wq, chr, sem, users>>

-----------------------------------------------------------------------------
Updater == StampUpdate \/ EndUpdate \/ WakeSleepers

\* The steps a process inside read takes by itself.
Reader(p) == \/ Down(p) \/ Snapshot(p) \/ Format(p) \/ NoNewData(p)
             \/ WaitCheck(p) \/ Prepare(p) \/ Recheck(p) \/ Woken(p)
             \/ Redown(p) \/ Copy(p) \/ CopyFault(p) \/ ReadReturn(p)

Interruption(p) == Signal(p) \/ InterruptedWait(p) \/ InterruptedDown(p)

Program(p) == \E f \in Files : \/ \E s \in Sensors : Open(p, f, s)
                               \/ \E q \in Procs : Fork(p, q, f)
                               \/ \E n \in Counts : ReadBegin(p, f, n)
                               \/ Close(p, f)
                               \/ Ioctl(p, f)

Next == \/ \E s \in Sensors, v \in RawValues : BeginUpdate(s, v)
        \/ Updater
        \/ Tick
        \/ \E p \in Procs : Reader(p) \/ Interruption(p) \/ Program(p)

Spec == Init /\ [][Next]_vars

(* The updater finishes what it began: it runs in the receive path of the   *)
(* tty and never sleeps.  A process that can run inside read does run, and  *)
(* the semaphore serves its waiters first come, first served, so one that   *)
(* keeps coming free is eventually taken.  Nothing obliges the network, a   *)
(* program or a signal to act.                                              *)
Fairness == /\ WF_vars(Updater)
            /\ \A p \in Procs : /\ WF_vars(Reader(p))
                                /\ SF_vars(Down(p) \/ Redown(p))

FairSpec == Spec /\ Fairness

-----------------------------------------------------------------------------
(* Properties *)

InSem == {"snapshot", "format", "copy"}     \* the process holds the semaphore
Asking == {"down", "snapshot", "format", "wait", "prepare", "recheck",
           "asleep", "redown"}              \* before the text is settled
PCs == Asking \union {"idle", "copy", "ret"}
Page == [id : Nat, val : RawValues, last_update : Nat]
State == [sensor : Sensors \union {NoSensor}, buf_data : Nat,
          buf_lim : 0 .. BUFSZ, buf_timestamp : Nat, data_type : {0, 1}]
Read == [file : Files \union {NoFile}, pos : Nat, cnt : Nat, snap : Page,
         floor : Nat]
Updating == [at : {"idle", "stamp", "unlock", "wake"},
             sensor : Sensors \union {NoSensor}]

\* Every variable has its type; in particular no path ups a semaphore twice
\* (lunix-chrdev.c keeps it a mutex: sema_init(&state->lock, 1)).
TypeOK ==
    /\ now \in Nat \ {0}
    /\ msr \in [Sensors -> Page]
    /\ spin \in [Sensors -> BOOLEAN]
    /\ wq \in [Sensors -> SUBSET Procs]
    /\ upd \in Updating
    /\ upd.at # "idle" => upd.sensor \in Sensors
    /\ stamps \in [Sensors -> Seq(Nat \ {0})]
    /\ chr \in [Files -> State]
    /\ sem \in [Files -> {0, 1}]
    /\ f_pos \in [Files -> Nat]
    /\ users \in [Files -> SUBSET Procs]
    /\ pc \in [Procs -> PCs]
    /\ rd \in [Procs -> Read]

\* The spinlock is held exactly from the first raw value to the last timestamp,
\* and outside it the page is the last published measurement, whole
\* (lunix_sensor_update).
FeedInv == \A s \in Sensors :
    /\ spin[s] <=> (upd.sensor = s /\ upd.at \in {"stamp", "unlock"})
    /\ IF upd.at = "stamp" /\ upd.sensor = s
       THEN /\ msr[s].id = Len(stamps[s]) + 1
            /\ msr[s].last_update = StampOf(s, Len(stamps[s]))
            /\ now >= msr[s].last_update + MinGap
       ELSE /\ msr[s].id = Len(stamps[s])
            /\ msr[s].last_update = StampOf(s, Len(stamps[s]))
    /\ msr[s].last_update <= now

\* The timestamps of a sensor never go back, and stay MinGap apart.
StampInv == \A s \in Sensors : \A i, j \in 1 .. Len(stamps[s]) :
    /\ stamps[s][j] <= now
    /\ i < j => stamps[s][i] + MinGap <= stamps[s][j]

\* A process inside read keeps its file open, and the file has a sensor; a read
\* that asks for a measurement started at position 0 (lunix_chrdev_read: only
\* *f_pos == 0 goes to lunix_chrdev_state_update).
ReaderInv ==
    /\ \A f \in Files : users[f] # {} <=> chr[f].sensor \in Sensors
    /\ \A f \in Files : users[f] = {} => chr[f] = Closed
    /\ \A p \in Procs :
         IF pc[p] = "idle"
         THEN rd[p].file = NoFile
         ELSE /\ rd[p].file \in Files
              /\ p \in users[rd[p].file]
              /\ rd[p].floor <= Len(stamps[SensorOf(p)])
              /\ pc[p] \in Asking \ {"down"} => rd[p].pos = 0

\* The semaphore of an open file is a lock: it is down exactly while one
\* process is between a down and an up, whatever mixture of interrupted downs,
\* interrupted waits, faulting copies and loops got it there.
Holds(p, f) == pc[p] \in InSem /\ rd[p].file = f
SemExclusive == \A f \in Files :
    /\ sem[f] = 0 <=> \E p \in Procs : Holds(p, f)
    /\ \A p, q \in Procs : Holds(p, f) /\ Holds(q, f) => p = q

\* The cached text and its timestamp belong to one measurement, though the
\* snapshot is re-checked after the spinlock is released
\* (lunix_chrdev_state_update, buf_timestamp = curr_timestamp).
Untorn == \A f \in Files : users[f] # {} =>
    /\ chr[f].buf_data <= Len(stamps[chr[f].sensor])
    /\ chr[f].buf_timestamp = StampOf(chr[f].sensor, chr[f].buf_data)

\* A snapshot waiting to be formatted is whole, no older than the cache and no
\* older than the read that took it.
SnapInv == \A p \in Procs : pc[p] = "format" =>
    LET snap == rd[p].snap
    IN  /\ snap.id <= Len(stamps[SensorOf(p)])
        /\ snap.last_update = StampOf(SensorOf(p), snap.id)
        /\ chr[rd[p].file].buf_data <= snap.id
        /\ rd[p].floor <= snap.id

\* No wake-up is lost between the unlocked look at last_update and schedule():
\* a process asleep on the queue of its sensor has no newer timestamp to see,
\* or the updater is on its way to wake_up_interruptible (lunix-sensors.c:91).
NoLostWakeup == \A p \in Procs :
    pc[p] = "asleep" /\ p \in wq[SensorOf(p)] /\ NeedsRefresh(rd[p].file)
      => upd.sensor = SensorOf(p) /\ upd.at \in {"unlock", "wake"}

\* The inductive invariant.
IInv == /\ TypeOK
        /\ FeedInv
        /\ StampInv
        /\ ReaderInv
        /\ SemExclusive
        /\ Untorn
        /\ SnapInv
        /\ NoLostWakeup

\* "sleepers who may be waiting on fresh data" (lunix-sensors.c:91) do get it:
\* with no update under way, a process asleep on the queue holds the latest
\* measurement.  True when reports of a sensor are a second apart, since
\* freshness is judged by get_seconds().
SleeperIsCurrent == \A p \in Procs :
    pc[p] = "asleep" /\ p \in wq[SensorOf(p)] /\ upd.at = "idle"
      => chr[rd[p].file].buf_data = Len(stamps[SensorOf(p)])

\* A read copies nothing beyond the cached text ("if the user requested more
\* bytes than the cached_bytes just return the cached ones", lunix-chrdev.c:248).
CopyWithinCache == \A p \in Procs :
    pc[p] = "copy" => rd[p].pos + CopyCount(p) <= chr[rd[p].file].buf_lim

\* A read of at least one byte never returns 0, the end of file: the position
\* is rewound with the last byte (lunix-chrdev.c:262; testMultipleRead.c:50
\* calls a 0 an internal error).
NoEmptyRead == \A p \in Procs :
    pc[p] = "copy" /\ rd[p].cnt > 0 => CopyCount(p) > 0

\* The measurement an open file holds never goes back in time, in number or in
\* timestamp, whatever readers share it (the snapshot is formatted after the
\* spinlock is gone, under the semaphore alone).
NeverGoesBack == [][\A f \in Files : users[f] # {} /\ users'[f] # {} =>
    /\ chr[f].buf_data <= chr'[f].buf_data
    /\ chr[f].buf_timestamp <= chr'[f].buf_timestamp]_vars

\* A reader whose text is older, by its timestamp, than the latest measurement of
\* its sensor gets a newer one, or leaves with a signal.
Behind(p) == /\ pc[p] \in Asking \ {"down"}
             /\ chr[rd[p].file].buf_timestamp
                    < StampOf(SensorOf(p), Len(stamps[SensorOf(p)]))
ServedEventually == \A p \in Procs : Behind(p) ~> ~Behind(p)

(* The device implements the feed: a question is a read at position 0, its   *)
(* answer the formatting of a snapshot.                                      *)
Asks(p) == pc[p] \in Asking \union {"copy"} /\ rd[p].pos = 0
Feed == INSTANCE MeasurementFeed WITH
    published <- [s \in Sensors |-> Len(stamps[s])],
    source <- [f \in Files |-> chr[f].sensor],
    seen <- [f \in Files |-> chr[f].buf_data],
    request <- [p \in Procs |->
                  IF Asks(p)
                  THEN [file |-> rd[p].file, floor |-> rd[p].floor,
                        answered |-> pc[p] = "copy"]
                  ELSE [file |-> NoFile, floor |-> 0, answered |-> FALSE]]

\* Every step of the device is a step of the feed or invisible to it.
ImplementsFeed == Feed!Spec
=============================================================================
