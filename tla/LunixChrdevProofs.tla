-------------------------- MODULE LunixChrdevProofs --------------------------
(* Theorems about LunixChrdev, for every number of processes, open files,   *)
(* sensors, updates and seconds.                                            *)
EXTENDS LunixChrdev, TLAPS

-----------------------------------------------------------------------------
(* Types *)

\* The initial state is typed.
LEMMA InitType == Init => TypeOK
  BY ConstantsAssumption
  DEF Init, TypeOK, ZeroPage, Closed, NewState, NoRead, Page, State, Read,
      Updating, PCs, Asking

\* What the steps of the updater change stays typed.
LEMMA UpdaterType ==
  ASSUME TypeOK,
         \/ \E s \in Sensors, v \in RawValues : BeginUpdate(s, v)
         \/ Updater
         \/ Tick
  PROVE  TypeOK'
<1>1. ASSUME NEW s \in Sensors, NEW v \in RawValues, BeginUpdate(s, v)
      PROVE  TypeOK'
  <2>1. msr' \in [Sensors -> Page]
    BY <1>1 DEF TypeOK, BeginUpdate, Page
  <2>2. upd' \in Updating /\ upd'.sensor \in Sensors
    BY <1>1 DEF TypeOK, BeginUpdate, Updating
  <2> QED
    BY <1>1, <2>1, <2>2 DEF TypeOK, BeginUpdate
<1>2. CASE StampUpdate
  <2>1. msr' \in [Sensors -> Page]
    BY <1>2 DEF TypeOK, StampUpdate, Page
  <2>2. stamps' \in [Sensors -> Seq(Nat \ {0})]
    BY <1>2 DEF TypeOK, StampUpdate
  <2>3. upd' \in Updating /\ upd'.sensor \in Sensors
    BY <1>2 DEF TypeOK, StampUpdate, Updating
  <2> QED
    BY <1>2, <2>1, <2>2, <2>3 DEF TypeOK, StampUpdate
<1>3. CASE EndUpdate
  <2>1. upd' \in Updating /\ upd'.sensor \in Sensors
    BY <1>3 DEF TypeOK, EndUpdate, Updating
  <2> QED
    BY <1>3, <2>1 DEF TypeOK, EndUpdate
<1>4. CASE WakeSleepers
  <2>1. upd' \in Updating /\ upd'.at = "idle"
    BY <1>4 DEF TypeOK, WakeSleepers, Updating
  <2> QED
    BY <1>4, <2>1 DEF TypeOK, WakeSleepers
<1>5. CASE Tick
  BY <1>5 DEF TypeOK, Tick
<1> QED
  BY <1>1, <1>2, <1>3, <1>4, <1>5 DEF Updater

\* What a program's calls outside read change stays typed.
LEMMA ProgramType ==
  ASSUME TypeOK, ReaderInv, NEW p \in Procs, Program(p)
  PROVE  TypeOK'
<1> USE ConstantsAssumption
<1>1. ASSUME NEW f \in Files, NEW s \in Sensors, Open(p, f, s)
      PROVE  TypeOK'
  <2>1. chr' \in [Files -> State]
    BY <1>1 DEF TypeOK, Open, NewState, State
  <2> QED
    BY <1>1, <2>1 DEF TypeOK, Open
<1>2. ASSUME NEW f \in Files, NEW q \in Procs, Fork(p, q, f)
      PROVE  TypeOK'
  BY <1>2 DEF TypeOK, Fork, feed
<1>3. ASSUME NEW f \in Files, NEW n \in Counts, ReadBegin(p, f, n)
      PROVE  TypeOK'
  <2>1. chr[f].sensor \in Sensors
    BY <1>3 DEF ReaderInv, ReadBegin
  <2>2. Len(stamps[chr[f].sensor]) \in Nat
    BY <2>1 DEF TypeOK
  <2>3. rd' \in [Procs -> Read]
    BY <1>3, <2>2 DEF TypeOK, ReadBegin, Read, ZeroPage, Page
  <2>4. pc' \in [Procs -> PCs]
    BY <1>3 DEF TypeOK, ReadBegin, Goto, PCs, Asking
  <2> QED
    BY <1>3, <2>3, <2>4 DEF TypeOK, ReadBegin, feed, files
<1>4. ASSUME NEW f \in Files, Close(p, f)
      PROVE  TypeOK'
  <2>1. chr' \in [Files -> State]
    BY <1>4 DEF TypeOK, Close, Closed, NewState, State
  <2>2. f_pos' \in [Files -> Nat]
    BY <1>4 DEF TypeOK, Close
  <2>3. users' \in [Files -> SUBSET Procs]
    BY <1>4 DEF TypeOK, Close
  <2> QED
    BY <1>4, <2>1, <2>2, <2>3 DEF TypeOK, Close, feed
<1>5. ASSUME NEW f \in Files, Ioctl(p, f)
      PROVE  TypeOK'
  <2>1. chr[f] \in State
    BY DEF TypeOK
  <2>2. [chr[f] EXCEPT !.data_type = IF @ = 0 THEN 1 ELSE 0] \in State
    BY <2>1 DEF State
  <2>3. chr' \in [Files -> State]
    BY <1>5, <2>2 DEF TypeOK, Ioctl
  <2> QED
    BY <1>5, <2>3 DEF TypeOK, Ioctl, feed
<1> QED
  BY <1>1, <1>2, <1>3, <1>4, <1>5 DEF Program

\* The fields of the private state of an open file.
LEMMA StateFields ==
  ASSUME NEW s \in Sensors \union {NoSensor}, NEW i \in Nat, NEW l \in 0 .. BUFSZ,
         NEW t \in Nat, NEW d \in {0, 1}
  PROVE  [sensor |-> s, data_type |-> d, buf_data |-> i, buf_lim |-> l,
          buf_timestamp |-> t] \in State
  BY DEF State

\* What a step inside read changes stays typed.
LEMMA ReaderType ==
  ASSUME TypeOK, ReaderInv, NEW p \in Procs, Reader(p) \/ Interruption(p)
  PROVE  TypeOK'
<1> USE ConstantsAssumption
<1> DEFINE f == rd[p].file
<1>a. pc[p] # "idle"
  BY DEF Reader, Interruption, Down, Snapshot, Format, NoNewData, WaitCheck,
         Prepare, Recheck, Woken, Redown, Copy, CopyFault, ReadReturn, Signal,
         InterruptedWait, InterruptedDown, Goto
<1>b. f \in Files /\ SensorOf(p) \in Sensors
  BY <1>a DEF ReaderInv, SensorOf
<1>c. /\ rd[p] \in Read /\ chr[f] \in State /\ chr[f].buf_lim \in Nat
      /\ msr[SensorOf(p)] \in Page
  BY <1>b DEF TypeOK, State
<1>d. pc' \in [Procs -> PCs]
  BY DEF Reader, Interruption, Down, Snapshot, Format, NoNewData, WaitCheck,
         Prepare, Recheck, Woken, Redown, Copy, CopyFault, ReadReturn, Signal,
         InterruptedWait, InterruptedDown, Goto, TypeOK, PCs, Asking
<1>e. UNCHANGED <<now, msr, spin, upd, stamps, users>>
  BY DEF Reader, Interruption, Down, Snapshot, Format, NoNewData, WaitCheck,
         Prepare, Recheck, Woken, Redown, Copy, CopyFault, ReadReturn, Signal,
         InterruptedWait, InterruptedDown, feed, files
<1>f. sem' \in [Files -> {0, 1}]
  BY <1>b DEF Reader, Interruption, Down, Snapshot, Format, NoNewData, WaitCheck,
         Prepare, Recheck, Woken, Redown, Copy, CopyFault, ReadReturn, Signal,
         InterruptedWait, InterruptedDown, TypeOK
<1>g. wq' \in [Sensors -> SUBSET Procs]
  <2>1. \/ UNCHANGED wq
        \/ wq' = [wq EXCEPT ![SensorOf(p)] = @ \union {p}]
        \/ wq' = [wq EXCEPT ![SensorOf(p)] = @ \ {p}]
    BY DEF Reader, Interruption, Down, Snapshot, Format, NoNewData, WaitCheck,
         Prepare, Recheck, Woken, Redown, Copy, CopyFault, ReadReturn, Signal,
         InterruptedWait, InterruptedDown
  <2> DEFINE s == SensorOf(p)
  <2>2. s \in Sensors /\ wq[s] \union {p} \in SUBSET Procs /\ wq[s] \ {p} \in SUBSET Procs
    BY <1>b DEF TypeOK
  <2> HIDE DEF s
  <2>3. \/ UNCHANGED wq
        \/ wq' = [wq EXCEPT ![s] = wq[s] \union {p}]
        \/ wq' = [wq EXCEPT ![s] = wq[s] \ {p}]
    BY <2>1 DEF s
  <2> QED
    BY <2>2, <2>3 DEF TypeOK
<1>h. chr' \in [Files -> State]
  <2>1. CASE Format(p)
    <3>1. /\ rd[p].snap.val \in RawValues
          /\ rd[p].snap.id \in Nat /\ rd[p].snap.last_update \in Nat
          /\ chr[f].sensor \in Sensors \union {NoSensor}
          /\ chr[f].data_type \in {0, 1}
      BY <1>c DEF Read, Page, State
    <3>2. TextLen[rd[p].snap.val][chr[f].data_type] \in 0 .. BUFSZ
      BY <3>1
    <3>3. [sensor |-> chr[f].sensor, data_type |-> chr[f].data_type,
           buf_data |-> rd[p].snap.id,
           buf_lim |-> TextLen[rd[p].snap.val][chr[f].data_type],
           buf_timestamp |-> rd[p].snap.last_update] \in State
      BY <3>1, <3>2, StateFields
    <3> QED
      BY <2>1, <3>3 DEF Format, TypeOK
  <2>2. CASE ~Format(p)
    BY <2>2 DEF Reader, Interruption, Down, Snapshot, NoNewData, WaitCheck,
         Prepare, Recheck, Woken, Redown, Copy, CopyFault, ReadReturn, Signal,
         InterruptedWait, InterruptedDown, files, TypeOK
  <2> QED
    BY <2>1, <2>2
<1>i. f_pos' \in [Files -> Nat]
  BY <1>b, <1>c DEF Reader, Interruption, Down, Snapshot, Format, NoNewData,
         WaitCheck, Prepare, Recheck, Woken, Redown, Copy, CopyFault, ReadReturn,
         Signal, InterruptedWait, InterruptedDown, files, TypeOK, Read
<1>j. rd' \in [Procs -> Read]
  <2>1. CASE Snapshot(p)
    BY <2>1, <1>c DEF Snapshot, TypeOK, Read
  <2>2. CASE Copy(p)
    <3>1. CopyCount(p) \in Nat
      BY <1>c DEF CopyCount, Read
    <3>2. rd[p].pos + CopyCount(p) \in Nat
      BY <3>1, <1>c DEF Read
    <3> QED
      BY <2>2, <1>c, <3>2 DEF Copy, TypeOK, Read
  <2>3. CASE ReadReturn(p)
    BY <2>3 DEF ReadReturn, TypeOK, Read, NoRead, ZeroPage, Page
  <2>4. CASE ~(Snapshot(p) \/ Copy(p) \/ ReadReturn(p))
    BY <2>4 DEF Reader, Interruption, Down, Format, NoNewData, WaitCheck,
         Prepare, Recheck, Woken, Redown, CopyFault, Signal,
         InterruptedWait, InterruptedDown, TypeOK
  <2> QED
    BY <2>1, <2>2, <2>3, <2>4
<1> QED
  BY <1>d, <1>e, <1>f, <1>g, <1>h, <1>i, <1>j DEF TypeOK

\* Every step keeps the types.
LEMMA TypeStep == TypeOK /\ ReaderInv /\ [Next]_vars => TypeOK'
<1> SUFFICES ASSUME TypeOK, ReaderInv, [Next]_vars PROVE TypeOK'
  OBVIOUS
<1>1. CASE UNCHANGED vars
  BY <1>1 DEF vars, TypeOK
<1> QED
  BY <1>1, UpdaterType, ProgramType, ReaderType DEF Next

-----------------------------------------------------------------------------
(* The pages and their timestamps *)

\* No step of a process touches a sensor: lunix-chrdev.c only reads them.
LEMMA ProcsLeaveFeed ==
  ASSUME NEW p \in Procs, Reader(p) \/ Interruption(p) \/ Program(p)
  PROVE  UNCHANGED feed
  BY DEF Reader, Interruption, Program, Down, Snapshot, Format, NoNewData,
         WaitCheck, Prepare, Recheck, Woken, Redown, Copy, CopyFault, ReadReturn,
         Signal, InterruptedWait, InterruptedDown, Open, Fork, Close, Ioctl,
         ReadBegin, feed

\* Every step keeps the spinlock, the page and the history in agreement.
LEMMA FeedStep ==
  TypeOK /\ FeedInv /\ StampInv /\ [Next]_vars => FeedInv' /\ StampInv'
<1> SUFFICES ASSUME TypeOK, FeedInv, StampInv, [Next]_vars
             PROVE  FeedInv' /\ StampInv'
  OBVIOUS
<1> USE ConstantsAssumption
<1>1. ASSUME NEW s \in Sensors, NEW v \in RawValues, BeginUpdate(s, v)
      PROVE  FeedInv' /\ StampInv'
  <2>1. FeedInv'
    BY <1>1 DEF FeedInv, BeginUpdate, TypeOK, Updating, Page, StampOf
  <2>2. StampInv'
    BY <1>1 DEF StampInv, BeginUpdate
  <2> QED
    BY <2>1, <2>2
<1>2. CASE StampUpdate
  <2> DEFINE s == upd.sensor
  <2>1. s \in Sensors /\ stamps[s] \in Seq(Nat \ {0}) /\ now \in Nat \ {0}
    BY <1>2 DEF StampUpdate, TypeOK
  <2>2. /\ stamps'[s] = Append(stamps[s], now)
        /\ \A t \in Sensors : t # s => stamps'[t] = stamps[t]
        /\ Len(stamps'[s]) = Len(stamps[s]) + 1
        /\ Len(stamps[s]) \in Nat
        /\ stamps'[s][Len(stamps[s]) + 1] = now
        /\ \A i \in 1 .. Len(stamps[s]) : stamps'[s][i] = stamps[s][i]
    BY <1>2, <2>1 DEF StampUpdate, TypeOK
  <2>3. FeedInv'
    <3>1. /\ upd.at = "stamp" /\ upd'.at = "unlock" /\ upd'.sensor = s /\ now' = now
          /\ UNCHANGED spin
      BY <1>2 DEF StampUpdate, TypeOK, Updating
    <3>2. /\ msr'[s].id = msr[s].id /\ msr'[s].last_update = now
          /\ \A t \in Sensors : t # s => msr'[t] = msr[t]
      BY <1>2, <2>1 DEF StampUpdate, TypeOK, Page
    <3>3. msr[s].id = Len(stamps[s]) + 1
      BY <2>1, <3>1 DEF FeedInv
    <3> HIDE DEF s
    <3>4. ASSUME NEW t \in Sensors
          PROVE  /\ spin'[t] <=> (upd'.sensor = t /\ upd'.at \in {"stamp", "unlock"})
                 /\ msr'[t].id = Len(stamps'[t])
                 /\ msr'[t].last_update = StampOf(t, Len(stamps[t]))'
                 /\ msr'[t].last_update <= now
      <4>1. CASE t = s
        <5>1. spin'[s] /\ msr'[s].id = Len(stamps'[s])
          BY <2>1, <2>2, <3>1, <3>2, <3>3 DEF FeedInv, s
        <5>2. Len(stamps'[t]) # 0 /\ stamps'[t][Len(stamps'[t])] = now
          BY <2>2, <4>1
        <5>3. StampOf(t, Len(stamps[t]))' = now
          BY <5>2 DEF StampOf
        <5>4. msr'[t].last_update = now /\ now \in Nat
          BY <2>1, <3>2, <4>1
        <5> QED
          BY <3>1, <4>1, <5>1, <5>3, <5>4
      <4>2. CASE t # s
        <5>1. /\ stamps'[t] = stamps[t] /\ msr'[t] = msr[t] /\ spin'[t] = spin[t]
              /\ upd.sensor # t /\ upd'.sensor # t
          BY <2>2, <3>1, <3>2, <4>2 DEF s
        <5> QED
          BY <5>1 DEF FeedInv, StampOf
      <4> QED
        BY <4>1, <4>2
    <3> QED
      BY <3>1, <3>4 DEF FeedInv
  <2>4. StampInv'
    <3>1. \A i \in 1 .. Len(stamps[s]) :
             /\ stamps[s][i] \in Nat
             /\ stamps[s][i] <= now
             /\ stamps[s][i] + MinGap <= now
      <4>1. \A i \in 1 .. Len(stamps[s]) : stamps[s][i] \in Nat
        BY <2>1
      <4> DEFINE L == Len(stamps[s])
      <4>2. L \in Nat /\ (L # 0 => stamps[s][L] + MinGap <= now)
        <5>1. msr[s].last_update = StampOf(s, L) /\ now >= msr[s].last_update + MinGap
          BY <1>2, <2>1 DEF FeedInv, StampUpdate
        <5> QED
          BY <5>1, <2>1, <2>2, <4>1 DEF StampOf
      <4>3. \A i, j \in 1 .. L : /\ stamps[s][j] <= now
                                 /\ i < j => stamps[s][i] + MinGap <= stamps[s][j]
        BY <2>1 DEF StampInv
      <4> HIDE DEF L, s
      <4>4. ASSUME NEW i \in 1 .. L PROVE stamps[s][i] + MinGap <= now
        <5>1. CASE i = L
          BY <5>1, <4>2
        <5>2. CASE i # L
          <6>1. i < L /\ L \in 1 .. L
            BY <5>2, <4>2
          <6>2. /\ stamps[s][i] + MinGap <= stamps[s][L]
                /\ stamps[s][L] <= now
            BY <6>1, <4>3
          <6>3. stamps[s][i] \in Nat /\ stamps[s][L] \in Nat /\ now \in Nat
            BY <6>1, <4>1, <2>1 DEF L
          <6> QED
            BY <6>2, <6>3
        <5> QED
          BY <5>1, <5>2
      <4> QED
        BY <4>1, <4>3, <4>4 DEF L
    <3>2. now' = now
      BY <1>2 DEF StampUpdate
    <3> HIDE DEF s
    <3>3. ASSUME NEW i \in 1 .. Len(stamps'[s]), NEW j \in 1 .. Len(stamps'[s])
          PROVE  stamps'[s][j] <= now /\ (i < j => stamps'[s][i] + MinGap <= stamps'[s][j])
      <4> DEFINE L == Len(stamps[s])
      <4>a. L \in Nat /\ i \in 1 .. L + 1 /\ j \in 1 .. L + 1
        BY <2>2
      <4>b. \A k \in 1 .. L : stamps'[s][k] = stamps[s][k]
        BY <2>2
      <4>c. stamps'[s][L + 1] = now
        BY <2>2
      <4>d. \A k, l \in 1 .. L : k < l => stamps[s][k] + MinGap <= stamps[s][l]
        BY <2>1 DEF StampInv
      <4>e. \A k \in 1 .. L : stamps[s][k] <= now /\ stamps[s][k] + MinGap <= now
        BY <3>1
      <4> HIDE DEF L
      <4>1. CASE j = L + 1
        <5>1. i < j => i \in 1 .. L
          BY <4>a, <4>1
        <5>2. stamps'[s][j] = now
          BY <4>c, <4>1
        <5>3. i < j => stamps'[s][i] + MinGap <= now
          BY <5>1, <4>b, <4>e
        <5> QED
          BY <5>1, <5>2, <5>3, <2>1
      <4>2. CASE j # L + 1
        <5>1. j \in 1 .. L /\ (i < j => i \in 1 .. L)
          BY <4>a, <4>2
        <5>2. stamps'[s][j] = stamps[s][j] /\ stamps[s][j] <= now
          BY <5>1, <4>b, <4>e
        <5>3. i < j => /\ stamps'[s][i] = stamps[s][i]
                       /\ stamps[s][i] + MinGap <= stamps[s][j]
          BY <5>1, <4>b, <4>d
        <5>4. CASE i < j
          BY <5>4, <5>2, <5>3
        <5>5. CASE ~(i < j)
          BY <5>5, <5>2
        <5> QED
          BY <5>4, <5>5
      <4> QED
        BY <4>1, <4>2
    <3> QED
      BY <2>2, <3>2, <3>3 DEF StampInv
  <2> QED
    BY <2>3, <2>4
<1>3. CASE EndUpdate
  <2>1. FeedInv'
    BY <1>3 DEF FeedInv, EndUpdate, TypeOK, Updating, StampOf
  <2>2. StampInv'
    BY <1>3 DEF StampInv, EndUpdate
  <2> QED
    BY <2>1, <2>2
<1>4. CASE WakeSleepers
  <2>1. FeedInv'
    BY <1>4 DEF FeedInv, WakeSleepers, TypeOK, Updating, StampOf
  <2>2. StampInv'
    BY <1>4 DEF StampInv, WakeSleepers
  <2> QED
    BY <2>1, <2>2
<1>5. CASE Tick
  <2>1. FeedInv'
    BY <1>5 DEF FeedInv, Tick, TypeOK, Page, StampOf
  <2>2. StampInv'
    BY <1>5 DEF StampInv, Tick, TypeOK
  <2> QED
    BY <2>1, <2>2
<1>6. CASE UNCHANGED feed
  BY <1>6 DEF FeedInv, StampInv, StampOf, feed
<1> QED
  BY <1>1, <1>2, <1>3, <1>4, <1>5, <1>6, ProcsLeaveFeed
  DEF Next, Updater, vars, feed

\* The history only grows, so what was said of a measurement stays true of it.
LEMMA StampsGrow ==
  ASSUME TypeOK, [Next]_vars, NEW s \in Sensors
  PROVE  /\ Len(stamps[s]) \in Nat /\ Len(stamps'[s]) \in Nat
         /\ Len(stamps[s]) <= Len(stamps'[s])
         /\ \A i \in 0 .. Len(stamps[s]) : StampOf(s, i)' = StampOf(s, i)
<1>1. CASE StampUpdate
  <2>1. CASE s = upd.sensor
    <3>1. stamps[s] \in Seq(Nat \ {0}) /\ now \in Nat \ {0}
      BY DEF TypeOK
    <3>2. stamps'[s] = Append(stamps[s], now)
      BY <1>1, <2>1 DEF StampUpdate, TypeOK
    <3> QED
      BY <3>1, <3>2 DEF StampOf
  <2>2. CASE s # upd.sensor
    BY <1>1, <2>2 DEF StampUpdate, TypeOK, StampOf
  <2> QED
    BY <2>1, <2>2
<1>2. CASE UNCHANGED stamps
  BY <1>2 DEF StampOf, TypeOK
<1> QED
  BY <1>1, <1>2, ProcsLeaveFeed
  DEF Next, Updater, BeginUpdate, EndUpdate, WakeSleepers, Tick, vars, feed

\* The updater and the clock leave the processes and their files alone.
LEMMA UpdaterLeavesProcs ==
  ASSUME \/ \E s \in Sensors, v \in RawValues : BeginUpdate(s, v)
         \/ Updater
         \/ Tick
  PROVE  UNCHANGED <<chr, sem, f_pos, users, pc, rd>>
  BY DEF Updater, BeginUpdate, StampUpdate, EndUpdate, WakeSleepers, Tick

-----------------------------------------------------------------------------
(* Readers keep their file open *)

\* A step inside read keeps its file, its floor and the sensor of every file.
LEMMA InsideRead ==
  ASSUME TypeOK, ReaderInv, NEW p \in Procs, Reader(p) \/ Interruption(p)
  PROVE  /\ pc[p] # "idle"
         /\ rd[p].file \in Files /\ SensorOf(p) \in Sensors
         /\ \A f \in Files : chr'[f].sensor = chr[f].sensor
         /\ \A q \in Procs : q # p => pc'[q] = pc[q] /\ rd'[q] = rd[q]
         /\ \/ pc'[p] = "idle" /\ rd'[p] = NoRead
            \/ /\ pc'[p] # "idle"
               /\ rd'[p].file = rd[p].file /\ rd'[p].floor = rd[p].floor
<1>1. pc[p] # "idle"
  BY DEF Reader, Interruption, Down, Snapshot, Format, NoNewData, WaitCheck,
         Prepare, Recheck, Woken, Redown, Copy, CopyFault, ReadReturn, Signal,
         InterruptedWait, InterruptedDown, Goto
<1>2. rd[p].file \in Files /\ SensorOf(p) \in Sensors
  BY <1>1 DEF ReaderInv, SensorOf
<1>3. \A f \in Files : chr'[f].sensor = chr[f].sensor
  <2>1. CASE Format(p)
    BY <2>1, <1>2 DEF Format, TypeOK
  <2>2. CASE ~Format(p)
    BY <2>2 DEF Reader, Interruption, Down, Snapshot, NoNewData, WaitCheck,
           Prepare, Recheck, Woken, Redown, Copy, CopyFault, ReadReturn, Signal,
           InterruptedWait, InterruptedDown, files
  <2> QED
    BY <2>1, <2>2
<1>4. \A q \in Procs : q # p => pc'[q] = pc[q] /\ rd'[q] = rd[q]
  BY DEF Reader, Interruption, Down, Snapshot, Format, NoNewData, WaitCheck,
         Prepare, Recheck, Woken, Redown, Copy, CopyFault, ReadReturn, Signal,
         InterruptedWait, InterruptedDown, Goto, TypeOK
<1>5. \/ pc'[p] = "idle" /\ rd'[p] = NoRead
      \/ /\ pc'[p] # "idle"
         /\ rd'[p].file = rd[p].file /\ rd'[p].floor = rd[p].floor
  BY DEF Reader, Interruption, Down, Snapshot, Format, NoNewData, WaitCheck,
         Prepare, Recheck, Woken, Redown, Copy, CopyFault, ReadReturn, Signal,
         InterruptedWait, InterruptedDown, Goto, TypeOK, Read
<1> QED
  BY <1>1, <1>2, <1>3, <1>4, <1>5

\* Every step keeps processes inside read with an open file and its sensor.
LEMMA ReaderStep ==
  TypeOK /\ ReaderInv /\ [Next]_vars => ReaderInv'
<1> SUFFICES ASSUME TypeOK, ReaderInv, [Next]_vars PROVE ReaderInv'
  OBVIOUS
<1> USE ConstantsAssumption
<1>1. CASE UNCHANGED <<chr, users, pc, rd>>
  <2>1. ASSUME NEW p \in Procs, pc[p] # "idle"
        PROVE  rd[p].floor <= Len(stamps'[SensorOf(p)])
    <3>1. SensorOf(p) \in Sensors /\ rd[p].floor <= Len(stamps[SensorOf(p)])
      BY <2>1 DEF ReaderInv, SensorOf
    <3>2. rd[p].floor \in Nat
      BY DEF TypeOK, Read
    <3> QED
      BY <3>1, <3>2, StampsGrow
  <2> QED
    BY <1>1, <2>1 DEF ReaderInv, SensorOf
<1>2. ASSUME NEW p \in Procs, Reader(p) \/ Interruption(p)
      PROVE  ReaderInv'
  <2>1. UNCHANGED <<users, stamps>>
    BY <1>2, ProcsLeaveFeed DEF feed, Reader, Interruption, Down, Snapshot, Format,
         NoNewData, WaitCheck, Prepare, Recheck, Woken, Redown, Copy, CopyFault,
         ReadReturn, Signal, InterruptedWait, InterruptedDown, files
  <2>2. \A f \in Files : users[f] = {} => chr'[f] = Closed
    BY <1>2, InsideRead DEF Reader, Interruption, Down, Snapshot, Format,
         NoNewData, WaitCheck, Prepare, Recheck, Woken, Redown, Copy, CopyFault,
         ReadReturn, Signal, InterruptedWait, InterruptedDown, files, TypeOK,
         ReaderInv
  <2>3. pc'[p] \in Asking \ {"down"} => rd'[p].pos = 0
    BY <1>2 DEF Reader, Interruption, Down, Snapshot, Format,
         NoNewData, WaitCheck, Prepare, Recheck, Woken, Redown, Copy, CopyFault,
         ReadReturn, Signal, InterruptedWait, InterruptedDown, Goto, Asking,
         ReaderInv, TypeOK, Read
  <2>4. /\ \A f \in Files : chr'[f].sensor = chr[f].sensor
        /\ \A q \in Procs : q # p => pc'[q] = pc[q] /\ rd'[q] = rd[q]
        /\ pc[p] # "idle"
        /\ \/ pc'[p] = "idle" /\ rd'[p] = NoRead
           \/ /\ pc'[p] # "idle"
              /\ rd'[p].file = rd[p].file /\ rd'[p].floor = rd[p].floor
    BY <1>2, InsideRead
  <2>5. ASSUME NEW q \in Procs
        PROVE  IF pc'[q] = "idle"
               THEN rd'[q].file = NoFile
               ELSE /\ rd'[q].file \in Files
                    /\ q \in users'[rd'[q].file]
                    /\ rd'[q].floor <= Len(stamps'[chr'[rd'[q].file].sensor])
                    /\ pc'[q] \in Asking \ {"down"} => rd'[q].pos = 0
    <3>1. CASE q = p
      BY <3>1, <2>1, <2>3, <2>4 DEF ReaderInv, SensorOf, NoRead
    <3>2. CASE q # p
      BY <3>2, <2>1, <2>4 DEF ReaderInv, SensorOf
    <3> QED
      BY <3>1, <3>2
  <2> QED
    BY <2>1, <2>2, <2>4, <2>5 DEF ReaderInv, SensorOf
<1>3. ASSUME NEW p \in Procs, NEW f \in Files, NEW s \in Sensors, Open(p, f, s)
      PROVE  ReaderInv'
  BY <1>3 DEF Open, ReaderInv, TypeOK, NewState, SensorOf
<1>4. ASSUME NEW p \in Procs, NEW q \in Procs, NEW f \in Files, Fork(p, q, f)
      PROVE  ReaderInv'
  BY <1>4 DEF Fork, ReaderInv, TypeOK, SensorOf, feed
<1>5. ASSUME NEW p \in Procs, NEW f \in Files, NEW n \in Counts, ReadBegin(p, f, n)
      PROVE  ReaderInv'
  BY <1>5 DEF ReadBegin, Goto, ReaderInv, TypeOK, SensorOf, feed, files, Asking
<1>6. ASSUME NEW p \in Procs, NEW f \in Files, Close(p, f)
      PROVE  ReaderInv'
  <2>1. \A g \in Files : g # f => users'[g] = users[g] /\ chr'[g] = chr[g]
    BY <1>6 DEF Close, TypeOK
  <2>2. users'[f] = users[f] \ {p} /\ UNCHANGED <<pc, rd, stamps>>
    BY <1>6 DEF Close, TypeOK, feed
  <2>3. IF users[f] = {p} THEN chr'[f] = Closed ELSE chr'[f] = chr[f]
    BY <1>6 DEF Close, TypeOK
  <2>4. users[f] = {p} <=> users'[f] = {}
    BY <1>6, <2>2 DEF Close
  <2>5. Closed.sensor = NoSensor
    BY DEF Closed, NewState
  <2>6. \A q \in Procs : pc[q] # "idle" => /\ q \in users'[rd[q].file]
                                           /\ SensorOf(q)' = SensorOf(q)
    <3>1. pc[p] = "idle"
      BY <1>6 DEF Close
    <3> QED
      BY <3>1, <2>1, <2>2, <2>3 DEF ReaderInv, SensorOf
  <2>7. ASSUME NEW g \in Files
        PROVE  /\ users'[g] # {} <=> chr'[g].sensor \in Sensors
               /\ users'[g] = {} => chr'[g] = Closed
    BY <1>6, <2>1, <2>3, <2>4, <2>5 DEF ReaderInv, Close
  <2> QED
    BY <2>2, <2>6, <2>7 DEF ReaderInv
<1>7. ASSUME NEW p \in Procs, NEW f \in Files, Ioctl(p, f)
      PROVE  ReaderInv'
  <2>1. \A g \in Files : /\ chr'[g].sensor = chr[g].sensor
                         /\ g # f => chr'[g] = chr[g]
    BY <1>7 DEF Ioctl, TypeOK, State
  <2>2. users[f] # {} /\ UNCHANGED <<users, pc, rd, stamps>>
    BY <1>7 DEF Ioctl, feed
  <2> QED
    BY <2>1, <2>2 DEF ReaderInv, SensorOf
<1> QED
  BY <1>1, <1>2, <1>3, <1>4, <1>5, <1>6, <1>7, UpdaterLeavesProcs
  DEF Next, Program, vars

-----------------------------------------------------------------------------
(* The semaphore *)

\* A step inside read downs the semaphore of its file, ups it, or neither; and
\* it enters or leaves the critical section with it.
LEMMA SemaphoreMoves ==
  ASSUME TypeOK, ReaderInv, NEW p \in Procs, Reader(p) \/ Interruption(p)
  PROVE  LET f == rd[p].file
         IN  \/ /\ sem[f] = 1 /\ sem' = [sem EXCEPT ![f] = 0]
                /\ pc[p] \notin InSem /\ pc'[p] \in InSem /\ rd'[p].file = f
             \/ /\ sem' = [sem EXCEPT ![f] = 1]
                /\ pc[p] \in InSem /\ pc'[p] \notin InSem
             \/ /\ UNCHANGED sem
                /\ pc[p] \in InSem <=> pc'[p] \in InSem
                /\ pc'[p] \in InSem => rd'[p].file = f
<1>1. CASE Down(p) \/ Redown(p)
  BY <1>1 DEF Down, Redown, Goto, InSem, TypeOK, files
<1>2. CASE NoNewData(p) \/ Copy(p) \/ CopyFault(p)
  BY <1>2 DEF NoNewData, Copy, CopyFault, Goto, InSem, TypeOK
<1>3. CASE Snapshot(p) \/ Format(p)
  BY <1>3 DEF Snapshot, Format, Goto, InSem, TypeOK, Read
<1>4. CASE Interruption(p) \/ WaitCheck(p) \/ Prepare(p) \/ Recheck(p)
           \/ Woken(p) \/ ReadReturn(p)
  BY <1>4 DEF Interruption, WaitCheck, Prepare, Recheck, Woken, ReadReturn,
         Signal, InterruptedWait, InterruptedDown, Goto, InSem, TypeOK
<1> QED
  BY <1>1, <1>2, <1>3, <1>4 DEF Reader

\* Every step keeps the semaphore a lock.
LEMMA SemStep ==
  TypeOK /\ ReaderInv /\ SemExclusive /\ [Next]_vars => SemExclusive'
<1> SUFFICES ASSUME TypeOK, ReaderInv, SemExclusive, [Next]_vars
             PROVE  SemExclusive'
  OBVIOUS
<1>1. CASE UNCHANGED <<sem, pc, rd>>
  BY <1>1 DEF SemExclusive, Holds
<1>2. ASSUME NEW p \in Procs, Reader(p) \/ Interruption(p)
      PROVE  SemExclusive'
  <2> DEFINE f == rd[p].file
  <2>1. /\ f \in Files
        /\ \A q \in Procs, g \in Files : q # p => (Holds(q, g)' <=> Holds(q, g))
    BY <1>2, InsideRead DEF Holds
  <2>2. CASE /\ sem[f] = 1 /\ sem' = [sem EXCEPT ![f] = 0]
             /\ pc[p] \notin InSem /\ pc'[p] \in InSem /\ rd'[p].file = f
    <3>1. \A g \in Files : /\ ~Holds(p, g)
                           /\ Holds(p, g)' <=> g = f
                           /\ sem'[g] = IF g = f THEN 0 ELSE sem[g]
      BY <2>2 DEF Holds, TypeOK
    <3>2. \A q \in Procs : ~Holds(q, f)
      BY <2>1, <2>2 DEF SemExclusive
    <3> HIDE DEF f
    <3> QED
      BY <2>1, <3>1, <3>2 DEF SemExclusive
  <2>3. CASE /\ sem' = [sem EXCEPT ![f] = 1]
             /\ pc[p] \in InSem /\ pc'[p] \notin InSem
    <3>1. \A g \in Files : /\ Holds(p, g) <=> g = f
                           /\ ~Holds(p, g)'
                           /\ sem'[g] = IF g = f THEN 1 ELSE sem[g]
      BY <2>3 DEF Holds, TypeOK
    <3> HIDE DEF f
    <3> QED
      BY <2>1, <3>1 DEF SemExclusive
  <2>4. CASE /\ UNCHANGED sem
             /\ pc[p] \in InSem <=> pc'[p] \in InSem
             /\ pc'[p] \in InSem => rd'[p].file = f
    <3>1. \A g \in Files : Holds(p, g)' <=> Holds(p, g)
      BY <2>4 DEF Holds
    <3> QED
      BY <2>1, <2>4, <3>1 DEF SemExclusive
  <2> QED
    BY <1>2, <2>2, <2>3, <2>4, SemaphoreMoves
<1>3. ASSUME NEW p \in Procs, NEW f \in Files, NEW s \in Sensors, Open(p, f, s)
      PROVE  SemExclusive'
  <2>1. \A q \in Procs : ~Holds(q, f)
    BY <1>3 DEF Open, ReaderInv, Holds, InSem
  <2>2. \A q \in Procs, g \in Files : Holds(q, g)' <=> Holds(q, g)
    BY <1>3 DEF Open, Holds
  <2>3. \A g \in Files : sem'[g] = IF g = f THEN 1 ELSE sem[g]
    BY <1>3 DEF Open, TypeOK
  <2> QED
    BY <2>1, <2>2, <2>3 DEF SemExclusive
<1>4. ASSUME NEW p \in Procs, NEW f \in Files, NEW n \in Counts, ReadBegin(p, f, n)
      PROVE  SemExclusive'
  <2>1. \A q \in Procs, g \in Files : Holds(q, g)' <=> Holds(q, g)
    BY <1>4 DEF ReadBegin, Goto, Holds, InSem, TypeOK
  <2> QED
    BY <1>4, <2>1 DEF ReadBegin, SemExclusive
<1> QED
  BY <1>1, <1>2, <1>3, <1>4, UpdaterLeavesProcs
  DEF Next, Program, Fork, Close, Ioctl, vars

-----------------------------------------------------------------------------
(* The cached text *)

\* Steps that leave every cache and every pending snapshot as they were.
LEMMA CacheFrame ==
  ASSUME TypeOK, ReaderInv, Untorn, SnapInv, [Next]_vars,
         \A f \in Files : users'[f] # {} => /\ users[f] # {}
                                            /\ chr'[f].sensor = chr[f].sensor
                                            /\ chr'[f].buf_data = chr[f].buf_data
                                            /\ chr'[f].buf_timestamp = chr[f].buf_timestamp,
         \A p \in Procs : pc'[p] = "format" =>
           pc[p] = "format" /\ rd'[p] = rd[p] /\ users'[rd[p].file] # {}
  PROVE  Untorn' /\ SnapInv'
<1>1. Untorn'
  <2>1. ASSUME NEW f \in Files, users'[f] # {}
        PROVE  /\ chr'[f].buf_data <= Len(stamps'[chr'[f].sensor])
               /\ chr'[f].buf_timestamp = StampOf(chr[f].sensor, chr[f].buf_data)'
    <3>1. chr[f].sensor \in Sensors /\ chr[f].buf_data \in Nat
      BY <2>1 DEF ReaderInv, TypeOK, State
    <3>2. /\ chr[f].buf_data <= Len(stamps[chr[f].sensor])
          /\ chr[f].buf_timestamp = StampOf(chr[f].sensor, chr[f].buf_data)
      BY <2>1 DEF Untorn
    <3> QED
      BY <2>1, <3>1, <3>2, StampsGrow DEF StampOf
  <2> QED
    BY <2>1 DEF Untorn
<1>2. SnapInv'
  <2>1. ASSUME NEW p \in Procs, pc'[p] = "format"
        PROVE  /\ rd'[p].snap.id <= Len(stamps'[SensorOf(p)'])
               /\ rd'[p].snap.last_update = StampOf(SensorOf(p), rd[p].snap.id)'
               /\ chr'[rd'[p].file].buf_data <= rd'[p].snap.id
               /\ rd'[p].floor <= rd'[p].snap.id
    <3>1. /\ rd[p].file \in Files /\ users[rd[p].file] # {}
          /\ SensorOf(p) \in Sensors /\ SensorOf(p)' = SensorOf(p)
      BY <2>1 DEF ReaderInv, SensorOf
    <3>2. rd[p].snap.id \in Nat /\ rd[p].floor \in Nat
      BY DEF TypeOK, Read, Page
    <3>3. /\ pc[p] = "format" /\ rd'[p] = rd[p]
          /\ chr'[rd[p].file].buf_data = chr[rd[p].file].buf_data
      BY <2>1, <3>1
    <3> PICK s : s = SensorOf(p)
      OBVIOUS
    <3>4. /\ rd[p].snap.id <= Len(stamps[s])
          /\ rd[p].snap.last_update = StampOf(s, rd[p].snap.id)
          /\ chr[rd[p].file].buf_data <= rd[p].snap.id
          /\ rd[p].floor <= rd[p].snap.id
      BY <3>3 DEF SnapInv
    <3>5. s \in Sensors /\ SensorOf(p)' = s
      BY <3>1
    <3>6. /\ rd[p].snap.id <= Len(stamps'[s])
          /\ StampOf(s, rd[p].snap.id)' = StampOf(s, rd[p].snap.id)
      <4>1. rd[p].snap.id \in 0 .. Len(stamps[s])
        BY <3>2, <3>4, <3>5, StampsGrow
      <4>2. /\ Len(stamps[s]) \in Nat /\ Len(stamps'[s]) \in Nat
            /\ Len(stamps[s]) <= Len(stamps'[s])
        BY <3>5, StampsGrow
      <4>3. \A i \in 0 .. Len(stamps[s]) : StampOf(s, i)' = StampOf(s, i)
        BY <3>5, StampsGrow
      <4>4. StampOf(s, rd[p].snap.id)' = StampOf(s, rd[p].snap.id)
        BY <3>3, <4>1, <4>3 DEF StampOf
      <4> QED
        BY <3>2, <3>4, <4>2, <4>4
    <3>7. /\ rd[p].floor <= rd[p].snap.id
          /\ StampOf(SensorOf(p), rd[p].snap.id)' = StampOf(s, rd[p].snap.id)'
      BY <3>4, <3>5 DEF StampOf
    <3> QED
      BY <3>3, <3>4, <3>5, <3>6, <3>7
  <2> QED
    BY <2>1 DEF SnapInv
<1> QED
  BY <1>1, <1>2

\* The locked copy of the page is a whole measurement, no older than the read.
LEMMA SnapshotStep ==
  ASSUME IInv, NEW p \in Procs, Snapshot(p)
  PROVE  Untorn' /\ SnapInv'
<1> DEFINE s == SensorOf(p)
<1>1. s \in Sensors /\ rd[p].file \in Files /\ users[rd[p].file] # {}
  BY DEF IInv, ReaderInv, Snapshot, Goto, SensorOf
<1>2. UNCHANGED <<chr, users, stamps, msr>>
  BY DEF Snapshot, feed, files
<1>3. msr[s].id = Len(stamps[s]) /\ msr[s].last_update = StampOf(s, Len(stamps[s]))
  BY <1>1 DEF IInv, FeedInv, Snapshot
<1>4. /\ rd'[p].snap = msr[s] /\ rd'[p].file = rd[p].file /\ rd'[p].floor = rd[p].floor
      /\ \A q \in Procs : q # p => pc'[q] = pc[q] /\ rd'[q] = rd[q]
  BY DEF Snapshot, Goto, IInv, TypeOK, Read
<1>5. Untorn'
  BY <1>2 DEF IInv, Untorn, StampOf
<1>6. chr[rd[p].file].buf_data <= Len(stamps[s]) /\ rd[p].floor <= Len(stamps[s])
  BY <1>1 DEF IInv, Untorn, ReaderInv, SensorOf, Snapshot, Goto
<1>7. Len(stamps[s]) \in Nat
  BY <1>1 DEF IInv, TypeOK
<1>8. SensorOf(p)' = s /\ \A q \in Procs : q # p => SensorOf(q)' = SensorOf(q)
  BY <1>2, <1>4 DEF SensorOf
<1> HIDE DEF s
<1>9. ASSUME NEW q \in Procs, pc'[q] = "format"
      PROVE  /\ rd'[q].snap.id <= Len(stamps'[SensorOf(q)'])
             /\ rd'[q].snap.last_update = StampOf(SensorOf(q)', rd'[q].snap.id)
             /\ chr'[rd'[q].file].buf_data <= rd'[q].snap.id
             /\ rd'[q].floor <= rd'[q].snap.id
  <2>1. CASE q = p
    BY <2>1, <1>2, <1>3, <1>4, <1>6, <1>7, <1>8
  <2>2. CASE q # p
    BY <2>2, <1>9, <1>2, <1>4, <1>8 DEF IInv, SnapInv
  <2> QED
    BY <2>1, <2>2
<1> QED
  BY <1>2, <1>5, <1>9 DEF SnapInv, StampOf

\* Formatting a snapshot leaves a whole measurement in the cache.
LEMMA FormatStep ==
  ASSUME IInv, NEW p \in Procs, Format(p)
  PROVE  Untorn' /\ SnapInv'
<1> DEFINE f == rd[p].file
           snap == rd[p].snap
<1>1. f \in Files /\ users[f] # {}
  BY DEF IInv, ReaderInv, Format, Goto
<1>2. UNCHANGED <<users, stamps, rd>>
  BY DEF Format, feed
<1>3. /\ chr'[f].sensor = chr[f].sensor
      /\ chr'[f].buf_data = snap.id /\ chr'[f].buf_timestamp = snap.last_update
      /\ \A g \in Files : g # f => chr'[g] = chr[g]
  BY <1>1 DEF Format, IInv, TypeOK
<1>4. snap.id <= Len(stamps[SensorOf(p)]) /\ snap.last_update = StampOf(SensorOf(p), snap.id)
  BY DEF IInv, SnapInv, Format, Goto
<1>5. Untorn'
  <2>1. ASSUME NEW g \in Files, users[g] # {}
        PROVE  /\ chr'[g].buf_data <= Len(stamps[chr'[g].sensor])
               /\ chr'[g].buf_timestamp = StampOf(chr'[g].sensor, chr'[g].buf_data)
    <3>1. CASE g = f
      BY <3>1, <1>3, <1>4 DEF SensorOf
    <3>2. CASE g # f
      BY <2>1, <3>2, <1>3 DEF IInv, Untorn
    <3> QED
      BY <3>1, <3>2
  <2> QED
    BY <2>1, <1>2 DEF Untorn, StampOf
\* The semaphore keeps any other snapshot off this file.
<1>6. ASSUME NEW q \in Procs, pc'[q] = "format"
      PROVE  pc[q] = "format" /\ rd[q].file # f /\ rd[q].file \in Files
  <2>1. pc[q] = "format" /\ q # p
    BY <1>6 DEF Format, Goto, IInv, TypeOK
  <2>2. rd[q].file # f
    BY <1>1, <2>1 DEF IInv, SemExclusive, Holds, InSem, Format, Goto
  <2>3. rd[q].file \in Files
    BY <2>1 DEF IInv, ReaderInv
  <2> QED
    BY <2>1, <2>2, <2>3
<1>7. SnapInv'
  <2>1. ASSUME NEW q \in Procs, pc'[q] = "format"
        PROVE  /\ rd[q].snap.id <= Len(stamps[SensorOf(q)'])
               /\ rd[q].snap.last_update = StampOf(SensorOf(q)', rd[q].snap.id)
               /\ chr'[rd[q].file].buf_data <= rd[q].snap.id
               /\ rd[q].floor <= rd[q].snap.id
    <3>1. chr'[rd[q].file] = chr[rd[q].file] /\ pc[q] = "format"
      BY <2>1, <1>3, <1>6
    <3>2. SensorOf(q)' = SensorOf(q)
      BY <3>1, <1>2 DEF SensorOf
    <3> QED
      BY <3>1, <3>2 DEF IInv, SnapInv
  <2> QED
    BY <2>1, <1>2 DEF SnapInv, StampOf
<1> QED
  BY <1>5, <1>7

\* A fresh private state caches the zeroed page.
LEMMA OpenStep ==
  ASSUME IInv, NEW p \in Procs, NEW f \in Files, NEW s \in Sensors, Open(p, f, s)
  PROVE  Untorn' /\ SnapInv'
<1>1. /\ chr'[f] = NewState(s) /\ users[f] = {}
      /\ \A g \in Files : g # f => chr'[g] = chr[g] /\ users'[g] = users[g]
      /\ UNCHANGED <<stamps, pc, rd>>
  BY DEF Open, IInv, TypeOK
<1>2. Len(stamps[s]) \in Nat
  BY DEF IInv, TypeOK
<1>3. ASSUME NEW q \in Procs, pc[q] = "format"
      PROVE  chr'[rd[q].file] = chr[rd[q].file]
  BY <1>1, <1>3 DEF IInv, ReaderInv
<1>4. Untorn'
  BY <1>1, <1>2 DEF IInv, Untorn, NewState, StampOf
<1>5. SnapInv'
  BY <1>1, <1>3 DEF IInv, SnapInv, SensorOf, StampOf
<1> QED
  BY <1>4, <1>5

\* Every step keeps caches and pending snapshots whole.
LEMMA CacheStep == IInv /\ [Next]_vars => Untorn' /\ SnapInv'
<1> SUFFICES ASSUME IInv, [Next]_vars PROVE Untorn' /\ SnapInv'
  OBVIOUS
<1> USE DEF IInv
<1>1. CASE UNCHANGED <<chr, users, pc, rd>>
  BY <1>1, CacheFrame DEF ReaderInv
<1>2. ASSUME NEW p \in Procs, Reader(p) \/ Interruption(p)
      PROVE  Untorn' /\ SnapInv'
  <2>1. CASE Snapshot(p)
    BY <2>1, SnapshotStep
  <2>2. CASE Format(p)
    BY <2>2, FormatStep
  <2>3. CASE ~Snapshot(p) /\ ~Format(p)
    <3>1. UNCHANGED <<chr, users>>
      BY <1>2, <2>3 DEF Reader, Interruption, Down, NoNewData, WaitCheck, Prepare,
           Recheck, Woken, Redown, Copy, CopyFault, ReadReturn, Signal,
           InterruptedWait, InterruptedDown, files
    <3>2. pc'[p] # "format"
      BY <1>2, <2>3 DEF Reader, Interruption, Down, NoNewData, WaitCheck, Prepare,
           Recheck, Woken, Redown, Copy, CopyFault, ReadReturn, Signal,
           InterruptedWait, InterruptedDown, Goto, TypeOK
    <3>3. \A q \in Procs : q # p => pc'[q] = pc[q] /\ rd'[q] = rd[q]
      BY <1>2, InsideRead
    <3> QED
      BY <3>1, <3>2, <3>3, CacheFrame DEF ReaderInv
  <2> QED
    BY <2>1, <2>2, <2>3
<1>3. ASSUME NEW p \in Procs, NEW f \in Files, NEW s \in Sensors, Open(p, f, s)
      PROVE  Untorn' /\ SnapInv'
  BY <1>3, OpenStep
<1>4. ASSUME NEW p \in Procs, NEW q \in Procs, NEW f \in Files, Fork(p, q, f)
      PROVE  Untorn' /\ SnapInv'
  <2>1. UNCHANGED <<chr, pc, rd>> /\ \A g \in Files : users'[g] # {} <=> users[g] # {}
    BY <1>4 DEF Fork, TypeOK
  <2> QED
    BY <2>1, CacheFrame DEF ReaderInv
<1>5. ASSUME NEW p \in Procs, NEW f \in Files, NEW n \in Counts, ReadBegin(p, f, n)
      PROVE  Untorn' /\ SnapInv'
  <2>1. UNCHANGED <<chr, users>>
    BY <1>5 DEF ReadBegin, files
  <2>2. \A q \in Procs : pc'[q] = "format" => pc[q] = "format" /\ rd'[q] = rd[q]
    BY <1>5 DEF ReadBegin, Goto, TypeOK
  <2> QED
    BY <2>1, <2>2, CacheFrame DEF ReaderInv
<1>6. ASSUME NEW p \in Procs, NEW f \in Files, Close(p, f)
      PROVE  Untorn' /\ SnapInv'
  <2>1. /\ pc[p] = "idle" /\ UNCHANGED <<pc, rd>>
        /\ users'[f] = users[f] \ {p}
        /\ \A g \in Files : g # f => users'[g] = users[g] /\ chr'[g] = chr[g]
    BY <1>6 DEF Close, TypeOK
  <2>2. users'[f] # {} => users[f] # {} /\ chr'[f] = chr[f]
    BY <1>6, <2>1 DEF Close, TypeOK
  <2>3. \A q \in Procs : pc'[q] = "format" => /\ pc[q] = "format"
                                             /\ users'[rd[q].file] # {}
    BY <2>1 DEF ReaderInv
  <2> QED
    BY <2>1, <2>2, <2>3, CacheFrame
<1>7. ASSUME NEW p \in Procs, NEW f \in Files, Ioctl(p, f)
      PROVE  Untorn' /\ SnapInv'
  <2>1. \A g \in Files : /\ chr'[g].sensor = chr[g].sensor
                         /\ chr'[g].buf_data = chr[g].buf_data
                         /\ chr'[g].buf_timestamp = chr[g].buf_timestamp
    BY <1>7 DEF Ioctl, TypeOK, State
  <2>2. UNCHANGED <<users, pc, rd>>
    BY <1>7 DEF Ioctl
  <2> QED
    BY <2>1, <2>2, CacheFrame DEF ReaderInv
<1> QED
  BY <1>1, <1>2, <1>3, <1>4, <1>5, <1>6, <1>7, UpdaterLeavesProcs
  DEF Next, Program, vars

-----------------------------------------------------------------------------
(* Wake-ups *)

\* Steps that put nobody to sleep, queue no sleeper and move no timestamp a
\* sleeper looks at, while the updater stays where it is.
LEMMA WakeFrame ==
  ASSUME IInv, UNCHANGED <<msr, upd>>,
         \A q \in Procs : pc'[q] = "asleep" =>
           /\ pc[q] = "asleep" /\ rd'[q] = rd[q]
           /\ chr'[rd[q].file].sensor = chr[rd[q].file].sensor
           /\ chr'[rd[q].file].buf_timestamp = chr[rd[q].file].buf_timestamp
           /\ q \in wq'[SensorOf(q)] => q \in wq[SensorOf(q)]
  PROVE  NoLostWakeup'
<1>1. ASSUME NEW q \in Procs, pc'[q] = "asleep", q \in wq'[SensorOf(q)'],
             NeedsRefresh(rd[q].file)'
      PROVE  upd'.sensor = SensorOf(q)' /\ upd'.at \in {"unlock", "wake"}
  <2>1. /\ pc[q] = "asleep" /\ rd'[q] = rd[q]
        /\ SensorOf(q)' = SensorOf(q)
        /\ NeedsRefresh(rd[q].file)
        /\ q \in wq[SensorOf(q)]
    BY <1>1 DEF SensorOf, NeedsRefresh
  <2> QED
    BY <2>1 DEF IInv, NoLostWakeup
<1> QED
  BY <1>1 DEF NoLostWakeup, NeedsRefresh

\* Every step keeps a stale sleeper on its way to being woken.
LEMMA WakeStep == IInv /\ [Next]_vars => NoLostWakeup'
<1> SUFFICES ASSUME IInv, [Next]_vars PROVE NoLostWakeup'
  OBVIOUS
<1> USE DEF IInv
<1>1. ASSUME NEW s \in Sensors, NEW v \in RawValues, BeginUpdate(s, v)
      PROVE  NoLostWakeup'
  <2>1. \A t \in Sensors : msr'[t].last_update = msr[t].last_update
    BY <1>1 DEF BeginUpdate, TypeOK, Page
  <2>2. \A q \in Procs : pc[q] = "asleep" => SensorOf(q) \in Sensors
    BY DEF ReaderInv, SensorOf
  <2>3. upd.at = "idle" /\ UNCHANGED <<wq, chr, pc, rd>>
    BY <1>1 DEF BeginUpdate
  <2> QED
    BY <2>1, <2>2, <2>3 DEF NoLostWakeup, SensorOf, NeedsRefresh
<1>2. CASE StampUpdate
  <2>1. /\ upd.at = "stamp" /\ upd'.at = "unlock" /\ upd'.sensor = upd.sensor
        /\ UNCHANGED <<wq, chr, pc, rd>>
        /\ \A t \in Sensors : t # upd.sensor => msr'[t] = msr[t]
    BY <1>2 DEF StampUpdate, TypeOK, Updating
  <2>2. \A q \in Procs : pc[q] = "asleep" => SensorOf(q) \in Sensors
    BY DEF ReaderInv, SensorOf
  <2> QED
    BY <2>1, <2>2 DEF NoLostWakeup, SensorOf, NeedsRefresh
<1>3. CASE EndUpdate
  <2>1. /\ upd.at = "unlock" /\ upd'.at = "wake" /\ upd'.sensor = upd.sensor
        /\ UNCHANGED <<wq, chr, pc, rd, msr>>
    BY <1>3 DEF EndUpdate, TypeOK, Updating
  <2> QED
    BY <2>1 DEF NoLostWakeup, SensorOf, NeedsRefresh
<1>4. CASE WakeSleepers
  <2>1. /\ wq'[upd.sensor] = {}
        /\ \A t \in Sensors : t # upd.sensor => wq'[t] = wq[t]
        /\ UNCHANGED <<chr, pc, rd, msr>>
    BY <1>4 DEF WakeSleepers, TypeOK
  <2>2. \A q \in Procs : pc[q] = "asleep" => SensorOf(q) \in Sensors
    BY DEF ReaderInv, SensorOf
  <2> QED
    BY <2>1, <2>2 DEF NoLostWakeup, SensorOf, NeedsRefresh
<1>5. CASE UNCHANGED <<msr, upd, wq, chr, pc, rd>>
  BY <1>5, WakeFrame
<1>6. ASSUME NEW p \in Procs, Reader(p) \/ Interruption(p)
      PROVE  NoLostWakeup'
  <2>1. UNCHANGED <<msr, upd>>
    BY <1>6, ProcsLeaveFeed DEF feed
  <2>2. /\ \A q \in Procs : q # p => pc'[q] = pc[q] /\ rd'[q] = rd[q]
        /\ SensorOf(p) \in Sensors
    BY <1>6, InsideRead
  <2>3. CASE Format(p)
    <3>1. /\ pc'[p] = "copy" /\ rd' = rd /\ wq' = wq /\ NeedsRefresh(rd[p].file)
          /\ \A g \in Files : /\ chr'[g].sensor = chr[g].sensor
                              /\ g # rd[p].file => chr'[g] = chr[g]
      BY <2>3 DEF Format, Goto, TypeOK
    <3>2. ASSUME NEW q \in Procs, pc'[q] = "asleep", q \in wq'[SensorOf(q)'],
                 NeedsRefresh(rd[q].file)'
          PROVE  upd'.sensor = SensorOf(q)' /\ upd'.at \in {"unlock", "wake"}
      <4>1. pc[q] = "asleep" /\ rd[q].file \in Files
        BY <2>2, <3>1, <3>2 DEF ReaderInv
      <4>2. SensorOf(q)' = SensorOf(q) /\ q \in wq[SensorOf(q)]
        BY <3>1, <3>2, <4>1 DEF SensorOf
      <4>3. NeedsRefresh(rd[q].file)
        <5>1. CASE rd[q].file = rd[p].file
          BY <5>1, <3>1
        <5>2. CASE rd[q].file # rd[p].file
          BY <5>2, <2>1, <3>1, <3>2, <4>1 DEF NeedsRefresh
        <5> QED
          BY <5>1, <5>2
      <4> QED
        BY <2>1, <4>1, <4>2, <4>3 DEF NoLostWakeup
    <3> QED
      BY <3>2, <3>1 DEF NoLostWakeup, NeedsRefresh
  <2>4. CASE Recheck(p)
    <3>1. UNCHANGED <<chr, rd>>
      BY <2>4 DEF Recheck, files
    <3>2. pc'[p] = "asleep" => ~NeedsRefresh(rd[p].file)
      BY <2>4 DEF Recheck, Goto, TypeOK
    <3>3. \A q \in Procs, s \in Sensors : q # p => (q \in wq'[s] <=> q \in wq[s])
      BY <2>4, <2>2 DEF Recheck, TypeOK
    <3>4. \A q \in Procs : pc[q] = "asleep" => SensorOf(q) \in Sensors
      BY DEF ReaderInv, SensorOf
    <3> QED
      BY <2>1, <2>2, <3>1, <3>2, <3>3, <3>4 DEF NoLostWakeup, NeedsRefresh, SensorOf
  <2>5. CASE ~Format(p) /\ ~Recheck(p)
    <3>1. UNCHANGED chr /\ pc'[p] # "asleep"
      BY <1>6, <2>5 DEF Reader, Interruption, Down, Snapshot, NoNewData, WaitCheck,
           Prepare, Woken, Redown, Copy, CopyFault, ReadReturn, Signal,
           InterruptedWait, InterruptedDown, Goto, files, TypeOK
    <3>2. \A q \in Procs, s \in Sensors : q # p => (q \in wq'[s] <=> q \in wq[s])
      <4>1. CASE Prepare(p) \/ InterruptedWait(p)
        <5> DEFINE o == SensorOf(p)
        <5>1. \A s \in Sensors : s # o => wq'[s] = wq[s]
          BY <4>1 DEF Prepare, InterruptedWait, TypeOK
        <5>2. o \in Sensors => wq'[o] = wq[o] \union {p} \/ wq'[o] = wq[o] \ {p}
          BY <4>1 DEF Prepare, InterruptedWait, TypeOK
        <5> HIDE DEF o
        <5> QED
          BY <5>1, <5>2
      <4>2. CASE ~Prepare(p) /\ ~InterruptedWait(p)
        BY <1>6, <2>5, <4>2 DEF Reader, Interruption, Down, Snapshot, NoNewData,
             WaitCheck, Woken, Redown, Copy, CopyFault, ReadReturn, Signal,
             InterruptedDown
      <4> QED
        BY <4>1, <4>2
    <3>3. \A q \in Procs : pc[q] = "asleep" => SensorOf(q) \in Sensors
      BY DEF ReaderInv, SensorOf
    <3> QED
      BY <2>1, <2>2, <3>1, <3>2, <3>3, WakeFrame
  <2> QED
    BY <2>3, <2>4, <2>5
<1>7. ASSUME NEW p \in Procs, Program(p)
      PROVE  NoLostWakeup'
  <2>1. UNCHANGED <<msr, upd, wq>>
    BY <1>7, ProcsLeaveFeed DEF feed, Program, Open, Fork, ReadBegin, Close, Ioctl
  <2>2. \A q \in Procs : pc'[q] = "asleep" => pc[q] = "asleep" /\ rd'[q] = rd[q]
    BY <1>7 DEF Program, Open, Fork, ReadBegin, Close, Ioctl, Goto, TypeOK
  <2>3. ASSUME NEW q \in Procs, pc[q] = "asleep"
        PROVE  /\ chr'[rd[q].file].sensor = chr[rd[q].file].sensor
               /\ chr'[rd[q].file].buf_timestamp = chr[rd[q].file].buf_timestamp
    <3> DEFINE g == rd[q].file
    <3>1. g \in Files /\ q \in users[g]
      BY <2>3 DEF ReaderInv
    <3>2. ASSUME NEW f \in Files, NEW s \in Sensors, Open(p, f, s)
          PROVE  chr'[g] = chr[g]
      BY <3>1, <3>2 DEF Open, TypeOK
    <3>3. ASSUME NEW f \in Files, Close(p, f)
          PROVE  chr'[g] = chr[g]
      BY <2>3, <3>1, <3>3 DEF Close, TypeOK
    <3>4. ASSUME NEW f \in Files, Ioctl(p, f)
          PROVE  /\ chr'[g].sensor = chr[g].sensor
                 /\ chr'[g].buf_timestamp = chr[g].buf_timestamp
      BY <3>1, <3>4 DEF Ioctl, TypeOK, State
    <3> QED
      BY <1>7, <3>2, <3>3, <3>4 DEF Program, Fork, ReadBegin, files
  <2> QED
    BY <2>1, <2>2, <2>3, WakeFrame
<1> QED
  BY <1>1, <1>2, <1>3, <1>4, <1>5, <1>6, <1>7 DEF Next, Updater, Tick, vars

-----------------------------------------------------------------------------
(* Theorems *)

\* The initial state satisfies the invariant.
LEMMA InitInv == Init => IInv
<1> SUFFICES ASSUME Init PROVE IInv
  OBVIOUS
<1> USE ConstantsAssumption
<1>1. TypeOK
  BY InitType
<1>2. FeedInv /\ StampInv
  BY DEF Init, FeedInv, StampInv, StampOf, ZeroPage
<1>3. ReaderInv
  BY DEF Init, ReaderInv, Closed, NewState, NoRead
<1>4. SemExclusive
  BY DEF Init, SemExclusive, Holds, InSem
<1>5. Untorn /\ SnapInv /\ NoLostWakeup
  BY DEF Init, Untorn, SnapInv, NoLostWakeup
<1> QED
  BY <1>1, <1>2, <1>3, <1>4, <1>5 DEF IInv

\* Every reachable state of the driver satisfies the inductive invariant,
\* whatever the interleaving of the updater with the readers.
THEOREM Invariance == Spec => []IInv
<1>1. Init => IInv
  BY InitInv
<1>2. IInv /\ [Next]_vars => IInv'
  BY TypeStep, FeedStep, ReaderStep, SemStep, CacheStep, WakeStep DEF IInv
<1> QED
  BY <1>1, <1>2, PTL DEF Spec

\* The variables keep their types; no path ups a semaphore twice.
THEOREM TypeCorrect == Spec => []TypeOK
<1>1. IInv => TypeOK
  BY DEF IInv
<1> QED
  BY <1>1, Invariance, PTL

\* At most one process is between down and up on an open file, and the
\* semaphore says so (lunix_chrdev_read, every exit).
THEOREM MutualExclusion == Spec => []SemExclusive
<1>1. IInv => SemExclusive
  BY DEF IInv
<1> QED
  BY <1>1, Invariance, PTL

\* The cached text and its timestamp belong to one measurement
\* (lunix_chrdev_state_update).
THEOREM NeverTorn == Spec => []Untorn
<1>1. IInv => Untorn
  BY DEF IInv
<1> QED
  BY <1>1, Invariance, PTL

\* No sleeper misses its wake-up (lunix_sensor_update against
\* wait_event_interruptible).
THEOREM WakeupsArrive == Spec => []NoLostWakeup
<1>1. IInv => NoLostWakeup
  BY DEF IInv
<1> QED
  BY <1>1, Invariance, PTL

\* If the reports of a sensor are at least a second apart, a process sleeping
\* while no update is under way holds the latest measurement.
THEOREM SleepersAreCurrent ==
  ASSUME MinGap > 0
  PROVE  Spec => []SleeperIsCurrent
<1>1. IInv => SleeperIsCurrent
  <2> SUFFICES ASSUME IInv, NEW p \in Procs, pc[p] = "asleep",
                      p \in wq[SensorOf(p)], upd.at = "idle"
               PROVE  chr[rd[p].file].buf_data = Len(stamps[SensorOf(p)])
    BY DEF SleeperIsCurrent
  <2> DEFINE s == SensorOf(p)
             b == chr[rd[p].file].buf_data
             L == Len(stamps[s])
  <2>1. /\ rd[p].file \in Files /\ users[rd[p].file] # {} /\ s \in Sensors
    BY DEF IInv, ReaderInv, SensorOf
  <2>2. msr[s].last_update = chr[rd[p].file].buf_timestamp
    BY DEF IInv, NoLostWakeup, NeedsRefresh, SensorOf
  <2>3. msr[s].last_update = StampOf(s, L)
    BY <2>1 DEF IInv, FeedInv
  <2>4. b <= L /\ chr[rd[p].file].buf_timestamp = StampOf(s, b)
    BY <2>1 DEF IInv, Untorn, SensorOf
  <2>5. b \in Nat /\ L \in Nat /\ stamps[s] \in Seq(Nat \ {0})
    BY <2>1 DEF IInv, TypeOK, State
  <2>6. \A i \in 1 .. L : stamps[s][i] \in Nat \ {0}
    BY <2>5
  <2>7. \A i, j \in 1 .. L : i < j => stamps[s][i] + MinGap <= stamps[s][j]
    BY <2>1 DEF IInv, StampInv
  <2>8. StampOf(s, b) = StampOf(s, L)
    BY <2>2, <2>3, <2>4
  <2> HIDE DEF s, b, L
  <2>9. CASE b < L
    <3>1. L \in 1 .. L /\ StampOf(s, L) = stamps[s][L] /\ stamps[s][L] \in Nat \ {0}
      BY <2>5, <2>6, <2>9 DEF StampOf
    <3>2. CASE b = 0
      BY <3>1, <3>2, <2>8 DEF StampOf
    <3>3. CASE b # 0
      <4>1. b \in 1 .. L
        BY <2>5, <2>9, <3>3
      <4>2. stamps[s][b] = stamps[s][L] /\ stamps[s][b] + MinGap <= stamps[s][L]
        BY <4>1, <3>1, <3>3, <2>7, <2>8, <2>9 DEF StampOf
      <4> QED
        BY <4>2, <3>1, ConstantsAssumption
    <3> QED
      BY <3>2, <3>3
  <2> QED
    BY <2>4, <2>5, <2>9 DEF s, b, L
<1> QED
  BY <1>1, Invariance, PTL

\* What an open file holds never goes back, in number or in timestamp
\* (lunix_chrdev_state_update formats after the spinlock is released).
THEOREM Monotonic == Spec => NeverGoesBack
<1>1. IInv /\ [Next]_vars =>
        \A f \in Files : users[f] # {} /\ users'[f] # {} =>
          /\ chr[f].buf_data <= chr'[f].buf_data
          /\ chr[f].buf_timestamp <= chr'[f].buf_timestamp
  <2> SUFFICES ASSUME IInv, [Next]_vars, NEW f \in Files,
                      users[f] # {}, users'[f] # {}
               PROVE  /\ chr[f].buf_data <= chr'[f].buf_data
                      /\ chr[f].buf_timestamp <= chr'[f].buf_timestamp
    OBVIOUS
  <2>1. chr[f] \in State /\ chr[f].buf_data \in Nat /\ chr[f].buf_timestamp \in Nat
    BY DEF IInv, TypeOK, State
  <2>2. CASE chr'[f].buf_data = chr[f].buf_data
             /\ chr'[f].buf_timestamp = chr[f].buf_timestamp
    BY <2>1, <2>2
  <2>3. ASSUME NEW p \in Procs, Format(p), rd[p].file = f
        PROVE  /\ chr[f].buf_data <= chr'[f].buf_data
               /\ chr[f].buf_timestamp <= chr'[f].buf_timestamp
    <3> DEFINE snap == rd[p].snap
               s == SensorOf(p)
               b == chr[f].buf_data
    <3>1. chr'[f].buf_data = snap.id /\ chr'[f].buf_timestamp = snap.last_update
      BY <2>3 DEF Format, IInv, TypeOK
    <3>2. /\ snap.id <= Len(stamps[s]) /\ b <= snap.id
          /\ snap.last_update = StampOf(s, snap.id)
      BY <2>3 DEF IInv, SnapInv, Format, Goto
    <3>3. /\ s \in Sensors /\ chr[f].buf_timestamp = StampOf(s, b)
      BY <2>3 DEF IInv, ReaderInv, Untorn, SensorOf, Format, Goto
    <3>4. /\ stamps[s] \in Seq(Nat \ {0}) /\ Len(stamps[s]) \in Nat
          /\ snap.id \in Nat
      BY <3>3 DEF IInv, TypeOK, Read, Page
    <3>5. \A i, j \in 1 .. Len(stamps[s]) :
             i < j => stamps[s][i] + MinGap <= stamps[s][j]
      BY <3>3 DEF IInv, StampInv
    <3>6. \A i \in 1 .. Len(stamps[s]) : stamps[s][i] \in Nat
      BY <3>4
    <3> HIDE DEF snap, s, b
    <3>7. CASE b = snap.id
      BY <3>1, <3>2, <3>3, <3>7, <2>1 DEF b
    <3>8. CASE b # snap.id /\ b = 0
      <4>1. snap.id \in 1 .. Len(stamps[s])
        BY <3>2, <3>4, <3>8
      <4> QED
        BY <4>1, <3>1, <3>2, <3>3, <3>4, <3>6, <3>8 DEF b, StampOf
    <3>9. CASE b # snap.id /\ b # 0
      <4>1. b \in Nat
        BY <2>1 DEF b
      <4>2. b < snap.id /\ snap.id \in 1 .. Len(stamps[s]) /\ b \in 1 .. Len(stamps[s])
        BY <4>1, <3>2, <3>4, <3>9
      <4>3. /\ stamps[s][b] + MinGap <= stamps[s][snap.id]
            /\ stamps[s][b] \in Nat /\ stamps[s][snap.id] \in Nat
        BY <4>2, <3>5, <3>6
      <4>4. stamps[s][b] <= stamps[s][snap.id]
        BY <4>3, ConstantsAssumption
      <4>5. chr[f].buf_timestamp = stamps[s][b] /\ snap.last_update = stamps[s][snap.id]
        BY <4>2, <3>2, <3>3, <3>9 DEF StampOf
      <4> QED
        BY <4>2, <4>4, <4>5, <3>1, <3>2 DEF b
    <3> QED
      BY <3>7, <3>8, <3>9
  <2>4. ASSUME NEW p \in Procs, Reader(p) \/ Interruption(p)
        PROVE  /\ chr[f].buf_data <= chr'[f].buf_data
               /\ chr[f].buf_timestamp <= chr'[f].buf_timestamp
    <3>1. CASE Format(p)
      BY <3>1, <2>2, <2>3 DEF Format, IInv, TypeOK
    <3>2. CASE ~Format(p)
      BY <2>4, <3>2, <2>2 DEF Reader, Interruption, Down, Snapshot, NoNewData,
           WaitCheck, Prepare, Recheck, Woken, Redown, Copy, CopyFault, ReadReturn,
           Signal, InterruptedWait, InterruptedDown, files
    <3> QED
      BY <3>1, <3>2
  <2>5. ASSUME NEW p \in Procs, Program(p)
        PROVE  /\ chr'[f].buf_data = chr[f].buf_data
               /\ chr'[f].buf_timestamp = chr[f].buf_timestamp
    <3>1. ASSUME NEW g \in Files, NEW s \in Sensors, Open(p, g, s)
          PROVE  chr'[f] = chr[f]
      BY <3>1 DEF Open, IInv, TypeOK
    <3>2. ASSUME NEW g \in Files, Close(p, g)
          PROVE  chr'[f] = chr[f]
      BY <3>2 DEF Close, IInv, TypeOK
    <3>3. ASSUME NEW g \in Files, Ioctl(p, g)
          PROVE  /\ chr'[f].buf_data = chr[f].buf_data
                 /\ chr'[f].buf_timestamp = chr[f].buf_timestamp
      BY <3>3 DEF Ioctl, IInv, TypeOK, State
    <3> QED
      BY <2>5, <3>1, <3>2, <3>3 DEF Program, Fork, ReadBegin, files
  <2> QED
    BY <2>2, <2>4, <2>5, UpdaterLeavesProcs DEF Next, vars
<1> QED
  BY <1>1, Invariance, PTL DEF Spec, NeverGoesBack

-----------------------------------------------------------------------------
(* The device implements the feed *)

\* What the feed sees of a process.
RequestOf(p) == IF Asks(p)
                THEN [file |-> rd[p].file, floor |-> rd[p].floor,
                      answered |-> pc[p] = "copy"]
                ELSE [file |-> NoFile, floor |-> 0, answered |-> FALSE]

\* The initial state of the device is the initial state of the feed.
LEMMA FeedInit == Init => Feed!Init
  BY DEF Init, Feed!Init, Feed!NoRequest, Asks, Asking, Closed, NewState

\* Steps the feed does not see.
LEMMA Invisible ==
  ASSUME \A s \in Sensors : Len(stamps'[s]) = Len(stamps[s]),
         \A f \in Files : /\ chr'[f].sensor = chr[f].sensor
                          /\ chr'[f].buf_data = chr[f].buf_data,
         \A p \in Procs : RequestOf(p)' = RequestOf(p)
  PROVE  UNCHANGED Feed!vars
  BY DEF Feed!vars, RequestOf, Asks

\* Stamping the page publishes a measurement.
LEMMA FeedPublish ==
  ASSUME IInv, StampUpdate
  PROVE  Feed!Next
<1> PICK s \in Sensors : s = upd.sensor
  BY DEF StampUpdate, IInv, TypeOK
<1>1. stamps[s] \in Seq(Nat \ {0}) /\ now \in Nat \ {0}
  BY DEF IInv, TypeOK
<1>2. stamps' = [stamps EXCEPT ![s] = Append(stamps[s], now)]
  BY DEF StampUpdate
<1>3. \A t \in Sensors : Len(stamps'[t]) = IF t = s THEN Len(stamps[s]) + 1
                                                     ELSE Len(stamps[t])
  BY <1>1, <1>2 DEF IInv, TypeOK
<1>4. UNCHANGED <<chr, pc, rd>>
  BY DEF StampUpdate
<1>5. Feed!Publish(s)
  <2> DEFINE published == [t \in Sensors |-> Len(stamps[t])]
  <2>1. [t \in Sensors |-> Len(stamps'[t])]
          = [published EXCEPT ![s] = published[s] + 1]
    BY <1>1, <1>3
  <2> QED
    BY <2>1, <1>4 DEF Feed!Publish, Asks
<1> QED
  BY <1>5 DEF Feed!Next

\* open gives a file its source.
LEMMA FeedOpen ==
  ASSUME IInv, NEW p \in Procs, NEW f \in Files, NEW s \in Sensors, Open(p, f, s)
  PROVE  Feed!Next
<1>1. /\ chr[f] = Closed /\ UNCHANGED <<stamps, pc, rd>>
      /\ \A g \in Files : chr'[g] = IF g = f THEN NewState(s) ELSE chr[g]
  BY DEF Open, IInv, TypeOK, ReaderInv
<1>a. \A g \in Files : chr'[g].sensor = IF g = f THEN s ELSE chr[g].sensor
  BY <1>1 DEF NewState
<1>2. [g \in Files |-> chr'[g].sensor]
        = [[g \in Files |-> chr[g].sensor] EXCEPT ![f] = s]
  BY <1>a
<1>3. [g \in Files |-> chr'[g].buf_data] = [g \in Files |-> chr[g].buf_data]
  BY <1>1 DEF NewState, Closed
<1>4. Feed!Open(f, s)
  BY <1>1, <1>2, <1>3 DEF Feed!Open, Closed, NewState, Asks
<1> QED
  BY <1>4 DEF Feed!Next

\* The last close takes the source away; an earlier one is invisible.
LEMMA FeedClose ==
  ASSUME IInv, NEW p \in Procs, NEW f \in Files, Close(p, f)
  PROVE  Feed!Next \/ UNCHANGED Feed!vars
<1>1. UNCHANGED <<stamps, pc, rd>> /\ pc[p] = "idle" /\ p \in users[f]
  BY DEF Close, feed
<1>2. CASE users[f] # {p}
  BY <1>1, <1>2 DEF Close, Feed!vars, Asks
<1>3. CASE users[f] = {p}
  <2>1. \A g \in Files : chr'[g] = IF g = f THEN Closed ELSE chr[g]
    BY <1>3 DEF Close, IInv, TypeOK
  <2>a. \A g \in Files :
           /\ chr'[g].sensor = IF g = f THEN NoSensor ELSE chr[g].sensor
           /\ chr'[g].buf_data = IF g = f THEN 0 ELSE chr[g].buf_data
    BY <2>1 DEF Closed, NewState
  <2>2. [g \in Files |-> chr'[g].sensor]
          = [[g \in Files |-> chr[g].sensor] EXCEPT ![f] = NoSensor]
    BY <2>a
  <2>3. [g \in Files |-> chr'[g].buf_data]
          = [[g \in Files |-> chr[g].buf_data] EXCEPT ![f] = 0]
    BY <2>a
  <2>4. chr[f].sensor # NoSensor
    BY <1>1, ConstantsAssumption DEF IInv, ReaderInv
  <2>5. ASSUME NEW q \in Procs
        PROVE  RequestOf(q).file # f
    <3>1. CASE Asks(q)
      <4>1. pc[q] # "idle"
        BY <3>1 DEF Asks, Asking
      <4>2. rd[q].file # f
        BY <4>1, <1>1, <1>3 DEF IInv, ReaderInv
      <4> QED
        BY <3>1, <4>2 DEF RequestOf
    <3>2. CASE ~Asks(q)
      BY <3>2, ConstantsAssumption DEF RequestOf
    <3> QED
      BY <3>1, <3>2
  <2>6. Feed!Close(f)
    BY <1>1, <2>2, <2>3, <2>4, <2>5 DEF Feed!Close, Asks, RequestOf
  <2> QED
    BY <2>6 DEF Feed!Next
<1> QED
  BY <1>2, <1>3

\* A read at position 0 is a question.
LEMMA FeedAsk ==
  ASSUME IInv, NEW p \in Procs, NEW f \in Files, NEW n \in Counts, ReadBegin(p, f, n)
  PROVE  Feed!Next \/ UNCHANGED Feed!vars
<1>1. /\ UNCHANGED <<stamps, chr>> /\ pc[p] = "idle" /\ pc'[p] = "down"
      /\ rd'[p].file = f /\ rd'[p].pos = f_pos[f]
      /\ rd'[p].floor = Len(stamps[chr[f].sensor])
      /\ \A q \in Procs : q # p => pc'[q] = pc[q] /\ rd'[q] = rd[q]
  BY DEF ReadBegin, Goto, feed, files, IInv, TypeOK
<1>2. /\ RequestOf(p) = Feed!NoRequest
      /\ \A q \in Procs : q # p => RequestOf(q)' = RequestOf(q)
  BY <1>1 DEF RequestOf, Asks, Asking, Feed!NoRequest
<1>3. CASE f_pos[f] # 0
  <2>1. RequestOf(p)' = RequestOf(p)
    BY <1>1, <1>3 DEF RequestOf, Asks, Asking
  <2> QED
    BY <1>1, <1>2, <2>1, Invisible
<1>4. CASE f_pos[f] = 0
  <2>1. RequestOf(p)' = [file |-> f, answered |-> FALSE,
                         floor |-> Len(stamps[chr[f].sensor])]
    BY <1>1, <1>4 DEF RequestOf, Asks, Asking
  <2>2. [q \in Procs |-> RequestOf(q)']
          = [[q \in Procs |-> RequestOf(q)] EXCEPT ![p] =
               [file |-> f, answered |-> FALSE,
                floor |-> Len(stamps[chr[f].sensor])]]
    BY <1>2, <2>1
  <2>3. chr[f].sensor # NoSensor /\ chr[f].sensor \in Sensors
    BY ConstantsAssumption DEF IInv, ReaderInv, ReadBegin
  <2>4. Feed!Ask(p, f)
    BY <1>1, <1>2, <2>2, <2>3 DEF Feed!Ask, RequestOf
  <2> QED
    BY <2>4 DEF Feed!Next
<1> QED
  BY <1>3, <1>4

\* Formatting a snapshot is the answer.
LEMMA FeedAnswer ==
  ASSUME IInv, NEW p \in Procs, Format(p)
  PROVE  Feed!Next
<1> PICK f \in Files : f = rd[p].file
  BY DEF IInv, ReaderInv, Format, Goto
<1> PICK m \in Nat : m = rd[p].snap.id
  BY DEF IInv, TypeOK, Read, Page
<1>1. /\ UNCHANGED <<stamps, rd>> /\ pc[p] = "format" /\ pc'[p] = "copy"
      /\ rd[p].pos = 0
      /\ \A q \in Procs : q # p => pc'[q] = pc[q]
  BY DEF Format, Goto, feed, IInv, TypeOK, ReaderInv, Asking
<1>2. \A g \in Files : /\ chr'[g].sensor = chr[g].sensor
                       /\ chr'[g].buf_data = IF g = f THEN m ELSE chr[g].buf_data
  BY DEF Format, IInv, TypeOK
<1>3. /\ rd[p].floor <= m /\ chr[f].buf_data <= m
      /\ m <= Len(stamps[chr[f].sensor]) /\ chr[f].sensor \in Sensors
  BY <1>1 DEF IInv, SnapInv, ReaderInv, SensorOf
<1>4. rd[p].floor \in Nat /\ Len(stamps[chr[f].sensor]) \in Nat
  BY <1>3 DEF IInv, TypeOK, Read
<1>5. /\ RequestOf(p) = [file |-> f, floor |-> rd[p].floor, answered |-> FALSE]
      /\ RequestOf(p)' = [file |-> f, floor |-> rd[p].floor, answered |-> TRUE]
      /\ \A q \in Procs : q # p => RequestOf(q)' = RequestOf(q)
  BY <1>1 DEF RequestOf, Asks, Asking
<1>6. ASSUME NEW q \in Procs
      PROVE  ~(RequestOf(q).file = f /\ RequestOf(q).answered)
  <2>1. CASE Asks(q) /\ pc[q] = "copy"
    <3>1. rd[q].file # f
      BY <1>1, <2>1 DEF IInv, SemExclusive, Holds, InSem
    <3> QED
      BY <2>1, <3>1 DEF RequestOf
  <2>2. CASE ~(Asks(q) /\ pc[q] = "copy")
    BY <2>2 DEF RequestOf
  <2> QED
    BY <2>1, <2>2
<1>7. [q \in Procs |-> RequestOf(q)']
        = [[q \in Procs |-> RequestOf(q)] EXCEPT ![p] =
             [file |-> f, floor |-> rd[p].floor, answered |-> TRUE]]
  BY <1>5
<1>8. [g \in Files |-> chr'[g].buf_data]
        = [[g \in Files |-> chr[g].buf_data] EXCEPT ![f] = m]
  BY <1>2
<1>9. [g \in Files |-> chr'[g].sensor] = [g \in Files |-> chr[g].sensor]
  BY <1>2
<1>10. Feed!Asked(p)
  BY <1>1, ConstantsAssumption DEF Feed!Asked, Feed!NoRequest, Asks, Asking
<1>11. m \in rd[p].floor .. Len(stamps[chr[f].sensor])
  BY <1>3, <1>4
<1>12. Feed!Answer(p)
  BY <1>1, <1>3, <1>5, <1>6, <1>7, <1>8, <1>9, <1>10, <1>11
  DEF Feed!Answer, RequestOf
<1> QED
  BY <1>12 DEF Feed!Next

\* A step inside read other than Format: the feed sees the end of a question at
\* most.
LEMMA FeedReader ==
  ASSUME IInv, NEW p \in Procs, Reader(p) \/ Interruption(p), ~Format(p)
  PROVE  Feed!Next \/ UNCHANGED Feed!vars
<1>1. /\ UNCHANGED <<stamps, chr>>
      /\ \A q \in Procs : q # p => pc'[q] = pc[q] /\ rd'[q] = rd[q]
      /\ pc[p] # "idle" /\ rd[p].file \in Files
  <2>1. UNCHANGED <<stamps, chr>>
    BY ProcsLeaveFeed DEF feed, Reader, Interruption, Down, Snapshot, NoNewData,
         WaitCheck, Prepare, Recheck, Woken, Redown, Copy, CopyFault, ReadReturn,
         Signal, InterruptedWait, InterruptedDown, files
  <2> QED
    BY <2>1, InsideRead DEF IInv
<1>2. \A q \in Procs : q # p => RequestOf(q)' = RequestOf(q)
  BY <1>1 DEF RequestOf, Asks
<1>3. CASE RequestOf(p)' = RequestOf(p)
  BY <1>1, <1>2, <1>3, Invisible
<1>4. CASE RequestOf(p)' # RequestOf(p)
  <2>1. /\ RequestOf(p)' = Feed!NoRequest
        /\ Asks(p)
        /\ pc[p] \in {"copy", "recheck", "down", "redown"}
    BY <1>4 DEF Reader, Interruption, Down, Snapshot, NoNewData, WaitCheck,
         Prepare, Recheck, Woken, Redown, Copy, CopyFault, ReadReturn, Signal,
         InterruptedWait, InterruptedDown, Goto, RequestOf, Asks, Asking,
         Feed!NoRequest, IInv, TypeOK, Read
  <2>2. [q \in Procs |-> RequestOf(q)']
          = [[q \in Procs |-> RequestOf(q)] EXCEPT ![p] = Feed!NoRequest]
    BY <1>2, <2>1
  <2>3. CASE pc[p] = "copy"
    <3>1. RequestOf(p) = [file |-> rd[p].file, floor |-> rd[p].floor,
                          answered |-> TRUE]
      BY <2>1, <2>3 DEF RequestOf
    <3>2. Feed!Collect(p)
      BY <1>1, <2>2, <3>1 DEF Feed!Collect, RequestOf
    <3> QED
      BY <3>2 DEF Feed!Next
  <2>4. CASE pc[p] # "copy"
    <3>1. RequestOf(p) = [file |-> rd[p].file, floor |-> rd[p].floor,
                          answered |-> FALSE]
      BY <2>1, <2>4 DEF RequestOf
    <3>2. RequestOf(p).file # NoFile
      BY <1>1, <3>1, ConstantsAssumption
    <3>3. Feed!GiveUp(p)
      BY <1>1, <2>2, <3>1, <3>2 DEF Feed!GiveUp, Feed!Asked, Feed!NoRequest, RequestOf
    <3> QED
      BY <3>3 DEF Feed!Next
  <2> QED
    BY <2>3, <2>4
<1> QED
  BY <1>3, <1>4

\* Every step of the device is a step of the feed or invisible to it.
LEMMA FeedNext == IInv /\ [Next]_vars => [Feed!Next]_Feed!vars
<1> SUFFICES ASSUME IInv, [Next]_vars
             PROVE  Feed!Next \/ UNCHANGED Feed!vars
  OBVIOUS
<1>1. CASE UNCHANGED <<stamps, chr, pc, rd>>
  BY <1>1 DEF Feed!vars, Asks
<1>2. CASE StampUpdate
  BY <1>2, FeedPublish
<1>3. ASSUME NEW p \in Procs, Reader(p) \/ Interruption(p)
      PROVE  Feed!Next \/ UNCHANGED Feed!vars
  BY <1>3, FeedAnswer, FeedReader
<1>4. ASSUME NEW p \in Procs, NEW f \in Files, Ioctl(p, f)
      PROVE  UNCHANGED Feed!vars
  <2>1. /\ UNCHANGED <<stamps, pc, rd>>
        /\ \A g \in Files : /\ chr'[g].sensor = chr[g].sensor
                            /\ chr'[g].buf_data = chr[g].buf_data
    BY <1>4 DEF Ioctl, feed, IInv, TypeOK, State
  <2>2. \A q \in Procs : RequestOf(q)' = RequestOf(q)
    BY <2>1 DEF RequestOf, Asks
  <2> QED
    BY <2>1, <2>2, Invisible
<1>5. ASSUME NEW p \in Procs, Program(p)
      PROVE  Feed!Next \/ UNCHANGED Feed!vars
  BY <1>1, <1>4, <1>5, FeedOpen, FeedClose, FeedAsk DEF Program, Fork, feed
<1> QED
  BY <1>1, <1>2, <1>3, <1>5
  DEF Next, Updater, BeginUpdate, EndUpdate, WakeSleepers, Tick, vars

\* The driver implements MeasurementFeed: a read at position 0 is answered with
\* a measurement that was the latest at some moment of the read, never older
\* than one the file already held, and collects exactly that one.
THEOREM Refinement == Spec => ImplementsFeed
<1>1. Init => Feed!Init
  BY FeedInit
<1>2. IInv /\ [Next]_vars => [Feed!Next]_Feed!vars
  BY FeedNext
<1> QED
  BY <1>1, <1>2, Invariance, PTL DEF Spec, ImplementsFeed, Feed!Spec

-----------------------------------------------------------------------------
(* The position of an open file that is not shared through fork: it stays   *)
(* within the cached text, so a read copies at least one byte and none      *)
(* beyond the text, for any number of processes, files, sensors, updates    *)
(* and changes of the data type.  A shared file has no such property.       *)

\* A position where a read may begin: at the start, or inside the text.
Inside(pos, f) == pos = 0 \/ pos < chr[f].buf_lim

\* An open file has one user; its position is inside the text whenever nobody
\* reads from it, and so is the position a reader works with.
CursorInv ==
    /\ \A f \in Files : \A p, q \in users[f] : p = q
    /\ \A f \in Files : (\A p \in Procs : rd[p].file # f) => Inside(f_pos[f], f)
    /\ \A p \in Procs :
         /\ pc[p] \in {"down", "ret"} => Inside(rd[p].pos, rd[p].file)
         /\ pc[p] = "copy" => rd[p].pos < chr[rd[p].file].buf_lim

\* The arithmetic of one copy, from a position inside the text.
LEMMA CopyInside ==
    ASSUME NEW lim \in Nat, NEW pos \in Nat, NEW cnt \in Nat, pos < lim
    PROVE  LET remain == lim - pos
               n == IF remain < 0 \/ cnt < remain THEN cnt ELSE remain
           IN  pos + n <= lim /\ n \in Nat /\ (cnt > 0 => n > 0)
OBVIOUS

LEMMA CopyCountIs ==
    ASSUME TypeOK, ReaderInv, NEW p \in Procs, pc[p] = "copy",
           rd[p].pos < chr[rd[p].file].buf_lim
    PROVE  /\ rd[p].pos + CopyCount(p) <= chr[rd[p].file].buf_lim
           /\ CopyCount(p) \in Nat
           /\ rd[p].cnt > 0 => CopyCount(p) > 0
<1>1. rd[p].file \in Files /\ rd[p] \in Read
  BY DEF ReaderInv, TypeOK
<1>2. chr[rd[p].file].buf_lim \in Nat /\ rd[p].pos \in Nat /\ rd[p].cnt \in Nat
  BY <1>1, ConstantsAssumption DEF TypeOK, State, Read
<1> QED
  BY <1>2, CopyInside DEF CopyCount

\* Nobody else reads from the file a process reads from.
LEMMA Alone ==
    ASSUME ReaderInv, CursorInv, NEW p \in Procs, NEW f \in Files, p \in users[f],
           NEW q \in Procs, rd[q].file = f, NoFile \notin Files
    PROVE  q = p
<1>1. pc[q] # "idle" /\ q \in users[f]
  BY DEF ReaderInv
<1> QED
  BY <1>1 DEF CursorInv

LEMMA CursorProgram ==
    ASSUME ~Sharing, IInv, CursorInv, NEW p \in Procs, Program(p)
    PROVE  CursorInv'
<1> USE ConstantsAssumption
<1>1. \A q \in Procs : IF pc[q] = "idle" THEN rd[q].file = NoFile
                       ELSE rd[q].file \in Files /\ q \in users[rd[q].file]
  BY DEF IInv, ReaderInv
<1>2. ASSUME NEW f \in Files, NEW s \in Sensors, Open(p, f, s) PROVE CursorInv'
  <2>1. \A q \in Procs : rd[q].file # f
    BY <1>1, <1>2 DEF Open
  <2>2. f_pos'[f] = 0 /\ \A g \in Files : g # f => f_pos'[g] = f_pos[g] /\ chr'[g] = chr[g]
    BY <1>2 DEF Open, IInv, TypeOK
  <2>3. \A g \in Files : \A i, j \in users'[g] : i = j
    BY <1>2 DEF Open, IInv, TypeOK, CursorInv
  <2>4. UNCHANGED << pc, rd >>
    BY <1>2 DEF Open
  <2>5. \A q \in Procs : pc[q] # "idle" => chr'[rd[q].file] = chr[rd[q].file]
    BY <1>1, <2>1, <2>2
  <2> QED
    BY <2>1, <2>2, <2>3, <2>4, <2>5 DEF CursorInv, Inside
<1>3. ASSUME NEW f \in Files, NEW q \in Procs, Fork(p, q, f) PROVE CursorInv'
  BY <1>3 DEF Fork
<1>4. ASSUME NEW f \in Files, NEW n \in Counts, ReadBegin(p, f, n) PROVE CursorInv'
  <2>1. /\ pc[p] = "idle" /\ p \in users[f] /\ UNCHANGED << chr, f_pos, users >>
        /\ pc' = [pc EXCEPT ![p] = "down"]
        /\ rd' = [rd EXCEPT ![p] = [file |-> f, pos |-> f_pos[f], cnt |-> n, snap |-> ZeroPage,
                                    floor |-> Len(stamps[chr[f].sensor])]]
    BY <1>4 DEF ReadBegin, Goto, files
  <2>2. \A q \in Procs : rd[q].file # f
    BY <1>1, <2>1, Alone DEF IInv
  <2>3. Inside(f_pos[f], f)
    BY <2>2 DEF CursorInv
  <2>4. /\ pc'[p] = "down" /\ rd'[p].file = f /\ rd'[p].pos = f_pos[f]
        /\ \A q \in Procs : q # p => pc'[q] = pc[q] /\ rd'[q] = rd[q]
        /\ rd[p].file = NoFile
    BY <1>1, <2>1 DEF IInv, TypeOK
  <2> QED
    BY <2>1, <2>3, <2>4 DEF CursorInv, Inside
<1>5. ASSUME NEW f \in Files, Close(p, f) PROVE CursorInv'
  <2>1. users[f] = {p} /\ pc[p] = "idle"
    BY <1>5 DEF Close, CursorInv
  <2>2. \A q \in Procs : rd[q].file # f
    BY <1>1, <2>1
  <2>3. f_pos'[f] = 0 /\ \A g \in Files : g # f => f_pos'[g] = f_pos[g] /\ chr'[g] = chr[g]
    BY <1>5, <2>1 DEF Close, IInv, TypeOK
  <2>4. \A g \in Files : \A i, j \in users'[g] : i = j
    BY <1>5 DEF Close, IInv, TypeOK, CursorInv
  <2>5. UNCHANGED << pc, rd >>
    BY <1>5 DEF Close
  <2>6. \A q \in Procs : pc[q] # "idle" => chr'[rd[q].file] = chr[rd[q].file]
    BY <1>1, <2>2, <2>3
  <2> QED
    BY <2>2, <2>3, <2>4, <2>5, <2>6 DEF CursorInv, Inside
<1>6. ASSUME NEW f \in Files, Ioctl(p, f) PROVE CursorInv'
  <2>1. UNCHANGED << f_pos, users, pc, rd >>
    BY <1>6 DEF Ioctl
  <2>2. \A g \in Files : chr'[g].buf_lim = chr[g].buf_lim
    BY <1>6 DEF Ioctl, IInv, TypeOK, State
  <2>3. \A q \in Procs : pc[q] # "idle" => rd[q].file \in Files
    BY <1>1
  <2> QED
    BY <2>1, <2>2, <2>3 DEF CursorInv, Inside
<1> QED
  BY <1>2, <1>3, <1>4, <1>5, <1>6 DEF Program

\* What a step inside read does to the position it works with.
LEMMA CursorRead ==
    ASSUME IInv, CursorInv, NEW p \in Procs, Reader(p) \/ Interruption(p)
    PROVE  LET f == rd[p].file
               lim == chr'[f].buf_lim
           IN  /\ pc'[p] \in {"down", "ret"} => rd'[p].pos = 0 \/ rd'[p].pos < lim
               /\ pc'[p] = "copy" => rd'[p].pos < lim
               /\ pc'[p] = "idle" => f_pos'[f] = 0 \/ f_pos'[f] < lim
               /\ \A g \in Files : g # f => chr'[g] = chr[g] /\ f_pos'[g] = f_pos[g]
<1> DEFINE f == rd[p].file
           lim == chr'[f].buf_lim
<1> USE ConstantsAssumption
<1>1. /\ TypeOK /\ ReaderInv /\ pc[p] # "idle" /\ f \in Files /\ rd \in [Procs -> Read]
      /\ pc \in [Procs -> PCs] /\ chr \in [Files -> State] /\ f_pos \in [Files -> Nat]
  BY InsideRead DEF IInv, TypeOK
<1>2. /\ pc[p] \in {"down", "ret"} => rd[p].pos = 0 \/ rd[p].pos < chr[f].buf_lim
      /\ pc[p] = "copy" => rd[p].pos < chr[f].buf_lim
      /\ pc[p] \in Asking \ {"down"} => rd[p].pos = 0
  BY <1>1 DEF CursorInv, Inside, ReaderInv
<1> DEFINE Goal == /\ pc'[p] \in {"down", "ret"} => rd'[p].pos = 0 \/ rd'[p].pos < lim
                   /\ pc'[p] = "copy" => rd'[p].pos < lim
                   /\ pc'[p] = "idle" => f_pos'[f] = 0 \/ f_pos'[f] < lim
                   /\ \A g \in Files : g # f => chr'[g] = chr[g] /\ f_pos'[g] = f_pos[g]
<1>3. CASE Down(p)
  BY <1>1, <1>2, <1>3 DEF Down, Goto, files
<1>4. CASE Snapshot(p) \/ NoNewData(p) \/ WaitCheck(p) \/ Prepare(p) \/ Recheck(p) \/ Woken(p)
           \/ Redown(p) \/ Signal(p) \/ InterruptedWait(p) \/ InterruptedDown(p)
  <2>1. UNCHANGED << chr, f_pos >> /\ pc[p] \in Asking /\ rd'[p].pos = rd[p].pos
    BY <1>1, <1>4 DEF Snapshot, NoNewData, WaitCheck, Prepare, Recheck, Woken, Redown, Signal,
           InterruptedWait, InterruptedDown, Goto, files, Asking, Read
  <2>2. pc'[p] \in {"format", "wait", "redown", "prepare", "recheck", "asleep", "snapshot", "ret"}
    BY <1>1, <1>4 DEF Snapshot, NoNewData, WaitCheck, Prepare, Recheck, Woken, Redown, Signal,
           InterruptedWait, InterruptedDown, Goto
  <2>3. rd[p].pos = 0 \/ rd[p].pos < chr[f].buf_lim
    BY <1>2, <2>1
  <2> QED
    BY <2>1, <2>2, <2>3
<1>5. CASE Format(p)
  <2>1. /\ pc[p] = "format" /\ pc'[p] = "copy" /\ UNCHANGED << f_pos, rd >>
        /\ \A g \in Files : g # f => chr'[g] = chr[g]
        /\ lim = TextLen[rd[p].snap.val][chr[f].data_type]
    BY <1>1, <1>5 DEF Format, Goto
  <2>2. rd[p].snap.val \in RawValues /\ chr[f].data_type \in {0, 1}
    BY <1>1 DEF Read, Page, State
  <2>3. lim \in 1 .. (BUFSZ - 1)
    BY <2>1, <2>2
  <2>4. rd[p].pos = 0
    BY <1>2, <2>1 DEF Asking
  <2> QED
    BY <2>1, <2>3, <2>4
<1>6. CASE Copy(p)
  <2>1. /\ pc[p] = "copy" /\ pc'[p] = "ret" /\ UNCHANGED << chr, f_pos >>
        /\ rd'[p].pos = IF rd[p].pos + CopyCount(p) = chr[f].buf_lim THEN 0
                        ELSE rd[p].pos + CopyCount(p)
    BY <1>1, <1>6 DEF Copy, Goto, files, Read
  <2>2. rd[p].pos + CopyCount(p) <= chr[f].buf_lim /\ CopyCount(p) \in Nat
    BY <1>1, <1>2, <2>1, CopyCountIs
  <2>3. chr[f].buf_lim \in Nat /\ rd[p].pos \in Nat
    BY <1>1 DEF State, Read
  <2> QED
    BY <2>1, <2>2, <2>3
<1>7. CASE CopyFault(p)
  <2>1. pc[p] = "copy" /\ pc'[p] = "ret" /\ UNCHANGED << chr, f_pos, rd >>
    BY <1>1, <1>7 DEF CopyFault, Goto, files
  <2> QED
    BY <1>2, <2>1
<1>8. CASE ReadReturn(p)
  <2>1. pc[p] = "ret" /\ pc'[p] = "idle" /\ f_pos' = [f_pos EXCEPT ![f] = rd[p].pos] /\ chr' = chr
    BY <1>1, <1>8 DEF ReadReturn, Goto
  <2> QED
    BY <1>1, <1>2, <2>1
<1> QED
  BY <1>3, <1>4, <1>5, <1>6, <1>7, <1>8 DEF Reader, Interruption

LEMMA CursorReader ==
    ASSUME IInv, CursorInv, NEW p \in Procs, Reader(p) \/ Interruption(p)
    PROVE  CursorInv'
<1> DEFINE f == rd[p].file
<1> USE ConstantsAssumption
<1>1. /\ f \in Files /\ p \in users[f] /\ pc[p] # "idle" /\ users' = users
      /\ \A q \in Procs : q # p => pc'[q] = pc[q] /\ rd'[q] = rd[q] /\ rd[q].file # f
      /\ \/ pc'[p] = "idle"
         \/ pc'[p] # "idle" /\ rd'[p].file = f
  <2>1. users' = users
    BY DEF Reader, Interruption, Down, Snapshot, Format, NoNewData, WaitCheck,
           Prepare, Recheck, Woken, Redown, Copy, CopyFault, ReadReturn, Signal,
           InterruptedWait, InterruptedDown, files
  <2>2. f \in Files /\ p \in users[f]
    BY InsideRead DEF IInv, ReaderInv
  <2> QED
    BY <2>1, <2>2, InsideRead, Alone DEF IInv
<1>2. /\ pc'[p] \in {"down", "ret"} => rd'[p].pos = 0 \/ rd'[p].pos < chr'[f].buf_lim
      /\ pc'[p] = "copy" => rd'[p].pos < chr'[f].buf_lim
      /\ pc'[p] = "idle" => f_pos'[f] = 0 \/ f_pos'[f] < chr'[f].buf_lim
      /\ \A g \in Files : g # f => chr'[g] = chr[g] /\ f_pos'[g] = f_pos[g]
  BY CursorRead
<1>3. \A q \in Procs : pc[q] # "idle" => rd[q].file \in Files
  BY DEF IInv, ReaderInv
<1> HIDE DEF f
<1>4. \A g \in Files : \A i, j \in users'[g] : i = j
  BY <1>1 DEF CursorInv
<1>5. ASSUME NEW g \in Files, \A q \in Procs : rd'[q].file # g
      PROVE  f_pos'[g] = 0 \/ f_pos'[g] < chr'[g].buf_lim
  <2>1. CASE g = f
    BY <1>1, <1>2, <1>5, <2>1
  <2>2. CASE g # f
    <3>1. \A q \in Procs : rd[q].file # g
      BY <1>1, <1>5, <2>2 DEF f
    <3> QED
      BY <1>2, <2>2, <3>1 DEF CursorInv, Inside
  <2> QED
    BY <2>1, <2>2
<1>6. ASSUME NEW q \in Procs
      PROVE  /\ pc'[q] \in {"down", "ret"}
                  => rd'[q].pos = 0 \/ rd'[q].pos < chr'[rd'[q].file].buf_lim
             /\ pc'[q] = "copy" => rd'[q].pos < chr'[rd'[q].file].buf_lim
  <2>1. CASE q = p
    BY <1>1, <1>2, <2>1
  <2>2. CASE q # p
    BY <1>1, <1>2, <1>3, <2>2 DEF CursorInv, Inside
  <2> QED
    BY <2>1, <2>2
<1> QED
  BY <1>4, <1>5, <1>6 DEF CursorInv, Inside

\* Where an unshared file is read from, always.
THEOREM CursorInvariance ==
    ASSUME ~Sharing
    PROVE  Spec => [](IInv /\ CursorInv)
<1>1. Init => CursorInv
  BY ConstantsAssumption DEF Init, CursorInv, Inside, NoRead
<1>2. IInv /\ CursorInv /\ [Next]_vars => CursorInv'
  <2> SUFFICES ASSUME IInv, CursorInv, [Next]_vars PROVE CursorInv'
    OBVIOUS
  <2>1. CASE UNCHANGED << chr, f_pos, users, pc, rd >>
    BY <2>1 DEF CursorInv, Inside
  <2>2. ASSUME NEW p \in Procs, Reader(p) \/ Interruption(p) PROVE CursorInv'
    BY <2>2, CursorReader
  <2>3. ASSUME NEW p \in Procs, Program(p) PROVE CursorInv'
    BY <2>3, CursorProgram
  <2> QED
    BY <2>1, <2>2, <2>3, UpdaterLeavesProcs DEF Next, vars
<1> QED
  BY <1>1, <1>2, Invariance, PTL DEF Spec

\* copy_to_user never gets more than what is left of the text
\* (lunix_chrdev_read), as long as no file is inherited through fork.
THEOREM CopiesWithinCache ==
    ASSUME ~Sharing
    PROVE  Spec => []CopyWithinCache
<1>1. IInv /\ CursorInv => CopyWithinCache
  BY CopyCountIs DEF CopyWithinCache, CursorInv, IInv
<1> QED
  BY <1>1, CursorInvariance, PTL

\* No read of at least one byte returns 0 (lunix_chrdev_read's rewind), as long
\* as no file is inherited through fork.
THEOREM NeverEndOfFile ==
    ASSUME ~Sharing
    PROVE  Spec => []NoEmptyRead
<1>1. IInv /\ CursorInv => NoEmptyRead
  BY CopyCountIs DEF NoEmptyRead, CursorInv, IInv
<1> QED
  BY <1>1, CursorInvariance, PTL
=============================================================================
