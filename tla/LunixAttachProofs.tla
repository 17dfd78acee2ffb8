-------------------------- MODULE LunixAttachProofs --------------------------
(***************************************************************************)
(* What holds of the module and of its helpers for any number of sensors,  *)
(* pages, lines, users and helpers.                                        *)
(*                                                                         *)
(* First the module by itself, whoever sets and drops its discipline; then *)
(* the system with its helpers, which is such a module, so that all of     *)
(* this holds of it as well.                                               *)
(***************************************************************************)
EXTENDS LunixAttach, TLAPS

Msr == 0 .. MsrCnt - 1

\* What is registered, used and allocated in each phase.
LifeInv ==
    /\ cdev => phase = "in"
    /\ files # {} => phase = "in"
    /\ lines # {} => ldisc
    /\ ldisc => phase \in {"chrdev", "undo_ldisc", "undo_sensors", "in", "exit_ldisc", "dangling"}
    /\ phase \in {"chrdev", "undo_ldisc"} /\ lines # {} => early
    /\ phase \in {"undo_sensors", "dangling"} /\ ldisc => early
    /\ phase = "exit_ldisc" => lines = {}
    /\ phase \in {"ldisc", "chrdev", "undo_ldisc", "in", "exit_ldisc", "exit_sensors"}
         => held = Pages /\ si = SensorCnt
    /\ phase \in {"out", "dangling"} => held = {}
    /\ phase # "out" => loads # 0
    /\ phase = "sensors" => si < SensorCnt /\ held = (0 .. si - 1) \X Msr
    /\ phase = "undo_sensors" =>
         /\ \A p \in held : p[1] <= si
         /\ ~(({si} \X Msr) \subseteq held)

\* The pages lost so far are those of earlier loads.
LostInv ==
    /\ LeftoverPages
    /\ \A x \in lost : x[1] <= loads
    /\ phase \notin {"out", "dangling"} => \A x \in lost : x[1] < loads

ModuleInv == ModuleTypeOK /\ LifeInv /\ OneLine /\ LostInv

LEMMA InitModuleInv == ASSUME ModuleInit PROVE ModuleInv
<1>1. ModuleTypeOK
  <2>1. si \in 0 .. SensorCnt /\ loads \in 0 .. MaxLoads
    BY ModuleAssumption DEF ModuleInit
  <2>2. phase \in Phases /\ available \in {0, 1} /\ files \subseteq Users /\ lines \subseteq TTYs
    BY DEF ModuleInit, Phases
  <2>3. ldisc \in BOOLEAN /\ cdev \in BOOLEAN /\ early \in BOOLEAN
    BY DEF ModuleInit
  <2> QED
    BY <2>1, <2>2, <2>3, Zenon DEF ModuleInit, ModuleTypeOK
<1>2. LifeInv /\ OneLine
  BY DEF ModuleInit, LifeInv, OneLine
<1>3. LostInv
  <2>1. \A n \in 1 .. MaxLoads, s \in Sensors : << n, << s, 0 >> >> \in {n} \X ({s} \X (0 .. MsrCnt - 1))
    BY ModuleAssumption
  <2> QED
    BY <2>1 DEF ModuleInit, LostInv, LeftoverPages
<1> QED
  BY <1>1, <1>2, <1>3 DEF ModuleInv

\* A step that leaves lost and loads alone, and begins nothing, keeps LostInv.
LEMMA LostKept ==
    ASSUME LostInv, UNCHANGED << lost, loads >>,
           phase' \notin {"out", "dangling"} => phase \notin {"out", "dangling"}
    PROVE  LostInv'
BY DEF LostInv, LeftoverPages

LEMMA LoadBeginInv == ASSUME ModuleInv, LoadBegin PROVE ModuleInv'
<1>1. ModuleTypeOK'
  <2>1. si' \in 0 .. SensorCnt /\ loads' \in 0 .. MaxLoads
    BY ModuleAssumption DEF ModuleInv, ModuleTypeOK, LoadBegin
  <2>2. phase' \in Phases /\ early' \in BOOLEAN
    BY DEF LoadBegin, Phases
  <2> QED
    BY <2>1, <2>2, Zenon DEF ModuleInv, ModuleTypeOK, LoadBegin
<1>2. LifeInv'
  <2>1. ~ldisc /\ lines = {} /\ files = {} /\ ~cdev
    BY DEF ModuleInv, LifeInv, LoadBegin
  <2>2. loads' # 0
    BY DEF ModuleInv, ModuleTypeOK, LoadBegin
  <2> QED
    BY <2>1, <2>2, ModuleAssumption DEF ModuleInv, LifeInv, LoadBegin, Msr
<1>3. OneLine'
  BY DEF ModuleInv, OneLine, LoadBegin
<1>4. LostInv'
  BY DEF ModuleInv, ModuleTypeOK, LostInv, LeftoverPages, LoadBegin
<1> QED
  BY <1>1, <1>2, <1>3, <1>4 DEF ModuleInv

LEMMA SensorInitInv == ASSUME ModuleInv, SensorInit PROVE ModuleInv'
<1>1. PICK got \in 0 .. MsrCnt :
        /\ held' = held \union ({si} \X (0 .. got - 1))
        /\ IF got < MsrCnt
             THEN phase' = "undo_sensors" /\ UNCHANGED si
             ELSE /\ si' = si + 1
                  /\ phase' = IF si' = SensorCnt THEN "ldisc" ELSE "sensors"
  BY DEF SensorInit
<1>2. /\ phase = "sensors" /\ si \in Nat /\ si < SensorCnt /\ held = (0 .. si - 1) \X Msr
      /\ UNCHANGED << lost, loads, ldisc, cdev, files, available, lines, early >>
      /\ SensorCnt \in Nat /\ MsrCnt \in Nat \ {0}
  BY ModuleAssumption DEF SensorInit, ModuleInv, ModuleTypeOK, LifeInv
<1>3. ~ldisc /\ lines = {} /\ files = {} /\ ~cdev /\ loads # 0
  BY <1>2 DEF ModuleInv, LifeInv
<1>4. phase' \in {"undo_sensors", "ldisc", "sensors"}
  BY <1>1
<1>5. held' \subseteq Pages
  <2>1. (0 .. si - 1) \X Msr \subseteq Pages
    BY <1>2 DEF Pages, Sensors, Msr
  <2>2. {si} \X (0 .. got - 1) \subseteq Pages
    BY <1>2 DEF Pages, Sensors
  <2> QED
    BY <1>1, <1>2, <2>1, <2>2
<1>6. ModuleTypeOK'
  BY <1>1, <1>2, <1>4, <1>5 DEF ModuleInv, ModuleTypeOK, Phases
<1>7. LifeInv'
  <2>1. CASE got < MsrCnt
    <3>1. phase' = "undo_sensors" /\ si' = si
      BY <1>1, <2>1
    <3>2. \A p \in held' : p[1] <= si
      BY <1>1, <1>2
    <3>3. << si, got >> \in {si} \X Msr /\ << si, got >> \notin held'
      BY <1>1, <1>2, <2>1 DEF Msr
    <3>4. ~(({si} \X Msr) \subseteq held')
      BY <3>3
    <3> QED
      BY <1>2, <1>3, <3>1, <3>2, <3>4 DEF LifeInv, Msr
  <2>2. CASE ~(got < MsrCnt)
    <3>1. got = MsrCnt /\ si' = si + 1 /\ phase' = IF si' = SensorCnt THEN "ldisc" ELSE "sensors"
      BY <1>1, <1>2, <2>2
    <3>2. held' = (0 .. si' - 1) \X Msr
      BY <1>1, <1>2, <3>1 DEF Msr
    <3>3. si' = SensorCnt => held' = Pages
      BY <3>2 DEF Pages, Sensors, Msr
    <3> QED
      BY <1>2, <1>3, <3>1, <3>2, <3>3 DEF LifeInv, Msr
  <2> QED
    BY <2>1, <2>2
<1>8. OneLine' /\ LostInv'
  BY <1>2, <1>4, LostKept DEF ModuleInv, OneLine
<1> QED
  BY <1>6, <1>7, <1>8 DEF ModuleInv

LEMMA LdiscInitInv == ASSUME ModuleInv, LdiscInit PROVE ModuleInv'
<1>1. /\ phase = "ldisc" /\ held = Pages /\ si = SensorCnt
      /\ available' = 1 /\ ldisc' \in BOOLEAN
      /\ phase' = IF ldisc' THEN "chrdev" ELSE "undo_sensors"
      /\ UNCHANGED << si, held, lost, loads, cdev, files, lines, early >>
  BY DEF LdiscInit, ModuleInv, LifeInv
<1>2. ~ldisc /\ lines = {} /\ files = {} /\ ~cdev /\ loads # 0
  BY <1>1 DEF ModuleInv, LifeInv
<1>3. phase' \in {"chrdev", "undo_sensors"}
  BY <1>1
<1>4. ModuleTypeOK'
  BY <1>1, <1>3 DEF ModuleInv, ModuleTypeOK, Phases
<1>5. LifeInv'
  <2>1. \A p \in Pages : p[1] <= SensorCnt
    BY ModuleAssumption DEF Pages, Sensors
  <2>2. << SensorCnt, 0 >> \in {SensorCnt} \X Msr /\ << SensorCnt, 0 >> \notin Pages
    BY ModuleAssumption DEF Pages, Sensors, Msr
  <2>3. ~(({SensorCnt} \X Msr) \subseteq Pages)
    BY <2>2
  <2> QED
    BY <1>1, <1>2, <2>1, <2>3 DEF LifeInv, Msr
<1>6. OneLine' /\ LostInv'
  BY <1>1, <1>2, <1>3, LostKept DEF ModuleInv, OneLine
<1> QED
  BY <1>4, <1>5, <1>6 DEF ModuleInv

LEMMA ChrdevInitInv == ASSUME ModuleInv, ChrdevInit PROVE ModuleInv'
<1>1. /\ phase = "chrdev"
      /\ cdev' \in BOOLEAN
      /\ phase' = IF cdev' THEN "in" ELSE "undo_ldisc"
      /\ early' = (early /\ ~cdev')
      /\ UNCHANGED << si, held, lost, loads, ldisc, files, available, lines >>
  BY DEF ChrdevInit
<1>2. phase' \in {"in", "undo_ldisc"} /\ early' \in BOOLEAN
  BY <1>1
<1>3. ModuleTypeOK'
  BY <1>1, <1>2 DEF ModuleInv, ModuleTypeOK, Phases
<1>4. LifeInv'
  BY <1>1 DEF ModuleInv, LifeInv
<1>5. OneLine' /\ LostInv'
  BY <1>1, <1>2, LostKept DEF ModuleInv, OneLine
<1> QED
  BY <1>3, <1>4, <1>5 DEF ModuleInv

LEMMA UndoLdiscInv == ASSUME ModuleInv, UndoLdisc PROVE ModuleInv'
<1>1. /\ phase = "undo_ldisc" /\ phase' = "undo_sensors" /\ ldisc' = (lines # {})
      /\ held = Pages /\ si = SensorCnt
      /\ UNCHANGED << si, held, lost, loads, cdev, files, available, lines, early >>
  BY DEF UndoLdisc, LdiscDestroy, ModuleInv, LifeInv
<1>2. ldisc' \in BOOLEAN /\ (ldisc' => lines # {})
  BY <1>1
<1>3. ModuleTypeOK'
  BY <1>1, <1>2 DEF ModuleInv, ModuleTypeOK, Phases
<1>4. LifeInv'
  <2>1. \A p \in Pages : p[1] <= SensorCnt
    BY ModuleAssumption DEF Pages, Sensors
  <2>2. << SensorCnt, 0 >> \in {SensorCnt} \X Msr /\ << SensorCnt, 0 >> \notin Pages
    BY ModuleAssumption DEF Pages, Sensors, Msr
  <2>3. ~(({SensorCnt} \X Msr) \subseteq Pages)
    BY <2>2
  <2> QED
    BY <1>1, <2>1, <2>3 DEF ModuleInv, LifeInv, Msr
<1>5. OneLine'
  BY <1>1 DEF ModuleInv, OneLine, LifeInv
<1>6. LostInv'
  BY <1>1, LostKept DEF ModuleInv
<1> QED
  BY <1>3, <1>4, <1>5, <1>6 DEF ModuleInv

\* The way back after a failure.  What it loses is of the sensor that failed, and
\* not all of it; what was lost before is of earlier loads.
LEMMA UndoSensorsInv == ASSUME ModuleInv, UndoSensors PROVE ModuleInv'
<1> DEFINE Gone == {p \in held : p[1] \notin 0 .. si - 1}
<1>1. /\ phase = "undo_sensors" /\ held' = {} /\ lost' = lost \union ({loads} \X Gone)
      /\ phase' = IF ldisc THEN "dangling" ELSE "out"
      /\ UNCHANGED << si, loads, ldisc, cdev, files, available, lines, early >>
  BY DEF UndoSensors, SensorsDestroy
<1>2. /\ \A p \in held : p[1] <= si
      /\ ~(({si} \X Msr) \subseteq held)
      /\ \A x \in lost : x[1] < loads
      /\ si \in Nat /\ loads \in Nat /\ lost \subseteq (1 .. MaxLoads) \X Pages /\ held \subseteq Pages
  BY <1>1 DEF ModuleInv, ModuleTypeOK, LifeInv, LostInv
<1>3. loads \in 1 .. MaxLoads
  BY <1>1, ModuleAssumption DEF ModuleInv, ModuleTypeOK, LifeInv
<1>4. phase' \in {"dangling", "out"}
  BY <1>1
<1>5. ModuleTypeOK'
  <2>1. lost' \subseteq (1 .. MaxLoads) \X Pages
    BY <1>1, <1>2, <1>3
  <2> QED
    BY <1>1, <1>4, <2>1 DEF ModuleInv, ModuleTypeOK, Phases
<1>6. LifeInv' /\ OneLine'
  BY <1>1, <1>4 DEF ModuleInv, LifeInv, OneLine
<1>7. \A p \in Gone : p[1] = si
  BY <1>2 DEF Pages, Sensors
<1>8. \A x \in lost' : \/ x \in lost /\ x[1] < loads
                       \/ x[1] = loads /\ x[2] \in Gone /\ x[2][1] = si
  BY <1>1, <1>2, <1>7
<1>9. \A x, y \in lost' : x[1] = y[1] => x[2][1] = y[2][1]
  <2> SUFFICES ASSUME NEW x \in lost', NEW y \in lost', x[1] = y[1] PROVE x[2][1] = y[2][1]
    OBVIOUS
  <2>1. CASE x[1] = loads
    <3>1. ~(x[1] < loads) /\ ~(y[1] < loads)
      BY <2>1, <1>2
    <3> QED
      BY <3>1, <1>8
  <2>2. CASE x[1] # loads
    <3>1. x \in lost /\ y \in lost
      BY <2>2, <1>8
    <3> QED
      BY <3>1 DEF ModuleInv, LostInv, LeftoverPages
  <2> QED
    BY <2>1, <2>2
<1>10. ASSUME NEW n \in 1 .. MaxLoads, NEW s \in Sensors
       PROVE  ~({n} \X ({s} \X (0 .. MsrCnt - 1)) \subseteq lost')
  <2> SUFFICES ASSUME \A m \in Msr : << n, << s, m >> >> \in lost' PROVE FALSE
    BY DEF Msr
  <2>1. CASE n = loads
    <3>1. \A m \in Msr : << s, m >> \in Gone /\ s = si
      <4> TAKE m \in Msr
      <4>1. << n, << s, m >> >>[1] = loads /\ << n, << s, m >> >>[2] = << s, m >> /\ << s, m >>[1] = s
        BY <2>1
      <4>2. ~(loads < loads)
        BY <1>2
      <4> QED
        BY <4>1, <4>2, <1>8
    <3>2. 0 \in Msr
      BY ModuleAssumption DEF Msr
    <3>3. s = si /\ \A m \in Msr : << si, m >> \in held
      BY <3>1, <3>2
    <3>4. ({si} \X Msr) \subseteq held
      BY <3>3
    <3> QED
      BY <3>4, <1>2
  <2>2. CASE n # loads
    <3>1. \A m \in Msr : << n, << s, m >> >> \in lost
      <4> TAKE m \in Msr
      <4>1. << n, << s, m >> >>[1] # loads
        BY <2>2
      <4> QED
        BY <4>1, <1>8
    <3>2. {n} \X ({s} \X (0 .. MsrCnt - 1)) \subseteq lost
      BY <3>1 DEF Msr
    <3> QED
      BY <3>2 DEF ModuleInv, LostInv, LeftoverPages
  <2> QED
    BY <2>1, <2>2
<1>11. LostInv'
  <2>1. LeftoverPages'
    BY <1>9, <1>10 DEF LeftoverPages
  <2>2. \A x \in lost' : x[1] <= loads'
    BY <1>1, <1>2, <1>8, <1>5 DEF ModuleTypeOK
  <2> QED
    BY <2>1, <2>2, <1>4 DEF LostInv
<1> QED
  BY <1>5, <1>6, <1>11 DEF ModuleInv

-----------------------------------------------------------------------------
LEMMA CleanupChrdevInv == ASSUME ModuleInv, CleanupChrdev PROVE ModuleInv'
<1>1. /\ phase = "in" /\ lines = {} /\ files = {} /\ phase' = "exit_ldisc" /\ cdev' = FALSE
      /\ UNCHANGED << si, held, lost, loads, ldisc, files, available, lines, early >>
  BY DEF CleanupChrdev
<1>2. ModuleTypeOK'
  BY <1>1 DEF ModuleInv, ModuleTypeOK, Phases
<1>3. LifeInv' /\ OneLine'
  BY <1>1 DEF ModuleInv, LifeInv, OneLine
<1>4. LostInv'
  BY <1>1, LostKept DEF ModuleInv
<1> QED
  BY <1>2, <1>3, <1>4 DEF ModuleInv

LEMMA CleanupLdiscInv == ASSUME ModuleInv, CleanupLdisc PROVE ModuleInv'
<1>1. /\ phase = "exit_ldisc" /\ lines = {} /\ phase' = "exit_sensors" /\ ldisc' = FALSE
      /\ UNCHANGED << si, held, lost, loads, cdev, files, available, lines, early >>
  BY DEF CleanupLdisc, LdiscDestroy, ModuleInv, LifeInv
<1>2. ModuleTypeOK'
  BY <1>1 DEF ModuleInv, ModuleTypeOK, Phases
<1>3. LifeInv' /\ OneLine'
  BY <1>1 DEF ModuleInv, LifeInv, OneLine
<1>4. LostInv'
  BY <1>1, LostKept DEF ModuleInv
<1> QED
  BY <1>2, <1>3, <1>4 DEF ModuleInv

\* An unload gives every page back.
LEMMA CleanupSensorsInv == ASSUME ModuleInv, CleanupSensors PROVE ModuleInv'
<1>1. /\ phase = "exit_sensors" /\ phase' = "out" /\ held' = {}
      /\ lost' = lost \union ({loads} \X {p \in held : p[1] \notin 0 .. SensorCnt - 1})
      /\ UNCHANGED << si, loads, ldisc, cdev, files, available, lines, early >>
  BY DEF CleanupSensors, SensorsDestroy
<1>2. lost' = lost
  <2>1. {p \in held : p[1] \notin 0 .. SensorCnt - 1} = {}
    BY <1>1 DEF ModuleInv, ModuleTypeOK, Pages, Sensors
  <2> QED
    BY <1>1, <2>1
<1>3. ModuleTypeOK'
  BY <1>1, <1>2 DEF ModuleInv, ModuleTypeOK, Phases
<1>4. LifeInv' /\ OneLine'
  BY <1>1 DEF ModuleInv, LifeInv, OneLine
<1>5. LostInv'
  BY <1>1, <1>2, LostKept DEF ModuleInv
<1> QED
  BY <1>3, <1>4, <1>5 DEF ModuleInv

LEMMA FilesInv ==
    ASSUME ModuleInv, NEW u \in Users, OpenFile(u) \/ CloseFile(u)
    PROVE  ModuleInv'
<1>1. /\ UNCHANGED << phase, si, held, lost, loads, ldisc, cdev, available, lines, early >>
      /\ files' \subseteq Users /\ phase = "in"
  <2>1. CASE OpenFile(u)
    BY <2>1 DEF OpenFile, ModuleInv, ModuleTypeOK
  <2>2. CASE CloseFile(u)
    BY <2>2 DEF CloseFile, ModuleInv, ModuleTypeOK, LifeInv
  <2> QED
    BY <2>1, <2>2
<1>2. ModuleTypeOK'
  BY <1>1 DEF ModuleInv, ModuleTypeOK
<1>3. LifeInv' /\ OneLine'
  BY <1>1 DEF ModuleInv, LifeInv, OneLine
<1>4. LostInv'
  BY <1>1, LostKept DEF ModuleInv
<1> QED
  BY <1>2, <1>3, <1>4 DEF ModuleInv

LEMMA LdiscOpenInv ==
    ASSUME ModuleInv, NEW t \in TTYs, LdiscOpen(t)
    PROVE  ModuleInv'
<1>1. /\ ldisc /\ phase \in {"chrdev", "undo_ldisc", "in"}
      /\ available = 1 /\ lines = {} /\ available' = 0 /\ lines' = {t}
      /\ early' = (early \/ phase # "in")
      /\ UNCHANGED << phase, si, held, lost, loads, ldisc, cdev, files >>
  BY DEF LdiscOpen, Attachable, ModuleInv, ModuleTypeOK, OneLine
<1>2. early' \in BOOLEAN
  BY <1>1
<1>3. ModuleTypeOK'
  BY <1>1, <1>2 DEF ModuleInv, ModuleTypeOK
<1>4. LifeInv'
  BY <1>1 DEF ModuleInv, LifeInv
<1>5. OneLine'
  BY <1>1 DEF OneLine
<1>6. LostInv'
  BY <1>1, LostKept DEF ModuleInv
<1> QED
  BY <1>3, <1>4, <1>5, <1>6 DEF ModuleInv

LEMMA LdiscCloseInv ==
    ASSUME ModuleInv, NEW t \in TTYs, LdiscClose(t)
    PROVE  ModuleInv'
<1>1. /\ t \in lines /\ ldisc
      /\ available' = available + 1 /\ lines' = lines \ {t}
      /\ UNCHANGED << phase, si, held, lost, loads, ldisc, cdev, files, early >>
  BY DEF LdiscClose, ModuleInv, LifeInv
<1>2. available = 0 /\ lines = {t}
  BY <1>1 DEF ModuleInv, OneLine
<1>3. available' = 1 /\ lines' = {}
  BY <1>1, <1>2
<1>4. ModuleTypeOK'
  BY <1>1, <1>3 DEF ModuleInv, ModuleTypeOK
<1>5. LifeInv' /\ OneLine'
  BY <1>1, <1>3 DEF ModuleInv, LifeInv, OneLine
<1>6. LostInv'
  BY <1>1, LostKept DEF ModuleInv
<1> QED
  BY <1>4, <1>5, <1>6 DEF ModuleInv

LEMMA ModuleStepInv == ASSUME ModuleInv, ModuleStep PROVE ModuleInv'
BY LoadBeginInv, SensorInitInv, LdiscInitInv, ChrdevInitInv, UndoLdiscInv,
   UndoSensorsInv, CleanupChrdevInv, CleanupLdiscInv, CleanupSensorsInv, FilesInv
   DEF ModuleStep

LEMMA ModuleUnchangedInv == ASSUME ModuleInv, UNCHANGED moduleVars PROVE ModuleInv'
BY DEF moduleVars, ModuleInv, ModuleTypeOK, LifeInv, OneLine, LostInv, LeftoverPages

LEMMA ModuleNextInv == ASSUME ModuleInv, [ModuleNext]_moduleVars PROVE ModuleInv'
BY ModuleStepInv, LdiscOpenInv, LdiscCloseInv, ModuleUnchangedInv DEF ModuleNext

\* The sensors are complete whenever they can be reached.
LEMMA ModuleInvInUse == ASSUME ModuleInv PROVE InUseMeansReady
BY DEF ModuleInv, LifeInv, InUseMeansReady

\* The inductive invariant of the module, whoever uses it (lunix-module.c,
\* lunix-ldisc.c): what is registered, allocated and lost in each phase.
THEOREM ModuleInvariance == ModuleSpec => []ModuleInv
<1>1. ModuleInit => ModuleInv
  BY InitModuleInv
<1>2. ModuleInv /\ [ModuleNext]_moduleVars => ModuleInv'
  BY ModuleNextInv
<1> QED
  BY <1>1, <1>2, PTL DEF ModuleSpec

-----------------------------------------------------------------------------
(* The system with its helpers is such a module: whatever step a helper takes, *)
(* the module sees a discipline set, a discipline dropped, or nothing.         *)

HelpersTypeOK ==
    /\ pc \in [Helpers -> Steps]
    /\ tty \in [Helpers -> TTYs]
    /\ before \in [Helpers -> BOOLEAN]
    /\ saved \in [Helpers -> BOOLEAN]
    /\ linked \in [Helpers -> BOOLEAN]
    /\ lock \in [TTYs -> Helpers \union {Absent, Empty}]
    /\ raced \subseteq TTYs

\* What the module sees of a step about line t.
SeenAt(t) == LdiscOpen(t) \/ LdiscClose(t) \/ UNCHANGED moduleVars

LEMMA ExitSeen == ASSUME NEW h \in Helpers, Exit(h) PROVE SeenAt(tty[h])
BY DEF Exit, SeenAt

LEMMA HelperStepSeen ==
    ASSUME NEW h \in Helpers, HelperStep(h)
    PROVE  SeenAt(tty[h])
<1>1. CASE Check(h) \/ Create(h) \/ WritePid(h) \/ WriteFails(h)
  BY <1>1 DEF Check, Create, WritePid, WriteFails, SeenAt
<1>2. CASE OpenTty(h) \/ GetLdisc(h) \/ InstallHandlers(h) \/ Stop(h) \/ Unlock(h)
  BY <1>2 DEF OpenTty, GetLdisc, InstallHandlers, Stop, Unlock, SeenAt
<1>3. CASE SetLdisc(h)
  BY <1>3 DEF SetLdisc, SetLunix, SeenAt
<1>4. CASE OpenFails(h) \/ Killed(h) \/ Leave(h)
  BY <1>4, ExitSeen DEF OpenFails, Killed, Leave
<1>5. CASE RestoreLdisc(h)
  BY <1>5 DEF RestoreLdisc, SetLunix, SeenAt
<1> QED
  BY <1>1, <1>2, <1>3, <1>4, <1>5 DEF HelperStep

LEMMA NextSeen ==
    ASSUME HelpersTypeOK, [Next]_vars
    PROVE  [ModuleNext]_moduleVars
<1>1. CASE UNCHANGED vars
  BY <1>1 DEF vars
<1>2. CASE Next /\ ModuleStep
  BY <1>2 DEF Next, ModuleNext
<1>3. ASSUME Next, NEW h \in Helpers, HelperStep(h) PROVE [ModuleNext]_moduleVars
  <2>1. tty[h] \in TTYs
    BY DEF HelpersTypeOK
  <2> QED
    BY <1>3, <2>1, HelperStepSeen DEF Next, ModuleNext, SeenAt
<1> QED
  BY <1>1, <1>2, <1>3 DEF Next

-----------------------------------------------------------------------------
(* The lock file *)

OwnerSteps == {"open", "get", "set", "handlers", "pause", "restore", "unlock"}
BusySteps == OwnerSteps \union {"creat", "write"}

\* On a line that was not raced for, one helper at most is past the check of the
\* lock file; once it has written its pid the file names it, and until then the
\* file it created is still the lock file.
LockInv ==
    \A h \in Helpers : tty[h] \notin raced /\ pc[h] \in BusySteps =>
        /\ \A g \in Helpers : tty[g] = tty[h] /\ pc[g] \in BusySteps => g = h
        /\ pc[h] \in OwnerSteps => lock[tty[h]] = h
        /\ pc[h] = "write" => linked[h]

HelperInv == HelpersTypeOK /\ LockInv /\ OwnerKeepsLine

\* A helper that goes on, or ends, touching no lock file.
LEMMA LockKept ==
    ASSUME HelpersTypeOK, LockInv, NEW h \in Helpers, NEW s \in Steps,
           Goto(h, s), UNCHANGED << tty, linked, lock, raced >>,
           pc[h] \in OwnerSteps \/ s \notin BusySteps,
           s \notin {"creat", "write"}
    PROVE  LockInv'
<1>1. pc' = [pc EXCEPT ![h] = s] /\ pc \in [Helpers -> Steps]
  BY DEF Goto, HelpersTypeOK
<1>2. \A g \in Helpers : /\ pc'[g] \in BusySteps => pc[g] \in BusySteps
                         /\ pc'[g] \in OwnerSteps => pc[g] \in OwnerSteps
                         /\ pc'[g] = "write" => pc[g] = "write"
  BY <1>1 DEF BusySteps, OwnerSteps
<1> QED
  BY <1>2 DEF LockInv

LEMMA CheckLock ==
    ASSUME HelpersTypeOK, LockInv, NEW h \in Helpers, Check(h)
    PROVE  LockInv'
<1>1. CASE AlreadyLocked(tty[h])
  BY <1>1, LockKept DEF Check, Steps, BusySteps, OwnerSteps
<1>2. CASE ~AlreadyLocked(tty[h])
  <2>1. /\ pc' = [pc EXCEPT ![h] = "creat"] /\ pc \in [Helpers -> Steps] /\ pc[h] = "new"
        /\ UNCHANGED << tty, linked, lock >> /\ raced \subseteq raced'
        /\ Claiming(tty[h]) # {} => tty[h] \in raced'
    BY <1>2 DEF Check, Goto, HelpersTypeOK
  <2>2. \A g \in Helpers : g # h => pc'[g] = pc[g]
    BY <2>1
  <2>3. pc'[h] = "creat"
    BY <2>1
  <2>4. ASSUME tty[h] \notin raced', NEW g \in Helpers, tty[g] = tty[h], pc[g] \in BusySteps
        PROVE  FALSE
    <3>1. pc[g] \in OwnerSteps
      BY <2>1, <2>4 DEF Claiming, BusySteps
    <3>2. lock[tty[h]] = g
      BY <2>1, <2>4, <3>1 DEF LockInv
    <3>3. Alive(g)
      BY <3>1 DEF OwnerSteps, Alive
    <3> QED
      BY <1>2, <3>2, <3>3 DEF AlreadyLocked
  <2> SUFFICES ASSUME NEW k \in Helpers, tty[k] \notin raced', pc'[k] \in BusySteps
               PROVE  /\ \A g \in Helpers : tty[g] = tty[k] /\ pc'[g] \in BusySteps => g = k
                      /\ pc'[k] \in OwnerSteps => lock[tty[k]] = k
                      /\ pc'[k] = "write" => linked[k]
    BY <2>1 DEF LockInv
  <2>5. CASE k = h
    BY <2>2, <2>3, <2>4, <2>5 DEF OwnerSteps
  <2>6. CASE k # h
    <3>1. pc[k] \in BusySteps /\ tty[k] \notin raced
      BY <2>1, <2>2, <2>6
    <3>2. tty[k] # tty[h]
      BY <3>1, <2>4
    <3> QED
      BY <3>1, <3>2, <2>2, <2>6 DEF LockInv
  <2> QED
    BY <2>5, <2>6
<1> QED
  BY <1>1, <1>2

\* The two steps on the lock file itself, by the helper that is alone with it.
LEMMA CreateLock ==
    ASSUME HelpersTypeOK, LockInv, NEW h \in Helpers, Create(h)
    PROVE  LockInv'
<1>1. /\ pc' = [pc EXCEPT ![h] = "write"] /\ pc \in [Helpers -> Steps] /\ pc[h] = "creat"
      /\ lock' = [lock EXCEPT ![tty[h]] = Empty] /\ linked' = [linked EXCEPT ![h] = TRUE]
      /\ lock \in [TTYs -> Helpers \union {Absent, Empty}] /\ linked \in [Helpers -> BOOLEAN]
      /\ tty \in [Helpers -> TTYs] /\ UNCHANGED << tty, raced >>
  BY DEF Create, Goto, HelpersTypeOK
<1>2. \A g \in Helpers : g # h => pc'[g] = pc[g] /\ (linked'[g] <=> linked[g])
  BY <1>1
<1>3. pc'[h] = "write" /\ linked'[h] /\ pc'[h] \notin OwnerSteps
  BY <1>1 DEF OwnerSteps
<1>4. \A t \in TTYs : t # tty[h] => lock'[t] = lock[t]
  BY <1>1
<1>5. pc[h] \in BusySteps
  BY <1>1 DEF BusySteps
<1> SUFFICES ASSUME NEW k \in Helpers, tty[k] \notin raced, pc'[k] \in BusySteps
             PROVE  /\ \A g \in Helpers : tty[g] = tty[k] /\ pc'[g] \in BusySteps => g = k
                    /\ pc'[k] \in OwnerSteps => lock'[tty[k]] = k
                    /\ pc'[k] = "write" => linked'[k]
  BY <1>1 DEF LockInv
<1>6. CASE k = h
  BY <1>2, <1>3, <1>5, <1>6 DEF LockInv
<1>7. CASE k # h
  <2>1. pc[k] \in BusySteps
    BY <1>2, <1>7
  <2>2. tty[k] # tty[h] /\ tty[k] \in TTYs
    BY <2>1, <1>1, <1>5, <1>7 DEF LockInv
  <2> QED
    BY <1>2, <1>4, <1>7, <2>1, <2>2 DEF LockInv
<1> QED
  BY <1>6, <1>7

LEMMA WritePidLock ==
    ASSUME HelpersTypeOK, LockInv, NEW h \in Helpers, WritePid(h)
    PROVE  LockInv'
<1>1. /\ pc' = [pc EXCEPT ![h] = "open"] /\ pc \in [Helpers -> Steps] /\ pc[h] = "write"
      /\ lock' = IF linked[h] THEN [lock EXCEPT ![tty[h]] = h] ELSE lock
      /\ lock \in [TTYs -> Helpers \union {Absent, Empty}]
      /\ tty \in [Helpers -> TTYs] /\ UNCHANGED << tty, raced, linked >>
  BY DEF WritePid, Goto, HelpersTypeOK
<1>2. \A g \in Helpers : g # h => pc'[g] = pc[g]
  BY <1>1
<1>3. pc'[h] = "open" /\ pc'[h] \in OwnerSteps
  BY <1>1 DEF OwnerSteps
<1>4. \A t \in TTYs : t # tty[h] => lock'[t] = lock[t]
  BY <1>1
<1>5. pc[h] \in BusySteps
  BY <1>1 DEF BusySteps
<1>6. linked[h] => lock'[tty[h]] = h
  BY <1>1
<1> SUFFICES ASSUME NEW k \in Helpers, tty[k] \notin raced, pc'[k] \in BusySteps
             PROVE  /\ \A g \in Helpers : tty[g] = tty[k] /\ pc'[g] \in BusySteps => g = k
                    /\ pc'[k] \in OwnerSteps => lock'[tty[k]] = k
                    /\ pc'[k] = "write" => linked[k]
  BY <1>1 DEF LockInv
<1>7. CASE k = h
  BY <1>1, <1>2, <1>3, <1>5, <1>6, <1>7 DEF LockInv
<1>8. CASE k # h
  <2>1. pc[k] \in BusySteps
    BY <1>2, <1>8
  <2>2. tty[k] # tty[h] /\ tty[k] \in TTYs
    BY <2>1, <1>1, <1>5, <1>8 DEF LockInv
  <2> QED
    BY <1>2, <1>4, <1>8, <2>1, <2>2 DEF LockInv
<1> QED
  BY <1>7, <1>8

\* A helper that leaves the lock file, and removes it.
LEMMA UnlinkLock ==
    ASSUME HelpersTypeOK, LockInv, NEW h \in Helpers, NEW s \in Steps, Goto(h, s),
           pc[h] \in BusySteps, s \notin BusySteps,
           Unlink(tty[h]), UNCHANGED << tty, raced >>
    PROVE  LockInv'
<1>1. /\ pc' = [pc EXCEPT ![h] = s] /\ pc \in [Helpers -> Steps]
      /\ lock' = [lock EXCEPT ![tty[h]] = Absent]
      /\ linked' = [g \in Helpers |-> linked[g] /\ tty[g] # tty[h]]
      /\ lock \in [TTYs -> Helpers \union {Absent, Empty}]
      /\ tty \in [Helpers -> TTYs]
  BY DEF Goto, Unlink, HelpersTypeOK
<1>2. \A g \in Helpers : g # h => pc'[g] = pc[g]
  BY <1>1
<1>3. pc'[h] \notin BusySteps
  BY <1>1
<1>4. \A t \in TTYs : t # tty[h] => lock'[t] = lock[t]
  BY <1>1
<1>5. \A g \in Helpers : tty[g] # tty[h] => (linked'[g] <=> linked[g])
  BY <1>1
<1> SUFFICES ASSUME NEW k \in Helpers, tty[k] \notin raced, pc'[k] \in BusySteps
             PROVE  /\ \A g \in Helpers : tty[g] = tty[k] /\ pc'[g] \in BusySteps => g = k
                    /\ pc'[k] \in OwnerSteps => lock'[tty[k]] = k
                    /\ pc'[k] = "write" => linked'[k]
  BY DEF LockInv
<1>6. k # h /\ pc[k] \in BusySteps
  BY <1>2, <1>3
<1>7. tty[k] # tty[h] /\ tty[k] \in TTYs
  BY <1>1, <1>6 DEF LockInv
<1> QED
  BY <1>2, <1>3, <1>4, <1>5, <1>6, <1>7 DEF LockInv

LEMMA ExitLock ==
    ASSUME HelpersTypeOK, LockInv, NEW h \in Helpers, Exit(h),
           UNCHANGED << tty, linked, lock, raced >>
    PROVE  LockInv'
<1>1. Goto(h, "dead") /\ "dead" \in Steps /\ "dead" \notin BusySteps
  BY DEF Exit, Steps, BusySteps, OwnerSteps
<1> QED
  BY <1>1, LockKept DEF BusySteps

LEMMA HelperStepLock ==
    ASSUME HelpersTypeOK, LockInv, NEW h \in Helpers, HelperStep(h)
    PROVE  LockInv'
<1>1. CASE Check(h)
  BY <1>1, CheckLock
<1>2. CASE Create(h)
  BY <1>2, CreateLock
<1>3. CASE WritePid(h)
  BY <1>3, WritePidLock
<1>4. CASE WriteFails(h)
  <2>1. /\ Goto(h, "dead") /\ "dead" \in Steps /\ "dead" \notin BusySteps
        /\ pc[h] \in BusySteps /\ Unlink(tty[h]) /\ UNCHANGED << tty, raced >>
    BY <1>4 DEF WriteFails, Steps, BusySteps, OwnerSteps
  <2> QED
    BY <2>1, UnlinkLock
<1>5. CASE OpenTty(h) \/ GetLdisc(h) \/ SetLdisc(h) \/ InstallHandlers(h) \/ Stop(h) \/ RestoreLdisc(h)
  <2>1. PICK s \in Steps : Goto(h, s) /\ s \notin {"creat", "write"}
    BY <1>5 DEF OpenTty, GetLdisc, SetLdisc, InstallHandlers, Stop, RestoreLdisc, Steps
  <2>2. pc[h] \in OwnerSteps /\ UNCHANGED << tty, linked, lock, raced >>
    BY <1>5 DEF OpenTty, GetLdisc, SetLdisc, InstallHandlers, Stop, RestoreLdisc, OwnerSteps
  <2> QED
    BY <2>1, <2>2, LockKept
<1>6. CASE OpenFails(h) \/ Killed(h) \/ Leave(h)
  BY <1>6, ExitLock DEF OpenFails, Killed, Leave
<1>7. CASE Unlock(h)
  <2>1. /\ Goto(h, "leaving") /\ "leaving" \in Steps /\ "leaving" \notin BusySteps
        /\ pc[h] \in BusySteps /\ UNCHANGED << tty, raced >>
        /\ "leaving" \notin {"creat", "write"} /\ pc[h] \in OwnerSteps
        /\ Unlink(tty[h]) \/ UNCHANGED << lock, linked >>
    BY <1>7 DEF Unlock, Steps, BusySteps, OwnerSteps
  <2>2. CASE Unlink(tty[h])
    BY <2>1, <2>2, UnlinkLock
  <2>3. CASE UNCHANGED << lock, linked >>
    BY <2>1, <2>3, LockKept
  <2> QED
    BY <2>1, <2>2, <2>3
<1> QED
  BY <1>1, <1>2, <1>3, <1>4, <1>5, <1>6, <1>7 DEF HelperStep

-----------------------------------------------------------------------------
LEMMA HelperStepType ==
    ASSUME HelpersTypeOK, NEW h \in Helpers, HelperStep(h)
    PROVE  HelpersTypeOK'
<1> USE DEF HelpersTypeOK
<1>1. pc' \in [Helpers -> Steps]
  <2>1. PICK s \in Steps : Goto(h, s)
    BY DEF HelperStep, Check, Create, WritePid, WriteFails, OpenTty, GetLdisc, SetLdisc,
           OpenFails, InstallHandlers, Stop, Killed, RestoreLdisc, Unlock, Leave, Exit, Steps
  <2> QED
    BY <2>1 DEF Goto
<1>2. tty' = tty
  BY DEF HelperStep, Check, Create, WritePid, WriteFails, OpenTty, GetLdisc, SetLdisc,
         OpenFails, InstallHandlers, Stop, Killed, RestoreLdisc, Unlock, Leave
<1>3. before' \in [Helpers -> BOOLEAN]
  <2>1. CASE GetLdisc(h)
    <3>1. before' = [before EXCEPT ![h] = tty[h] \in lines]
      BY <2>1 DEF GetLdisc
    <3>2. (tty[h] \in lines) \in BOOLEAN
      OBVIOUS
    <3> QED
      BY <3>1, <3>2, Zenon
  <2>2. CASE ~GetLdisc(h)
    BY <2>2 DEF HelperStep, Check, Create, WritePid, WriteFails, OpenTty, SetLdisc,
         OpenFails, InstallHandlers, Stop, Killed, RestoreLdisc, Unlock, Leave
  <2> QED
    BY <2>1, <2>2
<1>4. saved' \in [Helpers -> BOOLEAN]
  <2>1. CASE WritePid(h)
    BY <2>1 DEF WritePid
  <2>2. CASE ~WritePid(h)
    BY <2>2 DEF HelperStep, Check, Create, WriteFails, OpenTty, GetLdisc, SetLdisc,
         OpenFails, InstallHandlers, Stop, Killed, RestoreLdisc, Unlock, Leave
  <2> QED
    BY <2>1, <2>2
<1>5. linked' \in [Helpers -> BOOLEAN] /\ lock' \in [TTYs -> Helpers \union {Absent, Empty}]
  <2>1. tty[h] \in TTYs
    OBVIOUS
  <2>2. CASE Create(h)
    <3>1. linked' = [linked EXCEPT ![h] = TRUE] /\ lock' = [lock EXCEPT ![tty[h]] = Empty]
      BY <2>2 DEF Create
    <3> QED
      BY <3>1, <2>1
  <2>3. CASE WritePid(h)
    <3>1. linked' = linked /\ lock' = IF linked[h] THEN [lock EXCEPT ![tty[h]] = h] ELSE lock
      BY <2>3 DEF WritePid
    <3> QED
      BY <3>1, <2>1
  <2>4. CASE Unlink(tty[h])
    <3>1. \A g \in Helpers : (linked[g] /\ tty[g] # tty[h]) \in BOOLEAN
      OBVIOUS
    <3>2. linked' \in [Helpers -> BOOLEAN]
      BY <2>4, <3>1, Zenon DEF Unlink
    <3>3. lock' \in [TTYs -> Helpers \union {Absent, Empty}]
      BY <2>4, <2>1 DEF Unlink
    <3> QED
      BY <3>2, <3>3
  <2>5. CASE UNCHANGED << linked, lock >>
    BY <2>5
  <2> QED
    BY <2>2, <2>3, <2>4, <2>5 DEF HelperStep, Check, WriteFails, OpenTty, GetLdisc, SetLdisc,
         OpenFails, InstallHandlers, Stop, Killed, RestoreLdisc, Unlock, Leave
<1>6. raced' \subseteq TTYs
  <2>1. tty[h] \in TTYs
    OBVIOUS
  <2> QED
    BY <2>1 DEF HelperStep, Check, Create, WritePid, WriteFails, OpenTty, GetLdisc, SetLdisc,
         OpenFails, InstallHandlers, Stop, Killed, RestoreLdisc, Unlock, Leave
<1> QED
  BY <1>1, <1>2, <1>3, <1>4, <1>5, <1>6

-----------------------------------------------------------------------------
(* Who keeps the discipline *)

KeeperSteps == {"handlers", "pause", "restore"}

\* A helper that ends drops no line that somebody else keeps.
LEMMA ExitKeeps ==
    ASSUME NEW h \in Helpers, NEW k \in Helpers, k # h, Exit(h),
           tty[k] \in lines, pc[k] \in KeeperSteps
    PROVE  tty[k] \in lines'
<1>1. CASE tty[k] = tty[h]
  <2>1. k \in Holders(tty[h])
    BY <1>1 DEF Holders, KeeperSteps
  <2>2. Holders(tty[h]) # {h}
    BY <2>1
  <2> QED
    BY <2>2 DEF Exit, moduleVars
<1>2. CASE tty[k] # tty[h]
  BY <1>2 DEF Exit, LdiscClose, moduleVars
<1> QED
  BY <1>1, <1>2

\* A helper that restores the line has it for itself, unless it was raced for.
LEMMA RestoreKeeps ==
    ASSUME LockInv, NEW h \in Helpers, NEW k \in Helpers, k # h, RestoreLdisc(h),
           tty[k] \notin raced, tty[k] \in lines, pc[k] \in KeeperSteps
    PROVE  tty[k] \in lines'
<1>1. pc[h] = "restore"
  BY DEF RestoreLdisc
<1>2. tty[k] # tty[h]
  BY <1>1 DEF LockInv, BusySteps, OwnerSteps, KeeperSteps
<1> QED
  BY <1>2 DEF RestoreLdisc, SetLunix, LdiscOpen, LdiscClose, moduleVars

LEMMA HelperStepKeeps ==
    ASSUME HelpersTypeOK, LockInv, OwnerKeepsLine, NEW h \in Helpers, HelperStep(h)
    PROVE  OwnerKeepsLine'
<1>1. tty' = tty /\ raced \subseteq raced'
  BY DEF HelperStep, Check, Create, WritePid, WriteFails, OpenTty, GetLdisc, SetLdisc,
         OpenFails, InstallHandlers, Stop, Killed, RestoreLdisc, Unlock, Leave
<1>2. PICK s : Goto(h, s)
  BY DEF HelperStep, Check, Create, WritePid, WriteFails, OpenTty, GetLdisc, SetLdisc,
         OpenFails, InstallHandlers, Stop, Killed, RestoreLdisc, Unlock, Leave, Exit
<1>3. pc' = [pc EXCEPT ![h] = s] /\ pc \in [Helpers -> Steps]
  BY <1>2 DEF Goto, HelpersTypeOK
<1> SUFFICES ASSUME NEW k \in Helpers, tty[k] \notin raced', pc'[k] \in KeeperSteps
             PROVE  tty[k] \in lines'
  BY <1>1 DEF OwnerKeepsLine, KeeperSteps
<1>4. CASE k # h
  <2>1. pc[k] \in KeeperSteps /\ tty[k] \notin raced /\ tty[k] \in lines
    BY <1>1, <1>3, <1>4 DEF OwnerKeepsLine, KeeperSteps
  <2>2. CASE UNCHANGED moduleVars
    BY <2>1, <2>2 DEF moduleVars
  <2>3. CASE OpenFails(h) \/ Killed(h) \/ Leave(h)
    BY <2>1, <2>3, <1>4, ExitKeeps DEF OpenFails, Killed, Leave
  <2>4. CASE SetLdisc(h)
    BY <2>1, <2>4 DEF SetLdisc, SetLunix, LdiscOpen, moduleVars
  <2>5. CASE RestoreLdisc(h)
    BY <2>1, <2>5, <1>4, RestoreKeeps
  <2> QED
    BY <2>2, <2>3, <2>4, <2>5 DEF HelperStep, Check, Create, WritePid, WriteFails, OpenTty,
         GetLdisc, InstallHandlers, Stop, Unlock
<1>5. CASE k = h
  <2>1. s \in KeeperSteps
    BY <1>3, <1>5
  <2>2. CASE SetLdisc(h)
    BY <2>2, <1>5 DEF SetLdisc, SetLunix, LdiscOpen, moduleVars
  <2>3. CASE InstallHandlers(h) \/ Stop(h)
    BY <2>3, <1>1, <1>5 DEF InstallHandlers, Stop, OwnerKeepsLine, moduleVars
  <2>4. CASE ~(SetLdisc(h) \/ InstallHandlers(h) \/ Stop(h))
    <3>1. pc'[h] = s
      BY <1>3, <1>2 DEF Goto
    <3>2. pc'[h] \notin KeeperSteps
      BY <2>4, <1>3 DEF HelperStep, Check, Create, WritePid, WriteFails, OpenTty, GetLdisc,
           OpenFails, Killed, RestoreLdisc, Unlock, Leave, Exit, Goto, KeeperSteps
    <3> QED
      BY <2>1, <3>1, <3>2
  <2> QED
    BY <2>2, <2>3, <2>4
<1> QED
  BY <1>4, <1>5

-----------------------------------------------------------------------------
(* The system *)

SystemInv == ModuleInv /\ HelperInv

LEMMA InitSystemInv == ASSUME Init PROVE SystemInv
<1>1. ModuleInv
  BY InitModuleInv DEF Init
<1>2. HelpersTypeOK
  BY DEF Init, HelpersTypeOK, Steps
<1>3. LockInv
  BY DEF Init, LockInv, BusySteps, OwnerSteps
<1>4. OwnerKeepsLine
  BY DEF Init, OwnerKeepsLine
<1> QED
  BY <1>1, <1>2, <1>3, <1>4 DEF SystemInv, HelperInv

LEMMA ModuleStepHelpers ==
    ASSUME HelperInv, ModuleStep, UNCHANGED helperVars
    PROVE  HelperInv'
<1>1. lines' = lines
  BY DEF ModuleStep, LoadBegin, SensorInit, LdiscInit, ChrdevInit, UndoLdisc, LdiscDestroy,
         UndoSensors, SensorsDestroy, CleanupChrdev, CleanupLdisc, CleanupSensors,
         OpenFile, CloseFile
<1> QED
  BY <1>1 DEF helperVars, HelperInv, HelpersTypeOK, LockInv, OwnerKeepsLine

LEMMA NextSystemInv == ASSUME SystemInv, [Next]_vars PROVE SystemInv'
<1>1. ModuleInv'
  BY NextSeen, ModuleNextInv DEF SystemInv, HelperInv
<1>2. HelperInv'
  <2>1. CASE UNCHANGED vars
    BY <2>1 DEF vars, moduleVars, helperVars, SystemInv, HelperInv, HelpersTypeOK, LockInv,
               OwnerKeepsLine
  <2>2. CASE ModuleStep /\ UNCHANGED helperVars
    BY <2>2, ModuleStepHelpers DEF SystemInv
  <2>3. ASSUME NEW h \in Helpers, HelperStep(h) PROVE HelperInv'
    BY <2>3, HelperStepType, HelperStepLock, HelperStepKeeps DEF SystemInv, HelperInv
  <2> QED
    BY <2>1, <2>2, <2>3 DEF Next
<1> QED
  BY <1>1, <1>2 DEF SystemInv

\* The inductive invariant of the module together with its helpers.
THEOREM SystemInvariance == Spec => []SystemInv
<1>1. Init => SystemInv
  BY InitSystemInv
<1>2. SystemInv /\ [Next]_vars => SystemInv'
  BY NextSystemInv
<1> QED
  BY <1>1, <1>2, PTL DEF Spec

\* With its helpers (lunix-attach.c) the module is the module: to it they are
\* nothing but lines that get the discipline and lose it.
THEOREM HelpersUseModule == Spec => ModuleSpec
<1>1. Init => ModuleInit
  BY DEF Init
<1>2. SystemInv /\ [Next]_vars => [ModuleNext]_moduleVars
  BY NextSeen DEF SystemInv, HelperInv
<1> QED
  BY <1>1, <1>2, SystemInvariance, PTL DEF Spec, ModuleSpec

\* Type correctness.
THEOREM TypeCorrect == Spec => []TypeOK
<1>1. SystemInv => TypeOK
  BY DEF SystemInv, ModuleInv, HelperInv, HelpersTypeOK, TypeOK
<1> QED
  BY <1>1, SystemInvariance, PTL

\* lunix_module_init and its way back: what can be reached has all its pages.
THEOREM ReachableIsReady == Spec => []InUseMeansReady
<1>1. SystemInv => InUseMeansReady
  BY ModuleInvInUse DEF SystemInv
<1> QED
  BY <1>1, SystemInvariance, PTL

\* A failed lunix_module_init loses some of one sensor's pages and no more, a
\* lunix_module_cleanup none, over any number of loads.
THEOREM FewPagesLost == Spec => []LeftoverPages
<1>1. SystemInv => LeftoverPages
  BY DEF SystemInv, ModuleInv, LostInv
<1> QED
  BY <1>1, SystemInvariance, PTL

\* lunix_disc_available keeps the discipline to one line, whatever the order of
\* loads, failures, and lines that get and lose it.
THEOREM OneLineOnly == Spec => []OneLine
<1>1. SystemInv => OneLine
  BY DEF SystemInv, ModuleInv
<1> QED
  BY <1>1, SystemInvariance, PTL

\* tty_lock: two helpers own one line only after both were between the check of
\* its lock file and the end of its writing.
THEOREM LockExcludes == Spec => []OneOwner
<1>1. SystemInv => OneOwner
  BY DEF SystemInv, HelperInv, LockInv, OneOwner, Owners, BusySteps, OwnerSteps
<1> QED
  BY <1>1, SystemInvariance, PTL

\* tty_close restores the discipline before it gives the lock back: a helper that
\* has set the discipline on a line not raced for keeps it until it restores it.
THEOREM OwnersKeepLines == Spec => []OwnerKeepsLine
<1>1. SystemInv => OwnerKeepsLine
  BY DEF SystemInv, HelperInv
<1> QED
  BY <1>1, SystemInvariance, PTL
=============================================================================
