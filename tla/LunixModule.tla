----------------------------- MODULE LunixModule -----------------------------
(***************************************************************************)
(* The life of the kernel module: lunix_module_init, which brings up the   *)
(* sensors, the line discipline and the character device in this order and *)
(* goes back the same way when a step fails; lunix_module_cleanup; and     *)
(* what others may do meanwhile: set and drop the discipline on a TTY,     *)
(* open and close a device file.                                           *)
(*                                                                         *)
(* The kernel keeps the module in place while a TTY has its discipline or  *)
(* a file is open, and gives neither once the removal has begun.  It does  *)
(* give the discipline while lunix_module_init still runs; should the      *)
(* initialisation then fail, tty_unregister_ldisc refuses, nobody looks at *)
(* its answer, and the discipline outlives the module.  What happens after *)
(* that is undefined, and the model ends there (phase "dangling").         *)
(***************************************************************************)
EXTENDS Integers, FiniteSets

CONSTANTS SensorCnt,    \* lunix_sensor_cnt
          MsrCnt,       \* N_LUNIX_MSR
          TTYs,         \* the serial lines
          Users,        \* processes that open a device file
          MaxLoads      \* bound: how many times the module is loaded

ASSUME ModuleAssumption ==
    /\ SensorCnt \in Nat \ {0}
    /\ MsrCnt \in Nat \ {0}
    /\ MaxLoads \in Nat

Sensors == 0 .. SensorCnt - 1
Pages == Sensors \X (0 .. MsrCnt - 1)     \* a sensor's page per measurement

VARIABLES phase,       \* where the module stands in its life
          si,          \* si_done + 1: the sensors below it are initialised
          held,        \* the pages that the sensor structures point to
          lost,        \* the pages nothing points to, with the load they are of
          loads,       \* the number of loads
          ldisc,       \* is the line discipline registered?
          cdev,        \* is the character device registered?
          files,       \* the users with an open device file
          available,   \* lunix_disc_available
          lines,       \* the TTYs that have the discipline
          early        \* was it set on a TTY while this initialisation ran?

moduleVars == << phase, si, held, lost, loads, ldisc, cdev, files, available,
                 lines, early >>

Phases == {"out", "sensors", "ldisc", "chrdev", "undo_ldisc", "undo_sensors",
           "in", "exit_ldisc", "exit_sensors", "dangling"}

ModuleTypeOK ==
    /\ phase \in Phases
    /\ si \in 0 .. SensorCnt
    /\ held \subseteq Pages
    /\ lost \subseteq (1 .. MaxLoads) \X Pages
    /\ loads \in 0 .. MaxLoads
    /\ ldisc \in BOOLEAN /\ cdev \in BOOLEAN /\ early \in BOOLEAN
    /\ files \subseteq Users
    /\ available \in {0, 1}
    /\ lines \subseteq TTYs

ModuleInit ==
    /\ phase = "out" /\ si = 0 /\ held = {} /\ lost = {} /\ loads = 0
    /\ ldisc = FALSE /\ cdev = FALSE /\ early = FALSE
    /\ files = {} /\ available = 0 /\ lines = {}

-----------------------------------------------------------------------------
(* lunix_module_init *)

\* The array of sensors is allocated, or there is no memory for it.
LoadBegin ==
    /\ phase = "out" /\ loads < MaxLoads
    /\ loads' = loads + 1
    /\ phase' \in {"out", "sensors"}
    /\ si' = 0 /\ early' = FALSE
    /\ UNCHANGED << held, lost, ldisc, cdev, files, available, lines >>

\* Mutant: the loop over the sensors runs once too often.
SensorInitOneMore ==
    /\ phase = "sensors"
    /\ \E got \in 0 .. MsrCnt :
        /\ held' = held \union ({si} \X (0 .. got - 1))
        /\ IF got < MsrCnt
             THEN phase' = "undo_sensors" /\ UNCHANGED si
             ELSE /\ si' = si + 1
                  /\ phase' = IF si' > SensorCnt THEN "ldisc" ELSE "sensors"
    /\ UNCHANGED << lost, loads, ldisc, cdev, files, available, lines, early >>

\* lunix_sensor_init gets `got` of the sensor's pages before memory runs out.
\* Whatever it got is left with the sensor.
SensorInit ==
    /\ phase = "sensors"
    /\ \E got \in 0 .. MsrCnt :
        /\ held' = held \union ({si} \X (0 .. got - 1))
        /\ IF got < MsrCnt
             THEN phase' = "undo_sensors" /\ UNCHANGED si
             ELSE /\ si' = si + 1
                  /\ phase' = IF si' = SensorCnt THEN "ldisc" ELSE "sensors"
    /\ UNCHANGED << lost, loads, ldisc, cdev, files, available, lines, early >>

LdiscInit ==
    /\ phase = "ldisc"
    /\ available' = 1
    /\ ldisc' \in BOOLEAN
    /\ phase' = IF ldisc' THEN "chrdev" ELSE "undo_sensors"
    /\ UNCHANGED << si, held, lost, loads, cdev, files, lines, early >>

\* Mutant: a failure jumps past the removal of the line discipline.
ChrdevInitJumpsTooFar ==
    /\ phase = "chrdev"
    /\ cdev' \in BOOLEAN
    /\ phase' = IF cdev' THEN "in" ELSE "undo_sensors"
    /\ early' = (early /\ ~cdev')
    /\ UNCHANGED << si, held, lost, loads, ldisc, files, available, lines >>

\* Either the range of numbers or the device is refused, and the range is
\* given back; or both are there and the initialisation is over.
ChrdevInit ==
    /\ phase = "chrdev"
    /\ cdev' \in BOOLEAN
    /\ phase' = IF cdev' THEN "in" ELSE "undo_ldisc"
    /\ early' = (early /\ ~cdev')
    /\ UNCHANGED << si, held, lost, loads, ldisc, files, available, lines >>

\* lunix_ldisc_destroy: the discipline stays registered while a TTY has it.
LdiscDestroy ==
    /\ ldisc' = (lines # {})
    /\ UNCHANGED << si, held, lost, loads, cdev, files, available, lines, early >>

UndoLdisc == phase = "undo_ldisc" /\ phase' = "undo_sensors" /\ LdiscDestroy

\* lunix_sensor_destroy for the sensors below n, then kfree of the array: the
\* pages of the others can no longer be reached.
SensorsDestroy(n) ==
    /\ held' = {}
    /\ lost' = lost \union ({loads} \X {p \in held : p[1] \notin 0 .. n - 1})
    /\ UNCHANGED << si, loads, ldisc, cdev, files, available, lines, early >>

\* Mutant: the loop back stops before sensor 0.
UndoSensorsButFirst ==
    /\ phase = "undo_sensors"
    /\ phase' = IF ldisc THEN "dangling" ELSE "out"
    /\ held' = {}
    /\ lost' = lost \union ({loads} \X {p \in held : p[1] \notin 1 .. si - 1})
    /\ UNCHANGED << si, loads, ldisc, cdev, files, available, lines, early >>

UndoSensors ==
    /\ phase = "undo_sensors"
    /\ phase' = IF ldisc THEN "dangling" ELSE "out"
    /\ SensorsDestroy(si)

-----------------------------------------------------------------------------
(* lunix_module_cleanup, which the kernel calls when nothing uses the module *)

CleanupChrdev ==
    /\ phase = "in" /\ lines = {} /\ files = {}
    /\ phase' = "exit_ldisc"
    /\ cdev' = FALSE
    /\ UNCHANGED << si, held, lost, loads, ldisc, files, available, lines, early >>

CleanupLdisc == phase = "exit_ldisc" /\ phase' = "exit_sensors" /\ LdiscDestroy

CleanupSensors ==
    /\ phase = "exit_sensors"
    /\ phase' = "out"
    /\ SensorsDestroy(SensorCnt)

-----------------------------------------------------------------------------
(* The users of the module *)

OpenFile(u) ==
    /\ phase = "in" /\ cdev /\ u \notin files
    /\ files' = files \union {u}
    /\ UNCHANGED << phase, si, held, lost, loads, ldisc, cdev, available, lines, early >>

CloseFile(u) ==
    /\ u \in files
    /\ files' = files \ {u}
    /\ UNCHANGED << phase, si, held, lost, loads, ldisc, cdev, available, lines, early >>

\* Does the tty layer find the discipline, in a module that is not leaving?
Attachable == ldisc /\ phase \in {"chrdev", "undo_ldisc", "in"}

\* lunix_ldisc_open on line t: the counter is taken down, unless it is 0.
LdiscOpen(t) ==
    /\ Attachable /\ t \notin lines
    /\ available # 0
    /\ available' = available - 1
    /\ lines' = lines \union {t}
    /\ early' = (early \/ phase # "in")
    /\ UNCHANGED << phase, si, held, lost, loads, ldisc, cdev, files >>

\* Mutant: the counter is not put back.
LdiscCloseUncounted(t) ==
    /\ t \in lines
    /\ lines' = lines \ {t}
    /\ UNCHANGED << phase, si, held, lost, loads, ldisc, cdev, files, available, early >>

LdiscClose(t) ==
    /\ t \in lines
    /\ available' = available + 1
    /\ lines' = lines \ {t}
    /\ UNCHANGED << phase, si, held, lost, loads, ldisc, cdev, files, early >>

ModuleStep ==
    \/ LoadBegin \/ SensorInit \/ LdiscInit \/ ChrdevInit
    \/ UndoLdisc \/ UndoSensors
    \/ CleanupChrdev \/ CleanupLdisc \/ CleanupSensors
    \/ \E u \in Users : OpenFile(u) \/ CloseFile(u)

ModuleNext ==
    /\ phase # "dangling"
    /\ ModuleStep \/ \E t \in TTYs : LdiscOpen(t) \/ LdiscClose(t)

ModuleSpec == ModuleInit /\ [][ModuleNext]_moduleVars

-----------------------------------------------------------------------------
(* Properties *)

\* Whoever can reach a sensor finds all its pages: as long as a TTY has the
\* discipline, a file is open, or either may still happen, every page of every
\* sensor is there.  It rests on the order of lunix_module_init and of its way
\* back.  The one exception is a discipline set while an initialisation ran that
\* then failed.
InUseMeansReady ==
    (ldisc \/ cdev \/ lines # {} \/ files # {}) /\ ~early => held = Pages

\* A failed load leaves behind pages of one sensor at most, the one that could
\* not have them all, and an unload leaves none: the way back starts below the
\* sensor that failed.
LeftoverPages ==
    /\ \A x, y \in lost : x[1] = y[1] => x[2][1] = y[2][1]
    /\ \A n \in 1 .. MaxLoads, s \in Sensors :
         ~({n} \X ({s} \X (0 .. MsrCnt - 1)) \subseteq lost)

\* While the discipline is registered its counter says whether a TTY may still
\* have it: one line at most has it, through every failed open and every load.
OneLine ==
    ldisc => \/ available = 1 /\ lines = {}
             \/ available = 0 /\ \E t \in TTYs : lines = {t}
=============================================================================
