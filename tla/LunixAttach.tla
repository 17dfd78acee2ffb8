----------------------------- MODULE LunixAttach -----------------------------
(***************************************************************************)
(* The helper that sets the line discipline on a serial line               *)
(* (lunix-attach.c), several of them at once, with the module they attach  *)
(* to (LunixModule).  A helper is a process that runs once: it looks at    *)
(* the lock file of the line, creates it, writes its pid into it, opens    *)
(* the line, sets the discipline and waits for a signal; then it gives     *)
(* the line back the discipline it found, and removes the lock.  Each of   *)
(* these is a step of its own, for other helpers run in between, and at    *)
(* any of them the helper may be killed, which leaves its lock behind.     *)
(*                                                                         *)
(* A pid is the helper itself: that a dead helper's pid is given to        *)
(* another process is left out.  The TTY layer drops the discipline of a   *)
(* line when its last file is closed, and setting the discipline a line    *)
(* already has changes nothing.                                            *)
(***************************************************************************)
EXTENDS LunixModule

CONSTANTS Helpers, Absent, Empty

ASSUME HelpersAssumption == Absent \notin Helpers /\ Empty \notin Helpers

VARIABLES pc,       \* where the helper stands
          tty,      \* the line it was started for
          before,   \* ldisc_before: did it find the Lunix discipline there?
          saved,    \* saved_lock
          linked,   \* is the file it created still the lock file of the line?
          lock,     \* the lock file of a line: Absent, Empty, or a pid in it
          raced     \* the lines where a helper passed its check while another
                    \* was between its own check and writing its pid

helperVars == << pc, tty, before, saved, linked, lock, raced >>

Steps == {"new", "creat", "write", "open", "get", "set", "handlers", "pause",
          "restore", "unlock", "leaving", "dead"}

TypeOK ==
    /\ ModuleTypeOK
    /\ pc \in [Helpers -> Steps]
    /\ tty \in [Helpers -> TTYs]
    /\ before \in [Helpers -> BOOLEAN]
    /\ saved \in [Helpers -> BOOLEAN]
    /\ linked \in [Helpers -> BOOLEAN]
    /\ lock \in [TTYs -> Helpers \union {Absent, Empty}]
    /\ raced \subseteq TTYs

Init ==
    /\ ModuleInit
    /\ pc = [h \in Helpers |-> "new"]
    /\ tty \in [Helpers -> TTYs]
    /\ before = [h \in Helpers |-> FALSE]
    /\ saved = [h \in Helpers |-> FALSE]
    /\ linked = [h \in Helpers |-> FALSE]
    /\ lock = [t \in TTYs |-> Absent]
    /\ raced = {}

Goto(h, s) == pc' = [pc EXCEPT ![h] = s]

Alive(h) == pc[h] \notin {"new", "dead"}

\* The helpers that hold an open file of the line.
Holders(t) ==
    {h \in Helpers :
        /\ tty[h] = t
        /\ pc[h] \in {"get", "set", "handlers", "pause", "restore", "unlock", "leaving"}}

\* The helper is gone; its file of the line is closed.
Exit(h) ==
    /\ Goto(h, "dead")
    /\ IF tty[h] \in lines /\ Holders(tty[h]) = {h}
         THEN LdiscClose(tty[h])
         ELSE UNCHANGED moduleVars

\* The lock file of the line is removed: whoever created it writes elsewhere.
Unlink(t) ==
    /\ lock' = [lock EXCEPT ![t] = Absent]
    /\ linked' = [g \in Helpers |-> linked[g] /\ tty[g] # t]

-----------------------------------------------------------------------------
(* tty_lock *)

\* Mutant: the answer of kill is taken the wrong way round.
AlreadyLockedByTheDead(t) == lock[t] \in Helpers /\ ~Alive(lock[t])

AlreadyLocked(t) == lock[t] \in Helpers /\ Alive(lock[t])

Claiming(t) == {h \in Helpers : tty[h] = t /\ pc[h] \in {"creat", "write"}}

Check(h) ==
    /\ pc[h] = "new"
    /\ IF AlreadyLocked(tty[h])
         THEN Goto(h, "dead") /\ UNCHANGED raced
         ELSE /\ Goto(h, "creat")
              /\ raced' = IF Claiming(tty[h]) = {} THEN raced
                          ELSE raced \union {tty[h]}
    /\ UNCHANGED << moduleVars, tty, before, saved, linked, lock >>

\* creat truncates a file that is already there.
Create(h) ==
    /\ pc[h] = "creat"
    /\ Goto(h, "write")
    /\ lock' = [lock EXCEPT ![tty[h]] = Empty]
    /\ linked' = [linked EXCEPT ![h] = TRUE]
    /\ UNCHANGED << moduleVars, tty, before, saved, raced >>

\* The pid is written; unless the user uucp is unknown the lock is remembered.
WritePid(h) ==
    /\ pc[h] = "write"
    /\ Goto(h, "open")
    /\ lock' = IF linked[h] THEN [lock EXCEPT ![tty[h]] = h] ELSE lock
    /\ \E known \in BOOLEAN : saved' = [saved EXCEPT ![h] = known]
    /\ UNCHANGED << moduleVars, tty, before, linked, raced >>

WriteFails(h) ==
    /\ pc[h] = "write"
    /\ Goto(h, "dead")
    /\ Unlink(tty[h])
    /\ UNCHANGED << moduleVars, tty, before, saved, raced >>

-----------------------------------------------------------------------------
(* tty_open, after the lock *)

OpenTty(h) ==
    /\ pc[h] = "open"
    /\ Goto(h, "get")
    /\ UNCHANGED << moduleVars, tty, before, saved, linked, lock, raced >>

GetLdisc(h) ==
    /\ pc[h] = "get"
    /\ Goto(h, "set")
    /\ before' = [before EXCEPT ![h] = tty[h] \in lines]
    /\ UNCHANGED << moduleVars, tty, saved, linked, lock, raced >>

\* TIOCSETD of the Lunix discipline.
SetLunix(t) == IF t \in lines THEN UNCHANGED moduleVars ELSE LdiscOpen(t)

SetLdisc(h) ==
    /\ pc[h] = "set"
    /\ Goto(h, "handlers")
    /\ SetLunix(tty[h])
    /\ UNCHANGED << tty, before, saved, linked, lock, raced >>

\* creat, open, or an ioctl on the line fails, as the last one does when the
\* discipline is not there or is taken: tty_open returns, main ends, and the
\* lock file stays.
OpenFails(h) ==
    /\ pc[h] \in {"creat", "open", "get", "set"}
    /\ Exit(h)
    /\ UNCHANGED << tty, before, saved, linked, lock, raced >>

InstallHandlers(h) ==
    /\ pc[h] = "handlers"
    /\ Goto(h, "pause")
    /\ UNCHANGED << moduleVars, tty, before, saved, linked, lock, raced >>

-----------------------------------------------------------------------------
(* Signals *)

\* sig_catch, or death if the handlers are not yet installed.
Stop(h) ==
    /\ pc[h] = "pause"
    /\ Goto(h, "restore")
    /\ UNCHANGED << moduleVars, tty, before, saved, linked, lock, raced >>

Killed(h) ==
    /\ Alive(h)
    /\ Exit(h)
    /\ UNCHANGED << tty, before, saved, linked, lock, raced >>

\* tty_close sets the discipline found at the start; a refusal is ignored.
RestoreLdisc(h) ==
    /\ pc[h] = "restore"
    /\ Goto(h, "unlock")
    /\ CASE before[h] /\ (tty[h] \in lines \/ (Attachable /\ available # 0)) ->
                SetLunix(tty[h])
         [] ~before[h] /\ tty[h] \in lines -> LdiscClose(tty[h])
         [] OTHER -> UNCHANGED moduleVars
    /\ UNCHANGED << tty, before, saved, linked, lock, raced >>

\* Mutant: tty_close removes the lock before it restores the discipline.
UnlockFirst(h) ==
    /\ \/ pc[h] = "restore" /\ linked[h] /\ saved[h] /\ Unlink(tty[h]) /\ UNCHANGED pc
       \/ pc[h] = "unlock" /\ Goto(h, "leaving") /\ UNCHANGED << lock, linked >>
    /\ UNCHANGED << moduleVars, tty, before, saved, raced >>

Unlock(h) ==
    /\ pc[h] = "unlock"
    /\ Goto(h, "leaving")
    /\ IF saved[h] THEN Unlink(tty[h]) ELSE UNCHANGED << lock, linked >>
    /\ UNCHANGED << moduleVars, tty, before, saved, raced >>

Leave(h) ==
    /\ pc[h] = "leaving"
    /\ Exit(h)
    /\ UNCHANGED << tty, before, saved, linked, lock, raced >>

HelperStep(h) ==
    \/ Check(h) \/ Create(h) \/ WritePid(h) \/ WriteFails(h)
    \/ OpenTty(h) \/ GetLdisc(h) \/ SetLdisc(h) \/ OpenFails(h)
    \/ InstallHandlers(h) \/ Stop(h) \/ Killed(h)
    \/ RestoreLdisc(h) \/ Unlock(h) \/ Leave(h)

Next ==
    /\ phase # "dangling"
    /\ \/ ModuleStep /\ UNCHANGED helperVars
       \/ \E h \in Helpers : HelperStep(h)

vars == << moduleVars, helperVars >>

Spec == Init /\ [][Next]_vars

-----------------------------------------------------------------------------
(* Properties *)

\* The helpers that took the lock of the line and have not given it back.
Owners(t) ==
    {h \in Helpers :
        /\ tty[h] = t
        /\ pc[h] \in {"open", "get", "set", "handlers", "pause", "restore", "unlock"}}

\* Two helpers own a line only if two of them were at its lock file at once:
\* the check of the file and its creation are two steps.  Stale locks, locks
\* of helpers killed in any step and locks never removed do no harm.
OneOwner == \A t \in TTYs \ raced : \A h, g \in Owners(t) : h = g

\* A helper that has set the discipline keeps it until it restores the line
\* itself: on a line not raced for, no helper that comes, fails, is killed or is
\* still on its way out takes it away.  It rests on the order of tty_close, which
\* gives the lock back last, as much as on the lock.
OwnerKeepsLine ==
    \A h \in Helpers :
        tty[h] \notin raced /\ pc[h] \in {"handlers", "pause", "restore"}
            => tty[h] \in lines
=============================================================================
