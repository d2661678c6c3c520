------------------------------ MODULE OnAccess ------------------------------
(***************************************************************************)
(* The hook and the scanner together: new_open of on_access/on_access.c     *)
(* starts "antv -scan filename" (src/main.c) and waits for its end; then    *)
(* old_open looks the name up again.  The exit status is not looked at:     *)
(* what a scan achieves is its renames and nothing else.                    *)
(*                                                                         *)
(* antv gets the file name as the opener wrote it, but its working directory *)
(* is /: a relative name may be another file for it, or none.               *)
(*                                                                         *)
(* The hook is the abstract gate that it implements (SyscallHookProofs),    *)
(* loaded and not unloaded.  Scanner t of OnDemand is the antv process that *)
(* task t starts, root as all of call_usermodehelper's; its own opens       *)
(* bypass the hook.  Nobody else renames files, and no scan is started from *)
(* a shell.                                                                 *)
(***************************************************************************)
EXTENDS OnDemand

CONSTANT
  Elsewhere  \* what the relative names of openers name from /

VARIABLES
  gate,     \* "on": the module is loaded
  stage,    \* stage[t]: how far the open(2) of task t is
  wanted,   \* wanted[t]: the path it names for the task; start[t]: for antv
  checked   \* checked[t]: antv has run for the open of task t

accessVars == <<gate, stage, wanted, checked>>
scanVars == <<fsVars, argVars, pc, stream, path, checkVars, named, fds, re, failVars>>

Gate == INSTANCE OpenGate WITH Tasks <- Scanners, Users <- Scanners

\* What an open may name: the directory, or a file there is, was or may be.
Wanted == {Directory} \union (Names \ {First[d] : d \in Dirs})

ASSUME ElsewhereAssumption == Elsewhere \subseteq Wanted

AccessInit ==
  /\ Init
  /\ \A t \in Scanners : asRoot[t] /\ start[t] = Directory /\ ~named[t]
  /\ gate = "on"
  /\ stage = [t \in Scanners |-> "idle"]
  /\ wanted = [t \in Scanners |-> Directory]
  /\ checked = [t \in Scanners |-> FALSE]

\* open(2) reaches new_open, or bypasses the hook while another file is scanned.
Open(t) ==
  /\ Gate!Ask(t) \/ Gate!Bypass(t)
  /\ \E n \in Wanted : \E m \in {n} \union Elsewhere :
       /\ wanted' = [wanted EXCEPT ![t] = n]
       /\ start' = [start EXCEPT ![t] = m]
       /\ path' = [path EXCEPT ![t] = m]
  /\ UNCHANGED <<checked, fsVars, asRoot, pc, stream, checkVars, named, fds, re, failVars>>

\* open(2) returns; the name is forgotten, and what failed for it.
Returns(t) ==
  /\ wanted' = [wanted EXCEPT ![t] = Directory]
  /\ start' = [start EXCEPT ![t] = Directory]
  /\ path' = [path EXCEPT ![t] = Directory]
  /\ checked' = [checked EXCEPT ![t] = FALSE]
  /\ failed' = [failed EXCEPT ![t] = {}]
  /\ UNCHANGED <<fsVars, asRoot, pc, stream, checkVars, named, fds, re, ever, faults>>

\* return -EBUSY;
Busy(t) == Gate!Refuse(t) /\ Returns(t)

\* call_usermodehelper(argv[0], argv, envp, UMH_WAIT_PROC) starts antv, whose
\* virus_name is uninitialised ...
StartAntv(t) ==
  /\ Gate!Scan(t)
  /\ checked' = [checked EXCEPT ![t] = TRUE]
  /\ \E b \in BOOLEAN : named' = [named EXCEPT ![t] = b]
  /\ UNCHANGED <<wanted, fsVars, argVars, pc, path, stream, checkVars, fds, re, failVars>>

\* ... or cannot start it.
AntvFails(t) ==
  /\ Gate!Scan(t)
  /\ pc' = [pc EXCEPT ![t] = "done"]
  /\ UNCHANGED <<wanted, checked, fsVars, argVars, stream, path, checkVars, named, fds, re,
                 failVars>>

\* The steps of antv.
AntvStep(t) == stage[t] = "scanning" /\ Step(t) /\ UNCHANGED accessVars

\* The process is gone; the next one finds nothing of it.
Exited(t) ==
  /\ pc' = [pc EXCEPT ![t] = "start"]
  /\ stream' = [stream EXCEPT ![t] = [open |-> FALSE, left |-> {}]]
  /\ hash' = [hash EXCEPT ![t] = "other"]
  /\ wc' = [wc EXCEPT ![t] = 0]
  /\ named' = [named EXCEPT ![t] = FALSE]
  /\ fds' = [fds EXCEPT ![t] = 3]
  /\ re' = [re EXCEPT ![t] = "SUCCESS"]
  /\ path' = [path EXCEPT ![t] = start[t]]
  /\ UNCHANGED <<fsVars, argVars, wanted, checked, failVars>>

\* Faulty variant: UMH_WAIT_EXEC, which returns when antv has been started.
AntvRuns(t) == Gate!Clear(t) /\ UNCHANGED <<wanted, checked, scanVars>>

\* call_usermodehelper returns when antv has ended.
AntvEnds(t) == pc[t] = "done" /\ Gate!Clear(t) /\ Exited(t)

\* return (*old_open)(filename, flags, mode);
OldOpen(t) == Gate!Pass(t) /\ UNCHANGED <<wanted, checked, scanVars>>

\* The kernel looks the name up; the open of a FIFO or device may never return.
SysOpen(t) == Gate!Finish(t) /\ Returns(t)

InOpen(t) ==
  \/ Busy(t) \/ StartAntv(t) \/ AntvFails(t) \/ AntvStep(t) \/ AntvEnds(t)
  \/ OldOpen(t) \/ SysOpen(t)

AccessNext == \E t \in Scanners : Open(t) \/ InOpen(t)

allVars == <<accessVars, vars>>

\* antv hangs on a FIFO or device, or t does itself in sys_open.
Waits(t) ==
  \/ stage[t] = "scanning" /\ Blocks(t)
  \/ stage[t] = "passing" /\ At(wanted[t]) \intersect Endless # {}

\* The kernel schedules the tasks inside open(2) and the antv processes, but
\* nobody is obliged to end such a wait.
AccessSpec ==
  /\ AccessInit /\ [][AccessNext]_allVars
  /\ \A t \in Scanners : WF_allVars(~Waits(t) /\ InOpen(t))
-----------------------------------------------------------------------------
\* An open for which antv has run to its end does not find an infected file
\* under the name that was scanned, unless it is one that the quarantine has
\* moved there: although the exit status of antv is ignored, old_open looks the
\* name up again, and other opens are served in between (on_access.c:167-187,
\* main.c:224).  The database must be whole, the name the same file for antv,
\* the file not whitelisted, and none of antv's calls have failed for it.
CheckedOpenIsSafe ==
  [][\A t \in Scanners :
       stage[t] = "passing" /\ stage'[t] = "idle" /\ checked[t] /\ wanted[t] = start[t] =>
         \A f \in Quarantinable :
           (/\ database = "whole" /\ name[f] = wanted[t]
            /\ \A at \in Labels : <<at, f>> \notin failed[t]) => name[f] # First[f]]_allVars

\* Every open returns, the scan included, or hangs for good because antv or
\* sys_open hangs on a FIFO or device (on_access.c:167, main.c:186).
OpensServed ==
  \A t \in Scanners : (stage[t] # "idle" ~> stage[t] = "idle") \/ <>[]Waits(t)
=============================================================================
