---------------------------- MODULE SyscallHook ----------------------------
(***************************************************************************)
(* The on-access kernel module, on_access/on_access.c: a hook placed in    *)
(* sys_call_table[__NR_open] that runs "antv -scan <file>" to completion    *)
(* before it lets an open(2) through.                                      *)
(*                                                                         *)
(* Function pointers are numbers: Kernel (0) is the kernel's own sys_open,  *)
(* g > 0 is new_open of the g-th load of the module.  The text of a load   *)
(* is mapped from insmod until rmmod frees it; executing or jumping to     *)
(* unmapped text, or storing into the table while its page is read-only,   *)
(* is a kernel fault that kills the task (pc "oops").                      *)
(*                                                                         *)
(* Tasks are Users, which call open(2) at will, and Helpers, the antv      *)
(* processes that call_usermodehelper starts; both reach open(2) through    *)
(* the same table.                                                         *)
(***************************************************************************)
EXTENDS Integers

CONSTANTS
  Users,        \* tasks that call open(2)
  Helpers,      \* task slots for the antv processes of call_usermodehelper
  HelperOpens,  \* bound: the opens one antv process performs
  MaxLoads,     \* bound: how often the module is loaded
  NoOne         \* no task

Tasks == Users \union Helpers
Loads == 1 .. MaxLoads
Kernel == 0

ASSUME TasksAssumption ==
  /\ Users \intersect Helpers = {}
  /\ NoOne \notin Tasks

ASSUME BoundsAssumption ==
  /\ HelperOpens \in Nat
  /\ MaxLoads \in Nat

VARIABLES
  table,     \* sys_call_table[__NR_open]
  pageRW,    \* the page of the table is writable (_PAGE_RW)
  loads,     \* loads so far; the current instance of the module
  module,    \* progress of insmod/init() and rmmod/cleanup()
  old_open,  \* old_open[g]: the static pointer of load g
  mutex,     \* mutex[g]: the owner of antv_mutex of load g
  pc,        \* pc[t]: where task t is
  inst,      \* inst[t]: the load whose new_open t executes
  parent,    \* parent[h]: the task waiting for antv process h
  opensLeft, \* opensLeft[h]: opens antv process h still performs
  result     \* result[t]: what t's open(2) returned: refused or served by sys_open

kernelVars == <<table, pageRW>>
moduleVars == <<loads, module, old_open>>
vars == <<table, pageRW, loads, module, old_open, mutex, pc, inst, parent,
          opensLeft, result>>

InitPhases == {"init_rw", "init_save", "init_hook"}
ExitPhases == {"exit_ro", "exit_free"}
Phases == {"absent", "live"} \union InitPhases \union ExitPhases

\* The control points of new_open, in order (on_access.c:149-187).
InModule == {"entry", "locked", "exec", "rearm", "unlock", "original"}
\* Between mutex_trylock and mutex_unlock.
Holding == {"locked", "exec", "wait", "rearm", "unlock"}
\* Between the two stores into the table: opens go straight to the kernel.
Window == {"exec", "wait", "rearm"}
Labels == {"idle", "gone", "wait", "kernel", "oops"} \union InModule

Mapped(g) == g = loads /\ module # "absent"
Alive(t) == pc[t] \notin {"gone", "oops"}
Goto(t, label) == pc' = [pc EXCEPT ![t] = label]

Init ==
  /\ table = Kernel
  /\ pageRW = FALSE
  /\ loads = 0
  /\ module = "absent"
  /\ old_open = [g \in Loads |-> Kernel]
  /\ mutex = [g \in Loads |-> NoOne]
  /\ pc = [t \in Tasks |-> IF t \in Users THEN "idle" ELSE "gone"]
  /\ inst = [t \in Tasks |-> Kernel]
  /\ parent = [h \in Helpers |-> NoOne]
  /\ opensLeft = [h \in Helpers |-> 0]
  /\ result = [t \in Tasks |-> "none"]

-----------------------------------------------------------------------------
(***************************************************************************)
(* The system call path of one task.                                       *)
(***************************************************************************)

\* Control reaches the function pointer f.
Jump(t, f) ==
  \/ /\ f = Kernel
     /\ Goto(t, "kernel")
     /\ UNCHANGED inst
  \/ /\ f # Kernel
     /\ Mapped(f)
     /\ Goto(t, "entry")
     /\ inst' = [inst EXCEPT ![t] = f]
  \/ /\ f # Kernel
     /\ ~Mapped(f)
     /\ Goto(t, "oops")
     /\ UNCHANGED inst

\* Faulty variant: an antv process that opens files without end.
DispatchForever(t) ==
  /\ pc[t] = "idle"
  /\ IF t \in Helpers
       THEN opensLeft' = [opensLeft EXCEPT ![t] = @ - 1]
       ELSE UNCHANGED opensLeft
  /\ Jump(t, table)
  /\ result' = [result EXCEPT ![t] = "none"]
  /\ UNCHANGED <<kernelVars, moduleVars, mutex, parent>>

\* open(2): the entry code loads the pointer from the table and jumps to it.
\* An antv process performs a bounded number of opens.
Dispatch(t) ==
  /\ pc[t] = "idle"
  /\ IF t \in Helpers
       THEN /\ opensLeft[t] > 0
            /\ opensLeft' = [opensLeft EXCEPT ![t] = @ - 1]
       ELSE UNCHANGED opensLeft
  /\ \/ /\ table = Kernel
        /\ Goto(t, "kernel")
        /\ inst' = [inst EXCEPT ![t] = Kernel]
     \/ /\ table # Kernel
        /\ Jump(t, table)
  /\ result' = [result EXCEPT ![t] = "none"]
  /\ UNCHANGED <<kernelVars, moduleVars, mutex, parent>>

\* Faulty variant: mutex_lock in place of mutex_trylock.
TryLockWaits(t) ==
  /\ pc[t] = "entry"
  /\ Mapped(inst[t])
  /\ mutex[inst[t]] = NoOne
  /\ mutex' = [mutex EXCEPT ![inst[t]] = t]
  /\ Goto(t, "locked")
  /\ UNCHANGED <<kernelVars, moduleVars, inst, parent, opensLeft, result>>

\* Faulty variant: the result of mutex_trylock is not looked at.
TryLockUnchecked(t) ==
  /\ pc[t] = "entry"
  /\ Mapped(inst[t])
  /\ mutex' = [mutex EXCEPT ![inst[t]] = t]
  /\ Goto(t, "locked")
  /\ UNCHANGED <<kernelVars, moduleVars, inst, parent, opensLeft, result>>

\* if(!mutex_trylock(&antv_mutex)) return -EBUSY;
TryLock(t) ==
  /\ pc[t] = "entry"
  /\ Mapped(inst[t])
  /\ \/ /\ mutex[inst[t]] = NoOne
        /\ mutex' = [mutex EXCEPT ![inst[t]] = t]
        /\ Goto(t, "locked")
        /\ UNCHANGED result
     \/ /\ mutex[inst[t]] # NoOne
        /\ result' = [result EXCEPT ![t] = "EBUSY"]
        /\ Goto(t, "idle")
        /\ UNCHANGED mutex
  /\ UNCHANGED <<kernelVars, moduleVars, inst, parent, opensLeft>>

\* A store of f into the table: it faults when the page is read-only.
Store(t, f, next) ==
  \/ /\ pageRW
     /\ table' = f
     /\ Goto(t, next)
  \/ /\ ~pageRW
     /\ Goto(t, "oops")
     /\ UNCHANGED table

\* Faulty variant: antv is started with the hook still in the table.
PutBackForgotten(t) ==
  /\ pc[t] = "locked"
  /\ Mapped(inst[t])
  /\ Goto(t, "exec")
  /\ UNCHANGED <<kernelVars, moduleVars, mutex, inst, parent, opensLeft, result>>

\* sys_call_table[__NR_open] = old_open;
PutBack(t) ==
  /\ pc[t] = "locked"
  /\ Mapped(inst[t])
  /\ Store(t, old_open[inst[t]], "exec")
  /\ UNCHANGED <<pageRW, moduleVars, mutex, inst, parent, opensLeft, result>>

\* call_usermodehelper(argv[0], argv, envp, UMH_WAIT_PROC) starts antv, and
\* the caller sleeps until that process has ended.
StartHelper(t) ==
  /\ pc[t] = "exec"
  /\ Mapped(inst[t])
  /\ \E h \in Helpers :
       /\ pc[h] = "gone"
       /\ pc' = [pc EXCEPT ![t] = "wait", ![h] = "idle"]
       /\ parent' = [parent EXCEPT ![h] = t]
       /\ opensLeft' = [opensLeft EXCEPT ![h] = HelperOpens]
  /\ UNCHANGED <<kernelVars, moduleVars, mutex, inst, result>>

\* Faulty variant: an early return when call_usermodehelper fails.
StartFailsReturns(t) ==
  /\ pc[t] = "exec"
  /\ Mapped(inst[t])
  /\ Goto(t, "idle")
  /\ UNCHANGED <<kernelVars, moduleVars, mutex, inst, parent, opensLeft, result>>

\* call_usermodehelper fails to start antv; its result cu is only printed.
StartFails(t) ==
  /\ pc[t] = "exec"
  /\ Mapped(inst[t])
  /\ Goto(t, "rearm")
  /\ UNCHANGED <<kernelVars, moduleVars, mutex, inst, parent, opensLeft, result>>

\* The sleeper of UMH_WAIT_PROC wakes up once its antv process is dead.
Wake(t) ==
  /\ pc[t] = "wait"
  /\ \A h \in Helpers : parent[h] = t => ~Alive(h)
  /\ Goto(t, "rearm")
  /\ UNCHANGED <<kernelVars, moduleVars, mutex, inst, parent, opensLeft, result>>

\* sys_call_table[__NR_open] = new_open;
Rearm(t) ==
  /\ pc[t] = "rearm"
  /\ Mapped(inst[t])
  /\ Store(t, inst[t], "unlock")
  /\ UNCHANGED <<pageRW, moduleVars, mutex, inst, parent, opensLeft, result>>

\* mutex_unlock(&antv_mutex);
Unlock(t) ==
  /\ pc[t] = "unlock"
  /\ Mapped(inst[t])
  /\ mutex' = [mutex EXCEPT ![inst[t]] = NoOne]
  /\ Goto(t, "original")
  /\ UNCHANGED <<kernelVars, moduleVars, inst, parent, opensLeft, result>>

\* return (*old_open)(filename, flags, mode);
CallOriginal(t) ==
  /\ pc[t] = "original"
  /\ Mapped(inst[t])
  /\ Jump(t, old_open[inst[t]])
  /\ UNCHANGED <<kernelVars, moduleVars, mutex, parent, opensLeft, result>>

\* The kernel's sys_open ends and returns to its caller: to user space, or
\* into the text of new_open when it was called from there.
KernelOpen(t) ==
  /\ pc[t] = "kernel"
  /\ \/ /\ inst[t] # Kernel
        /\ ~Mapped(inst[t])
        /\ Goto(t, "oops")
        /\ UNCHANGED result
     \/ /\ inst[t] = Kernel \/ Mapped(inst[t])
        /\ Goto(t, "idle")
        /\ result' = [result EXCEPT ![t] = "done"]
  /\ UNCHANGED <<kernelVars, moduleVars, mutex, inst, parent, opensLeft>>

\* The task is inside new_open and the text has been freed under it.
Fault(t) ==
  /\ pc[t] \in InModule
  /\ ~Mapped(inst[t])
  /\ Goto(t, "oops")
  /\ UNCHANGED <<kernelVars, moduleVars, mutex, inst, parent, opensLeft, result>>

\* The antv process ends: after its last open, or earlier on an error.
HelperExit(h) ==
  /\ pc[h] = "idle"
  /\ Goto(h, "gone")
  /\ UNCHANGED <<kernelVars, moduleVars, mutex, inst, parent, opensLeft, result>>

-----------------------------------------------------------------------------
(***************************************************************************)
(* insmod and init(), rmmod and cleanup().  The kernel runs them one at a  *)
(* time, and lets rmmod proceed whatever tasks are inside new_open: the    *)
(* hook takes no reference on its module.                                  *)
(***************************************************************************)

\* insmod maps the text; init() starts with mutex_init.
Insmod ==
  /\ module = "absent"
  /\ loads < MaxLoads
  /\ loads' = loads + 1
  /\ module' = "init_rw"
  /\ mutex' = [mutex EXCEPT ![loads + 1] = NoOne]
  /\ UNCHANGED <<kernelVars, old_open, pc, inst, parent, opensLeft, result>>

\* Faulty variant: set_addr_rw leaves the page read-only.
SetAddrRWNoOp ==
  /\ module = "init_rw"
  /\ module' = "init_save"
  /\ UNCHANGED <<kernelVars, loads, old_open, mutex, pc, inst, parent, opensLeft, result>>

\* set_addr_rw((unsigned long) sys_call_table);
SetAddrRW ==
  /\ module = "init_rw"
  /\ pageRW' = TRUE
  /\ module' = "init_save"
  /\ UNCHANGED <<table, loads, old_open, mutex, pc, inst, parent, opensLeft, result>>

\* Faulty variant: the pointer is saved after the hook has been placed.
SaveOldAfterHook ==
  /\ module = "init_save"
  /\ old_open' = [old_open EXCEPT ![loads] = loads]
  /\ module' = "init_hook"
  /\ UNCHANGED <<kernelVars, loads, mutex, pc, inst, parent, opensLeft, result>>

\* old_open = (void *) sys_call_table[__NR_open];
SaveOld ==
  /\ module = "init_save"
  /\ old_open' = [old_open EXCEPT ![loads] = table]
  /\ module' = "init_hook"
  /\ UNCHANGED <<kernelVars, loads, mutex, pc, inst, parent, opensLeft, result>>

\* sys_call_table[__NR_open] = new_open;
Hook ==
  /\ module = "init_hook"
  /\ table' = loads
  /\ module' = "live"
  /\ UNCHANGED <<pageRW, loads, old_open, mutex, pc, inst, parent, opensLeft, result>>

\* rmmod; cleanup() begins with sys_call_table[__NR_open] = old_open;
Unhook ==
  /\ module = "live"
  /\ table' = old_open[loads]
  /\ module' = "exit_ro"
  /\ UNCHANGED <<pageRW, loads, old_open, mutex, pc, inst, parent, opensLeft, result>>

\* set_addr_ro((unsigned long) sys_call_table);
SetAddrRO ==
  /\ module = "exit_ro"
  /\ pageRW' = FALSE
  /\ module' = "exit_free"
  /\ UNCHANGED <<table, loads, old_open, mutex, pc, inst, parent, opensLeft, result>>

\* mutex_destroy(&antv_mutex); cleanup() returns and rmmod frees the text.
Free ==
  /\ module = "exit_free"
  /\ module' = "absent"
  /\ UNCHANGED <<kernelVars, loads, old_open, mutex, pc, inst, parent, opensLeft, result>>

-----------------------------------------------------------------------------
\* The steps of the module itself, and all steps of one open(2).
HookCode(t) ==
  \/ TryLock(t) \/ PutBack(t) \/ StartHelper(t) \/ StartFails(t) \/ Wake(t)
  \/ Rearm(t) \/ Unlock(t) \/ CallOriginal(t) \/ Fault(t)

NewOpen(t) == HookCode(t) \/ KernelOpen(t)

LoadUnload ==
  Insmod \/ SetAddrRW \/ SaveOld \/ Hook \/ Unhook \/ SetAddrRO \/ Free

Next ==
  \/ \E t \in Tasks : Dispatch(t) \/ NewOpen(t)
  \/ \E h \in Helpers : HelperExit(h)
  \/ LoadUnload

Spec == Init /\ [][Next]_vars

\* The kernel schedules every task inside the module.  Nobody is obliged to call
\* open(2) or to load or unload the module; the kernel's own sys_open may wait
\* for as long as it likes (a FIFO), and so may antv.
Fairness == \A t \in Tasks : WF_vars(HookCode(t))

FairSpec == Spec /\ Fairness
-----------------------------------------------------------------------------
(***************************************************************************)
(* Properties.                                                             *)
(***************************************************************************)

TypeOK ==
  /\ table \in 0 .. MaxLoads
  /\ pageRW \in BOOLEAN
  /\ loads \in 0 .. MaxLoads
  /\ module \in Phases
  /\ old_open \in [Loads -> 0 .. MaxLoads]
  /\ mutex \in [Loads -> Tasks \union {NoOne}]
  /\ pc \in [Tasks -> Labels]
  /\ inst \in [Tasks -> 0 .. MaxLoads]
  /\ parent \in [Helpers -> Tasks \union {NoOne}]
  /\ opensLeft \in [Helpers -> 0 .. HelperOpens]
  /\ result \in [Tasks -> {"none", "done", "EBUSY"}]

InHook(t) == pc[t] \in InModule \union {"wait"}

\* While the module is live the hook is out of the table exactly while one
\* scan is under way (on_access.c:154-181): no path through new_open leaves
\* the table unhooked, so opens bypass the scanner only during a scan.
HookArmed ==
  module = "live" =>
    (table = loads <=> ~\E t \in Tasks : pc[t] \in Window /\ inst[t] = loads)

\* The antv process that new_open starts never enters the new_open that waits
\* for it, even when the module is unloaded and loaded again meanwhile; and
\* before a second load no open of an antv process is refused with EBUSY.  This
\* is why the table is put back before call_usermodehelper (on_access.c:154).
HelperBypassesHook ==
  \A h \in Helpers :
    /\ Alive(h) /\ InHook(h) => inst[h] # inst[parent[h]]
    /\ loads <= 1 => result[h] # "EBUSY"

\* antv_mutex of a load has at most one task between trylock and unlock, and
\* while the module is live its owner is such a task: no return path of
\* new_open leaves the mutex locked behind it (on_access.c:149-187).
LockOwnership ==
  /\ \A t, u \in Tasks :
       pc[t] \in Holding /\ pc[u] \in Holding /\ inst[t] = inst[u] => t = u
  /\ module = "live" /\ mutex[loads] # NoOne =>
       pc[mutex[loads]] \in Holding /\ inst[mutex[loads]] = loads

\* Hooking by itself never faults: until the first rmmod no task jumps to
\* unmapped text or stores into a read-only page, because init() makes the
\* page writable and saves the old pointer before it hooks (on_access.c:228-236).
NoFaultBeforeUnload ==
  loads = 0 \/ (loads = 1 /\ module \in InitPhases \union {"live"}) =>
    \A t \in Tasks : pc[t] # "oops"

\* The parts of the inductive invariant.
\* A load saves a pointer to the kernel or to an earlier load, and a load that
\* is still in init() is not in the table.
PointersInv ==
  /\ module # "absent" => loads >= 1
  /\ table <= loads
  /\ module \in InitPhases => table # loads
  /\ \A g \in Loads : old_open[g] < g /\ (g > loads => old_open[g] = Kernel)

\* Only loads that have completed init() are executed.
ExecutionInv ==
  \A t \in Tasks :
    /\ inst[t] <= loads
    /\ InHook(t) => inst[t] >= 1
    /\ InHook(t) /\ module \in InitPhases => inst[t] < loads

\* The task between trylock and unlock owns the mutex of its load, and the
\* mutex of a load is free until it is hooked.
MutexInv ==
  /\ \A t \in Tasks : pc[t] \in Holding => mutex[inst[t]] = t
  /\ module \in InitPhases => mutex[loads] = NoOne
  /\ module = "live" /\ mutex[loads] # NoOne =>
       pc[mutex[loads]] \in Holding /\ inst[mutex[loads]] = loads

\* While a load is scanning, neither the table nor any saved pointer leads
\* back to it.
WindowInv ==
  \A t \in Tasks : pc[t] \in Window =>
    table # inst[t] /\ \A g \in Loads : old_open[g] # inst[t]

PageInv == module \in {"init_save", "init_hook", "live", "exit_ro"} => pageRW

ArmedInv ==
  module = "live" =>
    table = loads \/ \E t \in Tasks : pc[t] \in Window /\ inst[t] = loads

\* The task that started an antv process waits until that process ends.
ParentInv ==
  \A h \in Helpers : Alive(h) =>
    parent[h] \in Tasks /\ pc[parent[h]] = "wait"

\* Together they are preserved by every step, and they imply the safety
\* properties above (on_access.c:149-187, 228-249).
IInv ==
  /\ TypeOK /\ PointersInv /\ ExecutionInv /\ MutexInv /\ WindowInv
  /\ PageInv /\ ArmedInv /\ ParentInv /\ HelperBypassesHook
  /\ NoFaultBeforeUnload

\* The hook as an open gate: which promise is in force, and how far each open is.
GateOf ==
  IF loads = 0 \/ (loads = 1 /\ module \in InitPhases) THEN "off"
  ELSE IF loads = 1 /\ module = "live" THEN "on" ELSE "void"
StageAt(label) ==
  CASE label = "entry" -> "asked"
    [] label \in Holding -> "scanning"
    [] label = "original" -> "cleared"
    [] label = "kernel" -> "passing"
    [] OTHER -> "idle"
Gate == INSTANCE OpenGate WITH gate <- GateOf, stage <- [t \in Tasks |-> StageAt(pc[t])]

\* Until it is unloaded the hook implements the gate: an open is served only
\* after its own scan or while another is scanned, and refused only then
\* (on_access.c:149-187).
ImplementsGate == Gate!GateSpec

\* t sleeps for an antv process that has not ended.
WaitsForAntv(t) == pc[t] = "wait" /\ \E h \in Helpers : parent[h] = t /\ Alive(h)

\* The hook makes nobody wait but for antv: every open is answered with EBUSY or
\* reaches the kernel's sys_open, unless its antv process never ends, and an
\* open ends up in a fault only after an unload has begun.  Nobody waits for the
\* mutex (on_access.c:149 is a trylock) nor for an antv process that is dead.
OpensReturn ==
  \A t \in Users :
    \/ pc[t] # "idle" ~>
         (pc[t] \in {"idle", "kernel"} \/ (pc[t] = "oops" /\ GateOf = "void"))
    \/ <>[]WaitsForAntv(t)

\* on_access.c:244, the comment in cleanup(): "set the open symbol BACK to the
\* old open system call definition".  Once the module is gone the table holds
\* the kernel's sys_open again.
OpenRestored ==
  module = "absent" => table = Kernel
=============================================================================
