------------------------- MODULE SyscallHookProofs -------------------------
(***************************************************************************)
(* The safety invariants of SyscallHook for any number of tasks, loads and *)
(* opens: IInv is inductive, and each invariant follows from it.  The hook  *)
(* implements the open gate until the first rmmod.                          *)
(***************************************************************************)
EXTENDS SyscallHook, TLAPS

USE DEF kernelVars, moduleVars

-----------------------------------------------------------------------------
\* Every variable keeps its type through every step of every task.
LEMMA TypeCorrect == IInv /\ [Next]_vars => TypeOK'
<1> SUFFICES ASSUME TypeOK, PointersInv, ExecutionInv, [Next]_vars PROVE TypeOK'
  BY DEF IInv
<1> USE BoundsAssumption DEF TypeOK, Phases, Kernel, Loads, InitPhases, ExitPhases, Labels, InModule, Goto
<1>1. ASSUME NEW t \in Tasks, Dispatch(t) PROVE TypeOK'
  <2>1. opensLeft' \in [Helpers -> 0 .. HelperOpens]
    BY <1>1 DEF Dispatch
  <2>2. inst' \in [Tasks -> 0 .. MaxLoads]
    <3>1. \/ inst' = inst
          \/ \E g \in 0 .. MaxLoads : inst' = [inst EXCEPT ![t] = g]
      BY <1>1 DEF Dispatch, Jump
    <3>2. QED
      BY <3>1
  <2>3. pc' \in [Tasks -> Labels]
    <3>1. \E l \in {"kernel", "entry", "oops"} : pc' = [pc EXCEPT ![t] = l]
      BY <1>1 DEF Dispatch, Jump
    <3>2. QED
      BY <3>1
  <2>4. QED
    BY <1>1, <2>1, <2>2, <2>3 DEF Dispatch
<1>2. ASSUME NEW t \in Tasks, TryLock(t) PROVE TypeOK'
  BY <1>2 DEF TryLock
<1>3. ASSUME NEW t \in Tasks, PutBack(t) PROVE TypeOK'
  BY <1>3 DEF PutBack, Store, ExecutionInv, InHook, Mapped
<1>4. ASSUME NEW t \in Tasks, StartHelper(t) PROVE TypeOK'
  <2>1. PICK h \in Helpers :
          /\ pc' = [pc EXCEPT ![t] = "wait", ![h] = "idle"]
          /\ parent' = [parent EXCEPT ![h] = t]
          /\ opensLeft' = [opensLeft EXCEPT ![h] = HelperOpens]
    BY <1>4 DEF StartHelper
  <2>2. pc' \in [Tasks -> Labels]
    BY <2>1
  <2>3. opensLeft' \in [Helpers -> 0 .. HelperOpens]
    BY <2>1
  <2>4. parent' \in [Helpers -> Tasks \union {NoOne}]
    BY <2>1
  <2>5. QED
    BY <1>4, <2>2, <2>3, <2>4 DEF StartHelper
<1>5. ASSUME NEW t \in Tasks, StartFails(t) \/ Wake(t) \/ Fault(t) PROVE TypeOK'
  BY <1>5 DEF StartFails, Wake, Fault
<1>6. ASSUME NEW t \in Tasks, Rearm(t) PROVE TypeOK'
  <2>1. inst[t] \in 0 .. MaxLoads
    OBVIOUS
  <2>2. QED
    BY <1>6, <2>1 DEF Rearm, Store
<1>7. ASSUME NEW t \in Tasks, Unlock(t) PROVE TypeOK'
  BY <1>7 DEF Unlock
<1>8. ASSUME NEW t \in Tasks, CallOriginal(t) PROVE TypeOK'
  BY <1>8 DEF CallOriginal, Jump, ExecutionInv, InHook, Mapped
<1>9. ASSUME NEW t \in Tasks, KernelOpen(t) PROVE TypeOK'
  BY <1>9 DEF KernelOpen
<1>10. ASSUME NEW h \in Helpers, HelperExit(h) PROVE TypeOK'
  BY <1>10 DEF HelperExit
<1>11. CASE Insmod
  BY <1>11 DEF Insmod
<1>12. CASE SetAddrRW \/ SetAddrRO \/ Free
  BY <1>12 DEF SetAddrRW, SetAddrRO, Free
<1>13. CASE SaveOld
  BY <1>13 DEF SaveOld
<1>14. CASE Hook \/ Unhook
  BY <1>14 DEF Hook, Unhook, PointersInv
<1>15. CASE UNCHANGED vars
  BY <1>15 DEF vars
<1>16. QED
  BY <1>1, <1>2, <1>3, <1>4, <1>5, <1>6, <1>7, <1>8, <1>9, <1>10, <1>11,
     <1>12, <1>13, <1>14, <1>15 DEF Next, NewOpen, HookCode, LoadUnload

-----------------------------------------------------------------------------
\* The steps of tasks that leave the table, the module and its pointers alone.
Elsewhere(t) ==
  \/ Dispatch(t) \/ TryLock(t) \/ StartHelper(t) \/ StartFails(t) \/ Wake(t)
  \/ Unlock(t) \/ CallOriginal(t) \/ KernelOpen(t) \/ Fault(t)

\* Assigning one component of a function leaves the others.
LEMMA ElsewhereUnchanged ==
  ASSUME NEW t \in Tasks, Elsewhere(t)
  PROVE  UNCHANGED <<table, pageRW, loads, module, old_open>>
BY DEF Elsewhere, Dispatch, TryLock, StartHelper, StartFails, Wake, Unlock,
       CallOriginal, KernelOpen, Fault

\* The steps of the system, sorted for the proofs below.
LEMMA NextCases ==
  ASSUME [Next]_vars
  PROVE  \/ \E t \in Tasks : Elsewhere(t) \/ PutBack(t) \/ Rearm(t)
         \/ \E h \in Helpers : HelperExit(h)
         \/ LoadUnload
         \/ UNCHANGED vars
BY DEF Next, NewOpen, HookCode, Elsewhere

\* Saved pointers lead back in time, and init() hooks only when it is done.
LEMMA PointersCorrect == IInv /\ [Next]_vars => PointersInv'
<1> SUFFICES ASSUME TypeOK, PointersInv, ExecutionInv, [Next]_vars PROVE PointersInv'
  BY DEF IInv
<1> USE BoundsAssumption DEF TypeOK, PointersInv, InitPhases, ExitPhases, Phases, Loads, Kernel
<1>1. ASSUME NEW t \in Tasks, Elsewhere(t) PROVE PointersInv'
  BY <1>1, ElsewhereUnchanged
<1>2. ASSUME NEW t \in Tasks, PutBack(t) \/ Rearm(t) PROVE PointersInv'
  <2>1. inst[t] \in 1 .. loads /\ loads \in Loads /\ module \notin InitPhases
    BY <1>2 DEF PutBack, Rearm, Mapped, ExecutionInv, InHook, InModule
  <2>2. table' = table \/ table' = inst[t] \/ table' = old_open[inst[t]]
    BY <1>2 DEF PutBack, Rearm, Store
  <2>3. UNCHANGED <<loads, module, old_open>>
    BY <1>2 DEF PutBack, Rearm
  <2>4. old_open[inst[t]] <= loads
    BY <2>1
  <2>5. QED
    BY <2>1, <2>2, <2>3, <2>4
<1>3. ASSUME NEW h \in Helpers, HelperExit(h) PROVE PointersInv'
  BY <1>3 DEF HelperExit
<1>4. CASE Insmod
  BY <1>4 DEF Insmod
<1>5. CASE SetAddrRW \/ SetAddrRO \/ Free
  BY <1>5 DEF SetAddrRW, SetAddrRO, Free
<1>6. CASE SaveOld
  <2>1. old_open' = [old_open EXCEPT ![loads] = table] /\ module' = "init_hook"
    BY <1>6 DEF SaveOld
  <2>2. table < loads /\ UNCHANGED <<table, loads>>
    BY <1>6 DEF SaveOld
  <2>3. QED
    BY <1>6, <2>1, <2>2 DEF SaveOld
<1>7. CASE Hook
  BY <1>7 DEF Hook
<1>8. CASE Unhook
  BY <1>8 DEF Unhook
<1>9. CASE UNCHANGED vars
  BY <1>9 DEF vars
<1>10. QED
  BY <1>1, <1>2, <1>3, <1>4, <1>5, <1>6, <1>7, <1>8, <1>9, NextCases
     DEF LoadUnload

-----------------------------------------------------------------------------
\* A pointer that old_open of a mapped load holds never leads to mapped text.
LEMMA CallOriginalEffect ==
  ASSUME TypeOK, PointersInv, ExecutionInv, NEW t \in Tasks, CallOriginal(t)
  PROVE  /\ inst' = inst
         /\ \/ pc' = [pc EXCEPT ![t] = "kernel"] /\ old_open[inst[t]] = 0
            \/ pc' = [pc EXCEPT ![t] = "oops"] /\ old_open[inst[t]] # 0
<1>1. inst[t] \in 1 .. loads /\ inst[t] \in Loads
  BY DEF CallOriginal, ExecutionInv, InHook, InModule, TypeOK, Loads
<1>2. ~Mapped(old_open[inst[t]])
  BY <1>1 DEF Mapped, PointersInv, TypeOK, Loads
<1>3. QED
  BY <1>2 DEF CallOriginal, Jump, Goto, Kernel

\* open(2) either goes to the kernel, or enters the mapped load in the table,
\* or dies on a stale pointer.
LEMMA DispatchEffect ==
  ASSUME NEW t \in Tasks, Dispatch(t)
  PROVE  /\ pc[t] = "idle"
         /\ UNCHANGED <<table, pageRW, loads, module, old_open, mutex, parent>>
         /\ \/ inst' = [inst EXCEPT ![t] = 0] /\ pc' = [pc EXCEPT ![t] = "kernel"]
            \/ /\ table # 0 /\ Mapped(table)
               /\ inst' = [inst EXCEPT ![t] = table]
               /\ pc' = [pc EXCEPT ![t] = "entry"]
            \/ /\ table # 0 /\ ~Mapped(table)
               /\ inst' = inst
               /\ pc' = [pc EXCEPT ![t] = "oops"]
BY DEF Dispatch, Jump, Goto, Kernel

\* Only open(2) enters new_open.
LEMMA HookEntry ==
  ASSUME TypeOK, PointersInv, ExecutionInv, [Next]_vars
  PROVE  \/ \E t \in Tasks : Dispatch(t)
         \/ inst' = inst /\ \A u \in Tasks : InHook(u)' => InHook(u)
<1> USE DEF InHook, InModule, Goto, TypeOK
<1>1. ASSUME NEW t \in Tasks, TryLock(t) \/ PutBack(t) \/ StartFails(t) \/ Wake(t)
                               \/ Rearm(t) \/ Unlock(t) \/ KernelOpen(t) \/ Fault(t)
      PROVE  inst' = inst /\ \A u \in Tasks : InHook(u)' => InHook(u)
  <2>1. inst' = inst
    BY <1>1 DEF TryLock, PutBack, StartFails, Wake, Rearm, Unlock, KernelOpen, Fault
  <2>2. \/ pc[t] \in InModule \union {"wait"} /\ \E l \in Labels : pc' = [pc EXCEPT ![t] = l]
        \/ \E l \in {"idle", "oops"} : pc' = [pc EXCEPT ![t] = l]
    BY <1>1 DEF TryLock, PutBack, StartFails, Wake, Rearm, Unlock, KernelOpen, Fault,
                Store, Labels
  <2>3. QED
    BY <2>1, <2>2
<1>2. ASSUME NEW t \in Tasks, StartHelper(t)
      PROVE  inst' = inst /\ \A u \in Tasks : InHook(u)' => InHook(u)
  <2>1. PICK h \in Helpers : pc' = [pc EXCEPT ![t] = "wait", ![h] = "idle"]
    BY <1>2 DEF StartHelper
  <2>2. inst' = inst /\ pc[t] = "exec"
    BY <1>2 DEF StartHelper
  <2>3. QED
    BY <2>1, <2>2
<1>3. ASSUME NEW t \in Tasks, CallOriginal(t)
      PROVE  inst' = inst /\ \A u \in Tasks : InHook(u)' => InHook(u)
  <2>1. \E l \in {"kernel", "oops"} : pc' = [pc EXCEPT ![t] = l]
    BY <1>3, CallOriginalEffect
  <2>2. QED
    BY <1>3, <2>1, CallOriginalEffect
<1>4. ASSUME NEW h \in Helpers, HelperExit(h)
      PROVE  inst' = inst /\ \A u \in Tasks : InHook(u)' => InHook(u)
  BY <1>4 DEF HelperExit, Tasks
<1>5. CASE LoadUnload
  BY <1>5 DEF LoadUnload, Insmod, SetAddrRW, SaveOld, Hook, Unhook, SetAddrRO, Free
<1>6. CASE UNCHANGED vars
  BY <1>6 DEF vars
<1>7. QED
  BY <1>1, <1>2, <1>3, <1>4, <1>5, <1>6 DEF Next, NewOpen, HookCode

\* Tasks execute only loads that have been hooked.
LEMMA ExecutionCorrect == IInv /\ [Next]_vars => ExecutionInv'
<1> SUFFICES ASSUME TypeOK, PointersInv, ExecutionInv, [Next]_vars PROVE ExecutionInv'
  BY DEF IInv
<1>1. ASSUME NEW t \in Tasks, Dispatch(t) PROVE ExecutionInv'
  BY <1>1, DispatchEffect
     DEF ExecutionInv, InHook, InModule, TypeOK, PointersInv, Mapped
<1>2. ASSUME inst' = inst, \A u \in Tasks : InHook(u)' => InHook(u)
      PROVE  ExecutionInv'
  <2>1. \/ loads' = loads /\ (module' \in InitPhases => module \in InitPhases)
        \/ loads' = loads + 1
    <3>1. ASSUME NEW t \in Tasks, PutBack(t) \/ Rearm(t) PROVE UNCHANGED <<loads, module>>
      BY <3>1 DEF PutBack, Rearm
    <3>2. ASSUME NEW t \in Tasks, Elsewhere(t) PROVE UNCHANGED <<loads, module>>
      BY <3>2, ElsewhereUnchanged
    <3>3. ASSUME NEW h \in Helpers, HelperExit(h) PROVE UNCHANGED <<loads, module>>
      BY <3>3 DEF HelperExit
    <3>4. CASE LoadUnload
      BY <3>4 DEF LoadUnload, Insmod, SetAddrRW, SaveOld, Hook, Unhook, SetAddrRO,
                  Free, InitPhases
    <3>5. CASE UNCHANGED vars
      BY <3>5 DEF vars
    <3>6. QED
      BY <3>1, <3>2, <3>3, <3>4, <3>5, NextCases
  <2>2. QED
    BY <1>2, <2>1 DEF ExecutionInv, TypeOK
<1>3. QED
  BY <1>1, <1>2, HookEntry

-----------------------------------------------------------------------------
\* A store into the table by a task of a mapped load succeeds while live.
LEMMA StoreSucceeds ==
  ASSUME TypeOK, ExecutionInv, PageInv, NEW t \in Tasks, InHook(t),
         Mapped(inst[t]), module \in InitPhases \union {"live"},
         NEW f, NEW next, Store(t, f, next)
  PROVE  /\ module = "live" /\ inst[t] = loads
         /\ table' = f /\ pc' = [pc EXCEPT ![t] = next]
BY DEF ExecutionInv, PageInv, Mapped, Store, Goto, TypeOK

\* A step that moves no task into or out of the critical section keeps MutexInv.
LEMMA MutexPreserved ==
  ASSUME TypeOK, PointersInv, MutexInv, UNCHANGED <<loads, module, mutex>>,
         \A u \in Tasks : /\ pc'[u] \in Holding <=> pc[u] \in Holding
                          /\ pc[u] \in Holding => inst'[u] = inst[u]
  PROVE  MutexInv'
<1>1. module = "live" => mutex[loads] \in Tasks \union {NoOne}
  BY BoundsAssumption DEF TypeOK, PointersInv, Loads
<1>2. ASSUME NEW u \in Tasks, pc'[u] \in Holding PROVE mutex'[inst'[u]] = u
  BY <1>2 DEF MutexInv
<1>3. ASSUME module = "live", mutex[loads] # NoOne
      PROVE  pc'[mutex[loads]] \in Holding /\ inst'[mutex[loads]] = loads
  BY <1>1, <1>3 DEF MutexInv
<1>4. QED
  BY <1>2, <1>3 DEF MutexInv

\* antv_mutex is owned by the task between trylock and unlock.
LEMMA MutexCorrect == IInv /\ [Next]_vars => MutexInv'
<1> SUFFICES ASSUME TypeOK, PointersInv, ExecutionInv, MutexInv, PageInv, [Next]_vars
             PROVE  MutexInv'
  BY DEF IInv
<1> USE TasksAssumption, BoundsAssumption DEF MutexInv, Holding, InitPhases, TypeOK, Loads
<1>1. ASSUME NEW t \in Tasks, Dispatch(t) PROVE MutexInv'
  <2>1. \A u \in Tasks \ {t} : pc'[u] = pc[u] /\ inst'[u] = inst[u]
    BY <1>1, DispatchEffect
  <2>2. pc[t] \notin Holding /\ pc'[t] \notin Holding
    BY <1>1, DispatchEffect
  <2>3. UNCHANGED <<loads, module, mutex>>
    BY <1>1, DispatchEffect
  <2>4. QED
    BY <2>1, <2>2, <2>3, MutexPreserved
<1>2. ASSUME NEW t \in Tasks, TryLock(t) PROVE MutexInv'
  <2>1. inst[t] = loads /\ inst[t] \in Loads /\ module \notin InitPhases
    BY <1>2 DEF TryLock, Mapped, ExecutionInv, InHook, InModule
  <2>2. CASE mutex[inst[t]] = NoOne
    <3>1. pc' = [pc EXCEPT ![t] = "locked"] /\ mutex' = [mutex EXCEPT ![loads] = t]
          /\ UNCHANGED <<loads, module, inst>>
      BY <1>2, <2>1, <2>2 DEF TryLock, Goto
    <3>2. \A u \in Tasks : pc'[u] \in Holding => mutex'[inst'[u]] = u
      BY <2>1, <2>2, <3>1
    <3>3. QED
      BY <2>1, <3>1, <3>2
  <2>3. CASE mutex[inst[t]] # NoOne
    BY <1>2, <2>1, <2>3 DEF TryLock, Goto, moduleVars
  <2>4. QED
    BY <2>2, <2>3
<1>3. ASSUME NEW t \in Tasks, PutBack(t) \/ Rearm(t) PROVE MutexInv'
  <2>1. InHook(t) /\ Mapped(inst[t]) /\ pc[t] \in Holding
    BY <1>3 DEF PutBack, Rearm, InHook, InModule
  <2>2. \E l \in {"exec", "unlock", "oops"} : pc' = [pc EXCEPT ![t] = l]
    BY <1>3 DEF PutBack, Rearm, Store, Goto
  <2>3. UNCHANGED <<loads, module, inst, mutex>>
    BY <1>3 DEF PutBack, Rearm
  <2>4. module \in InitPhases \union {"live"} =>
          \E l \in {"exec", "unlock"} : pc' = [pc EXCEPT ![t] = l]
    BY <1>3, <2>1, StoreSucceeds DEF PutBack, Rearm
  <2>5. QED
    BY <2>1, <2>2, <2>3, <2>4
<1>4. ASSUME NEW t \in Tasks, StartHelper(t) PROVE MutexInv'
  <2>1. PICK h \in Helpers : pc[h] = "gone" /\ pc' = [pc EXCEPT ![t] = "wait", ![h] = "idle"]
    BY <1>4 DEF StartHelper
  <2>2. pc[t] = "exec" /\ UNCHANGED <<loads, module, inst, mutex>>
    BY <1>4 DEF StartHelper
  <2>3. h # t /\ h \in Tasks
    BY <2>1, <2>2 DEF Tasks
  <2>4. \A u \in Tasks : pc'[u] \in Holding <=> pc[u] \in Holding
    BY <2>1, <2>2, <2>3
  <2>5. QED
    BY <2>2, <2>4, MutexPreserved
<1>5. ASSUME NEW t \in Tasks, StartFails(t) \/ Wake(t) PROVE MutexInv'
  <2>1. pc[t] \in Holding /\ pc' = [pc EXCEPT ![t] = "rearm"]
        /\ UNCHANGED <<loads, module, inst, mutex>>
    BY <1>5 DEF StartFails, Wake, Goto
  <2>2. QED
    BY <2>1, MutexPreserved
<1>6. ASSUME NEW t \in Tasks, Unlock(t) PROVE MutexInv'
  <2>1. inst[t] \in Loads
    BY <1>6 DEF Unlock, Mapped, ExecutionInv, InHook, InModule
  <2>2. QED
    BY <1>6, <2>1 DEF Unlock, Goto
<1>7. ASSUME NEW t \in Tasks, CallOriginal(t) PROVE MutexInv'
  <2>1. \E l \in {"kernel", "oops"} : pc' = [pc EXCEPT ![t] = l]
    BY <1>7, CallOriginalEffect
  <2>2. pc[t] = "original" /\ UNCHANGED <<loads, module, inst, mutex>>
    BY <1>7, CallOriginalEffect DEF CallOriginal
  <2>3. QED
    BY <2>1, <2>2
<1>8. ASSUME NEW t \in Tasks, KernelOpen(t) PROVE MutexInv'
  <2>1. /\ pc[t] = "kernel"
        /\ \E l \in {"idle", "oops"} : pc' = [pc EXCEPT ![t] = l]
        /\ UNCHANGED <<loads, module, inst, mutex>>
    BY <1>8 DEF KernelOpen, Goto
  <2>2. QED
    BY <2>1, MutexPreserved
<1>9. ASSUME NEW t \in Tasks, Fault(t) PROVE MutexInv'
  BY <1>9 DEF Fault, Goto, Mapped
<1>10. ASSUME NEW h \in Helpers, HelperExit(h) PROVE MutexInv'
  BY <1>10 DEF HelperExit, Goto, Tasks
<1>11. CASE Insmod
  BY <1>11 DEF Insmod, ExecutionInv
<1>12. CASE SetAddrRW \/ SaveOld \/ Hook \/ Unhook \/ SetAddrRO \/ Free
  BY <1>12 DEF SetAddrRW, SaveOld, Hook, Unhook, SetAddrRO, Free
<1>13. CASE UNCHANGED vars
  BY <1>13 DEF vars
<1>14. QED
  BY <1>1, <1>2, <1>3, <1>4, <1>5, <1>6, <1>7, <1>8, <1>9, <1>10, <1>11,
     <1>12, <1>13 DEF Next, NewOpen, HookCode, LoadUnload

-----------------------------------------------------------------------------
\* Only PutBack opens a bypass window, and only its own task leaves it.
LEMMA WindowEntry ==
  ASSUME TypeOK, PointersInv, ExecutionInv, NEW t \in Tasks, Elsewhere(t),
         NEW u \in Tasks
  PROVE  /\ pc'[u] \in Window => pc[u] \in Window /\ inst'[u] = inst[u]
         /\ pc[u] \in Window /\ Mapped(inst[u]) => pc'[u] \in Window /\ inst'[u] = inst[u]
<1> USE DEF Window, TypeOK
<1>1. CASE Dispatch(t)
  BY <1>1, DispatchEffect
<1>2. CASE TryLock(t) \/ Unlock(t) \/ KernelOpen(t)
  <2>1. /\ pc[t] \notin Window /\ inst' = inst
        /\ \E l \in {"locked", "idle", "original", "oops"} : pc' = [pc EXCEPT ![t] = l]
    BY <1>2 DEF TryLock, Unlock, KernelOpen, Goto
  <2>2. QED
    BY <2>1
<1>3. CASE StartHelper(t)
  <2>1. PICK h \in Helpers : pc[h] = "gone" /\ pc' = [pc EXCEPT ![t] = "wait", ![h] = "idle"]
    BY <1>3 DEF StartHelper
  <2>2. pc[t] = "exec" /\ inst' = inst
    BY <1>3 DEF StartHelper
  <2>3. QED
    BY <2>1, <2>2 DEF Tasks
<1>4. CASE StartFails(t) \/ Wake(t)
  BY <1>4 DEF StartFails, Wake, Goto
<1>5. CASE CallOriginal(t)
  BY <1>5, CallOriginalEffect DEF CallOriginal
<1>6. CASE Fault(t)
  BY <1>6 DEF Fault, Goto
<1>7. QED
  BY <1>1, <1>2, <1>3, <1>4, <1>5, <1>6 DEF Elsewhere

\* No pointer leads back to a load that is scanning.
LEMMA WindowCorrect == IInv /\ [Next]_vars => WindowInv'
<1> SUFFICES ASSUME TypeOK, PointersInv, ExecutionInv, MutexInv, WindowInv, [Next]_vars
             PROVE  WindowInv'
  BY DEF IInv
<1> USE BoundsAssumption DEF TypeOK, Loads
<1>1. ASSUME NEW t \in Tasks, Elsewhere(t) PROVE WindowInv'
  BY <1>1, ElsewhereUnchanged, WindowEntry DEF WindowInv
<1>2. ASSUME NEW t \in Tasks, PutBack(t) PROVE WindowInv'
  <2>1. inst[t] = loads /\ loads \in Loads
    BY <1>2 DEF PutBack, Mapped, ExecutionInv, InHook, InModule
  <2>2. UNCHANGED <<loads, old_open, inst>>
    BY <1>2 DEF PutBack
  <2>3. CASE table' = old_open[loads] /\ pc' = [pc EXCEPT ![t] = "exec"]
    <3>1. \A g \in Loads : old_open[g] # loads
      BY <2>1 DEF PointersInv, Kernel
    <3>2. QED
      BY <2>1, <2>2, <2>3, <3>1 DEF WindowInv, Window
  <2>4. CASE table' = table /\ pc' = [pc EXCEPT ![t] = "oops"]
    BY <2>2, <2>4 DEF WindowInv, Window
  <2>5. QED
    BY <1>2, <2>1, <2>3, <2>4 DEF PutBack, Store, Goto
<1>3. ASSUME NEW t \in Tasks, Rearm(t) PROVE WindowInv'
  <2>1. UNCHANGED <<old_open, inst>> /\ pc[t] \in Holding
    BY <1>3 DEF Rearm, Holding
  <2>2. /\ table' = table \/ table' = inst[t]
        /\ \E l \in {"unlock", "oops"} : pc' = [pc EXCEPT ![t] = l]
    BY <1>3 DEF Rearm, Store, Goto
  <2>3. ASSUME NEW u \in Tasks, pc'[u] \in Window
        PROVE  pc[u] \in Window /\ table' # inst[u]
    <3>1. u # t /\ pc[u] \in Window /\ pc[u] \in Holding
      BY <2>2, <2>3 DEF Window, Holding
    <3>2. inst[u] # inst[t]
      BY <2>1, <3>1 DEF MutexInv
    <3>3. QED
      BY <2>2, <3>1, <3>2 DEF WindowInv
  <2>4. QED
    BY <2>1, <2>3 DEF WindowInv
<1>4. ASSUME NEW h \in Helpers, HelperExit(h) PROVE WindowInv'
  BY <1>4 DEF HelperExit, Goto, WindowInv, Window, Tasks
<1>5. CASE Insmod \/ SetAddrRW \/ SetAddrRO \/ Free
  BY <1>5 DEF Insmod, SetAddrRW, SetAddrRO, Free, WindowInv
<1>6. CASE SaveOld
  BY <1>6 DEF SaveOld, WindowInv
<1>7. CASE Hook
  BY <1>7 DEF Hook, WindowInv, ExecutionInv, InHook, InModule, Window, InitPhases
<1>8. CASE Unhook
  BY <1>8 DEF Unhook, WindowInv, PointersInv
<1>9. CASE UNCHANGED vars
  BY <1>9 DEF vars, WindowInv
<1>10. QED
  BY <1>1, <1>2, <1>3, <1>4, <1>5, <1>6, <1>7, <1>8, <1>9, NextCases DEF LoadUnload

-----------------------------------------------------------------------------
\* The page is writable from init() until cleanup() has restored the table.
LEMMA PageCorrect == IInv /\ [Next]_vars => PageInv'
<1> SUFFICES ASSUME PageInv, [Next]_vars PROVE PageInv'
  BY DEF IInv
<1>1. ASSUME NEW t \in Tasks, Elsewhere(t) PROVE PageInv'
  BY <1>1, ElsewhereUnchanged DEF PageInv
<1>2. ASSUME NEW t \in Tasks, PutBack(t) \/ Rearm(t) PROVE PageInv'
  BY <1>2 DEF PutBack, Rearm, PageInv
<1>3. ASSUME NEW h \in Helpers, HelperExit(h) PROVE PageInv'
  BY <1>3 DEF HelperExit, PageInv
<1>4. CASE LoadUnload
  BY <1>4 DEF LoadUnload, Insmod, SetAddrRW, SaveOld, Hook, Unhook, SetAddrRO,
              Free, PageInv
<1>5. CASE UNCHANGED vars
  BY <1>5 DEF vars, PageInv
<1>6. QED
  BY <1>1, <1>2, <1>3, <1>4, <1>5, NextCases

\* While live the hook is in the table or its scanning task will put it there.
LEMMA ArmedCorrect == IInv /\ [Next]_vars => ArmedInv'
<1> SUFFICES ASSUME TypeOK, PointersInv, ExecutionInv, PageInv, ArmedInv, [Next]_vars
             PROVE  ArmedInv'
  BY DEF IInv
<1>1. ASSUME NEW t \in Tasks, Elsewhere(t) PROVE ArmedInv'
  BY <1>1, ElsewhereUnchanged, WindowEntry DEF ArmedInv, Mapped
<1>2. ASSUME NEW t \in Tasks, PutBack(t), module = "live" PROVE ArmedInv'
  <2>1. pc' = [pc EXCEPT ![t] = "exec"] /\ inst[t] = loads
    BY <1>2, StoreSucceeds DEF PutBack, InHook, InModule
  <2>2. pc'[t] \in Window /\ inst'[t] = loads'
    BY <1>2, <2>1 DEF PutBack, TypeOK, Window
  <2>3. QED
    BY <2>2 DEF ArmedInv
<1>3. ASSUME NEW t \in Tasks, Rearm(t), module = "live" PROVE ArmedInv'
  BY <1>3, StoreSucceeds DEF Rearm, InHook, InModule, ArmedInv
<1>4. ASSUME NEW t \in Tasks, PutBack(t) \/ Rearm(t), module # "live" PROVE ArmedInv'
  BY <1>4 DEF PutBack, Rearm, ArmedInv
<1>5. ASSUME NEW h \in Helpers, HelperExit(h) PROVE ArmedInv'
  BY <1>5 DEF HelperExit, Goto, ArmedInv, Window, Tasks, TypeOK
<1>6. CASE LoadUnload
  BY <1>6 DEF LoadUnload, Insmod, SetAddrRW, SaveOld, Hook, Unhook, SetAddrRO,
              Free, ArmedInv
<1>7. CASE UNCHANGED vars
  BY <1>7 DEF vars, ArmedInv
<1>8. QED
  BY <1>1, <1>2, <1>3, <1>4, <1>5, <1>6, <1>7, NextCases

-----------------------------------------------------------------------------
\* The steps other than StartHelper and Wake keep who is alive and who waits.
LEMMA ParentPreserved ==
  ASSUME ParentInv, UNCHANGED parent,
         \A h \in Helpers : Alive(h)' => Alive(h),
         \A u \in Tasks : pc[u] = "wait" => pc'[u] = "wait"
  PROVE  ParentInv'
BY DEF ParentInv

\* The task that started an antv process waits until that process has ended.
LEMMA ParentCorrect == IInv /\ [Next]_vars => ParentInv'
<1> SUFFICES ASSUME TypeOK, PointersInv, ExecutionInv, ParentInv, [Next]_vars
             PROVE  ParentInv'
  BY DEF IInv
<1> USE DEF TypeOK, Alive, Tasks
<1>1. ASSUME NEW t \in Tasks, StartHelper(t) PROVE ParentInv'
  <2>1. PICK h \in Helpers :
          /\ pc[h] = "gone"
          /\ pc' = [pc EXCEPT ![t] = "wait", ![h] = "idle"]
          /\ parent' = [parent EXCEPT ![h] = t]
    BY <1>1 DEF StartHelper
  <2>2. pc[t] = "exec" /\ h # t
    BY <1>1, <2>1 DEF StartHelper
  <2>3. ASSUME NEW k \in Helpers, Alive(k)'
        PROVE  parent'[k] \in Tasks /\ pc'[parent'[k]] = "wait"
    <3>1. CASE k = h
      BY <2>1, <2>2, <3>1
    <3>2. CASE k # h
      <4>1. Alive(k) /\ parent'[k] = parent[k]
        BY <2>1, <2>2, <2>3, <3>2
      <4>2. parent[k] \in Tasks /\ pc[parent[k]] = "wait"
        BY <4>1 DEF ParentInv
      <4>3. QED
        BY <2>1, <2>2, <4>1, <4>2
    <3>3. QED
      BY <3>1, <3>2
  <2>4. QED
    BY <2>3 DEF ParentInv
<1>2. ASSUME NEW t \in Tasks, Wake(t) PROVE ParentInv'
  <2>1. /\ \A h \in Helpers : parent[h] = t => ~Alive(h)
        /\ pc' = [pc EXCEPT ![t] = "rearm"] /\ pc[t] = "wait" /\ parent' = parent
    BY <1>2 DEF Wake, Goto
  <2>2. ASSUME NEW k \in Helpers, Alive(k)'
        PROVE  parent'[k] \in Tasks /\ pc'[parent'[k]] = "wait"
    <3>1. Alive(k)
      BY <2>1, <2>2
    <3>2. parent[k] # t /\ parent[k] \in Tasks /\ pc[parent[k]] = "wait"
      BY <2>1, <3>1 DEF ParentInv
    <3>3. QED
      BY <2>1, <3>2
  <2>3. QED
    BY <2>2 DEF ParentInv
<1>3. ASSUME NEW t \in Tasks, NEW l \in Labels, parent' = parent,
             pc' = [pc EXCEPT ![t] = l], pc[t] \notin {"gone", "oops", "wait"}
      PROVE  ParentInv'
  BY <1>3, ParentPreserved
<1>4. ASSUME NEW t \in Tasks,
             \/ TryLock(t) \/ PutBack(t) \/ StartFails(t) \/ Rearm(t)
             \/ Unlock(t) \/ KernelOpen(t) \/ Fault(t)
      PROVE  ParentInv'
  <2>1. /\ parent' = parent /\ pc[t] \notin {"gone", "oops", "wait"}
        /\ \E l \in Labels : pc' = [pc EXCEPT ![t] = l]
    BY <1>4 DEF TryLock, PutBack, StartFails, Rearm, Unlock, KernelOpen, Fault,
                Store, Goto, Labels, InModule
  <2>2. QED
    BY <1>3, <2>1
<1>5. ASSUME NEW t \in Tasks, Dispatch(t) PROVE ParentInv'
  <2>1. /\ parent' = parent /\ pc[t] = "idle"
        /\ \E l \in Labels : pc' = [pc EXCEPT ![t] = l]
    BY <1>5, DispatchEffect DEF Labels, InModule
  <2>2. QED
    BY <1>3, <2>1
<1>6. ASSUME NEW t \in Tasks, CallOriginal(t) PROVE ParentInv'
  <2>1. /\ parent' = parent /\ pc[t] = "original"
        /\ \E l \in Labels : pc' = [pc EXCEPT ![t] = l]
    BY <1>6, CallOriginalEffect DEF CallOriginal, Labels
  <2>2. QED
    BY <1>3, <2>1
<1>7. ASSUME NEW h \in Helpers, HelperExit(h) PROVE ParentInv'
  <2>1. parent' = parent /\ pc[h] = "idle" /\ pc' = [pc EXCEPT ![h] = "gone"]
    BY <1>7 DEF HelperExit, Goto
  <2>2. QED
    BY <1>3, <2>1 DEF Labels
<1>8. CASE LoadUnload \/ UNCHANGED vars
  BY <1>8, ParentPreserved DEF LoadUnload, Insmod, SetAddrRW, SaveOld, Hook, Unhook,
     SetAddrRO, Free, vars
<1>9. QED
  BY <1>1, <1>2, <1>4, <1>5, <1>6, <1>7, <1>8 DEF Next, NewOpen, HookCode

\* An antv process never enters the new_open that waits for it.
LEMMA HelperCorrect == IInv /\ [Next]_vars => HelperBypassesHook'
<1> SUFFICES ASSUME TypeOK, PointersInv, ExecutionInv, WindowInv, ParentInv,
                    HelperBypassesHook, [Next]_vars
             PROVE  HelperBypassesHook'
  BY DEF IInv
<1> USE DEF TypeOK, Tasks
<1>1. ASSUME NEW h \in Helpers, Alive(h)', InHook(h)' PROVE inst'[h] # inst'[parent'[h]]
  <2>1. CASE Dispatch(h)
    <3>1. inst'[h] = table /\ pc[h] = "idle" /\ inst' = [inst EXCEPT ![h] = table]
          /\ parent' = parent
      BY <1>1, <2>1, DispatchEffect DEF InHook, InModule, Alive
    <3>2. parent[h] \in Tasks /\ pc[parent[h]] = "wait"
      BY <3>1 DEF ParentInv, Alive
    <3>3. table # inst[parent[h]]
      BY <3>2 DEF WindowInv, Window
    <3>4. QED
      BY <3>1, <3>2, <3>3
  <2>2. ASSUME NEW t \in Tasks, Dispatch(t), t # h PROVE inst'[h] # inst'[parent'[h]]
    <3>1. /\ \A u \in Tasks \ {t} : pc'[u] = pc[u] /\ inst'[u] = inst[u]
          /\ parent' = parent /\ pc[t] = "idle"
      BY <2>2, DispatchEffect
    <3>2. Alive(h) /\ InHook(h)
      BY <1>1, <2>2, <3>1 DEF Alive, InHook
    <3>3. parent[h] \in Tasks /\ pc[parent[h]] = "wait" /\ inst[h] # inst[parent[h]]
      BY <3>2 DEF ParentInv, HelperBypassesHook
    <3>4. QED
      BY <2>2, <3>1, <3>3
  <2>3. ASSUME inst' = inst, \A u \in Tasks : InHook(u)' => InHook(u)
        PROVE  inst'[h] # inst'[parent'[h]]
    <3>1. InHook(h) /\ Alive(h)
      BY <1>1, <2>3 DEF InHook, InModule, Alive
    <3>2. parent'[h] = parent[h]
      <4>1. ASSUME NEW t \in Tasks, StartHelper(t) PROVE parent'[h] = parent[h]
        BY <4>1, <3>1 DEF StartHelper, Alive
      <4>2. ASSUME NEW t \in Tasks, CallOriginal(t) PROVE parent'[h] = parent[h]
        BY <4>2 DEF CallOriginal
      <4>3. ASSUME NEW t \in Tasks, Dispatch(t) PROVE parent'[h] = parent[h]
        BY <4>3, DispatchEffect
      <4>4. ASSUME NEW t \in Tasks,
                   \/ TryLock(t) \/ PutBack(t) \/ StartFails(t) \/ Wake(t) \/ Rearm(t)
                   \/ Unlock(t) \/ KernelOpen(t) \/ Fault(t)
            PROVE  parent'[h] = parent[h]
        BY <4>4 DEF TryLock, PutBack, StartFails, Wake, Rearm, Unlock, KernelOpen, Fault
      <4>5. ASSUME NEW k \in Helpers, HelperExit(k) PROVE parent'[h] = parent[h]
        BY <4>5 DEF HelperExit
      <4>6. CASE LoadUnload \/ UNCHANGED vars
        BY <4>6 DEF LoadUnload, Insmod, SetAddrRW, SaveOld, Hook, Unhook, SetAddrRO,
                    Free, vars
      <4>7. QED
        BY <4>1, <4>2, <4>3, <4>4, <4>5, <4>6 DEF Next, NewOpen, HookCode
    <3>3. QED
      BY <2>3, <3>1, <3>2 DEF HelperBypassesHook
  <2>4. QED
    BY <2>1, <2>2, <2>3, HookEntry
<1>2. ASSUME NEW h \in Helpers, loads' <= 1 PROVE result'[h] # "EBUSY"
  <2>1. CASE TryLock(h)
    <3>1. inst[h] = loads /\ loads' = loads /\ Alive(h) /\ InHook(h)
      BY <2>1 DEF TryLock, Mapped, Alive, InHook, InModule
    <3>2. parent[h] \in Tasks /\ InHook(parent[h]) /\ inst[h] # inst[parent[h]]
      BY <3>1 DEF ParentInv, HelperBypassesHook, InHook
    <3>3. inst[parent[h]] = 1 /\ inst[h] = 1
      BY <1>2, <3>1, <3>2 DEF ExecutionInv
    <3>4. QED
      BY <3>2, <3>3
  <2>2. CASE result'[h] = "EBUSY" /\ ~TryLock(h)
    <3>1. result[h] = "EBUSY" /\ loads' \in {loads, loads + 1}
      <4>1. ASSUME NEW t \in Tasks, TryLock(t), t # h PROVE result'[h] = result[h] /\ loads' = loads
        BY <4>1 DEF TryLock
      <4>2. ASSUME NEW t \in Tasks, Dispatch(t) PROVE (result'[h] = result[h] \/ result'[h] = "none") /\ loads' = loads
        BY <4>2 DEF Dispatch
      <4>3. ASSUME NEW t \in Tasks, KernelOpen(t) PROVE (result'[h] = result[h] \/ result'[h] = "done") /\ loads' = loads
        BY <4>3 DEF KernelOpen
      <4>4. ASSUME NEW t \in Tasks,
                   \/ PutBack(t) \/ StartHelper(t) \/ StartFails(t) \/ Wake(t) \/ Rearm(t)
                   \/ Unlock(t) \/ CallOriginal(t) \/ Fault(t)
            PROVE  result'[h] = result[h] /\ loads' = loads
        BY <4>4 DEF PutBack, StartHelper, StartFails, Wake, Rearm, Unlock, CallOriginal, Fault
      <4>5. ASSUME NEW k \in Helpers, HelperExit(k) PROVE result'[h] = result[h] /\ loads' = loads
        BY <4>5 DEF HelperExit
      <4>6. CASE LoadUnload \/ UNCHANGED vars
        BY <2>2, <4>6 DEF LoadUnload, Insmod, SetAddrRW, SaveOld, Hook, Unhook,
                          SetAddrRO, Free, vars
      <4>7. QED
        BY <2>2, <4>1, <4>2, <4>3, <4>4, <4>5, <4>6 DEF Next, NewOpen, HookCode
    <3>2. QED
      BY <1>2, <3>1 DEF HelperBypassesHook
  <2>3. QED
    BY <2>1, <2>2
<1>3. QED
  BY <1>1, <1>2 DEF HelperBypassesHook

-----------------------------------------------------------------------------
\* Until the first unload no task faults.
FirstLoad == loads = 0 \/ (loads = 1 /\ module \in InitPhases \union {"live"})

\* During the first load there is one load and nothing has been unmapped.
LEMMA FirstLoadFacts ==
  ASSUME TypeOK, PointersInv, ExecutionInv, FirstLoad
  PROVE  /\ table # 0 => Mapped(table)
         /\ \A t \in Tasks : inst[t] # 0 => Mapped(inst[t])
         /\ \A t \in Tasks : InHook(t) => /\ inst[t] = 1 /\ Mapped(1)
                                          /\ old_open[1] = 0
                                          /\ module \in InitPhases \union {"live"}
<1>1. CASE loads = 0
  BY <1>1 DEF TypeOK, PointersInv, ExecutionInv
<1>2. CASE loads = 1 /\ module \in InitPhases \union {"live"}
  <2>1. Mapped(1) /\ 1 \in Loads
    BY <1>2, BoundsAssumption DEF Mapped, InitPhases, TypeOK, Loads
  <2>2. old_open[1] = 0
    BY <2>1 DEF PointersInv, TypeOK
  <2>3. table \in {0, 1} /\ \A t \in Tasks : inst[t] \in {0, 1}
    BY <1>2 DEF PointersInv, ExecutionInv, TypeOK
  <2>4. QED
    BY <1>2, <2>1, <2>2, <2>3 DEF ExecutionInv
<1>3. QED
  BY <1>1, <1>2 DEF FirstLoad

\* The first load's phase is only left, never entered again.
LEMMA FirstLoadPast ==
  ASSUME TypeOK, PointersInv, [Next]_vars, FirstLoad'
  PROVE  FirstLoad
<1>1. ASSUME NEW t \in Tasks, Elsewhere(t) PROVE FirstLoad
  BY <1>1, ElsewhereUnchanged DEF FirstLoad
<1>2. ASSUME NEW t \in Tasks, PutBack(t) \/ Rearm(t) PROVE FirstLoad
  BY <1>2 DEF PutBack, Rearm, FirstLoad
<1>3. ASSUME NEW h \in Helpers, HelperExit(h) PROVE FirstLoad
  BY <1>3 DEF HelperExit, FirstLoad
<1>4. CASE LoadUnload
  BY <1>4 DEF LoadUnload, Insmod, SetAddrRW, SaveOld, Hook, Unhook, SetAddrRO, Free,
              FirstLoad, PointersInv, TypeOK, InitPhases
<1>5. CASE UNCHANGED vars
  BY <1>5 DEF vars, FirstLoad
<1>6. QED
  BY <1>1, <1>2, <1>3, <1>4, <1>5, NextCases

\* No step faults before the first unloading begins.
LEMMA NoFaultCorrect == IInv /\ [Next]_vars => NoFaultBeforeUnload'
<1> SUFFICES ASSUME TypeOK, PointersInv, ExecutionInv, PageInv, NoFaultBeforeUnload,
                    [Next]_vars, FirstLoad', NEW u \in Tasks
             PROVE  pc'[u] # "oops"
  BY DEF IInv, NoFaultBeforeUnload, FirstLoad
<1> USE DEF TypeOK, Tasks
<1>1. FirstLoad /\ pc[u] # "oops"
  BY FirstLoadPast DEF NoFaultBeforeUnload, FirstLoad
<1>2. ASSUME NEW t \in Tasks, Dispatch(t) PROVE pc'[u] # "oops"
  BY <1>1, <1>2, DispatchEffect, FirstLoadFacts
<1>3. ASSUME NEW t \in Tasks, PutBack(t) \/ Rearm(t) PROVE pc'[u] # "oops"
  <2>1. InHook(t) /\ Mapped(inst[t]) /\ module \in InitPhases \union {"live"}
    BY <1>1, <1>3, FirstLoadFacts DEF PutBack, Rearm, InHook, InModule
  <2>2. \E l \in {"exec", "unlock"} : pc' = [pc EXCEPT ![t] = l]
    BY <1>3, <2>1, StoreSucceeds DEF PutBack, Rearm
  <2>3. QED
    BY <1>1, <2>2
<1>4. ASSUME NEW t \in Tasks, StartHelper(t) PROVE pc'[u] # "oops"
  BY <1>1, <1>4 DEF StartHelper
<1>5. ASSUME NEW t \in Tasks, TryLock(t) \/ StartFails(t) \/ Wake(t) \/ Unlock(t)
      PROVE  pc'[u] # "oops"
  <2>1. \E l \in {"locked", "idle", "rearm", "original"} : pc' = [pc EXCEPT ![t] = l]
    BY <1>5 DEF TryLock, StartFails, Wake, Unlock, Goto
  <2>2. QED
    BY <1>1, <2>1
<1>6. ASSUME NEW t \in Tasks, CallOriginal(t) PROVE pc'[u] # "oops"
  <2>1. InHook(t)
    BY <1>6 DEF CallOriginal, InHook, InModule
  <2>2. old_open[inst[t]] = 0
    BY <1>1, <2>1, FirstLoadFacts
  <2>3. QED
    BY <1>1, <1>6, <2>2, CallOriginalEffect
<1>7. ASSUME NEW t \in Tasks, KernelOpen(t) PROVE pc'[u] # "oops"
  BY <1>1, <1>7, FirstLoadFacts DEF KernelOpen, Goto, Kernel
<1>8. ASSUME NEW t \in Tasks, Fault(t) PROVE pc'[u] # "oops"
  BY <1>1, <1>8, FirstLoadFacts DEF Fault, InHook
<1>9. ASSUME NEW h \in Helpers, HelperExit(h) PROVE pc'[u] # "oops"
  BY <1>1, <1>9 DEF HelperExit, Goto
<1>10. CASE LoadUnload \/ UNCHANGED vars
  BY <1>1, <1>10 DEF LoadUnload, Insmod, SetAddrRW, SaveOld, Hook, Unhook, SetAddrRO,
                     Free, vars
<1>11. QED
  BY <1>2, <1>3, <1>4, <1>5, <1>6, <1>7, <1>8, <1>9, <1>10 DEF Next, NewOpen, HookCode

-----------------------------------------------------------------------------
\* The invariant holds before the first insmod.
LEMMA InitCorrect == Init => IInv
<1> SUFFICES ASSUME Init PROVE IInv
  OBVIOUS
<1> USE TasksAssumption, BoundsAssumption DEF Init, Kernel, Loads
<1>1. TypeOK
  <2>1. pc \in [Tasks -> Labels]
    BY DEF Labels
  <2>2. /\ table \in 0 .. MaxLoads /\ loads \in 0 .. MaxLoads
        /\ inst \in [Tasks -> 0 .. MaxLoads]
        /\ old_open \in [1 .. MaxLoads -> 0 .. MaxLoads]
    OBVIOUS
  <2>3. opensLeft \in [Helpers -> 0 .. HelperOpens]
    OBVIOUS
  <2>4. QED
    BY <2>1, <2>2, <2>3 DEF TypeOK, Phases
<1>2. PointersInv
  BY DEF PointersInv, InitPhases
<1>3. \A t \in Tasks : pc[t] \in {"idle", "gone"} /\ inst[t] = 0
  OBVIOUS
<1>4. ExecutionInv /\ MutexInv /\ WindowInv
  BY <1>3 DEF ExecutionInv, MutexInv, WindowInv, InHook, InModule, Holding, Window,
              InitPhases
<1>5. PageInv /\ ArmedInv
  BY DEF PageInv, ArmedInv
<1>6. \A h \in Helpers : ~Alive(h) /\ result[h] # "EBUSY"
  BY DEF Alive, Tasks
<1>7. ParentInv /\ HelperBypassesHook
  BY <1>6 DEF ParentInv, HelperBypassesHook
<1>8. NoFaultBeforeUnload
  BY <1>3 DEF NoFaultBeforeUnload
<1>9. QED
  BY <1>1, <1>2, <1>4, <1>5, <1>7, <1>8 DEF IInv

\* IInv holds in every reachable state of the hook, its opens, its antv
\* processes and its loads and unloads, however many there are
\* (on_access.c:103-260).
THEOREM Invariance == Spec => []IInv
<1>1. IInv /\ [Next]_vars => IInv'
  BY TypeCorrect, PointersCorrect, ExecutionCorrect, MutexCorrect, WindowCorrect,
     PageCorrect, ArmedCorrect, ParentCorrect, HelperCorrect, NoFaultCorrect DEF IInv
<1>2. QED
  BY InitCorrect, <1>1, PTL DEF Spec

\* The variables keep their types: in particular every pointer in the table is
\* that of a load, and no antv process outlives its bound of opens.
THEOREM TypeCorrectness == Spec => []TypeOK
<1>1. IInv => TypeOK
  BY DEF IInv
<1>2. QED
  BY Invariance, <1>1, PTL

\* While the module is live, opens bypass the scanner only during a scan, on
\* every path through new_open (on_access.c:154-181).
THEOREM HookStaysArmed == Spec => []HookArmed
<1>1. IInv => HookArmed
  BY DEF IInv, HookArmed, ArmedInv, WindowInv
<1>2. QED
  BY Invariance, <1>1, PTL

\* antv_mutex is exclusive and is never left locked while the module is live
\* (on_access.c:149-183).
THEOREM MutexIsExclusive == Spec => []LockOwnership
<1>1. IInv => LockOwnership
  BY DEF IInv, LockOwnership, MutexInv
<1>2. QED
  BY Invariance, <1>1, PTL

\* The antv process never enters the new_open that waits for it, across any
\* number of loads and unloads (on_access.c:154-167).
THEOREM HelpersBypassHook == Spec => []HelperBypassesHook
<1>1. IInv => HelperBypassesHook
  BY DEF IInv
<1>2. QED
  BY Invariance, <1>1, PTL

\* Until the first rmmod the hook causes no kernel fault, whatever tasks open
\* and whatever antv does (on_access.c:228-236).
THEOREM NoFault == Spec => []NoFaultBeforeUnload
<1>1. IInv => NoFaultBeforeUnload
  BY DEF IInv
<1>2. QED
  BY Invariance, <1>1, PTL

-----------------------------------------------------------------------------
(***************************************************************************)
(* The hook implements the open gate, for any number of tasks and loads:   *)
(* until the first rmmod, no interleaving serves an open unscanned unless   *)
(* another one is being scanned.                                           *)
(***************************************************************************)
StageMap == [t \in Tasks |-> StageAt(pc[t])]

\* The stage of each control point.
LEMMA StageValues ==
  /\ StageAt("idle") = "idle" /\ StageAt("gone") = "idle" /\ StageAt("oops") = "idle"
  /\ StageAt("entry") = "asked" /\ StageAt("original") = "cleared"
  /\ StageAt("kernel") = "passing"
  /\ \A l \in Holding : StageAt(l) = "scanning"
  /\ \A l \in Labels : StageAt(l) = "scanning" => l \in Holding
  /\ \A l \in Labels : StageAt(l) \in Gate!Stages
BY DEF StageAt, Holding, Labels, InModule, Gate!Stages

\* One task moves: its stage follows its control point.
LEMMA StageMoves ==
  ASSUME TypeOK, NEW t \in Tasks, NEW l, pc' = [pc EXCEPT ![t] = l]
  PROVE  StageMap' = [StageMap EXCEPT ![t] = StageAt(l)]
BY DEF TypeOK, StageMap

\* The gate is void exactly when the module has been unloaded once.
LEMMA GateValues ==
  /\ GateOf = "void" <=> ~FirstLoad
  /\ GateOf = "on" <=> loads = 1 /\ module = "live"
  /\ GateOf = "off" <=> loads = 0 \/ (loads = 1 /\ module \in InitPhases)
BY DEF GateOf, FirstLoad, InitPhases

\* A step within one stage, or of the module alone, is no step of the gate.
LEMMA Stutters ==
  ASSUME TypeOK, UNCHANGED <<loads, module>>, NEW t \in Tasks, NEW l,
         pc' = [pc EXCEPT ![t] = l], StageAt(l) = StageAt(pc[t])
  PROVE  UNCHANGED Gate!gateVars
<1>1. GateOf' = GateOf
  BY DEF GateOf
<1>2. StageMap' = StageMap
  BY StageMoves DEF StageMap
<1>3. QED
  BY <1>1, <1>2 DEF Gate!gateVars, StageMap

\* A task that leaves one stage for another makes a move of the gate.
LEMMA Moves ==
  ASSUME TypeOK, UNCHANGED <<loads, module>>, NEW t \in Tasks, NEW l,
         pc' = [pc EXCEPT ![t] = l]
  PROVE  Gate!Move(t, StageAt(pc[t]), StageAt(l))
<1>1. GateOf' = GateOf
  BY DEF GateOf
<1>2. StageMap' = [StageMap EXCEPT ![t] = StageAt(l)]
  BY StageMoves
<1>3. QED
  BY <1>1, <1>2 DEF Gate!Move, StageMap

\* Somebody scans: a task is between trylock and unlock.
LEMMA Busy ==
  ASSUME TypeOK, NEW u \in Tasks
  PROVE  Gate!BusyWith(u) <=> pc[u] \in Holding
BY StageValues DEF Gate!BusyWith, TypeOK

-----------------------------------------------------------------------------
\* open(2) asks at the gate, or bypasses it while it is off or somebody scans;
\* an antv process never asks (on_access.c:154).
LEMMA DispatchMoves ==
  ASSUME IInv, FirstLoad, NEW t \in Tasks, Dispatch(t)
  PROVE  Gate!Bypass(t) \/ Gate!Ask(t)
<1> USE DEF IInv
<1>1. UNCHANGED <<loads, module>> /\ pc[t] = "idle"
  BY DispatchEffect
<1>2. table \in {0, 1} /\ (GateOf = "off" => table = 0)
  BY GateValues DEF FirstLoad, PointersInv, TypeOK, InitPhases
<1>3. CASE table = 0
  <2>1. pc' = [pc EXCEPT ![t] = "kernel"]
    BY <1>3 DEF Dispatch, Goto, Kernel, Jump
  <2>2. Gate!Move(t, "idle", "passing")
    BY <1>1, <2>1, Moves, StageValues
  <2>3. ASSUME GateOf = "on" PROVE \E u \in Tasks \ {t} : Gate!BusyWith(u)
    <3>1. PICK u \in Tasks : pc[u] \in Window
      BY <1>3, <2>3, GateValues DEF ArmedInv
    <3>2. u # t /\ pc[u] \in Holding
      BY <1>1, <3>1 DEF Window, Holding
    <3>3. QED
      BY <3>2, Busy
  <2>4. GateOf \in {"off", "on"}
    BY GateValues DEF GateOf
  <2>5. QED
    BY <2>2, <2>3, <2>4 DEF Gate!Bypass
<1>4. CASE table = 1
  <2>1. GateOf = "on"
    BY <1>2, <1>4, GateValues DEF GateOf
  <2>2. pc' = [pc EXCEPT ![t] = "entry"]
    BY <1>4, DispatchEffect, FirstLoadFacts DEF Dispatch, Kernel, Jump, Goto
  <2>3. t \in Users
    <3>1. SUFFICES ASSUME t \in Helpers PROVE FALSE
      BY DEF Tasks
    <3>2. parent[t] \in Tasks /\ pc[parent[t]] = "wait"
      BY <1>1, <3>1 DEF ParentInv, Alive
    <3>3. inst[parent[t]] = 1 /\ table # inst[parent[t]]
      BY <3>2, FirstLoadFacts DEF InHook, WindowInv, Window
    <3>4. QED
      BY <1>4, <3>3
  <2>4. Gate!Move(t, "idle", "asked")
    BY <1>1, <2>2, Moves, StageValues
  <2>5. QED
    BY <2>1, <2>3, <2>4 DEF Gate!Ask
<1>5. QED
  BY <1>2, <1>3, <1>4

\* Whoever is inside new_open of the first load finds the gate on.
LEMMA InsideIsOn ==
  ASSUME IInv, FirstLoad, NEW t \in Tasks, InHook(t)
  PROVE  /\ GateOf = "on" /\ module = "live" /\ loads = 1
         /\ inst[t] = 1 /\ 1 \in Loads /\ Mapped(1) /\ old_open[1] = 0
<1>1. inst[t] = 1 /\ Mapped(1) /\ old_open[1] = 0
  BY FirstLoadFacts DEF IInv
<1>2. loads = 1 /\ module = "live"
  BY <1>1 DEF IInv, FirstLoad, ExecutionInv, TypeOK
<1>3. QED
  BY <1>1, <1>2, GateValues, BoundsAssumption DEF IInv, TypeOK, Loads

\* mutex_trylock refuses only while another open is scanned, and lets one in
\* only when none is (on_access.c:149-152).
LEMMA TryLockMoves ==
  ASSUME IInv, FirstLoad, NEW t \in Tasks, TryLock(t)
  PROVE  Gate!Scan(t) \/ Gate!Refuse(t)
<1> USE DEF IInv
<1>1. pc[t] = "entry" /\ InHook(t) /\ UNCHANGED <<loads, module>>
  BY DEF TryLock, InHook, InModule
<1>2. GateOf = "on" /\ inst[t] = 1 /\ loads = 1 /\ module = "live" /\ 1 \in Loads
  BY <1>1, InsideIsOn
<1>3. CASE mutex[1] = NoOne
  <2>1. pc' = [pc EXCEPT ![t] = "locked"]
    BY <1>2, <1>3 DEF TryLock, Goto
  <2>2. ASSUME NEW u \in Tasks PROVE ~Gate!BusyWith(u)
    <3>1. SUFFICES ASSUME pc[u] \in Holding PROVE FALSE
      BY Busy
    <3>2. InHook(u)
      BY <3>1 DEF InHook, InModule, Holding
    <3>3. inst[u] = 1 /\ mutex[inst[u]] = u
      BY <3>1, <3>2, InsideIsOn DEF MutexInv
    <3>4. QED
      BY <1>3, <3>3, TasksAssumption
  <2>3. Gate!Move(t, "asked", "scanning")
    <3>1. StageAt("locked") = "scanning"
      BY StageValues DEF Holding
    <3>2. QED
      BY <1>1, <2>1, <3>1, Moves, StageValues
  <2>4. QED
    BY <1>2, <2>2, <2>3 DEF Gate!Scan
<1>4. CASE mutex[1] # NoOne
  <2>1. pc' = [pc EXCEPT ![t] = "idle"]
    BY <1>2, <1>4 DEF TryLock, Goto
  <2>2. mutex[1] \in Tasks /\ pc[mutex[1]] \in Holding
    BY <1>2, <1>4 DEF MutexInv, TypeOK
  <2>3. mutex[1] # t
    BY <1>1, <2>2 DEF Holding
  <2>4. \E u \in Tasks \ {t} : Gate!BusyWith(u)
    BY <2>2, <2>3, Busy
  <2>5. Gate!Move(t, "asked", "idle")
    BY <1>1, <2>1, Moves, StageValues
  <2>6. QED
    BY <1>2, <2>4, <2>5 DEF Gate!Refuse
<1>5. QED
  BY <1>3, <1>4

\* The stores and the run of antv happen within one scan (on_access.c:154-181).
LEMMA ScanStutters ==
  ASSUME IInv, FirstLoad, NEW t \in Tasks,
         PutBack(t) \/ StartHelper(t) \/ StartFails(t) \/ Wake(t) \/ Rearm(t)
  PROVE  UNCHANGED Gate!gateVars
<1> USE DEF IInv
<1>1. pc[t] \in Holding /\ InHook(t) /\ UNCHANGED <<loads, module>>
  BY DEF PutBack, StartHelper, StartFails, Wake, Rearm, Holding, InHook, InModule
<1>2. module = "live" /\ inst[t] = 1 /\ Mapped(1)
  BY <1>1, InsideIsOn
<1>3. CASE StartHelper(t)
  <2>1. PICK h \in Helpers : pc[h] = "gone" /\ pc' = [pc EXCEPT ![t] = "wait", ![h] = "idle"]
    BY <1>3 DEF StartHelper
  <2>2. StageAt("wait") = "scanning" /\ StageAt(pc[t]) = "scanning"
    BY <1>1, StageValues DEF Holding
  <2>3. \A u \in Tasks : StageAt(pc'[u]) = StageAt(pc[u])
    BY <2>1, <2>2, StageValues DEF TypeOK, Tasks
  <2>4. GateOf' = GateOf
    BY <1>1 DEF GateOf
  <2>5. QED
    BY <2>3, <2>4 DEF Gate!gateVars
<1>4. CASE ~StartHelper(t)
  <2>1. \E l \in Holding : pc' = [pc EXCEPT ![t] = l]
    <3>1. CASE StartFails(t) \/ Wake(t)
      BY <3>1 DEF StartFails, Wake, Goto, Holding
    <3>2. CASE PutBack(t) \/ Rearm(t)
      BY <1>1, <1>2, <3>2, StoreSucceeds DEF PutBack, Rearm, Holding
    <3>3. QED
      BY <1>4, <3>1, <3>2
  <2>2. QED
    BY <1>1, <2>1, Stutters, StageValues
<1>5. QED
  BY <1>3, <1>4

\* After mutex_unlock the file is opened through the saved pointer, which is
\* the kernel's (on_access.c:183-187).
LEMMA AnswerMoves ==
  ASSUME IInv, FirstLoad, NEW t \in Tasks, Unlock(t) \/ CallOriginal(t) \/ KernelOpen(t)
  PROVE  Gate!Clear(t) \/ Gate!Pass(t) \/ Gate!Finish(t)
<1> USE DEF IInv
<1>1. UNCHANGED <<loads, module>>
  BY DEF Unlock, CallOriginal, KernelOpen
<1>2. CASE Unlock(t)
  <2>1. InHook(t) /\ pc[t] = "unlock" /\ pc' = [pc EXCEPT ![t] = "original"]
    BY <1>2 DEF Unlock, InHook, InModule, Goto
  <2>2. StageAt(pc[t]) = "scanning"
    BY <2>1, StageValues DEF Holding
  <2>3. QED
    BY <1>1, <2>1, <2>2, Moves, InsideIsOn, StageValues DEF Gate!Clear
<1>3. CASE CallOriginal(t)
  <2>1. InHook(t) /\ pc[t] = "original"
    BY <1>3 DEF CallOriginal, InHook, InModule
  <2>2. GateOf = "on" /\ old_open[inst[t]] = 0
    BY <2>1, InsideIsOn
  <2>3. pc' = [pc EXCEPT ![t] = "kernel"]
    BY <1>3, <2>2, CallOriginalEffect
  <2>4. QED
    BY <1>1, <2>1, <2>2, <2>3, Moves, StageValues DEF Gate!Pass
<1>4. CASE KernelOpen(t)
  <2>1. pc[t] = "kernel" /\ pc' = [pc EXCEPT ![t] = "idle"]
    BY <1>4, FirstLoadFacts DEF KernelOpen, Goto, Kernel
  <2>2. GateOf # "void"
    BY GateValues
  <2>3. QED
    BY <1>1, <2>1, <2>2, Moves, StageValues DEF Gate!Finish
<1>5. QED
  BY <1>2, <1>3, <1>4

\* insmod opens the gate with its last store, rmmod voids it with its first
\* (on_access.c:236, 246).
LEMMA ModuleMoves ==
  ASSUME IInv, FirstLoad, LoadUnload
  PROVE  Gate!Load \/ Gate!Unload \/ UNCHANGED Gate!gateVars
<1> USE DEF IInv
<1>1. pc' = pc
  BY DEF LoadUnload, Insmod, SetAddrRW, SaveOld, Hook, Unhook, SetAddrRO, Free
<1>2. CASE Hook
  <2>1. GateOf = "off" /\ GateOf' = "on"
    BY <1>2 DEF Hook, FirstLoad, GateOf, PointersInv, TypeOK, InitPhases
  <2>2. QED
    BY <1>1, <2>1 DEF Gate!Load
<1>3. CASE Unhook
  <2>1. GateOf = "on" /\ GateOf' = "void"
    BY <1>3 DEF Unhook, FirstLoad, GateOf, PointersInv, TypeOK, InitPhases
  <2>2. QED
    BY <1>1, <2>1 DEF Gate!Unload
<1>4. CASE Insmod \/ SetAddrRW \/ SaveOld
  <2>1. GateOf' = GateOf
    BY <1>4 DEF Insmod, SetAddrRW, SaveOld, FirstLoad, GateOf, PointersInv, TypeOK, InitPhases
  <2>2. QED
    BY <1>1, <2>1 DEF Gate!gateVars
<1>5. CASE SetAddrRO \/ Free
  BY <1>5 DEF SetAddrRO, Free, FirstLoad, InitPhases, PointersInv, TypeOK
<1>6. QED
  BY <1>2, <1>3, <1>4, <1>5 DEF LoadUnload

-----------------------------------------------------------------------------
\* Every step of the hook is a step of the gate or none.
LEMMA HookStepRefines == IInv /\ IInv' /\ [Next]_vars => [Gate!GateNext]_(Gate!gateVars)
<1> SUFFICES ASSUME IInv, IInv', [Next]_vars
             PROVE  Gate!GateNext \/ UNCHANGED Gate!gateVars
  OBVIOUS
<1>1. CASE FirstLoad
  <2>1. ASSUME NEW t \in Tasks, Dispatch(t) PROVE Gate!GateNext
    BY <1>1, <2>1, DispatchMoves DEF Gate!GateNext
  <2>2. ASSUME NEW t \in Tasks, TryLock(t) PROVE Gate!GateNext
    BY <1>1, <2>2, TryLockMoves DEF Gate!GateNext
  <2>3. ASSUME NEW t \in Tasks, Unlock(t) \/ CallOriginal(t) \/ KernelOpen(t) PROVE Gate!GateNext
    BY <1>1, <2>3, AnswerMoves DEF Gate!GateNext
  <2>4. ASSUME NEW t \in Tasks,
               PutBack(t) \/ StartHelper(t) \/ StartFails(t) \/ Wake(t) \/ Rearm(t)
        PROVE  UNCHANGED Gate!gateVars
    BY <1>1, <2>4, ScanStutters
  <2>5. ASSUME NEW t \in Tasks, Fault(t) PROVE FALSE
    BY <1>1, <2>5, FirstLoadFacts DEF Fault, InHook, IInv
  <2>6. ASSUME NEW h \in Helpers, HelperExit(h) PROVE UNCHANGED Gate!gateVars
    <3>1. /\ h \in Tasks /\ pc[h] = "idle" /\ pc' = [pc EXCEPT ![h] = "gone"]
          /\ UNCHANGED <<loads, module>>
      BY <2>6 DEF HelperExit, Goto, Tasks
    <3>2. QED
      BY <3>1, Stutters, StageValues DEF IInv
  <2>7. ASSUME LoadUnload PROVE Gate!GateNext \/ UNCHANGED Gate!gateVars
    BY <1>1, <2>7, ModuleMoves DEF Gate!GateNext
  <2>8. ASSUME UNCHANGED vars PROVE UNCHANGED Gate!gateVars
    BY <2>8 DEF vars, Gate!gateVars, GateOf
  <2>9. QED
    BY <2>1, <2>2, <2>3, <2>4, <2>5, <2>6, <2>7, <2>8 DEF Next, NewOpen, HookCode
<1>2. CASE ~FirstLoad
  <2>1. ~FirstLoad'
    BY <1>2, FirstLoadPast DEF IInv
  <2>2. GateOf = "void"
    BY <1>2, GateValues
  <2>3. GateOf' = "void"
    BY <2>1 DEF FirstLoad, GateOf, InitPhases
  <2>4. StageMap' \in [Tasks -> Gate!Stages]
    <3>1. pc' \in [Tasks -> Labels]
      BY DEF IInv, TypeOK
    <3>2. QED
      BY <3>1, StageValues DEF StageMap
  <2>5. Gate!Void
    BY <2>2, <2>3, <2>4 DEF Gate!Void, StageMap
  <2>6. QED
    BY <2>5 DEF Gate!GateNext
<1>3. QED
  BY <1>1, <1>2

\* The hook implements the open gate: until it is unloaded, an open is served
\* only after its own scan or while another is scanned, and is refused only
\* then, for any number of tasks (on_access.c:149-187).
THEOREM HookImplementsGate == Spec => ImplementsGate
<1>1. Init => Gate!GateInit
  <2> SUFFICES ASSUME Init PROVE Gate!GateInit
    OBVIOUS
  <2>1. GateOf = "off"
    BY DEF Init, GateOf
  <2>2. \A t \in Tasks : StageAt(pc[t]) = "idle"
    BY StageValues DEF Init
  <2>3. QED
    BY <2>1, <2>2 DEF Gate!GateInit
<1>2. QED
  BY <1>1, HookStepRefines, Invariance, PTL DEF Spec, ImplementsGate, Gate!GateSpec
=============================================================================
