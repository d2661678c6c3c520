------------------------- MODULE KscanDeviceProofs -------------------------
(***************************************************************************)
(* The device variant of the hook for any number of tasks, names and texts. *)
(* Registration and the state of the table follow the step of init() and    *)
(* cleanup() alone.  The mutex and the buffer need that nobody opens the    *)
(* device before init() has ended (~EarlyOpens): mutex_init would free the  *)
(* mutex under him.                                                        *)
(***************************************************************************)
EXTENDS KscanDevice, TLAPS

\* Every variable keeps its type (the static data and the task's arguments of
\* on_access-1.c:43-60).
THEOREM TypeCorrectness == Spec => []TypeOK
<1>1. 0 \in {Length[s] : s \in Strings}
  BY NamesAssumption DEF Strings
<1>2. Init => TypeOK
  <2> SUFFICES ASSUME Init PROVE TypeOK
    OBVIOUS
  <2>1. size_of_message \in {Length[s] : s \in Strings}
    BY <1>1 DEF Init
  <2>2. pc \in [Tasks -> {"idle", "entry", "sys_open"} \union Storing]
    BY DEF Init
  <2>3. path \in [Tasks -> Paths \union {Device}] /\ message \in Strings
    BY DEF Init, Strings
  <2>4. QED
    BY <2>1, <2>2, <2>3 DEF Init, TypeOK
<1>3. TypeOK /\ [Next]_vars => TypeOK'
  <2> SUFFICES ASSUME TypeOK, [Next]_vars PROVE TypeOK'
    OBVIOUS
  <2> USE DEF TypeOK, Register, Unwind, Goto, Return, Storing, Strings, moduleVars,
        bufferVars, taskVars
  <2>1. CASE LoadUnload
    BY <1>1, <2>1 DEF LoadUnload, Insmod, RegisterChrdev, ClassCreate, DeviceCreate,
      MutexInit, Hook, Unhook, DeviceDestroy, ClassUnregisterDestroy, UnregisterChrdev
  <2>2. CASE \E t \in Tasks : Call(t) \/ Opening(t)
    <3>1. PICK t \in Tasks : Call(t) \/ Opening(t)
      BY <2>2
    <3>2. CASE Call(t)
      BY <3>2 DEF Call
    <3>3. CASE StoreName(t)
      BY <3>3 DEF StoreName
    <3>4. CASE TryLock(t) \/ Unlock(t)
      BY <3>4 DEF TryLock, Unlock
    <3>5. CASE SysOpen(t) \/ DevOpen(t)
      BY <3>5 DEF SysOpen, DevOpen
    <3>6. QED
      BY <3>1, <3>2, <3>3, <3>4, <3>5 DEF Opening
  <2>3. CASE \E t \in Tasks : DevRead(t) \/ DevWrite(t) \/ DevRelease(t)
    <3>1. PICK t \in Tasks : DevRead(t) \/ DevWrite(t) \/ DevRelease(t)
      BY <2>3
    <3>2. CASE DevRead(t)
      BY <1>1, <3>2 DEF DevRead
    <3>3. CASE DevWrite(t)
      <4>1. PICK s \in Texts :
              /\ message' = s
              /\ size_of_message' = Length[s]
              /\ said' = [said EXCEPT ![t] = s]
        BY <3>3 DEF DevWrite
      <4>2. UNCHANGED <<moduleVars, antv_mutex, taskVars, open>>
        BY <3>3 DEF DevWrite
      <4>3. QED
        BY <4>1, <4>2
    <3>4. CASE DevRelease(t)
      BY <3>4 DEF DevRelease
    <3>5. QED
      BY <3>1, <3>2, <3>3, <3>4
  <2>4. CASE UNCHANGED vars
    BY <2>4 DEF vars
  <2>5. QED
    BY <2>1, <2>2, <2>3, <2>4 DEF Next
<1>4. QED
  BY <1>2, <1>3, PTL DEF Spec
-----------------------------------------------------------------------------
\* What is registered, and the table, at each step of init() and cleanup().
StepInv ==
  /\ step \in {"absent", "register_chrdev", "class_create", "device_create", "mutex_init",
               "hook", "live", "device_destroy", "class_unregister", "unregister_chrdev",
               "stuck"}
  /\ step \in {"absent", "register_chrdev"} => registered = {}
  /\ step \in {"class_create", "unregister_chrdev", "stuck"} => registered = {"chrdev"}
  /\ step \in {"device_create", "class_unregister"} => registered = {"chrdev", "class"}
  /\ step \in {"mutex_init", "hook", "live", "device_destroy"} =>
       registered = {"chrdev", "class", "device"}
  /\ hooked = (step = "live")
  /\ pageRW = (step = "live")

\* StepInv follows from init() and cleanup() alone: no task touches them.
LEMMA StepInvariance == Spec => []StepInv
<1>1. Init => StepInv
  BY DEF Init, StepInv
<1>2. StepInv /\ [Next]_vars => StepInv'
  <2> SUFFICES ASSUME StepInv, [Next]_vars PROVE StepInv'
    OBVIOUS
  <2> USE DEF StepInv, Register, Unwind
  <2>1. CASE Insmod
    BY <2>1 DEF Insmod
  <2>2. CASE RegisterChrdev
    BY <2>2 DEF RegisterChrdev
  <2>3. CASE ClassCreate
    BY <2>3 DEF ClassCreate
  <2>4. CASE DeviceCreate
    BY <2>4 DEF DeviceCreate
  <2>5. CASE MutexInit
    BY <2>5 DEF MutexInit
  <2>6. CASE Hook
    BY <2>6 DEF Hook
  <2>7. CASE Unhook
    BY <2>7 DEF Unhook
  <2>8. CASE DeviceDestroy
    BY <2>8 DEF DeviceDestroy
  <2>9. CASE ClassUnregisterDestroy
    BY <2>9 DEF ClassUnregisterDestroy
  <2>10. CASE UnregisterChrdev
    BY <2>10 DEF UnregisterChrdev
  <2>11. CASE UNCHANGED moduleVars
    BY <2>11 DEF moduleVars
  <2>12. ASSUME NEW t \in Tasks,
                Call(t) \/ Opening(t) \/ DevRead(t) \/ DevWrite(t) \/ DevRelease(t)
         PROVE  UNCHANGED moduleVars
    BY <2>12 DEF Call, Opening, TryLock, StoreName, Unlock, SysOpen, DevOpen, DevRead,
      DevWrite, DevRelease, moduleVars
  <2>13. QED
    BY <2>1, <2>2, <2>3, <2>4, <2>5, <2>6, <2>7, <2>8, <2>9, <2>10, <2>11, <2>12
    DEF Next, LoadUnload, vars, moduleVars
<1>3. QED
  BY <1>1, <1>2, PTL DEF Spec

\* Whatever step of insmod fails, nothing is left registered or hooked; when
\* rmmod dies between the class and the device number, only the number is left
\* (on_access-1.c:168-191, 209-224).
THEOREM InitUnwinds == Spec => []NothingLeftBehind
<1>1. StepInv => NothingLeftBehind
  BY DEF StepInv, NothingLeftBehind
<1>2. QED
  BY <1>1, StepInvariance, PTL
-----------------------------------------------------------------------------
\* The mutex and the buffer; nobody is inside while the module comes or goes.
TasksInv ==
  /\ pc \in [Tasks -> {"idle", "entry", "sys_open"} \union Storing]
  /\ said \in [Tasks -> Texts \union {"new", "read"}]
  /\ open \subseteq Tasks
  /\ step \notin {"live", "stuck"} => open = {} /\ \A t \in Tasks : pc[t] = "idle"
  /\ DeviceExclusive
  /\ WriteReadBack

\* The steps of init() and cleanup() meet nobody inside.
LEMMA LoadUnloadKeepsTasks ==
  ASSUME StepInv, TasksInv, LoadUnload
  PROVE  TasksInv'
<1> USE DEF StepInv, TasksInv, DeviceExclusive, WriteReadBack, taskVars, bufferVars, Register,
            Unwind, Storing
<1>1. CASE Insmod
  BY <1>1 DEF Insmod
<1>2. CASE MutexInit
  BY <1>2 DEF MutexInit
<1>3. CASE Unhook
  BY <1>3 DEF Unhook
<1>4. CASE RegisterChrdev \/ ClassCreate \/ DeviceCreate
  BY <1>4 DEF RegisterChrdev, ClassCreate, DeviceCreate
<1>5. CASE Hook
  BY <1>5 DEF Hook
<1>6. CASE DeviceDestroy
  BY <1>6 DEF DeviceDestroy
<1>7. CASE ClassUnregisterDestroy
  BY <1>7 DEF ClassUnregisterDestroy
<1>8. CASE UnregisterChrdev
  BY <1>8 DEF UnregisterChrdev
<1>9. QED
  BY <1>1, <1>2, <1>3, <1>4, <1>5, <1>6, <1>7, <1>8 DEF LoadUnload

\* The steps of a task.
LEMMA TaskKeepsTasks ==
  ASSUME ~EarlyOpens, StepInv, TasksInv, NEW t \in Tasks,
         Call(t) \/ Opening(t) \/ DevRead(t) \/ DevWrite(t) \/ DevRelease(t)
  PROVE  TasksInv'
<1> USE NamesAssumption DEF StepInv, TasksInv, DeviceExclusive, WriteReadBack, Storing,
    moduleVars, taskVars, bufferVars, Goto, Return
<1>1. CASE Call(t)
  BY <1>1 DEF Call
<1>2. CASE TryLock(t)
  BY <1>2 DEF TryLock
<1>3. CASE StoreName(t)
  BY <1>3 DEF StoreName
<1>4. CASE Unlock(t)
  BY <1>4 DEF Unlock
<1>5. CASE SysOpen(t)
  BY <1>5 DEF SysOpen
<1>6. CASE DevOpen(t)
  <2>1. CASE antv_mutex = NoOne /\ antv_mutex' = t
    <3>1. /\ open = {} /\ open' = {t}
          /\ \A u \in Tasks : pc[u] \notin Storing
      BY <1>6, <2>1 DEF DevOpen
    <3>2. pc' = [pc EXCEPT ![t] = "idle"] /\ said' = [said EXCEPT ![t] = "new"]
      BY <1>6, <2>1 DEF DevOpen
    <3>3. UNCHANGED <<moduleVars, bufferVars>> /\ step \in {"live", "stuck"}
      BY <1>6 DEF DevOpen
    <3>4. QED
      BY <2>1, <3>1, <3>2, <3>3
  <2>2. CASE UNCHANGED <<antv_mutex, open, said>>
    BY <1>6, <2>2 DEF DevOpen
  <2>3. QED
    BY <1>6, <2>1, <2>2 DEF DevOpen
<1>7. CASE DevRead(t)
  BY <1>7 DEF DevRead
<1>8. CASE DevWrite(t)
  BY <1>8 DEF DevWrite
<1>9. CASE DevRelease(t)
  BY <1>9 DEF DevRelease
<1>10. QED
  BY <1>1, <1>2, <1>3, <1>4, <1>5, <1>6, <1>7, <1>8, <1>9 DEF Opening

\* Without early openers the mutex and the buffer are consistent for good.
LEMMA TasksInvariance ==
  ASSUME ~EarlyOpens
  PROVE  Spec => []TasksInv
<1>1. Init => TasksInv
  BY DEF Init, TasksInv, DeviceExclusive, WriteReadBack, Storing
<1>2. StepInv /\ TasksInv /\ [Next]_vars => TasksInv'
  <2> SUFFICES ASSUME StepInv, TasksInv, [Next]_vars PROVE TasksInv'
    OBVIOUS
  <2>1. CASE UNCHANGED vars
    BY <2>1 DEF vars, moduleVars, bufferVars, taskVars, TasksInv, DeviceExclusive,
      WriteReadBack
  <2>2. QED
    BY <2>1, LoadUnloadKeepsTasks, TaskKeepsTasks DEF Next
<1>3. QED
  BY <1>1, <1>2, StepInvariance, PTL DEF Spec

\* Of the tasks that have the device open or store a name there is at most one,
\* and it owns the mutex (on_access-1.c:119-134, 238-240, 297).
THEOREM DeviceIsExclusive ==
  ASSUME ~EarlyOpens
  PROVE  Spec => []DeviceExclusive
<1>1. TasksInv => DeviceExclusive
  BY DEF TasksInv
<1>2. QED
  BY <1>1, TasksInvariance, PTL

\* What the opener of the device has written is what it reads back
\* (on_access-1.c:256-288).
THEOREM WrittenIsReadBack ==
  ASSUME ~EarlyOpens
  PROVE  Spec => []WriteReadBack
<1>1. TasksInv => WriteReadBack
  BY DEF TasksInv
<1>2. QED
  BY <1>1, TasksInvariance, PTL
=============================================================================
