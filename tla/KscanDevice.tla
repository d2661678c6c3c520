---------------------------- MODULE KscanDevice ----------------------------
(***************************************************************************)
(* on_access/on_access-1.c: the variant of the hook that leaves the name of *)
(* each opened file in a message buffer, which user space reads through the *)
(* character device /dev/antv_char.  One mutex protects the buffer: a hooked *)
(* open holds it while it stores the name, an opening of the device holds    *)
(* it until its release.                                                    *)
(*                                                                         *)
(* Names and texts are model values; Length gives their strlen.  Root       *)
(* unloads the module only while nobody is inside it or has the device open *)
(* (fops has no owner, so the kernel itself would not refuse).  The counter *)
(* numberOpens is only printed and is left out.                             *)
(***************************************************************************)
EXTENDS Integers

CONSTANTS
  Tasks,       \* tasks that call open(2)
  Paths,       \* names of files
  Device,      \* the name /dev/antv_char
  Texts,       \* texts a task may write to the device
  Empty,       \* the empty string
  Length,      \* strlen of each of these
  EarlyOpens,  \* tasks open the device as soon as it exists, during init()
  NoOne        \* no task

Strings == Paths \union Texts \union {Device, Empty}

ASSUME NamesAssumption ==
  /\ Device \notin Paths \union Texts
  /\ Length \in [Strings -> Nat]
  /\ \A s \in Strings : Length[s] = 0 <=> s = Empty
  /\ EarlyOpens \in BOOLEAN
  /\ NoOne \notin Tasks
  /\ "new" \notin Texts /\ "read" \notin Texts

VARIABLES
  step,            \* the next step of init() or cleanup(), "absent" or "live"
  registered,      \* what the kernel has registered: chrdev, class, device
  hooked,          \* sys_call_table[__NR_open] = new_open
  pageRW,          \* the page of the table is writable
  antv_mutex,      \* the task that holds it
  message,         \* the string in message[]
  size_of_message,
  pc,              \* pc[t]: where task t is in its open(2)
  path,            \* path[t]: the name it opens
  result,          \* result[t]: what its last open returned
  open,            \* the tasks that have the device open
  said             \* said[t]: the text t has written and not read back, or
                   \* "new" (nothing done yet), "read"

moduleVars == <<step, registered, hooked, pageRW>>
bufferVars == <<message, size_of_message>>
taskVars == <<pc, path, result>>
vars == <<moduleVars, antv_mutex, bufferVars, taskVars, open, said>>

Init ==
  /\ step = "absent"
  /\ registered = {}
  /\ hooked = FALSE
  /\ pageRW = FALSE
  /\ antv_mutex = NoOne
  /\ message = Empty
  /\ size_of_message = 0
  /\ pc = [t \in Tasks |-> "idle"]
  /\ path = [t \in Tasks |-> Device]
  /\ result = [t \in Tasks |-> "none"]
  /\ open = {}
  /\ said = [t \in Tasks |-> "new"]

Storing == {"store", "unlock"}
-----------------------------------------------------------------------------
(***************************************************************************)
(* init() and cleanup().                                                   *)
(***************************************************************************)
Register(from, what, next) ==
  /\ step = from
  /\ registered' = registered \union {what}
  /\ step' = next

\* A failed registration undoes the earlier ones and insmod fails.
Unwind(from, undone) ==
  /\ step = from
  /\ registered' = registered \ undone
  /\ step' = "absent"

\* insmod maps the module with its static data as compiled, DEFINE_MUTEX
\* included.
Insmod ==
  /\ step = "absent"
  /\ step' = "register_chrdev"
  /\ message' = Empty
  /\ size_of_message' = 0
  /\ antv_mutex' = NoOne
  /\ UNCHANGED <<registered, hooked, pageRW, taskVars, open, said>>

RegisterChrdev ==
  /\ \/ Register("register_chrdev", "chrdev", "class_create")
     \/ Unwind("register_chrdev", {})
  /\ UNCHANGED <<hooked, pageRW, antv_mutex, bufferVars, taskVars, open, said>>

ClassCreate ==
  /\ \/ Register("class_create", "class", "device_create")
     \/ Unwind("class_create", {"chrdev"})
  /\ UNCHANGED <<hooked, pageRW, antv_mutex, bufferVars, taskVars, open, said>>

\* Faulty variant: the major number is not given back.
DeviceCreateKeepsMajor ==
  /\ \/ Register("device_create", "device", "mutex_init")
     \/ Unwind("device_create", {"class"})
  /\ UNCHANGED <<hooked, pageRW, antv_mutex, bufferVars, taskVars, open, said>>

DeviceCreate ==
  /\ \/ Register("device_create", "device", "mutex_init")
     \/ Unwind("device_create", {"class", "chrdev"})
  /\ UNCHANGED <<hooked, pageRW, antv_mutex, bufferVars, taskVars, open, said>>

\* mutex_init(&antv_mutex), after the device has appeared.
MutexInit ==
  /\ step = "mutex_init"
  /\ antv_mutex' = NoOne
  /\ step' = "hook"
  /\ UNCHANGED <<registered, hooked, pageRW, bufferVars, taskVars, open, said>>

Hook ==
  /\ step = "hook"
  /\ pageRW' = TRUE
  /\ hooked' = TRUE
  /\ step' = "live"
  /\ UNCHANGED <<registered, antv_mutex, bufferVars, taskVars, open, said>>

\* Faulty variant: the page is made read-only before the store, which faults.
UnhookROFirst ==
  /\ step = "live"
  /\ open = {} /\ \A t \in Tasks : pc[t] = "idle"
  /\ pageRW' = FALSE
  /\ step' = "stuck"
  /\ UNCHANGED <<registered, hooked, antv_mutex, bufferVars, taskVars, open, said>>

\* rmmod; cleanup() restores the table and makes its page read-only.
Unhook ==
  /\ step = "live"
  /\ open = {} /\ \A t \in Tasks : pc[t] = "idle"
  /\ hooked' = FALSE
  /\ pageRW' = FALSE
  /\ step' = "device_destroy"
  /\ UNCHANGED <<registered, antv_mutex, bufferVars, taskVars, open, said>>

DeviceDestroy ==
  /\ step = "device_destroy"
  /\ registered' = registered \ {"device"}
  /\ step' = "class_unregister"
  /\ UNCHANGED <<hooked, pageRW, antv_mutex, bufferVars, taskVars, open, said>>

\* class_unregister frees the class; class_destroy is then handed the freed
\* class and unregisters it once more: it survives that or kills rmmod.
ClassUnregisterDestroy ==
  /\ step = "class_unregister"
  /\ registered' = registered \ {"class"}
  /\ step' \in {"unregister_chrdev", "stuck"}
  /\ UNCHANGED <<hooked, pageRW, antv_mutex, bufferVars, taskVars, open, said>>

UnregisterChrdev ==
  /\ Unwind("unregister_chrdev", {"chrdev"})
  /\ UNCHANGED <<hooked, pageRW, antv_mutex, bufferVars, taskVars, open, said>>
-----------------------------------------------------------------------------
(***************************************************************************)
(* open(2) of one task, through new_open when the table is hooked.          *)
(***************************************************************************)
Goto(t, label) == pc' = [pc EXCEPT ![t] = label]
Return(t, r) == Goto(t, "idle") /\ result' = [result EXCEPT ![t] = r]

\* The system call.  A device that appears while init() still runs is opened
\* by the tasks of EarlyOpens only; otherwise everyone waits for insmod.
Call(t) ==
  /\ pc[t] = "idle"
  /\ EarlyOpens \/ step \in {"live", "stuck"}
  /\ \E p \in Paths \union {Device} : path' = [path EXCEPT ![t] = p]
  /\ Goto(t, IF hooked THEN "entry" ELSE "sys_open")
  /\ UNCHANGED <<moduleVars, antv_mutex, bufferVars, result, open, said>>

\* Faulty variant: mutex_lock in place of mutex_trylock.
TryLockWaits(t) ==
  /\ pc[t] = "entry"
  /\ antv_mutex = NoOne
  /\ antv_mutex' = t
  /\ Goto(t, "store")
  /\ UNCHANGED <<moduleVars, bufferVars, path, result, open, said>>

TryLock(t) ==
  /\ pc[t] = "entry"
  /\ \/ /\ antv_mutex = NoOne
        /\ antv_mutex' = t
        /\ Goto(t, "store")
        /\ UNCHANGED result
     \/ /\ antv_mutex # NoOne
        /\ Return(t, "EBUSY")
        /\ UNCHANGED antv_mutex
  /\ UNCHANGED <<moduleVars, bufferVars, path, open, said>>

\* *message = 0; strcpy(message, filename);  size_of_message stays.
StoreName(t) ==
  /\ pc[t] = "store"
  /\ message' = path[t]
  /\ Goto(t, "unlock")
  /\ UNCHANGED <<moduleVars, antv_mutex, size_of_message, path, result, open, said>>

Unlock(t) ==
  /\ pc[t] = "unlock"
  /\ antv_mutex' = NoOne
  /\ Goto(t, "sys_open")
  /\ UNCHANGED <<moduleVars, bufferVars, path, result, open, said>>

\* The kernel's sys_open of anything but the device.
SysOpen(t) ==
  /\ pc[t] = "sys_open"
  /\ path[t] # Device \/ "device" \notin registered
  /\ Return(t, "done")
  /\ UNCHANGED <<moduleVars, antv_mutex, bufferVars, path, open, said>>

\* Faulty variant: dev_open does not look at the mutex.
DevOpenUnchecked(t) ==
  /\ pc[t] = "sys_open"
  /\ path[t] = Device /\ "device" \in registered
  /\ antv_mutex' = t
  /\ open' = open \union {t}
  /\ said' = [said EXCEPT ![t] = "new"]
  /\ Return(t, "done")
  /\ UNCHANGED <<moduleVars, bufferVars, path>>

\* sys_open of the device calls dev_open.
DevOpen(t) ==
  /\ pc[t] = "sys_open"
  /\ path[t] = Device /\ "device" \in registered
  /\ \/ /\ antv_mutex = NoOne
        /\ antv_mutex' = t
        /\ open' = open \union {t}
        /\ said' = [said EXCEPT ![t] = "new"]
        /\ Return(t, "done")
     \/ /\ antv_mutex # NoOne
        /\ Return(t, "EBUSY")
        /\ UNCHANGED <<antv_mutex, open, said>>
  /\ UNCHANGED <<moduleVars, bufferVars, path>>

\* Faulty variant: the error is stored as the size.
DevReadStoresError(t) ==
  /\ pc[t] = "idle" /\ t \in open
  /\ size_of_message' \in {0, -14}
  /\ said' = [said EXCEPT ![t] = "read"]
  /\ UNCHANGED <<moduleVars, antv_mutex, message, taskVars, open>>

\* read(2): copy_to_user(buffer, message, size_of_message), which may fail.
DevRead(t) ==
  /\ pc[t] = "idle" /\ t \in open
  /\ \/ /\ size_of_message' = 0
        /\ said' = [said EXCEPT ![t] = "read"]
     \/ UNCHANGED <<size_of_message, said>>
  /\ UNCHANGED <<moduleVars, antv_mutex, message, taskVars, open>>

\* write(2): strcpy(message, buffer) and its length.
DevWrite(t) ==
  /\ pc[t] = "idle" /\ t \in open
  /\ \E s \in Texts :
       /\ message' = s
       /\ size_of_message' = Length[s]
       /\ said' = [said EXCEPT ![t] = s]
  /\ UNCHANGED <<moduleVars, antv_mutex, taskVars, open>>

\* Faulty variant: the mutex is kept when the device is closed.
DevReleaseKeepsMutex(t) ==
  /\ pc[t] = "idle" /\ t \in open
  /\ open' = open \ {t}
  /\ UNCHANGED <<moduleVars, antv_mutex, bufferVars, taskVars, said>>

\* close(2), or the end of the process.
DevRelease(t) ==
  /\ pc[t] = "idle" /\ t \in open
  /\ antv_mutex' = NoOne
  /\ open' = open \ {t}
  /\ UNCHANGED <<moduleVars, bufferVars, taskVars, said>>
-----------------------------------------------------------------------------
LoadUnload ==
  \/ Insmod \/ RegisterChrdev \/ ClassCreate \/ DeviceCreate \/ MutexInit \/ Hook
  \/ Unhook \/ DeviceDestroy \/ ClassUnregisterDestroy \/ UnregisterChrdev

Opening(t) == TryLock(t) \/ StoreName(t) \/ Unlock(t) \/ SysOpen(t) \/ DevOpen(t)

Next ==
  \/ LoadUnload
  \/ \E t \in Tasks :
       Call(t) \/ Opening(t) \/ DevRead(t) \/ DevWrite(t) \/ DevRelease(t)

Spec == Init /\ [][Next]_vars

\* Every open in progress is scheduled, and Paths are files that sys_open does
\* not wait for.  Nobody is obliged to close the device:
\* the reader of on_access-1.c:127 loops on it.
FairSpec == Spec /\ \A t \in Tasks : WF_vars(Opening(t))
-----------------------------------------------------------------------------
TypeOK ==
  /\ registered \subseteq {"chrdev", "class", "device"}
  /\ hooked \in BOOLEAN /\ pageRW \in BOOLEAN
  /\ antv_mutex \in Tasks \union {NoOne}
  /\ message \in Strings
  /\ size_of_message \in {Length[s] : s \in Strings}
  /\ pc \in [Tasks -> {"idle", "entry", "sys_open"} \union Storing]
  /\ path \in [Tasks -> Paths \union {Device}]
  /\ result \in [Tasks -> {"none", "done", "EBUSY"}]
  /\ open \subseteq Tasks
  /\ said \in [Tasks -> Texts \union {"new", "read"}]

\* "This version has mutex locks to deal with synchronization problems"
\* (samples/ebbcharmutex/ebbcharmutex.c:9, which the device is taken from): of
\* the tasks that have the device open or store a name there is at most one,
\* and it owns the mutex (on_access-1.c:119-134, 238-240, 297).
DeviceExclusive ==
  /\ \A t \in Tasks : t \in open \/ pc[t] \in Storing => antv_mutex = t
  /\ \A t \in open : pc[t] \notin Storing

\* What the task with the device open has written is what its next read
\* delivers, whole, whatever other tasks open meanwhile (on_access-1.c:256-288).
WriteReadBack ==
  \A t \in open : said[t] \in Texts =>
    message = said[t] /\ size_of_message = Length[said[t]]

\* When insmod has failed or rmmod has finished, nothing of the module is
\* registered, the table is restored and its page read-only.  The only thing
\* that stops rmmod half way is the second unregistering of the class: then the
\* table is restored too and no more than the device number stays registered
\* (on_access-1.c:168-191, 214-224).
NothingLeftBehind ==
  /\ step = "absent" => registered = {}
  /\ step = "stuck" => registered \subseteq {"chrdev"}
  /\ step \in {"absent", "stuck"} => ~hooked /\ ~pageRW

\* Every open returns, be it with EBUSY: also the open of the task that has
\* the device open itself, which could never release it if it had to wait for
\* the mutex (on_access-1.c:119, 238).
OpensReturn == \A t \in Tasks : pc[t] # "idle" ~> pc[t] = "idle"

\* The time in which every other open fails comes to an end, unless one process
\* keeps the device open for good: whoever holds the mutex for another reason
\* releases it (on_access-1.c:134, 297).
LockoutEnds ==
  \/ antv_mutex # NoOne ~> antv_mutex = NoOne
  \/ \E t \in Tasks : <>[](t \in open)

\* on_access-1.c:124: "saving the file name to message. Each time the user
\* space [...] reads the character device "/dev/antv_char" is reading from
\* message": the first read of an opening delivers the name in message.
NameDelivered ==
  \A t \in open : said[t] = "new" => size_of_message = Length[message]
=============================================================================
