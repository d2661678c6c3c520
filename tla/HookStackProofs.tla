-------------------------- MODULE HookStackProofs --------------------------
(***************************************************************************)
(* The stacked hooks for any number of modules and tasks.  The saved        *)
(* pointers lead to modules that were loaded earlier (OrderInv), so         *)
(* unloading the last one leaves no pointer to it behind; and none saved     *)
(* after a hook that is older than every scanner leads past that hook       *)
(* (KeptInv), so every open goes through it.                                *)
(***************************************************************************)
EXTENDS HookStack, SequenceTheorems, FiniteSetTheorems, TLAPS

Functions == Modules \union {Kernel}
Phases == {"absent", "save", "hook", "live", "ro", "gone", "stuck"}
Between == {"save", "hook", "ro"}

\* The types, and one step of root at a time.
ControlInv ==
  /\ table \in Functions
  /\ pageRW \in BOOLEAN
  /\ phase \in [Modules -> Phases]
  /\ loaded \in Seq(Modules)
  /\ saved \in [Modules -> Functions]
  /\ mutex \in [Modules -> Tasks \union {NoOne}]
  /\ pc \in [Tasks -> {"idle", "entry", "locked", "scan", "unlock", "original", "oops"}]
  /\ at \in [Tasks -> Functions]
  /\ \A t \in Tasks : Inside(t) => at[t] \in Modules
  /\ \A m, n \in Modules : phase[m] \in Between /\ phase[n] \in Between => m = n

\* loaded lists the modules from the saving of the pointer to the end of exit(),
\* each once; the one that unloads is the last.
LoadedInv ==
  /\ \A i \in 1 .. Len(loaded) : phase[loaded[i]] \in {"hook", "live", "ro", "stuck"}
  /\ \A i, j \in 1 .. Len(loaded) : loaded[i] = loaded[j] => i = j
  /\ \A m \in Modules : phase[m] \in {"hook", "live", "ro", "stuck"} =>
       \E i \in 1 .. Len(loaded) : loaded[i] = m
  /\ \A m \in Modules : phase[m] = "ro" => Len(loaded) > 0 /\ loaded[Len(loaded)] = m

\* A function that may still be entered: the kernel's, or of a module that is
\* loaded and has not restored the table.
Standing(f) ==
  f = Kernel \/ \E i \in 1 .. Len(loaded) : loaded[i] = f /\ phase[f] # "ro"

\* The table and the tasks hold standing functions, and the pointer a module
\* has saved leads to one loaded before it.
OrderInv ==
  /\ Standing(table)
  /\ \A t \in Tasks : Inside(t) => Standing(at[t])
  /\ \A i \in 1 .. Len(loaded) :
       \/ saved[loaded[i]] = Kernel
       \/ \E j \in 1 .. Len(loaded) : j < i /\ loaded[j] = saved[loaded[i]]

\* Before the first unloading the page is writable from the first insmod on.
WritableInv ==
  (\A m \in Modules : phase[m] \notin {"ro", "gone"}) =>
    /\ (\E m \in Modules : phase[m] # "absent") => pageRW
    /\ \A t \in Tasks : pc[t] # "oops"
    /\ \A m \in Modules : phase[m] # "stuck"

StackInv == ControlInv /\ LoadedInv /\ OrderInv /\ WritableInv
-----------------------------------------------------------------------------
\* A standing function is mapped.
LEMMA StandingIsMapped ==
  ASSUME ControlInv, LoadedInv, NEW f, Standing(f)
  PROVE  Mapped(f)
BY DEF ControlInv, LoadedInv, Standing, Mapped

\* The pointer saved by a standing module is standing.
LEMMA SavedIsStanding ==
  ASSUME StackInv, NEW m \in Modules, Standing(m)
  PROVE  Standing(saved[m])
<1>1. PICK i \in 1 .. Len(loaded) : loaded[i] = m
  BY ModulesAssumption DEF Standing
<1>2. CASE saved[m] = Kernel
  BY <1>2 DEF Standing
<1>3. CASE \E j \in 1 .. Len(loaded) : j < i /\ loaded[j] = saved[m]
  <2>1. PICK j \in 1 .. Len(loaded) : j < i /\ loaded[j] = saved[m]
    BY <1>3
  <2>2. loaded[j] \in Modules
    BY <2>1 DEF StackInv, ControlInv
  <2>3. j # Len(loaded)
    BY <1>1, <2>1
  <2>4. phase[loaded[j]] # "ro"
    BY <2>1, <2>2, <2>3 DEF StackInv, LoadedInv, ControlInv
  <2>5. QED
    BY <2>1, <2>4 DEF Standing
<1>4. QED
  BY <1>1, <1>2, <1>3 DEF StackInv, OrderInv

\* A task that jumps to a standing function stays on loaded text.
LEMMA JumpKeeps ==
  ASSUME StackInv, NEW t \in Tasks, NEW f \in Functions, Standing(f), Jump(t, f),
         pc[t] # "oops",
         UNCHANGED <<table, pageRW, rootVars, mutex>>
  PROVE  StackInv'
<1>1. Mapped(f)
  BY StandingIsMapped DEF StackInv
<1>2. /\ pc' = [pc EXCEPT ![t] = IF f = Kernel THEN "idle" ELSE "entry"]
      /\ at' = [at EXCEPT ![t] = f]
      /\ UNCHANGED <<table, pageRW, phase, loaded, saved, mutex>>
  BY <1>1 DEF Jump, Goto, rootVars
<1>3. ControlInv'
  BY <1>2 DEF StackInv, ControlInv, Functions, Inside
<1>4. LoadedInv'
  BY <1>2 DEF StackInv, LoadedInv
<1>5. OrderInv'
  BY <1>2 DEF StackInv, ControlInv, OrderInv, Standing, Inside
<1>6. WritableInv'
  BY <1>2 DEF StackInv, ControlInv, WritableInv
<1>7. QED
  BY <1>3, <1>4, <1>5, <1>6 DEF StackInv

\* A task that stays where it is in the text; the table may become f.
LEMMA StepKeeps ==
  ASSUME StackInv, NEW t \in Tasks, Inside(t), NEW f \in Functions, Standing(f),
         NEW l \in {"idle", "locked", "scan", "unlock", "original", "oops"},
         l = "oops" => ~pageRW, table' \in {table, f}, Goto(t, l),
         mutex' \in [Modules -> Tasks \union {NoOne}],
         UNCHANGED <<pageRW, rootVars, at>>
  PROVE  StackInv'
<1>1. /\ pc' = [pc EXCEPT ![t] = l]
      /\ UNCHANGED <<pageRW, phase, loaded, saved, at>>
  BY DEF Goto, rootVars
<1>2. ControlInv'
  BY <1>1 DEF StackInv, ControlInv, Functions, Inside
<1>3. LoadedInv'
  BY <1>1 DEF StackInv, LoadedInv
<1>4. OrderInv'
  BY <1>1 DEF StackInv, ControlInv, OrderInv, Standing, Inside
<1>5. WritableInv'
  <2>1. Standing(at[t]) /\ at[t] \in Modules
    BY DEF StackInv, ControlInv, OrderInv
  <2>2. phase[at[t]] # "absent"
    BY <2>1, ModulesAssumption DEF Standing, StackInv, LoadedInv
  <2>3. QED
    BY <1>1, <2>1, <2>2 DEF StackInv, ControlInv, WritableInv
<1>6. QED
  BY <1>2, <1>3, <1>4, <1>5 DEF StackInv
-----------------------------------------------------------------------------
\* The steps of a task in open(2) (hijack-syscall.c:45-50, on_access.c:126-187).
LEMMA TaskKeepsStack ==
  ASSUME StackInv, NEW t \in Tasks, Call(t) \/ Opening(t)
  PROVE  StackInv'
<1>1. CASE Call(t)
  BY <1>1, JumpKeeps DEF Call, StackInv, OrderInv, ControlInv
<1>2. ASSUME ~Call(t) PROVE Inside(t) /\ at[t] \in Modules /\ Standing(at[t]) /\
                            saved[at[t]] \in Functions /\ at[t] \in Functions
  BY <1>2 DEF Opening, HookCode, PassOn, TryLock, PutBack, Rearm, Unlock, CallOriginal, Inside,
    StackInv, ControlInv, OrderInv, Functions
<1>3. ASSUME ~Call(t) PROVE Standing(saved[at[t]])
  BY <1>2, <1>3, SavedIsStanding
<1>4. CASE ~Call(t) /\ (PassOn(t) \/ CallOriginal(t))
  BY <1>2, <1>3, <1>4, JumpKeeps DEF PassOn, CallOriginal
<1>5. CASE ~Call(t) /\ (TryLock(t) \/ Unlock(t))
  <2>1. mutex' \in [Modules -> Tasks \union {NoOne}]
    BY <1>2, <1>5 DEF TryLock, Unlock, StackInv, ControlInv
  <2>2. \E l \in {"idle", "locked", "original"} : Goto(t, l)
    BY <1>5 DEF TryLock, Unlock
  <2>3. UNCHANGED <<table, pageRW, rootVars, at>>
    BY <1>5 DEF TryLock, Unlock
  <2>4. QED
    BY <1>2, <1>5, <2>1, <2>2, <2>3, StepKeeps
<1>6. CASE ~Call(t) /\ PutBack(t)
  <2>1. mutex' \in [Modules -> Tasks \union {NoOne}]
    BY <1>6 DEF PutBack, StackInv, ControlInv
  <2>2. \E l \in {"scan", "oops"} : Goto(t, l) /\ (l = "oops" => ~pageRW)
    BY <1>6 DEF PutBack, Store
  <2>3. table' \in {table, saved[at[t]]} /\ UNCHANGED <<pageRW, rootVars, at>>
    BY <1>6 DEF PutBack, Store
  <2>4. QED
    BY <1>2, <1>3, <1>6, <2>1, <2>2, <2>3, StepKeeps
<1>7. CASE ~Call(t) /\ Rearm(t)
  <2>1. mutex' \in [Modules -> Tasks \union {NoOne}]
    BY <1>7 DEF Rearm, StackInv, ControlInv
  <2>2. \E l \in {"unlock", "oops"} : Goto(t, l) /\ (l = "oops" => ~pageRW)
    BY <1>7 DEF Rearm, Store
  <2>3. table' \in {table, at[t]} /\ UNCHANGED <<pageRW, rootVars, at>>
    BY <1>7 DEF Rearm, Store
  <2>4. QED
    BY <1>2, <1>7, <2>1, <2>2, <2>3, StepKeeps
<1>8. QED
  BY <1>1, <1>4, <1>5, <1>6, <1>7 DEF Opening, HookCode
-----------------------------------------------------------------------------
\* set_addr_rw and the store of new_open (hijack-syscall.c:57, 60; on_access.c:230, 236).
LEMMA InitRWKeeps ==
  ASSUME StackInv, NEW m \in Modules, InitRW(m) \/ InitHook(m)
  PROVE  StackInv'
<1> USE DEF StackInv
<1>1. /\ UNCHANGED <<loaded, saved, mutex, pc, at>>
      /\ \/ phase[m] = "absent" /\ phase' = [phase EXCEPT ![m] = "save"]
         \/ phase[m] = "hook" /\ phase' = [phase EXCEPT ![m] = "live"]
         \/ phase[m] = "hook" /\ phase' = [phase EXCEPT ![m] = "stuck"]
      /\ table' = table \/ (table' = m /\ phase[m] = "hook")
      /\ pageRW' = TRUE \/ pageRW' = pageRW
      /\ phase[m] = "absent" => RootIsFree
  <2>1. CASE InitRW(m)
    BY <2>1 DEF InitRW
  <2>2. CASE InitHook(m)
    BY <2>2 DEF InitHook
  <2>3. QED
    BY <2>1, <2>2
<1>2. ControlInv'
  <2>1. /\ table' \in Functions /\ pageRW' \in BOOLEAN
        /\ \A t \in Tasks : Inside(t)' => at'[t] \in Modules
    BY <1>1 DEF ControlInv, Functions, Inside
  <2>2. phase' \in [Modules -> Phases]
    BY <1>1 DEF ControlInv, Phases
  <2>3. \A n \in Modules : phase'[n] \in Between => n = m
    BY <1>1 DEF ControlInv, Between, RootIsFree
  <2>4. QED
    BY <1>1, <2>1, <2>2, <2>3 DEF ControlInv
<1>3. LoadedInv'
  <2>1. \A n \in Modules : n # m => phase'[n] = phase[n]
    BY <1>1 DEF ControlInv
  <2>2. \/ phase[m] = "absent" /\ phase'[m] = "save"
        \/ phase[m] = "hook" /\ phase'[m] \in {"live", "stuck"}
    BY <1>1 DEF ControlInv
  <2>3. \A n \in Modules :
          /\ phase[n] \in {"hook", "live", "ro", "stuck"} <=>
               phase'[n] \in {"hook", "live", "ro", "stuck"}
          /\ phase'[n] = "ro" => phase[n] = "ro"
    BY <2>1, <2>2
  <2>4. \A i \in 1 .. Len(loaded) : loaded[i] \in Modules
    BY DEF ControlInv
  <2>5. QED
    BY <1>1, <2>3, <2>4 DEF LoadedInv
<1>4. \A f : Standing(f) => Standing(f)'
  BY <1>1, ModulesAssumption DEF Standing, ControlInv, LoadedInv
<1>5. phase[m] = "hook" => Standing(m)'
  BY <1>1 DEF Standing, ControlInv, LoadedInv
<1>6. OrderInv'
  BY <1>1, <1>4, <1>5 DEF OrderInv, Inside
<1>7. WritableInv'
  BY DEF WritableInv, ControlInv, InitRW, InitHook
<1>8. QED
  BY <1>2, <1>3, <1>6, <1>7

\* The saving of the pointer (hijack-syscall.c:59; on_access.c:234).
LEMMA InitSaveKeeps ==
  ASSUME StackInv, NEW m \in Modules, InitSave(m)
  PROVE  StackInv'
<1> USE DEF StackInv
<1>1. /\ phase[m] = "save" /\ phase' = [phase EXCEPT ![m] = "hook"]
      /\ saved' = [saved EXCEPT ![m] = table]
      /\ UNCHANGED <<table, pageRW, mutex, pc, at>>
  BY DEF InitSave
<1>2. /\ loaded' \in Seq(Modules) /\ Len(loaded') = Len(loaded) + 1
      /\ \A i \in 1 .. Len(loaded) : loaded'[i] = loaded[i]
      /\ loaded'[Len(loaded) + 1] = m
  BY DEF InitSave, ControlInv
<1>3. Len(loaded) \in Nat /\ \A i \in 1 .. Len(loaded) : loaded[i] \in Modules /\ loaded[i] # m
  BY <1>1 DEF ControlInv, LoadedInv
<1>4. ControlInv'
  BY <1>1, <1>2 DEF ControlInv, Inside, Phases, Between
<1>5. LoadedInv'
  <2>1. \A i \in 1 .. Len(loaded') : phase'[loaded'[i]] \in {"hook", "live", "ro", "stuck"}
    <3>1. ASSUME NEW i \in 1 .. Len(loaded') PROVE i \in 1 .. Len(loaded) \/ i = Len(loaded) + 1
      BY <1>2, <1>3
    <3>2. phase'[m] = "hook" /\ \A n \in Modules : n # m => phase'[n] = phase[n]
      BY <1>1 DEF ControlInv
    <3>3. QED
      BY <1>2, <1>3, <3>1, <3>2 DEF LoadedInv
  <2>2. \A i, j \in 1 .. Len(loaded') : loaded'[i] = loaded'[j] => i = j
    BY <1>2, <1>3 DEF LoadedInv
  <2>3. \A n \in Modules : phase'[n] \in {"hook", "live", "ro", "stuck"} =>
          \E i \in 1 .. Len(loaded') : loaded'[i] = n
    <3>1. Len(loaded) + 1 \in 1 .. Len(loaded')
          /\ \A i \in 1 .. Len(loaded) : i \in 1 .. Len(loaded')
      BY <1>2, <1>3
    <3>2. \A n \in Modules : n # m => phase'[n] = phase[n]
      BY <1>1 DEF ControlInv
    <3>3. QED
      BY <1>2, <3>1, <3>2 DEF LoadedInv
  <2>4. \A n \in Modules : phase'[n] # "ro"
    BY <1>1 DEF ControlInv, Between
  <2>5. QED
    BY <2>1, <2>2, <2>3, <2>4 DEF LoadedInv
<1>6. \A f : Standing(f) => Standing(f)'
  BY <1>1, <1>2, <1>3, ModulesAssumption DEF Standing, ControlInv
<1>7. OrderInv'
  <2>1. Standing(table)' /\ \A t \in Tasks : Inside(t)' => Standing(at[t])'
    BY <1>1, <1>6 DEF OrderInv, Inside
  <2>2. ASSUME NEW i \in 1 .. Len(loaded')
        PROVE  \/ saved'[loaded'[i]] = Kernel
               \/ \E j \in 1 .. Len(loaded') : j < i /\ loaded'[j] = saved'[loaded'[i]]
    <3>1. CASE i \in 1 .. Len(loaded)
      <4>1. saved'[loaded'[i]] = saved[loaded[i]]
        BY <1>1, <1>2, <1>3, <3>1 DEF ControlInv
      <4>2. QED
        BY <1>2, <1>3, <3>1, <4>1 DEF OrderInv
    <3>2. CASE i = Len(loaded) + 1
      <4>1. saved'[loaded'[i]] = table
        BY <1>1, <1>2, <3>2 DEF ControlInv
      <4>2. Standing(table)
        BY DEF OrderInv
      <4>3. QED
        BY <1>2, <1>3, <3>2, <4>1, <4>2 DEF Standing
    <3>3. QED
      BY <1>2, <1>3, <3>1, <3>2
  <2>3. QED
    BY <2>1, <2>2 DEF OrderInv
<1>8. WritableInv'
  BY <1>1 DEF WritableInv, ControlInv
<1>9. QED
  BY <1>4, <1>5, <1>7, <1>8

\* The first half of exit() (hijack-syscall.c:69; on_access.c:246).
LEMMA ExitRestoreKeeps ==
  ASSUME StackInv, NEW m \in Modules, ExitRestore(m)
  PROVE  StackInv'
<1> USE DEF StackInv
<1>1. /\ phase[m] = "live" /\ RootIsFree
      /\ \A t \in Tasks : Inside(t) => at[t] # m
      /\ UNCHANGED <<pageRW, loaded, saved, mutex, pc, at>>
      /\ table' = IF pageRW THEN saved[m] ELSE table
      /\ phase' = [phase EXCEPT ![m] = IF pageRW THEN "ro" ELSE "stuck"]
  BY DEF ExitRestore
<1>2. PICK i \in 1 .. Len(loaded) : loaded[i] = m
  BY <1>1 DEF LoadedInv
<1>3. Len(loaded) \in Nat /\ Len(loaded) > 0 /\ loaded[Len(loaded)] = m
  BY <1>2 DEF ExitRestore, ControlInv
<1>4. ControlInv'
  BY <1>1 DEF ControlInv, Inside, Phases, Between, RootIsFree
<1>5. LoadedInv'
  BY <1>1, <1>3 DEF ControlInv, LoadedInv, RootIsFree
<1>6. \A f : Standing(f) /\ (f # m \/ ~pageRW) => Standing(f)'
  BY <1>1, ModulesAssumption DEF Standing, ControlInv, LoadedInv
<1>7. Standing(table)'
  <2>1. CASE pageRW
    <3>1. Standing(saved[m])
      BY <1>1, <1>2, SavedIsStanding DEF Standing
    <3>2. saved[m] # m
      BY <1>2, ModulesAssumption DEF OrderInv, LoadedInv
    <3>3. QED
      BY <1>1, <1>6, <2>1, <3>1, <3>2
  <2>2. CASE ~pageRW
    BY <1>1, <1>6, <2>2 DEF OrderInv
  <2>3. QED
    BY <2>1, <2>2
<1>8. OrderInv'
  BY <1>1, <1>6, <1>7 DEF OrderInv, Inside
<1>9. WritableInv'
  BY <1>1 DEF WritableInv, ControlInv
<1>10. QED
  BY <1>4, <1>5, <1>8, <1>9

\* A sequence without its last element.
LEMMA AllButLast ==
  ASSUME NEW S, NEW s \in Seq(S), Len(s) > 0
  PROVE  LET r == SubSeq(s, 1, Len(s) - 1)
         IN  /\ r \in Seq(S) /\ Len(r) = Len(s) - 1
             /\ \A i \in 1 .. Len(r) : r[i] = s[i]
<1>1. PICK n \in Nat : Len(s) = n + 1
  <2>1. Len(s) - 1 \in Nat /\ Len(s) = (Len(s) - 1) + 1
    OBVIOUS
  <2>2. QED
    BY <2>1
<1>2. n = Len(s) - 1
  BY <1>1
<1>3. \A i \in 1 .. n : s[i] \in S
  BY <1>1
<1>4. /\ SubSeq(s, 1, n) \in Seq(S)
      /\ Len(SubSeq(s, 1, n)) = IF 1 <= n THEN n - 1 + 1 ELSE 0
      /\ \A i \in 1 .. n - 1 + 1 : SubSeq(s, 1, n)[i] = s[1 + i - 1]
  BY <1>3, SubSeqProperties
<1>5. n - 1 + 1 = n /\ (~(1 <= n) => n = 0) /\ \A i \in 1 .. n : 1 + i - 1 = i
  OBVIOUS
<1>6. Len(SubSeq(s, 1, n)) = n
  <2> DEFINE l == Len(SubSeq(s, 1, n))
  <2>1. l = IF 1 <= n THEN n - 1 + 1 ELSE 0
    BY <1>4
  <2> HIDE DEF l
  <2>2. l = n
    BY <2>1, <1>5
  <2>3. QED
    BY <2>2 DEF l
<1>7. \A i \in 1 .. n : SubSeq(s, 1, n)[i] = s[i]
  <2> TAKE i \in 1 .. n
  <2>1. i \in 1 .. n - 1 + 1 /\ 1 + i - 1 = i
    BY <1>5
  <2>2. SubSeq(s, 1, n)[i] = s[1 + i - 1]
    BY <1>4, <2>1
  <2>3. QED
    BY <2>1, <2>2, Zenon
<1>8. /\ SubSeq(s, 1, n) \in Seq(S) /\ Len(SubSeq(s, 1, n)) = Len(s) - 1
      /\ \A i \in 1 .. Len(SubSeq(s, 1, n)) : SubSeq(s, 1, n)[i] = s[i]
  BY <1>2, <1>4, <1>6, <1>7, Zenon
<1>9. QED
  BY <1>2, <1>8, Zenon

\* The second half of exit() (hijack-syscall.c:70; on_access.c:249).
LEMMA ExitROKeeps ==
  ASSUME StackInv, NEW m \in Modules, ExitRO(m)
  PROVE  StackInv'
<1> USE DEF StackInv
<1>1. /\ phase[m] = "ro" /\ phase' = [phase EXCEPT ![m] = "gone"]
      /\ UNCHANGED <<table, saved, mutex, pc, at>>
      /\ pageRW' = FALSE
  BY DEF ExitRO
<1>2. Len(loaded) \in Nat /\ Len(loaded) > 0 /\ loaded[Len(loaded)] = m
  BY <1>1 DEF ControlInv, LoadedInv
<1>3. /\ loaded' \in Seq(Modules) /\ Len(loaded') = Len(loaded) - 1
      /\ \A i \in 1 .. Len(loaded') : loaded'[i] = loaded[i]
  <2>1. loaded' = SubSeq(loaded, 1, Len(loaded) - 1) /\ loaded \in Seq(Modules)
    BY DEF ExitRO, ControlInv
  <2>2. QED
    BY <1>2, <2>1, AllButLast
<1>4. \A i \in 1 .. Len(loaded') : loaded[i] \in Modules /\ loaded[i] # m
  <2>1. ASSUME NEW i \in 1 .. Len(loaded') PROVE i \in 1 .. Len(loaded) /\ i # Len(loaded)
    BY <1>2, <1>3
  <2>2. Len(loaded) \in 1 .. Len(loaded)
    BY <1>2
  <2>3. QED
    BY <1>2, <2>1, <2>2 DEF ControlInv, LoadedInv
<1>5. ControlInv'
  BY <1>1, <1>3 DEF ControlInv, Inside, Phases, Between
<1>6. LoadedInv'
  <2>1. \A i \in 1 .. Len(loaded') : phase'[loaded'[i]] \in {"hook", "live", "ro", "stuck"}
    BY <1>1, <1>2, <1>3, <1>4 DEF ControlInv, LoadedInv
  <2>2. \A i, j \in 1 .. Len(loaded') : loaded'[i] = loaded'[j] => i = j
    BY <1>2, <1>3 DEF LoadedInv
  <2>3. ASSUME NEW n \in Modules, phase'[n] \in {"hook", "live", "ro", "stuck"}
        PROVE  \E i \in 1 .. Len(loaded') : loaded'[i] = n
    <3>1. n # m /\ phase[n] = phase'[n]
      BY <1>1, <2>3 DEF ControlInv
    <3>2. PICK i \in 1 .. Len(loaded) : loaded[i] = n
      BY <2>3, <3>1 DEF LoadedInv
    <3>3. i \in 1 .. Len(loaded')
      BY <1>2, <1>3, <3>1, <3>2
    <3>4. QED
      BY <1>3, <3>2, <3>3
  <2>4. \A n \in Modules : phase'[n] # "ro"
    BY <1>1 DEF ControlInv, Between
  <2>5. QED
    BY <2>1, <2>2, <2>3, <2>4 DEF LoadedInv
<1>7. ASSUME NEW f, Standing(f) PROVE Standing(f)'
  <2>1. CASE f = Kernel
    BY <2>1 DEF Standing
  <2>2. CASE f # Kernel
    <3>1. PICK i \in 1 .. Len(loaded) : loaded[i] = f /\ phase[f] # "ro"
      BY <1>7, <2>2 DEF Standing
    <3>2. i # Len(loaded) /\ f # m
      BY <1>1, <1>2, <3>1
    <3>3. i \in 1 .. Len(loaded') /\ loaded'[i] = f
      BY <1>2, <1>3, <3>1, <3>2
    <3>4. phase'[f] # "ro"
      BY <1>1, <1>4, <3>1, <3>2 DEF ControlInv
    <3>5. QED
      BY <3>3, <3>4 DEF Standing
  <2>3. QED
    BY <2>1, <2>2
<1>8. OrderInv'
  <2>1. Standing(table)' /\ \A t \in Tasks : Inside(t)' => Standing(at[t])'
    BY <1>1, <1>7 DEF OrderInv, Inside
  <2>2. ASSUME NEW i \in 1 .. Len(loaded')
        PROVE  \/ saved'[loaded'[i]] = Kernel
               \/ \E j \in 1 .. Len(loaded') : j < i /\ loaded'[j] = saved'[loaded'[i]]
    <3>1. i \in 1 .. Len(loaded) /\ loaded'[i] = loaded[i] /\ saved' = saved
      BY <1>1, <1>2, <1>3
    <3>2. CASE saved[loaded[i]] = Kernel
      BY <3>1, <3>2
    <3>3. CASE \E j \in 1 .. Len(loaded) : j < i /\ loaded[j] = saved[loaded[i]]
      BY <1>2, <1>3, <3>1, <3>3
    <3>4. QED
      BY <3>1, <3>2, <3>3 DEF OrderInv
  <2>3. QED
    BY <2>1, <2>2 DEF OrderInv
<1>9. WritableInv'
  BY <1>1 DEF WritableInv, ControlInv
<1>10. QED
  BY <1>5, <1>6, <1>8, <1>9
-----------------------------------------------------------------------------
\* The inductive invariant of the stacked hooks (hijack-syscall.c:50-71,
\* on_access.c:154-187, 228-249).
THEOREM StackInvariance == Spec => []StackInv
<1>1. Init => StackInv
  <2> SUFFICES ASSUME Init PROVE StackInv
    OBVIOUS
  <2>1. Len(loaded) = 0 /\ loaded \in Seq(Modules) /\ 1 .. 0 = {}
    BY DEF Init
  <2>2. ControlInv
    BY <2>1 DEF Init, ControlInv, Inside, Functions, Phases, Between
  <2>3. LoadedInv
    BY <2>1 DEF Init, LoadedInv
  <2>4. OrderInv
    BY <2>1 DEF Init, OrderInv, Standing, Inside
  <2>5. WritableInv
    BY DEF Init, WritableInv
  <2>6. QED
    BY <2>2, <2>3, <2>4, <2>5 DEF StackInv
<1>2. StackInv /\ [Next]_vars => StackInv'
  <2> SUFFICES ASSUME StackInv, [Next]_vars PROVE StackInv'
    OBVIOUS
  <2>1. CASE UNCHANGED vars
    <3>1. UNCHANGED <<table, pageRW, phase, loaded, saved, mutex, pc, at>>
      BY <2>1 DEF vars, rootVars
    <3>2. ControlInv'
      BY <3>1 DEF StackInv, ControlInv, Inside
    <3>3. LoadedInv'
      BY <3>1 DEF StackInv, LoadedInv
    <3>4. OrderInv'
      BY <3>1 DEF StackInv, OrderInv, Standing, Inside
    <3>5. WritableInv'
      BY <3>1 DEF StackInv, WritableInv
    <3>6. QED
      BY <3>2, <3>3, <3>4, <3>5 DEF StackInv
  <2>2. CASE \E t \in Tasks : Call(t) \/ Opening(t)
    BY <2>2, TaskKeepsStack
  <2>3. CASE \E m \in Modules : LoadUnload(m)
    BY <2>3, InitRWKeeps, InitSaveKeeps, ExitRestoreKeeps, ExitROKeeps DEF LoadUnload
  <2>4. QED
    BY <2>1, <2>2, <2>3 DEF Next
<1>3. QED
  BY <1>1, <1>2, PTL DEF Spec

\* Unloaded in reverse order, no module leaves a pointer to itself behind
\* (hijack-syscall.c:59-60, 69; on_access.c:154, 181, 234-236, 246).
THEOREM NothingDangles == Spec => []NoDangling
<1>1. StackInv => NoDangling
  <2> SUFFICES ASSUME StackInv PROVE NoDangling
    OBVIOUS
  <2>1. Mapped(table) /\ \A t \in Tasks : Inside(t) => Mapped(at[t])
    BY StandingIsMapped DEF StackInv, OrderInv
  <2>2. \A i \in 1 .. Len(loaded) : Mapped(saved[loaded[i]])
    BY DEF StackInv, OrderInv, LoadedInv, Mapped
  <2>3. QED
    BY <2>1, <2>2 DEF NoDangling
<1>2. QED
  BY <1>1, StackInvariance, PTL

\* Loading alone never faults (hijack-syscall.c:57-60, on_access.c:228-236).
THEOREM LoadingIsSafe == Spec => []NoFaultBeforeUnload
<1>1. StackInv => NoFaultBeforeUnload
  BY DEF StackInv, WritableInv, NoFaultBeforeUnload, Unloading
<1>2. QED
  BY <1>1, StackInvariance, PTL
-----------------------------------------------------------------------------
\* What the control of root and of a scan adds: a module about to place its
\* hook is the last one and finds the page writable, and only a scanner's
\* function stands between the lock and the call of the saved one.
RootInv ==
  /\ \A m \in Modules : phase[m] \in {"save", "hook"} => pageRW
  /\ \A m \in Modules : phase[m] = "hook" => Len(loaded) > 0 /\ loaded[Len(loaded)] = m
  /\ \A t \in Tasks :
       pc[t] \in {"locked", "scan", "unlock", "original"} => at[t] \in Scanning

\* f is the i-th module of loaded or a later one.
From(f, i) == \E j \in i .. Len(loaded) : loaded[j] = f

\* Every scanner that has saved a pointer did so after the i-th module.
Oldest(i) ==
  /\ loaded[i] \notin Scanning
  /\ \A s \in Scanning :
       phase[s] \in {"absent", "save"} \/ \E j \in i + 1 .. Len(loaded) : loaded[j] = s

\* The table and the pointers saved after such a module do not lead past it.
KeptInv ==
  \A i \in 1 .. Len(loaded) : phase[loaded[i]] \in {"live", "stuck"} /\ Oldest(i) =>
    /\ From(table, i)
    /\ \A j \in i + 1 .. Len(loaded) : From(saved[loaded[j]], i)

\* A step that leaves the table, the phases and the pointers alone.
LEMMA QuietKeeps ==
  ASSUME KeptInv, UNCHANGED <<table, phase, loaded, saved>>
  PROVE  KeptInv'
BY DEF KeptInv, From, Oldest

\* A scan stores its own function or the pointer it has saved: both lead to
\* modules loaded no earlier than one that is older than every scanner
\* (on_access.c:154, 181).
LEMMA ScanKeeps ==
  ASSUME StackInv, KeptInv, NEW s \in Scanning, Standing(s),
         table' \in {table, s, saved[s]}, UNCHANGED <<phase, loaded, saved>>
  PROVE  KeptInv'
<1>1. s \in Modules /\ s # Kernel
  BY ModulesAssumption
<1>2. PICK k \in 1 .. Len(loaded) : loaded[k] = s
  BY <1>1 DEF Standing
<1>3. phase[s] \notin {"absent", "save"}
  BY <1>2 DEF StackInv, LoadedInv
<1>4. ASSUME NEW i \in 1 .. Len(loaded), phase[loaded[i]] \in {"live", "stuck"}, Oldest(i)
      PROVE  From(s, i) /\ From(saved[s], i) /\ From(table, i)
             /\ \A j \in i + 1 .. Len(loaded) : From(saved[loaded[j]], i)
  <2>1. PICK j \in i + 1 .. Len(loaded) : loaded[j] = s
    BY <1>3, <1>4 DEF Oldest
  <2>2. Len(loaded) \in Nat
    BY DEF StackInv, ControlInv
  <2>3. j \in i .. Len(loaded)
    BY <2>2
  <2>4. From(s, i)
    BY <2>1, <2>3 DEF From
  <2>5. QED
    BY <1>4, <2>1, <2>4 DEF KeptInv
<1>5. QED
  BY <1>4 DEF KeptInv, From, Oldest

\* The steps of a task (on_access.c:126-187, hijack-syscall.c:45-50).
LEMMA TaskKeepsOlder ==
  ASSUME StackInv, RootInv, KeptInv, NEW t \in Tasks, Call(t) \/ Opening(t)
  PROVE  RootInv' /\ KeptInv'
<1>1. UNCHANGED <<pageRW, phase, loaded, saved>>
  BY DEF Call, Opening, HookCode, PassOn, TryLock, PutBack, Rearm, Unlock, CallOriginal, rootVars
<1>2. \A u \in Tasks : u # t => pc'[u] = pc[u] /\ at'[u] = at[u]
  BY DEF Call, Opening, HookCode, PassOn, TryLock, PutBack, Rearm, Unlock, CallOriginal, Store, Jump,
    Goto, StackInv, ControlInv
<1>3. pc'[t] \in {"locked", "scan", "unlock", "original"} => at'[t] \in Scanning
  <2>1. CASE Call(t) \/ PassOn(t) \/ CallOriginal(t)
    BY <2>1 DEF Call, PassOn, CallOriginal, Jump, Goto, StackInv, ControlInv
  <2>2. CASE TryLock(t)
    BY <2>2 DEF TryLock, Goto, StackInv, ControlInv
  <2>3. CASE PutBack(t) \/ Rearm(t) \/ Unlock(t)
    <3>1. pc[t] \in {"locked", "scan", "unlock"} /\ at' = at
      BY <2>3 DEF PutBack, Rearm, Unlock
    <3>2. QED
      BY <3>1 DEF RootInv
  <2>4. QED
    BY <2>1, <2>2, <2>3 DEF Opening, HookCode
<1>4. RootInv'
  BY <1>1, <1>2, <1>3 DEF RootInv
<1>5. KeptInv'
  <2>1. CASE PutBack(t) \/ Rearm(t)
    <3>1. at[t] \in Scanning /\ Inside(t)
      BY <2>1 DEF PutBack, Rearm, RootInv, Inside
    <3>2. Standing(at[t])
      BY <3>1 DEF StackInv, OrderInv
    <3>3. table' \in {table, at[t], saved[at[t]]}
      BY <2>1 DEF PutBack, Rearm, Store
    <3>4. QED
      BY <1>1, <3>1, <3>2, <3>3, ScanKeeps
  <2>2. CASE ~(PutBack(t) \/ Rearm(t))
    <3>1. table' = table
      BY <2>2 DEF Call, Opening, HookCode, PassOn, TryLock, Unlock, CallOriginal
    <3>2. QED
      BY <1>1, <3>1, QuietKeeps
  <2>3. QED
    BY <2>1, <2>2
<1>6. QED
  BY <1>4, <1>5

\* set_addr_rw (hijack-syscall.c:57; on_access.c:230).
LEMMA InitRWKeepsOlder ==
  ASSUME StackInv, RootInv, KeptInv, NEW m \in Modules, InitRW(m)
  PROVE  RootInv' /\ KeptInv'
<1>1. /\ phase[m] = "absent" /\ phase' = [phase EXCEPT ![m] = "save"]
      /\ pageRW' = TRUE /\ UNCHANGED <<table, loaded, saved, pc, at>>
  BY DEF InitRW
<1>2. /\ phase'[m] = "save" /\ \A n \in Modules : n # m => phase'[n] = phase[n]
      /\ \A i \in 1 .. Len(loaded) : loaded[i] \in Modules /\ loaded[i] # m
  BY <1>1 DEF StackInv, ControlInv, LoadedInv
<1>3. RootInv'
  BY <1>1, <1>2 DEF RootInv
<1>4. \A i \in 1 .. Len(loaded) : Oldest(i)' => Oldest(i)
  BY <1>1, <1>2, ModulesAssumption DEF Oldest
<1>5. \A f, i : From(f, i)' <=> From(f, i)
  BY <1>1 DEF From
<1>6. KeptInv'
  BY <1>1, <1>2, <1>4, <1>5 DEF KeptInv
<1>7. QED
  BY <1>3, <1>6

\* The saving of the pointer (hijack-syscall.c:59; on_access.c:234).
LEMMA InitSaveKeepsOlder ==
  ASSUME StackInv, RootInv, KeptInv, NEW m \in Modules, InitSave(m)
  PROVE  RootInv' /\ KeptInv'
<1>1. /\ phase[m] = "save" /\ phase' = [phase EXCEPT ![m] = "hook"]
      /\ saved' = [saved EXCEPT ![m] = table] /\ UNCHANGED <<table, pageRW, pc, at>>
  BY DEF InitSave
<1>2. /\ Len(loaded) \in Nat /\ Len(loaded') = Len(loaded) + 1
      /\ \A i \in 1 .. Len(loaded) : loaded'[i] = loaded[i]
      /\ loaded'[Len(loaded) + 1] = m
  BY DEF InitSave, StackInv, ControlInv
<1>3. /\ phase'[m] = "hook" /\ \A n \in Modules : n # m => phase'[n] = phase[n]
      /\ \A i \in 1 .. Len(loaded) : loaded[i] \in Modules /\ loaded[i] # m
      /\ saved'[m] = table /\ \A n \in Modules : n # m => saved'[n] = saved[n]
  BY <1>1 DEF StackInv, ControlInv, LoadedInv
<1>4. RootInv'
  <2>1. \A n \in Modules : phase[n] \in {"save", "hook"} => n = m
    BY <1>1 DEF StackInv, ControlInv, Between
  <2>2. QED
    BY <1>1, <1>2, <1>3, <2>1 DEF RootInv
<1>5. ASSUME NEW i \in 1 .. Len(loaded), NEW f, From(f, i) PROVE From(f, i)'
  BY <1>2, <1>5 DEF From
<1>6. ASSUME NEW i \in 1 .. Len(loaded), Oldest(i)' PROVE Oldest(i)
  <2>1. loaded'[i] \notin Scanning /\ loaded'[i] = loaded[i]
    BY <1>2, <1>6 DEF Oldest
  <2>2. ASSUME NEW s \in Scanning, phase[s] \notin {"absent", "save"}
        PROVE  \E j \in i + 1 .. Len(loaded) : loaded[j] = s
    <3>1. s \in Modules /\ s # m
      BY <1>1, <2>2, ModulesAssumption
    <3>2. PICK j \in i + 1 .. Len(loaded') : loaded'[j] = s
      BY <1>3, <1>6, <2>2, <3>1 DEF Oldest
    <3>3. j # Len(loaded) + 1
      BY <1>2, <3>1, <3>2
    <3>4. j \in i + 1 .. Len(loaded) /\ j \in 1 .. Len(loaded)
      BY <1>2, <3>2, <3>3
    <3>5. QED
      BY <1>2, <3>2, <3>4
  <2>3. QED
    BY <2>1, <2>2 DEF Oldest
<1>7. KeptInv'
  <2> SUFFICES ASSUME NEW i \in 1 .. Len(loaded'), phase'[loaded'[i]] \in {"live", "stuck"},
                      Oldest(i)'
               PROVE  From(table, i)' /\ \A j \in i + 1 .. Len(loaded') : From(saved[loaded[j]], i)'
    BY DEF KeptInv
  <2>1. i # Len(loaded) + 1
    BY <1>2, <1>3
  <2>2. i \in 1 .. Len(loaded)
    BY <1>2, <2>1
  <2>3. From(table, i) /\ \A j \in i + 1 .. Len(loaded) : From(saved[loaded[j]], i)
    BY <1>2, <1>3, <1>6, <2>2 DEF KeptInv
  <2>4. From(table, i)'
    BY <1>1, <1>5, <2>2, <2>3
  <2>5. ASSUME NEW j \in i + 1 .. Len(loaded') PROVE From(saved[loaded[j]], i)'
    <3>1. CASE j = Len(loaded) + 1
      BY <1>1, <1>2, <1>3, <2>4, <3>1
    <3>2. CASE j # Len(loaded) + 1
      <4>1. j \in i + 1 .. Len(loaded) /\ j \in 1 .. Len(loaded)
        BY <1>2, <2>2, <3>2
      <4>2. saved'[loaded'[j]] = saved[loaded[j]]
        BY <1>2, <1>3, <4>1
      <4>3. From(saved'[loaded'[j]], i)
        BY <2>3, <4>1, <4>2
      <4>4. QED
        BY <1>5, <2>2, <4>3 DEF From
    <3>3. QED
      BY <3>1, <3>2
  <2>6. QED
    BY <2>4, <2>5
<1>8. QED
  BY <1>4, <1>7

\* The store of new_open (hijack-syscall.c:60; on_access.c:236).
LEMMA InitHookKeepsOlder ==
  ASSUME StackInv, RootInv, KeptInv, NEW m \in Modules, InitHook(m)
  PROVE  RootInv' /\ KeptInv'
<1>1. /\ phase[m] = "hook" /\ phase' = [phase EXCEPT ![m] = "live"]
      /\ table' = m /\ UNCHANGED <<pageRW, loaded, saved, pc, at>>
  BY DEF InitHook, RootInv
<1>2. /\ Len(loaded) \in Nat /\ Len(loaded) > 0 /\ loaded[Len(loaded)] = m
      /\ phase'[m] = "live" /\ \A n \in Modules : n # m => phase'[n] = phase[n]
      /\ \A i \in 1 .. Len(loaded) : loaded[i] \in Modules
  BY <1>1 DEF RootInv, StackInv, ControlInv
<1>3. RootInv'
  <2>1. \A n \in Modules : phase[n] \in {"save", "hook"} => n = m
    BY <1>1 DEF StackInv, ControlInv, Between
  <2>2. QED
    BY <1>1, <1>2, <2>1 DEF RootInv
<1>4. \A i \in 1 .. Len(loaded) : Oldest(i)' => Oldest(i)
  BY <1>1, <1>2, ModulesAssumption DEF Oldest
<1>5. \A i \in 1 .. Len(loaded) : From(m, i)
  BY <1>2 DEF From
<1>6. KeptInv'
  <2> SUFFICES ASSUME NEW i \in 1 .. Len(loaded'), phase'[loaded'[i]] \in {"live", "stuck"},
                      Oldest(i)'
               PROVE  From(table, i)' /\ \A j \in i + 1 .. Len(loaded') : From(saved[loaded[j]], i)'
    BY DEF KeptInv
  <2>1. i \in 1 .. Len(loaded) /\ Oldest(i)
    BY <1>1, <1>4
  <2>2. From(table, i)'
    BY <1>1, <1>5, <2>1 DEF From
  <2>3. \A j \in i + 1 .. Len(loaded) : From(saved[loaded[j]], i)
    <3>1. CASE i = Len(loaded)
      BY <1>2, <3>1
    <3>2. CASE i # Len(loaded)
      <4>1. loaded[i] # m
        BY <1>2, <2>1, <3>2 DEF StackInv, LoadedInv
      <4>2. phase[loaded[i]] \in {"live", "stuck"}
        BY <1>1, <1>2, <2>1, <4>1
      <4>3. QED
        BY <2>1, <4>2 DEF KeptInv
    <3>3. QED
      BY <3>1, <3>2
  <2>4. QED
    BY <1>1, <2>2, <2>3 DEF From
<1>7. QED
  BY <1>3, <1>6

\* The first half of exit() (hijack-syscall.c:69; on_access.c:246).
LEMMA ExitRestoreKeepsOlder ==
  ASSUME StackInv, RootInv, KeptInv, NEW m \in Modules, ExitRestore(m)
  PROVE  RootInv' /\ KeptInv'
<1>1. /\ phase[m] = "live" /\ RootIsFree /\ loaded[Len(loaded)] = m
      /\ table' = IF pageRW THEN saved[m] ELSE table
      /\ phase' = [phase EXCEPT ![m] = IF pageRW THEN "ro" ELSE "stuck"]
      /\ UNCHANGED <<pageRW, loaded, saved, pc, at>>
  BY DEF ExitRestore
<1>2. /\ phase'[m] = (IF pageRW THEN "ro" ELSE "stuck")
      /\ \A n \in Modules : n # m => phase'[n] = phase[n]
      /\ Len(loaded) \in Nat /\ \A i \in 1 .. Len(loaded) : loaded[i] \in Modules
  BY <1>1 DEF StackInv, ControlInv
<1>3. RootInv'
  <2>1. \A n \in Modules : phase'[n] \notin {"save", "hook"}
    BY <1>1, <1>2 DEF RootIsFree
  <2>2. QED
    BY <1>1, <2>1 DEF RootInv
<1>4. \A i \in 1 .. Len(loaded) : Oldest(i)' => Oldest(i)
  BY <1>1, <1>2, ModulesAssumption DEF Oldest
<1>5. KeptInv'
  <2> SUFFICES ASSUME NEW i \in 1 .. Len(loaded'), phase'[loaded'[i]] \in {"live", "stuck"},
                      Oldest(i)'
               PROVE  From(table, i)' /\ \A j \in i + 1 .. Len(loaded') : From(saved[loaded[j]], i)'
    BY DEF KeptInv
  <2>1. i \in 1 .. Len(loaded) /\ Oldest(i) /\ phase[loaded[i]] \in {"live", "stuck"}
    BY <1>1, <1>2, <1>4
  <2>2. From(table, i) /\ \A j \in i + 1 .. Len(loaded) : From(saved[loaded[j]], i)
    BY <2>1 DEF KeptInv
  <2>3. From(table, i)'
    <3>1. CASE pageRW
      <4>1. i # Len(loaded)
        BY <1>1, <1>2, <3>1
      <4>2. Len(loaded) \in i + 1 .. Len(loaded)
        BY <1>2, <2>1, <4>1
      <4>3. From(saved[m], i)
        BY <1>1, <2>2, <4>2
      <4>4. QED
        BY <1>1, <3>1, <4>3 DEF From
    <3>2. CASE ~pageRW
      BY <1>1, <2>2, <3>2 DEF From
    <3>3. QED
      BY <3>1, <3>2
  <2>4. QED
    BY <1>1, <2>2, <2>3 DEF From
<1>6. QED
  BY <1>3, <1>5

\* The second half of exit() (hijack-syscall.c:70; on_access.c:249): nothing
\* leads to the module that goes.
LEMMA ExitROKeepsOlder ==
  ASSUME StackInv, RootInv, KeptInv, NEW m \in Modules, ExitRO(m)
  PROVE  RootInv' /\ KeptInv'
<1>1. /\ phase[m] = "ro" /\ phase' = [phase EXCEPT ![m] = "gone"]
      /\ UNCHANGED <<table, saved, pc, at>>
  BY DEF ExitRO
<1>2. /\ Len(loaded) \in Nat /\ Len(loaded) > 0 /\ loaded[Len(loaded)] = m
      /\ phase'[m] = "gone" /\ \A n \in Modules : n # m => phase'[n] = phase[n]
      /\ \A i \in 1 .. Len(loaded) : loaded[i] \in Modules
  BY <1>1 DEF StackInv, ControlInv, LoadedInv
<1>3. /\ Len(loaded') = Len(loaded) - 1
      /\ \A i \in 1 .. Len(loaded) - 1 : loaded'[i] = loaded[i] /\ loaded[i] # m
  <2>1. loaded' = SubSeq(loaded, 1, Len(loaded) - 1) /\ loaded \in Seq(Modules)
    BY DEF ExitRO, StackInv, ControlInv
  <2>2. /\ Len(loaded') = Len(loaded) - 1
        /\ \A i \in 1 .. Len(loaded') : loaded'[i] = loaded[i]
    BY <1>2, <2>1, AllButLast
  <2>3. ASSUME NEW i \in 1 .. Len(loaded) - 1 PROVE loaded[i] # m
    <3>1. i \in 1 .. Len(loaded) /\ Len(loaded) \in 1 .. Len(loaded) /\ i # Len(loaded)
      BY <1>2
    <3>2. QED
      BY <1>2, <3>1 DEF StackInv, LoadedInv
  <2>4. QED
    BY <2>2, <2>3
<1>4. RootInv'
  <2>1. \A n \in Modules : phase'[n] \notin {"save", "hook"}
    BY <1>1, <1>2 DEF StackInv, ControlInv, Between
  <2>2. QED
    BY <1>1, <2>1 DEF RootInv
<1>5. ASSUME NEW i \in 1 .. Len(loaded) - 1, NEW f \in Functions, From(f, i), f # m
      PROVE  From(f, i)'
  <2>1. PICK j \in i .. Len(loaded) : loaded[j] = f
    BY <1>5 DEF From
  <2>2. j \in i .. Len(loaded) - 1 /\ j \in 1 .. Len(loaded) - 1
    BY <1>2, <1>5, <2>1
  <2>3. QED
    BY <1>3, <2>1, <2>2 DEF From
<1>6. ASSUME NEW i \in 1 .. Len(loaded) - 1, Oldest(i)' PROVE Oldest(i)
  <2>1. ASSUME NEW s \in Scanning, phase[s] \notin {"absent", "save"}
        PROVE  \E j \in i + 1 .. Len(loaded) : loaded[j] = s
    <3>1. s \in Modules /\ phase'[s] \notin {"absent", "save"}
      BY <1>2, <2>1, ModulesAssumption
    <3>2. PICK j \in i + 1 .. Len(loaded') : loaded'[j] = s
      BY <1>6, <2>1, <3>1 DEF Oldest
    <3>3. j \in i + 1 .. Len(loaded) /\ j \in 1 .. Len(loaded) - 1
      BY <1>2, <1>3, <1>6, <3>2
    <3>4. QED
      BY <1>3, <3>2, <3>3
  <2>2. QED
    BY <1>3, <1>6, <2>1 DEF Oldest
<1>7. KeptInv'
  <2> SUFFICES ASSUME NEW i \in 1 .. Len(loaded'), phase'[loaded'[i]] \in {"live", "stuck"},
                      Oldest(i)'
               PROVE  From(table, i)' /\ \A j \in i + 1 .. Len(loaded') : From(saved[loaded[j]], i)'
    BY DEF KeptInv
  <2>1. i \in 1 .. Len(loaded) - 1 /\ i \in 1 .. Len(loaded)
    BY <1>2, <1>3
  <2>2. From(table, i) /\ \A j \in i + 1 .. Len(loaded) : From(saved[loaded[j]], i)
    BY <1>2, <1>3, <1>6, <2>1 DEF KeptInv
  <2>3. From(table, i)'
    <3>1. table \in Functions
      BY DEF StackInv, ControlInv
    <3>2. table # m
      BY <1>1, ModulesAssumption DEF StackInv, OrderInv, Standing
    <3>3. ASSUME NEW f \in Functions, f # m, From(f, i) PROVE \E k \in i .. Len(loaded') : loaded'[k] = f
      BY <1>5, <2>1, <3>3 DEF From
    <3>4. \E k \in i .. Len(loaded') : loaded'[k] = table
      BY <2>2, <3>1, <3>2, <3>3
    <3>5. QED
      BY <1>1, <3>4 DEF From
  <2>4. ASSUME NEW j \in i + 1 .. Len(loaded') PROVE From(saved[loaded[j]], i)'
    <3>1. j \in i + 1 .. Len(loaded) /\ j \in 1 .. Len(loaded) - 1 /\ j \in 1 .. Len(loaded)
      BY <1>2, <1>3, <2>1, <2>4
    <3>2. saved'[loaded'[j]] = saved[loaded[j]] /\ saved[loaded[j]] \in Functions
      BY <1>1, <1>2, <1>3, <3>1 DEF StackInv, ControlInv
    <3>3. saved[loaded[j]] # m
      <4>1. CASE saved[loaded[j]] = Kernel
        BY <4>1, ModulesAssumption
      <4>2. CASE saved[loaded[j]] # Kernel
        <5>1. PICK k \in 1 .. Len(loaded) : k < j /\ loaded[k] = saved[loaded[j]]
          BY <3>1, <4>2 DEF StackInv, OrderInv
        <5>2. k \in 1 .. Len(loaded) - 1
          BY <1>2, <3>1, <5>1
        <5>3. QED
          BY <1>3, <5>1, <5>2
      <4>3. QED
        BY <4>1, <4>2
    <3>4. From(saved[loaded[j]], i)
      BY <2>2, <3>1
    <3>5. ASSUME NEW f \in Functions, f # m, From(f, i) PROVE \E k \in i .. Len(loaded') : loaded'[k] = f
      BY <1>5, <2>1, <3>5 DEF From
    <3>6. \E k \in i .. Len(loaded') : loaded'[k] = saved'[loaded'[j]]
      BY <3>2, <3>3, <3>4, <3>5
    <3>7. QED
      BY <3>6 DEF From
  <2>5. QED
    BY <2>3, <2>4
<1>8. QED
  BY <1>4, <1>7

\* The inductive invariant of the hooks older than every scanner
\* (on_access.c:154, 181, 234-236; hijack-syscall.c:59-60).
THEOREM OlderInvariance == Spec => [](StackInv /\ RootInv /\ KeptInv)
<1>1. Init => RootInv /\ KeptInv
  BY DEF Init, RootInv, KeptInv
<1>2. StackInv /\ RootInv /\ KeptInv /\ [Next]_vars => RootInv' /\ KeptInv'
  <2> SUFFICES ASSUME StackInv, RootInv, KeptInv, [Next]_vars PROVE RootInv' /\ KeptInv'
    OBVIOUS
  <2>1. CASE UNCHANGED vars
    <3>1. UNCHANGED <<table, pageRW, phase, loaded, saved, pc, at>>
      BY <2>1 DEF vars, rootVars
    <3>2. QED
      BY <3>1, QuietKeeps DEF RootInv
  <2>2. CASE \E t \in Tasks : Call(t) \/ Opening(t)
    BY <2>2, TaskKeepsOlder
  <2>3. CASE \E m \in Modules : LoadUnload(m)
    BY <2>3, InitRWKeepsOlder, InitSaveKeepsOlder, InitHookKeepsOlder,
      ExitRestoreKeepsOlder, ExitROKeepsOlder DEF LoadUnload
  <2>4. QED
    BY <2>1, <2>2, <2>3 DEF Next
<1>3. QED
  BY <1>1, <1>2, StackInvariance, PTL DEF Spec
-----------------------------------------------------------------------------
\* A non-empty set of naturals has a least element.
LEMMA LeastElement ==
  ASSUME NEW T \in SUBSET Nat, T # {}
  PROVE  \E n \in T : \A m \in T : n <= m
<1>1. PICK n \in T : \A m \in T : ~ (<<m, n>> \in OpToRel(<, Nat))
  BY NatLessThanWellFounded, WFMin
<1>2. \A m \in T : ~ (m < n)
  BY <1>1 DEF OpToRel
<1>3. QED
  BY <1>2

\* The function that a function of the chain calls.
Following(f) == IF f = Kernel THEN Kernel ELSE saved[f]

\* follow is the function its recursion describes.
LEMMA FollowUnfolds ==
  LET N == Cardinality(Modules)
  IN  /\ N \in Nat /\ follow[0] = table
      /\ \A n \in 1 .. N : follow[n] = Following(follow[n - 1])
<1> DEFINE N == Cardinality(Modules)
           Link(g, n) == IF n = 0 THEN table ELSE Following(g[n - 1])
           Solved(n) == \E g : g = [k \in 0 .. n |-> Link(g, k)]
<1>1. N \in Nat
  BY FS_CardinalityType, ModulesAssumption
<1> HIDE DEF N
<1>2. Solved(0)
  <2>1. [k \in 0 .. 0 |-> table] = [k \in 0 .. 0 |-> Link([j \in 0 .. 0 |-> table], k)]
    OBVIOUS
  <2>2. QED
    BY <2>1
<1>3. ASSUME NEW n \in Nat, Solved(n) PROVE Solved(n + 1)
  <2>1. PICK g : g = [k \in 0 .. n |-> Link(g, k)]
    BY <1>3
  <2> DEFINE h == [k \in 0 .. n + 1 |-> IF k \in 0 .. n THEN g[k] ELSE Link(g, k)]
  <2>2. /\ \A k \in 0 .. n : h[k] = g[k]
        /\ h = [k \in 0 .. n + 1 |-> IF k \in 0 .. n THEN g[k] ELSE Link(g, k)]
    OBVIOUS
  <2> HIDE DEF h
  <2>3. \A k \in 0 .. n + 1 : k # 0 => k - 1 \in 0 .. n
    OBVIOUS
  <2>4. \A k \in 0 .. n + 1 : Link(h, k) = Link(g, k)
    BY <2>2, <2>3
  <2>5. \A k \in 0 .. n : g[k] = Link(g, k)
    BY <2>1
  <2>6. h = [k \in 0 .. n + 1 |-> Link(h, k)]
    BY <2>2, <2>4, <2>5
  <2>7. QED
    BY <2>6
<1>4. Solved(N)
  <2> DEFINE T == {n \in Nat : ~Solved(n)}
  <2> SUFFICES ASSUME T # {} PROVE FALSE
    BY <1>1
  <2>1. PICK n \in T : \A k \in T : n <= k
    BY LeastElement
  <2>2. n \in Nat /\ n # 0 /\ ~Solved(n)
    BY <1>2, <2>1
  <2>3. n - 1 \in Nat /\ (n - 1) + 1 = n /\ ~(n <= n - 1)
    BY <2>2
  <2>4. Solved(n - 1)
    BY <2>1, <2>3
  <2> HIDE DEF Solved
  <2>5. Solved((n - 1) + 1)
    BY <1>3, <2>3, <2>4
  <2>6. QED
    BY <2>2, <2>3, <2>5
<1>5. follow = [n \in 0 .. N |-> Link(follow, n)]
  BY <1>4 DEF follow, Following, N
<1>6. QED
  BY <1>1, <1>5 DEF N

\* loaded lists each module once: it is no longer than there are modules.
LEMMA LoadedIsShort ==
  ASSUME StackInv
  PROVE  Len(loaded) \in Nat /\ Len(loaded) <= Cardinality(Modules)
<1>1. Len(loaded) \in Nat /\ loaded \in [1 .. Len(loaded) -> Modules]
  BY DEF StackInv, ControlInv
<1>2. loaded \in Injection(1 .. Len(loaded), Modules)
  BY <1>1 DEF StackInv, LoadedInv, Injection, IsInjective
<1>3. /\ Cardinality(1 .. Len(loaded)) <= Cardinality(Modules)
      /\ Cardinality(1 .. Len(loaded)) = Len(loaded)
  BY <1>1, <1>2, FS_Injection, FS_Interval, ModulesAssumption
<1>4. QED
  BY <1>1, <1>3

\* Every open passes the hooks that were loaded before all scanners: each
\* function of the chain is either such a hook or of a module loaded later, and
\* these come ever earlier in loaded (hijack-syscall.c:50; on_access.c:154,
\* 181, 187, 234).
LEMMA ChainReaches ==
  ASSUME StackInv, KeptInv, NEW i \in 1 .. Len(loaded),
         phase[loaded[i]] \in {"live", "stuck"}, Oldest(i)
  PROVE  InChain(loaded[i])
<1> DEFINE N == Cardinality(Modules)
           Beyond(n) == \E j \in i + 1 .. Len(loaded) :
                          follow[n] = loaded[j] /\ j + n <= Len(loaded)
<1>1. /\ Len(loaded) \in Nat /\ Len(loaded) <= N
      /\ N \in Nat /\ follow[0] = table
      /\ \A n \in 1 .. N : follow[n] = Following(follow[n - 1])
      /\ \A j \in 1 .. Len(loaded) : loaded[j] \in Modules /\ loaded[j] # Kernel
  BY LoadedIsShort, FollowUnfolds, ModulesAssumption DEF StackInv, ControlInv
<1>2. From(table, i) /\ \A j \in i + 1 .. Len(loaded) : From(saved[loaded[j]], i)
  BY DEF KeptInv
<1> HIDE DEF N
<1> SUFFICES ASSUME \A n \in 0 .. N : follow[n] # loaded[i] PROVE FALSE
  BY DEF InChain, N
<1>3. Beyond(0)
  <2>1. PICK j \in i .. Len(loaded) : loaded[j] = table
    BY <1>2 DEF From
  <2>2. j # i
    BY <1>1, <2>1
  <2>3. QED
    BY <1>1, <2>1, <2>2
<1>4. ASSUME NEW n \in 0 .. N - 1, Beyond(n) PROVE Beyond(n + 1)
  <2>1. PICK j \in i + 1 .. Len(loaded) : follow[n] = loaded[j] /\ j + n <= Len(loaded)
    BY <1>4
  <2>2. j \in 1 .. Len(loaded) /\ n + 1 \in 1 .. N /\ n + 1 \in 0 .. N /\ (n + 1) - 1 = n
    BY <1>1
  <2>3. follow[n + 1] = saved[loaded[j]]
    BY <1>1, <2>1, <2>2 DEF Following
  <2>4. PICK k \in i .. Len(loaded) : loaded[k] = saved[loaded[j]]
    BY <1>2, <2>1 DEF From
  <2>5. k # i
    BY <2>2, <2>3, <2>4
  <2>6. k < j
    <3>1. k \in 1 .. Len(loaded)
      BY <1>1
    <3>2. PICK l \in 1 .. Len(loaded) : l < j /\ loaded[l] = saved[loaded[j]]
      BY <1>1, <2>2, <2>4, <3>1 DEF StackInv, OrderInv
    <3>3. QED
      BY <2>4, <3>1, <3>2 DEF StackInv, LoadedInv
  <2>7. k \in i + 1 .. Len(loaded) /\ k + (n + 1) <= Len(loaded)
    <3>1. Len(loaded) \in Nat /\ N \in Nat /\ j + n <= Len(loaded)
      BY <1>1, <2>1
    <3>2. i \in Nat /\ j \in Nat /\ k \in Nat /\ n \in Nat /\ k + 1 <= j
      BY <2>6, <3>1
    <3>3. i + 1 <= k
      BY <2>5, <3>1, <3>2
    <3>4. QED
      BY <3>1, <3>2, <3>3
  <2>8. QED
    BY <2>3, <2>4, <2>7
<1>5. ~Beyond(N)
  BY <1>1
<1> DEFINE T == {n \in 0 .. N : ~Beyond(n)}
<1>6. PICK n \in T : \A k \in T : n <= k
  <2>1. T # {}
    BY <1>1, <1>5
  <2>2. T \in SUBSET Nat
    BY <1>1
  <2>3. QED
    BY <2>1, <2>2, LeastElement
<1>7. n \in 0 .. N /\ n # 0 /\ ~Beyond(n)
  BY <1>3, <1>6
<1>8. n - 1 \in 0 .. N - 1 /\ n - 1 \in 0 .. N /\ (n - 1) + 1 = n /\ ~(n <= n - 1)
  BY <1>1, <1>7
<1> HIDE DEF Beyond
<1>9. Beyond(n - 1)
  BY <1>6, <1>8
<1>10. Beyond((n - 1) + 1)
  BY <1>4, <1>8, <1>9
<1>11. QED
  BY <1>7, <1>8, <1>10

\* A scan drops the modules loaded after the scanner from the table for good,
\* but never one that was loaded before every scanner (on_access.c:154, 181, 187).
THEOREM OlderIsKept == Spec => []OlderKept
<1>1. StackInv /\ KeptInv => OlderKept
  <2> SUFFICES ASSUME StackInv, KeptInv, NEW m \in Modules,
                      phase[m] \in {"live", "stuck"}, m \notin Scanning,
                      \A s \in Scanning \ {m} : phase[s] = "absent" \/ Precedes(m, s)
               PROVE  InChain(m)
    BY DEF OlderKept
  <2>1. PICK i \in 1 .. Len(loaded) : loaded[i] = m
    BY DEF StackInv, LoadedInv
  <2>2. ASSUME NEW s \in Scanning, Precedes(m, s)
        PROVE  \E j \in i + 1 .. Len(loaded) : loaded[j] = s
    <3>1. PICK a, b \in 1 .. Len(loaded) : a < b /\ loaded[a] = m /\ loaded[b] = s
      BY <2>2 DEF Precedes
    <3>2. a = i /\ Len(loaded) \in Nat
      BY <2>1, <3>1 DEF StackInv, LoadedInv, ControlInv
    <3>3. QED
      BY <3>1, <3>2
  <2>3. Oldest(i)
    BY <2>1, <2>2 DEF Oldest
  <2>4. QED
    BY <2>1, <2>3, ChainReaches
<1>2. QED
  BY <1>1, OlderInvariance, PTL
=============================================================================
