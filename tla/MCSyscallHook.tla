--------------------------- MODULE MCSyscallHook ---------------------------
(* Model checking of SyscallHook: the tasks are interchangeable. *)
EXTENDS SyscallHook, TLC

TaskSymmetry == Permutations(Users) \union Permutations(Helpers)
=============================================================================
