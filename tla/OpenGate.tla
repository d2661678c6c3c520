------------------------------ MODULE OpenGate ------------------------------
(***************************************************************************)
(* What the on-access hook (on_access/on_access.c) promises until it is     *)
(* unloaded, without table, pointers and mutex: once the gate is on, a file *)
(* is opened only after its own scan, or unscanned while another scan is    *)
(* under way; an open is refused only while another one is scanned; and     *)
(* scans follow one another.  After the first unload nothing is promised.   *)
(***************************************************************************)
CONSTANTS
  Tasks,  \* whoever opens files
  Users   \* those that are not part of the scanner

VARIABLES
  gate,   \* off before the module is loaded, on, or void after an unload
  stage   \* stage[t]: how far t's open(2) is

gateVars == <<gate, stage>>

Stages == {"idle", "asked", "scanning", "cleared", "passing"}
Move(t, from, to) == stage[t] = from /\ stage' = [stage EXCEPT ![t] = to] /\ UNCHANGED gate
BusyWith(u) == stage[u] = "scanning"

GateInit == gate = "off" /\ stage = [t \in Tasks |-> "idle"]

Load == gate = "off" /\ gate' = "on" /\ UNCHANGED stage
Unload == gate = "on" /\ gate' = "void" /\ UNCHANGED stage

\* An open goes unscanned when there is no gate, or past a gate that is busy.
Bypass(t) ==
  /\ \/ gate = "off"
     \/ gate = "on" /\ \E u \in Tasks \ {t} : BusyWith(u)
  /\ Move(t, "idle", "passing")

Ask(t) == gate = "on" /\ t \in Users /\ Move(t, "idle", "asked")

Refuse(t) ==
  /\ gate = "on" /\ \E u \in Tasks \ {t} : BusyWith(u)
  /\ Move(t, "asked", "idle")

Scan(t) ==
  /\ gate = "on" /\ \A u \in Tasks : ~BusyWith(u)
  /\ Move(t, "asked", "scanning")

Clear(t) == gate = "on" /\ Move(t, "scanning", "cleared")
Pass(t) == gate = "on" /\ Move(t, "cleared", "passing")
Finish(t) == gate # "void" /\ Move(t, "passing", "idle")

Void == gate = "void" /\ gate' = "void" /\ stage' \in [Tasks -> Stages]

GateNext ==
  \/ Load \/ Unload \/ Void
  \/ \E t \in Tasks :
       \/ Bypass(t) \/ Ask(t) \/ Refuse(t) \/ Scan(t) \/ Clear(t) \/ Pass(t)
       \/ Finish(t)

GateSpec == GateInit /\ [][GateNext]_gateVars
=============================================================================
