------------------------------ MODULE Detector ------------------------------
(***************************************************************************)
(* What scan() promises its caller: one answer per call, SUCCESS with the  *)
(* verdict of the whole database on the whole file, or FAIL.               *)
(***************************************************************************)
EXTENDS Signatures

CONSTANT Files  \* the files a caller may hand to scan()

VARIABLES
  lines,    \* the signature database, a sequence of [name, sig]
  subject,  \* the file of the current call
  busy,     \* a call is under way
  answer,   \* what the last call returned
  verdict   \* the last SUCCESS call found a signature

detectorVars == <<lines, subject, busy, answer, verdict>>

Infected(file) == \E l \in 1 .. Len(lines) : Matches(file, lines[l].sig)

Call(f) ==
  /\ ~busy
  /\ busy' = TRUE
  /\ subject' = f
  /\ verdict' = FALSE
  /\ UNCHANGED <<lines, answer>>

Answer ==
  /\ busy
  /\ busy' = FALSE
  /\ answer' = "SUCCESS"
  /\ verdict' = Infected(subject)
  /\ UNCHANGED <<lines, subject>>

Refuse ==
  /\ busy
  /\ busy' = FALSE
  /\ answer' = "FAIL"
  /\ UNCHANGED <<lines, subject, verdict>>

DetectorInit ==
  /\ ~busy
  /\ answer = "none"
  /\ verdict = FALSE

DetectorNext == (\E f \in Files : Call(f)) \/ Answer \/ Refuse

DetectorSpec == DetectorInit /\ [][DetectorNext]_detectorVars
=============================================================================
