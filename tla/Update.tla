------------------------------- MODULE Update -------------------------------
(***************************************************************************)
(* antv -update (src/main.c 80-131): the signature database and then the    *)
(* whitelist are truncated and written again with what curl receives.       *)
(* Nothing is looked at but the result of fopen.  Updaters may overlap, and *)
(* antv -scan may read the database at any time.                            *)
(*                                                                         *)
(* A file is a sequence of chunks <<version, index>>.  A chunk reaches the  *)
(* file when stdio flushes it, at the latest in fclose; a crash or a full   *)
(* disk that loses chunks in the buffer is a transfer that ends earlier.    *)
(***************************************************************************)
EXTENDS Naturals, Sequences

CONSTANTS
  Updaters,
  Readers,
  Size,     \* Size[v]: chunks of version v: "old", "new", "page" of an error
  MaxRuns   \* bound: how often one updater is started

Versions == {"old", "new", "page"}
Files == {"db", "wl"}

ASSUME SizeAssumption == Size \in [Versions -> Nat] /\ MaxRuns \in Nat

Whole(v) == [i \in 1 .. Size[v] |-> <<v, i>>]
Hole == <<"hole", 0>>

VARIABLES
  disk,     \* disk[f]: the content of file f
  pc,       \* pc[u]: where updater u is
  file,     \* file[u]: the file it is at
  sent,     \* sent[u]: the version that the server sends it
  pos,      \* pos[u]: the position of its stream
  runs,     \* runs[u]: how often it was started
  seen,     \* seen[r]: what the reader r has read in the current pass
  reading,  \* reading[r]: it is within a pass
  bad,      \* bad[f]: since f was last truncated, a write of f has not ended well
  overlap   \* overlap[r]: f was being written, or bad, at some time of r's pass
            \* (bad and overlap are history variables)

updaterVars == <<file, sent, pos, runs>>
readerVars == <<seen, reading>>
vars == <<disk, pc, updaterVars, readerVars, bad, overlap>>

Init ==
  /\ disk = [f \in Files |-> Whole("old")]
  /\ pc = [u \in Updaters |-> "idle"]
  /\ file = [u \in Updaters |-> "db"]
  /\ sent = [u \in Updaters |-> "new"]
  /\ pos = [u \in Updaters |-> 0]
  /\ runs = [u \in Updaters |-> 0]
  /\ seen = [r \in Readers |-> << >>]
  /\ reading = [r \in Readers |-> FALSE]
  /\ bad = [f \in Files |-> FALSE]
  /\ overlap = [r \in Readers |-> FALSE]

Writing(f) == \E u \in Updaters : pc[u] \in {"perform", "close"} /\ file[u] = f
Goto(u, label) == pc' = [pc EXCEPT ![u] = label]
\* Every step keeps the history of the readers up to date.
Watched ==
  overlap' = [r \in Readers |-> reading'[r] /\ (overlap[r] \/ Writing("db")' \/ bad'["db"])]
-----------------------------------------------------------------------------
Start(u) ==
  /\ pc[u] = "idle" /\ runs[u] < MaxRuns
  /\ runs' = [runs EXCEPT ![u] = @ + 1]
  /\ file' = [file EXCEPT ![u] = "db"]
  /\ Goto(u, "open")
  /\ UNCHANGED <<disk, sent, pos, readerVars, bad>>

\* Faulty variant: the file is opened with "r+b" and keeps what is not written.
FopenKeeps(u) ==
  /\ pc[u] = "open"
  /\ \E v \in {"new", "page"} : sent' = [sent EXCEPT ![u] = v]
  /\ bad' = [bad EXCEPT ![file[u]] = FALSE]
  /\ pos' = [pos EXCEPT ![u] = 0]
  /\ Goto(u, "perform")
  /\ UNCHANGED <<disk, file, runs, readerVars>>

\* pagefile = fopen(DATABASE, "wb") truncates; then curl asks the server.
Fopen(u) ==
  /\ pc[u] = "open"
  /\ disk' = [disk EXCEPT ![file[u]] = << >>]
  /\ bad' = [bad EXCEPT ![file[u]] = FALSE]
  /\ \E v \in {"new", "page"} : sent' = [sent EXCEPT ![u] = v]
  /\ pos' = [pos EXCEPT ![u] = 0]
  /\ Goto(u, "perform")
  /\ UNCHANGED <<file, runs, readerVars>>

\* fopen fails: the transfer is skipped, the message is printed all the same.
FopenFails(u) ==
  /\ pc[u] = "open"
  /\ Goto(u, "print")
  /\ UNCHANGED <<disk, updaterVars, readerVars, bad>>

\* The chunk c is written at position p; a gap before it reads as zeros.
Written(content, p, c) ==
  [i \in 1 .. (IF p < Len(content) THEN Len(content) ELSE p + 1) |->
     IF i = p + 1 THEN c ELSE IF i <= Len(content) THEN content[i] ELSE Hole]

\* Faulty variant: every write goes to the end of the file (fopen "ab").
ReceiveAppends(u) ==
  /\ pc[u] = "perform" /\ pos[u] < Size[sent[u]]
  /\ disk' = [disk EXCEPT ![file[u]] = Append(@, <<sent[u], pos[u] + 1>>)]
  /\ pos' = [pos EXCEPT ![u] = @ + 1]
  /\ UNCHANGED <<pc, file, sent, runs, readerVars, bad>>

\* write_data
Receive(u) ==
  /\ pc[u] = "perform" /\ pos[u] < Size[sent[u]]
  /\ disk' = [disk EXCEPT ![file[u]] = Written(@, pos[u], <<sent[u], pos[u] + 1>>)]
  /\ pos' = [pos EXCEPT ![u] = @ + 1]
  /\ UNCHANGED <<pc, file, sent, runs, readerVars, bad>>

\* curl_easy_perform returns, at the end of the body or earlier with an error
\* that nobody looks at.
PerformReturns(u) ==
  /\ pc[u] = "perform"
  /\ bad' = [bad EXCEPT ![file[u]] = @ \/ sent[u] # "new" \/ pos[u] < Size["new"]]
  /\ Goto(u, "close")
  /\ UNCHANGED <<disk, updaterVars, readerVars>>

Fclose(u) ==
  /\ pc[u] = "close"
  /\ Goto(u, "print")
  /\ UNCHANGED <<disk, updaterVars, readerVars, bad>>

\* printf("signature file updated..."), then the whitelist in the same way.
PrintUpdated(u) ==
  /\ pc[u] = "print"
  /\ \/ file[u] = "db" /\ file' = [file EXCEPT ![u] = "wl"] /\ Goto(u, "open")
     \/ file[u] = "wl" /\ UNCHANGED file /\ Goto(u, "idle")
  /\ UNCHANGED <<disk, sent, pos, runs, readerVars, bad>>

\* The process is killed or the machine stops.
Crash(u) ==
  /\ pc[u] # "idle"
  /\ bad' = [bad EXCEPT ![file[u]] = @ \/ pc[u] \in {"perform", "close"}]
  /\ Goto(u, "idle")
  /\ UNCHANGED <<disk, updaterVars, readerVars>>
-----------------------------------------------------------------------------
\* One pass of scan() over the database stream, from its rewound start.
ReadFirst(r) ==
  /\ ~reading[r]
  /\ reading' = [reading EXCEPT ![r] = TRUE]
  /\ seen' = [seen EXCEPT ![r] = << >>]
  /\ UNCHANGED <<disk, pc, updaterVars, bad>>

\* getline reads on, or meets the end of the file.
ReadOn(r) ==
  /\ reading[r] /\ Len(seen[r]) < Len(disk["db"])
  /\ seen' = [seen EXCEPT ![r] = Append(@, disk["db"][Len(@) + 1])]
  /\ UNCHANGED <<disk, pc, updaterVars, reading, bad>>

AtEnd(r) == reading[r] /\ Len(seen[r]) >= Len(disk["db"])
ReadEnd(r) ==
  /\ AtEnd(r)
  /\ reading' = [reading EXCEPT ![r] = FALSE]
  /\ UNCHANGED <<disk, pc, updaterVars, seen, bad>>

Updating(u) ==
  \/ Start(u) \/ Fopen(u) \/ FopenFails(u) \/ Receive(u) \/ PerformReturns(u)
  \/ Fclose(u) \/ PrintUpdated(u) \/ Crash(u)

Next ==
  /\ \/ \E u \in Updaters : Updating(u)
     \/ \E r \in Readers : ReadFirst(r) \/ ReadOn(r) \/ ReadEnd(r)
  /\ Watched

Spec == Init /\ [][Next]_vars
-----------------------------------------------------------------------------
Chunk == (Versions \union {"hole"}) \X Nat

TypeOK ==
  /\ disk \in [Files -> Seq(Chunk)]
  /\ pc \in [Updaters -> {"idle", "open", "perform", "close", "print"}]
  /\ file \in [Updaters -> Files]
  /\ sent \in [Updaters -> {"new", "page"}]
  /\ pos \in [Updaters -> Nat] /\ runs \in [Updaters -> 0 .. MaxRuns]
  /\ seen \in [Readers -> Seq(Chunk)] /\ reading \in [Readers -> BOOLEAN]
  /\ bad \in [Files -> BOOLEAN] /\ overlap \in [Readers -> BOOLEAN]

\* However updaters overlap, crash and are started again: a file that nobody
\* writes is the old one or the new one, whole, unless a write that ended
\* badly came after the last truncation (main.c:97-104, 117-124).
WholeUnlessBad ==
  \A f \in Files :
    ~Writing(f) /\ ~bad[f] => disk[f] \in {Whole("old"), Whole("new")}

\* A file in which old and new content are mixed is never seen: the old
\* content goes before the new one comes (main.c:97 opens with "wb").
NoMix ==
  \A f \in Files : \A i, j \in 1 .. Len(disk[f]) :
    disk[f][i][1] = "old" => disk[f][j][1] = "old"

\* A scan whose pass over the database overlaps no update and meets no file
\* that an update has spoilt sees every signature of one version
\* (main.c:171, scan.c:53, 148).
QuietPassIsWhole ==
  \A r \in Readers :
    AtEnd(r) /\ ~overlap[r] => seen[r] \in {Whole("old"), Whole("new")}

\* The parts of the inductive invariant.
Performing(u, f) == pc[u] = "perform" /\ file[u] = f

\* A file that is not spoilt is untouched, or a transfer that will spoil it is
\* under way, or each missing chunk is still to be written by some updater.
Untouched(f) == disk[f] = Whole("old") /\ \A u \in Updaters : ~Performing(u, f)
PageComes(f) == \E u \in Updaters : Performing(u, f) /\ sent[u] = "page"
Filling(f) ==
  /\ Len(disk[f]) <= Size["new"]
  /\ \A i \in 1 .. Size["new"] :
       \/ i <= Len(disk[f]) /\ disk[f][i] = <<"new", i>>
       \/ \E u \in Updaters : Performing(u, f) /\ pos[u] < i
Explained(f) == bad[f] \/ Untouched(f) \/ PageComes(f) \/ Filling(f)
FileInv == \A f \in Files : Explained(f)

OldGoneInv ==
  \A u \in Updaters : pc[u] = "perform" =>
    \A i \in 1 .. Len(disk[file[u]]) : disk[file[u]][i][1] # "old"

\* A quiet reader has read a prefix of a file that nobody writes.
PrefixInv ==
  \A r \in Readers : reading[r] /\ ~overlap[r] =>
    /\ ~Writing("db") /\ ~bad["db"]
    /\ Len(seen[r]) <= Len(disk["db"])
    /\ \A i \in 1 .. Len(seen[r]) : seen[r][i] = disk["db"][i]

\* Together they are preserved by every step (main.c:80-131).
UInv == TypeOK /\ FileInv /\ OldGoneInv /\ NoMix /\ PrefixInv

\* main.c:107 prints "signature file updated...", and the usage line main.c:37
\* says "update virus database and whitelist database.": at that moment the
\* database of a single updater is the new one.
UpdatedMeansNew ==
  \A u \in Updaters : pc[u] = "print" /\ file[u] = "db" => disk["db"] = Whole("new")
=============================================================================
