----------------------------- MODULE RemainFile -----------------------------
(***************************************************************************)
(* remainFile: records that could not be delivered are spilled to files    *)
(* and read back later. Several gateway processes write to and read from   *)
(* one shared directory, and each has a directory of its own to fall back  *)
(* on. One fragFolder and one bitFlag: WriteFileMgr keeps the others apart. *)
(* A file is written as .tmp, published by a rename to .ok, claimed by a   *)
(* reader's rename to .bak, and removed when read (.err: could not be).    *)
(***************************************************************************)
EXTENDS Naturals, FiniteSets

CONSTANTS
  Gates, Writers,       \* gateway processes, threads of each that write
  Recs, NoRec,          \* the records, each written once
  MaxCount,             \* maxCount_
  MaxFiles,             \* bound on the files made
  Events, MaxEvents     \* of "fail" (of a file operation), "crash" (of a process), "down"
                        \* (the share is lost) and "exit" (remainMgrExit is called), those
                        \* that happen, and how often in all

ASSUME RemainAssumption ==
  /\ NoRec \notin Recs /\ IsFiniteSet(Recs) /\ IsFiniteSet(Gates)
  /\ MaxCount \in Nat \ {0}
  /\ Events \subseteq {"fail", "crash", "down", "exit"}
  /\ {MaxFiles, MaxEvents} \subseteq Nat

Sides == {"share", "local"}
Ids == 1 .. MaxFiles

VARIABLES
  online, root,         \* per gate: is the share mounted; if not, does its path exist
  up, isExit, exitPc,   \* per gate: the process, isExit_, remainMgrExit
  mgr,                  \* per gate and side: shareReFile, localReFile
  files, made,          \* the file system, and how many files were made
  pc, side, cur,        \* per writer: where, on which side, with which record
  rpc, tried, rfile,    \* per gate: readRemainFile, the files it could not read, the file
  rdata,                \*   claimed, the records read
  acked, delivered,     \* records whose write returned 0; records given to a caller
  asked, dead,          \* records given to a write; those that died with a reader
  faults, exits, undefined

shareVars == <<online, root>>
procVars == <<up, isExit, exitPc, exits, undefined>>
fileVars == <<mgr, files, made, faults>>
writeVars == <<pc, side, cur, asked, acked>>
readVars == <<rpc, tried, rfile, rdata, delivered, dead>>
vars == <<shareVars, procVars, fileVars, writeVars, readVars>>

\* A manager that does not exist, and one that has just been made
NoMgr == [is |-> FALSE, file |-> 0, count |-> 0, dangling |-> FALSE]
NewMgr == [NoMgr EXCEPT !.is = TRUE]
NoFile == [ext |-> "none", dir |-> <<"none", "none">>, recs |-> {}, torn |-> FALSE, count |-> 0]

Init ==
  /\ online = [g \in Gates |-> TRUE] /\ root = [g \in Gates |-> FALSE]
  /\ up = [g \in Gates |-> TRUE] /\ isExit = [g \in Gates |-> FALSE]
  /\ exitPc = [g \in Gates |-> "none"]
  /\ mgr = [g \in Gates |-> [s \in Sides |-> NoMgr]]
  /\ files = [f \in Ids |-> NoFile] /\ made = 0
  /\ pc = [g \in Gates |-> [w \in Writers |-> "idle"]]
  /\ side = [g \in Gates |-> [w \in Writers |-> "share"]]
  /\ cur = [g \in Gates |-> [w \in Writers |-> NoRec]]
  /\ rpc = [g \in Gates |-> "idle"] /\ tried = [g \in Gates |-> {}]
  /\ rfile = [g \in Gates |-> 0] /\ rdata = [g \in Gates |-> {}]
  /\ acked = {} /\ delivered = [r \in Recs |-> 0] /\ asked = {} /\ dead = {}
  /\ faults = 0 /\ exits = 0 /\ undefined = FALSE

-----------------------------------------------------------------------------
(* The directory that the path of a side names on gate g. When the share is *)
(* not mounted its path lies below the mount point, on the gate's own disk. *)
Where(g, s) == IF s = "local" THEN <<"local", g>>
               ELSE IF online[g] THEN <<"share", "all">> ELSE <<"below", g>>

\* accessPath(rootPath_)
RootThere(g, s) == s = "local" \/ online[g] \/ root[g]

\* Where a call has got to: the manager, the files, how many were made, how many
\* operations failed in it, and whether it is still going well
Outcome(m, fs, n, fl, ok) == [m |-> m, fs |-> fs, n |-> n, fl |-> fl, ok |-> ok]
Here(g, s) == Outcome(mgr[g][s], files, made, 0, TRUE)

\* The file of o under its final name
Published(o) == [o.fs EXCEPT ![o.m.file].ext = "ok", ![o.m.file].count = o.m.count]

\* CloseCurFile. On the share it gives up, with the file still open, when the
\* root is gone or fflush fails; a FILE whose fclose failed stays in pFile_.
CloseCurFile(g, s, o) ==
  LET gaveUp == [o EXCEPT !.ok = FALSE]
      shut == [o EXCEPT !.m = NewMgr]
  IN IF o.m.file = 0 THEN {o}
     ELSE IF ~RootThere(g, s) THEN {gaveUp}
     ELSE {q \in {[gaveUp EXCEPT !.fl = @ + 1], [gaveUp EXCEPT !.fl = @ + 1, !.m.dangling = TRUE]} :
             s = "share"}
          \cup {[shut EXCEPT !.ok = FALSE, !.fl = @ + 1]}
          \cup {IF o.fs[o.m.file].dir = Where(g, s) THEN [shut EXCEPT !.fs = Published(o)]
                ELSE [shut EXCEPT !.ok = FALSE]}

\* switchToNewFile: the old file closed, mkdirs and fopen of a new one
SwitchToNewFile(g, s, o) ==
  LET closed == CloseCurFile(g, s, o)
      going == {c \in closed : c.ok}
  IN (closed \ going)
     \cup {[c EXCEPT !.ok = FALSE, !.fl = @ + 1] : c \in going}
     \cup {[c EXCEPT !.m = [NewMgr EXCEPT !.file = c.n + 1], !.n = @ + 1,
                     !.fs[c.n + 1] = [NoFile EXCEPT !.ext = "tmp", !.dir = Where(g, s)]] :
            c \in {q \in going : q.n < MaxFiles}}

\* n faults of this kind happen now
Faulty(kind, n) ==
  /\ n > 0 => kind \in Events
  /\ faults + exits + n <= MaxEvents
  /\ faults' = faults + n

\* The outcome o is what happened.
Happens(g, s, o) ==
  /\ Faulty("fail", o.fl)
  /\ mgr' = [mgr EXCEPT ![g][s] = o.m]
  /\ files' = o.fs
  /\ made' = o.n
  /\ root' = [root EXCEPT ![g] = @ \/ (o.n > made /\ s = "share" /\ ~online[g])]
  /\ UNCHANGED online

\* The process is gone: memory is lost, the files stay.
Dies(g) ==
  /\ up' = [up EXCEPT ![g] = FALSE]
  /\ mgr' = [mgr EXCEPT ![g] = [s \in Sides |-> NoMgr]]
  /\ pc' = [pc EXCEPT ![g] = [w \in Writers |-> "idle"]]
  /\ side' = [side EXCEPT ![g] = [w \in Writers |-> "share"]]
  /\ cur' = [cur EXCEPT ![g] = [w \in Writers |-> NoRec]]
  /\ exitPc' = [exitPc EXCEPT ![g] = "none"]
  /\ isExit' = [isExit EXCEPT ![g] = FALSE]
  /\ dead' = dead \cup rdata[g]
  /\ rpc' = [rpc EXCEPT ![g] = "idle"]
  /\ tried' = [tried EXCEPT ![g] = {}]
  /\ rfile' = [rfile EXCEPT ![g] = 0]
  /\ rdata' = [rdata EXCEPT ![g] = {}]
  /\ UNCHANGED <<shareVars, files, made, asked, acked, delivered, exits>>

-----------------------------------------------------------------------------
(* writeRemainFile: the exit flag is looked at under mapMutex_, then         *)
(* WriteFileMgr::writeToFile tries the share and after a failure the local   *)
(* directory, on each side with a manager made when it is first needed.      *)
Call(g, w, r) ==
  /\ up[g] /\ ~isExit[g] /\ pc[g][w] = "idle" /\ r \notin asked
  /\ asked' = asked \cup {r}
  /\ cur' = [cur EXCEPT ![g][w] = r]
  /\ side' = [side EXCEPT ![g][w] = "share"]
  /\ pc' = [pc EXCEPT ![g][w] = "look"]
  /\ UNCHANGED <<shareVars, procVars, fileVars, acked, readVars>>

\* if(shareReFile == nullptr), without a lock
Look(g, w) ==
  /\ pc[g][w] = "look"
  /\ pc' = [pc EXCEPT ![g][w] = IF mgr[g][side[g][w]].is THEN "in" ELSE "new"]
  /\ UNCHANGED <<shareVars, procVars, fileVars, side, cur, asked, acked, readVars>>

Inside(g, s) == {w \in Writers : pc[g][w] = "in" /\ side[g][w] = s}

\* The destructor: exitClose, which closes the file whatever comes of it
Destroyed(g, s) == {[o EXCEPT !.m = NoMgr] : o \in CloseCurFile(g, s, Here(g, s))}

\* shareReFile.reset(new ...): another thread may have made one meanwhile,
\* which is deleted
Make(g, w) ==
  LET s == side[g][w] IN
  /\ pc[g][w] = "new" /\ Inside(g, s) = {} /\ ~mgr[g][s].dangling
  /\ \E o \in Destroyed(g, s) : Happens(g, s, [o EXCEPT !.m = NewMgr])
  /\ pc' = [pc EXCEPT ![g][w] = "in"]
  /\ UNCHANGED <<procVars, side, cur, asked, acked, readVars>>

NeedsFile(g, s) == mgr[g][s].file = 0 \/ mgr[g][s].count >= MaxCount

\* The file that writeToFile goes on with: pFile_, or a new one
Target(g, s) ==
  IF NeedsFile(g, s) THEN SwitchToNewFile(g, s, Here(g, s))
  ELSE {[Here(g, s) EXCEPT !.ok = RootThere(g, s)]}

\* The next side, or the end of the call
Failed(g, w) ==
  /\ side' = [side EXCEPT ![g][w] = "local"]
  /\ pc' = [pc EXCEPT ![g][w] = IF side[g][w] = "share" THEN "look" ELSE "failed"]

Usable(g, w) ==
  /\ pc[g][w] = "in"
  /\ mgr[g][side[g][w]].is /\ ~mgr[g][side[g][w]].dangling

\* No file, or fwrite comes short three times: the file may keep a part of the
\* record. (A write to the share fails when it is not mounted any more.)
WriteFails(g, w) ==
  LET s == side[g][w] IN
  /\ Usable(g, w)
  /\ \E o \in Target(g, s) :
       \/ ~o.ok /\ Happens(g, s, o)
       \/ /\ o.ok
          /\ \E torn \in BOOLEAN : Happens(g, s, [o EXCEPT !.fs[o.m.file].torn = @ \/ torn, !.fl = @ + 1])
       \/ o.ok /\ o.fs[o.m.file].dir # Where(g, s) /\ Happens(g, s, o)
  /\ Failed(g, w)
  /\ UNCHANGED <<procVars, cur, asked, acked, readVars>>

\* fflush fails: the file is closed and a new one opened, which pFile_ forgets
\* at once. glibc drops the record from the buffer; a part may be written.
FlushFails(g, w) ==
  LET s == side[g][w] IN
  /\ Usable(g, w)
  /\ \E t \in {o \in Target(g, s) : o.ok}, torn \in BOOLEAN :
       \E o \in SwitchToNewFile(g, s, [t EXCEPT !.fs[t.m.file].torn = @ \/ torn, !.fl = @ + 1]) :
         Happens(g, s, IF o.ok THEN [o EXCEPT !.m = NewMgr] ELSE o)
  /\ Failed(g, w)
  /\ UNCHANGED <<procVars, cur, asked, acked, readVars>>

\* fwrite and fflush succeed
WriteDone(g, w) ==
  LET s == side[g][w] IN
  /\ Usable(g, w)
  /\ \E o \in Target(g, s) :
       /\ o.ok /\ o.fs[o.m.file].dir = Where(g, s)
       /\ Happens(g, s, [o EXCEPT !.fs[o.m.file].recs = @ \cup {cur[g][w]}, !.m.count = @ + 1])
  /\ pc' = [pc EXCEPT ![g][w] = "done"]
  /\ UNCHANGED <<procVars, side, cur, asked, acked, readVars>>

\* The call returns. If remainMgrExit has emptied the map this was the last
\* reference to the WriteFileMgr, and its destructor runs first.
LastRef(g, w) == exitPc[g] = "done" /\ \A v \in Writers \ {w} : pc[g][v] = "idle"

Drop(g, w, s) ==
  /\ pc[g][w] \in {"done", "failed"} /\ LastRef(g, w)
  /\ mgr[g][s].is /\ ~mgr[g][s].dangling
  /\ \E o \in Destroyed(g, s) : Happens(g, s, o)
  /\ UNCHANGED <<procVars, writeVars, readVars>>

Return(g, w) ==
  /\ pc[g][w] \in {"done", "failed"}
  /\ LastRef(g, w) => \A s \in Sides : ~mgr[g][s].is
  /\ acked' = IF pc[g][w] = "done" THEN acked \cup {cur[g][w]} ELSE acked
  /\ pc' = [pc EXCEPT ![g][w] = "idle"]
  /\ cur' = [cur EXCEPT ![g][w] = NoRec]
  /\ side' = [side EXCEPT ![g][w] = "share"]
  /\ UNCHANGED <<shareVars, procVars, fileVars, asked, readVars>>

-----------------------------------------------------------------------------
\* Mutation: a file that has been open too long is not noticed.
CheckNever(g, s) == FALSE /\ UNCHANGED vars

\* everySecondCheck finds a file that has been open too long (time passes
\* freely); the result of CloseCurFile is ignored
Check(g, s) ==
  /\ up[g] /\ ~isExit[g] /\ mgr[g][s].file # 0 /\ ~mgr[g][s].dangling
  /\ \E o \in CloseCurFile(g, s, Here(g, s)) : Happens(g, s, o)
  /\ UNCHANGED <<procVars, writeVars, readVars>>

\* remainMgrExit: the flag, then one side after the other is deleted (exitClose),
ExitCall(g) ==
  /\ up[g] /\ ~isExit[g] /\ "exit" \in Events /\ faults + exits < MaxEvents
  /\ exits' = exits + 1
  /\ isExit' = [isExit EXCEPT ![g] = TRUE]
  /\ exitPc' = [exitPc EXCEPT ![g] = "share"]
  /\ UNCHANGED <<shareVars, up, undefined, fileVars, writeVars, readVars>>

ExitClose(g, s) ==
  /\ exitPc[g] = s /\ Inside(g, s) = {} /\ ~mgr[g][s].dangling
  /\ \E o \in Destroyed(g, s) : Happens(g, s, o)
  /\ exitPc' = [exitPc EXCEPT ![g] = IF s = "share" THEN "local" ELSE "swap"]
  /\ UNCHANGED <<up, isExit, exits, undefined, writeVars, readVars>>

\* The calls that hold a WriteFileMgrPtr of their own
InCall(g) == {w \in Writers : pc[g][w] # "idle"}

\* then the map is emptied. If no call holds the WriteFileMgr its destructor runs
\* exitClose again, for what a call has made since;
ExitDrop(g, s) ==
  /\ exitPc[g] = "swap" /\ InCall(g) = {} /\ mgr[g][s].is /\ ~mgr[g][s].dangling
  /\ \E o \in Destroyed(g, s) : Happens(g, s, o)
  /\ UNCHANGED <<procVars, writeVars, readVars>>

\* Mutation: the map is emptied of plain pointers, and no destructor runs.
ExitSwapForgets(g) ==
  /\ exitPc[g] = "swap"
  /\ exitPc' = [exitPc EXCEPT ![g] = "done"]
  /\ UNCHANGED <<shareVars, up, isExit, exits, undefined, fileVars, writeVars, readVars>>

\* otherwise the last of these calls will (Drop).
ExitSwap(g) ==
  /\ exitPc[g] = "swap" /\ (InCall(g) # {} \/ \A s \in Sides : ~mgr[g][s].is)
  /\ exitPc' = [exitPc EXCEPT ![g] = "done"]
  /\ UNCHANGED <<shareVars, up, isExit, exits, undefined, fileVars, writeVars, readVars>>

\* A thread makes a manager, or remainMgrExit deletes it, while another is inside;
\* a thread is inside one that was deleted; the FILE that fclose could not close is
\* used again
Misuse(g) ==
  \/ \E w \in Writers : pc[g][w] = "new" /\ Inside(g, side[g][w]) # {}
  \/ \E s \in Sides : exitPc[g] = s /\ Inside(g, s) # {}
  \/ \E s \in Sides : Inside(g, s) # {} /\ ~mgr[g][s].is
  \/ \E s \in Sides : mgr[g][s].dangling

\* The process does not survive it.
UndefinedUse(g) ==
  /\ up[g] /\ Misuse(g)
  /\ Dies(g)
  /\ undefined' = TRUE
  /\ UNCHANGED faults

-----------------------------------------------------------------------------
(* readRemainFile: the local directory, then the share. A file published     *)
(* while a directory is being scanned is found by the scan.                  *)
OkFiles(d) == {f \in Ids : files[f].ext = "ok" /\ files[f].dir = d}

ReadCall(g) ==
  /\ up[g] /\ ~isExit[g] /\ rpc[g] = "idle"
  /\ rpc' = [rpc EXCEPT ![g] = "local"]
  /\ UNCHANGED <<shareVars, procVars, fileVars, writeVars, tried, rfile, rdata, delivered, dead>>

\* Mutation: what another gateway has claimed is taken too.
ClaimTaken(g, f) ==
  /\ rpc[g] \in Sides /\ rfile[g] = 0
  /\ files[f].ext \in {"ok", "bak"} /\ files[f].dir = Where(g, rpc[g])
  /\ files' = [files EXCEPT ![f].ext = "bak"]
  /\ rfile' = [rfile EXCEPT ![g] = f]
  /\ UNCHANGED <<shareVars, procVars, mgr, made, faults, writeVars, rpc, tried, rdata, delivered, dead>>

\* rename of .ok to .bak; a gateway that comes too late goes on with the next name
Claim(g, f) ==
  /\ rpc[g] \in Sides /\ rfile[g] = 0
  /\ f \in OkFiles(Where(g, rpc[g])) \ tried[g]
  /\ files' = [files EXCEPT ![f].ext = "bak"]
  /\ rfile' = [rfile EXCEPT ![g] = f]
  /\ UNCHANGED <<shareVars, procVars, mgr, made, faults, writeVars, rpc, tried, rdata, delivered, dead>>

Empty(f) == files[f].recs = {} /\ ~files[f].torn

\* The whole file is read and removed (the removal may fail)
ReadFile(g) ==
  LET f == rfile[g] IN
  /\ f # 0 /\ ~Empty(f) /\ files[f].dir = Where(g, rpc[g])
  /\ rdata' = [rdata EXCEPT ![g] = files[f].recs]
  /\ \/ files' = [files EXCEPT ![f] = [NoFile EXCEPT !.ext = "gone"]] /\ UNCHANGED faults
     \/ Faulty("fail", 1) /\ UNCHANGED files
  /\ rfile' = [rfile EXCEPT ![g] = 0]
  /\ tried' = [tried EXCEPT ![g] = {}]
  /\ rpc' = [rpc EXCEPT ![g] = "return"]
  /\ UNCHANGED <<shareVars, procVars, mgr, made, writeVars, delivered, dead>>

\* Mutation: a file that cannot be read is removed.
ReadFailsRemoves(g) ==
  LET f == rfile[g] IN
  /\ f # 0 /\ Faulty("fail", 1)
  /\ files' = [files EXCEPT ![f] = [NoFile EXCEPT !.ext = "gone"]]
  /\ rfile' = [rfile EXCEPT ![g] = 0]
  /\ UNCHANGED <<shareVars, procVars, mgr, made, writeVars, rpc, tried, rdata, delivered, dead>>

\* An empty file, or one whose length or content cannot be read, becomes .err;
\* one that cannot be opened becomes .ok again; if that rename fails, it stays
\* .bak. The scan goes on.
ReadFails(g) ==
  LET f == rfile[g]
      there == files[f].dir = Where(g, rpc[g])
  IN
  /\ f # 0
  /\ \E ext \in {"err", "ok", "bak"}, n \in 0 .. 1 :
       /\ ext # "bak" => there
       /\ n = 0 => IF there THEN Empty(f) /\ ext = "err" ELSE ext = "bak"
       /\ Faulty("fail", n)
       /\ files' = [files EXCEPT ![f].ext = ext]
  /\ rfile' = [rfile EXCEPT ![g] = 0]
  /\ tried' = [tried EXCEPT ![g] = @ \cup {f}]
  /\ UNCHANGED <<shareVars, procVars, mgr, made, writeVars, rpc, rdata, delivered, dead>>

\* Nothing (more) in this directory
ScanEnd(g) ==
  /\ rpc[g] \in Sides /\ rfile[g] = 0 /\ OkFiles(Where(g, rpc[g])) \subseteq tried[g]
  /\ rpc' = [rpc EXCEPT ![g] = IF @ = "local" /\ RootThere(g, "share") THEN "share" ELSE "idle"]
  /\ tried' = [tried EXCEPT ![g] = {}]
  /\ UNCHANGED <<shareVars, procVars, fileVars, writeVars, rfile, rdata, delivered, dead>>

\* The caller has the records
ReadReturn(g) ==
  /\ rpc[g] = "return"
  /\ delivered' = [r \in Recs |-> delivered[r] + IF r \in rdata[g] THEN 1 ELSE 0]
  /\ rdata' = [rdata EXCEPT ![g] = {}]
  /\ rpc' = [rpc EXCEPT ![g] = "idle"]
  /\ UNCHANGED <<shareVars, procVars, fileVars, writeVars, tried, rfile, dead>>

-----------------------------------------------------------------------------
(* What happens to a gateway.                                                *)
Crash(g) ==
  /\ up[g] /\ Faulty("crash", 1)
  /\ Dies(g)
  /\ UNCHANGED undefined

\* remainMgrInit of the next process
Restart(g) ==
  /\ ~up[g]
  /\ up' = [up EXCEPT ![g] = TRUE]
  /\ UNCHANGED <<shareVars, isExit, exitPc, exits, undefined, fileVars, writeVars, readVars>>

ShareDown(g) ==
  /\ online[g] /\ Faulty("down", 1)
  /\ online' = [online EXCEPT ![g] = FALSE]
  /\ UNCHANGED <<root, procVars, mgr, files, made, writeVars, readVars>>

ShareUp(g) ==
  /\ ~online[g]
  /\ online' = [online EXCEPT ![g] = TRUE]
  /\ UNCHANGED <<root, procVars, fileVars, writeVars, readVars>>

WriterStep(g, w) ==
  \/ Look(g, w) \/ Make(g, w)
  \/ WriteDone(g, w) \/ WriteFails(g, w) \/ FlushFails(g, w)
  \/ (\E s \in Sides : Drop(g, w, s)) \/ Return(g, w)

ReaderStep(g) ==
  \/ ReadCall(g) \/ (\E f \in Ids : Claim(g, f))
  \/ ReadFile(g) \/ ReadFails(g) \/ ScanEnd(g) \/ ReadReturn(g)

Next ==
  \E g \in Gates :
    \/ \E w \in Writers : WriterStep(g, w) \/ \E r \in Recs : Call(g, w, r)
    \/ \E s \in Sides : Check(g, s) \/ ExitClose(g, s) \/ ExitDrop(g, s)
    \/ ReaderStep(g) \/ ExitCall(g) \/ ExitSwap(g) \/ UndefinedUse(g)
    \/ Crash(g) \/ Restart(g) \/ ShareDown(g) \/ ShareUp(g)

Spec == Init /\ [][Next]_vars

\* The application calls everySecondCheck every second and keeps calling
\* readRemainFile, which returns.
Fairness ==
  \A g \in Gates : WF_vars(ReaderStep(g)) /\ \A s \in Sides : WF_vars(Check(g, s))

FairSpec == Spec /\ Fairness

-----------------------------------------------------------------------------
(* Properties.                                                               *)

\* Every variable has its type; no file gets more than maxCount_ records.
TypeOK ==
  /\ online \in [Gates -> BOOLEAN] /\ root \in [Gates -> BOOLEAN]
  /\ up \in [Gates -> BOOLEAN] /\ isExit \in [Gates -> BOOLEAN]
  /\ exitPc \in [Gates -> {"none", "swap", "done"} \cup Sides]
  /\ mgr \in [Gates -> [Sides -> [is : BOOLEAN, file : Ids \cup {0}, count : 0 .. MaxCount,
                                 dangling : BOOLEAN]]]
  /\ \A f \in Ids : /\ files[f].ext \in {"none", "tmp", "ok", "bak", "err", "gone"}
                    /\ files[f].recs \subseteq Recs
                    /\ files[f].torn \in BOOLEAN /\ files[f].count \in 0 .. MaxCount
  /\ made \in 0 .. MaxFiles
  /\ pc \in [Gates -> [Writers -> {"idle", "look", "new", "in", "done", "failed"}]]
  /\ side \in [Gates -> [Writers -> Sides]] /\ cur \in [Gates -> [Writers -> Recs \cup {NoRec}]]
  /\ rpc \in [Gates -> {"idle", "return"} \cup Sides] /\ tried \in [Gates -> SUBSET Ids]
  /\ rfile \in [Gates -> Ids \cup {0}] /\ rdata \in [Gates -> SUBSET Recs]
  /\ {acked, asked, dead} \subseteq SUBSET Recs /\ delivered \in [Recs -> Nat]
  /\ {faults, exits} \subseteq Nat /\ undefined \in BOOLEAN

\* Where record r is, of the places from which it can still be delivered: files
\* not yet claimed, and readers
Copies(r) ==
  {<<f, "file">> : f \in {i \in Ids : files[i].ext \in {"tmp", "ok"} /\ r \in files[i].recs}}
  \cup {<<g, "reads">> : g \in {h \in Gates : rfile[h] # 0 /\ r \in files[rfile[h]].recs}}
  \cup {<<g, "has">> : g \in {h \in Gates : r \in rdata[h]}}

\* A record never is in two files, with two gateways, or delivered and still to
\* be delivered: the fall-back from the share to the local directory does not
\* write it twice, and of two gateways that see the same file one gets it.
OneCopy == \A r \in Recs : Cardinality(Copies(r)) + delivered[r] <= 1

\* A record whose write returned 0 is in a file, or with a reader or delivered;
\* it can be lost in one way, the death of a process between the removal of the
\* file and the return of readRemainFile.
AckedIsKept ==
  \A r \in acked \ dead :
    \/ \E f \in Ids : files[f].ext # "gone" /\ r \in files[f].recs
    \/ \E g \in Gates : r \in rdata[g]
    \/ delivered[r] > 0

\* Nothing has failed: no file operation, no process, no mount; and no manager was
\* used after it was deleted
Calm == faults = 0 /\ ~undefined

\* A manager of g will be closed: by the check of a later second, by an exit that
\* is not over, or by the last call that holds the WriteFileMgr
WillClose(g) == exitPc[g] # "done" \/ InCall(g) # {}

\* r is in the file of a manager that will publish it, or published where readers
\* look, or read.
InReach(r) ==
  \/ \E g \in Gates, s \in Sides :
       mgr[g][s].file # 0 /\ r \in files[mgr[g][s].file].recs /\ WillClose(g)
  \/ \E f \in Ids : files[f].ext = "ok" /\ r \in files[f].recs
  \/ \E g \in Gates : rfile[g] # 0 /\ r \in files[rfile[g]].recs
  \/ \E g \in Gates : r \in rdata[g]
  \/ delivered[r] > 0

\* As long as nothing fails no record whose write returned 0 is stranded, also
\* by an exit that comes between the steps of a write. (Of the cases in which
\* that exit deletes a manager under the call, ~undefined leaves out those the
\* process does not survive: ExitStrandsNothing.)
NothingStranded == Calm => \A r \in acked : InReach(r)

\* As long as nothing fails and nobody exits, what was written is delivered.
Delivered ==
  \A r \in Recs : r \in acked
    ~> (delivered[r] > 0 \/ ~Calm \/ exits > 0)

\* What WriteFileMgr.h says of the share: when it is not mounted its root is
\* missing, which writeToFile notices, so that nothing is written below the
\* mount point. (Not met: with no file open, mkdirs makes the root.)
ShareGoneIsNoticed == \A f \in Ids : files[f].dir[1] # "below"

\* No thread uses a manager that was deleted or a FILE that was closed. (Not met:
\* the managers are made and deleted without a lock.)
NoUseAfterFree == ~undefined

\* remainMgrExit at any time strands nothing. (Not met: it deletes a manager that
\* a call is about to use, and what an earlier call wrote stays in a .tmp file
\* when the process dies of it.)
ExitStrandsNothing == faults = 0 => \A r \in acked : InReach(r)
=============================================================================
