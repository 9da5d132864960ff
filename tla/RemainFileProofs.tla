--------------------------- MODULE RemainFileProofs ---------------------------
(***************************************************************************)
(* Proofs about RemainFile, for any number of gateways, writers, records,  *)
(* files and failures. IInv is inductive by itself: an open .tmp file has  *)
(* one manager and a claimed .bak file one reader, a record is in one file *)
(* at most and is written by one call that has put it nowhere yet. CalmInv *)
(* is inductive together with it: as long as nothing has failed files lie  *)
(* where their managers and readers look for them, and every record that   *)
(* has been written is in one that is open, published or claimed. GoneInv  *)
(* says that an exit leaves no manager behind that nobody will delete.     *)
(***************************************************************************)
EXTENDS RemainFile, FiniteSetTheorems, TLAPS

\* The types of managers, files and outcomes
Mgr == {m \in [is : BOOLEAN, file : Ids \cup {0}, count : 0 .. MaxCount, dangling : BOOLEAN] :
          m.is \/ m.file = 0}
Exts == {"none", "tmp", "ok", "bak", "err", "gone"}
Dirs == {"share", "local", "below", "none"} \X (Gates \cup {"all", "none"})
File == [ext : Exts, dir : Dirs, recs : SUBSET Recs, torn : BOOLEAN, count : 0 .. MaxCount]
Out == [m : Mgr, fs : [Ids -> File], n : 0 .. MaxFiles, fl : Nat, ok : BOOLEAN]

\* What an operation of the manager of g on side s may have done so far: it has
\* put no record anywhere, it may have published the file it had open, and the
\* file it has open now is that one or a new one, and not published.
Good(g, s, o) ==
  /\ o \in Out /\ made <= o.n
  /\ \A f \in Ids : o.fs[f].recs = files[f].recs
  /\ \A f \in Ids : f <= made =>
       o.fs[f].ext = files[f].ext \/ (f = mgr[g][s].file /\ o.fs[f].ext = "ok")
  /\ \A f \in Ids : f <= made => o.fs[f].dir = files[f].dir
  /\ \A f \in Ids : f > o.n => o.fs[f] = NoFile
  /\ o.m.file # 0 =>
       /\ o.m.file <= o.n /\ o.fs[o.m.file].ext = "tmp"
       /\ o.m.file = mgr[g][s].file \/ o.m.file > made

\* The types.
TypeInv ==
  /\ online \in [Gates -> BOOLEAN] /\ root \in [Gates -> BOOLEAN]
  /\ up \in [Gates -> BOOLEAN] /\ isExit \in [Gates -> BOOLEAN]
  /\ exitPc \in [Gates -> {"none", "swap", "done"} \cup Sides]
  /\ mgr \in [Gates -> [Sides -> Mgr]]
  /\ files \in [Ids -> File]
  /\ made \in 0 .. MaxFiles
  /\ pc \in [Gates -> [Writers -> {"idle", "look", "new", "in", "done", "failed"}]]
  /\ side \in [Gates -> [Writers -> Sides]]
  /\ cur \in [Gates -> [Writers -> Recs \cup {NoRec}]]
  /\ rpc \in [Gates -> {"idle", "return"} \cup Sides] /\ tried \in [Gates -> SUBSET Ids]
  /\ rfile \in [Gates -> Ids \cup {0}] /\ rdata \in [Gates -> SUBSET Recs]
  /\ acked \subseteq Recs /\ asked \subseteq Recs /\ dead \subseteq Recs
  /\ delivered \in [Recs -> Nat]
  /\ faults \in Nat /\ exits \in Nat /\ undefined \in BOOLEAN

\* An open file is a .tmp file with one manager, a file being read a .bak file
\* with one reader.
FileInv ==
  /\ \A f \in Ids : f > made => files[f] = NoFile
  /\ \A g \in Gates, s \in Sides : mgr[g][s].file # 0 =>
       mgr[g][s].file <= made /\ files[mgr[g][s].file].ext = "tmp"
  /\ \A g, h \in Gates, s, t \in Sides :
       mgr[g][s].file = mgr[h][t].file /\ mgr[g][s].file # 0 => g = h /\ s = t
  /\ \A g \in Gates : rfile[g] # 0 => files[rfile[g]].ext = "bak"
  /\ \A g, h \in Gates : rfile[g] = rfile[h] /\ rfile[g] # 0 => g = h

\* Nobody will read file f any more.
Spent(f) == files[f].ext \notin {"tmp", "ok"} /\ \A h \in Gates : rfile[h] # f

AllSpent(r) == \A f \in Ids : r \in files[f].recs => Spent(f)

\* A record is in one file only; once it has been read nobody reads that file
\* any more.
RecInv ==
  /\ \A e, f \in Ids, r \in Recs : r \in files[e].recs /\ r \in files[f].recs => e = f
  /\ \A g \in Gates, r \in Recs : r \in rdata[g] =>
       AllSpent(r) /\ delivered[r] = 0 /\ \A h \in Gates : r \in rdata[h] => g = h
  /\ \A r \in Recs : delivered[r] <= 1 /\ (delivered[r] > 0 => AllSpent(r))

\* Nothing has been written of r yet.
Untouched(r) ==
  /\ \A f \in Ids : r \notin files[f].recs
  /\ \A g \in Gates : r \notin rdata[g]
  /\ delivered[r] = 0

\* A record is given to one call, which leaves it untouched until it is done.
WriterInv ==
  /\ \A g \in Gates, w \in Writers : cur[g][w] = NoRec <=> pc[g][w] = "idle"
  /\ \A g \in Gates, w \in Writers : cur[g][w] # NoRec => cur[g][w] \in asked
  /\ \A g, h \in Gates, v, w \in Writers :
       cur[g][w] = cur[h][v] /\ cur[g][w] # NoRec => g = h /\ v = w
  /\ \A r \in Recs \ asked : Untouched(r)
  /\ \A g \in Gates, w \in Writers : pc[g][w] \in {"look", "new", "in"} => Untouched(cur[g][w])

\* r can be recovered: it is in a file, or with a reader or delivered.
Kept(r) ==
  \/ \E f \in Ids : files[f].ext # "gone" /\ r \in files[f].recs
  \/ \E g \in Gates : r \in rdata[g]
  \/ delivered[r] > 0

KeptInv ==
  /\ \A r \in acked \ dead : Kept(r)
  /\ \A g \in Gates, w \in Writers :
       pc[g][w] = "done" /\ cur[g][w] \notin dead => Kept(cur[g][w])

\* A reader has a file only while it scans, and records only when it returns.
ReaderInv ==
  \A g \in Gates : (rfile[g] # 0 => rpc[g] \in Sides) /\ (rpc[g] # "return" => rdata[g] = {})

IInv == TypeInv /\ FileInv /\ ReaderInv /\ RecInv /\ WriterInv /\ KeptInv

\* r will be read: its file is open, published or claimed, or it has been read.
Reachable(r) ==
  \/ \E g \in Gates, s \in Sides : mgr[g][s].file # 0 /\ r \in files[mgr[g][s].file].recs
  \/ \E f \in Ids : files[f].ext = "ok" /\ r \in files[f].recs
  \/ \E g \in Gates : rfile[g] # 0 /\ r \in files[rfile[g]].recs
  \/ \E g \in Gates : r \in rdata[g]
  \/ delivered[r] > 0

\* Files are where their managers and readers look for them.
Placed ==
  /\ \A g \in Gates : online[g]
  /\ \A g \in Gates, s \in Sides : mgr[g][s].file # 0 =>
       files[mgr[g][s].file].dir = Where(g, s)
  /\ \A g \in Gates : rfile[g] # 0 =>
       rpc[g] \in Sides /\ files[rfile[g]].dir = Where(g, rpc[g])

\* What has been written, or is about to be reported as written
Owed == acked \cup {r \in Recs : \E g \in Gates, w \in Writers : pc[g][w] = "done" /\ cur[g][w] = r}

\* As long as nothing has failed what is written can be reached.
CalmInv == Calm => Placed /\ \A r \in Owed : Reachable(r)

\* A file that does not exist yet is a file.
LEMMA NoFileType == NoFile \in File
BY RemainAssumption DEF NoFile, File, Dirs, Exts

\* A file under another name
LEMMA Renamed ==
  ASSUME NEW x \in File, NEW y \in Exts
  PROVE  LET z == [x EXCEPT !.ext = y] IN
         z \in File /\ z.ext = y /\ z.recs = x.recs /\ z.dir = x.dir
BY DEF File

\* A new manager, and none, have no file.
LEMMA NewMgrType == NewMgr \in Mgr /\ NewMgr.file = 0 /\ NewMgr.count = 0 /\ NoMgr \in Mgr /\ NoMgr.file = 0
<1>1. NoMgr \in Mgr /\ NoMgr.file = 0 /\ NoMgr.count = 0
  BY RemainAssumption DEF NoMgr, Mgr
<1>2. NewMgr \in Mgr /\ NewMgr.file = 0 /\ NewMgr.count = 0
  BY <1>1 DEF NewMgr, Mgr
<1> QED BY <1>1, <1>2

\* A path names a directory.
LEMMA WhereType == \A g \in Gates, s \in Sides : Where(g, s) \in Dirs
BY DEF Where, Dirs, Sides

\* CloseCurFile does to the files no more than Good allows, and when it succeeds
\* nothing is open.
LEMMA CloseGood ==
  ASSUME NEW g \in Gates, NEW s \in Sides, NEW o, Good(g, s, o), made \in 0 .. MaxFiles,
         NEW c \in CloseCurFile(g, s, o)
  PROVE  Good(g, s, c) /\ (c.ok => c.m.file = 0)
<1> USE RemainAssumption
<1>1. o \in Out
  BY DEF Good
<1>4. o.fl + 1 \in Nat
  BY <1>1 DEF Out
<1>2. CASE o.m.file = 0
  BY <1>2 DEF CloseCurFile
<1>3. CASE o.m.file # 0
  <2>1. o.m.file \in Ids
    BY <1>1, <1>3 DEF Out, Mgr
  <2>2. Published(o) \in [Ids -> File]
    BY <1>1, <2>1 DEF Published, Out, File, Mgr, Exts
  <2>3. \A f \in Ids : Published(o)[f].recs = o.fs[f].recs
                   /\ Published(o)[f].dir = o.fs[f].dir
                   /\ (f # o.m.file => Published(o)[f] = o.fs[f])
                   /\ (f = o.m.file => Published(o)[f].ext = "ok")
    BY <1>1, <2>1 DEF Published, Out, File
  <2>4. \/ c = [o EXCEPT !.ok = FALSE]
        \/ c = [[o EXCEPT !.ok = FALSE] EXCEPT !.fl = @ + 1]
        \/ c = [[o EXCEPT !.ok = FALSE] EXCEPT !.fl = @ + 1, !.m.dangling = TRUE]
        \/ c = [[o EXCEPT !.m = NewMgr] EXCEPT !.ok = FALSE, !.fl = @ + 1]
        \/ c = [[o EXCEPT !.m = NewMgr] EXCEPT !.fs = Published(o)]
        \/ c = [[o EXCEPT !.m = NewMgr] EXCEPT !.ok = FALSE]
    BY <1>3 DEF CloseCurFile
  <2>5. CASE c = [o EXCEPT !.ok = FALSE]
    BY <1>1, <2>5 DEF Good, Out
  <2>6. CASE c = [[o EXCEPT !.ok = FALSE] EXCEPT !.fl = @ + 1]
    <3>1. c \in Out /\ c.m = o.m /\ c.fs = o.fs /\ c.n = o.n /\ c.ok = FALSE
      BY <1>1, <1>4, <2>6 DEF Out
    <3> QED BY <3>1 DEF Good
  <2>7. CASE c = [[o EXCEPT !.ok = FALSE] EXCEPT !.fl = @ + 1, !.m.dangling = TRUE]
    <3>1. [o.m EXCEPT !.dangling = TRUE] \in Mgr /\ [o.m EXCEPT !.dangling = TRUE].file = o.m.file
      BY <1>1 DEF Out, Mgr
    <3>2. c \in Out /\ c.m.file = o.m.file /\ c.fs = o.fs /\ c.n = o.n /\ c.ok = FALSE
      BY <1>1, <1>4, <2>7, <3>1 DEF Out
    <3> QED BY <3>2 DEF Good
  <2>8. CASE c = [[o EXCEPT !.m = NewMgr] EXCEPT !.ok = FALSE, !.fl = @ + 1]
    <3>1. c \in Out /\ c.m = NewMgr /\ c.fs = o.fs /\ c.n = o.n /\ c.ok = FALSE
      BY <1>1, <1>4, <2>8, NewMgrType DEF Out
    <3> QED BY <3>1, NewMgrType DEF Good
  <2>9. CASE c = [[o EXCEPT !.m = NewMgr] EXCEPT !.fs = Published(o)]
    <3>1. c \in Out /\ c.m = NewMgr /\ c.fs = Published(o) /\ c.n = o.n
      BY <1>1, <2>9, <2>2, NewMgrType DEF Out
    <3>2. \A f \in Ids : f > c.n => f # o.m.file
      BY <1>1, <1>3, <3>1 DEF Good, Out, Ids
    <3>3. \A f \in Ids : f <= made =>
            c.fs[f].ext = files[f].ext \/ (f = mgr[g][s].file /\ c.fs[f].ext = "ok")
      BY <3>1, <2>1, <1>3, <2>3 DEF Good, Ids
    <3> QED BY <3>1, <3>2, <3>3, <2>3, NewMgrType DEF Good
  <2>10. CASE c = [[o EXCEPT !.m = NewMgr] EXCEPT !.ok = FALSE]
    BY <1>1, <2>10, NewMgrType DEF Good, Out
  <2> QED BY <2>4, <2>5, <2>6, <2>7, <2>8, <2>9, <2>10
<1> QED BY <1>2, <1>3

\* switchToNewFile likewise; when it succeeds an empty file is open, in the directory
\* that the path names.
LEMMA SwitchGood ==
  ASSUME NEW g \in Gates, NEW s \in Sides, NEW o, Good(g, s, o), made \in 0 .. MaxFiles,
         NEW c \in SwitchToNewFile(g, s, o)
  PROVE  /\ Good(g, s, c)
         /\ c.ok => c.m.file # 0 /\ c.m.count = 0 /\ c.fs[c.m.file].dir = Where(g, s)
<1> USE RemainAssumption
<1>1. \/ c \in CloseCurFile(g, s, o) /\ ~c.ok
      \/ \E d \in CloseCurFile(g, s, o) : d.ok /\ c = [d EXCEPT !.ok = FALSE, !.fl = @ + 1]
      \/ \E d \in CloseCurFile(g, s, o) :
           /\ d.ok /\ d.n < MaxFiles
           /\ c = [d EXCEPT !.m = [NewMgr EXCEPT !.file = d.n + 1], !.n = @ + 1,
                     !.fs[d.n + 1] = [NoFile EXCEPT !.ext = "tmp", !.dir = Where(g, s)]]
  BY DEF SwitchToNewFile
<1>2. CASE c \in CloseCurFile(g, s, o) /\ ~c.ok
  BY <1>2, CloseGood
<1>3. ASSUME NEW d \in CloseCurFile(g, s, o), d.ok, c = [d EXCEPT !.ok = FALSE, !.fl = @ + 1]
      PROVE  Good(g, s, c) /\ c.ok = FALSE
  <2>1. Good(g, s, d) /\ d \in Out
    BY CloseGood DEF Good
  <2>2. d.fl + 1 \in Nat
    BY <2>1 DEF Out
  <2>3. c \in Out /\ c.m = d.m /\ c.fs = d.fs /\ c.n = d.n /\ c.ok = FALSE
    BY <1>3, <2>1, <2>2 DEF Out
  <2> QED BY <2>1, <2>3 DEF Good
<1>4. ASSUME NEW d \in CloseCurFile(g, s, o), d.ok, d.n < MaxFiles,
             c = [d EXCEPT !.m = [NewMgr EXCEPT !.file = d.n + 1], !.n = @ + 1,
                     !.fs[d.n + 1] = [NoFile EXCEPT !.ext = "tmp", !.dir = Where(g, s)]]
      PROVE  Good(g, s, c) /\ c.m.file # 0 /\ c.m.count = 0 /\ c.fs[c.m.file].dir = Where(g, s)
  <2> DEFINE nf == [NoFile EXCEPT !.ext = "tmp", !.dir = Where(g, s)]
             nm == [NewMgr EXCEPT !.file = d.n + 1]
  <2>1. Good(g, s, d) /\ d \in Out
    BY CloseGood DEF Good
  <2>2. d.n + 1 \in 0 .. MaxFiles /\ d.n + 1 \in Ids /\ d.n \in Nat
    BY <2>1, <1>4 DEF Out, Ids
  <2>3. nm \in Mgr /\ nm.file = d.n + 1 /\ nm.count = 0
    <3>1. NewMgr.is /\ d.n + 1 \in Ids \cup {0}
      BY <2>2 DEF NewMgr, NoMgr
    <3>2. nm.is /\ nm.file = d.n + 1 /\ nm.count = 0
      BY <3>1, NewMgrType DEF Mgr
    <3>3. nm \in [is : BOOLEAN, file : Ids \cup {0}, count : 0 .. MaxCount, dangling : BOOLEAN]
      BY <3>1, NewMgrType DEF Mgr
    <3> QED BY <3>2, <3>3 DEF Mgr
  <2>4. nf \in File /\ nf.recs = {} /\ nf.ext = "tmp" /\ nf.dir = Where(g, s)
    <3>1. NoFile.recs = {}
      BY DEF NoFile
    <3> QED BY <3>1, NoFileType, WhereType DEF File, Exts
  <2>5. [d.fs EXCEPT ![d.n + 1] = nf] \in [Ids -> File]
    BY <2>1, <2>4 DEF Out
  <2> HIDE DEF nf, nm
  <2>6. c \in Out /\ c.m = nm /\ c.fs = [d.fs EXCEPT ![d.n + 1] = nf] /\ c.n = d.n + 1
    BY <1>4, <2>1, <2>2, <2>3, <2>5 DEF Out, nf, nm
  <2>7. \A f \in Ids : f # d.n + 1 => c.fs[f] = d.fs[f]
    BY <2>1, <2>6 DEF Out
  <2>8. c.fs[d.n + 1] = nf
    BY <2>1, <2>2, <2>6 DEF Out
  <2>9. files[d.n + 1].recs = {}
    <3>1. d.fs[d.n + 1] = NoFile /\ d.fs[d.n + 1].recs = files[d.n + 1].recs
      BY <2>1, <2>2 DEF Good
    <3> QED BY <3>1 DEF NoFile
  <2>10. made <= d.n
    BY <2>1 DEF Good
  <2>11. \A f \in Ids : c.fs[f].recs = files[f].recs
    BY <2>1, <2>4, <2>7, <2>8, <2>9 DEF Good
  <2>12. \A f \in Ids : f <= made =>
           c.fs[f].ext = files[f].ext \/ (f = mgr[g][s].file /\ c.fs[f].ext = "ok")
    BY <2>1, <2>2, <2>7, <2>10 DEF Good, Ids
  <2>16. \A f \in Ids : f <= made => c.fs[f].dir = files[f].dir
    BY <2>1, <2>2, <2>7, <2>10 DEF Good, Ids
  <2>13. \A f \in Ids : f > c.n => c.fs[f] = NoFile
    BY <2>1, <2>2, <2>6, <2>7 DEF Good, Ids
  <2>14. c.m.file = d.n + 1 /\ c.m.file > made /\ c.fs[c.m.file].ext = "tmp" /\ made <= c.n
           /\ c.m.file <= c.n
    BY <2>2, <2>3, <2>4, <2>6, <2>8, <2>10
  <2>15. Good(g, s, c)
    BY <2>6, <2>11, <2>12, <2>13, <2>14, <2>16 DEF Good
  <2> QED BY <2>2, <2>3, <2>4, <2>6, <2>8, <2>15
<1> QED BY <1>1, <1>2, <1>3, <1>4

\* A part of a record at the end of the open file
LEMMA TornGood ==
  ASSUME NEW g \in Gates, NEW s \in Sides, NEW o, Good(g, s, o), o.m.file # 0, NEW torn \in BOOLEAN
  PROVE  LET q == [o EXCEPT !.fs[o.m.file].torn = @ \/ torn, !.fl = @ + 1] IN
         Good(g, s, q) /\ q.fl > 0 /\ q.m = o.m
<1> USE RemainAssumption
<1> DEFINE q == [o EXCEPT !.fs[o.m.file].torn = @ \/ torn, !.fl = @ + 1]
           fs == [o.fs EXCEPT ![o.m.file].torn = @ \/ torn]
<1>1. o \in Out /\ o.fl + 1 \in Nat /\ o.fl + 1 > 0 /\ o.m.file \in Ids
  BY DEF Good, Out, Mgr
<1>2. fs \in [Ids -> File] /\ \A f \in Ids : /\ fs[f].recs = o.fs[f].recs
                                             /\ fs[f].ext = o.fs[f].ext
                                             /\ fs[f].dir = o.fs[f].dir
                                             /\ (f # o.m.file => fs[f] = o.fs[f])
  BY <1>1 DEF Out, File
<1> HIDE DEF fs
<1>3. q \in Out /\ q.m = o.m /\ q.n = o.n /\ q.fs = fs /\ q.fl = o.fl + 1
  BY <1>1, <1>2 DEF Out, fs
<1>4. \A f \in Ids : f > o.n => f # o.m.file
  BY DEF Good, Out, Ids
<1>5. Good(g, s, q)
  <2> HIDE DEF q
  <2>1. /\ made <= q.n
        /\ \A f \in Ids : q.fs[f].recs = files[f].recs
        /\ \A f \in Ids : f <= made => q.fs[f].dir = files[f].dir
    BY <1>2, <1>3 DEF Good
  <2>2. \A f \in Ids : f <= made =>
          q.fs[f].ext = files[f].ext \/ (f = mgr[g][s].file /\ q.fs[f].ext = "ok")
    BY <1>2, <1>3 DEF Good
  <2>3. \A f \in Ids : f > q.n => q.fs[f] = NoFile
    BY <1>2, <1>3, <1>4 DEF Good
  <2>4. /\ q.m.file <= q.n /\ q.fs[q.m.file].ext = "tmp"
        /\ q.m.file = mgr[g][s].file \/ q.m.file > made
    BY <1>1, <1>2, <1>3 DEF Good
  <2> QED BY <1>3, <2>1, <2>2, <2>3, <2>4 DEF Good
<1> QED BY <1>1, <1>3, <1>5

\* Before an operation begins
LEMMA HereGood ==
  ASSUME IInv, NEW g \in Gates, NEW s \in Sides
  PROVE  Good(g, s, Here(g, s))
BY DEF IInv, TypeInv, FileInv, Good, Here, Outcome, Out

\* After such an operation the files have one manager or one reader each, records
\* are where they were, and what could be recovered still can be.
LEMMA FilesKept ==
  ASSUME IInv, NEW g \in Gates, NEW s \in Sides, NEW o, Good(g, s, o), Happens(g, s, o),
         UNCHANGED <<rfile, rdata, delivered>>
  PROVE  /\ mgr' \in [Gates -> [Sides -> Mgr]] /\ files' \in [Ids -> File]
         /\ made' \in 0 .. MaxFiles /\ root' \in [Gates -> BOOLEAN] /\ faults' \in Nat
         /\ online' = online
         /\ FileInv' /\ RecInv'
         /\ \A r \in Recs : Untouched(r) => Untouched(r)'
         /\ \A r \in Recs : Kept(r) => Kept(r)'
<1> USE RemainAssumption
<1>1. o \in Out /\ mgr' = [mgr EXCEPT ![g][s] = o.m] /\ files' = o.fs /\ made' = o.n /\ made <= o.n
  BY DEF Good, Happens
<1>2. /\ mgr' \in [Gates -> [Sides -> Mgr]] /\ files' \in [Ids -> File]
      /\ made' \in 0 .. MaxFiles /\ online' = online
  BY <1>1 DEF Out, IInv, TypeInv, Happens
<1>3. root' \in [Gates -> BOOLEAN]
  BY DEF Happens, IInv, TypeInv
<1>4. faults' \in Nat
  BY <1>1 DEF Happens, Faulty, IInv, TypeInv, Out
<1>5. /\ mgr'[g][s] = o.m
      /\ \A h \in Gates, t \in Sides : (h # g \/ t # s) => mgr'[h][t] = mgr[h][t]
  BY <1>1 DEF IInv, TypeInv
<1>6. \A f \in Ids : files'[f].recs = files[f].recs
  BY <1>1 DEF Good
<1>7. \A f \in Ids : f <= made =>
        \/ files'[f].ext = files[f].ext
        \/ f = mgr[g][s].file /\ files[f].ext = "tmp" /\ files'[f].ext = "ok"
  BY <1>1 DEF Good, IInv, FileInv, Ids
<1>8. \A f \in Ids : f > made => files[f] = NoFile /\ files[f].recs = {} /\ files[f].ext = "none"
  BY DEF IInv, FileInv, NoFile
<1>15. \A f \in Ids, r \in Recs : r \in files[f].recs => f <= made
  <2> SUFFICES ASSUME NEW f \in Ids, files[f].recs # {}
               PROVE  f <= made
    OBVIOUS
  <2> QED BY <1>8 DEF IInv, TypeInv, Ids
<1>9. FileInv'
  <2>1. \A f \in Ids : f > made' => files'[f] = NoFile
    BY <1>1 DEF Good
  <2>2. ASSUME NEW h \in Gates, NEW t \in Sides, mgr'[h][t].file # 0
        PROVE  mgr'[h][t].file <= made' /\ files'[mgr'[h][t].file].ext = "tmp"
    <3>1. CASE h = g /\ t = s
      BY <1>1, <1>5, <2>2, <3>1 DEF Good
    <3>2. CASE ~(h = g /\ t = s)
      <4>1. mgr'[h][t] = mgr[h][t]
        BY <1>5, <3>2
      <4>2. mgr[h][t].file \in Ids /\ mgr[h][t].file <= made /\ files[mgr[h][t].file].ext = "tmp"
              /\ mgr[h][t].file # mgr[g][s].file
        BY <4>1, <2>2, <3>2 DEF IInv, TypeInv, FileInv, Mgr
      <4> QED BY <4>1, <4>2, <1>7, <1>1, <1>2 DEF IInv, TypeInv, Ids
    <3> QED BY <3>1, <3>2
  <2>3. ASSUME NEW h \in Gates, NEW t \in Sides, mgr'[h][t].file # 0, ~(h = g /\ t = s)
        PROVE  mgr'[h][t].file # mgr'[g][s].file
    <3>1. mgr'[h][t] = mgr[h][t]
      BY <1>5, <2>3
    <3>2. mgr[h][t].file \in Ids /\ mgr[h][t].file <= made /\ mgr[h][t].file # mgr[g][s].file
      BY <3>1, <2>3 DEF IInv, TypeInv, FileInv, Mgr
    <3>3. o.m.file = 0 \/ o.m.file = mgr[g][s].file \/ o.m.file > made
      BY DEF Good
    <3> QED BY <3>1, <3>2, <3>3, <1>5, <2>3 DEF IInv, TypeInv, Ids
  <2>4. ASSUME NEW h \in Gates, NEW t \in Sides, NEW k \in Gates, NEW q \in Sides,
               mgr'[h][t].file = mgr'[k][q].file, mgr'[h][t].file # 0
        PROVE  h = k /\ t = q
    <3>1. CASE h = g /\ t = s
      BY <2>3, <2>4, <3>1
    <3>2. CASE k = g /\ q = s
      BY <2>3, <2>4, <3>2
    <3>3. CASE ~(h = g /\ t = s) /\ ~(k = g /\ q = s)
      BY <1>5, <2>4, <3>3 DEF IInv, FileInv
    <3> QED BY <3>1, <3>2, <3>3
  <2>5. ASSUME NEW h \in Gates, rfile'[h] # 0
        PROVE  files'[rfile'[h]].ext = "bak"
    <3>1. rfile'[h] = rfile[h] /\ rfile[h] \in Ids /\ files[rfile[h]].ext = "bak"
      BY <2>5 DEF IInv, TypeInv, FileInv
    <3>2. rfile[h] <= made
      BY <3>1, <1>8 DEF IInv, TypeInv, Ids
    <3> QED BY <3>1, <3>2, <1>7
  <2>6. \A h, k \in Gates : rfile'[h] = rfile'[k] /\ rfile'[h] # 0 => h = k
    BY DEF IInv, FileInv
  <2> QED BY <2>1, <2>2, <2>4, <2>5, <2>6 DEF FileInv
<1>10. \A f \in Ids, r \in Recs : r \in files[f].recs /\ Spent(f) => Spent(f)'
  <2> SUFFICES ASSUME NEW f \in Ids, NEW r \in Recs, r \in files[f].recs, Spent(f)
               PROVE  Spent(f)'
    OBVIOUS
  <2>1. f <= made
    BY <1>15
  <2> QED BY <2>1, <1>7 DEF Spent
<1>11. \A r \in Recs : AllSpent(r) => AllSpent(r)'
  BY <1>6, <1>10 DEF AllSpent
<1>12. RecInv'
  BY <1>6, <1>11 DEF IInv, RecInv
<1>13. \A r \in Recs : Untouched(r) => Untouched(r)'
  BY <1>6 DEF Untouched
<1>14. \A r \in Recs : Kept(r) => Kept(r)'
  <2> SUFFICES ASSUME NEW r \in Recs, NEW f \in Ids, files[f].ext # "gone", r \in files[f].recs
               PROVE  files'[f].ext # "gone" /\ r \in files'[f].recs
    BY DEF Kept
  <2>1. f <= made
    BY <1>15
  <2> QED BY <2>1, <1>6, <1>7
<1> QED BY <1>2, <1>3, <1>4, <1>9, <1>12, <1>13, <1>14

\* A manager replaced by a new one or none, its file forgotten
LEMMA SetMgrGood ==
  ASSUME NEW g \in Gates, NEW s \in Sides, NEW o, Good(g, s, o), NEW m \in {NoMgr, NewMgr}
  PROVE  LET q == [o EXCEPT !.m = m] IN
         Good(g, s, q) /\ q.fs = o.fs /\ q.fl = o.fl /\ q.m.file = 0
<1> DEFINE q == [o EXCEPT !.m = m]
<1>1. q \in Out /\ q.m = m /\ q.n = o.n /\ q.fs = o.fs /\ q.fl = o.fl /\ m.file = 0
  BY NewMgrType DEF Good, Out
<1> QED BY <1>1 DEF Good

\* The destructor, and the new manager that takes its place
LEMMA DestroyedGood ==
  ASSUME IInv, NEW g \in Gates, NEW s \in Sides, NEW o \in Destroyed(g, s)
  PROVE  Good(g, s, o) /\ Good(g, s, [o EXCEPT !.m = NewMgr])
<1>1. PICK c \in CloseCurFile(g, s, Here(g, s)) : o = [c EXCEPT !.m = NoMgr]
  BY DEF Destroyed
<1>2. Good(g, s, c)
  BY HereGood, CloseGood DEF IInv, TypeInv
<1>3. Good(g, s, o)
  BY <1>1, <1>2, SetMgrGood
<1> QED BY <1>3, SetMgrGood

\* The file that writeToFile goes on with has room.
LEMMA TargetGood ==
  ASSUME IInv, NEW g \in Gates, NEW s \in Sides, NEW o \in Target(g, s)
  PROVE  Good(g, s, o) /\ (o.ok => o.m.file # 0 /\ o.m.count < MaxCount)
<1> USE RemainAssumption
<1>1. CASE NeedsFile(g, s)
  BY <1>1, HereGood, SwitchGood DEF Target, IInv, TypeInv
<1>2. CASE ~NeedsFile(g, s)
  <2>1. o = [Here(g, s) EXCEPT !.ok = RootThere(g, s)]
    BY <1>2 DEF Target
  <2>2. o \in Out /\ o.m = mgr[g][s] /\ o.n = made /\ o.fs = files
    BY <2>1, HereGood DEF Good, Out, Here, Outcome, RootThere, IInv, TypeInv
  <2>3. mgr[g][s].file # 0 /\ mgr[g][s].count < MaxCount
    BY <1>2 DEF NeedsFile, IInv, TypeInv, Mgr
  <2> QED BY <2>2, <2>3 DEF Good, IInv, TypeInv, FileInv
<1> QED BY <1>1, <1>2

\* The file operations of a manager that put no record into a file: the steps of
\* Make, Drop, Check and ExitClose, and of a write that fails.
FileStep(g, s) ==
  \E o : Good(g, s, o) /\ Happens(g, s, o) /\ UNCHANGED <<rfile, rdata, delivered>>

\* Which steps are such operations
LEMMA FileSteps ==
  ASSUME IInv, NEW g \in Gates, NEW s \in Sides
  PROVE  /\ \A w \in Writers : Make(g, w) \/ WriteFails(g, w) \/ FlushFails(g, w)
                                 => FileStep(g, side[g][w])
         /\ \A w \in Writers : Drop(g, w, s) => FileStep(g, s)
         /\ Check(g, s) \/ ExitClose(g, s) \/ ExitDrop(g, s) => FileStep(g, s)
<1>1. ASSUME NEW w \in Writers, Make(g, w)
      PROVE  FileStep(g, side[g][w])
  <2>1. side[g][w] \in Sides
    BY DEF IInv, TypeInv
  <2>2. PICK o \in Destroyed(g, side[g][w]) : Happens(g, side[g][w], [o EXCEPT !.m = NewMgr])
    BY <1>1 DEF Make
  <2> QED BY <1>1, <2>1, <2>2, DestroyedGood DEF FileStep, Make, readVars
<1>2. ASSUME NEW w \in Writers, WriteFails(g, w)
      PROVE  FileStep(g, side[g][w])
  <2> DEFINE t == side[g][w]
  <2>1. t \in Sides
    BY DEF IInv, TypeInv
  <2>2. UNCHANGED <<rfile, rdata, delivered>>
    BY <1>2 DEF WriteFails, readVars
  <2>3. PICK o \in Target(g, t) :
          \/ Happens(g, t, o)
          \/ o.ok /\ \E torn \in BOOLEAN :
               Happens(g, t, [o EXCEPT !.fs[o.m.file].torn = @ \/ torn, !.fl = @ + 1])
    BY <1>2 DEF WriteFails
  <2> HIDE DEF t
  <2>4. Good(g, t, o) /\ (o.ok => o.m.file # 0)
    BY <2>1, TargetGood
  <2>5. CASE Happens(g, t, o)
    BY <2>2, <2>4, <2>5 DEF FileStep, t
  <2>6. ASSUME o.ok, NEW torn \in BOOLEAN,
               Happens(g, t, [o EXCEPT !.fs[o.m.file].torn = @ \/ torn, !.fl = @ + 1])
        PROVE  FileStep(g, t)
    <3>1. Good(g, t, [o EXCEPT !.fs[o.m.file].torn = @ \/ torn, !.fl = @ + 1])
      BY <2>1, <2>4, <2>6, TornGood
    <3> QED BY <2>2, <2>6, <3>1 DEF FileStep
  <2> QED BY <2>3, <2>5, <2>6 DEF t
<1>3. ASSUME NEW w \in Writers, FlushFails(g, w)
      PROVE  FileStep(g, side[g][w])
  <2> DEFINE t == side[g][w]
  <2>1. t \in Sides /\ made \in 0 .. MaxFiles
    BY DEF IInv, TypeInv
  <2>2. UNCHANGED <<rfile, rdata, delivered>>
    BY <1>3 DEF FlushFails, readVars
  <2>3. PICK a \in {o \in Target(g, t) : o.ok}, torn \in BOOLEAN :
          \E o \in SwitchToNewFile(g, t, [a EXCEPT !.fs[a.m.file].torn = @ \/ torn, !.fl = @ + 1]) :
             Happens(g, t, IF o.ok THEN [o EXCEPT !.m = NewMgr] ELSE o)
    BY <1>3 DEF FlushFails
  <2> HIDE DEF t
  <2>4. Good(g, t, a) /\ a.m.file # 0
    BY <2>1, TargetGood
  <2> DEFINE b == [a EXCEPT !.fs[a.m.file].torn = @ \/ torn, !.fl = @ + 1]
  <2>5. Good(g, t, b)
    BY <2>1, <2>4, TornGood
  <2>6. PICK o \in SwitchToNewFile(g, t, b) : Happens(g, t, IF o.ok THEN [o EXCEPT !.m = NewMgr] ELSE o)
    BY <2>3
  <2> HIDE DEF b
  <2>7. Good(g, t, o)
    BY <2>1, <2>5, SwitchGood
  <2>8. Good(g, t, [o EXCEPT !.m = NewMgr])
    BY <2>1, <2>7, SetMgrGood
  <2> QED BY <2>2, <2>6, <2>7, <2>8 DEF FileStep, t
<1>4. ASSUME NEW w \in Writers, Drop(g, w, s)
      PROVE  FileStep(g, s)
  BY <1>4, DestroyedGood DEF FileStep, Drop, readVars
<1>5. ASSUME Check(g, s)
      PROVE  FileStep(g, s)
  <2>1. PICK o \in CloseCurFile(g, s, Here(g, s)) : Happens(g, s, o)
    BY <1>5 DEF Check
  <2>2. Good(g, s, o)
    BY HereGood, CloseGood DEF IInv, TypeInv
  <2> QED BY <1>5, <2>1, <2>2 DEF FileStep, Check, readVars
<1>6. ASSUME ExitClose(g, s) \/ ExitDrop(g, s)
      PROVE  FileStep(g, s)
  BY <1>6, DestroyedGood DEF FileStep, ExitClose, ExitDrop, readVars
<1> QED BY <1>1, <1>2, <1>3, <1>4, <1>5, <1>6

\* What a file operation leaves as it is.
LEMMA FileStepKeeps ==
  ASSUME IInv, NEW g \in Gates, NEW s \in Sides, FileStep(g, s)
  PROVE  /\ mgr' \in [Gates -> [Sides -> Mgr]] /\ files' \in [Ids -> File]
         /\ made' \in 0 .. MaxFiles /\ root' \in [Gates -> BOOLEAN] /\ faults' \in Nat
         /\ online' = online
         /\ FileInv' /\ RecInv'
         /\ \A r \in Recs : Untouched(r) => Untouched(r)'
         /\ \A r \in Recs : Kept(r) => Kept(r)'
         /\ UNCHANGED <<rfile, rdata, delivered>>
BY FilesKept DEF FileStep

\* Nothing of the records or the files changes.
LEMMA SameFiles ==
  ASSUME IInv, UNCHANGED <<mgr, files, made, rfile, rdata, delivered>>
  PROVE  /\ FileInv' /\ RecInv'
         /\ \A r \in Recs : Untouched(r) => Untouched(r)'
         /\ \A r \in Recs : Kept(r) => Kept(r)'
<1>1. FileInv'
  BY DEF IInv, FileInv
<1>2. RecInv'
  BY DEF IInv, RecInv, AllSpent, Spent
<1>3. \A r \in Recs : (Untouched(r) => Untouched(r)') /\ (Kept(r) => Kept(r)')
  BY DEF Untouched, Kept
<1> QED BY <1>1, <1>2, <1>3

\* A writer goes on, or not, with its record.
LEMMA CallGoesOn ==
  ASSUME IInv, FileInv', RecInv', TypeInv',
         \A r \in Recs : Untouched(r) => Untouched(r)',
         \A r \in Recs : Kept(r) => Kept(r)',
         UNCHANGED <<cur, asked, acked, dead, rpc, rfile, rdata>>,
         NEW g \in Gates, NEW w \in Writers, NEW p \in {"look", "new", "in", "failed"},
         \/ UNCHANGED pc
         \/ pc[g][w] \in {"look", "new", "in"} /\ pc' = [pc EXCEPT ![g][w] = p]
  PROVE  IInv'
<1>1. \A h \in Gates, v \in Writers :
        /\ pc'[h][v] = "idle" <=> pc[h][v] = "idle"
        /\ pc'[h][v] \in {"look", "new", "in"} => pc[h][v] \in {"look", "new", "in"}
        /\ pc'[h][v] = "done" => pc[h][v] = "done"
  BY DEF IInv, TypeInv
<1>2. \A h \in Gates, v \in Writers : pc[h][v] # "idle" => cur[h][v] \in Recs
  BY DEF IInv, TypeInv, WriterInv
<1>3. WriterInv'
  <2>1. \A r \in (Recs \ asked)' : Untouched(r)'
    BY DEF IInv, WriterInv
  <2>2. \A h \in Gates, v \in Writers :
          pc'[h][v] \in {"look", "new", "in"} => Untouched(cur[h][v])'
    BY <1>1, <1>2 DEF IInv, WriterInv
  <2>3. \A h \in Gates, v \in Writers : cur'[h][v] = NoRec <=> pc'[h][v] = "idle"
    BY <1>1 DEF IInv, WriterInv
  <2> QED BY <2>1, <2>2, <2>3 DEF IInv, WriterInv
<1>4. KeptInv'
  <2>1. \A r \in (acked \ dead)' : Kept(r)'
    BY DEF IInv, KeptInv, TypeInv
  <2>2. \A h \in Gates, v \in Writers : pc'[h][v] = "done" /\ cur'[h][v] \notin dead' => Kept(cur[h][v])'
    BY <1>1, <1>2 DEF IInv, KeptInv
  <2> QED BY <2>1, <2>2 DEF KeptInv
<1>5. ReaderInv'
  BY DEF IInv, ReaderInv
<1> QED BY <1>3, <1>4, <1>5 DEF IInv

\* A manager is made, or a write fails.
LEMMA MakeStep ==
  ASSUME IInv, NEW g \in Gates, NEW w \in Writers,
         Make(g, w) \/ WriteFails(g, w) \/ FlushFails(g, w)
  PROVE  IInv'
<1>1. side[g][w] \in Sides
  BY DEF IInv, TypeInv
<1>2. FileStep(g, side[g][w])
  BY FileSteps, <1>1
<1>3. TypeInv'
  <2>1. /\ pc' \in [Gates -> [Writers -> {"idle", "look", "new", "in", "done", "failed"}]]
        /\ side' \in [Gates -> [Writers -> Sides]]
    <3>1. PICK p \in {"look", "in", "failed"} : pc' = [pc EXCEPT ![g][w] = p]
      BY DEF Make, WriteFails, FlushFails, Failed
    <3>2. side' = side \/ side' = [side EXCEPT ![g][w] = "local"]
      BY DEF Make, WriteFails, FlushFails, Failed
    <3>3. pc' \in [Gates -> [Writers -> {"idle", "look", "new", "in", "done", "failed"}]]
      BY <3>1 DEF IInv, TypeInv
    <3>4. side' \in [Gates -> [Writers -> Sides]]
      <4>1. "local" \in Sides
        BY DEF Sides
      <4>2. side \in [Gates -> [Writers -> Sides]]
        BY DEF IInv, TypeInv
      <4>3. [side EXCEPT ![g][w] = "local"] \in [Gates -> [Writers -> Sides]]
        BY <4>1, <4>2
      <4> QED BY <3>2, <4>2, <4>3
    <3> QED BY <3>3, <3>4
  <2>2. UNCHANGED <<procVars, cur, asked, acked, readVars>>
    BY DEF Make, WriteFails, FlushFails
  <2>3. FileStep(g, side[g][w])
    BY <1>2
  <2> QED BY <1>1, <2>1, <2>2, <2>3, FileStepKeeps DEF IInv, TypeInv, procVars, readVars
<1>4. PICK p \in {"look", "new", "in", "failed"} :
        pc[g][w] \in {"look", "new", "in"} /\ pc' = [pc EXCEPT ![g][w] = p]
  BY DEF Make, WriteFails, FlushFails, Failed, Usable
<1>5. UNCHANGED <<cur, asked, acked, dead, rpc, rfile, rdata>>
  BY DEF Make, WriteFails, FlushFails, readVars
<1> QED BY <1>1, <1>2, <1>3, <1>4, <1>5, FileStepKeeps, CallGoesOn

\* A manager is closed or deleted.
LEMMA DropStep ==
  ASSUME IInv, NEW g \in Gates, NEW s \in Sides,
         (\E w \in Writers : Drop(g, w, s)) \/ Check(g, s) \/ ExitClose(g, s) \/ ExitDrop(g, s)
  PROVE  IInv'
<1>1. FileStep(g, s)
  BY FileSteps
<1>2. TypeInv'
  <2>1. exitPc' \in [Gates -> {"none", "swap", "done"} \cup Sides]
    BY DEF IInv, TypeInv, Drop, Check, ExitClose, ExitDrop, procVars, Sides
  <2>2. UNCHANGED <<up, isExit, exits, undefined, writeVars, readVars>>
    BY DEF Drop, Check, ExitClose, ExitDrop, procVars
  <2> QED BY <1>1, <2>1, <2>2, FileStepKeeps DEF IInv, TypeInv, writeVars, readVars
<1>3. UNCHANGED <<cur, asked, acked, dead, pc, rpc, rfile, rdata>>
  BY DEF Drop, Check, ExitClose, ExitDrop, writeVars, readVars
<1>4. CASE Writers = {}
  BY <1>1, <1>2, <1>3, <1>4, FileStepKeeps DEF IInv, ReaderInv, WriterInv, KeptInv, TypeInv
<1>5. CASE Writers # {}
  BY <1>1, <1>2, <1>3, <1>5, FileStepKeeps, CallGoesOn
<1> QED BY <1>4, <1>5

\* A record is given to a write.
LEMMA CallStep ==
  ASSUME IInv, NEW g \in Gates, NEW w \in Writers, NEW r \in Recs, Call(g, w, r)
  PROVE  IInv'
<1> USE RemainAssumption
<1>1. TypeInv'
  BY DEF IInv, TypeInv, Call, shareVars, procVars, fileVars, readVars, Sides
<1>2. UNCHANGED <<mgr, files, made, rfile, rdata, delivered>>
  BY DEF Call, fileVars, readVars
<1>3. WriterInv'
  <2>1. pc[g][w] = "idle" /\ cur[g][w] = NoRec /\ r \notin asked /\ asked' = asked \cup {r}
          /\ r # NoRec
    BY DEF Call, IInv, WriterInv
  <2>2. \A h \in Gates, v \in Writers :
          \/ h = g /\ v = w /\ cur'[h][v] = r /\ pc'[h][v] = "look"
          \/ ~(h = g /\ v = w) /\ cur'[h][v] = cur[h][v] /\ pc'[h][v] = pc[h][v]
    BY DEF Call, IInv, TypeInv
  <2>3. \A h \in Gates, v \in Writers : cur[h][v] # r
    BY <2>1 DEF IInv, WriterInv
  <2>4. \A h \in Gates, v \in Writers : pc[h][v] # "idle" => cur[h][v] \in Recs
    BY DEF IInv, TypeInv, WriterInv
  <2>5. \A h \in Gates, v \in Writers : cur'[h][v] = NoRec <=> pc'[h][v] = "idle"
    BY <2>1, <2>2 DEF IInv, WriterInv
  <2>6. \A h \in Gates, v \in Writers : cur'[h][v] # NoRec => cur'[h][v] \in asked'
    BY <2>1, <2>2 DEF IInv, WriterInv
  <2>7. ASSUME NEW h \in Gates, NEW k \in Gates, NEW u \in Writers, NEW v \in Writers,
               cur'[h][v] = cur'[k][u], cur'[h][v] # NoRec
        PROVE  h = k /\ u = v
    BY <2>2, <2>3, <2>7 DEF IInv, WriterInv
  <2>8. \A q \in (Recs \ asked)' : Untouched(q)'
    BY <1>2, <2>1, SameFiles DEF IInv, WriterInv
  <2>9. \A h \in Gates, v \in Writers : pc'[h][v] \in {"look", "new", "in"} => Untouched(cur[h][v])'
    <3> SUFFICES ASSUME NEW h \in Gates, NEW v \in Writers, pc'[h][v] \in {"look", "new", "in"}
                 PROVE  Untouched(cur[h][v])'
      OBVIOUS
    <3>1. CASE h = g /\ v = w
      <4>1. Untouched(r)'
        BY <1>2, <2>1, SameFiles DEF IInv, WriterInv
      <4> QED BY <4>1, <3>1, <2>2 DEF Untouched
    <3>2. CASE ~(h = g /\ v = w)
      <4>1. cur'[h][v] = cur[h][v] /\ pc[h][v] \in {"look", "new", "in"} /\ cur[h][v] \in Recs
        BY <2>2, <2>4, <3>2
      <4>2. Untouched(cur[h][v])
        BY <4>1 DEF IInv, WriterInv
      <4> QED BY <4>1, <4>2, <1>2 DEF Untouched
    <3> QED BY <3>1, <3>2
  <2> QED BY <2>5, <2>6, <2>7, <2>8, <2>9 DEF WriterInv
<1>4. KeptInv'
  <2>1. acked' = acked /\ dead' = dead
    BY DEF Call, readVars
  <2>2. \A h \in Gates, v \in Writers : pc'[h][v] = "done" => pc[h][v] = "done" /\ cur'[h][v] = cur[h][v]
    BY DEF Call, IInv, TypeInv
  <2> QED BY <1>2, <2>1, <2>2 DEF IInv, KeptInv, Kept
<1>5. ReaderInv'
  BY DEF Call, readVars, IInv, ReaderInv
<1> QED BY <1>1, <1>2, <1>3, <1>4, <1>5, SameFiles DEF IInv

\* A record is written: it was in no file before.
LEMMA WriteDoneStep ==
  ASSUME IInv, NEW g \in Gates, NEW w \in Writers, WriteDone(g, w)
  PROVE  IInv'
<1> USE RemainAssumption
<1> DEFINE s == side[g][w]
           r == cur[g][w]
<1>1. s \in Sides /\ r \in Recs /\ pc[g][w] = "in" /\ Untouched(r) /\ r \in asked
  BY DEF WriteDone, Usable, IInv, TypeInv, WriterInv
<1>2. PICK o \in Target(g, s) :
        /\ o.ok
        /\ Happens(g, s, [o EXCEPT !.fs[o.m.file].recs = @ \cup {cur[g][w]}, !.m.count = @ + 1])
  BY DEF WriteDone
<1> DEFINE q == [o EXCEPT !.fs[o.m.file].recs = @ \cup {r}, !.m.count = @ + 1]
           e == o.m.file
<1> HIDE DEF s, r
<1>3. Good(g, s, o) /\ e # 0 /\ o.m.count < MaxCount /\ o \in Out
  BY <1>1, <1>2, TargetGood DEF Good
<1>4. e \in Ids /\ o.fs[e].ext = "tmp" /\ e <= o.n /\ (e = mgr[g][s].file \/ e > made)
  BY <1>3 DEF Good, Out, Mgr
<1>5. [o.m EXCEPT !.count = @ + 1] \in Mgr /\ [o.m EXCEPT !.count = @ + 1].file = e
  BY <1>3 DEF Out, Mgr
<1>6. [o.fs EXCEPT ![e].recs = @ \cup {r}] \in [Ids -> File]
  BY <1>1, <1>3, <1>4 DEF Out, File
<1>7. q \in Out /\ q.m.file = e /\ q.fs = [o.fs EXCEPT ![e].recs = @ \cup {r}] /\ q.n = o.n
        /\ q.fl = o.fl
  BY <1>3, <1>5, <1>6 DEF Out
<1>8. /\ \A f \in Ids : f # e => q.fs[f] = o.fs[f]
      /\ \A f \in Ids : q.fs[f].ext = o.fs[f].ext
      /\ \A f \in Ids : f # e => q.fs[f].recs = files[f].recs
      /\ q.fs[e].recs = files[e].recs \cup {r}
  <2>1. \A f \in Ids : f # e => q.fs[f] = o.fs[f]
    BY <1>3, <1>4, <1>7 DEF Out
  <2>a. o.fs[e] \in File /\ q.fs[e] = [o.fs[e] EXCEPT !.recs = @ \cup {r}]
    <3> HIDE DEF q, e
    <3>1. o.fs \in [Ids -> File]
      BY <1>3 DEF Out
    <3> QED BY <3>1, <1>4, <1>7
  <2>2. q.fs[e].ext = o.fs[e].ext /\ q.fs[e].recs = o.fs[e].recs \cup {r}
    <3> HIDE DEF q, e
    <3> QED BY <2>a DEF File
  <2>3. \A f \in Ids : o.fs[f].recs = files[f].recs
    BY <1>3 DEF Good
  <2> QED BY <1>4, <2>1, <2>2, <2>3
<1>9. mgr' = [mgr EXCEPT ![g][s] = q.m] /\ files' = q.fs /\ made' = q.n /\ online' = online
        /\ made <= q.n
  BY <1>2, <1>3, <1>7 DEF Happens, Good, r
<1>10. UNCHANGED <<procVars, side, cur, asked, acked, readVars>> /\ pc' = [pc EXCEPT ![g][w] = "done"]
  BY DEF WriteDone
<1>11. root' \in [Gates -> BOOLEAN] /\ faults' \in Nat
  <2>1. q.fl \in Nat /\ Happens(g, s, q)
    BY <1>2, <1>7 DEF Out, r
  <2> QED BY <2>1 DEF Happens, Faulty, IInv, TypeInv
<1> HIDE DEF q, e
<1>12. TypeInv'
  <2>1. mgr' \in [Gates -> [Sides -> Mgr]]
    BY <1>1, <1>7, <1>9 DEF IInv, TypeInv, Out
  <2>2. files' \in [Ids -> File] /\ made' \in 0 .. MaxFiles
    BY <1>7, <1>9 DEF Out
  <2>3. pc' \in [Gates -> [Writers -> {"idle", "look", "new", "in", "done", "failed"}]]
    BY <1>10 DEF IInv, TypeInv
  <2> QED BY <1>9, <1>10, <1>11, <2>1, <2>2, <2>3 DEF IInv, TypeInv, procVars, readVars
<1>13. \A f \in Ids : f <= made =>
        \/ files'[f].ext = files[f].ext
        \/ f = mgr[g][s].file /\ files[f].ext = "tmp" /\ files'[f].ext = "ok"
  <2>1. \A f \in Ids : f <= made =>
          o.fs[f].ext = files[f].ext \/ (f = mgr[g][s].file /\ o.fs[f].ext = "ok")
    BY <1>3 DEF Good
  <2>2. \A f \in Ids : f = mgr[g][s].file => files[f].ext = "tmp"
    BY <1>1 DEF IInv, FileInv, Ids
  <2> QED BY <1>8, <1>9, <2>1, <2>2
<1>14. \A f \in Ids : f > made => files[f] = NoFile /\ files[f].recs = {} /\ files[f].ext = "none"
  BY DEF IInv, FileInv, NoFile
<1>15. /\ mgr'[g][s].file = e
       /\ \A h \in Gates, t \in Sides : (h # g \/ t # s) => mgr'[h][t] = mgr[h][t]
  BY <1>1, <1>7, <1>9 DEF IInv, TypeInv
<1>16. \A f \in Ids, x \in Recs : x \in files[f].recs => f <= made
  <2> SUFFICES ASSUME NEW f \in Ids, files[f].recs # {}
               PROVE  f <= made
    OBVIOUS
  <2> QED BY <1>14 DEF IInv, TypeInv, Ids
<1>17. FileInv'
  <2>1. \A f \in Ids : f > made' => files'[f] = NoFile
    BY <1>3, <1>4, <1>7, <1>8, <1>9 DEF Good, Out, Ids
  <2>2. ASSUME NEW h \in Gates, NEW t \in Sides, mgr'[h][t].file # 0
        PROVE  mgr'[h][t].file <= made' /\ files'[mgr'[h][t].file].ext = "tmp"
    <3>1. CASE h = g /\ t = s
      BY <1>4, <1>7, <1>8, <1>9, <1>15, <3>1
    <3>2. CASE ~(h = g /\ t = s)
      <4>1. mgr'[h][t] = mgr[h][t]
        BY <1>15, <3>2
      <4>2. mgr[h][t].file \in Ids /\ mgr[h][t].file <= made /\ files[mgr[h][t].file].ext = "tmp"
              /\ mgr[h][t].file # mgr[g][s].file
        BY <1>1, <4>1, <2>2, <3>2 DEF IInv, TypeInv, FileInv, Mgr
      <4> QED BY <4>1, <4>2, <1>13, <1>9, <1>12 DEF IInv, TypeInv, Ids
    <3> QED BY <3>1, <3>2
  <2>3. ASSUME NEW h \in Gates, NEW t \in Sides, mgr'[h][t].file # 0, ~(h = g /\ t = s)
        PROVE  mgr'[h][t].file # mgr'[g][s].file
    <3>1. mgr'[h][t] = mgr[h][t]
      BY <1>15, <2>3
    <3>2. mgr[h][t].file \in Ids /\ mgr[h][t].file <= made /\ mgr[h][t].file # mgr[g][s].file
      BY <1>1, <3>1, <2>3 DEF IInv, TypeInv, FileInv, Mgr
    <3> QED BY <3>1, <3>2, <1>4, <1>15, <2>3 DEF IInv, TypeInv, Ids
  <2>4. ASSUME NEW h \in Gates, NEW t \in Sides, NEW k \in Gates, NEW u \in Sides,
               mgr'[h][t].file = mgr'[k][u].file, mgr'[h][t].file # 0
        PROVE  h = k /\ t = u
    <3>1. CASE h = g /\ t = s
      BY <2>3, <2>4, <3>1
    <3>2. CASE k = g /\ u = s
      BY <2>3, <2>4, <3>2
    <3>3. CASE ~(h = g /\ t = s) /\ ~(k = g /\ u = s)
      BY <1>15, <2>4, <3>3 DEF IInv, FileInv
    <3> QED BY <3>1, <3>2, <3>3
  <2>5. ASSUME NEW h \in Gates, rfile'[h] # 0
        PROVE  files'[rfile'[h]].ext = "bak"
    <3>1. rfile'[h] = rfile[h] /\ rfile[h] \in Ids /\ files[rfile[h]].ext = "bak"
      BY <1>10, <2>5 DEF IInv, TypeInv, FileInv, readVars
    <3>2. rfile[h] <= made
      <4>1. ~(rfile[h] > made)
        BY <3>1, <1>14
      <4> QED BY <3>1, <4>1 DEF IInv, TypeInv, Ids
    <3> QED BY <3>1, <3>2, <1>13
  <2>6. \A h, k \in Gates : rfile'[h] = rfile'[k] /\ rfile'[h] # 0 => h = k
    BY <1>10 DEF IInv, FileInv, readVars
  <2> QED BY <2>1, <2>2, <2>4, <2>5, <2>6 DEF FileInv
<1>18. \A f \in Ids, x \in Recs : x # r => (x \in files'[f].recs <=> x \in files[f].recs)
  BY <1>8, <1>9
<1>19. \A f \in Ids : r \in files'[f].recs <=> f = e
  BY <1>1, <1>4, <1>8, <1>9 DEF Untouched
<1>20. \A x \in Recs : x # r => (AllSpent(x) => AllSpent(x)')
  <2> SUFFICES ASSUME NEW x \in Recs, x # r, AllSpent(x), NEW f \in Ids, x \in files'[f].recs
               PROVE  Spent(f)'
    BY DEF AllSpent
  <2>1. x \in files[f].recs /\ Spent(f) /\ f <= made
    BY <1>16, <1>18 DEF AllSpent
  <2> QED BY <2>1, <1>10, <1>13 DEF Spent, readVars
<1>21. RecInv'
  <2>1. \A d, f \in Ids, x \in Recs : x \in files'[d].recs /\ x \in files'[f].recs => d = f
    BY <1>18, <1>19 DEF IInv, RecInv
  <2>2. \A h \in Gates : r \notin rdata'[h]
    BY <1>1, <1>10 DEF Untouched, readVars
  <2>3. delivered'[r] = 0
    BY <1>1, <1>10 DEF Untouched, readVars
  <2>4. \A h \in Gates, x \in Recs : x \in rdata'[h] =>
          AllSpent(x)' /\ delivered'[x] = 0 /\ \A k \in Gates : x \in rdata'[k] => h = k
    BY <1>10, <1>20, <2>2 DEF IInv, RecInv, readVars
  <2>5. \A x \in Recs : delivered'[x] <= 1 /\ (delivered'[x] > 0 => AllSpent(x)')
    BY <1>10, <1>20, <2>3 DEF IInv, RecInv, readVars
  <2> QED BY <2>1, <2>4, <2>5 DEF RecInv
<1>22. \A x \in Recs : x # r /\ Untouched(x) => Untouched(x)'
  BY <1>10, <1>18 DEF Untouched, readVars
<1>23. \A h \in Gates, v \in Writers :
         \/ h = g /\ v = w /\ pc'[h][v] = "done"
         \/ ~(h = g /\ v = w) /\ pc'[h][v] = pc[h][v] /\ cur[h][v] # r
  BY <1>1, <1>10 DEF IInv, TypeInv, WriterInv, r
<1>24. \A h \in Gates, v \in Writers : pc[h][v] # "idle" => cur[h][v] \in Recs
  BY DEF IInv, TypeInv, WriterInv
<1>25. WriterInv'
  <2>1. \A x \in (Recs \ asked)' : Untouched(x)'
    BY <1>1, <1>10, <1>22 DEF IInv, WriterInv
  <2>2. \A h \in Gates, v \in Writers : pc'[h][v] \in {"look", "new", "in"} => Untouched(cur[h][v])'
    BY <1>10, <1>22, <1>23, <1>24 DEF IInv, WriterInv
  <2>3. \A h \in Gates, v \in Writers : cur'[h][v] = NoRec <=> pc'[h][v] = "idle"
    BY <1>1, <1>10, <1>23 DEF IInv, WriterInv
  <2> QED BY <1>10, <2>1, <2>2, <2>3 DEF IInv, WriterInv
<1>26. \A x \in Recs : Kept(x) => Kept(x)'
  <2> SUFFICES ASSUME NEW x \in Recs, NEW f \in Ids, files[f].ext # "gone", x \in files[f].recs
               PROVE  files'[f].ext # "gone" /\ x \in files'[f].recs
    BY <1>10 DEF Kept, readVars
  <2>1. f <= made
    BY <1>16
  <2> QED BY <2>1, <1>1, <1>13, <1>18 DEF Untouched
<1>27. files'[e].ext # "gone" /\ r \in files'[e].recs
  BY <1>4, <1>8, <1>9
<1>28. KeptInv'
  <2>1. \A x \in (acked \ dead)' : Kept(x)'
    BY <1>10, <1>26 DEF IInv, KeptInv, TypeInv, readVars
  <2>2. ASSUME NEW h \in Gates, NEW v \in Writers, pc'[h][v] = "done", cur'[h][v] \notin dead'
        PROVE  Kept(cur[h][v])'
    <3>1. CASE h = g /\ v = w
      BY <1>4, <1>10, <1>27, <3>1 DEF r, Kept
    <3>2. CASE ~(h = g /\ v = w)
      <4>1. Kept(cur[h][v]) /\ cur[h][v] \in Recs /\ cur' = cur
        BY <1>10, <1>23, <1>24, <2>2, <3>2 DEF IInv, KeptInv, readVars
      <4> QED BY <4>1, <1>26
    <3> QED BY <3>1, <3>2
  <2> QED BY <2>1, <2>2 DEF KeptInv
<1>29. ReaderInv'
  BY <1>10 DEF readVars, IInv, ReaderInv
<1> QED BY <1>12, <1>17, <1>21, <1>25, <1>28, <1>29 DEF IInv

\* A write returns.
LEMMA ReturnStep ==
  ASSUME IInv, NEW g \in Gates, NEW w \in Writers, Return(g, w)
  PROVE  IInv'
<1> USE RemainAssumption
<1>1. UNCHANGED <<mgr, files, made, rfile, rdata, delivered, dead, asked>>
  BY DEF Return, fileVars, readVars
<1>2. cur[g][w] \in Recs
  BY DEF Return, IInv, TypeInv, WriterInv
<1>3. TypeInv'
  <2>1. side' \in [Gates -> [Writers -> Sides]]
    <3>1. "share" \in Sides
      BY DEF Sides
    <3> QED BY <3>1 DEF IInv, TypeInv, Return
  <2>2. pc' \in [Gates -> [Writers -> {"idle", "look", "new", "in", "done", "failed"}]]
    BY DEF IInv, TypeInv, Return
  <2>3. cur' \in [Gates -> [Writers -> Recs \cup {NoRec}]] /\ acked' \subseteq Recs
    BY <1>2 DEF IInv, TypeInv, Return
  <2> QED BY <2>1, <2>2, <2>3 DEF IInv, TypeInv, Return, shareVars, procVars, fileVars, readVars
<1>4. \A h \in Gates, v \in Writers :
        \/ h = g /\ v = w /\ cur'[h][v] = NoRec /\ pc'[h][v] = "idle"
        \/ ~(h = g /\ v = w) /\ cur'[h][v] = cur[h][v] /\ pc'[h][v] = pc[h][v]
  BY DEF Return, IInv, TypeInv
<1>5. WriterInv'
  <2>1. \A r \in (Recs \ asked)' : Untouched(r)'
    BY <1>1 DEF IInv, WriterInv, Untouched
  <2>2. \A h \in Gates, v \in Writers : pc'[h][v] \in {"look", "new", "in"} => Untouched(cur[h][v])'
    BY <1>1, <1>4 DEF IInv, WriterInv, Untouched
  <2>3. \A h \in Gates, v \in Writers : cur'[h][v] = NoRec <=> pc'[h][v] = "idle"
    BY <1>4 DEF IInv, WriterInv
  <2>4. \A h, k \in Gates, u, v \in Writers :
          cur'[h][v] = cur'[k][u] /\ cur'[h][v] # NoRec => h = k /\ u = v
    BY <1>4 DEF IInv, WriterInv
  <2>5. \A h \in Gates, v \in Writers : cur'[h][v] # NoRec => cur'[h][v] \in asked'
    BY <1>1, <1>4 DEF IInv, WriterInv
  <2> QED BY <2>1, <2>2, <2>3, <2>4, <2>5 DEF WriterInv
<1>6. KeptInv'
  <2>1. \A r \in Recs : Kept(r) => Kept(r)'
    BY <1>1 DEF Kept
  <2>2. \A r \in (acked \ dead)' : Kept(r)
    BY <1>1 DEF IInv, KeptInv, Return
  <2>3. \A h \in Gates, v \in Writers : pc'[h][v] = "done" /\ cur'[h][v] \notin dead' =>
          cur'[h][v] = cur[h][v] /\ Kept(cur[h][v])
    BY <1>1, <1>4 DEF IInv, KeptInv
  <2> QED BY <1>1, <1>3, <2>1, <2>2, <2>3 DEF KeptInv, Kept, TypeInv
<1>7. ReaderInv'
  BY DEF Return, readVars, IInv, ReaderInv
<1> QED BY <1>1, <1>3, <1>5, <1>6, <1>7, SameFiles DEF IInv

\* Steps that touch neither records nor files.
LEMMA LookStep ==
  ASSUME IInv, NEW g \in Gates, NEW w \in Writers, Look(g, w)
  PROVE  IInv'
<1>1. UNCHANGED <<mgr, files, made, rfile, rdata, rpc, delivered, cur, asked, acked, dead>>
  BY DEF Look, fileVars, readVars
<1>2. PICK p \in {"in", "new"} : pc' = [pc EXCEPT ![g][w] = p] /\ pc[g][w] = "look"
  BY DEF Look
<1>3. pc' \in [Gates -> [Writers -> {"idle", "look", "new", "in", "done", "failed"}]]
  BY <1>2 DEF IInv, TypeInv
<1>4. TypeInv'
  BY <1>1, <1>3 DEF Look, IInv, TypeInv, shareVars, procVars, fileVars, readVars
<1> QED BY <1>1, <1>2, <1>4, SameFiles, CallGoesOn

\* Processes, mounts and readers come and go.
LEMMA QuietStep ==
  ASSUME IInv, NEW g \in Gates,
         \/ ExitCall(g) \/ ExitSwap(g) \/ Restart(g) \/ ShareDown(g) \/ ShareUp(g) \/ ReadCall(g)
         \/ ScanEnd(g)
  PROVE  IInv'
<1> USE RemainAssumption
<1>1. UNCHANGED <<mgr, files, made, rfile, rdata, delivered, pc, side, cur, asked, acked, dead>>
  BY DEF ExitCall, ExitSwap, Restart, ShareDown, ShareUp, ReadCall, ScanEnd, fileVars, writeVars, readVars
<1>2. online' \in [Gates -> BOOLEAN] /\ root' = root
  BY DEF ExitCall, ExitSwap, Restart, ShareDown, ShareUp, ReadCall, ScanEnd, shareVars, IInv, TypeInv
<1>3. up' \in [Gates -> BOOLEAN] /\ isExit' \in [Gates -> BOOLEAN] /\ undefined' = undefined
  BY DEF ExitCall, ExitSwap, Restart, ShareDown, ShareUp, ReadCall, ScanEnd, procVars, IInv, TypeInv
<1>4. exitPc' \in [Gates -> {"none", "swap", "done"} \cup Sides]
  BY DEF ExitCall, ExitSwap, Restart, ShareDown, ShareUp, ReadCall, ScanEnd, procVars, IInv, TypeInv, Sides
<1>5. rpc' \in [Gates -> {"idle", "return"} \cup Sides]
  BY ZenonT(30) DEF ExitCall, ExitSwap, Restart, ShareDown, ShareUp, ReadCall, ScanEnd, readVars, IInv, TypeInv, Sides
<1>6. tried' \in [Gates -> SUBSET Ids]
  BY DEF ExitCall, ExitSwap, Restart, ShareDown, ShareUp, ReadCall, ScanEnd, readVars, IInv, TypeInv
<1>7. faults' \in Nat /\ exits' \in Nat
  BY DEF ExitCall, ExitSwap, Restart, ShareDown, ShareUp, ReadCall, ScanEnd, Faulty, fileVars, procVars, IInv, TypeInv
<1>8. TypeInv'
  BY <1>1, <1>2, <1>3, <1>4, <1>5, <1>6, <1>7 DEF IInv, TypeInv
<1>9. WriterInv' /\ KeptInv'
  BY <1>1 DEF IInv, WriterInv, KeptInv, Untouched, Kept
<1>10. ReaderInv'
  BY DEF ExitCall, ExitSwap, Restart, ShareDown, ShareUp, ReadCall, ScanEnd, readVars, IInv, ReaderInv, TypeInv, Sides
<1> QED BY <1>1, <1>8, <1>9, <1>10, SameFiles DEF IInv

\* A reader claims a published file, which no other reader has.
LEMMA ClaimStep ==
  ASSUME IInv, NEW g \in Gates, NEW e \in Ids, Claim(g, e)
  PROVE  IInv'
<1> USE RemainAssumption
<1>1. /\ rfile[g] = 0 /\ files[e].ext = "ok"
      /\ files' = [files EXCEPT ![e].ext = "bak"] /\ rfile' = [rfile EXCEPT ![g] = e]
      /\ UNCHANGED <<shareVars, procVars, mgr, made, faults, writeVars, rpc, tried, rdata, delivered, dead>>
  BY DEF Claim, OkFiles
<1>15. "bak" \in Exts /\ files[e] \in File
  BY DEF Exts, IInv, TypeInv
<1>2. files' \in [Ids -> File]
  BY <1>1, <1>15, Renamed DEF IInv, TypeInv
<1>3. \A f \in Ids : /\ f # e => files'[f] = files[f]
                     /\ files'[f].recs = files[f].recs
                     /\ f = e => files'[f].ext = "bak"
  BY <1>1, <1>15, Renamed DEF IInv, TypeInv
<1>4. \A h \in Gates : rfile'[h] = IF h = g THEN e ELSE rfile[h]
  BY <1>1 DEF IInv, TypeInv
<1>5. TypeInv'
  <2>1. rfile' \in [Gates -> Ids \cup {0}]
    BY <1>1 DEF IInv, TypeInv
  <2> QED BY <1>1, <1>2, <2>1 DEF IInv, TypeInv, shareVars, procVars, writeVars
<1>6. \A h \in Gates : rfile[h] # e
  BY <1>1 DEF IInv, FileInv, Ids
<1>7. e <= made
  <2>1. ~(e > made)
    BY <1>1 DEF IInv, FileInv, NoFile
  <2> QED BY <2>1 DEF IInv, TypeInv, Ids
<1>8. FileInv'
  <2>1. \A f \in Ids : f > made' => files'[f] = NoFile
    BY <1>1, <1>3, <1>7 DEF IInv, TypeInv, FileInv, Ids
  <2>2. ASSUME NEW h \in Gates, NEW t \in Sides, mgr'[h][t].file # 0
        PROVE  mgr'[h][t].file <= made' /\ files'[mgr'[h][t].file].ext = "tmp"
    <3>1. mgr[h][t].file \in Ids /\ mgr[h][t].file <= made /\ files[mgr[h][t].file].ext = "tmp"
      BY <1>1, <2>2 DEF IInv, TypeInv, FileInv, Mgr
    <3> QED BY <1>1, <1>3, <3>1
  <2>3. \A h, k \in Gates, s, t \in Sides :
          mgr'[h][s].file = mgr'[k][t].file /\ mgr'[h][s].file # 0 => h = k /\ s = t
    BY <1>1 DEF IInv, FileInv
  <2>4. \A h \in Gates : rfile'[h] # 0 => files'[rfile'[h]].ext = "bak"
    <3>1. \A h \in Gates : rfile[h] # 0 => rfile[h] \in Ids /\ files[rfile[h]].ext = "bak"
      BY DEF IInv, FileInv, TypeInv
    <3> QED BY <1>3, <1>4, <1>6, <3>1
  <2>5. \A h, k \in Gates : rfile'[h] = rfile'[k] /\ rfile'[h] # 0 => h = k
    BY <1>4, <1>6 DEF IInv, FileInv
  <2> QED BY <2>1, <2>2, <2>3, <2>4, <2>5 DEF FileInv
<1>9. \A f \in Ids : Spent(f) => Spent(f)'
  BY <1>1, <1>3, <1>4 DEF Spent
<1>10. RecInv'
  BY <1>1, <1>3, <1>9 DEF IInv, RecInv, AllSpent
<1>11. WriterInv'
  BY <1>1, <1>3 DEF IInv, WriterInv, Untouched, writeVars
<1>12. \A r : Kept(r) => Kept(r)'
  BY <1>1, <1>3 DEF Kept
<1>13. KeptInv'
  BY <1>1, <1>12 DEF IInv, KeptInv, writeVars
<1>14. ReaderInv'
  BY <1>1, <1>4 DEF Claim, IInv, ReaderInv
<1> QED BY <1>5, <1>8, <1>10, <1>11, <1>13, <1>14 DEF IInv

\* A claimed file could not be read.
LEMMA ReadFailsStep ==
  ASSUME IInv, NEW g \in Gates, ReadFails(g)
  PROVE  IInv'
<1> USE RemainAssumption
<1>0. PICK e \in Ids : e = rfile[g]
  BY DEF ReadFails, IInv, TypeInv
<1>1. PICK ext \in {"err", "ok", "bak"} :
      /\ e # 0 /\ files' = [files EXCEPT ![e].ext = ext]
      /\ rfile' = [rfile EXCEPT ![g] = 0]
      /\ tried' = [tried EXCEPT ![g] = @ \cup {e}]
      /\ UNCHANGED <<shareVars, procVars, mgr, made, writeVars, rpc, rdata, delivered, dead>>
  BY <1>0 DEF ReadFails
<1>14. faults' \in Nat
  BY DEF ReadFails, Faulty, IInv, TypeInv
<1>15. e \in Ids /\ files[e].ext = "bak" /\ \A h \in Gates : h # g => rfile[h] # e
  BY <1>0, <1>1 DEF IInv, TypeInv, FileInv
<1>18. ext \in Exts /\ files[e] \in File
  BY DEF Exts, IInv, TypeInv
<1>2. files' \in [Ids -> File]
  BY <1>1, <1>18, Renamed DEF IInv, TypeInv
<1>3. \A f \in Ids : /\ f # e => files'[f] = files[f]
                     /\ files'[f].recs = files[f].recs
                     /\ f = e => files'[f].ext = ext
  BY <1>1, <1>18, Renamed DEF IInv, TypeInv
<1>4. \A h \in Gates : rfile'[h] = IF h = g THEN 0 ELSE rfile[h]
  BY <1>1 DEF IInv, TypeInv
<1>5. TypeInv'
  <2>1. rfile' \in [Gates -> Ids \cup {0}] /\ tried' \in [Gates -> SUBSET Ids]
    BY <1>1, <1>15 DEF IInv, TypeInv
  <2> QED BY <1>1, <1>2, <1>14, <2>1 DEF IInv, TypeInv, shareVars, procVars, writeVars
<1>7. e <= made
  <2>1. ~(e > made)
    BY <1>15 DEF IInv, FileInv, NoFile
  <2> QED BY <1>15, <2>1 DEF IInv, TypeInv, Ids
<1>8. FileInv'
  <2>1. \A f \in Ids : f > made' => files'[f] = NoFile
    BY <1>1, <1>3, <1>7 DEF IInv, TypeInv, FileInv, Ids
  <2>2. ASSUME NEW h \in Gates, NEW t \in Sides, mgr'[h][t].file # 0
        PROVE  mgr'[h][t].file <= made' /\ files'[mgr'[h][t].file].ext = "tmp"
    <3>1. mgr[h][t].file \in Ids /\ mgr[h][t].file <= made /\ files[mgr[h][t].file].ext = "tmp"
      BY <1>1, <2>2 DEF IInv, TypeInv, FileInv, Mgr
    <3> QED BY <1>1, <1>3, <1>15, <3>1
  <2>3. \A h, k \in Gates, s, t \in Sides :
          mgr'[h][s].file = mgr'[k][t].file /\ mgr'[h][s].file # 0 => h = k /\ s = t
    BY <1>1 DEF IInv, FileInv
  <2>4. \A h \in Gates : rfile'[h] # 0 => files'[rfile'[h]].ext = "bak"
    <3>1. \A h \in Gates : rfile[h] # 0 => rfile[h] \in Ids /\ files[rfile[h]].ext = "bak"
      BY DEF IInv, FileInv, TypeInv
    <3> QED BY <1>3, <1>4, <1>15, <3>1
  <2>5. \A h, k \in Gates : rfile'[h] = rfile'[k] /\ rfile'[h] # 0 => h = k
    BY <1>4 DEF IInv, FileInv
  <2> QED BY <2>1, <2>2, <2>3, <2>4, <2>5 DEF FileInv
<1>16. ~Spent(e)
  BY <1>0 DEF Spent
<1>9. \A f \in Ids : Spent(f) => Spent(f)'
  BY <1>1, <1>3, <1>4, <1>16 DEF Spent, Ids
<1>10. RecInv'
  BY <1>1, <1>3, <1>9 DEF IInv, RecInv, AllSpent
<1>11. WriterInv'
  BY <1>1, <1>3 DEF IInv, WriterInv, Untouched, writeVars
<1>12. \A r : Kept(r) => Kept(r)'
  BY <1>1, <1>3 DEF Kept
<1>13. KeptInv'
  BY <1>1, <1>12 DEF IInv, KeptInv, writeVars
<1>17. ReaderInv'
  BY <1>1, <1>4 DEF IInv, ReaderInv
<1> QED BY <1>5, <1>8, <1>10, <1>11, <1>13, <1>17 DEF IInv

\* A claimed file is read: from now on its records are with the reader only.
LEMMA ReadFileStep ==
  ASSUME IInv, NEW g \in Gates, ReadFile(g)
  PROVE  IInv'
<1> USE RemainAssumption
<1>0. PICK e \in Ids : e = rfile[g]
  BY DEF ReadFile, IInv, TypeInv
<1>1. /\ e # 0
      /\ files' = files \/ files' = [files EXCEPT ![e] = [NoFile EXCEPT !.ext = "gone"]]
      /\ rfile' = [rfile EXCEPT ![g] = 0] /\ rdata' = [rdata EXCEPT ![g] = files[e].recs]
      /\ tried' = [tried EXCEPT ![g] = {}] /\ rpc' = [rpc EXCEPT ![g] = "return"]
      /\ UNCHANGED <<shareVars, procVars, mgr, made, writeVars, delivered, dead>>
  BY <1>0 DEF ReadFile
<1>14. faults' \in Nat
  BY DEF ReadFile, Faulty, IInv, TypeInv
<1>15. e \in Ids /\ files[e].ext = "bak" /\ \A h \in Gates : h # g => rfile[h] # e
  BY <1>0, <1>1 DEF IInv, TypeInv, FileInv
<1>17. rdata[g] = {} /\ rpc[g] \in Sides
  BY <1>0, <1>1 DEF IInv, ReaderInv, Sides
<1>2. files' \in [Ids -> File]
  <2>1. [NoFile EXCEPT !.ext = "gone"] \in File
    BY NoFileType DEF File, Exts
  <2> QED BY <1>1, <2>1 DEF IInv, TypeInv
<1>3. \A f \in Ids : /\ f # e => files'[f] = files[f]
                     /\ files'[f].recs \subseteq files[f].recs
                     /\ f = e => files'[f].ext \in {"bak", "gone"}
  <2>1. [NoFile EXCEPT !.ext = "gone"].recs = {} /\ [NoFile EXCEPT !.ext = "gone"].ext = "gone"
    BY DEF NoFile
  <2> QED BY <1>1, <1>15, <2>1 DEF IInv, TypeInv
<1>4. /\ rfile'[g] = 0 /\ rdata'[g] = files[e].recs /\ rpc'[g] = "return"
      /\ \A h \in Gates : h # g => /\ rfile'[h] = rfile[h] /\ rdata'[h] = rdata[h]
                                   /\ rpc'[h] = rpc[h]
  BY <1>1 DEF IInv, TypeInv
<1>5. TypeInv'
  <2>1. rfile' \in [Gates -> Ids \cup {0}] /\ tried' \in [Gates -> SUBSET Ids]
    BY <1>1, <1>15 DEF IInv, TypeInv
  <2>2. rdata' \in [Gates -> SUBSET Recs] /\ rpc' \in [Gates -> {"idle", "return"} \cup Sides]
    BY <1>1, <1>15 DEF IInv, TypeInv, File
  <2> QED BY <1>1, <1>2, <1>14, <2>1, <2>2 DEF IInv, TypeInv, shareVars, procVars, writeVars
<1>7. e <= made
  <2>1. ~(e > made)
    BY <1>15 DEF IInv, FileInv, NoFile
  <2> QED BY <1>15, <2>1 DEF IInv, TypeInv, Ids
<1>8. FileInv'
  <2>1. \A f \in Ids : f > made' => files'[f] = NoFile
    BY <1>1, <1>3, <1>7 DEF IInv, TypeInv, FileInv, Ids
  <2>2. ASSUME NEW h \in Gates, NEW t \in Sides, mgr'[h][t].file # 0
        PROVE  mgr'[h][t].file <= made' /\ files'[mgr'[h][t].file].ext = "tmp"
    <3>1. mgr[h][t].file \in Ids /\ mgr[h][t].file <= made /\ files[mgr[h][t].file].ext = "tmp"
      BY <1>1, <2>2 DEF IInv, TypeInv, FileInv, Mgr
    <3> QED BY <1>1, <1>3, <1>15, <3>1
  <2>3. \A h, k \in Gates, s, t \in Sides :
          mgr'[h][s].file = mgr'[k][t].file /\ mgr'[h][s].file # 0 => h = k /\ s = t
    BY <1>1 DEF IInv, FileInv
  <2>4. \A h \in Gates : rfile'[h] # 0 => files'[rfile'[h]].ext = "bak"
    <3>1. \A h \in Gates : rfile[h] # 0 => rfile[h] \in Ids /\ files[rfile[h]].ext = "bak"
      BY DEF IInv, FileInv, TypeInv
    <3> QED BY <1>3, <1>4, <1>15, <3>1
  <2>5. \A h, k \in Gates : rfile'[h] = rfile'[k] /\ rfile'[h] # 0 => h = k
    BY <1>4 DEF IInv, FileInv
  <2> QED BY <2>1, <2>2, <2>3, <2>4, <2>5 DEF FileInv
<1>16. ~Spent(e) /\ Spent(e)'
  <2>1. ~Spent(e)
    BY <1>0 DEF Spent
  <2>2. files'[e].ext \notin {"tmp", "ok"} /\ \A h \in Gates : rfile'[h] # e
    BY <1>1, <1>3, <1>4, <1>15
  <2> QED BY <2>1, <2>2 DEF Spent
<1>9. \A f \in Ids : Spent(f) => Spent(f)'
  <2> SUFFICES ASSUME NEW f \in Ids, Spent(f)
               PROVE  Spent(f)'
    OBVIOUS
  <2>1. f # e /\ files'[f] = files[f] /\ f # 0
    BY <1>3, <1>16 DEF Ids
  <2> QED BY <1>4, <2>1 DEF Spent
<1>18. \A r \in Recs : AllSpent(r) => AllSpent(r)'
  BY <1>3, <1>9 DEF AllSpent
<1>19. \A r \in Recs : r \in files[e].recs =>
         /\ delivered[r] = 0 /\ AllSpent(r)' /\ \A h \in Gates : r \notin rdata[h]
  <2> SUFFICES ASSUME NEW r \in Recs, r \in files[e].recs
               PROVE  /\ delivered[r] = 0 /\ AllSpent(r)' /\ \A h \in Gates : r \notin rdata[h]
    OBVIOUS
  <2>1. ~AllSpent(r)
    BY <1>16 DEF AllSpent
  <2>2. delivered[r] = 0
    BY <2>1 DEF IInv, TypeInv, RecInv
  <2>3. \A h \in Gates : r \notin rdata[h]
    BY <2>1 DEF IInv, RecInv
  <2>4. \A f \in Ids : r \in files'[f].recs => f = e
    BY <1>3 DEF IInv, RecInv
  <2>5. AllSpent(r)'
    BY <1>16, <2>4 DEF AllSpent
  <2> QED BY <2>2, <2>3, <2>5
<1>10. RecInv'
  <2>1. \A d, f \in Ids, r \in Recs : r \in files'[d].recs /\ r \in files'[f].recs => d = f
    BY <1>3 DEF IInv, RecInv
  <2>2. ASSUME NEW h \in Gates, NEW r \in Recs, r \in rdata'[h]
        PROVE  AllSpent(r)' /\ delivered'[r] = 0 /\ \A k \in Gates : r \in rdata'[k] => h = k
    <3>1. CASE h = g
      BY <1>1, <1>4, <1>19, <2>2, <3>1
    <3>2. CASE h # g
      <4>1. r \in rdata[h] /\ r \notin files[e].recs
        BY <1>4, <1>19, <2>2, <3>2
      <4> QED BY <1>1, <1>4, <1>18, <4>1 DEF IInv, RecInv
    <3> QED BY <3>1, <3>2
  <2>3. \A r \in Recs : delivered'[r] <= 1 /\ (delivered'[r] > 0 => AllSpent(r)')
    BY <1>1, <1>18 DEF IInv, RecInv
  <2> QED BY <2>1, <2>2, <2>3 DEF RecInv
<1>20. \A r \in Recs : Untouched(r) => Untouched(r)'
  BY <1>1, <1>3, <1>4 DEF Untouched
<1>11. WriterInv'
  <2>1. \A r \in (Recs \ asked)' : Untouched(r)'
    BY <1>1, <1>20 DEF IInv, WriterInv, writeVars
  <2>2. \A h \in Gates, v \in Writers : pc[h][v] # "idle" => cur[h][v] \in Recs
    BY DEF IInv, TypeInv, WriterInv
  <2>3. \A h \in Gates, v \in Writers : pc'[h][v] \in {"look", "new", "in"} => Untouched(cur[h][v])'
    BY <1>1, <1>20, <2>2 DEF IInv, WriterInv, writeVars
  <2> QED BY <1>1, <2>1, <2>3 DEF IInv, WriterInv, writeVars
<1>12. \A r \in Recs : Kept(r) => Kept(r)'
  <2> SUFFICES ASSUME NEW r \in Recs, Kept(r)
               PROVE  Kept(r)'
    OBVIOUS
  <2>1. CASE r \in files[e].recs
    BY <1>4, <2>1 DEF Kept
  <2>2. CASE r \notin files[e].recs
    <3>1. ASSUME NEW f \in Ids, files[f].ext # "gone", r \in files[f].recs
          PROVE  Kept(r)'
      BY <1>3, <2>2, <3>1 DEF Kept
    <3>2. ASSUME NEW h \in Gates, r \in rdata[h]
          PROVE  Kept(r)'
      BY <1>4, <1>17, <3>2 DEF Kept
    <3> QED BY <1>1, <3>1, <3>2 DEF Kept
  <2> QED BY <2>1, <2>2
<1>13. KeptInv'
  <2>1. \A h \in Gates, v \in Writers : pc[h][v] # "idle" => cur[h][v] \in Recs
    BY DEF IInv, TypeInv, WriterInv
  <2>2. \A r \in (acked \ dead)' : Kept(r)'
    BY <1>1, <1>12 DEF IInv, KeptInv, TypeInv, writeVars
  <2>3. \A h \in Gates, v \in Writers : pc'[h][v] = "done" /\ cur'[h][v] \notin dead' => Kept(cur[h][v])'
    BY <1>1, <1>12, <2>1 DEF IInv, KeptInv, writeVars
  <2> QED BY <2>2, <2>3 DEF KeptInv
<1>21. ReaderInv'
  BY <1>4 DEF IInv, ReaderInv
<1> QED BY <1>5, <1>8, <1>10, <1>11, <1>13, <1>21 DEF IInv

\* The records read are delivered.
LEMMA ReadReturnStep ==
  ASSUME IInv, NEW g \in Gates, ReadReturn(g)
  PROVE  IInv'
<1> USE RemainAssumption
<1>1. /\ delivered' = [r \in Recs |-> delivered[r] + IF r \in rdata[g] THEN 1 ELSE 0]
      /\ rdata' = [rdata EXCEPT ![g] = {}] /\ rpc' = [rpc EXCEPT ![g] = "idle"]
      /\ UNCHANGED <<shareVars, procVars, fileVars, writeVars, tried, rfile, dead>>
      /\ rpc[g] = "return"
  BY DEF ReadReturn
<1>2. rdata'[g] = {} /\ rpc'[g] = "idle"
        /\ \A h \in Gates : h # g => rdata'[h] = rdata[h] /\ rpc'[h] = rpc[h]
  BY <1>1 DEF IInv, TypeInv
<1>3. \A r \in Recs : \/ r \in rdata[g] /\ delivered[r] = 0 /\ delivered'[r] = 1
                      \/ r \notin rdata[g] /\ delivered'[r] = delivered[r]
  BY <1>1 DEF IInv, TypeInv, RecInv
<1>4. TypeInv'
  <2>1. delivered' \in [Recs -> Nat]
    BY <1>1 DEF IInv, TypeInv
  <2>2. rdata' \in [Gates -> SUBSET Recs] /\ rpc' \in [Gates -> {"idle", "return"} \cup Sides]
    BY <1>1 DEF IInv, TypeInv
  <2> QED BY <1>1, <2>1, <2>2 DEF IInv, TypeInv, shareVars, procVars, fileVars, writeVars
<1>5. FileInv'
  BY <1>1 DEF IInv, FileInv, fileVars
<1>6. \A r \in Recs : AllSpent(r) => AllSpent(r)'
  BY <1>1 DEF AllSpent, Spent, fileVars
<1>7. RecInv'
  <2>1. \A d, f \in Ids, r \in Recs : r \in files'[d].recs /\ r \in files'[f].recs => d = f
    BY <1>1 DEF IInv, RecInv, fileVars
  <2>2. ASSUME NEW h \in Gates, NEW r \in Recs, r \in rdata'[h]
        PROVE  AllSpent(r)' /\ delivered'[r] = 0 /\ \A k \in Gates : r \in rdata'[k] => h = k
    <3>1. r \in rdata[h] /\ h # g /\ r \notin rdata[g]
      BY <1>2, <2>2 DEF IInv, RecInv
    <3> QED BY <1>2, <1>3, <1>6, <3>1 DEF IInv, RecInv
  <2>3. \A r \in Recs : delivered'[r] <= 1 /\ (delivered'[r] > 0 => AllSpent(r)')
    BY <1>3, <1>6 DEF IInv, RecInv, TypeInv
  <2> QED BY <2>1, <2>2, <2>3 DEF RecInv
<1>8. \A r \in Recs : (Untouched(r) => Untouched(r)') /\ (Kept(r) => Kept(r)')
  <2> SUFFICES ASSUME NEW r \in Recs
               PROVE  (Untouched(r) => Untouched(r)') /\ (Kept(r) => Kept(r)')
    OBVIOUS
  <2>1. Untouched(r) => Untouched(r)'
    BY <1>1, <1>2, <1>3 DEF Untouched, fileVars
  <2>2. ASSUME NEW h \in Gates, r \in rdata[h]
        PROVE  Kept(r)'
    BY <1>2, <1>3, <2>2 DEF Kept
  <2>3. ASSUME delivered[r] > 0
        PROVE  Kept(r)'
    BY <1>3, <2>3 DEF Kept
  <2>4. ASSUME NEW f \in Ids, files[f].ext # "gone", r \in files[f].recs
        PROVE  Kept(r)'
    BY <1>1, <2>4 DEF Kept, fileVars
  <2> QED BY <2>1, <2>2, <2>3, <2>4 DEF Kept
<1>9. \A h \in Gates, v \in Writers : pc[h][v] # "idle" => cur[h][v] \in Recs
  BY DEF IInv, TypeInv, WriterInv
<1>10. WriterInv'
  <2>1. \A r \in (Recs \ asked)' : Untouched(r)'
    BY <1>1, <1>8 DEF IInv, WriterInv, writeVars
  <2>3. \A h \in Gates, v \in Writers : pc'[h][v] \in {"look", "new", "in"} => Untouched(cur[h][v])'
    BY <1>1, <1>8, <1>9 DEF IInv, WriterInv, writeVars
  <2> QED BY <1>1, <2>1, <2>3 DEF IInv, WriterInv, writeVars
<1>11. KeptInv'
  <2>2. \A r \in (acked \ dead)' : Kept(r)'
    BY <1>1, <1>8 DEF IInv, KeptInv, TypeInv, writeVars
  <2>3. \A h \in Gates, v \in Writers : pc'[h][v] = "done" /\ cur'[h][v] \notin dead' => Kept(cur[h][v])'
    BY <1>1, <1>8, <1>9 DEF IInv, KeptInv, writeVars
  <2> QED BY <2>2, <2>3 DEF KeptInv
<1>12. ReaderInv'
  BY <1>1, <1>2 DEF IInv, ReaderInv, Sides
<1> QED BY <1>4, <1>5, <1>7, <1>10, <1>11, <1>12 DEF IInv

\* A process dies; what its reader had read dies with it.
LEMMA DiesStep ==
  ASSUME IInv, NEW g \in Gates, Crash(g) \/ UndefinedUse(g)
  PROVE  IInv'
<1> USE RemainAssumption
<1>1. /\ up' = [up EXCEPT ![g] = FALSE]
      /\ mgr' = [mgr EXCEPT ![g] = [s \in Sides |-> NoMgr]]
      /\ pc' = [pc EXCEPT ![g] = [w \in Writers |-> "idle"]]
      /\ side' = [side EXCEPT ![g] = [w \in Writers |-> "share"]]
      /\ cur' = [cur EXCEPT ![g] = [w \in Writers |-> NoRec]]
      /\ exitPc' = [exitPc EXCEPT ![g] = "none"]
      /\ isExit' = [isExit EXCEPT ![g] = FALSE]
      /\ dead' = dead \cup rdata[g]
      /\ rpc' = [rpc EXCEPT ![g] = "idle"]
      /\ tried' = [tried EXCEPT ![g] = {}]
      /\ rfile' = [rfile EXCEPT ![g] = 0]
      /\ rdata' = [rdata EXCEPT ![g] = {}]
      /\ UNCHANGED <<shareVars, files, made, asked, acked, delivered, exits>>
  BY DEF Crash, UndefinedUse, Dies
<1>11. faults' = faults \/ faults' = faults + 1
  BY DEF Crash, UndefinedUse, Faulty
<1>12. undefined' = undefined \/ undefined' = TRUE
  BY DEF Crash, UndefinedUse
<1>13. faults' \in Nat
  BY <1>11 DEF IInv, TypeInv
<1>2. faults' \in Nat /\ undefined' \in BOOLEAN
  BY <1>12, <1>13 DEF IInv, TypeInv
<1>3. \A h \in Gates :
        \/ /\ h = g /\ rfile'[h] = 0 /\ rdata'[h] = {} /\ rpc'[h] = "idle"
           /\ \A w \in Writers : cur'[h][w] = NoRec /\ pc'[h][w] = "idle"
           /\ \A s \in Sides : mgr'[h][s].file = 0
        \/ /\ h # g /\ rfile'[h] = rfile[h] /\ rdata'[h] = rdata[h] /\ rpc'[h] = rpc[h]
           /\ mgr'[h] = mgr[h] /\ cur'[h] = cur[h] /\ pc'[h] = pc[h]
  BY <1>1, NewMgrType DEF IInv, TypeInv
<1>4. TypeInv'
  <2>1. mgr' \in [Gates -> [Sides -> Mgr]]
    BY <1>1, NewMgrType DEF IInv, TypeInv
  <2>2. pc' \in [Gates -> [Writers -> {"idle", "look", "new", "in", "done", "failed"}]]
    BY <1>1 DEF IInv, TypeInv
  <2>3. side' \in [Gates -> [Writers -> Sides]]
    <3>1. "share" \in Sides
      BY DEF Sides
    <3> QED BY <1>1, <3>1 DEF IInv, TypeInv
  <2>4. cur' \in [Gates -> [Writers -> Recs \cup {NoRec}]]
    BY <1>1 DEF IInv, TypeInv
  <2>5. /\ up' \in [Gates -> BOOLEAN] /\ isExit' \in [Gates -> BOOLEAN]
        /\ exitPc' \in [Gates -> {"none", "swap", "done"} \cup Sides]
    BY <1>1 DEF IInv, TypeInv
  <2>6. /\ rpc' \in [Gates -> {"idle", "return"} \cup Sides] /\ tried' \in [Gates -> SUBSET Ids]
        /\ rfile' \in [Gates -> Ids \cup {0}] /\ rdata' \in [Gates -> SUBSET Recs]
        /\ dead' \subseteq Recs
    BY <1>1 DEF IInv, TypeInv
  <2> QED BY <1>1, <1>2, <2>1, <2>2, <2>3, <2>4, <2>5, <2>6 DEF IInv, TypeInv, shareVars
<1>5. FileInv'
  <2>1. \A f \in Ids : f > made' => files'[f] = NoFile
    BY <1>1 DEF IInv, FileInv
  <2>2. \A h \in Gates, t \in Sides : mgr'[h][t].file # 0 =>
          mgr'[h][t].file <= made' /\ files'[mgr'[h][t].file].ext = "tmp"
    BY <1>1, <1>3 DEF IInv, FileInv
  <2>3. \A h, k \in Gates, s, t \in Sides :
          mgr'[h][s].file = mgr'[k][t].file /\ mgr'[h][s].file # 0 => h = k /\ s = t
    BY <1>3 DEF IInv, FileInv
  <2>4. \A h \in Gates : rfile'[h] # 0 => files'[rfile'[h]].ext = "bak"
    BY <1>1, <1>3 DEF IInv, FileInv
  <2>5. \A h, k \in Gates : rfile'[h] = rfile'[k] /\ rfile'[h] # 0 => h = k
    BY <1>3 DEF IInv, FileInv
  <2> QED BY <2>1, <2>2, <2>3, <2>4, <2>5 DEF FileInv
<1>6. \A f \in Ids : Spent(f) => Spent(f)'
  <2> SUFFICES ASSUME NEW f \in Ids, Spent(f) PROVE Spent(f)'
    OBVIOUS
  <2>1. f # 0 /\ files'[f] = files[f]
    BY <1>1 DEF Ids
  <2> QED BY <1>3, <2>1 DEF Spent
<1>7. RecInv'
  <2>1. \A r \in Recs : AllSpent(r) => AllSpent(r)'
    BY <1>1, <1>6 DEF AllSpent
  <2>2. \A h \in Gates, r \in Recs : r \in rdata'[h] => r \in rdata[h]
    BY <1>3
  <2>3. \A d, f \in Ids, r \in Recs : r \in files'[d].recs /\ r \in files'[f].recs => d = f
    BY <1>1 DEF IInv, RecInv
  <2>4. \A h \in Gates, r \in Recs : r \in rdata'[h] =>
          AllSpent(r)' /\ delivered'[r] = 0 /\ \A k \in Gates : r \in rdata'[k] => h = k
    BY <1>1, <2>1, <2>2 DEF IInv, RecInv
  <2>5. \A r \in Recs : delivered'[r] <= 1 /\ (delivered'[r] > 0 => AllSpent(r)')
    BY <1>1, <2>1 DEF IInv, RecInv
  <2> QED BY <2>3, <2>4, <2>5 DEF RecInv
<1>8. WriterInv'
  <2>1. \A r \in Recs : Untouched(r) => Untouched(r)'
    BY <1>1, <1>3 DEF Untouched
  <2>2. \A r \in (Recs \ asked)' : Untouched(r)'
    BY <1>1, <2>1 DEF IInv, WriterInv
  <2>3. ASSUME NEW h \in Gates, NEW v \in Writers, pc'[h][v] \in {"look", "new", "in"}
        PROVE  Untouched(cur[h][v])'
    <3>1. pc[h][v] \in {"look", "new", "in"} /\ cur'[h][v] = cur[h][v]
      BY <1>3, <2>3
    <3>2. cur[h][v] \in Recs /\ Untouched(cur[h][v])
      BY <3>1 DEF IInv, TypeInv, WriterInv
    <3> QED BY <1>1, <1>3, <3>1, <3>2 DEF Untouched
  <2>4. \A h \in Gates, v \in Writers : cur'[h][v] = NoRec <=> pc'[h][v] = "idle"
    BY <1>3 DEF IInv, WriterInv
  <2>5. \A h \in Gates, v \in Writers : cur'[h][v] # NoRec => cur'[h][v] \in asked'
    BY <1>1, <1>3 DEF IInv, WriterInv
  <2>6. \A h, k \in Gates, u, v \in Writers :
          cur'[h][v] = cur'[k][u] /\ cur'[h][v] # NoRec => h = k /\ u = v
    BY <1>3 DEF IInv, WriterInv
  <2> QED BY <2>2, <2>3, <2>4, <2>5, <2>6 DEF WriterInv
<1>9. KeptInv'
  <2>1. \A r : r \notin dead' /\ Kept(r) => Kept(r)'
    <3> SUFFICES ASSUME NEW r, r \notin dead', Kept(r) PROVE Kept(r)'
      OBVIOUS
    <3>1. r \notin rdata[g]
      BY <1>1
    <3> QED BY <1>1, <1>3, <3>1 DEF Kept
  <2>2. \A r \in (acked \ dead)' : Kept(r)'
    BY <1>1, <2>1 DEF IInv, KeptInv
  <2>3. ASSUME NEW h \in Gates, NEW v \in Writers, pc'[h][v] = "done", cur'[h][v] \notin dead'
        PROVE  Kept(cur[h][v])'
    <3>1. pc[h][v] = "done" /\ cur'[h][v] = cur[h][v] /\ cur[h][v] \notin dead
      BY <1>1, <1>3, <2>3
    <3>2. Kept(cur[h][v])
      BY <3>1 DEF IInv, KeptInv
    <3>3. cur[h][v] \notin rdata[g]
      BY <1>1, <2>3, <3>1
    <3> QED BY <1>1, <1>3, <3>1, <3>2, <3>3 DEF Kept
  <2> QED BY <2>2, <2>3 DEF KeptInv
<1>10. ReaderInv'
  BY <1>3 DEF IInv, ReaderInv
<1> QED BY <1>4, <1>5, <1>7, <1>8, <1>9, <1>10 DEF IInv

\* The invariants hold at the start.
LEMMA Initially == Init => IInv /\ CalmInv
<1> SUFFICES ASSUME Init PROVE IInv /\ CalmInv
  OBVIOUS
<1> USE RemainAssumption
<1>1. mgr = [g \in Gates |-> [s \in Sides |-> NoMgr]] /\ files = [f \in Ids |-> NoFile] /\ made = 0
  BY DEF Init
<1>2. TypeInv
  <2>1. "share" \in Sides
    BY DEF Sides
  <2>2. mgr \in [Gates -> [Sides -> Mgr]] /\ files \in [Ids -> File]
    BY <1>1, NewMgrType, NoFileType
  <2>3. /\ online \in [Gates -> BOOLEAN] /\ root \in [Gates -> BOOLEAN]
        /\ up \in [Gates -> BOOLEAN] /\ isExit \in [Gates -> BOOLEAN]
        /\ exitPc \in [Gates -> {"none", "swap", "done"} \cup Sides]
    BY DEF Init
  <2>4. /\ pc \in [Gates -> [Writers -> {"idle", "look", "new", "in", "done", "failed"}]]
        /\ side \in [Gates -> [Writers -> Sides]]
        /\ cur \in [Gates -> [Writers -> Recs \cup {NoRec}]]
    BY <2>1 DEF Init
  <2>5. /\ rpc \in [Gates -> {"idle", "return"} \cup Sides] /\ tried \in [Gates -> SUBSET Ids]
        /\ rfile \in [Gates -> Ids \cup {0}] /\ rdata \in [Gates -> SUBSET Recs]
        /\ acked \subseteq Recs /\ asked \subseteq Recs /\ dead \subseteq Recs
    BY DEF Init
  <2>6. delivered \in [Recs -> Nat] /\ made \in 0 .. MaxFiles /\ faults \in Nat /\ exits \in Nat
    BY DEF Init
  <2>7. undefined \in BOOLEAN
    BY DEF Init
  <2> QED BY <2>2, <2>3, <2>4, <2>5, <2>6, <2>7 DEF TypeInv
<1>3. \A f \in Ids : files[f].recs = {}
  BY <1>1 DEF NoFile
<1>4. \A g \in Gates, s \in Sides : mgr[g][s].file = 0
  BY <1>1, NewMgrType
<1>5. FileInv /\ ReaderInv
  BY <1>1, <1>4 DEF Init, FileInv, ReaderInv
<1>6. RecInv
  BY <1>3 DEF Init, RecInv
<1>7. WriterInv /\ KeptInv
  BY <1>3 DEF Init, WriterInv, KeptInv, Untouched
<1>8. CalmInv
  BY <1>4 DEF Init, CalmInv, Placed, Owed
<1> QED BY <1>2, <1>5, <1>6, <1>7, <1>8 DEF IInv

\* Every step preserves the invariant.
LEMMA Inductive == IInv /\ [Next]_vars => IInv'
<1> SUFFICES ASSUME IInv, [Next]_vars PROVE IInv'
  OBVIOUS
<1>1. CASE UNCHANGED vars
  BY <1>1 DEF vars, shareVars, procVars, fileVars, writeVars, readVars, IInv, TypeInv, FileInv, ReaderInv,
     RecInv, AllSpent, Spent, WriterInv, Untouched, KeptInv, Kept
<1>2. CASE Next
  <2>1. PICK g \in Gates :
          \/ \E w \in Writers : WriterStep(g, w) \/ \E r \in Recs : Call(g, w, r)
          \/ \E s \in Sides : Check(g, s) \/ ExitClose(g, s) \/ ExitDrop(g, s)
          \/ ReaderStep(g) \/ ExitCall(g) \/ ExitSwap(g) \/ UndefinedUse(g)
          \/ Crash(g) \/ Restart(g) \/ ShareDown(g) \/ ShareUp(g)
    BY <1>2 DEF Next
  <2>2. ASSUME NEW w \in Writers, WriterStep(g, w) PROVE IInv'
    BY <2>2, LookStep, MakeStep, WriteDoneStep, DropStep, ReturnStep DEF WriterStep
  <2>3. ASSUME NEW w \in Writers, NEW r \in Recs, Call(g, w, r) PROVE IInv'
    BY <2>3, CallStep
  <2>4. ASSUME NEW s \in Sides, Check(g, s) \/ ExitClose(g, s) \/ ExitDrop(g, s) PROVE IInv'
    BY <2>4, DropStep
  <2>5. ASSUME ReaderStep(g) PROVE IInv'
    BY <2>5, QuietStep, ClaimStep, ReadFileStep, ReadFailsStep, ReadReturnStep DEF ReaderStep
  <2> QED BY <2>1, <2>2, <2>3, <2>4, <2>5, QuietStep, DiesStep
<1> QED BY <1>1, <1>2

-----------------------------------------------------------------------------
(* As long as nothing fails.                                                 *)

\* What an operation of a manager has done in which nothing failed: the file that
\* it had open is still open or is published, and the one it has open is where
\* its path leads.
Tidy(g, s, o) ==
  o.fl = 0 =>
    /\ mgr[g][s].file # 0 => o.m.file = mgr[g][s].file \/ o.fs[mgr[g][s].file].ext = "ok"
    /\ o.m.file # 0 => o.fs[o.m.file].dir = Where(g, s)

\* Failures are only added to; without one a file that is closed is published.
LEMMA TidyClose ==
  ASSUME NEW g \in Gates, NEW s \in Sides, NEW o, Good(g, s, o), Tidy(g, s, o), online[g],
         mgr[g][s].file \in Ids \cup {0}, NEW c \in CloseCurFile(g, s, o)
  PROVE  Tidy(g, s, c) /\ c.fl >= o.fl /\ (c.fl = 0 => c.m.file = 0)
<1> USE RemainAssumption
<1>1. o \in Out /\ o.fl \in Nat /\ o.fl + 1 > 0 /\ o.fl + 1 >= o.fl /\ o.fl + 1 # 0 /\ o.fl >= o.fl
  BY DEF Good, Out
<1>2. CASE o.m.file = 0
  BY <1>1, <1>2 DEF CloseCurFile
<1>3. CASE o.m.file # 0
  <2>1. o.m.file \in Ids
    BY <1>1, <1>3 DEF Out, Mgr
  <2>2. RootThere(g, s)
    BY DEF RootThere
  <2>3. \/ c = [[o EXCEPT !.ok = FALSE] EXCEPT !.fl = @ + 1]
        \/ c = [[o EXCEPT !.ok = FALSE] EXCEPT !.fl = @ + 1, !.m.dangling = TRUE]
        \/ c = [[o EXCEPT !.m = NewMgr] EXCEPT !.ok = FALSE, !.fl = @ + 1]
        \/ o.fs[o.m.file].dir = Where(g, s) /\ c = [[o EXCEPT !.m = NewMgr] EXCEPT !.fs = Published(o)]
        \/ o.fs[o.m.file].dir # Where(g, s) /\ c = [[o EXCEPT !.m = NewMgr] EXCEPT !.ok = FALSE]
    BY <1>3, <2>2 DEF CloseCurFile
  <2>4. ASSUME \/ c = [[o EXCEPT !.ok = FALSE] EXCEPT !.fl = @ + 1]
               \/ c = [[o EXCEPT !.ok = FALSE] EXCEPT !.fl = @ + 1, !.m.dangling = TRUE]
               \/ c = [[o EXCEPT !.m = NewMgr] EXCEPT !.ok = FALSE, !.fl = @ + 1]
        PROVE  c.fl = o.fl + 1
    BY <1>1, <2>4 DEF Out
  <2>5. CASE c.fl = o.fl + 1
    BY <1>1, <2>5 DEF Tidy
  <2>6. CASE c = [[o EXCEPT !.m = NewMgr] EXCEPT !.fs = Published(o)]
    <3>1. c.m = NewMgr /\ c.fs = Published(o) /\ c.fl = o.fl
      BY <1>1, <2>6 DEF Out
    <3>2. c.m.file = 0
      BY <3>1, NewMgrType
    <3>3. \A f \in Ids : /\ f = o.m.file => c.fs[f].ext = "ok"
                         /\ f # o.m.file => c.fs[f] = o.fs[f]
      BY <1>1, <2>1, <3>1 DEF Published, Out, File
    <3>4. ASSUME c.fl = 0, mgr[g][s].file # 0
          PROVE  c.fs[mgr[g][s].file].ext = "ok"
      <4>1. CASE mgr[g][s].file = o.m.file
        BY <2>1, <3>3, <4>1
      <4>2. CASE mgr[g][s].file # o.m.file
        <5>1. o.fs[mgr[g][s].file].ext = "ok"
          BY <3>1, <3>4, <4>2 DEF Tidy
        <5> QED BY <3>3, <3>4, <4>2, <5>1
      <4> QED BY <4>1, <4>2
    <3> QED BY <1>1, <3>1, <3>2, <3>4 DEF Tidy
  <2>7. CASE o.fs[o.m.file].dir # Where(g, s) /\ c = [[o EXCEPT !.m = NewMgr] EXCEPT !.ok = FALSE]
    <3>1. c.fl = o.fl /\ o.fl # 0
      BY <1>1, <1>3, <2>7 DEF Tidy, Out
    <3> QED BY <1>1, <3>1 DEF Tidy
  <2> QED BY <2>3, <2>4, <2>5, <2>6, <2>7
<1> QED BY <1>2, <1>3
\* switchToNewFile likewise
LEMMA TidySwitch ==
  ASSUME NEW g \in Gates, NEW s \in Sides, NEW o, Good(g, s, o), Tidy(g, s, o), online[g],
         made \in 0 .. MaxFiles, mgr[g][s].file \in 0 .. made,
         NEW c \in SwitchToNewFile(g, s, o)
  PROVE  Tidy(g, s, c) /\ c.fl >= o.fl
<1> USE RemainAssumption
<1>0. mgr[g][s].file \in Ids \cup {0}
  BY DEF Ids
<1>1. \/ c \in CloseCurFile(g, s, o) /\ ~c.ok
      \/ \E d \in CloseCurFile(g, s, o) : d.ok /\ c = [d EXCEPT !.ok = FALSE, !.fl = @ + 1]
      \/ \E d \in CloseCurFile(g, s, o) :
           /\ d.ok /\ d.n < MaxFiles
           /\ c = [d EXCEPT !.m = [NewMgr EXCEPT !.file = d.n + 1], !.n = @ + 1,
                     !.fs[d.n + 1] = [NoFile EXCEPT !.ext = "tmp", !.dir = Where(g, s)]]
  BY DEF SwitchToNewFile
<1>2. CASE c \in CloseCurFile(g, s, o) /\ ~c.ok
  BY <1>0, <1>2, TidyClose
<1>3. ASSUME NEW d \in CloseCurFile(g, s, o), d.ok, c = [d EXCEPT !.ok = FALSE, !.fl = @ + 1]
      PROVE  Tidy(g, s, c) /\ c.fl >= o.fl
  <2>1. d \in Out /\ o \in Out /\ d.fl >= o.fl
    BY <1>0, CloseGood, TidyClose DEF Good
  <2>2. c.fl = d.fl + 1
    BY <1>3, <2>1 DEF Out
  <2>3. c.fl # 0 /\ c.fl >= o.fl
    BY <2>1, <2>2 DEF Out
  <2> QED BY <2>3 DEF Tidy
<1>4. ASSUME NEW d \in CloseCurFile(g, s, o), d.ok, d.n < MaxFiles,
             c = [d EXCEPT !.m = [NewMgr EXCEPT !.file = d.n + 1], !.n = @ + 1,
                     !.fs[d.n + 1] = [NoFile EXCEPT !.ext = "tmp", !.dir = Where(g, s)]]
      PROVE  Tidy(g, s, c) /\ c.fl >= o.fl
  <2> DEFINE nf == [NoFile EXCEPT !.ext = "tmp", !.dir = Where(g, s)]
             nm == [NewMgr EXCEPT !.file = d.n + 1]
  <2>1. d \in Out /\ made <= d.n /\ d.fl >= o.fl /\ Tidy(g, s, d) /\ (d.fl = 0 => d.m.file = 0)
    BY <1>0, CloseGood, TidyClose DEF Good
  <2>2. d.n + 1 \in Ids /\ d.n \in Nat
    BY <2>1, <1>4 DEF Out, Ids
  <2>3. nm.file = d.n + 1
    BY NewMgrType DEF Mgr
  <2>4. nf.dir = Where(g, s)
    BY NoFileType DEF File
  <2> HIDE DEF nf, nm
  <2>5. c.m = nm /\ c.fs = [d.fs EXCEPT ![d.n + 1] = nf] /\ c.fl = d.fl
    BY <1>4, <2>1 DEF Out, nf, nm
  <2>6. c.fs[c.m.file].dir = Where(g, s)
    BY <2>1, <2>2, <2>3, <2>4, <2>5 DEF Out
  <2>7. \A f \in Ids : f <= made => c.fs[f] = d.fs[f]
    BY <2>1, <2>2, <2>5 DEF Out, Ids
  <2>8. ASSUME c.fl = 0, mgr[g][s].file # 0
        PROVE  c.fs[mgr[g][s].file].ext = "ok"
    <3>1. d.fs[mgr[g][s].file].ext = "ok"
      BY <2>1, <2>5, <2>8 DEF Tidy
    <3>2. mgr[g][s].file \in Ids /\ mgr[g][s].file <= made
      BY <1>0, <2>8
    <3> QED BY <2>7, <3>1, <3>2
  <2> QED BY <2>1, <2>5, <2>6, <2>8 DEF Tidy
<1> QED BY <1>1, <1>2, <1>3, <1>4

\* Before an operation begins everything is tidy.
LEMMA TidyMgr ==
  ASSUME IInv, CalmInv, Calm, NEW g \in Gates, NEW s \in Sides
  PROVE  /\ online[g] /\ made \in 0 .. MaxFiles
         /\ mgr[g][s].file \in 0 .. made /\ mgr[g][s].file \in Ids \cup {0}
         /\ Good(g, s, Here(g, s)) /\ Tidy(g, s, Here(g, s))
<1> USE RemainAssumption
<1>1. online[g] /\ made \in 0 .. MaxFiles /\ mgr[g][s].file \in Ids \cup {0}
  BY DEF IInv, TypeInv, CalmInv, Placed, Mgr
<1>2. mgr[g][s].file \in 0 .. made
  BY <1>1 DEF IInv, FileInv, Ids
<1>3. Tidy(g, s, Here(g, s))
  BY DEF Tidy, Here, Outcome, CalmInv, Placed
<1> QED BY <1>1, <1>2, <1>3, HereGood

\* The destructor publishes the file.
LEMMA TidyDestroyed ==
  ASSUME IInv, CalmInv, Calm, NEW g \in Gates, NEW s \in Sides, NEW o \in Destroyed(g, s)
  PROVE  Tidy(g, s, o) /\ Tidy(g, s, [o EXCEPT !.m = NewMgr])
<1>1. PICK c \in CloseCurFile(g, s, Here(g, s)) : o = [c EXCEPT !.m = NoMgr]
  BY DEF Destroyed
<1>2. Good(g, s, c) /\ Tidy(g, s, c) /\ (c.fl = 0 => c.m.file = 0)
  BY TidyMgr, CloseGood, TidyClose
<1>3. Good(g, s, o) /\ o.fs = c.fs /\ o.fl = c.fl /\ o.m.file = 0
  BY <1>1, <1>2, SetMgrGood
<1>4. LET q == [o EXCEPT !.m = NewMgr] IN q.fs = c.fs /\ q.fl = c.fl /\ q.m.file = 0
  BY ZenonT(30), <1>3, SetMgrGood
<1> QED BY <1>2, <1>3, <1>4 DEF Tidy

\* The file that writeToFile goes on with is where the path leads.
LEMMA TidyTarget ==
  ASSUME IInv, CalmInv, Calm, NEW g \in Gates, NEW s \in Sides, NEW o \in Target(g, s)
  PROVE  Tidy(g, s, o)
<1>1. CASE NeedsFile(g, s)
  BY <1>1, TidyMgr, TidySwitch DEF Target
<1>2. CASE ~NeedsFile(g, s)
  <2>1. o = [Here(g, s) EXCEPT !.ok = RootThere(g, s)]
    BY <1>2 DEF Target
  <2>2. o.m = Here(g, s).m /\ o.fs = Here(g, s).fs /\ o.fl = Here(g, s).fl
    BY <2>1 DEF Here, Outcome
  <2> QED BY ZenonT(30), <2>2, TidyMgr DEF Tidy
<1> QED BY <1>1, <1>2

\* A file operation after which, if nothing failed, everything is tidy.
TidyStep(g, s) ==
  \E o : /\ Good(g, s, o) /\ Tidy(g, s, o) /\ Happens(g, s, o)
         /\ UNCHANGED <<rfile, rdata, delivered, rpc, undefined>>

\* Which steps are such operations
LEMMA TidySteps ==
  ASSUME IInv, CalmInv, Calm, NEW g \in Gates, NEW s \in Sides
  PROVE  /\ \A w \in Writers : Make(g, w) \/ WriteFails(g, w) \/ FlushFails(g, w)
                                 => TidyStep(g, side[g][w])
         /\ \A w \in Writers : Drop(g, w, s) => TidyStep(g, s)
         /\ Check(g, s) \/ ExitClose(g, s) \/ ExitDrop(g, s) => TidyStep(g, s)
<1>1. ASSUME NEW w \in Writers, Make(g, w)
      PROVE  TidyStep(g, side[g][w])
  <2>1. side[g][w] \in Sides
    BY DEF IInv, TypeInv
  <2>2. PICK o \in Destroyed(g, side[g][w]) : Happens(g, side[g][w], [o EXCEPT !.m = NewMgr])
    BY <1>1 DEF Make
  <2>3. UNCHANGED <<rfile, rdata, delivered, rpc, undefined>>
    BY <1>1 DEF Make, readVars, procVars
  <2> QED BY <2>1, <2>2, <2>3, DestroyedGood, TidyDestroyed DEF TidyStep
<1>2. ASSUME NEW w \in Writers, WriteFails(g, w)
      PROVE  TidyStep(g, side[g][w])
  <2> DEFINE t == side[g][w]
  <2>1. t \in Sides
    BY DEF IInv, TypeInv
  <2>2. UNCHANGED <<rfile, rdata, delivered, rpc, undefined>>
    BY <1>2 DEF WriteFails, readVars, procVars
  <2>3. PICK o \in Target(g, t) :
          \/ Happens(g, t, o)
          \/ o.ok /\ \E torn \in BOOLEAN :
               Happens(g, t, [o EXCEPT !.fs[o.m.file].torn = @ \/ torn, !.fl = @ + 1])
    BY <1>2 DEF WriteFails
  <2> HIDE DEF t
  <2>4. Good(g, t, o) /\ Tidy(g, t, o) /\ (o.ok => o.m.file # 0)
    BY <2>1, TargetGood, TidyTarget
  <2>5. CASE Happens(g, t, o)
    BY <2>2, <2>4, <2>5 DEF TidyStep, t
  <2>6. ASSUME o.ok, NEW torn \in BOOLEAN,
               Happens(g, t, [o EXCEPT !.fs[o.m.file].torn = @ \/ torn, !.fl = @ + 1])
        PROVE  TidyStep(g, t)
    <3> DEFINE q == [o EXCEPT !.fs[o.m.file].torn = @ \/ torn, !.fl = @ + 1]
    <3>1. Good(g, t, q) /\ q.fl > 0
      BY <2>1, <2>4, <2>6, TornGood
    <3> HIDE DEF q
    <3>2. Tidy(g, t, q)
      BY <3>1 DEF Tidy
    <3> QED BY <2>2, <2>6, <3>1, <3>2 DEF TidyStep, q
  <2> QED BY <2>3, <2>5, <2>6 DEF t
<1>3. ASSUME NEW w \in Writers, FlushFails(g, w)
      PROVE  TidyStep(g, side[g][w])
  <2> DEFINE t == side[g][w]
  <2>1. t \in Sides
    BY DEF IInv, TypeInv
  <2>2. UNCHANGED <<rfile, rdata, delivered, rpc, undefined>>
    BY <1>3 DEF FlushFails, readVars, procVars
  <2>3. PICK a \in {o \in Target(g, t) : o.ok}, torn \in BOOLEAN :
          \E o \in SwitchToNewFile(g, t, [a EXCEPT !.fs[a.m.file].torn = @ \/ torn, !.fl = @ + 1]) :
             Happens(g, t, IF o.ok THEN [o EXCEPT !.m = NewMgr] ELSE o)
    BY <1>3 DEF FlushFails
  <2> HIDE DEF t
  <2>4. Good(g, t, a) /\ a.m.file # 0
    BY <2>1, TargetGood
  <2> DEFINE b == [a EXCEPT !.fs[a.m.file].torn = @ \/ torn, !.fl = @ + 1]
  <2>5. Good(g, t, b) /\ b.fl > 0
    BY <2>1, <2>4, TornGood
  <2>6. PICK o \in SwitchToNewFile(g, t, b) : Happens(g, t, IF o.ok THEN [o EXCEPT !.m = NewMgr] ELSE o)
    BY <2>3
  <2> HIDE DEF b
  <2>7. Tidy(g, t, b)
    BY <2>5 DEF Tidy
  <2>8. Good(g, t, o) /\ o.fl >= b.fl
    BY <2>1, <2>5, <2>7, SwitchGood, TidyMgr, TidySwitch
  <2>9. o.fl # 0
    BY <2>5, <2>8 DEF Good, Out
  <2>10. LET q == [o EXCEPT !.m = NewMgr] IN Good(g, t, q) /\ q.fl # 0
    BY <2>1, <2>8, <2>9, SetMgrGood
  <2>11. LET q == IF o.ok THEN [o EXCEPT !.m = NewMgr] ELSE o IN Good(g, t, q) /\ q.fl # 0
    BY <2>8, <2>9, <2>10
  <2> DEFINE q == IF o.ok THEN [o EXCEPT !.m = NewMgr] ELSE o
  <2>12. Good(g, t, q) /\ q.fl # 0 /\ Happens(g, t, q)
    BY <2>6, <2>11
  <2> HIDE DEF q
  <2>13. Tidy(g, t, q)
    BY <2>12 DEF Tidy
  <2>14. TidyStep(g, t)
    BY <2>2, <2>12, <2>13 DEF TidyStep
  <2> QED BY <2>14 DEF t
<1>4. ASSUME NEW w \in Writers, Drop(g, w, s)
      PROVE  TidyStep(g, s)
  BY <1>4, DestroyedGood, TidyDestroyed DEF TidyStep, Drop, readVars, procVars
<1>5. ASSUME Check(g, s)
      PROVE  TidyStep(g, s)
  <2>1. PICK o \in CloseCurFile(g, s, Here(g, s)) : Happens(g, s, o)
    BY <1>5 DEF Check
  <2>2. Good(g, s, o) /\ Tidy(g, s, o)
    BY CloseGood, TidyMgr, TidyClose
  <2> QED BY <1>5, <2>1, <2>2 DEF TidyStep, Check, readVars, procVars
<1>6. ASSUME ExitClose(g, s) \/ ExitDrop(g, s)
      PROVE  TidyStep(g, s)
  BY <1>6, DestroyedGood, TidyDestroyed DEF TidyStep, ExitClose, ExitDrop, readVars, procVars
<1> QED BY <1>1, <1>2, <1>3, <1>4, <1>5, <1>6

\* A step in which nothing fails loses sight of no record.
LEMMA TidyKeeps ==
  ASSUME IInv, CalmInv, Calm, Calm', NEW g \in Gates, NEW s \in Sides, TidyStep(g, s)
  PROVE  Placed' /\ \A r \in Recs : Reachable(r) => Reachable(r)'
<1> USE RemainAssumption
<1>1. PICK o : /\ Good(g, s, o) /\ Tidy(g, s, o) /\ Happens(g, s, o)
               /\ UNCHANGED <<rfile, rdata, delivered, rpc, undefined>>
  BY DEF TidyStep
<1>2. o \in Out /\ mgr' = [mgr EXCEPT ![g][s] = o.m] /\ files' = o.fs /\ online' = online
  BY <1>1 DEF Good, Happens
<1>3. o.fl = 0
  BY <1>1, <1>2 DEF Happens, Faulty, Calm, Out
<1>4. /\ mgr'[g][s] = o.m
      /\ \A h \in Gates, t \in Sides : (h # g \/ t # s) => mgr'[h][t] = mgr[h][t]
  BY <1>2 DEF IInv, TypeInv
<1>5. \A f \in Ids : files'[f].recs = files[f].recs
  BY <1>1, <1>2 DEF Good
<1>6. \A f \in Ids : f <= made => files'[f].dir = files[f].dir
                               /\ (files[f].ext = "ok" => files'[f].ext = "ok")
  BY <1>1, <1>2 DEF Good
<1>7. \A f \in Ids : files[f].ext # "none" => f <= made
  BY DEF IInv, FileInv, NoFile, TypeInv, Ids
<1>8. \A h \in Gates, t \in Sides : mgr[h][t].file # 0 =>
        mgr[h][t].file \in Ids /\ mgr[h][t].file <= made
  BY DEF IInv, TypeInv, FileInv, Mgr
<1>9. \A h \in Gates : rfile[h] # 0 => rfile[h] \in Ids /\ rfile[h] <= made
  BY <1>7 DEF IInv, TypeInv, FileInv
<1>10. \A h \in Gates, t \in Sides : Where(h, t)' = Where(h, t)
  BY <1>2 DEF Where
<1>11. Placed'
  <2>1. \A h \in Gates : online'[h]
    BY <1>2 DEF CalmInv, Placed
  <2>2. ASSUME NEW h \in Gates, NEW t \in Sides, mgr'[h][t].file # 0
        PROVE  files'[mgr'[h][t].file].dir = Where(h, t)'
    <3>1. CASE h = g /\ t = s
      BY <1>1, <1>2, <1>3, <1>4, <1>10, <2>2, <3>1 DEF Tidy
    <3>2. CASE ~(h = g /\ t = s)
      BY <1>4, <1>6, <1>8, <1>10, <2>2, <3>2 DEF CalmInv, Placed
    <3> QED BY <3>1, <3>2
  <2>3. \A h \in Gates : rfile'[h] # 0 => rpc'[h] \in Sides /\ files'[rfile'[h]].dir = Where(h, rpc[h])'
    BY <1>1, <1>6, <1>9, <1>10 DEF CalmInv, Placed
  <2> QED BY <2>1, <2>2, <2>3 DEF Placed
<1>12. ASSUME NEW r \in Recs, Reachable(r)
       PROVE  Reachable(r)'
  <2>1. ASSUME NEW h \in Gates, NEW t \in Sides, mgr[h][t].file # 0, r \in files[mgr[h][t].file].recs
        PROVE  Reachable(r)'
    <3>1. CASE mgr'[h][t].file = mgr[h][t].file
      BY <1>5, <1>8, <2>1, <3>1 DEF Reachable
    <3>2. CASE mgr'[h][t].file # mgr[h][t].file
      <4>1. h = g /\ t = s
        BY <1>4, <3>2
      <4>2. files'[mgr[h][t].file].ext = "ok"
        BY <1>1, <1>2, <1>3, <1>4, <2>1, <3>2, <4>1 DEF Tidy
      <4> QED BY <1>5, <1>8, <2>1, <4>2 DEF Reachable
    <3> QED BY <3>1, <3>2
  <2>2. ASSUME NEW f \in Ids, files[f].ext = "ok", r \in files[f].recs
        PROVE  Reachable(r)'
    BY <1>5, <1>6, <1>7, <2>2 DEF Reachable
  <2>3. ASSUME NEW h \in Gates, rfile[h] # 0, r \in files[rfile[h]].recs
        PROVE  Reachable(r)'
    BY <1>1, <1>5, <1>9, <2>3 DEF Reachable
  <2>4. CASE (\E h \in Gates : r \in rdata[h]) \/ delivered[r] > 0
    BY <1>1, <2>4 DEF Reachable
  <2> QED BY <1>12, <2>1, <2>2, <2>3, <2>4 DEF Reachable
<1> QED BY <1>11, <1>12
\* A file operation takes no failure back.
LEMMA FileStepCalm ==
  ASSUME IInv, NEW g \in Gates, NEW s \in Sides, FileStep(g, s), faults' = 0
  PROVE  faults = 0
<1>1. PICK o : Good(g, s, o) /\ Happens(g, s, o)
  BY DEF FileStep
<1>2. o.fl \in Nat /\ faults \in Nat /\ faults' = faults + o.fl
  BY <1>1 DEF Good, Out, Happens, Faulty, IInv, TypeInv
<1> QED BY <1>2

\* What has failed stays failed.
LEMMA CalmBefore ==
  ASSUME IInv, [Next]_vars, Calm'
  PROVE  Calm
<1>1. CASE UNCHANGED vars
  BY <1>1 DEF vars, procVars, fileVars, Calm
<1>2. CASE Next
  <2>1. PICK g \in Gates :
          \/ \E w \in Writers : WriterStep(g, w) \/ \E r \in Recs : Call(g, w, r)
          \/ \E s \in Sides : Check(g, s) \/ ExitClose(g, s) \/ ExitDrop(g, s)
          \/ ReaderStep(g) \/ ExitCall(g) \/ ExitSwap(g) \/ UndefinedUse(g)
          \/ Crash(g) \/ Restart(g) \/ ShareDown(g) \/ ShareUp(g)
    BY <1>2 DEF Next
  <2>2. ASSUME NEW w \in Writers, Make(g, w) \/ WriteFails(g, w) \/ FlushFails(g, w)
        PROVE  Calm
    <3>1. side[g][w] \in Sides
      BY DEF IInv, TypeInv
    <3>2. FileStep(g, side[g][w])
      BY <2>2, <3>1, FileSteps
    <3>3. faults = 0
      BY <3>1, <3>2, FileStepCalm DEF Calm
    <3>4. undefined' = undefined
      BY <2>2 DEF Make, WriteFails, FlushFails, procVars
    <3> QED BY <3>3, <3>4 DEF Calm
  <2>3. ASSUME NEW s \in Sides, (\E w \in Writers : Drop(g, w, s)) \/ Check(g, s) \/ ExitClose(g, s) \/ ExitDrop(g, s)
        PROVE  Calm
    <3>1. faults = 0
      BY <2>3, FileSteps, FileStepCalm DEF Calm
    <3>2. undefined' = undefined
      BY <2>3 DEF Drop, Check, ExitClose, ExitDrop, procVars
    <3> QED BY <3>1, <3>2 DEF Calm
  <2>4. ASSUME NEW w \in Writers, WriteDone(g, w)
        PROVE  Calm
    <3>1. PICK s \in Sides : s = side[g][w]
      BY DEF IInv, TypeInv
    <3>2. PICK o \in Target(g, s) :
            Happens(g, s, [o EXCEPT !.fs[o.m.file].recs = @ \cup {cur[g][w]}, !.m.count = @ + 1])
      BY <2>4, <3>1 DEF WriteDone
    <3>3. o \in Out
      BY TargetGood DEF Good
    <3>4. faults' = faults + o.fl
      BY <3>2, <3>3 DEF Happens, Faulty, Out
    <3>5. faults = 0
      BY <3>3, <3>4 DEF Calm, Out, IInv, TypeInv
    <3> QED BY <2>4, <3>5 DEF Calm, WriteDone, procVars
  <2>5. ASSUME NEW w \in Writers, Look(g, w) \/ Return(g, w) \/ \E r \in Recs : Call(g, w, r)
        PROVE  Calm
    BY <2>5 DEF Calm, Look, Return, Call, procVars, fileVars
  <2>6. ASSUME ReaderStep(g)
        PROVE  Calm
    <3>1. undefined' = undefined
      BY <2>6 DEF ReaderStep, ReadCall, Claim, ReadFile, ReadFails, ScanEnd, ReadReturn, procVars
    <3>2. PICK n \in 0 .. 1 : faults' = faults + n \/ faults' = faults
      BY <2>6 DEF ReaderStep, ReadCall, Claim, ReadFile, ReadFails, ScanEnd, ReadReturn, fileVars, Faulty
    <3>3. faults = 0
      BY <3>2 DEF Calm, IInv, TypeInv
    <3> QED BY <3>1, <3>3 DEF Calm
  <2>7. ASSUME ExitCall(g) \/ ExitSwap(g) \/ UndefinedUse(g) \/ Restart(g) \/ ShareUp(g)
        PROVE  Calm
    BY <2>7 DEF Calm, ExitCall, ExitSwap, UndefinedUse, Restart, ShareUp, procVars, fileVars
  <2>8. ASSUME Crash(g) \/ ShareDown(g)
        PROVE  Calm
    <3>1. faults' = faults + 1 /\ faults \in Nat
      BY <2>8 DEF Crash, ShareDown, Faulty, IInv, TypeInv
    <3> QED BY <3>1 DEF Calm
  <2> QED BY <2>1, <2>2, <2>3, <2>4, <2>5, <2>6, <2>7, <2>8 DEF WriterStep
<1> QED BY <1>1, <1>2

\* Nothing new is owed, and what was owed can still be reached.
LEMMA CalmGoesOn ==
  ASSUME IInv, CalmInv, Calm, Placed', \A r \in Recs : Reachable(r) => Reachable(r)',
         Owed' \subseteq Owed
  PROVE  CalmInv'
<1>1. Owed \subseteq Recs
  BY DEF Owed, IInv, TypeInv
<1> QED BY <1>1 DEF CalmInv

\* Nothing of the files changes.
LEMMA SamePlace ==
  ASSUME IInv, CalmInv, Calm, UNCHANGED <<online, mgr, files, rfile, rdata, delivered>>,
         \A g \in Gates : rfile[g] # 0 => rpc'[g] = rpc[g]
  PROVE  Placed' /\ \A r \in Recs : Reachable(r) => Reachable(r)'
<1>1. Placed'
  BY DEF CalmInv, Placed, Where
<1>2. \A r \in Recs : Reachable(r) => Reachable(r)'
  BY DEF Reachable
<1> QED BY <1>1, <1>2

\* The steps of a write but its success
LEMMA CalmWriter ==
  ASSUME IInv, CalmInv, Calm, Calm', NEW g \in Gates, NEW w \in Writers,
         \/ Look(g, w) \/ Make(g, w) \/ WriteFails(g, w) \/ FlushFails(g, w) \/ Return(g, w)
         \/ \E r \in Recs : Call(g, w, r)
  PROVE  CalmInv'
<1>1. CASE Look(g, w) \/ Return(g, w) \/ \E r \in Recs : Call(g, w, r)
  <2>1. UNCHANGED <<online, mgr, files, rfile, rdata, delivered, rpc>>
    BY <1>1 DEF Look, Return, Call, shareVars, fileVars, readVars
  <2>2. Owed' \subseteq Owed
    <3>1. CASE Look(g, w) \/ \E r \in Recs : Call(g, w, r)
      <4>1. acked' = acked
        BY <3>1 DEF Look, Call
      <4>2. PICK p \in {"look", "in", "new"} : pc' = [pc EXCEPT ![g][w] = p]
        BY <3>1 DEF Look, Call
      <4>3. cur' = cur \/ \E x : cur' = [cur EXCEPT ![g][w] = x]
        BY <3>1 DEF Look, Call
      <4>4. \A h \in Gates, v \in Writers : pc'[h][v] = "done" =>
              pc[h][v] = "done" /\ cur'[h][v] = cur[h][v]
        <5>1. \A h \in Gates, v \in Writers : pc'[h][v] = "done" =>
                pc[h][v] = "done" /\ ~(h = g /\ v = w)
          BY <4>2 DEF IInv, TypeInv
        <5>2. \A h \in Gates, v \in Writers : ~(h = g /\ v = w) => cur'[h][v] = cur[h][v]
          BY <4>3 DEF IInv, TypeInv
        <5> QED BY <5>1, <5>2
      <4> QED BY <4>1, <4>4 DEF Owed
    <3>2. CASE Return(g, w)
      <4>1. acked' = acked \/ (pc[g][w] = "done" /\ acked' = acked \cup {cur[g][w]})
        BY <3>2 DEF Return
      <4>2. \A h \in Gates, v \in Writers : pc'[h][v] = "done" =>
              pc[h][v] = "done" /\ cur'[h][v] = cur[h][v]
        BY <3>2 DEF Return, IInv, TypeInv
      <4>3. pc[g][w] = "done" => cur[g][w] \in Recs
        BY DEF IInv, TypeInv, WriterInv
      <4> QED BY <4>1, <4>2, <4>3 DEF Owed
    <3> QED BY <1>1, <3>1, <3>2
  <2> QED BY <2>1, <2>2, SamePlace, CalmGoesOn
<1>2. CASE Make(g, w) \/ WriteFails(g, w) \/ FlushFails(g, w)
  <2>1. side[g][w] \in Sides
    BY DEF IInv, TypeInv
  <2>2. TidyStep(g, side[g][w])
    BY <1>2, <2>1, TidySteps
  <2>3. Placed' /\ \A r \in Recs : Reachable(r) => Reachable(r)'
    BY <2>1, <2>2, TidyKeeps
  <2>4. Owed' \subseteq Owed
    <3>1. PICK p \in {"look", "in", "failed"} : pc' = [pc EXCEPT ![g][w] = p]
      BY <1>2 DEF Make, WriteFails, FlushFails, Failed
    <3>2. acked' = acked /\ cur' = cur
      BY <1>2 DEF Make, WriteFails, FlushFails
    <3>3. \A h \in Gates, v \in Writers : pc'[h][v] = "done" => pc[h][v] = "done"
      BY <3>1 DEF IInv, TypeInv
    <3> QED BY <3>2, <3>3 DEF Owed
  <2> QED BY <2>3, <2>4, CalmGoesOn
<1> QED BY <1>1, <1>2

\* A manager is closed or deleted.
LEMMA CalmDrop ==
  ASSUME IInv, CalmInv, Calm, Calm', NEW g \in Gates, NEW s \in Sides,
         (\E w \in Writers : Drop(g, w, s)) \/ Check(g, s) \/ ExitClose(g, s) \/ ExitDrop(g, s)
  PROVE  CalmInv'
<1>1. Placed' /\ \A r \in Recs : Reachable(r) => Reachable(r)'
  BY TidySteps, TidyKeeps
<1>2. Owed' \subseteq Owed
  BY DEF Drop, Check, ExitClose, ExitDrop, writeVars, Owed
<1> QED BY <1>1, <1>2, CalmGoesOn

\* What a write that succeeds does to the files.
LEMMA Written ==
  ASSUME IInv, NEW g \in Gates, NEW w \in Writers, NEW s \in Sides, s = side[g][w],
         WriteDone(g, w)
  PROVE  \E o \in Target(g, s) :
           /\ Good(g, s, o) /\ o.m.file \in Ids /\ o.fs[o.m.file].dir = Where(g, s)
           /\ online' = online /\ faults' = faults + o.fl
           /\ mgr'[g][s].file = o.m.file
           /\ \A h \in Gates, t \in Sides : (h # g \/ t # s) => mgr'[h][t] = mgr[h][t]
           /\ \A f \in Ids : files'[f].ext = o.fs[f].ext /\ files'[f].dir = o.fs[f].dir
           /\ \A f \in Ids : files[f].recs \subseteq files'[f].recs
           /\ cur[g][w] \in files'[o.m.file].recs
<1> USE RemainAssumption
<1>1. PICK o \in Target(g, s) :
        /\ o.ok /\ o.fs[o.m.file].dir = Where(g, s)
        /\ Happens(g, s, [o EXCEPT !.fs[o.m.file].recs = @ \cup {cur[g][w]}, !.m.count = @ + 1])
  BY DEF WriteDone
<1> DEFINE q == [o EXCEPT !.fs[o.m.file].recs = @ \cup {cur[g][w]}, !.m.count = @ + 1]
<1>2. Good(g, s, o) /\ o \in Out /\ o.m.file \in Ids
  <2>1. Good(g, s, o) /\ o \in Out /\ o.m.file # 0
    BY <1>1, TargetGood DEF Good
  <2> QED BY <2>1 DEF Out, Mgr
<1>3. q.m = [o.m EXCEPT !.count = @ + 1] /\ q.fl = o.fl
        /\ q.fs = [o.fs EXCEPT ![o.m.file].recs = @ \cup {cur[g][w]}]
  BY <1>2 DEF Out
<1>4. q.m.file = o.m.file
  BY <1>2, <1>3 DEF Out, Mgr
<1>5. \A f \in Ids : /\ q.fs[f].ext = o.fs[f].ext /\ q.fs[f].dir = o.fs[f].dir
                     /\ o.fs[f].recs \subseteq q.fs[f].recs
                     /\ f = o.m.file => cur[g][w] \in q.fs[f].recs
  BY <1>2, <1>3 DEF Out, File
<1>6. Happens(g, s, q)
  BY <1>1
<1> HIDE DEF q
<1>7. mgr' = [mgr EXCEPT ![g][s] = q.m] /\ files' = q.fs /\ online' = online /\ faults' = faults + o.fl
  BY <1>3, <1>6 DEF Happens, Faulty
<1>8. /\ mgr'[g][s] = q.m
      /\ \A h \in Gates, t \in Sides : (h # g \/ t # s) => mgr'[h][t] = mgr[h][t]
  BY <1>7 DEF IInv, TypeInv
<1>9. \A f \in Ids : o.fs[f].recs = files[f].recs
  BY <1>2 DEF Good
<1> QED BY ZenonT(30), <1>1, <1>2, <1>4, <1>5, <1>7, <1>8, <1>9

\* A record is written to a file that its manager has open.
LEMMA CalmWritten ==
  ASSUME IInv, CalmInv, Calm, Calm', NEW g \in Gates, NEW w \in Writers, WriteDone(g, w)
  PROVE  CalmInv'
<1> USE RemainAssumption
<1>0. PICK s \in Sides : s = side[g][w]
  BY DEF IInv, TypeInv
<1>1. PICK o \in Target(g, s) :
           /\ Good(g, s, o) /\ o.m.file \in Ids /\ o.fs[o.m.file].dir = Where(g, s)
           /\ online' = online /\ faults' = faults + o.fl
           /\ mgr'[g][s].file = o.m.file
           /\ \A h \in Gates, t \in Sides : (h # g \/ t # s) => mgr'[h][t] = mgr[h][t]
           /\ \A f \in Ids : files'[f].ext = o.fs[f].ext /\ files'[f].dir = o.fs[f].dir
           /\ \A f \in Ids : files[f].recs \subseteq files'[f].recs
           /\ cur[g][w] \in files'[o.m.file].recs
  BY <1>0, Written
<1>2. Tidy(g, s, o) /\ o.fl = 0
  <2>1. o.fl \in Nat
    BY <1>1 DEF Good, Out
  <2> QED BY <1>1, <2>1, TidyTarget DEF Calm
<1>3. UNCHANGED <<rfile, rdata, delivered, rpc, cur, acked>> /\ pc' = [pc EXCEPT ![g][w] = "done"]
  BY DEF WriteDone, readVars
<1>4. \A f \in Ids : f <= made => files'[f].dir = files[f].dir
                               /\ (files[f].ext = "ok" => files'[f].ext = "ok")
  BY <1>1 DEF Good
<1>5. \A f \in Ids : files[f].ext # "none" => f <= made
  BY DEF IInv, FileInv, NoFile, TypeInv, Ids
<1>6. \A h \in Gates, t \in Sides : mgr[h][t].file # 0 =>
        mgr[h][t].file \in Ids /\ mgr[h][t].file <= made
  BY DEF IInv, TypeInv, FileInv, Mgr
<1>7. \A h \in Gates : rfile[h] # 0 => rfile[h] \in Ids /\ rfile[h] <= made
  BY <1>5 DEF IInv, TypeInv, FileInv
<1>8. \A h \in Gates, t \in Sides : Where(h, t)' = Where(h, t)
  BY <1>1 DEF Where
<1>9. Placed'
  <2>1. \A h \in Gates : online'[h]
    BY <1>1 DEF CalmInv, Placed
  <2>2. ASSUME NEW h \in Gates, NEW t \in Sides, mgr'[h][t].file # 0
        PROVE  files'[mgr'[h][t].file].dir = Where(h, t)'
    <3>1. CASE h = g /\ t = s
      BY <1>1, <1>8, <3>1
    <3>2. CASE ~(h = g /\ t = s)
      BY <1>1, <1>4, <1>6, <1>8, <2>2, <3>2 DEF CalmInv, Placed
    <3> QED BY <3>1, <3>2
  <2>3. \A h \in Gates : rfile'[h] # 0 => rpc'[h] \in Sides /\ files'[rfile'[h]].dir = Where(h, rpc[h])'
    BY <1>3, <1>4, <1>7, <1>8 DEF CalmInv, Placed
  <2> QED BY <2>1, <2>2, <2>3 DEF Placed
<1>10. ASSUME NEW r \in Recs, Reachable(r)
       PROVE  Reachable(r)'
  <2>1. ASSUME NEW h \in Gates, NEW t \in Sides, mgr[h][t].file # 0, r \in files[mgr[h][t].file].recs
        PROVE  Reachable(r)'
    <3>1. CASE mgr'[h][t].file = mgr[h][t].file
      BY <1>1, <1>6, <2>1, <3>1 DEF Reachable
    <3>2. CASE mgr'[h][t].file # mgr[h][t].file
      <4>1. h = g /\ t = s
        BY <1>1, <3>2
      <4>2. files'[mgr[h][t].file].ext = "ok"
        BY <1>1, <1>2, <1>6, <2>1, <3>2, <4>1 DEF Tidy
      <4> QED BY <1>1, <1>6, <2>1, <4>2 DEF Reachable
    <3> QED BY <3>1, <3>2
  <2>2. ASSUME NEW f \in Ids, files[f].ext = "ok", r \in files[f].recs
        PROVE  Reachable(r)'
    BY <1>1, <1>4, <1>5, <2>2 DEF Reachable
  <2>3. ASSUME NEW h \in Gates, rfile[h] # 0, r \in files[rfile[h]].recs
        PROVE  Reachable(r)'
    BY <1>1, <1>3, <1>7, <2>3 DEF Reachable
  <2>4. CASE (\E h \in Gates : r \in rdata[h]) \/ delivered[r] > 0
    BY <1>3, <2>4 DEF Reachable
  <2> QED BY <1>10, <2>1, <2>2, <2>3, <2>4 DEF Reachable
<1>11. \A r \in Recs : r = cur[g][w] => Reachable(r)'
  <2>1. mgr'[g][s].file # 0 /\ cur[g][w] \in files'[mgr'[g][s].file].recs
    BY <1>1 DEF Ids
  <2> QED BY <2>1 DEF Reachable
<1>12. \A r \in Owed' : r \in Recs /\ (r \in Owed \/ r = cur[g][w])
  <2>1. \A h \in Gates, v \in Writers : pc'[h][v] = "done" => pc[h][v] = "done" \/ (h = g /\ v = w)
    BY <1>3 DEF IInv, TypeInv
  <2> QED BY <1>3, <2>1 DEF Owed, IInv, TypeInv
<1> QED BY <1>9, <1>10, <1>11, <1>12 DEF CalmInv
\* A published file is claimed.
LEMMA CalmClaim ==
  ASSUME IInv, CalmInv, Calm, NEW g \in Gates, NEW e \in Ids, Claim(g, e)
  PROVE  CalmInv'
<1> USE RemainAssumption
<1>1. /\ rpc[g] \in Sides /\ rfile[g] = 0 /\ files[e].ext = "ok" /\ files[e].dir = Where(g, rpc[g])
      /\ files' = [files EXCEPT ![e].ext = "bak"] /\ rfile' = [rfile EXCEPT ![g] = e]
      /\ UNCHANGED <<online, mgr, writeVars, rpc, rdata, delivered>>
  BY DEF Claim, OkFiles, shareVars
<1>2. "bak" \in Exts /\ files[e] \in File
  BY DEF Exts, IInv, TypeInv
<1>3. \A f \in Ids : /\ f # e => files'[f] = files[f]
                     /\ files'[f].recs = files[f].recs /\ files'[f].dir = files[f].dir
  BY <1>1, <1>2, Renamed DEF IInv, TypeInv
<1>4. \A h \in Gates : rfile'[h] = IF h = g THEN e ELSE rfile[h]
  BY <1>1 DEF IInv, TypeInv
<1>5. \A h \in Gates, t \in Sides : mgr[h][t].file # 0 => mgr[h][t].file \in Ids
  BY DEF IInv, TypeInv, Mgr
<1>6. \A h \in Gates : rfile[h] # 0 => rfile[h] \in Ids
  BY DEF IInv, TypeInv
<1>7. \A h \in Gates, t \in Sides : Where(h, t)' = Where(h, t)
  BY <1>1 DEF Where
<1>8. Placed'
  <2>1. \A h \in Gates : online'[h]
    BY <1>1 DEF CalmInv, Placed
  <2>2. \A h \in Gates, t \in Sides : mgr'[h][t].file # 0 => files'[mgr'[h][t].file].dir = Where(h, t)'
    BY <1>1, <1>3, <1>5, <1>7 DEF CalmInv, Placed
  <2>3. \A h \in Gates : rfile'[h] # 0 => rpc'[h] \in Sides /\ files'[rfile'[h]].dir = Where(h, rpc[h])'
    BY <1>1, <1>3, <1>4, <1>6, <1>7 DEF CalmInv, Placed
  <2> QED BY <2>1, <2>2, <2>3 DEF Placed
<1>9. ASSUME NEW r \in Recs, Reachable(r)
      PROVE  Reachable(r)'
  <2>1. ASSUME NEW h \in Gates, NEW t \in Sides, mgr[h][t].file # 0, r \in files[mgr[h][t].file].recs
        PROVE  Reachable(r)'
    BY <1>1, <1>3, <1>5, <2>1 DEF Reachable
  <2>2. ASSUME NEW f \in Ids, files[f].ext = "ok", r \in files[f].recs
        PROVE  Reachable(r)'
    <3>1. CASE f = e
      <4>1. rfile'[g] # 0 /\ r \in files'[rfile'[g]].recs
        BY <1>3, <1>4, <2>2, <3>1 DEF Ids
      <4> QED BY <4>1 DEF Reachable
    <3>2. CASE f # e
      BY <1>3, <2>2, <3>2 DEF Reachable
    <3> QED BY <3>1, <3>2
  <2>3. ASSUME NEW h \in Gates, rfile[h] # 0, r \in files[rfile[h]].recs
        PROVE  Reachable(r)'
    <3>1. h # g
      BY <1>1, <2>3
    <3>2. rfile'[h] # 0 /\ r \in files'[rfile'[h]].recs
      BY <1>3, <1>4, <1>6, <2>3, <3>1
    <3> QED BY <3>2 DEF Reachable
  <2>4. CASE (\E h \in Gates : r \in rdata[h]) \/ delivered[r] > 0
    BY <1>1, <2>4 DEF Reachable
  <2> QED BY <1>9, <2>1, <2>2, <2>3, <2>4 DEF Reachable
<1>10. Owed' \subseteq Owed
  BY <1>1 DEF writeVars, Owed
<1> QED BY <1>8, <1>9, <1>10, CalmGoesOn

\* The reader of g is done with its file: whoever else has files keeps them.
LEMMA CalmLetGo ==
  ASSUME IInv, CalmInv, Calm, NEW g \in Gates, NEW e \in Ids, e = rfile[g],
         files' \in [Ids -> File], \A f \in Ids \ {e} : files'[f] = files[f],
         rfile' = [rfile EXCEPT ![g] = 0],
         UNCHANGED <<online, mgr, writeVars, delivered>>,
         \A h \in Gates : h # g => rpc'[h] = rpc[h] /\ rdata'[h] = rdata[h],
         rdata[g] = {}, \A r \in files[e].recs : r \in rdata'[g]
  PROVE  CalmInv'
<1> USE RemainAssumption
<1>1. files[e].ext = "bak" /\ \A h \in Gates : h # g => rfile[h] # e
  BY DEF IInv, FileInv, Ids
<1>2. \A h \in Gates : rfile'[h] = IF h = g THEN 0 ELSE rfile[h]
  BY DEF IInv, TypeInv
<1>3. \A h \in Gates, t \in Sides : mgr[h][t].file # 0 => mgr[h][t].file \in Ids /\ mgr[h][t].file # e
  BY <1>1 DEF IInv, TypeInv, FileInv, Mgr
<1>4. \A h \in Gates : rfile[h] # 0 => rfile[h] \in Ids
  BY DEF IInv, TypeInv
<1>5. \A h \in Gates, t \in Sides : Where(h, t)' = Where(h, t)
  BY DEF Where
<1>6. Placed'
  <2>1. \A h \in Gates : online'[h]
    BY DEF CalmInv, Placed
  <2>2. \A h \in Gates, t \in Sides : mgr'[h][t].file # 0 => files'[mgr'[h][t].file].dir = Where(h, t)'
    BY <1>3, <1>5 DEF CalmInv, Placed
  <2>3. \A h \in Gates : rfile'[h] # 0 => rpc'[h] \in Sides /\ files'[rfile'[h]].dir = Where(h, rpc[h])'
    BY <1>1, <1>2, <1>4, <1>5 DEF CalmInv, Placed
  <2> QED BY <2>1, <2>2, <2>3 DEF Placed
<1>7. ASSUME NEW r \in Recs, Reachable(r)
      PROVE  Reachable(r)'
  <2>0. CASE r \in files[e].recs
    BY <2>0 DEF Reachable
  <2>1. ASSUME NEW h \in Gates, NEW t \in Sides, mgr[h][t].file # 0, r \in files[mgr[h][t].file].recs
        PROVE  Reachable(r)'
    <3>1. mgr'[h][t].file # 0 /\ r \in files'[mgr'[h][t].file].recs
      BY <1>3, <2>1
    <3> QED BY <3>1 DEF Reachable
  <2>2. ASSUME NEW f \in Ids, files[f].ext = "ok", r \in files[f].recs
        PROVE  Reachable(r)'
    <3>1. files'[f] = files[f]
      BY <1>1, <2>2
    <3> QED BY <2>2, <3>1 DEF Reachable
  <2>3. ASSUME NEW h \in Gates, h # g, rfile[h] # 0, r \in files[rfile[h]].recs
        PROVE  Reachable(r)'
    <3>1. rfile'[h] # 0 /\ r \in files'[rfile'[h]].recs
      BY <1>1, <1>2, <1>4, <2>3
    <3> QED BY <3>1 DEF Reachable
  <2>4. ASSUME NEW h \in Gates, r \in rdata[h]
        PROVE  Reachable(r)'
    <3>1. r \in rdata'[h]
      BY <2>4
    <3> QED BY <3>1 DEF Reachable
  <2>5. CASE delivered[r] > 0
    BY <2>5 DEF Reachable
  <2> QED BY ZenonT(30), <1>7, <2>0, <2>1, <2>2, <2>3, <2>4, <2>5 DEF Reachable
<1>8. Owed' \subseteq Owed
  BY DEF writeVars, Owed
<1> QED BY <1>6, <1>7, <1>8, CalmGoesOn

\* A claimed file is read; if nothing fails only an empty one is put aside.
LEMMA CalmRead ==
  ASSUME IInv, IInv', CalmInv, Calm, Calm', NEW g \in Gates, ReadFile(g) \/ ReadFails(g)
  PROVE  CalmInv'
<1> USE RemainAssumption
<1>1. PICK e \in Ids : e = rfile[g]
  BY DEF ReadFile, ReadFails, IInv, TypeInv
<1>2. rpc[g] \in Sides /\ rdata[g] = {} /\ files[e].dir = Where(g, rpc[g])
  BY <1>1 DEF IInv, ReaderInv, CalmInv, Placed, Sides, Ids
<1>3. rfile' = [rfile EXCEPT ![g] = 0] /\ UNCHANGED <<online, mgr, writeVars, delivered>>
  BY DEF ReadFile, ReadFails, shareVars
<1>4. files' \in [Ids -> File]
  BY DEF IInv, TypeInv
<1>5. CASE ReadFile(g)
  <2>1. rdata' = [rdata EXCEPT ![g] = files[e].recs] /\ rpc' = [rpc EXCEPT ![g] = "return"]
    BY <1>1, <1>5 DEF ReadFile
  <2>2. files' = files \/ \E x : files' = [files EXCEPT ![e] = x]
    BY <1>1, <1>5 DEF ReadFile
  <2>3. \A f \in Ids \ {e} : files'[f] = files[f]
    BY <2>2 DEF IInv, TypeInv
  <2>4. rdata'[g] = files[e].recs /\ \A h \in Gates : h # g => rpc'[h] = rpc[h] /\ rdata'[h] = rdata[h]
    BY <2>1 DEF IInv, TypeInv
  <2> QED BY <1>1, <1>2, <1>3, <1>4, <2>3, <2>4, CalmLetGo
<1>6. CASE ReadFails(g)
  <2>1. PICK ext \in {"err", "ok", "bak"}, n \in 0 .. 1 :
          /\ n = 0 => IF files[e].dir = Where(g, rpc[g]) THEN Empty(e) /\ ext = "err" ELSE ext = "bak"
          /\ faults' = faults + n
          /\ files' = [files EXCEPT ![e].ext = ext]
    BY <1>1, <1>6 DEF ReadFails, Faulty
  <2>2. n = 0
    BY <2>1 DEF Calm
  <2>3. files[e].recs = {}
    BY <1>2, <2>1, <2>2 DEF Empty
  <2>4. \A f \in Ids \ {e} : files'[f] = files[f]
    BY <2>1 DEF IInv, TypeInv
  <2>5. rpc' = rpc /\ rdata' = rdata
    BY <1>6 DEF ReadFails
  <2> QED BY <1>1, <1>2, <1>3, <1>4, <2>3, <2>4, <2>5, CalmLetGo
<1> QED BY <1>5, <1>6

\* A reader comes and goes, or returns what it has read.
LEMMA CalmReader ==
  ASSUME IInv, CalmInv, Calm, NEW g \in Gates,
         ReadCall(g) \/ ScanEnd(g) \/ ReadReturn(g) \/ ExitCall(g) \/ ExitSwap(g) \/ Restart(g)
  PROVE  CalmInv'
<1>1. Owed' \subseteq Owed
  BY DEF ReadCall, ScanEnd, ReadReturn, ExitCall, ExitSwap, Restart, writeVars, Owed
<1>2. UNCHANGED <<online, mgr, files, rfile>>
  BY DEF ReadCall, ScanEnd, ReadReturn, ExitCall, ExitSwap, Restart, shareVars, fileVars, readVars
<1>3. \A h \in Gates : rfile[h] # 0 => rpc'[h] = rpc[h]
  <2>1. rpc' = rpc \/ (rfile[g] = 0 /\ \E x : rpc' = [rpc EXCEPT ![g] = x])
    BY DEF ReadCall, ScanEnd, ReadReturn, ExitCall, ExitSwap, Restart, readVars, IInv, ReaderInv, Sides
  <2> QED BY <2>1 DEF IInv, TypeInv
<1>4. CASE ~ReadReturn(g)
  <2>1. UNCHANGED <<rdata, delivered>>
    BY <1>4 DEF ReadCall, ScanEnd, ExitCall, ExitSwap, Restart, readVars
  <2> QED BY <1>1, <1>2, <1>3, <2>1, SamePlace, CalmGoesOn
<1>5. CASE ReadReturn(g)
  <2>1. Placed'
    BY <1>2, <1>3 DEF CalmInv, Placed, Where
  <2>2. \A h \in Gates : h # g => rdata'[h] = rdata[h]
    BY <1>5 DEF ReadReturn, IInv, TypeInv
  <2>3. \A r \in Recs : (r \in rdata[g] \/ delivered[r] > 0) => delivered'[r] > 0
    BY <1>5 DEF ReadReturn, IInv, TypeInv
  <2>4. ASSUME NEW r \in Recs, Reachable(r)
        PROVE  Reachable(r)'
    <3>1. ASSUME NEW h \in Gates, r \in rdata[h]
          PROVE  Reachable(r)'
      BY <2>2, <2>3, <3>1 DEF Reachable
    <3>2. CASE delivered[r] > 0
      BY <2>3, <3>2 DEF Reachable
    <3> QED BY <1>2, <2>4, <3>1, <3>2 DEF Reachable
  <2> QED BY <1>1, <2>1, <2>4, CalmGoesOn
<1> QED BY <1>4, <1>5

\* As long as nothing fails every step leaves the records within reach.
LEMMA CalmInductive == IInv /\ IInv' /\ CalmInv /\ [Next]_vars => CalmInv'
<1> SUFFICES ASSUME IInv, IInv', CalmInv, [Next]_vars, Calm' PROVE CalmInv'
  BY DEF CalmInv
<1>0. Calm
  BY CalmBefore
<1>1. CASE UNCHANGED vars
  <2>1. UNCHANGED <<online, mgr, files, rfile, rdata, delivered, rpc, pc, cur, acked>>
    BY <1>1 DEF vars, shareVars, fileVars, writeVars, readVars
  <2>2. Owed' \subseteq Owed
    BY <2>1 DEF Owed
  <2> QED BY <1>0, <2>1, <2>2, SamePlace, CalmGoesOn
<1>2. CASE Next
  <2>1. PICK g \in Gates :
          \/ \E w \in Writers : WriterStep(g, w) \/ \E r \in Recs : Call(g, w, r)
          \/ \E s \in Sides : Check(g, s) \/ ExitClose(g, s) \/ ExitDrop(g, s)
          \/ ReaderStep(g) \/ ExitCall(g) \/ ExitSwap(g) \/ UndefinedUse(g)
          \/ Crash(g) \/ Restart(g) \/ ShareDown(g) \/ ShareUp(g)
    BY <1>2 DEF Next
  <2>2. ASSUME NEW w \in Writers, WriterStep(g, w) \/ \E r \in Recs : Call(g, w, r)
        PROVE  CalmInv'
    BY <1>0, <2>2, CalmWriter, CalmWritten, CalmDrop DEF WriterStep
  <2>3. ASSUME NEW s \in Sides, Check(g, s) \/ ExitClose(g, s) \/ ExitDrop(g, s) PROVE CalmInv'
    BY <1>0, <2>3, CalmDrop
  <2>4. ASSUME ReaderStep(g) PROVE CalmInv'
    BY <1>0, <2>4, CalmClaim, CalmRead, CalmReader DEF ReaderStep
  <2>5. ASSUME ExitCall(g) \/ ExitSwap(g) \/ Restart(g) PROVE CalmInv'
    BY <1>0, <2>5, CalmReader
  <2>6. ~UndefinedUse(g)
    BY DEF UndefinedUse, Calm
  <2>7. ~Crash(g) /\ ~ShareDown(g)
    BY <1>0 DEF Crash, ShareDown, Faulty, Calm
  <2>8. ~ShareUp(g)
    BY <1>0 DEF ShareUp, CalmInv, Placed
  <2> QED BY <2>1, <2>2, <2>3, <2>4, <2>5, <2>6, <2>7, <2>8
<1> QED BY <1>1, <1>2

-----------------------------------------------------------------------------
(* What an exit leaves.                                                      *)

\* When remainMgrExit is over and no call holds the WriteFileMgr, its managers
\* are gone.
GoneInv ==
  \A g \in Gates : exitPc[g] = "done" /\ InCall(g) = {} => \A s \in Sides : ~mgr[g][s].is

\* Every step keeps that: the destructor runs before the map is empty or before
\* the last call returns.
LEMMA GoneStep == IInv /\ GoneInv /\ [Next]_vars => GoneInv'
<1> SUFFICES ASSUME IInv, GoneInv, [Next]_vars, NEW h \in Gates, exitPc'[h] = "done",
                    \A w \in Writers : pc'[h][w] = "idle", NEW t \in Sides
             PROVE  ~mgr'[h][t].is
  BY DEF GoneInv, InCall
<1> USE DEF procVars, fileVars, writeVars, readVars, shareVars
<1>0. exitPc[h] = "done" /\ (\A w \in Writers : pc[h][w] = "idle") => ~mgr[h][t].is
  BY DEF GoneInv, InCall
<1>1. CASE UNCHANGED <<mgr, exitPc, pc>>
  BY <1>0, <1>1
<1>2. CASE Next
  <2>1. PICK g \in Gates :
          \/ \E w \in Writers : WriterStep(g, w) \/ \E r \in Recs : Call(g, w, r)
          \/ \E s \in Sides : Check(g, s) \/ ExitClose(g, s) \/ ExitDrop(g, s)
          \/ ReaderStep(g) \/ ExitCall(g) \/ ExitSwap(g) \/ UndefinedUse(g)
          \/ Crash(g) \/ Restart(g) \/ ShareDown(g) \/ ShareUp(g)
    BY <1>2 DEF Next
  <2>2. ASSUME NEW w \in Writers, Look(g, w) \/ \E r \in Recs : Call(g, w, r)
        PROVE  ~mgr'[h][t].is
    <3>1. pc'[g][w] # "idle" /\ UNCHANGED <<mgr, exitPc>> /\ (h # g => pc'[h] = pc[h])
      BY <2>2 DEF Look, Call, IInv, TypeInv
    <3> QED BY <1>0, <3>1
  <2>3. ASSUME NEW w \in Writers, Make(g, w) \/ WriteDone(g, w) \/ WriteFails(g, w) \/ FlushFails(g, w)
        PROVE  ~mgr'[h][t].is
    <3>1. pc'[g][w] # "idle" /\ UNCHANGED exitPc /\ (h # g => pc'[h] = pc[h])
      <4>0. pc \in [Gates -> [Writers -> {"idle", "look", "new", "in", "done", "failed"}]]
        BY DEF IInv, TypeInv
      <4>1. CASE Make(g, w)
        BY <4>0, <4>1 DEF Make
      <4>2. CASE WriteDone(g, w)
        BY <4>0, <4>2 DEF WriteDone
      <4>3. CASE WriteFails(g, w) \/ FlushFails(g, w)
        <5>1. Failed(g, w) /\ UNCHANGED exitPc
          BY <4>3 DEF WriteFails, FlushFails
        <5> QED BY <4>0, <5>1 DEF Failed
      <4> QED BY <2>3, <4>1, <4>2, <4>3
    <3>2. h # g => mgr'[h] = mgr[h]
      BY <2>3 DEF Make, WriteDone, WriteFails, FlushFails, Happens, IInv, TypeInv
    <3> QED BY <1>0, <3>1, <3>2
  <2>4. ASSUME NEW w \in Writers, NEW s \in Sides, Drop(g, w, s)
        PROVE  ~mgr'[h][t].is
    <3>1. pc[g][w] # "idle" /\ UNCHANGED <<exitPc, pc>> /\ (h # g => mgr'[h] = mgr[h])
      BY <2>4 DEF Drop, Happens, IInv, TypeInv
    <3> QED BY <1>0, <3>1
  <2>5. ASSUME NEW w \in Writers, Return(g, w)
        PROVE  ~mgr'[h][t].is
    <3>1. UNCHANGED <<exitPc, mgr>> /\ (h # g => pc'[h] = pc[h])
      BY <2>5 DEF Return, IInv, TypeInv
    <3>2. CASE h = g
      <4>1. \A v \in Writers \ {w} : pc[g][v] = "idle"
        BY <2>5, <3>2 DEF Return, IInv, TypeInv
      <4>2. LastRef(g, w)
        BY <3>1, <3>2, <4>1 DEF LastRef
      <4> QED BY <2>5, <3>1, <3>2, <4>2 DEF Return
    <3> QED BY <1>0, <3>1, <3>2
  <2>6. ASSUME NEW s \in Sides, Check(g, s)
        PROVE  ~mgr'[h][t].is
    <3>1. UNCHANGED <<exitPc, pc>> /\ (h # g => mgr'[h] = mgr[h])
      BY <2>6 DEF Check, Happens, IInv, TypeInv
    <3>2. h # g
      <4>1. mgr[g][s].file # 0 /\ mgr[g][s] \in Mgr
        BY <2>6 DEF Check, IInv, TypeInv
      <4>2. mgr[g][s].is
        BY <4>1 DEF Mgr
      <4> QED BY <3>1, <4>2 DEF GoneInv, InCall
    <3> QED BY <1>0, <3>1, <3>2
  <2>7. ASSUME NEW s \in Sides, ExitClose(g, s) \/ ExitDrop(g, s)
        PROVE  ~mgr'[h][t].is
    <3>1. exitPc'[g] # "done" /\ UNCHANGED pc
      BY <2>7 DEF ExitClose, ExitDrop, IInv, TypeInv
    <3>2. h # g => exitPc'[h] = exitPc[h] /\ mgr'[h] = mgr[h]
      BY <2>7 DEF ExitClose, ExitDrop, Happens, IInv, TypeInv
    <3> QED BY <1>0, <3>1, <3>2
  <2>8. ASSUME ExitSwap(g)
        PROVE  ~mgr'[h][t].is
    <3>1. UNCHANGED <<pc, mgr>> /\ (h # g => exitPc'[h] = exitPc[h])
      BY <2>8 DEF ExitSwap, IInv, TypeInv
    <3>2. CASE h = g
      BY <2>8, <3>1, <3>2 DEF ExitSwap, InCall
    <3> QED BY <1>0, <3>1, <3>2
  <2>9. ASSUME UndefinedUse(g) \/ Crash(g)
        PROVE  ~mgr'[h][t].is
    <3>1. Dies(g)
      BY <2>9 DEF UndefinedUse, Crash
    <3>2. exitPc'[g] # "done"
      BY <3>1 DEF Dies, IInv, TypeInv
    <3>3. h # g => exitPc'[h] = exitPc[h] /\ mgr'[h] = mgr[h] /\ pc'[h] = pc[h]
      BY <3>1 DEF Dies, IInv, TypeInv
    <3> QED BY <1>0, <3>2, <3>3
  <2>10. ASSUME ReaderStep(g) \/ Restart(g) \/ ShareDown(g) \/ ShareUp(g)
         PROVE  UNCHANGED <<mgr, exitPc, pc>>
    BY <2>10 DEF ReaderStep, ReadCall, Claim, ReadFile, ReadFails, ScanEnd, ReadReturn, Restart,
                 ShareDown, ShareUp
  <2>11. ASSUME ExitCall(g)
         PROVE  ~mgr'[h][t].is
    <3>1. exitPc'[g] # "done" /\ UNCHANGED <<pc, mgr>> /\ (h # g => exitPc'[h] = exitPc[h])
      BY <2>11 DEF ExitCall, IInv, TypeInv
    <3> QED BY <1>0, <3>1
  <2> QED BY <1>1, <2>1, <2>2, <2>3, <2>4, <2>5, <2>6, <2>7, <2>8, <2>9, <2>10, <2>11 DEF WriterStep
<1> QED BY <1>1, <1>2 DEF vars

-----------------------------------------------------------------------------
(* The theorems.                                                             *)

\* The invariants hold in every reachable state.
LEMMA Invariance == Spec => [](IInv /\ CalmInv /\ GoneInv)
<1>1. Init => IInv /\ CalmInv
  BY Initially
<1>3. Init => GoneInv
  BY DEF Init, GoneInv
<1>2. (IInv /\ CalmInv /\ GoneInv) /\ [Next]_vars => (IInv /\ CalmInv /\ GoneInv)'
  BY Inductive, CalmInductive, GoneStep
<1> QED BY <1>1, <1>2, <1>3, PTL DEF Spec

\* Every variable keeps its type, and no file gets more than maxCount_ records:
\* writeToFile switches to a new file before the count is exceeded.
THEOREM Types == Spec => []TypeOK
<1>1. IInv => TypeOK
  BY DEF IInv, TypeInv, TypeOK, Mgr, File, Exts
<1> QED BY <1>1, Invariance, PTL

\* A set with at most one member
LEMMA AtMostOne ==
  ASSUME NEW S, \A x, y \in S : x = y
  PROVE  Cardinality(S) <= 1 /\ Cardinality(S) \in Nat
<1>1. CASE S = {}
  BY <1>1, FS_EmptySet
<1>2. CASE S # {}
  <2>1. PICK x \in S : TRUE
    BY <1>2
  <2>2. S = {x}
    BY <2>1
  <2> QED BY <2>2, FS_Singleton
<1> QED BY <1>1, <1>2

\* However the writes fall back from the share to the local directory, and
\* however many gateways read one directory, a record is never in two places
\* from which it could be delivered, nor delivered and still to be delivered.
THEOREM OneCopyAlways == Spec => []OneCopy
<1>1. IInv => OneCopy
  <2> SUFFICES ASSUME IInv, NEW r \in Recs
               PROVE  Cardinality(Copies(r)) + delivered[r] <= 1
    BY DEF OneCopy
  <2> DEFINE F == {i \in Ids : files[i].ext \in {"tmp", "ok"} /\ r \in files[i].recs}
             R == {h \in Gates : rfile[h] # 0 /\ r \in files[rfile[h]].recs}
             D == {h \in Gates : r \in rdata[h]}
  <2>1. \A h \in R : rfile[h] \in Ids /\ files[rfile[h]].ext = "bak" /\ r \in files[rfile[h]].recs
    BY DEF IInv, TypeInv, FileInv
  <2>2. AllSpent(r) => F = {} /\ R = {}
    BY <2>1 DEF AllSpent, Spent
  <2>3. \A i, j \in F : i = j
    BY DEF IInv, RecInv
  <2>4. \A h, k \in R : h = k
    <3>1. \A h, k \in R : rfile[h] = rfile[k]
      BY <2>1 DEF IInv, RecInv
    <3> QED BY <3>1 DEF IInv, FileInv
  <2>5. \A h, k \in D : h = k
    BY DEF IInv, RecInv
  <2>6. F # {} => R = {}
    BY <2>1 DEF IInv, RecInv
  <2>7. D # {} => AllSpent(r) /\ delivered[r] = 0
    BY DEF IInv, RecInv
  <2>8. delivered[r] \in 0 .. 1 /\ (delivered[r] > 0 => AllSpent(r) /\ D = {})
    BY <2>7 DEF IInv, RecInv, TypeInv
  <2>9. Copies(r) = {<<f, "file">> : f \in F} \cup {<<h, "reads">> : h \in R} \cup {<<h, "has">> : h \in D}
    BY DEF Copies
  <2> HIDE DEF F, R, D
  <2>10. \A x, y \in Copies(r) : x = y
    BY <2>2, <2>3, <2>4, <2>5, <2>6, <2>7, <2>9
  <2>11. delivered[r] > 0 => Copies(r) = {}
    BY <2>2, <2>8, <2>9
  <2>12. Cardinality(Copies(r)) <= 1 /\ Cardinality(Copies(r)) \in Nat
    BY <2>10, AtMostOne
  <2>13. delivered[r] > 0 => Cardinality(Copies(r)) = 0
    BY <2>11, FS_EmptySet
  <2> QED BY <2>8, <2>12, <2>13
<1> QED BY <1>1, Invariance, PTL

\* Whatever fails and whoever dies, a record whose write returned 0 is in a file,
\* with a reader or delivered, unless it died with the process that had read it.
THEOREM AckedIsKeptAlways == Spec => []AckedIsKept
<1>1. IInv => AckedIsKept
  BY DEF IInv, KeptInv, Kept, AckedIsKept
<1> QED BY <1>1, Invariance, PTL

\* As long as nothing fails a record whose write returned 0 is in a file whose
\* manager will publish it, published, claimed by a reader, or delivered: neither
\* the change of files nor everySecondCheck nor an exit, at whatever step of a
\* write that is not a use of a deleted manager, loses sight of it.
THEOREM NothingStrandedAlways == Spec => []NothingStranded
<1>1. IInv /\ CalmInv /\ GoneInv => NothingStranded
  <2> SUFFICES ASSUME IInv, CalmInv, GoneInv, Calm, NEW r \in acked PROVE InReach(r)
    BY DEF NothingStranded
  <2>1. Reachable(r)
    BY DEF CalmInv, Owed
  <2>2. ASSUME NEW g \in Gates, NEW s \in Sides, mgr[g][s].file # 0
        PROVE  WillClose(g)
    <3>1. mgr[g][s].is
      BY <2>2 DEF IInv, TypeInv, Mgr
    <3> QED BY <3>1 DEF GoneInv, WillClose
  <2> QED BY <2>1, <2>2 DEF Reachable, InReach
<1> QED BY <1>1, Invariance, PTL
=============================================================================
