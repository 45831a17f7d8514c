------------------------------ MODULE FatVolume ------------------------------
(***************************************************************************)
(* FatFs/ff.c on a FAT32 volume: the disk access window, the allocation    *)
(* table, a root directory, the file calls and the power that may fail.    *)
(*                                                                         *)
(* Nothing runs beside a call but the power, so a step of a call is what   *)
(* it does up to and with the next sector it writes: a step writes at most *)
(* one sector, before it changes anything in memory, and the power may     *)
(* fail between any two steps. Where it fails within f_rename, or between  *)
(* f_truncate and the end of the next f_sync, it may leave a volume that   *)
(* is not sound (torn): what is on the disk then is looked at, and the     *)
(* behaviour ends, for what FatFs does with such a volume is not modelled. *)
(***************************************************************************)
EXTENDS Integers, Sequences, FiniteSets, Functions

CONSTANTS
  Names,         \* file names of 8.3 form, one directory entry each
  LastCluster,   \* n_fatent - 1
  FatPerSector,  \* table entries in a sector (128)
  DirPerSector,  \* directory entries in a sector (16)
  SS,            \* units in a sector (512 bytes)
  CSize,         \* csize: sectors in a cluster
  Lengths,       \* lengths the application writes and reads
  Offsets,       \* offsets it seeks
  Modes,         \* modes it opens files with
  Layouts,       \* volumes it may find: the chain of the file in each slot
  MaxCalls,      \* bound on its calls
  MaxFailures    \* bound on power failures

Clusters == 2..LastCluster
NFree == LastCluster - 1       \* n_fatent - 2, the clusters of the volume
Eoc == LastCluster + 1         \* 0x0FFFFFFF: any number from n_fatent on
Unknown == NFree + 1           \* 0xFFFFFFFF: the free count is not known
Slots == 1..Cardinality(Names) \* the root directory is as long as it need be
BCS == CSize * SS              \* units in a cluster

ASSUME SizeAssumption ==
  /\ LastCluster \in Nat \ {0, 1}
  /\ {FatPerSector, DirPerSector, SS, CSize} \subseteq Nat \ {0}
  /\ Lengths \subseteq Nat \ {0} /\ Offsets \subseteq Nat
  /\ MaxCalls \in Nat /\ MaxFailures \in Nat
  /\ Modes \subseteq SUBSET {"READ", "WRITE", "CREATE_ALWAYS", "CREATE_NEW",
                             "OPEN_ALWAYS", "SEEKEND"}
  /\ IsFiniteSet(Names)

\* The files of a layout share no cluster, and no slot after an unused one is used.
ASSUME LayoutAssumption ==
  \A layout \in Layouts :
    /\ layout \in [Slots -> Seq(Clusters)]
    /\ \A i, j \in Slots : \A k \in DOMAIN layout[i], l \in DOMAIN layout[j] :
         layout[i][k] = layout[j][l] => i = j /\ k = l
    /\ \A i, j \in Slots : i < j /\ layout[i] = <<>> => layout[j] = <<>>

\* The sector of a table entry, of a directory entry, and of the FSINFO; the k-th
\* sector of a cluster, and no sector.
FatSector(c) == <<"fat", c \div FatPerSector>>
DirSector(i) == <<"dir", (i - 1) \div DirPerSector>>
InfoSector == <<"info", 0>>
Sect(c, k) == <<c, k>>
NoSect == <<0, 0>>

\* A directory entry never used, one marked as deleted (DDEM), and one of a file.
Blank == [kind |-> "blank"]
Deleted == [kind |-> "deleted"]
Entry(n, c, s) == [kind |-> "file", name |-> n, clust |-> c, size |-> s]
IsFree(e) == e.kind # "file"

Zeros == [u \in 1..SS |-> 0]
NoFile == [open |-> FALSE]
\* Ghosts: what a file holds, if it is there, or that nothing is said of it.
Absent == [kind |-> "absent", units |-> <<>>]
Held(s) == [kind |-> "held", units |-> s]
Open == [kind |-> "open", units |-> <<>>]
Unset == -1                    \* ghost: a unit the application never wrote

VARIABLES
  disk,      \* the table, the directory and the FSINFO as the disk holds them
  data,      \* the sectors of data on the disk
  vol,       \* the table and the directory as seen through the window
  win,       \* the window: its sector (winsect), and whether it is changed (wflag)
  fs,        \* FATFS: last_clst, free_clst, fsi_flag
  file,      \* the FIL of each file
  call,      \* the call in progress, and where it has got to
  content,   \* ghost: what each file holds for the application
  promise,   \* ghost: what each file holds on the disk, whatever happens
  loose,     \* ghost: files truncated and not yet synchronised
  torn,      \* the power failed while files were exposed
  calls, failures

fatVars == <<disk, data, vol, win, fs, file, call, content, promise, loose, torn, calls, failures>>

Idle == [op |-> "none", pc |-> "idle"]
InCall == call.op # "none"
IsOpen(n) == file[n].open

-----------------------------------------------------------------------------
(* The window and the steps of a call. *)

\* sync_window: what is changed goes to the disk.
Written ==
  [disk EXCEPT !.fat = [c \in Clusters |-> IF FatSector(c) = win.sect THEN vol.fat[c] ELSE @[c]],
               !.dir = [i \in Slots |-> IF DirSector(i) = win.sect THEN vol.dir[i] ELSE @[i]]]

\* move_window, over sectors S and to sector s at the end; is it changed there?
Window(S, s, changed) ==
  LET moves == ~(S \subseteq {win.sect})
  IN  /\ disk' = IF moves /\ win.dirty THEN Written ELSE disk
      /\ win' = [sect |-> s, dirty |-> changed \/ (win.dirty /\ ~moves)]

Sees(S, s) == Window(S, s, FALSE) /\ UNCHANGED vol
SeesNothing == UNCHANGED <<disk, vol, win>>
PutFat(S, c, x) == Window(S \cup {FatSector(c)}, FatSector(c), TRUE) /\ vol' = [vol EXCEPT !.fat[c] = x]
PutDir(S, i, e) == Window(S \cup {DirSector(i)}, DirSector(i), TRUE) /\ vol' = [vol EXCEPT !.dir[i] = e]

get_fat(c) == IF c \in Clusters THEN vol.fat[c] ELSE 1
SeesFat(c) == IF c \in Clusters THEN Sees({FatSector(c)}, FatSector(c)) ELSE SeesNothing

Goes(pc) == call' = [call EXCEPT !.pc = pc]
Ends(res) == call' = [call EXCEPT !.pc = "done", !.res = res]

SetFile(n, f) == file' = [file EXCEPT ![n] = f]
Content(n, s) == content' = [content EXCEPT ![n] = Held(s)]
Promise(n, p) == promise' = [promise EXCEPT ![n] = p]

At(op, pc) == call.op = op /\ call.pc = pc

-----------------------------------------------------------------------------
(* remove_chain: clusters are freed from the first to the last. *)

FreeNow == {c \in Clusters : vol.fat[c] = 0}

CountedMutant == fs
Counted == IF fs.free < NFree THEN [fs EXCEPT !.free = @ + 1, !.fsi = TRUE] ELSE fs

\* What comes after it.
Freed == CASE call.op = "open" -> "emptied"
           [] call.op = "truncate" -> "cut"
           [] OTHER -> "window"

FreeCluster ==
  LET c == call.cl
      nxt == get_fat(c)
  IN  /\ call.pc = "free"
      /\ IF nxt \in {0, 1}
         THEN /\ SeesFat(c)
              /\ IF nxt = 0 THEN Goes(Freed) ELSE Ends("FR_INT_ERR")
              /\ UNCHANGED fs
         ELSE /\ PutFat({}, c, 0)
              /\ call' = [call EXCEPT !.cl = nxt, !.pc = IF nxt \in Clusters THEN "free" ELSE Freed]
              /\ fs' = Counted
      /\ UNCHANGED <<data, file, content, promise, loose, calls, failures>>

-----------------------------------------------------------------------------
(* create_chain: the chain that ends in call.cl (0: none yet) gets a cluster. *)

Near(c) == IF c + 1 > LastCluster THEN 2 ELSE c + 1

\* The cluster after which the search starts.
SearchFrom(c) ==
  CASE c # 0 /\ vol.fat[Near(c)] = 0 -> c
    [] (c = 0 \/ vol.fat[Near(c)] # 0) /\ fs.last \in Clusters -> fs.last
    [] OTHER -> IF c = 0 THEN 1 ELSE c
\* How many it looks at before it comes to cluster d.
Before(c, d) == (d - SearchFrom(c) - 1) % NFree
Nearest(c) == CHOOSE d \in FreeNow : \A e \in FreeNow : Before(c, d) <= Before(c, e)
\* The sectors it looks at up to cluster d, and the last of all clusters it looks at.
SeenTo(c, d) ==
  {FatSector(e) : e \in {e \in Clusters : Before(c, e) <= Before(c, d)}
                        \cup (IF c = 0 THEN {} ELSE {c, Near(c)})}
Farthest(c) == CHOOSE d \in Clusters : Before(c, d) = NFree - 1

Given(c) == [fs EXCEPT !.last = c, !.free = IF @ <= NFree THEN @ - 1 ELSE @, !.fsi = TRUE]

\* The call goes on with cluster c, which is new or is already linked.
GoesOnIn(c) ==
  LET n == call.n
      f == [file[n] EXCEPT !.clust = c, !.sclust = IF @ = 0 THEN c ELSE @]
      k == IF call.op = "seek" /\ call.cl # 0 THEN BCS ELSE 0
  IN  /\ SetFile(n, [f EXCEPT !.fptr = @ + k])
      /\ call' = [call EXCEPT !.pc = IF call.op = "seek" THEN "seek" ELSE "sector", !.left = @ - k]

\* No cluster is free: a write ends early, a seek stops at the end of the last one.
GoesNoFurther ==
  LET n == call.n
  IN  IF call.op = "write"
      THEN /\ SetFile(n, [file[n] EXCEPT !.mod = TRUE])
           /\ call' = [call EXCEPT !.pc = "done", !.short = TRUE]
      ELSE /\ SetFile(n, IF call.cl = 0 THEN [file[n] EXCEPT !.clust = 0]
                         ELSE [file[n] EXCEPT !.fptr = @ + BCS])
           /\ Goes("seeked")

\* A chain that goes on, or is broken.
FollowChain ==
  LET c == call.cl
  IN  /\ call.pc = "grow" /\ c # 0 /\ vol.fat[c] # Eoc
      /\ SeesFat(c)
      /\ IF vol.fat[c] \in Clusters THEN GoesOnIn(vol.fat[c])
         ELSE Ends("FR_INT_ERR") /\ UNCHANGED file
      /\ UNCHANGED <<data, fs, content, promise, loose, calls, failures>>

VolumeFull ==
  LET c == call.cl
  IN  /\ call.pc = "grow" /\ (c # 0 => vol.fat[c] = Eoc) /\ (fs.free = 0 \/ FreeNow = {})
      /\ CASE fs.free # 0 -> Sees(SeenTo(c, Farthest(c)), FatSector(Farthest(c)))
           [] fs.free = 0 /\ c # 0 -> SeesFat(c)
           [] OTHER -> SeesNothing
      /\ GoesNoFurther
      /\ UNCHANGED <<data, fs, content, promise, loose, calls, failures>>

\* The new cluster d ends a chain before the chain that ends in c is linked to it.
NewMarkMutant(c, d) ==
  IF c = 0 THEN PutFat(SeenTo(c, d), d, Eoc) ELSE Sees(SeenTo(c, d), FatSector(d))
NewMark(c, d) == PutFat(SeenTo(c, d), d, Eoc)

TakeCluster ==
  LET c == call.cl
      d == Nearest(c)
  IN  /\ call.pc = "grow" /\ (c # 0 => vol.fat[c] = Eoc) /\ fs.free # 0 /\ FreeNow # {}
      /\ NewMark(c, d)
      /\ IF c = 0 THEN fs' = Given(d) /\ GoesOnIn(d)
         ELSE /\ call' = [call EXCEPT !.pc = "link", !.new = d]
              /\ UNCHANGED <<fs, file>>
      /\ UNCHANGED <<data, content, promise, loose, calls, failures>>

LinkCluster ==
  /\ call.pc = "link"
  /\ PutFat({}, call.cl, call.new)
  /\ fs' = Given(call.new)
  /\ GoesOnIn(call.new)
  /\ UNCHANGED <<data, content, promise, loose, calls, failures>>

-----------------------------------------------------------------------------
(* f_open. *)

First(S) == CHOOSE i \in S : \A j \in S : i <= j
Least(S) == IF S = {} THEN 0 ELSE First(S)
\* dir_find: the search ends at the file's entry or at a blank one.
StopsAt(n) ==
  Least({i \in Slots : vol.dir[i].kind = "blank" \/ (~IsFree(vol.dir[i]) /\ vol.dir[i].name = n)})
SlotOf(n) ==
  LET i == StopsAt(n) IN IF i # 0 /\ ~IsFree(vol.dir[i]) THEN i ELSE 0
\* The slots it sees on the way to slot i (0: to the end).
WayTo(i) == IF i = 0 THEN Slots ELSE 1..i
SectorsTo(i) == {DirSector(j) : j \in WayTo(i)}
LastSeen(i) == DirSector(IF i = 0 THEN Cardinality(Names) ELSE i)
\* dir_register takes the first entry that is free.
FreeSlot == First({i \in Slots : IsFree(vol.dir[i])})

\* A call begins with its first step.
NewCall(op, n, pc) ==
  [op |-> op, n |-> n, m |-> n, mode |-> {}, pc |-> pc, res |-> "FR_OK", slot |-> 0, cl |-> 0,
   top |-> 0, new |-> 0, left |-> 0, short |-> FALSE, at |-> 0, got |-> <<>>]
Begins(c) == call' = c /\ calls' = calls + 1

Opened(n, i, mode) ==
  [open |-> TRUE, mode |-> mode, slot |-> i, sclust |-> vol.dir[i].clust,
   size |-> vol.dir[i].size, fptr |-> 0, clust |-> 0, sect |-> NoSect, buf |-> Zeros,
   dirty |-> FALSE, mod |-> FALSE]
Emptied(n, i, mode) ==
  [open |-> TRUE, mode |-> mode \cup {"CREATE_ALWAYS"}, slot |-> i, sclust |-> 0, size |-> 0,
   fptr |-> 0, clust |-> 0, sect |-> NoSect, buf |-> Zeros, dirty |-> FALSE, mod |-> TRUE]

Creates(mode) == mode \cap {"CREATE_ALWAYS", "CREATE_NEW", "OPEN_ALWAYS"} # {}

OpenRefused(n, mode) ==
  LET i == SlotOf(n)
  IN  /\ IF i = 0 THEN ~Creates(mode) ELSE "CREATE_NEW" \in mode
      /\ Begins([NewCall("open", n, "done") EXCEPT !.res = IF i = 0 THEN "FR_NO_FILE" ELSE "FR_EXIST"])
      /\ Sees(SectorsTo(StopsAt(n)), LastSeen(StopsAt(n)))
      /\ UNCHANGED <<file, content, promise>>

\* The walk to the end is that of f_lseek.
OpenOld(n, mode) ==
  LET i == SlotOf(n)
      f == Opened(n, i, mode)
      ends == "SEEKEND" \in mode /\ f.size > 0
  IN  /\ i # 0 /\ mode \cap {"CREATE_ALWAYS", "CREATE_NEW"} = {}
      /\ Begins([NewCall("open", n, IF ends THEN "seek" ELSE "done") EXCEPT !.left = f.size])
      /\ SetFile(n, IF ends THEN [f EXCEPT !.clust = f.sclust] ELSE f)
      /\ Sees(SectorsTo(i), DirSector(i))
      /\ UNCHANGED <<content, promise>>

\* dir_register
OpenNew(n, mode) ==
  LET i == FreeSlot
  IN  /\ SlotOf(n) = 0 /\ Creates(mode)
      /\ Begins(NewCall("open", n, "done"))
      /\ PutDir(SectorsTo(StopsAt(n)) \cup SectorsTo(i), i, Entry(n, 0, 0))
      /\ SetFile(n, Emptied(n, i, mode))
      /\ Content(n, <<>>) /\ Promise(n, Open)

\* What is there is emptied; the entry goes to the disk before its chain is freed.
OpenOver(n, mode) ==
  LET i == SlotOf(n)
      cl == vol.dir[i].clust
  IN  /\ i # 0 /\ "CREATE_NEW" \notin mode /\ "CREATE_ALWAYS" \in mode
      /\ PutDir(SectorsTo(i), i, Entry(n, 0, 0))
      /\ IF cl = 0 THEN Begins(NewCall("open", n, "done")) /\ SetFile(n, Emptied(n, i, mode))
         ELSE /\ Begins([NewCall("open", n, "free") EXCEPT !.slot = i, !.cl = cl, !.top = cl,
                                                        !.mode = mode])
              /\ UNCHANGED file
      /\ Content(n, <<>>) /\ Promise(n, Open)

OpenFile(n, mode) ==
  /\ ~IsOpen(n)
  /\ OpenRefused(n, mode) \/ OpenOld(n, mode) \/ OpenNew(n, mode) \/ OpenOver(n, mode)
  /\ UNCHANGED <<data, fs, loose, failures>>

OverIsEmptied ==
  LET i == call.slot
  IN  /\ call.pc = "emptied"
      /\ Sees({DirSector(i)}, DirSector(i))
      /\ fs' = [fs EXCEPT !.last = call.top - 1]
      /\ SetFile(call.n, Emptied(call.n, i, call.mode))
      /\ Ends("FR_OK")
      /\ UNCHANGED <<data, content, promise, loose, calls, failures>>

-----------------------------------------------------------------------------
(* The sector buffer of a file, f_read and f_write. *)

AtSector(f) == f.fptr % SS = 0
\* The sector the pointer is in, and how much of it a transfer of len units takes.
Here(f) == Sect(f.clust, (f.fptr % BCS) \div SS)
InPart(f, len) == LET left == SS - (f.fptr % SS) IN IF len < left THEN len ELSE left
\* Does a whole sector go past the buffer?
Direct(f, len) == AtSector(f) /\ len >= SS

PcAt(p, left) ==
  CASE left = 0 -> "done" [] left > 0 /\ p % BCS = 0 -> "next" [] OTHER -> "sector"

\* What the buffer holds is written back before it takes another sector.
Evicts(f) ==
  CASE call.op = "read" -> AtSector(f) /\ ~Direct(f, call.left) /\ f.sect # Here(f)
    [] call.op = "write" -> AtSector(f)
    [] OTHER -> ~AtSector(f) /\ f.sect # Here(f)
FlushBuffer ==
  LET f == file[call.n]
  IN  /\ call.pc \in {"sector", "seeked"} /\ f.dirty /\ Evicts(f)
      /\ data' = [data EXCEPT ![f.sect] = f.buf]
      /\ SetFile(call.n, [f EXCEPT !.dirty = FALSE])
      /\ UNCHANGED <<disk, vol, win, fs, call, content, promise, loose, calls, failures>>

\* A sector read past the buffer, unless the buffer holds a newer one.
LatestMutant(f) == data[Here(f)]
Latest(f) == IF f.dirty /\ f.sect = Here(f) THEN f.buf ELSE data[Here(f)]

ReadFile(n, len) ==
  LET f == file[n]
      remain == f.size - f.fptr
      left == IF len > remain THEN remain ELSE len
  IN  /\ IsOpen(n) /\ "READ" \in f.mode
      /\ Begins([NewCall("read", n, PcAt(f.fptr, left)) EXCEPT !.left = left])
      /\ UNCHANGED <<disk, data, vol, win, fs, file, content, promise, loose, failures>>

\* On a cluster boundary: the cluster the next unit is in.
NextToRead ==
  LET n == call.n
      f == file[n]
      c == IF f.fptr = 0 THEN f.sclust ELSE get_fat(f.clust)
  IN  /\ At("read", "next")
      /\ IF f.fptr = 0 THEN SeesNothing ELSE SeesFat(f.clust)
      /\ IF c \in Clusters THEN SetFile(n, [f EXCEPT !.clust = c]) /\ Goes("sector")
         ELSE Ends("FR_INT_ERR") /\ UNCHANGED file
      /\ UNCHANGED <<data, fs, content, promise, loose, calls, failures>>

Transfers(k) ==
  LET p == file[call.n].fptr + k
      left == call.left - k
  IN  [call EXCEPT !.left = left, !.pc = PcAt(p, left)]

ReadSector ==
  LET n == call.n
      f == file[n]
      direct == Direct(f, call.left)
      loads == AtSector(f) /\ f.sect # Here(f)
      buf == IF ~direct /\ loads THEN data[Here(f)] ELSE f.buf
      p == f.fptr % SS
      k == InPart(f, call.left)
      units == IF direct THEN Latest(f) ELSE [u \in 1..k |-> buf[p + u]]
  IN  /\ At("read", "sector") /\ ~(f.dirty /\ Evicts(f))
      /\ SetFile(n, [f EXCEPT !.fptr = @ + k, !.buf = buf,
                              !.sect = IF ~direct /\ loads THEN Here(f) ELSE @])
      /\ call' = [Transfers(k) EXCEPT !.at = f.fptr, !.got = units]
      /\ UNCHANGED <<disk, data, vol, win, fs, content, promise, loose, calls, failures>>

WriteFile(n, len) ==
  LET f == file[n]
  IN  /\ IsOpen(n) /\ "WRITE" \in f.mode
      /\ Begins([NewCall("write", n, PcAt(f.fptr, len)) EXCEPT !.left = len])
      /\ UNCHANGED <<disk, data, vol, win, fs, file, content, promise, loose, failures>>

NextToWrite ==
  LET n == call.n
      f == file[n]
  IN  /\ At("write", "next")
      /\ IF f.fptr = 0 /\ f.sclust # 0
         THEN SetFile(n, [f EXCEPT !.clust = f.sclust]) /\ Goes("sector")
         ELSE /\ call' = [call EXCEPT !.pc = "grow", !.cl = IF f.fptr = 0 THEN 0 ELSE f.clust]
              /\ UNCHANGED file
      /\ UNCHANGED <<disk, data, vol, win, fs, content, promise, loose, calls, failures>>

\* Old contents cut or lengthened to hold k units x from position p on.
Overlay(s, p, k, x) ==
  [u \in 1..(IF p + k > Len(s) THEN p + k ELSE Len(s)) |->
     IF u \in (p + 1)..(p + k) THEN x ELSE s[u]]
Lengthened(s, k) == [u \in 1..k |-> IF u <= Len(s) THEN s[u] ELSE Unset]

\* A whole sector past the buffer, which is brought up to date, or a part of one in
\* the buffer, which is filled first if the file has more in that sector.
WriteSector ==
  LET n == call.n
      f == file[n]
      x == calls  \* what this call writes
      direct == Direct(f, call.left)
      fills == AtSector(f) /\ f.sect # Here(f) /\ f.fptr < f.size
      p == f.fptr % SS
      k == InPart(f, call.left)
      new == [u \in 1..SS |-> IF u \in (p + 1)..(p + k) THEN x
                              ELSE IF fills THEN data[Here(f)][u] ELSE f.buf[u]]
      end == f.fptr + k
      left == call.left - k
      g == [f EXCEPT !.fptr = end, !.size = IF end > @ THEN end ELSE @, !.mod = @ \/ left = 0]
  IN  /\ At("write", "sector") /\ ~(f.dirty /\ Evicts(f))
      /\ IF direct
         THEN /\ data' = [data EXCEPT ![Here(f)] = new]
              /\ SetFile(n, IF f.sect = Here(f) THEN [g EXCEPT !.buf = new] ELSE g)
         ELSE /\ SetFile(n, [g EXCEPT !.buf = new, !.sect = Here(f), !.dirty = TRUE])
              /\ UNCHANGED data
      /\ call' = Transfers(k)
      /\ Content(n, Overlay(content[n].units, f.fptr, k, x))
      /\ Promise(n, IF f.fptr < Len(promise[n].units) THEN Open ELSE promise[n])
      /\ UNCHANGED <<disk, vol, win, fs, loose, calls, failures>>

-----------------------------------------------------------------------------
(* f_lseek and f_truncate. *)

Clip(f, ofs) == IF ofs > f.size /\ "WRITE" \notin f.mode THEN f.size ELSE ofs

\* From the pointer's cluster, if the new one is not before it, or from the first.
SeekFile(n, offset) ==
  LET f == file[n]
      ofs == Clip(f, offset)
      here == (f.fptr - 1) \div BCS
      near == f.fptr > 0 /\ (ofs - 1) \div BCS >= here
      base == IF near THEN here * BCS ELSE 0
      pc == CASE ofs = 0 -> "seeked" [] ofs > 0 /\ ~near /\ f.sclust = 0 -> "grow" [] OTHER -> "seek"
  IN  /\ IsOpen(n)
      /\ Begins([NewCall("seek", n, pc) EXCEPT !.left = ofs - base])
      /\ SetFile(n, [f EXCEPT !.fptr = base, !.clust = IF near \/ ofs = 0 THEN @ ELSE f.sclust])
      /\ UNCHANGED <<disk, data, vol, win, fs, content, promise, loose, failures>>

\* In a file that is written to the chain is made longer as the pointer goes on.
SeekOn ==
  LET n == call.n
      f == file[n]
      stretches == call.op = "seek" /\ "WRITE" \in f.mode
      c == get_fat(f.clust)
  IN  /\ call.pc = "seek" /\ call.left > BCS
      /\ IF stretches
         THEN call' = [call EXCEPT !.pc = "grow", !.cl = f.clust] /\ SeesNothing /\ UNCHANGED file
         ELSE /\ SeesFat(f.clust)
              /\ IF c \in Clusters
                 THEN /\ SetFile(n, [f EXCEPT !.fptr = @ + BCS, !.clust = c])
                      /\ call' = [call EXCEPT !.left = @ - BCS]
                 ELSE /\ SetFile(n, IF call.op = "open" THEN NoFile ELSE f)
                      /\ Ends("FR_INT_ERR")
      /\ UNCHANGED <<data, fs, content, promise, loose, calls, failures>>

SeekInCluster ==
  LET n == call.n
  IN  /\ call.pc = "seek" /\ call.left <= BCS
      /\ SetFile(n, [file[n] EXCEPT !.fptr = @ + call.left])
      /\ Goes("seeked")
      /\ UNCHANGED <<disk, data, vol, win, fs, content, promise, loose, calls, failures>>

\* A file is as long as the pointer has gone; a sector in part is in the buffer.
Seeked ==
  LET n == call.n
      f == file[n]
      longer == f.fptr > f.size
      loads == ~AtSector(f) /\ f.sect # Here(f)
  IN  /\ call.pc = "seeked" /\ ~(f.dirty /\ Evicts(f))
      /\ SetFile(n, [f EXCEPT !.size = IF longer THEN f.fptr ELSE @, !.mod = @ \/ longer,
                              !.buf = IF loads THEN data[Here(f)] ELSE @,
                              !.sect = IF loads THEN Here(f) ELSE @])
      /\ Ends("FR_OK")
      /\ IF longer THEN Content(n, Lengthened(content[n].units, f.fptr)) ELSE UNCHANGED content
      /\ UNCHANGED <<disk, data, vol, win, fs, promise, loose, calls, failures>>

\* The chain after the pointer is freed at once, the entry only by f_sync.
TruncateFile(n) ==
  LET f == file[n]
      c == IF f.fptr = 0 THEN f.sclust ELSE get_fat(f.clust)
      cuts == f.fptr # 0 /\ c # Eoc
  IN  /\ IsOpen(n) /\ "WRITE" \in f.mode /\ f.fptr < f.size
      /\ Begins([NewCall("truncate", n, IF f.fptr = 0 \/ cuts THEN "free" ELSE "cut") EXCEPT !.cl = c])
      /\ CASE f.fptr = 0 -> SeesNothing
           [] cuts -> PutFat({}, f.clust, Eoc)
           [] OTHER -> SeesFat(f.clust)
      /\ Content(n, [u \in 1..f.fptr |-> content[n].units[u]])
      /\ Promise(n, Open)
      /\ loose' = loose \cup {n}
      /\ UNCHANGED <<data, fs, file, failures>>

Cut ==
  LET n == call.n
      f == file[n]
  IN  /\ call.pc = "cut"
      /\ data' = IF f.dirty THEN [data EXCEPT ![f.sect] = f.buf] ELSE data
      /\ SetFile(n, [f EXCEPT !.sclust = IF f.fptr = 0 THEN 0 ELSE @, !.size = f.fptr,
                              !.mod = TRUE, !.dirty = FALSE])
      /\ Ends("FR_OK")
      /\ UNCHANGED <<disk, vol, win, fs, content, promise, loose, calls, failures>>

-----------------------------------------------------------------------------
(* f_sync and f_close, f_unlink, f_rename and f_getfree. *)

\* The buffer, the entry, the window and the FSINFO go to the disk in this order.
f_syncMutant(n, op) ==
  LET f == file[n]
  IN  /\ Begins(NewCall(op, n, IF f.mod THEN "entry" ELSE "done"))
      /\ SetFile(n, IF f.mod \/ op = "sync" THEN f ELSE NoFile)
      /\ UNCHANGED data
f_sync(n, op) ==
  LET f == file[n]
  IN  /\ Begins(NewCall(op, n, IF f.mod THEN "entry" ELSE "done"))
      /\ SetFile(n, CASE f.mod -> [f EXCEPT !.dirty = FALSE]
                      [] ~f.mod /\ op = "sync" -> f
                      [] OTHER -> NoFile)
      /\ data' = IF f.mod /\ f.dirty THEN [data EXCEPT ![f.sect] = f.buf] ELSE data

SyncFile(n) ==
  /\ IsOpen(n) /\ f_sync(n, "sync")
  /\ UNCHANGED <<disk, vol, win, fs, content, promise, loose, failures>>
CloseFile(n) ==
  /\ IsOpen(n) /\ f_sync(n, "close")
  /\ UNCHANGED <<disk, vol, win, fs, content, promise, loose, failures>>

SyncEntry ==
  LET n == call.n
      f == file[n]
  IN  /\ call.pc = "entry"
      /\ PutDir({}, f.slot, Entry(n, f.sclust, f.size))
      /\ Goes("window")
      /\ UNCHANGED <<data, fs, file, content, promise, loose, calls, failures>>

sync_window ==
  /\ call.pc = "window"
  /\ disk' = IF win.dirty THEN Written ELSE disk
  /\ win' = [win EXCEPT !.dirty = FALSE]
  /\ Goes("info")
  /\ UNCHANGED <<data, vol, fs, file, content, promise, loose, calls, failures>>

WriteInfo ==
  LET n == call.n
  IN  /\ call.pc = "info"
      /\ IF fs.fsi
         THEN /\ disk' = [disk EXCEPT !.info = [free |-> fs.free, next |-> fs.last]]
              /\ win' = [win EXCEPT !.sect = InfoSector]
              /\ fs' = [fs EXCEPT !.fsi = FALSE]
         ELSE UNCHANGED <<disk, win, fs>>
      /\ file' = CASE call.op = "sync" -> [file EXCEPT ![n].mod = FALSE]
                   [] call.op = "close" -> [file EXCEPT ![n] = NoFile]
                   [] OTHER -> file
      /\ Ends("FR_OK")
      /\ UNCHANGED <<data, vol, content, promise, loose, calls, failures>>

\* Open files are not removed or renamed (ffconf.h on FF_FS_LOCK 0).
UnlinkFromMutant(cl) == "free"
UnlinkFrom(cl) == IF cl = 0 THEN "window" ELSE "free"
UnlinkFile(n) ==
  LET i == SlotOf(n)
      cl == vol.dir[i].clust
  IN  /\ ~IsOpen(n)
      /\ IF i = 0
         THEN /\ Begins([NewCall("unlink", n, "done") EXCEPT !.res = "FR_NO_FILE"])
              /\ Sees(SectorsTo(StopsAt(n)), LastSeen(StopsAt(n)))
              /\ UNCHANGED <<content, promise>>
         ELSE /\ Begins([NewCall("unlink", n, UnlinkFrom(cl)) EXCEPT !.cl = cl])
              /\ PutDir(SectorsTo(i), i, Deleted)
              /\ content' = [content EXCEPT ![n] = Absent]
              /\ Promise(n, Open)
      /\ UNCHANGED <<data, fs, file, loose, failures>>

\* The new entry is registered before the old one is removed, also when the new name
\* is the old one: that name is then not in use, and the file has two entries for a
\* while. The directory is not made longer for the second (the code stretches it).
RenameFile(n, m) ==
  LET i == SlotOf(n)
      j == SlotOf(m)
      new == FreeSlot
      e == vol.dir[i]
      looks == SectorsTo(StopsAt(n)) \cup (IF i = 0 THEN {} ELSE SectorsTo(StopsAt(m)))
      last == LastSeen(StopsAt(IF i = 0 THEN n ELSE m))
      res == CASE i = 0 -> "FR_NO_FILE" [] i # 0 /\ j \notin {0, i} -> "FR_EXIST" [] OTHER -> "FR_OK"
  IN  /\ ~IsOpen(n) /\ ~IsOpen(m)
      /\ res = "FR_OK" => \E k \in Slots : IsFree(vol.dir[k])
      /\ Begins([NewCall("rename", n, IF res = "FR_OK" THEN "remove" ELSE "done")
                   EXCEPT !.m = m, !.slot = i, !.res = res])
      /\ IF res = "FR_OK"
         THEN /\ PutDir(looks \cup SectorsTo(new), new, Entry(m, e.clust, e.size))
              /\ content' = [content EXCEPT ![n] = Absent, ![m] = content[n]]
              /\ promise' = [promise EXCEPT ![m] = Open, ![n] = Open]
         ELSE Sees(looks, last) /\ UNCHANGED <<content, promise>>
      /\ UNCHANGED <<data, fs, file, loose, failures>>

RemoveOld ==
  /\ call.pc = "remove"
  /\ PutDir({}, call.slot, Deleted)
  /\ Goes("window")
  /\ UNCHANGED <<data, fs, file, content, promise, loose, calls, failures>>

\* The table is counted if the free count is not known.
GetFree ==
  /\ calls' = calls + 1
  /\ IF fs.free <= NFree THEN SeesNothing /\ UNCHANGED fs
     ELSE /\ Sees({FatSector(c) : c \in Clusters}, FatSector(LastCluster))
          /\ fs' = [fs EXCEPT !.free = Cardinality(FreeNow), !.fsi = TRUE]
  /\ UNCHANGED <<data, file, call, content, promise, loose, failures>>

-----------------------------------------------------------------------------
(* What a volume holds. *)

\* The chains there may be, that of cluster c in table t (none if c is 0), and what is in it.
Chains == UNION {Injection(1..k, Clusters) : k \in 0..NFree}
IsChain(t, c, s) ==
  /\ c = (IF s = <<>> THEN 0 ELSE s[1])
  /\ \A k \in DOMAIN s : t[s[k]] = (IF k = Len(s) THEN Eoc ELSE s[k + 1])
Chain(t, c) == CHOOSE s \in Chains : IsChain(t, c, s)
Within(t, c) == LET s == Chain(t, c) IN {s[k] : k \in DOMAIN s}

UnitAt(s, p) == data[Sect(s[((p - 1) \div BCS) + 1], ((p - 1) % BCS) \div SS)][((p - 1) % SS) + 1]
Units(t, c, size) == LET s == Chain(t, c) IN [p \in 1..size |-> UnitAt(s, p)]

EntriesOf(d) == {i \in Slots : ~IsFree(d[i])}

\* Every chain ends, is long enough, and shares no cluster with another.
Sound(t, d) ==
  /\ \A i \in EntriesOf(d) :
       \E s \in Chains : IsChain(t, d[i].clust, s) /\ d[i].size <= Len(s) * BCS
  /\ \A i, j \in EntriesOf(d) : i < j =>
       /\ d[i].name # d[j].name
       /\ Within(t, d[i].clust) \cap Within(t, d[j].clust) = {}

OnDisk(d, n) ==
  LET i == Least({j \in EntriesOf(d.dir) : d.dir[j].name = n})
  IN  IF i = 0 THEN Absent ELSE Held(Units(d.fat, d.dir[i].clust, d.dir[i].size))

-----------------------------------------------------------------------------
(* The application and the power. *)

\* f_truncate frees clusters that the entry on the disk still names; f_rename
\* says of itself that an interruption can cause a cross-link.
Exposed == torn \/ loose # {} \/ (InCall /\ call.op = "rename")

\* What is synchronised, removed or renamed when the call returns stays so.
Return ==
  /\ InCall /\ call.pc = "done"
  /\ call' = Idle
  /\ promise' = [n \in Names |->
                   IF n \in {call.n, call.m} /\ call.op \in {"sync", "close", "unlink", "rename"}
                   THEN content[n] ELSE promise[n]]
  /\ loose' = IF call.op \in {"sync", "close"} THEN loose \ {call.n} ELSE loose
  /\ UNCHANGED <<disk, data, vol, win, fs, file, content, calls, failures>>

\* find_volume: the free count and the last cluster are those of the FSINFO.
Seen(d) == [fat |-> d.fat, dir |-> d.dir]
Unmoved == [sect |-> InfoSector, dirty |-> FALSE]
Mounted(d) == [last |-> d.info.next, free |-> d.info.free, fsi |-> FALSE]
NoFiles == [n \in Names |-> NoFile]
Holds(d) == [n \in Names |-> OnDisk(d, n)]

\* What the exposed files hold after a failure is not asked.
PowerFails ==
  /\ failures < MaxFailures
  /\ vol' = Seen(disk) /\ win' = Unmoved /\ fs' = Mounted(disk) /\ file' = NoFiles
  /\ call' = Idle
  /\ \/ /\ ~Exposed
        /\ content' = Holds(disk) /\ promise' = Holds(disk) /\ loose' = {}
        /\ UNCHANGED torn
     \/ /\ Exposed
        /\ torn' = TRUE
        /\ UNCHANGED <<content, promise, loose>>
  /\ failures' = failures + 1
  /\ UNCHANGED <<disk, data, calls>>

\* A volume with the files of a layout, each one unit shorter than its chain.
\* Cluster 2 was given out last (the root directory is kept apart here); the
\* free count may be unknown.
Formatted(name, layout, known) ==
  LET places == UNION {{i} \X DOMAIN layout[i] : i \in Slots}
      at(p) == layout[p[1]][p[2]]
      used == {at(p) : p \in places}
      link(p) == IF p[2] = Len(layout[p[1]]) THEN Eoc ELSE layout[p[1]][p[2] + 1]
  IN  [fat |-> [c \in Clusters |-> IF c \in used THEN link(CHOOSE p \in places : at(p) = c) ELSE 0],
       dir |-> [i \in Slots |-> IF layout[i] = <<>> THEN Blank
                                ELSE Entry(name[i], layout[i][1], Len(layout[i]) * BCS - 1)],
       info |-> [free |-> IF known THEN NFree - Cardinality(used) ELSE Unknown, next |-> 2]]

FatInit ==
  /\ \E name \in [Slots -> Names], layout \in Layouts, known \in BOOLEAN :
       IsInjective(name) /\ disk = Formatted(name, layout, known)
  /\ data = [s \in Clusters \X (0..(CSize - 1)) |-> Zeros]
  /\ vol = Seen(disk) /\ win = Unmoved /\ fs = Mounted(disk) /\ file = NoFiles
  /\ call = Idle
  /\ content = Holds(disk) /\ promise = Holds(disk) /\ loose = {}
  /\ torn = FALSE /\ calls = 0 /\ failures = 0

Steps ==
  \/ FreeCluster \/ FollowChain \/ VolumeFull \/ TakeCluster \/ LinkCluster \/ OverIsEmptied
  \/ FlushBuffer \/ NextToRead \/ ReadSector \/ NextToWrite \/ WriteSector
  \/ SeekOn \/ SeekInCluster \/ Seeked \/ Cut
  \/ SyncEntry \/ sync_window \/ WriteInfo \/ RemoveOld \/ Return

Calls ==
  /\ ~InCall /\ calls < MaxCalls
  /\ \/ \E n \in Names :
          \/ \E mode \in Modes : OpenFile(n, mode)
          \/ \E len \in Lengths : WriteFile(n, len) \/ ReadFile(n, len)
          \/ \E ofs \in Offsets : SeekFile(n, ofs)
          \/ TruncateFile(n) \/ SyncFile(n) \/ CloseFile(n) \/ UnlinkFile(n)
          \/ \E m \in Names : RenameFile(n, m)
     \/ GetFree

FatNext ==
  /\ ~torn
  /\ \/ Calls /\ UNCHANGED torn
     \/ Steps /\ UNCHANGED torn
     \/ PowerFails

FatSpec == FatInit /\ [][FatNext]_fatVars

-----------------------------------------------------------------------------
(* Properties. *)

\* The clusters of the file n, open or not.
UsedBy(n) ==
  LET i == Least({j \in EntriesOf(vol.dir) : vol.dir[j].name = n})
  IN  CASE IsOpen(n) -> Within(vol.fat, file[n].sclust)
        [] ~IsOpen(n) /\ i # 0 -> Within(vol.fat, vol.dir[i].clust)
        [] OTHER -> {}

\* At every instant at which no file is exposed, and so after a power failure there,
\* the chains on the disk end, are as long as their files, and share no cluster (the
\* order of f_open, f_unlink, create_chain and f_sync).
DiskIsSound == ~Exposed => Sound(disk.fat, disk.dir)

\* What f_sync or f_close acknowledged is on the disk until the application
\* changes it, whatever the window, other files and power failures do, and so
\* also after a failure that tears other files: those f_truncate or f_rename was
\* called for, of which nothing is promised.
SyncedSurvives ==
  \A n \in Names :
    LET now == OnDisk(disk, n)
    IN  /\ promise[n].kind = "absent" => now = Absent
        /\ promise[n].kind = "held" =>
             /\ now.kind = "held" /\ Len(now.units) >= Len(promise[n].units)
             /\ \A p \in 1..Len(promise[n].units) :
                  promise[n].units[p] \in {Unset, now.units[p]}

\* f_read delivers what was written there last, through the sector buffer,
\* direct transfers and two files in turn, and ends where the file does; until a
\* power failure tears the volume.
ReadsBack ==
  ~torn =>
    /\ ~InCall => \A n \in Names : IsOpen(n) => file[n].size = Len(content[n].units)
    /\ InCall /\ call.op = "read" =>
         \A u \in DOMAIN call.got : content[call.n].units[call.at + u] \in {Unset, call.got[u]}

\* Until the power fails no cluster is lost or counted twice: those marked as
\* used are those of the files, the free count is right once it is known, and a
\* write is cut short only when there is no free cluster at all.
ClustersAccounted ==
  failures = 0 =>
    /\ ~InCall => /\ Clusters \ FreeNow = UNION {UsedBy(n) : n \in Names}
                /\ fs.free \in {Cardinality(FreeNow), Unknown}
    /\ InCall /\ call.short => FreeNow = {}

\* Until a power failure within f_rename, or between f_truncate and the end of the
\* next f_sync, tears the volume, no sequence of calls and power failures leads FatFs
\* to FR_INT_ERR, its own "Assertion failed". On a torn volume it can: an entry may
\* name clusters that were freed.
NoAssertionFails == ~torn /\ InCall => call.res # "FR_INT_ERR"
=============================================================================
