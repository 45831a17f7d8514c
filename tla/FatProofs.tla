------------------------------- MODULE FatProofs ------------------------------
(***************************************************************************)
(* The calls of FatVolume keep its inductive invariant, which gives that a *)
(* disk is sound whenever the power may fail, that clusters are accounted  *)
(* for and that FatFs never finds its own structures broken.               *)
(*                                                                         *)
(* The second half is the invariant of what the files hold, on top of it:  *)
(* where each unit of a file is, what the disk has of what f_sync and      *)
(* f_close promised, and that the steps which move a pointer or lengthen a *)
(* chain keep both.  FatData has the rest of the steps.                    *)
(***************************************************************************)
EXTENDS FatInvariant

-----------------------------------------------------------------------------
(* Steps that change the entry, the chain or the FIL of one file *)

\* What the entries of other files are.
OthersStay(n) ==
  \A i \in Slots :
    \/ vol'.dir[i] = vol.dir[i]
    \/ (IsFile(i) => vol.dir[i].name = n) /\ (IsFile(i)' => vol'.dir[i].name = n)

\* A step that changes the entry, the chain and the FIL of one file keeps the
\* invariant if what it leaves fits, and nothing else changes.
LEMMA EntryKeeps ==
  ASSUME FatInv, NEW n \in Names, On(n), On(n)', OthersStay(n), failures' = failures,
         loose' \subseteq Names, \A m \in Names \ {n} : m \in loose' <=> m \in loose,
         ~Removing, ~Removing', DirOK(vol.dir)', WindowFits', DiskFine',
         \A m \in Names \ {n} : file'[m] = file[m],
         NEW ch, ChainsFit(ch), NEW ch2, Chained(vol'.fat, ch2),
         Complete(vol.fat, ch) => Complete(vol'.fat, ch2), Floating(ch2)',
         \A m \in Names \ {n} : ch2[m] = ch[m],
         IsOpen(n)' => FileFits(ch2, n)',
         \A i \in Slots : IsFile(i)' /\ vol'.dir[i].name = n => EntryFits(ch2, i)',
         (\A i \in Slots : IsFile(i)' => vol'.dir[i].name # n) => ch2[n] = <<>>,
         n \in loose' => LooseFits(n)', Typed', InPhase', Counts'
  PROVE  FatInv'
PROOF
<1>1. /\ DirOK(vol.dir) /\ LooseFit /\ VolTyped(vol) /\ loose \subseteq Names
  BY DEF FatInv, Typed
<1>2. /\ Chained(vol.fat, ch) /\ (failures = 0 => Complete(vol.fat, ch))
      /\ EntriesFit(ch) /\ Unnamed(ch) /\ FilesFit(ch)
  BY DEF ChainsFit
<1>3. Chained(vol.fat, ch2)' /\ (failures = 0 => Complete(vol.fat, ch2))'
  BY <1>2
<1>4. \A i \in Slots : ~Excused(i) /\ ~Excused(i)'
  BY DEF Excused, Removing
<1>5. \A i \in Slots : (IsFile(i) /\ vol.dir[i].name # n) \/ (IsFile(i)' /\ vol'.dir[i].name # n) =>
         vol'.dir[i] = vol.dir[i] /\ IsFile(i) /\ IsFile(i)'
  BY DEF OthersStay, IsFile
<1>6. \A m \in Names \ {n} : (IsOpen(m)' <=> IsOpen(m)) /\ (Loose(m) <=> m \in loose) /\ (Loose(m)' <=> m \in loose')
  BY DEF IsOpen, Loose, With, Doing, On, InCall
<1>7. ASSUME NEW i \in Slots, IsFile(i)' PROVE EntryFits(ch2, i)'
  <2>1. CASE vol'.dir[i].name = n
    BY <1>7, <2>1
  <2>2. CASE vol'.dir[i].name # n
    <3>1. vol'.dir[i] = vol.dir[i] /\ IsFile(i)
      BY <1>5, <1>7, <2>2
    <3>2. PICK m : m = vol.dir[i].name
      OBVIOUS
    <3>3. m \in Names \ {n} /\ EntryFits(ch, i)
      BY <1>1, <1>2, <1>4, <2>2, <3>1, <3>2 DEF EntriesFit, VolTyped, DirTyped, EntryOk, IsFile
    <3>4. (IsOpen(m)' <=> IsOpen(m)) /\ (Loose(m) => Loose(m)') /\ ch2[m] = ch[m]
      BY <1>6, <3>3
    <3> QED
      BY <3>1, <3>2, <3>3, <3>4, EntryStays
  <2> QED
    BY <2>1, <2>2
<1>8. EntriesFit(ch2)'
  BY <1>7 DEF EntriesFit
<1>9. ASSUME NEW m \in Names, \A i \in Slots : IsFile(i)' /\ vol'.dir[i].name = m => Excused(i)'
      PROVE  ch2[m] = <<>>
  <2>1. \A i \in Slots : IsFile(i)' => vol'.dir[i].name # m
    BY <1>4, <1>9
  <2>2. CASE m = n
    BY <2>1, <2>2
  <2>3. CASE m # n
    <3>1. \A i \in Slots : IsFile(i) => vol.dir[i].name # m
      BY <1>5, <2>1, <2>3
    <3> QED
      BY <1>2, <2>3, <3>1 DEF Unnamed
  <2> QED
    BY <2>2, <2>3
<1>10. Unnamed(ch2)'
  BY <1>9 DEF Unnamed
<1>11. ASSUME NEW m \in Names, IsOpen(m)' PROVE FileFits(ch2, m)'
  <2>1. CASE m = n
    BY <1>11, <2>1
  <2>2. CASE m # n
    <3>1. FileFits(ch, m) /\ file[m].slot \in Slots
      BY <1>2, <1>11, <2>2, Parts DEF FilesFit, IsOpen, IsFil
    <3>2. IsFile(file[m].slot) /\ vol.dir[file[m].slot].name # n
      BY <2>2, <3>1 DEF FileFits, SlotFits, IsFile
    <3>3. vol'.dir[file[m].slot] = vol.dir[file[m].slot]
      BY <1>5, <3>1, <3>2
    <3> QED
      BY <2>2, <3>1, <3>3, OthersFit
  <2> QED
    BY <2>1, <2>2
<1>12. FilesFit(ch2)'
  BY <1>11 DEF FilesFit
<1>13. ChainsFit(ch2)'
  BY <1>3, <1>8, <1>10, <1>12 DEF ChainsFit
<1>14. ASSUME NEW m \in loose' PROVE LooseFits(m)'
  <2>1. CASE m # n
    <3>1. m \in Names \ {n} /\ m \in loose /\ LooseFits(m)
      BY <1>1, <1>14, <2>1 DEF LooseFit, LooseFits
    <3>2. ~Cutting(m) /\ ~With(m, {"sync", "close"}, {"done"})
      BY <2>1 DEF On, InCall, With, Doing, Cutting
    <3>3. IsOpen(m) /\ file[m].mod
      BY <3>1, <3>2 DEF LooseFits
    <3> QED
      BY <3>1, <3>3 DEF LooseFits, IsOpen
  <2>2. CASE m = n
    BY <1>14, <2>2
  <2> QED
    BY <2>1, <2>2
<1>15. LooseFit'
  BY <1>14 DEF LooseFit, LooseFits
<1>16. Agrees'
  BY DEF WindowFits
<1> QED
  BY <1>13, <1>15, <1>16 DEF FatInv

\* The entries of the file stay: what they have to be of its chain.
LEMMA SameEntries ==
  ASSUME FatInv, NEW n \in Names, NEW ch, ChainsFit(ch), NEW ch2, ch2[n] = ch[n], vol'.dir = vol.dir,
         ~Removing, IsOpen(n)' <=> IsOpen(n), Loose(n) => Loose(n)'
  PROVE  /\ \A i \in Slots : IsFile(i)' /\ vol'.dir[i].name = n => EntryFits(ch2, i)'
         /\ (\A i \in Slots : IsFile(i)' => vol'.dir[i].name # n) => ch2[n] = <<>>
PROOF
<1>1. \A i \in Slots : ~Excused(i) /\ (IsFile(i)' <=> IsFile(i))
  BY DEF Excused, Removing, IsFile
<1>2. ASSUME NEW i \in Slots, IsFile(i)', vol'.dir[i].name = n PROVE EntryFits(ch2, i)'
  <2>1. EntryFits(ch, i) /\ n = vol.dir[i].name
    BY <1>1, <1>2 DEF ChainsFit, EntriesFit
  <2> QED
    BY <2>1, EntryStays
<1>3. (\A i \in Slots : IsFile(i)' => vol'.dir[i].name # n) => ch2[n] = <<>>
  BY <1>1 DEF ChainsFit, Unnamed
<1> QED
  BY <1>2, <1>3

-----------------------------------------------------------------------------
(* Calls that move no pointer *)

\* No call is under way with a pointer or a chain.
AtEase == call.op \in {"none", "sync", "close", "unlink", "rename"} \/ call.pc = "done"

\* What does not apply between calls and in calls that move no pointer.
LEMMA AtEaseIs ==
  ASSUME NEW n, AtEase
  PROVE  /\ ~Ahead(n) /\ ~Cutting(n) /\ ~Seeking(n)
         /\ ~With(n, {"write"}, {"next", "sector", "grow", "link"})
         /\ ~With(n, {"seek"}, {"seek", "seeked", "grow", "link"})
BY DEF AtEase, Ahead, Cutting, Seeking, With, Doing

\* What an open file is like then,
LEMMA EasyFits ==
  ASSUME NEW ch, NEW n \in Names, FileFits(ch, n), AtEase
  PROVE  LET f == file[n]
             e == vol.dir[f.slot]
             s == ch[n]
         IN  /\ f.fptr <= f.size /\ f.size <= Room(s) /\ f.sclust = Head0(s) /\ f.fptr <= Room(s)
             /\ f.fptr > 0 => InCluster(s, f.clust, ToCluster(f.fptr))
             /\ e.kind = "file" /\ e.name = n /\ (f.mod \/ e.clust = f.sclust)
BY AtEaseIs DEF FileFits, PointerFits, ChainFits, SlotFits

\* and what suffices for it to fit again.
LEMMA FitsEasily ==
  ASSUME NEW ch, NEW n \in Names, FileFits(ch, n), AtEase, AtEase', NEW ch2, ch2[n] = ch[n],
         NEW g, g = file'[n], g.slot = file[n].slot, g.sclust = file[n].sclust, g.size = file[n].size,
         g.fptr = file[n].fptr, g.clust = file[n].clust,
         NEW e, e = vol'.dir[g.slot], e.kind = "file", e.name = n, g.mod \/ e.clust = g.sclust
  PROVE  FileFits(ch2, n)'
PROOF
<1>1. LET f == file[n]
          s == ch[n]
      IN  /\ f.fptr <= f.size /\ f.size <= Room(s) /\ f.sclust = Head0(s) /\ f.fptr <= Room(s)
          /\ f.fptr > 0 => InCluster(s, f.clust, ToCluster(f.fptr))
  BY EasyFits
<1>2. ~Ahead(n)' /\ ~Cutting(n)' /\ ~Seeking(n)'
  BY DEF AtEase, Ahead, Cutting, Seeking, With, Doing
<1>3. PointerFits(ch2, n)'
  BY <1>1, <1>2 DEF PointerFits
<1>4. ChainFits(ch2, n)'
  BY <1>1, <1>2 DEF ChainFits
<1>5. SlotFits(n)'
  BY DEF SlotFits
<1> QED
  BY <1>3, <1>4, <1>5 DEF FileFits

\* No chain is nobody's before or after.
LEMMA StillFloats ==
  ASSUME NEW ch, ChainsFit(ch), {call.pc, call'.pc} \cap {"free", "link"} = {}
  PROVE  Floating(ch)' /\ ch[Nobody] = <<>>
BY DEF ChainsFit, Floating

\* A step with one file in which chains and entries stay.
LEMMA EasyStep ==
  ASSUME FatInv, NEW n \in Names, On(n), On(n)', vol' = vol, loose' = loose, failures' = failures,
         fs'.free = fs.free, FsTyped', call' = Idle \/ IsCall(call'),
         ~Removing, ~Removing', WindowFits', DiskFine', {call.pc, call'.pc} \cap {"free", "link"} = {},
         StaysShort, FilesTyped', \A m \in Names \ {n} : file'[m] = file[m],
         NEW ch, ChainsFit(ch),
         IsOpen(n)' => FileFits(ch, n)',
         \A i \in Slots : IsFile(i)' /\ vol'.dir[i].name = n => EntryFits(ch, i)',
         n \in loose => LooseFits(n)', InPhase'
  PROVE  FatInv'
PROOF
<1>1. /\ DirOK(vol.dir) /\ loose \subseteq Names /\ failures \in Nat /\ Counts
  BY Parts DEF FatInv
<1>2. Typed'
  BY <1>1, TypedNext
<1>3. Counts'
  BY <1>1, CountsStay
<1>4. Floating(ch)' /\ Chained(vol'.fat, ch) /\ (Complete(vol.fat, ch) => Complete(vol'.fat, ch))
  BY StillFloats DEF ChainsFit
<1>5. OthersStay(n) /\ DirOK(vol.dir)'
  BY <1>1 DEF OthersStay
<1>6. (\A i \in Slots : IsFile(i)' => vol'.dir[i].name # n) => ch[n] = <<>>
  BY DEF ChainsFit, Unnamed, IsFile
<1>7. /\ loose' \subseteq Names
      /\ \A m \in Names \ {n} : m \in loose' <=> m \in loose
      /\ \A m \in Names \ {n} : ch[m] = ch[m]
      /\ n \in loose' => LooseFits(n)'
  BY <1>1
<1> QED
  BY <1>2, <1>3, <1>4, <1>5, <1>6, <1>7, EntryKeeps

\* The disk does not change, or comes to be what is seen.
LEMMA DiskFineStays ==
  ASSUME FatInv, disk' = disk \/ AsSeen(disk'), ~Removing, Steady' => Steady
  PROVE  DiskFine'
PROOF
<1>1. PICK ch : ChainsFit(ch)
  BY DEF FatInv
<1> QED
  BY <1>1, Parts, StaysFine DEF FatInv, Removing

-----------------------------------------------------------------------------
(* f_sync and f_close *)

\* f_sync and f_close write the sector buffer,
LEMMA SyncBeginsKeeps ==
  ASSUME FatInv, ~InCall, NEW n \in Names, IsOpen(n), NEW op \in {"sync", "close"}, f_sync(n, op),
         UNCHANGED <<disk, vol, win, fs, loose, failures>>
  PROVE  FatInv'
PROOF
<1>f. PICK f : f = file[n]
  OBVIOUS
<1>1. /\ WindowFits /\ FsTyped /\ FilesTyped /\ IsFil(f) /\ call.op = "none" /\ call.pc = "idle" /\ DirOK(vol.dir)
      /\ \A ops, pcs : "none" \notin ops => ~Doing(ops, pcs)
  BY <1>f, Parts, AtRest
<1>2. PICK ch : ChainsFit(ch)
  BY DEF FatInv
<1>3. /\ ch[n] \in Seq(Clusters) /\ FileFits(ch, n) /\ f.size <= Room(ch[n]) /\ f.sclust = Head0(ch[n])
      /\ vol.dir[f.slot].kind = "file" /\ vol.dir[f.slot].name = n
      /\ (f.mod \/ vol.dir[f.slot].clust = f.sclust) /\ (n \in loose => f.mod)
  BY <1>f, <1>2, PointerAtRest
<1>g. PICK g : g = (CASE f.mod -> [f EXCEPT !.dirty = FALSE]
                      [] ~f.mod /\ op = "sync" -> f
                      [] OTHER -> NoFile)
  OBVIOUS
<1>p. PICK pc : pc = (IF f.mod THEN "entry" ELSE "done")
  OBVIOUS
<1>4. SetFile(n, g) /\ call' = NewCall(op, n, pc)
  BY <1>f, <1>g, <1>p DEF f_sync, Begins
<1>5. f.mod \in BOOLEAN
  BY <1>1 DEF IsFil
<1>6. (f.mod => pc = "entry" /\ g = [f EXCEPT !.dirty = FALSE]) /\ (~f.mod => pc = "done")
      /\ (~f.mod /\ op = "sync" => g = f) /\ (~f.mod /\ op = "close" => g = NoFile)
  BY <1>5, <1>g, <1>p
<1>7. IsCall(call') /\ call'.op = op /\ call'.n = n /\ call'.pc = pc /\ ~call'.short
  BY <1>4 DEF NewCall, IsCall, CallFields
<1>8. f.mod \/ op = "sync" =>
        /\ IsFil(g) /\ g.slot = f.slot /\ g.sclust = f.sclust /\ g.size = f.size /\ g.fptr = f.fptr
        /\ g.clust = f.clust /\ g.mod = f.mod
  BY <1>1, <1>6 DEF IsFil, FilFields
<1>9. IsFil(g) \/ g = NoFile
  BY <1>6, <1>8
<1>10. FilesTyped' /\ file'[n] = g /\ \A m \in Names \ {n} : file'[m] = file[m]
  BY <1>1, <1>4, <1>9, FileSet
<1>11. WindowFits' /\ disk' = disk /\ vol' = vol
  BY <1>1, SeesNothingKeeps DEF SeesNothing
<1>12. pc \in {"entry", "done"}
  BY <1>5, <1>6
<1>13. On(n) /\ On(n)' /\ ~Removing /\ ~Removing' /\ AtEase /\ AtEase'
  BY <1>1, <1>7 DEF On, InCall, Removing, Doing, AtEase
<1>14. Steady' => Steady
  <2>1. ASSUME NEW m \in loose, Steady' PROVE FALSE
    <3>1. With(m, {"sync", "close"}, {"info", "done"})'
      BY <2>1 DEF Steady
    <3>2. m = n /\ pc = "done"
      BY <1>7, <1>12, <3>1 DEF With, Doing
    <3> QED
      BY <1>3, <1>6, <2>1, <3>2
  <2> QED
    BY <1>1, <2>1 DEF Steady
<1>15. DiskFine'
  BY <1>11, <1>13, <1>14, DiskFineStays
<1>16. IsOpen(n)' => IsFil(g) /\ (f.mod \/ op = "sync")
  BY <1>5, <1>6, <1>8, <1>10 DEF IsOpen, NoFile
<1>17. IsOpen(n)' => FileFits(ch, n)'
  BY <1>3, <1>8, <1>10, <1>11, <1>13, <1>16, <1>f, FitsEasily
<1>18. ASSUME NEW i \in Slots, IsFile(i)', vol'.dir[i].name = n PROVE EntryFits(ch, i)'
  <2>1. IsFile(i) /\ vol.dir[i].name = n /\ EntryFits(ch, i)
    BY <1>2, <1>11, <1>13, <1>18 DEF IsFile, ChainsFit, EntriesFit, Excused, Removing
  <2>2. CASE f.mod \/ op = "sync"
    <3>1. IsOpen(n)' /\ IsOpen(n)
      BY <1>8, <1>10, <2>2 DEF IsOpen, IsFil
    <3>2. Loose(n) => Loose(n)'
      BY <1>3, <1>6, <1>7 DEF Loose, With, Doing
    <3> QED
      BY <1>11, <2>1, <3>1, <3>2, EntryStays
  <2>3. CASE ~(f.mod \/ op = "sync")
    <3>1. ~IsOpen(n)'
      BY <1>6, <1>10, <2>3 DEF IsOpen, NoFile
    <3>2. i = f.slot
      BY <1>1, <1>3, <2>1 DEF DirOK, Names1, IsFile, IsFil
    <3>3. ~Loose(n) /\ IsOpen(n)
      BY <1>3, <2>3 DEF Loose
    <3>4. vol.dir[i].size <= Room(ch[n])
      BY <2>1, <3>3 DEF EntryFits
    <3> QED
      BY <1>3, <1>11, <2>1, <2>3, <3>1, <3>2, <3>4 DEF EntryFits
  <2> QED
    BY <2>2, <2>3
<1>19. n \in loose => LooseFits(n)'
  BY <1>3, <1>8, <1>10 DEF LooseFits, IsOpen, IsFil
<1>20. InPhase'
  <2>1. pc # "done" => IsOpen(n)' /\ g.mod
    BY <1>6, <1>8, <1>10 DEF IsOpen, IsFil
  <2> QED
    BY <1>7, <1>10, <1>12, <2>1 DEF InPhase, Phase
<1>21. StaysShort /\ FsTyped' /\ fs'.free = fs.free /\ {call.pc, call'.pc} \cap {"free", "link"} = {}
  BY <1>1, <1>7, <1>12 DEF StaysShort, FsTyped
<1> QED
  BY <1>2, <1>7, <1>10, <1>11, <1>13, <1>15, <1>17, <1>18, <1>19, <1>20, <1>21, EasyStep

\* whichever of the two it is,
LEMMA SyncFileKeeps ==
  ASSUME FatInv, ~InCall, NEW n \in Names, SyncFile(n) \/ CloseFile(n)
  PROVE  FatInv'
BY SyncBeginsKeeps DEF SyncFile, CloseFile

\* A call that ends f_sync or f_close, or a removal.
LEMMA InSync ==
  ASSUME FatInv, call.pc \in {"entry", "window", "info"}
  PROVE  /\ InCall /\ IsCall(call) /\ AtEase /\ ~Removing /\ call.n \in Names
         /\ call.op \in {"sync", "close", "unlink", "rename"}
         /\ call.pc = "entry" => call.op \in {"sync", "close"} /\ file[call.n].mod
         /\ call.op \in {"sync", "close"} => IsOpen(call.n)
         /\ call.op \in {"unlink", "rename"} => ~IsOpen(call.n)
         /\ call.op = "rename" => ~IsOpen(call.m)
         /\ call.op \in {"sync", "close"} /\ call.pc # "entry" =>
              vol.dir[file[call.n].slot] = Entry(call.n, file[call.n].sclust, file[call.n].size)
         /\ call.pc = "info" => ~win.dirty
PROOF
<1>1. Phase(call.op, file[call.n], call.pc) /\ (InCall => IsCall(call)) /\ (~InCall => call = Idle)
  BY Parts
<1>2. InCall
  BY <1>1 DEF Idle
<1>3. call.op # "none" /\ call.n \in Names
  BY <1>1, <1>2 DEF InCall, IsCall
<1>4. call.op \in {"sync", "close", "unlink", "rename"}
  BY <1>1, <1>3 DEF Phase
<1>5. call.pc = "entry" => call.op \in {"sync", "close"} /\ file[call.n].mod
  BY <1>1, <1>4 DEF Phase
<1>6. /\ call.op \in {"sync", "close"} => IsOpen(call.n)
      /\ call.op \in {"unlink", "rename"} => ~IsOpen(call.n)
      /\ call.op = "rename" => ~IsOpen(call.m)
      /\ call.pc = "info" => ~win.dirty
  BY <1>1, <1>4 DEF Phase
<1>7. call.op \in {"sync", "close"} /\ call.pc # "entry" =>
        vol.dir[file[call.n].slot] = Entry(call.n, file[call.n].sclust, file[call.n].size)
  BY <1>1 DEF Phase
<1>8. AtEase /\ ~Removing
  BY <1>4 DEF AtEase, Removing, Doing
<1> QED
  BY <1>1, <1>2, <1>3, <1>4, <1>5, <1>6, <1>7, <1>8

\* An entry that is that of an open file, as the file is.
LEMMA OwnEntry ==
  ASSUME NEW ch, NEW n \in Names, NEW s \in Seq(Clusters), s = ch[n], NEW e, e.name = n, e.kind = "file",
         e.clust = Head0(s), e.size \in Nat, e.size <= Room(s), NEW i, vol'.dir[i] = e
  PROVE  EntryFits(ch, i)'
PROOF
<1>1. (Head0(s) = 0 <=> s = <<>>) /\ (s = <<>> => Room(s) = 0)
  BY HeadOf, RoomIs
<1>2. e.clust = 0 => e.size = 0
  <2>1. ASSUME e.clust = 0 PROVE e.size = 0
    <3>1. e.size <= 0
      BY <1>1, <2>1
    <3> QED
      BY <3>1
  <2> QED
    BY <2>1
<1> QED
  BY <1>2 DEF EntryFits

\* then the entry,
LEMMA SyncEntryKeeps ==
  ASSUME FatInv, SyncEntry
  PROVE  FatInv'
PROOF
<1>1. call.pc = "entry"
  BY DEF SyncEntry
<1>2. PICK n \in Names : n = call.n
  BY <1>1, InSync
<1>f. PICK f : f = file[n]
  OBVIOUS
<1>3. /\ InCall /\ IsCall(call) /\ AtEase /\ ~Removing /\ call.op \in {"sync", "close"}
      /\ IsOpen(n) /\ f.mod
  BY <1>1, <1>2, <1>f, InSync
<1>4. /\ WindowFits /\ FsTyped /\ FilesTyped /\ IsFil(f) /\ loose \subseteq Names /\ DirOK(vol.dir)
      /\ failures \in Nat
  BY <1>f, <1>3, Parts
<1>5. PICK ch : ChainsFit(ch)
  BY DEF FatInv
<1>s. PICK s : s = ch[n]
  OBVIOUS
<1>6. /\ s \in Seq(Clusters) /\ FileFits(ch, n)
      /\ f.size <= Room(s) /\ f.sclust = Head0(s)
      /\ vol.dir[f.slot].kind = "file" /\ vol.dir[f.slot].name = n
  BY <1>f, <1>s, <1>3, <1>5, OfFile, EasyFits
<1>e. PICK e : e = Entry(n, f.sclust, f.size)
  OBVIOUS
<1>7. /\ PutDir({}, f.slot, e) /\ call' = [call EXCEPT !.pc = "window"]
      /\ UNCHANGED <<fs, file, loose, failures>>
  BY <1>2, <1>f, <1>e DEF SyncEntry, Goes
<1>8. /\ e.kind = "file" /\ e.name = n /\ e.clust = f.sclust /\ e.size = f.size
  BY <1>e DEF Entry
<1>9. EntryOk(e) /\ f.slot \in Slots /\ f.size \in Nat
  BY <1>4, <1>8 DEF EntryOk, IsFil
<1>10. /\ WindowFits' /\ (disk' = disk \/ AsSeen(disk'))
       /\ vol'.fat = vol.fat /\ vol'.dir[f.slot] = e /\ \A j \in Slots \ {f.slot} : vol'.dir[j] = vol.dir[j]
  BY <1>4, <1>7, <1>9, PutDirKeeps
<1>11. IsCall(call') /\ call'.op = call.op /\ call'.n = n /\ call'.pc = "window" /\ call'.short = call.short
  BY <1>2, <1>3, <1>7 DEF IsCall, CallFields
<1>12. FilesTyped' /\ file'[n] = f /\ \A m \in Names \ {n} : file'[m] = file[m]
  BY <1>f, <1>7, SameFile
<1>13. On(n) /\ On(n)' /\ ~Removing' /\ AtEase'
  BY <1>2, <1>3, <1>11 DEF On, InCall, Removing, Doing, AtEase
<1>14. \A i \in Slots : vol'.dir[i].kind = vol.dir[i].kind /\ (IsFile(i) => vol'.dir[i].name = vol.dir[i].name)
  BY <1>6, <1>8, <1>10 DEF IsFile
<1>15. DirOK(vol.dir)'
  BY <1>4, <1>14 DEF DirOK, Names1, BlanksLast, IsFile
<1>16. OthersStay(n)
  BY <1>6, <1>8, <1>10 DEF OthersStay
<1>17. Steady' => Steady
  <2>1. \A m : ~With(m, {"sync", "close"}, {"info", "done"})'
    BY <1>11 DEF With, Doing
  <2> QED
    BY <1>3, <1>7, <2>1 DEF Steady, Doing
<1>18. DiskFine'
  BY <1>3, <1>10, <1>17, DiskFineStays
<1>19. IsOpen(n)' => FileFits(ch, n)'
  BY <1>f, <1>3, <1>6, <1>8, <1>10, <1>12, <1>13, FitsEasily
<1>20. ASSUME NEW i \in Slots, IsFile(i)', vol'.dir[i].name = n PROVE EntryFits(ch, i)'
  <2>1. i = f.slot
    BY <1>4, <1>6, <1>9, <1>10, <1>20 DEF DirOK, Names1, IsFile
  <2>2. e.clust = Head0(s) /\ e.size \in Nat /\ e.size <= Room(s)
    BY <1>6, <1>8, <1>9
  <2> QED
    BY <1>6, <1>8, <1>10, <1>s, <2>1, <2>2, OwnEntry
<1>21. (\A i \in Slots : IsFile(i)' => vol'.dir[i].name # n) => ch[n] = <<>>
  BY <1>8, <1>9, <1>10 DEF IsFile
<1>22. n \in loose' => LooseFits(n)'
  BY <1>f, <1>3, <1>12 DEF LooseFits, IsOpen
<1>23. InPhase'
  <2>1. IsOpen(n)' /\ vol'.dir[f.slot] = Entry(n, f.sclust, f.size)
    BY <1>3, <1>10, <1>12, <1>e, <1>f DEF IsOpen
  <2> QED
    BY <1>3, <1>11, <1>12, <2>1 DEF InPhase, Phase
<1>24. Typed'
  BY <1>4, <1>7, <1>10, <1>11, <1>12, TypedNext DEF FsTyped
<1>25. {call.pc, call'.pc} \cap {"free", "link"} = {}
  BY <1>1, <1>11
<1>26. Counts'
  <2>1. StaysShort
    BY <1>1, <1>3, <1>11 DEF StaysShort
  <2> QED
    BY <1>7, <1>10, <1>25, <2>1, CountsStay DEF FatInv
<1>27. Floating(ch)' /\ Chained(vol'.fat, ch) /\ (Complete(vol.fat, ch) => Complete(vol'.fat, ch))
  BY <1>5, <1>10, <1>25, StillFloats DEF ChainsFit
<1>28. /\ loose' \subseteq Names /\ (\A m \in Names \ {n} : m \in loose' <=> m \in loose) /\ failures' = failures
       /\ \A m \in Names \ {n} : ch[m] = ch[m]
  BY <1>4, <1>7
<1> QED
  BY <1>3, <1>5, <1>10, <1>12, <1>13, <1>15, <1>16, <1>18, <1>19, <1>20, <1>21, <1>22, <1>23, <1>24, <1>26,
     <1>27, <1>28, EntryKeeps

\* the window, after which the disk is what is seen,
LEMMA SyncWindowKeeps ==
  ASSUME FatInv, sync_window
  PROVE  FatInv'
PROOF
<1>1. call.pc = "window"
  BY DEF sync_window
<1>2. PICK n \in Names : n = call.n
  BY <1>1, InSync
<1>3. /\ InCall /\ IsCall(call) /\ AtEase /\ ~Removing /\ call.op \in {"sync", "close", "unlink", "rename"}
      /\ call.op \in {"sync", "close"} => IsOpen(n)
      /\ call.op \in {"unlink", "rename"} => ~IsOpen(n)
      /\ call.op = "rename" => ~IsOpen(call.m)
      /\ call.op \in {"sync", "close"} => vol.dir[file[n].slot] = Entry(n, file[n].sclust, file[n].size)
  BY <1>1, <1>2, InSync
<1>4. /\ WindowFits /\ FsTyped /\ FilesTyped /\ loose \subseteq Names /\ DirOK(vol.dir) /\ VolTyped(vol)
  BY <1>3, Parts
<1>5. PICK ch : ChainsFit(ch)
  BY DEF FatInv
<1>6. /\ disk' = (IF win.dirty THEN Written ELSE disk) /\ win' = [win EXCEPT !.dirty = FALSE]
      /\ call' = [call EXCEPT !.pc = "info"] /\ UNCHANGED <<vol, fs, file, loose, failures>>
  BY DEF sync_window, Goes
<1>7. DiskTyped(disk') /\ AsSeen(disk')
  BY <1>4, <1>6, WrittenIs DEF WindowFits
<1>8. WindowFits' /\ ~win'.dirty
  BY <1>4, <1>6, <1>7 DEF WindowFits, Agrees, AsSeen
<1>9. IsCall(call') /\ call'.op = call.op /\ call'.n = n /\ call'.m = call.m /\ call'.pc = "info"
      /\ call'.short = call.short
  BY <1>2, <1>3, <1>6 DEF IsCall, CallFields
<1>10. FilesTyped' /\ file'[n] = file[n] /\ \A m \in Names \ {n} : file'[m] = file[m]
  BY <1>6, SameFile
<1>11. On(n) /\ On(n)' /\ ~Removing' /\ AtEase'
  BY <1>2, <1>3, <1>9 DEF On, InCall, Removing, Doing, AtEase
<1>12. DiskFine'
  <2>1. ASSUME Steady' PROVE Settled
    <3>1. ASSUME NEW m \in Names, Loose(m) PROVE FALSE
      <4>1. m \in loose
        BY <3>1 DEF Loose
      <4>2. With(m, {"sync", "close"}, {"info", "done"})'
        BY <1>6, <2>1, <4>1 DEF Steady
      <4>3. With(m, {"sync", "close"}, {"window", "info", "done"})
        BY <1>1, <1>2, <1>9, <4>2 DEF With, Doing
      <4> QED
        BY <3>1, <4>3 DEF Loose
    <3> QED
      BY <1>3, <3>1 DEF Settled, Removing
  <2> QED
    BY <1>4, <1>5, <1>7, <2>1, DiskStaysFine DEF FatInv
<1>13. (IsOpen(n)' <=> IsOpen(n)) /\ vol' = vol
  BY <1>6, <1>10 DEF IsOpen
<1>14. IsOpen(n)' => FileFits(ch, n)'
  <2>1. ASSUME IsOpen(n) PROVE FileFits(ch, n)'
    <3>1. FileFits(ch, n) /\ vol.dir[file[n].slot].kind = "file" /\ vol.dir[file[n].slot].name = n
          /\ (file[n].mod \/ vol.dir[file[n].slot].clust = file[n].sclust)
      BY <1>3, <1>5, <2>1, OfFile, EasyFits
    <3> QED
      BY <1>3, <1>10, <1>11, <1>13, <3>1, FitsEasily
  <2> QED
    BY <1>13, <2>1
<1>15. Loose(n) => Loose(n)'
  BY <1>1, <1>2, <1>6, <1>9 DEF Loose, With, Doing
<1>16. \A i \in Slots : IsFile(i)' /\ vol'.dir[i].name = n => EntryFits(ch, i)'
  BY <1>3, <1>5, <1>13, <1>15, SameEntries
<1>17. n \in loose => LooseFits(n)'
  <2>1. n \in loose => IsOpen(n) /\ file[n].mod
    BY <1>1, <1>3, AtEaseIs DEF FatInv, LooseFit, With, Doing
  <2> QED
    BY <1>10, <1>13, <2>1 DEF LooseFits
<1>18. InPhase'
  <2>1. (IsOpen(call.m)' <=> IsOpen(call.m)) /\ (call.op = "rename" => ~IsOpen(call.m)')
    BY <1>3, <1>6 DEF IsOpen
  <2>2. CASE call.op \in {"sync", "close"}
    BY <1>3, <1>8, <1>9, <1>10, <1>13, <2>2 DEF InPhase, Phase
  <2>3. CASE call.op = "unlink"
    BY <1>3, <1>8, <1>9, <1>10, <1>13, <2>3 DEF InPhase, Phase
  <2>4. CASE call.op = "rename"
    BY <1>2, <1>3, <1>8, <1>9, <1>10, <1>13, <2>1, <2>4 DEF InPhase, Phase
  <2> QED
    BY <1>3, <2>2, <2>3, <2>4
<1>19. /\ StaysShort /\ FsTyped' /\ fs'.free = fs.free /\ {call.pc, call'.pc} \cap {"free", "link"} = {}
       /\ loose' = loose /\ failures' = failures
  BY <1>1, <1>3, <1>4, <1>6, <1>9 DEF StaysShort, FsTyped
<1> QED
  BY <1>3, <1>5, <1>8, <1>9, <1>10, <1>11, <1>12, <1>13, <1>14, <1>16, <1>17, <1>18, <1>19, EasyStep

\* and the FSINFO.
LEMMA WriteInfoKeeps ==
  ASSUME FatInv, WriteInfo
  PROVE  FatInv'
PROOF
<1>1. call.pc = "info"
  BY DEF WriteInfo
<1>2. PICK n \in Names : n = call.n
  BY <1>1, InSync
<1>f. PICK f : f = file[n]
  OBVIOUS
<1>3. /\ InCall /\ IsCall(call) /\ AtEase /\ ~Removing /\ call.op \in {"sync", "close", "unlink", "rename"}
      /\ call.op \in {"sync", "close"} => IsOpen(n)
      /\ call.op \in {"unlink", "rename"} => ~IsOpen(n)
      /\ call.op = "rename" => ~IsOpen(call.m)
      /\ call.op \in {"sync", "close"} => vol.dir[f.slot] = Entry(n, f.sclust, f.size)
      /\ ~win.dirty
  BY <1>1, <1>2, <1>f, InSync
<1>4. /\ WindowFits /\ FsTyped /\ FilesTyped /\ loose \subseteq Names /\ DirOK(vol.dir) /\ VolTyped(vol)
      /\ (call.op \in {"sync", "close"} => IsFil(f)) /\ (call.op \in {"unlink", "rename"} => f = NoFile)
  BY <1>f, <1>3, Parts
<1>5. PICK ch : ChainsFit(ch)
  BY DEF FatInv
<1>6. /\ IF fs.fsi
         THEN /\ disk' = [disk EXCEPT !.info = [free |-> fs.free, next |-> fs.last]]
              /\ win' = [win EXCEPT !.sect = InfoSector]
              /\ fs' = [fs EXCEPT !.fsi = FALSE]
         ELSE UNCHANGED <<disk, win, fs>>
      /\ call' = [call EXCEPT !.pc = "done", !.res = "FR_OK"] /\ UNCHANGED <<vol, loose, failures>>
  BY DEF WriteInfo, Ends
<1>7. /\ DiskTyped(disk') /\ disk'.fat = disk.fat /\ disk'.dir = disk.dir
      /\ DOMAIN win' = {"sect", "dirty"} /\ ~win'.dirty /\ win'.dirty \in BOOLEAN
      /\ FsTyped' /\ fs'.free = fs.free
  <2>1. CASE fs.fsi
    <3> DEFINE info == [free |-> fs.free, next |-> fs.last]
    <3>1. info.free \in 0..Unknown
      BY <1>4 DEF FsTyped
    <3>2. disk' = [disk EXCEPT !.info = info]
      BY <1>6, <2>1
    <3> HIDE DEF info
    <3>3. DiskTyped(disk') /\ disk'.fat = disk.fat /\ disk'.dir = disk.dir
      BY <1>4, <3>1, <3>2 DEF WindowFits, DiskTyped
    <3>4. DOMAIN win' = {"sect", "dirty"} /\ ~win'.dirty /\ win'.dirty \in BOOLEAN
      BY <1>3, <1>4, <1>6, <2>1 DEF WindowFits
    <3>5. FsTyped' /\ fs'.free = fs.free
      BY <1>4, <1>6, <2>1 DEF FsTyped
    <3> QED
      BY <3>3, <3>4, <3>5
  <2>2. CASE ~fs.fsi
    BY <1>3, <1>4, <1>6, <2>2 DEF WindowFits, FsTyped
  <2> QED
    BY <2>1, <2>2
<1>8. WindowFits'
  BY <1>3, <1>4, <1>6, <1>7 DEF WindowFits, Agrees
<1>9. IsCall(call') /\ call'.op = call.op /\ call'.n = n /\ call'.m = call.m /\ call'.pc = "done"
      /\ call'.short = call.short
  BY <1>2, <1>3, <1>6 DEF IsCall, CallFields
<1>g. PICK g : g = (CASE call.op = "sync" -> [f EXCEPT !.mod = FALSE]
                      [] call.op = "close" -> NoFile
                      [] OTHER -> f)
  OBVIOUS
<1>10. /\ call.op = "sync" => g = [f EXCEPT !.mod = FALSE]
       /\ call.op = "close" => g = NoFile
       /\ call.op \in {"unlink", "rename"} => g = f
  BY <1>g
<1>11. /\ call.op \in {"sync", "close"} => SetFile(n, g)
       /\ call.op \in {"unlink", "rename"} => file' = file
  <2>1. file' = CASE call.op = "sync" -> [file EXCEPT ![n].mod = FALSE]
                   [] call.op = "close" -> [file EXCEPT ![n] = NoFile]
                   [] OTHER -> file
    BY <1>2 DEF WriteInfo
  <2>2. CASE call.op = "sync"
    BY <1>f, <1>10, <2>1, <2>2 DEF SetFile
  <2>3. CASE call.op = "close"
    BY <1>10, <2>1, <2>3 DEF SetFile
  <2>4. CASE call.op \in {"unlink", "rename"}
    BY <2>1, <2>4
  <2> QED
    BY <1>3, <2>2, <2>3, <2>4
<1>12. call.op = "sync" =>
         /\ IsFil(g) /\ g.slot = f.slot /\ g.sclust = f.sclust /\ g.size = f.size /\ g.fptr = f.fptr
         /\ g.clust = f.clust
  BY <1>4, <1>10 DEF IsFil, FilFields
<1>13. IsFil(g) \/ g = NoFile
  BY <1>3, <1>4, <1>10, <1>12
<1>14. FilesTyped' /\ file'[n] = g /\ \A m \in Names \ {n} : file'[m] = file[m]
  <2>1. CASE call.op \in {"sync", "close"}
    BY <1>4, <1>11, <1>13, <2>1, FileSet
  <2>2. CASE call.op \in {"unlink", "rename"}
    BY <1>10, <1>11, <1>f, <2>2, SameFile
  <2> QED
    BY <1>3, <2>1, <2>2
<1>15. On(n) /\ On(n)' /\ ~Removing' /\ AtEase'
  BY <1>2, <1>3, <1>9 DEF On, InCall, Removing, Doing, AtEase
<1>16. DiskFine'
  <2>1. ASSUME Steady' PROVE Steady
    <3>1. ASSUME NEW m \in loose PROVE With(m, {"sync", "close"}, {"info", "done"})
      <4>1. With(m, {"sync", "close"}, {"info", "done"})'
        BY <1>6, <2>1, <3>1 DEF Steady
      <4> QED
        BY <1>1, <1>2, <1>9, <4>1 DEF With, Doing
    <3> QED
      BY <1>1, <3>1 DEF Steady, Doing
  <2> QED
    BY <1>7, <2>1 DEF DiskFine, FatInv
<1>17. (IsOpen(n)' <=> call.op = "sync") /\ vol' = vol
  BY <1>3, <1>4, <1>6, <1>10, <1>12, <1>14 DEF IsOpen, IsFil, NoFile
<1>18. IsOpen(n)' => FileFits(ch, n)'
  <2>1. ASSUME call.op = "sync" PROVE FileFits(ch, n)'
    <3>1. FileFits(ch, n)
      BY <1>3, <1>5, <2>1, OfFile
    <3>2. PICK e : e = vol'.dir[g.slot]
      OBVIOUS
    <3>3. e.kind = "file" /\ e.name = n /\ e.clust = g.sclust
      BY <1>3, <1>12, <1>17, <2>1, <3>2 DEF Entry
    <3> QED
      BY <1>3, <1>12, <1>14, <1>15, <1>f, <2>1, <3>1, <3>2, <3>3, FitsEasily
  <2> QED
    BY <1>17, <2>1
<1>19. ASSUME NEW i \in Slots, IsFile(i)', vol'.dir[i].name = n PROVE EntryFits(ch, i)'
  <2>1. IsFile(i) /\ vol.dir[i].name = n /\ EntryFits(ch, i)
    BY <1>3, <1>5, <1>17, <1>19 DEF IsFile, ChainsFit, EntriesFit, Excused, Removing
  <2>2. CASE call.op = "close"
    <3>1. FileFits(ch, n) /\ ch[n] \in Seq(Clusters)
      BY <1>3, <1>5, <2>2, OfFile
    <3>2. f.size <= Room(ch[n]) /\ f.sclust = Head0(ch[n])
          /\ vol.dir[f.slot].kind = "file" /\ vol.dir[f.slot].name = n
      BY <1>3, <1>f, <3>1, EasyFits
    <3>3. i = f.slot
      BY <1>4, <2>1, <2>2, <3>2 DEF DirOK, Names1, IsFile, IsFil
    <3>4. vol.dir[i].clust = f.sclust /\ vol.dir[i].size = f.size
      BY <1>3, <2>2, <3>3 DEF Entry
    <3>5. ~IsOpen(n)'
      BY <1>17, <2>2
    <3> QED
      BY <1>17, <2>1, <3>2, <3>4, <3>5 DEF EntryFits
  <2>3. CASE call.op # "close"
    <3>1. IsOpen(n)' <=> IsOpen(n)
      BY <1>3, <1>17, <2>3
    <3>2. Loose(n) => Loose(n)'
      BY <1>1, <1>2, <1>6, <1>9 DEF Loose, With, Doing
    <3> QED
      BY <1>17, <2>1, <3>1, <3>2, EntryStays
  <2> QED
    BY <2>2, <2>3
<1>20. n \in loose => LooseFits(n)'
  <2>1. n \in loose => IsOpen(n)
    BY <1>1 DEF FatInv, LooseFit, With, Doing
  <2> QED
    BY <1>3, <1>9, <2>1 DEF LooseFits, With, Doing
<1>21. InPhase'
  <2>1. CASE call.op \in {"sync", "close"}
    BY <1>9, <2>1 DEF InPhase, Phase
  <2>2. CASE call.op = "unlink"
    BY <1>9, <1>17, <2>2 DEF InPhase, Phase
  <2>3. CASE call.op = "rename"
    <3>1. file' = file
      BY <1>11, <2>3
    <3>2. ~IsOpen(call.m)'
      BY <1>3, <1>9, <2>3, <3>1 DEF IsOpen
    <3> QED
      BY <1>2, <1>3, <1>9, <1>17, <2>3, <3>2 DEF InPhase, Phase
  <2> QED
    BY <1>3, <2>1, <2>2, <2>3
<1>22. /\ StaysShort /\ {call.pc, call'.pc} \cap {"free", "link"} = {}
       /\ loose' = loose /\ failures' = failures
  BY <1>1, <1>3, <1>6, <1>9 DEF StaysShort
<1> QED
  BY <1>3, <1>5, <1>7, <1>8, <1>9, <1>14, <1>15, <1>16, <1>17, <1>18, <1>19, <1>20, <1>21, <1>22, EasyStep

\* A call returns.
LEMMA ReturnKeeps ==
  ASSUME FatInv, Return
  PROVE  FatInv'
PROOF
<1>1. InCall /\ call.pc = "done" /\ call' = Idle /\ UNCHANGED <<disk, vol, win, fs, file, failures>>
      /\ loose' = IF call.op \in {"sync", "close"} THEN loose \ {call.n} ELSE loose
  BY DEF Return
<1>2. PICK n \in Names : n = call.n
  BY <1>1, Parts DEF IsCall
<1>3. /\ WindowFits /\ FsTyped /\ FilesTyped /\ loose \subseteq Names /\ DirOK(vol.dir) /\ failures \in Nat
  BY <1>1, Parts DEF Removing, Doing
<1>4. PICK ch : ChainsFit(ch)
  BY DEF FatInv
<1>5. WindowFits' /\ disk' = disk /\ vol' = vol
  BY <1>1, <1>3, SeesNothingKeeps DEF SeesNothing
<1>6. FilesTyped' /\ file'[n] = file[n] /\ \A m \in Names \ {n} : file'[m] = file[m]
  BY <1>1, SameFile
<1>7. call'.op = "none" /\ call'.pc = "idle"
  BY <1>1 DEF Idle
<1>8. On(n) /\ On(n)' /\ ~Removing /\ ~Removing' /\ AtEase /\ AtEase'
  BY <1>1, <1>2, <1>7 DEF On, InCall, Removing, Doing, AtEase
<1>9. \A m \in Names \ {n} : m \in loose' <=> m \in loose
  BY <1>1, <1>2
<1>10. loose' \subseteq Names /\ FsTyped' /\ failures' \in Nat
  BY <1>1, <1>3 DEF FsTyped
<1>11. Typed'
  BY <1>1, <1>5, <1>6, <1>10, TypedNext
<1>12. Steady' => Steady
  <2>1. ASSUME NEW m \in loose, Steady' PROVE With(m, {"sync", "close"}, {"info", "done"})
    <3>1. m \notin loose'
      BY <1>7, <2>1 DEF Steady, With, Doing
    <3>2. m = call.n /\ call.op \in {"sync", "close"}
      BY <1>1, <2>1, <3>1
    <3> QED
      BY <1>1, <3>2 DEF With, Doing
  <2> QED
    BY <1>1, <2>1 DEF Steady, Doing
<1>13. DiskFine'
  BY <1>5, <1>8, <1>12, DiskFineStays
<1>14. IsOpen(n)' <=> IsOpen(n)
  BY <1>6 DEF IsOpen
<1>15. IsOpen(n)' => FileFits(ch, n)'
  <2>1. ASSUME IsOpen(n) PROVE FileFits(ch, n)'
    <3>1. FileFits(ch, n) /\ vol.dir[file[n].slot].kind = "file" /\ vol.dir[file[n].slot].name = n
          /\ (file[n].mod \/ vol.dir[file[n].slot].clust = file[n].sclust)
      BY <1>4, <1>8, <2>1, OfFile, EasyFits
    <3> QED
      BY <1>5, <1>6, <1>8, <3>1, FitsEasily
  <2> QED
    BY <1>14, <2>1
<1>16. Loose(n) => Loose(n)'
  BY <1>1, <1>2, <1>7 DEF Loose, With, Doing
<1>17. /\ \A i \in Slots : IsFile(i)' /\ vol'.dir[i].name = n => EntryFits(ch, i)'
       /\ (\A i \in Slots : IsFile(i)' => vol'.dir[i].name # n) => ch[n] = <<>>
  BY <1>4, <1>5, <1>8, <1>14, <1>16, SameEntries
<1>18. n \in loose' => LooseFits(n)'
  <2>1. n \in loose' => n \in loose /\ call.op \notin {"sync", "close"}
    BY <1>1, <1>2
  <2>2. n \in loose' => IsOpen(n) /\ file[n].mod
    BY <1>8, <2>1, AtEaseIs DEF FatInv, LooseFit, With, Doing
  <2> QED
    BY <1>6, <1>14, <2>2 DEF LooseFits
<1>19. InPhase'
  BY <1>1, <1>7 DEF InPhase, Phase
<1>20. {call.pc, call'.pc} \cap {"free", "link"} = {}
  BY <1>1, <1>7
<1>21. Counts'
  <2>1. StaysShort
    BY <1>7 DEF StaysShort, InCall
  <2> QED
    BY <1>1, <1>20, <2>1, CountsStay DEF FatInv
<1>22. Floating(ch)' /\ Chained(vol'.fat, ch) /\ (Complete(vol.fat, ch) => Complete(vol'.fat, ch))
  BY <1>4, <1>5, <1>20, StillFloats DEF ChainsFit
<1>23. OthersStay(n) /\ DirOK(vol.dir)' /\ failures' = failures /\ \A m \in Names \ {n} : ch[m] = ch[m]
  BY <1>1, <1>3 DEF OthersStay
<1> QED
  BY <1>4, <1>5, <1>6, <1>8, <1>9, <1>10, <1>11, <1>13, <1>15, <1>17, <1>18, <1>19, <1>21, <1>22, <1>23, EntryKeeps

-----------------------------------------------------------------------------
(* f_open *)

\* A file that is not open, and its entry if it has one.
LEMMA ClosedFile ==
  ASSUME FatInv, ~InCall, NEW n \in Names, ~IsOpen(n), NEW ch, ChainsFit(ch), NEW i, i = SlotOf(n)
  PROVE  /\ ch[n] \in Seq(Clusters) /\ ch \in Chainings /\ Chained(vol.fat, ch) /\ ch[Nobody] = <<>>
         /\ i # 0 => /\ i \in Slots /\ IsFile(i) /\ vol.dir[i].name = n
                     /\ vol.dir[i].clust = Head0(ch[n]) /\ vol.dir[i].size <= Room(ch[n])
                     /\ vol.dir[i].size \in Nat /\ vol.dir[i].clust \in {0} \cup Clusters
                     /\ \A j \in Slots : IsFile(j) /\ vol.dir[j].name = n => j = i
         /\ i = 0 => ch[n] = <<>> /\ \A j \in Slots : IsFile(j) => vol.dir[j].name # n
         /\ n \notin loose
PROOF
<1>1. /\ DirTyped(vol.dir) /\ DirOK(vol.dir) /\ call.pc = "idle" /\ call.op = "none"
  BY Parts, AtRest
<1>2. /\ i \in {0} \cup Slots
      /\ i # 0 => IsFile(i) /\ vol.dir[i].name = n
      /\ i = 0 => \A j \in Slots : IsFile(j) => vol.dir[j].name # n
  BY <1>1, SlotOfIs
<1>3. i # 0 => \A j \in Slots : IsFile(j) /\ vol.dir[j].name = n => j = i
  BY <1>1, <1>2 DEF DirOK, Names1, IsFile
<1>4. ch[n] \in Seq(Clusters) /\ ch \in Chainings /\ Chained(vol.fat, ch) /\ ch[Nobody] = <<>>
  BY <1>1, OfFile DEF ChainsFit, Chained, Floating
<1>5. i = 0 => ch[n] = <<>>
  BY <1>2 DEF ChainsFit, Unnamed
<1>6. i # 0 => EntryFits(ch, i) /\ vol.dir[i].size \in Nat /\ vol.dir[i].clust \in {0} \cup Clusters
  BY <1>1, <1>2 DEF ChainsFit, EntriesFit, Excused, Doing, DirTyped, EntryOk, IsFile
<1>7. i # 0 => vol.dir[i].clust = Head0(ch[n]) /\ vol.dir[i].size <= Room(ch[n])
  BY <1>2, <1>6 DEF EntryFits
<1>8. n \notin loose
  BY <1>1 DEF FatInv, LooseFit, With, Doing
<1> QED
  BY <1>2, <1>3, <1>4, <1>5, <1>6, <1>7, <1>8

\* A call that changes nothing but what the window shows.
LEMMA RefusedKeeps ==
  ASSUME FatInv, ~InCall, NEW n \in Names, ~IsOpen(n), NEW c, call' = c, IsCall(c), c.n = n,
         c.op \in {"open", "unlink", "rename"}, c.pc = "done", ~c.short,
         c.op = "rename" => ~IsOpen(c.m),
         WindowFits', disk' = disk \/ AsSeen(disk'), vol' = vol, UNCHANGED <<fs, file, loose, failures>>
  PROVE  FatInv'
PROOF
<1>1. /\ call.op = "none" /\ call.pc = "idle" /\ FsTyped
  BY AtRest, Parts
<1>2. PICK ch : ChainsFit(ch)
  BY DEF FatInv
<1>3. FilesTyped' /\ \A m \in Names \ {n} : file'[m] = file[m]
  BY SameFile
<1>4. On(n) /\ On(n)' /\ ~Removing /\ ~Removing' /\ (IsOpen(n)' <=> IsOpen(n))
  BY <1>1 DEF On, InCall, Removing, Doing, IsOpen
<1>5. Steady' => Steady
  <2>1. \A m : ~With(m, {"sync", "close"}, {"info", "done"})'
    BY DEF With, Doing
  <2> QED
    BY <1>1, <2>1 DEF Steady, Doing
<1>6. DiskFine'
  BY <1>4, <1>5, DiskFineStays
<1>7. Loose(n) => Loose(n)'
  BY DEF Loose, With, Doing
<1>8. \A i \in Slots : IsFile(i)' /\ vol'.dir[i].name = n => EntryFits(ch, i)'
  BY <1>2, <1>4, <1>7, SameEntries
<1>9. n \in loose => LooseFits(n)'
  BY <1>1 DEF FatInv, LooseFit, With, Doing
<1>10. InPhase'
  <2>1. ~IsOpen(n)' /\ (c.op = "rename" => ~IsOpen(c.m)')
    BY DEF IsOpen
  <2> QED
    BY <2>1 DEF InPhase, Phase
<1>11. StaysShort /\ FsTyped' /\ fs'.free = fs.free /\ {call.pc, call'.pc} \cap {"free", "link"} = {}
  BY <1>1 DEF StaysShort, FsTyped
<1> QED
  BY <1>2, <1>3, <1>4, <1>6, <1>8, <1>9, <1>10, <1>11, EasyStep

\* A search of the directory only reads through the window.
LEMMA SearchSees ==
  ASSUME FatInv, NEW n \in Names, NEW S, LastSeen(StopsAt(n)) \in S, Sees(S, LastSeen(StopsAt(n)))
  PROVE  WindowFits' /\ (disk' = disk \/ AsSeen(disk')) /\ vol' = vol
BY Parts, SeesKeeps

\* f_open of a file that is not there, or must not be.
LEMMA OpenRefusedKeeps ==
  ASSUME FatInv, ~InCall, NEW n \in Names, NEW mode, ~IsOpen(n), OpenRefused(n, mode),
         UNCHANGED <<fs, loose, failures>>
  PROVE  FatInv'
PROOF
<1>1. StopsAt(n) \in {0} \cup Slots
  BY Parts, AtRest, SlotOfIs
<1>2. LastSeen(StopsAt(n)) \in SectorsTo(StopsAt(n))
  BY <1>1, LastIsSeen
<1>3. Sees(SectorsTo(StopsAt(n)), LastSeen(StopsAt(n))) /\ file' = file
  BY DEF OpenRefused
<1>4. WindowFits' /\ (disk' = disk \/ AsSeen(disk')) /\ vol' = vol
  BY <1>2, <1>3, SearchSees
<1>5. PICK res : res \in {"FR_NO_FILE", "FR_EXIST"} /\ call' = [NewCall("open", n, "done") EXCEPT !.res = res]
  BY DEF OpenRefused, Begins
<1>6. IsCall(call') /\ call'.n = n /\ call'.op = "open" /\ call'.pc = "done" /\ ~call'.short
  BY <1>5 DEF NewCall, IsCall, CallFields
<1> QED
  BY <1>3, <1>4, <1>6, RefusedKeeps

\* A file that has been emptied.
LEMMA EmptiedIs ==
  ASSUME NEW n \in Names, NEW i \in Slots, NEW mode, NEW g, g = Emptied(n, i, mode)
  PROVE  /\ IsFil(g) /\ g.slot = i /\ g.sclust = 0 /\ g.size = 0 /\ g.fptr = 0 /\ g.mod
BY DEF Emptied, IsFil, FilFields

\* A file as it is after it was created or emptied fits.
LEMMA EmptiedFits ==
  ASSUME NEW n \in Names, NEW i \in Slots, NEW mode, NEW g, g = Emptied(n, i, mode), file'[n] = g,
         vol'.dir[i] = Entry(n, 0, 0), NEW ch2, ch2[n] = <<>>, AtEase', Names1(vol'.dir)
  PROVE  /\ FileFits(ch2, n)' /\ IsOpen(n)'
         /\ \A j \in Slots : IsFile(j)' /\ vol'.dir[j].name = n => EntryFits(ch2, j)'
PROOF
<1>1. /\ IsFil(g) /\ g.slot = i /\ g.sclust = 0 /\ g.size = 0 /\ g.fptr = 0 /\ g.mod
  BY EmptiedIs
<1>2. PICK s : s = ch2[n]
  OBVIOUS
<1>3. s \in Seq(Clusters) /\ Head0(s) = 0 /\ Room(s) = 0
  <2>1. s \in Seq(Clusters) /\ s = <<>>
    BY <1>2
  <2> QED
    BY <2>1, RoomIs DEF Head0
<1>4. ~Ahead(n)' /\ ~Cutting(n)' /\ ~Seeking(n)'
  BY DEF AtEase, Ahead, Cutting, Seeking, With, Doing
<1>5. PointerFits(ch2, n)'
  BY <1>1, <1>2, <1>3, <1>4 DEF PointerFits
<1>6. ChainFits(ch2, n)'
  BY <1>1, <1>2, <1>3, <1>4 DEF ChainFits
<1>7. PICK e : e = vol'.dir[i]
  OBVIOUS
<1>8. e.kind = "file" /\ e.name = n /\ e.clust = 0 /\ e.size = 0
  BY <1>7 DEF Entry
<1>9. SlotFits(n)'
  BY <1>1, <1>7, <1>8 DEF SlotFits
<1>10. ASSUME NEW j \in Slots, IsFile(j)', vol'.dir[j].name = n PROVE EntryFits(ch2, j)'
  <2>1. j = i
    BY <1>7, <1>8, <1>10 DEF Names1, IsFile
  <2>2. e.clust = Head0(s) /\ e.size \in Nat /\ e.size <= Room(s) /\ vol'.dir[j] = e
    BY <1>3, <1>7, <1>8, <2>1
  <2> QED
    BY <1>2, <1>3, <1>8, <2>2, OwnEntry
<1>11. IsOpen(n)'
  BY <1>1 DEF IsOpen, IsFil
<1> QED
  BY <1>5, <1>6, <1>9, <1>10, <1>11 DEF FileFits

\* f_open of a file that is there.
LEMMA OpenOldKeeps ==
  ASSUME FatInv, ~InCall, NEW n \in Names, NEW mode, ~IsOpen(n), OpenOld(n, mode),
         UNCHANGED <<fs, loose, failures>>
  PROVE  FatInv'
PROOF
<1>i. PICK i : i = SlotOf(n)
  OBVIOUS
<1>1. PICK ch : ChainsFit(ch)
  BY DEF FatInv
<1>s. PICK s : s = ch[n]
  OBVIOUS
<1>e. PICK e : e = vol.dir[i]
  OBVIOUS
<1>2. i # 0
  BY <1>i DEF OpenOld
<1>3. /\ s \in Seq(Clusters) /\ n \notin loose
      /\ i \in Slots /\ e.kind = "file" /\ e.name = n /\ e.clust = Head0(s) /\ e.size <= Room(s)
      /\ e.size \in Nat /\ e.clust \in {0} \cup Clusters
      /\ \A j \in Slots : IsFile(j) /\ vol.dir[j].name = n => j = i
  BY <1>i, <1>1, <1>s, <1>e, <1>2, ClosedFile DEF IsFile
<1>4. /\ WindowFits /\ FsTyped /\ FilesTyped /\ call.op = "none" /\ call.pc = "idle"
  BY Parts, AtRest
<1>5. /\ (Head0(s) = 0 <=> s = <<>>) /\ (s = <<>> => Room(s) = 0) /\ Room(s) \in Nat
      /\ (s # <<>> => 1 \in 1..Len(s) /\ Head0(s) = s[1])
  BY <1>3, HeadOf, RoomIs
<1>o. PICK ends : ends = ("SEEKEND" \in mode /\ e.size > 0) /\ ends \in BOOLEAN
  OBVIOUS
<1>p. PICK pc : pc = (IF ends THEN "seek" ELSE "done")
  OBVIOUS
<1>h. PICK h : h = (IF ends THEN e.clust ELSE 0)
  OBVIOUS
<1>g. PICK g : g = (IF ends THEN [Opened(n, i, mode) EXCEPT !.clust = e.clust] ELSE Opened(n, i, mode))
  OBVIOUS
<1>6. /\ IsFil(g) /\ g.slot = i /\ g.sclust = e.clust /\ g.size = e.size /\ g.fptr = 0 /\ g.clust = h /\ ~g.mod
  <2>1. CASE ends
    BY <1>e, <1>g, <1>h, <1>3, <2>1 DEF Opened, IsFil, FilFields
  <2>2. CASE ~ends
    BY <1>e, <1>g, <1>h, <1>3, <2>2 DEF Opened, IsFil, FilFields
  <2> QED
    BY <2>1, <2>2
<1>7. /\ SetFile(n, g) /\ call' = [NewCall("open", n, pc) EXCEPT !.left = e.size]
      /\ Sees(SectorsTo(i), DirSector(i))
  <2>1. Opened(n, i, mode).size = e.size /\ Opened(n, i, mode).sclust = e.clust
    BY <1>e DEF Opened
  <2>2. ends = ("SEEKEND" \in mode /\ Opened(n, i, mode).size > 0)
    BY <1>o, <2>1
  <2>3. /\ SetFile(n, IF ends THEN [Opened(n, i, mode) EXCEPT !.clust = Opened(n, i, mode).sclust]
                      ELSE Opened(n, i, mode))
        /\ call' = [NewCall("open", n, IF ends THEN "seek" ELSE "done") EXCEPT !.left = Opened(n, i, mode).size]
        /\ Sees(SectorsTo(i), DirSector(i))
    BY <1>i, <2>2 DEF OpenOld, Begins
  <2> QED
    BY <1>p, <1>g, <2>1, <2>3
<1>8. /\ IsCall(call') /\ call'.op = "open" /\ call'.n = n /\ call'.pc = pc /\ call'.left = e.size /\ ~call'.short
  BY <1>3, <1>7, NewCallIs
<1>9. FilesTyped' /\ file'[n] = g /\ \A m \in Names \ {n} : file'[m] = file[m]
  BY <1>4, <1>6, <1>7, FileSet
<1>10. WindowFits' /\ (disk' = disk \/ AsSeen(disk')) /\ vol' = vol
  <2>1. DirSector(i) \in SectorsTo(i)
    BY <1>2, <1>3, LastIsSeen
  <2> QED
    BY <1>4, <1>7, <2>1, SeesKeeps
<1>11. pc \in {"seek", "done"} /\ (pc = "seek" => e.size > 0 /\ h = e.clust)
  BY <1>o, <1>p, <1>h
<1>12. On(n) /\ On(n)' /\ ~Removing /\ ~Removing' /\ IsOpen(n)'
  BY <1>4, <1>6, <1>8, <1>9 DEF On, InCall, Removing, Doing, IsOpen, IsFil
<1>13. Steady' => Steady
  BY <1>4, <1>8, SteadyStays
<1>14. DiskFine'
  BY <1>10, <1>12, <1>13, DiskFineStays
<1>15. FileFits(ch, n)'
  <2>1. pc = "seek" => InCluster(s, h, 1)
    <3>1. ASSUME pc = "seek" PROVE s # <<>>
      BY <1>3, <1>5, <1>11, <3>1
    <3> QED
      BY <1>3, <1>5, <1>11, <3>1 DEF InCluster
  <2>2. Ahead(n)' <=> pc = "seek"
    BY <1>8, <1>11 DEF Ahead, With, Doing
  <2>3. PointerFits(ch, n)'
    <3>1. 0 <= Room(s) /\ 0 <= e.size
      BY <1>3, <1>5
    <3> QED
      BY <1>s, <1>6, <1>9, <2>1, <2>2, <3>1, AtZero DEF PointerFits
  <2>4. ChainFits(ch, n)'
    BY <1>s, <1>3, <1>6, <1>8, <1>9 DEF ChainFits, Cutting, With, Doing
  <2>5. SlotFits(n)'
    BY <1>e, <1>3, <1>6, <1>9, <1>10 DEF SlotFits
  <2> QED
    BY <2>3, <2>4, <2>5 DEF FileFits
<1>16. ASSUME NEW j \in Slots, IsFile(j)', vol'.dir[j].name = n PROVE EntryFits(ch, j)'
  <2>1. j = i
    BY <1>3, <1>10, <1>16 DEF IsFile
  <2>2. vol'.dir[j] = e
    BY <1>e, <1>10, <2>1
  <2> QED
    BY <1>s, <1>3, <2>2, OwnEntry
<1>17. InPhase'
  <2>1. 0 % BCS = 0 /\ 0 + e.size <= e.size
    BY <1>3, Sizes
  <2> QED
    BY <1>6, <1>8, <1>9, <1>11, <1>12, <2>1 DEF InPhase, Phase
<1>18. /\ StaysShort /\ FsTyped' /\ fs'.free = fs.free /\ {call.pc, call'.pc} \cap {"free", "link"} = {}
       /\ (n \in loose => LooseFits(n)')
  BY <1>3, <1>4, <1>8, <1>11 DEF StaysShort, FsTyped
<1> QED
  BY <1>1, <1>8, <1>9, <1>10, <1>12, <1>14, <1>15, <1>16, <1>17, <1>18, EasyStep

\* f_open of a new file.
LEMMA OpenNewKeeps ==
  ASSUME FatInv, ~InCall, NEW n \in Names, NEW mode, ~IsOpen(n), OpenNew(n, mode),
         UNCHANGED <<fs, loose, failures>>
  PROVE  FatInv'
PROOF
<1>1. PICK ch : ChainsFit(ch)
  BY DEF FatInv
<1>2. SlotOf(n) = 0
  BY DEF OpenNew
<1>3. /\ ch[n] = <<>> /\ (\A j \in Slots : IsFile(j) => vol.dir[j].name # n) /\ n \notin loose
  BY <1>1, <1>2, ClosedFile
<1>4. /\ WindowFits /\ FsTyped /\ FilesTyped /\ call.op = "none" /\ call.pc = "idle" /\ DirTyped(vol.dir)
      /\ DirOK(vol.dir) /\ loose \subseteq Names /\ failures \in Nat
  BY Parts, AtRest
<1>i. PICK i : i = FreeSlot
  OBVIOUS
<1>5. i \in Slots /\ ~IsFile(i) /\ \A j \in Slots : j < i => IsFile(j)
  BY <1>i, <1>3, <1>4, FreeSlotIs
<1>e. PICK e : e = Entry(n, 0, 0)
  OBVIOUS
<1>g. PICK g : g = Emptied(n, i, mode)
  OBVIOUS
<1>S. PICK S : S = SectorsTo(StopsAt(n)) \cup SectorsTo(i)
  OBVIOUS
<1>6. /\ call' = NewCall("open", n, "done") /\ PutDir(S, i, e) /\ SetFile(n, g)
  BY <1>i, <1>e, <1>g, <1>S DEF OpenNew, Begins
<1>7. EntryOk(e) /\ e.kind = "file" /\ e.name = n
  BY <1>e DEF Entry, EntryOk
<1>8. /\ WindowFits' /\ (disk' = disk \/ AsSeen(disk'))
      /\ vol'.fat = vol.fat /\ vol'.dir[i] = e /\ \A j \in Slots \ {i} : vol'.dir[j] = vol.dir[j]
  BY <1>4, <1>5, <1>6, <1>7, PutDirKeeps
<1>9. IsCall(call') /\ call'.op = "open" /\ call'.n = n /\ call'.pc = "done" /\ ~call'.short
  BY <1>6 DEF NewCall, IsCall, CallFields
<1>10. IsFil(g)
  BY <1>g, <1>5, EmptiedIs
<1>11. FilesTyped' /\ file'[n] = g /\ \A m \in Names \ {n} : file'[m] = file[m]
  BY <1>4, <1>6, <1>10, FileSet
<1>12. On(n) /\ On(n)' /\ ~Removing /\ ~Removing' /\ AtEase'
  BY <1>4, <1>9 DEF On, InCall, Removing, Doing, AtEase
<1>13. DirOK(vol.dir)'
  <2>1. Names1(vol.dir)'
    BY <1>3, <1>4, <1>7, <1>8 DEF DirOK, Names1, IsFile
  <2>2. ASSUME NEW j \in Slots, NEW k \in Slots, j < k, vol'.dir[j].kind = "blank"
        PROVE  vol'.dir[k].kind = "blank"
    <3>1. j # i /\ vol.dir[j].kind = "blank"
      BY <1>7, <1>8, <2>2
    <3>2. k # i
      BY <1>5, <2>2, <3>1 DEF IsFile
    <3> QED
      BY <1>4, <1>8, <2>2, <3>1, <3>2 DEF DirOK, BlanksLast
  <2> QED
    BY <2>1, <2>2 DEF DirOK, BlanksLast
<1>14. /\ FileFits(ch, n)' /\ IsOpen(n)'
       /\ \A j \in Slots : IsFile(j)' /\ vol'.dir[j].name = n => EntryFits(ch, j)'
  <2>1. Names1(vol'.dir)
    BY <1>13 DEF DirOK
  <2> QED
    BY <1>3, <1>5, <1>8, <1>11, <1>12, <1>e, <1>g, <2>1, EmptiedFits
<1>15. OthersStay(n)
  BY <1>5, <1>7, <1>8 DEF OthersStay
<1>16. Steady' => Steady
  BY <1>4, <1>9, SteadyStays
<1>17. DiskFine'
  BY <1>8, <1>12, <1>16, DiskFineStays
<1>18. {call.pc, call'.pc} \cap {"free", "link"} = {}
  BY <1>4, <1>9
<1>19. Counts'
  <2>1. StaysShort
    BY <1>9 DEF StaysShort
  <2> QED
    BY <1>8, <1>18, <2>1, CountsStay DEF FatInv
<1>20. Floating(ch)' /\ Chained(vol'.fat, ch) /\ (Complete(vol.fat, ch) => Complete(vol'.fat, ch))
  BY <1>1, <1>8, <1>18, StillFloats DEF ChainsFit
<1>21. InPhase'
  BY <1>9 DEF InPhase, Phase
<1>22. Typed'
  BY <1>4, <1>8, <1>9, <1>11, TypedNext DEF FsTyped
<1>23. /\ loose' \subseteq Names /\ (\A m \in Names \ {n} : m \in loose' <=> m \in loose) /\ failures' = failures
       /\ (n \in loose' => LooseFits(n)') /\ \A m \in Names \ {n} : ch[m] = ch[m]
  BY <1>3, <1>4
<1> QED
  BY <1>1, <1>3, <1>8, <1>11, <1>12, <1>13, <1>14, <1>15, <1>17, <1>19, <1>20, <1>21, <1>22, <1>23, EntryKeeps

\* The chain of a file is freed: it is nobody's for now.
LEMMA GivenUp ==
  ASSUME NEW n \in Names, NEW ch, ChainsFit(ch), ch[Nobody] = <<>>
  PROVE  \E ch2 : /\ Chained(vol.fat, ch2) /\ (Complete(vol.fat, ch) => Complete(vol.fat, ch2))
                  /\ ch2[n] = <<>> /\ ch2[Nobody] = ch[n] /\ \A m \in Names \ {n} : ch2[m] = ch[m]
PROOF
<1>1. Chained(vol.fat, ch) /\ ch \in Chainings
  BY DEF ChainsFit, Chained
<1>2. n \in Owners /\ Nobody \in Owners /\ n # Nobody
  BY NobodyIs DEF Owners
<1>3. PICK ch2 : ch2 = [ch EXCEPT ![Nobody] = ch[n], ![n] = <<>>]
  OBVIOUS
<1>4. Chained(vol.fat, ch2) /\ (Complete(vol.fat, ch) => Complete(vol.fat, ch2))
  <2>1. /\ Chained(vol.fat, [ch EXCEPT ![Nobody] = ch[n], ![n] = <<>>])
        /\ Complete(vol.fat, ch) => Complete(vol.fat, [ch EXCEPT ![Nobody] = ch[n], ![n] = <<>>])
    BY <1>1, <1>2, MoveChain, Zenon
  <2> QED
    BY <1>3, <2>1
<1>5. ch2[n] = <<>> /\ ch2[Nobody] = ch[n] /\ \A m \in Names \ {n} : ch2[m] = ch[m]
  BY <1>1, <1>2, <1>3, NobodyIs DEF Chainings, Owners
<1> QED
  BY <1>4, <1>5

\* f_open over an old file: its entry is emptied and its chain is nobody's.
LEMMA OpenOverKeeps ==
  ASSUME FatInv, ~InCall, NEW n \in Names, NEW mode, ~IsOpen(n), OpenOver(n, mode),
         UNCHANGED <<fs, loose, failures>>
  PROVE  FatInv'
PROOF
<1>i. PICK i : i = SlotOf(n)
  OBVIOUS
<1>1. PICK ch : ChainsFit(ch)
  BY DEF FatInv
<1>s. PICK s : s = ch[n]
  OBVIOUS
<1>c. PICK cl : cl = vol.dir[i].clust
  OBVIOUS
<1>2. i # 0
  BY <1>i DEF OpenOver
<1>3. /\ s \in Seq(Clusters) /\ n \notin loose /\ ch[Nobody] = <<>>
      /\ i \in Slots /\ IsFile(i) /\ vol.dir[i].name = n /\ cl = Head0(s)
      /\ \A j \in Slots : IsFile(j) /\ vol.dir[j].name = n => j = i
  BY <1>i, <1>1, <1>s, <1>c, <1>2, ClosedFile
<1>4. /\ WindowFits /\ FsTyped /\ FilesTyped /\ call.op = "none" /\ call.pc = "idle" /\ DirTyped(vol.dir)
      /\ DirOK(vol.dir) /\ loose \subseteq Names /\ failures \in Nat
  BY Parts, AtRest
<1>5. cl = 0 <=> s = <<>>
  BY <1>3, HeadOf
<1>e. PICK e : e = Entry(n, 0, 0)
  OBVIOUS
<1>g. PICK g : g = Emptied(n, i, mode)
  OBVIOUS
<1>6. /\ PutDir(SectorsTo(i), i, e)
      /\ cl = 0 => call' = NewCall("open", n, "done") /\ SetFile(n, g)
      /\ cl # 0 => /\ call' = [NewCall("open", n, "free") EXCEPT !.slot = i, !.cl = cl, !.top = cl, !.mode = mode]
                   /\ file' = file
  BY <1>i, <1>c, <1>e, <1>g DEF OpenOver, Begins
<1>7. EntryOk(e) /\ e.kind = "file" /\ e.name = n /\ e.clust = 0 /\ e.size = 0
  BY <1>e DEF Entry, EntryOk
<1>8. /\ WindowFits' /\ (disk' = disk \/ AsSeen(disk'))
      /\ vol'.fat = vol.fat /\ vol'.dir[i] = e /\ \A j \in Slots \ {i} : vol'.dir[j] = vol.dir[j]
  BY <1>3, <1>4, <1>6, <1>7, PutDirKeeps
<1>p. PICK pc : pc = (IF cl = 0 THEN "done" ELSE "free")
  OBVIOUS
<1>9. /\ IsCall(call') /\ call'.op = "open" /\ call'.n = n /\ call'.pc = pc /\ ~call'.short
      /\ cl # 0 => call'.slot = i /\ call'.cl = cl
  <2>1. CASE cl = 0
    <3>1. pc = "done" /\ call' = NewCall("open", n, "done")
      BY <1>6, <1>p, <2>1
    <3> QED
      BY <2>1, <3>1 DEF NewCall, IsCall, CallFields
  <2>2. CASE cl # 0
    <3>1. pc = "free" /\ call' = [NewCall("open", n, "free") EXCEPT !.slot = i, !.cl = cl, !.top = cl, !.mode = mode]
      BY <1>6, <1>p, <2>2
    <3>2. PICK c : c = [NewCall("open", n, "free") EXCEPT !.slot = i, !.cl = cl, !.top = cl, !.mode = mode]
      OBVIOUS
    <3>3. /\ c.op = "open" /\ c.n = n /\ c.m = n /\ c.res = "FR_OK" /\ c.left = 0 /\ c.short \in BOOLEAN /\ ~c.short
          /\ c.slot = i /\ c.cl = cl /\ c.pc = "free" /\ DOMAIN c = CallFields
      BY <3>2 DEF NewCall, CallFields
    <3>4. IsCall(c)
      BY <3>3 DEF IsCall
    <3>5. call' = c
      BY <3>1, <3>2
    <3> QED
      BY <3>1, <3>3, <3>4, <3>5
  <2> QED
    BY <2>1, <2>2
<1>10. FilesTyped' /\ \A m \in Names \ {n} : file'[m] = file[m]
  <2>1. IsFil(g)
    BY <1>g, <1>3, EmptiedIs
  <2> QED
    BY <1>4, <1>6, <2>1, FileSet, SameFile
<1>11. On(n) /\ On(n)' /\ ~Removing /\ ~Removing'
  BY <1>4, <1>9 DEF On, InCall, Removing, Doing
<1>12. \A j \in Slots : vol'.dir[j].kind = vol.dir[j].kind /\ (IsFile(j) => vol'.dir[j].name = vol.dir[j].name)
  BY <1>3, <1>7, <1>8 DEF IsFile
<1>13. DirOK(vol.dir)' /\ Names1(vol'.dir)
  BY <1>4, <1>12 DEF DirOK, Names1, BlanksLast, IsFile
<1>14. OthersStay(n)
  BY <1>3, <1>7, <1>8 DEF OthersStay
<1>15. Steady' => Steady
  BY <1>4, <1>9, SteadyStays
<1>16. DiskFine'
  BY <1>8, <1>11, <1>15, DiskFineStays
<1>17. Counts'
  <2>1. FreeNow' = FreeNow
    BY <1>8 DEF FreeNow
  <2> QED
    BY <1>4, <1>9, <1>p, <2>1 DEF FatInv, Counts
<1>18. Typed'
  BY <1>4, <1>8, <1>9, <1>10, TypedNext DEF FsTyped
<1>19. /\ loose' \subseteq Names /\ (\A m \in Names \ {n} : m \in loose' <=> m \in loose) /\ failures' = failures
       /\ (n \in loose' => LooseFits(n)')
  BY <1>3, <1>4
<1>20. \E j \in Slots : IsFile(j)' /\ vol'.dir[j].name = n
  BY <1>3, <1>12 DEF IsFile
<1>21. CASE cl = 0
  <2>1. ch[n] = <<>> /\ file'[n] = g /\ pc = "done"
    <3>1. IsFil(g)
      BY <1>g, <1>3, EmptiedIs
    <3> QED
      BY <1>4, <1>5, <1>6, <1>p, <1>s, <1>21, <3>1, FileSet
  <2>2. AtEase'
    BY <1>9, <2>1 DEF AtEase
  <2>3. /\ FileFits(ch, n)' /\ IsOpen(n)'
        /\ \A j \in Slots : IsFile(j)' /\ vol'.dir[j].name = n => EntryFits(ch, j)'
    BY <1>3, <1>8, <1>13, <1>e, <1>g, <2>1, <2>2, EmptiedFits
  <2>4. Floating(ch)' /\ Chained(vol'.fat, ch) /\ (Complete(vol.fat, ch) => Complete(vol'.fat, ch))
    BY <1>1, <1>4, <1>8, <1>9, <2>1, StillFloats DEF ChainsFit
  <2>5. InPhase'
    BY <1>9, <2>1 DEF InPhase, Phase
  <2>6. \A m \in Names \ {n} : ch[m] = ch[m]
    OBVIOUS
  <2> QED
    BY <1>1, <1>8, <1>10, <1>11, <1>13, <1>14, <1>16, <1>17, <1>18, <1>19, <1>20, <2>3, <2>4, <2>5, <2>6, EntryKeeps
<1>22. CASE cl # 0
  <2>1. file' = file /\ pc = "free" /\ s # <<>>
    BY <1>5, <1>6, <1>p, <1>22
  <2>2. PICK ch2 : /\ Chained(vol.fat, ch2) /\ (Complete(vol.fat, ch) => Complete(vol.fat, ch2))
                   /\ ch2[n] = <<>> /\ ch2[Nobody] = ch[n] /\ \A m \in Names \ {n} : ch2[m] = ch[m]
    BY <1>1, <1>3, GivenUp
  <2>3. /\ Chained(vol'.fat, ch2) /\ (Complete(vol.fat, ch) => Complete(vol'.fat, ch2))
        /\ ch2[n] = <<>> /\ (\A m \in Names \ {n} : ch2[m] = ch[m]) /\ Floating(ch2)'
    <3>1. call'.pc = "free" /\ call'.cl = Head0(s) /\ vol'.fat = vol.fat
      BY <1>3, <1>8, <1>9, <1>22, <2>1
    <3>2. Floating(ch2)'
      BY <1>s, <2>1, <2>2, <3>1 DEF Floating
    <3> QED
      BY <2>2, <3>1, <3>2
  <2>4. ~IsOpen(n)'
    BY <2>1 DEF IsOpen
  <2>5. ASSUME NEW j \in Slots, IsFile(j)', vol'.dir[j].name = n PROVE EntryFits(ch2, j)'
    <3>1. j = i
      BY <1>3, <1>12, <2>5 DEF IsFile
    <3>2. PICK r : r = ch2[n]
      OBVIOUS
    <3>3. r \in Seq(Clusters) /\ Head0(r) = 0 /\ Room(r) = 0
      <4>1. r \in Seq(Clusters) /\ r = <<>>
        BY <2>3, <3>2
      <4> QED
        BY <4>1, RoomIs DEF Head0
    <3>4. e.clust = Head0(r) /\ e.size \in Nat /\ e.size <= Room(r) /\ vol'.dir[j] = e
      BY <1>7, <1>8, <3>1, <3>3
    <3> QED
      BY <1>7, <3>2, <3>3, <3>4, OwnEntry
  <2>6. InPhase'
    BY <1>3, <1>8, <1>9, <1>22, <1>e, <2>1, <2>4 DEF InPhase, Phase
  <2> QED
    BY <1>1, <1>8, <1>10, <1>11, <1>13, <1>14, <1>16, <1>17, <1>18, <1>19, <1>20, <2>3, <2>4, <2>5, <2>6, EntryKeeps
<1> QED
  BY <1>21, <1>22

\* The chain is freed and the file is open.
LEMMA OverIsEmptiedKeeps ==
  ASSUME FatInv, OverIsEmptied
  PROVE  FatInv'
PROOF
<1>1. call.pc = "emptied"
  BY DEF OverIsEmptied
<1>2. InCall /\ IsCall(call)
  BY <1>1, Parts DEF Idle
<1>3. PICK n \in Names : n = call.n
  BY <1>2 DEF IsCall
<1>i. PICK i : i = call.slot
  OBVIOUS
<1>4. call.op = "open" /\ ~IsOpen(n) /\ i \in Slots /\ vol.dir[i] = Entry(n, 0, 0)
  <2>1. call.op # "none" /\ Phase(call.op, file[call.n], call.pc)
    BY <1>2, Parts DEF InCall
  <2>2. call.op = "open"
    BY <1>1, <2>1 DEF Phase
  <2> QED
    BY <1>1, <1>3, <1>i, <2>1, <2>2 DEF Phase
<1>5. /\ WindowFits /\ FsTyped /\ FilesTyped /\ DirOK(vol.dir)
  BY <1>1, Parts DEF Removing, Doing
<1>6. PICK ch : ChainsFit(ch)
  BY DEF FatInv
<1>7. ch[n] = <<>> /\ n \notin loose
  <2>1. IsFile(i) /\ vol.dir[i].name = n /\ vol.dir[i].clust = 0
    BY <1>4 DEF Entry, IsFile
  <2>2. EntryFits(ch, i)
    BY <1>4, <1>6, <2>1 DEF ChainsFit, EntriesFit, Excused, Doing
  <2>3. Head0(ch[n]) = 0 /\ ch[n] \in Seq(Clusters)
    BY <1>4, <1>6, <2>1, <2>2, OfFile DEF EntryFits
  <2>4. n \notin loose
    BY <1>4 DEF FatInv, LooseFit, With, Doing
  <2> QED
    BY <2>3, <2>4, HeadOf
<1>g. PICK g : g = Emptied(n, i, call.mode)
  OBVIOUS
<1>8. /\ Sees({DirSector(i)}, DirSector(i)) /\ fs' = [fs EXCEPT !.last = call.top - 1] /\ SetFile(n, g)
      /\ call' = [call EXCEPT !.pc = "done", !.res = "FR_OK"] /\ UNCHANGED <<loose, failures>>
  BY <1>i, <1>g, <1>3 DEF OverIsEmptied, Ends
<1>9. IsFil(g)
  BY <1>g, <1>4, EmptiedIs
<1>10. FilesTyped' /\ file'[n] = g /\ \A m \in Names \ {n} : file'[m] = file[m]
  BY <1>5, <1>8, <1>9, FileSet
<1>11. WindowFits' /\ (disk' = disk \/ AsSeen(disk')) /\ vol' = vol
  BY <1>5, <1>8, SeesKeeps
<1>12. IsCall(call') /\ call'.op = "open" /\ call'.n = n /\ call'.pc = "done" /\ call'.short = call.short
  BY <1>2, <1>3, <1>4, <1>8 DEF IsCall, CallFields
<1>13. FsTyped' /\ fs'.free = fs.free
  BY <1>5, <1>8 DEF FsTyped
<1>14. On(n) /\ On(n)' /\ ~Removing /\ ~Removing' /\ AtEase'
  BY <1>3, <1>4, <1>12 DEF On, InCall, Removing, Doing, AtEase
<1>15. /\ FileFits(ch, n)' /\ IsOpen(n)'
       /\ \A j \in Slots : IsFile(j)' /\ vol'.dir[j].name = n => EntryFits(ch, j)'
  <2>1. Names1(vol'.dir)
    BY <1>5, <1>11 DEF DirOK
  <2> QED
    BY <1>4, <1>7, <1>10, <1>11, <1>14, <1>g, <2>1, EmptiedFits
<1>16. Steady' => Steady
  BY <1>4, <1>8, <1>12, SteadyStays
<1>17. DiskFine'
  BY <1>11, <1>14, <1>16, DiskFineStays
<1>18. InPhase'
  BY <1>12 DEF InPhase, Phase
<1>19. /\ StaysShort /\ {call.pc, call'.pc} \cap {"free", "link"} = {} /\ (n \in loose => LooseFits(n)')
       /\ loose' = loose /\ failures' = failures
  BY <1>1, <1>2, <1>7, <1>8, <1>12 DEF StaysShort
<1> QED
  BY <1>6, <1>10, <1>11, <1>12, <1>13, <1>14, <1>15, <1>17, <1>18, <1>19, EasyStep

-----------------------------------------------------------------------------
(* f_unlink and f_truncate *)

\* f_unlink of a file that is not there.
LEMMA UnlinkRefusedKeeps ==
  ASSUME FatInv, ~InCall, NEW n \in Names, UnlinkFile(n), SlotOf(n) = 0
  PROVE  FatInv'
PROOF
<1>1. StopsAt(n) \in {0} \cup Slots
  BY Parts, AtRest, SlotOfIs
<1>2. LastSeen(StopsAt(n)) \in SectorsTo(StopsAt(n))
  BY <1>1, LastIsSeen
<1>3. /\ ~IsOpen(n) /\ Sees(SectorsTo(StopsAt(n)), LastSeen(StopsAt(n))) /\ UNCHANGED <<fs, file, loose, failures>>
      /\ call' = [NewCall("unlink", n, "done") EXCEPT !.res = "FR_NO_FILE"]
  BY DEF UnlinkFile, Begins
<1>4. WindowFits' /\ (disk' = disk \/ AsSeen(disk')) /\ vol' = vol
  BY <1>2, <1>3, SearchSees
<1>5. IsCall(call') /\ call'.n = n /\ call'.op = "unlink" /\ call'.pc = "done" /\ ~call'.short
  BY <1>3 DEF NewCall, IsCall, CallFields
<1> QED
  BY <1>3, <1>4, <1>5, RefusedKeeps

\* f_unlink marks the entry as deleted: the chain is nobody's.
LEMMA UnlinkKeeps ==
  ASSUME FatInv, ~InCall, NEW n \in Names, UnlinkFile(n), SlotOf(n) # 0
  PROVE  FatInv'
PROOF
<1>i. PICK i : i = SlotOf(n)
  OBVIOUS
<1>1. PICK ch : ChainsFit(ch)
  BY DEF FatInv
<1>s. PICK s : s = ch[n]
  OBVIOUS
<1>c. PICK cl : cl = vol.dir[i].clust
  OBVIOUS
<1>2. ~IsOpen(n) /\ i # 0
  BY <1>i DEF UnlinkFile
<1>3. /\ s \in Seq(Clusters) /\ n \notin loose /\ ch[Nobody] = <<>>
      /\ i \in Slots /\ IsFile(i) /\ vol.dir[i].name = n /\ cl = Head0(s)
      /\ \A j \in Slots : IsFile(j) /\ vol.dir[j].name = n => j = i
  BY <1>i, <1>1, <1>s, <1>c, <1>2, ClosedFile
<1>4. /\ WindowFits /\ FsTyped /\ FilesTyped /\ call.op = "none" /\ call.pc = "idle" /\ DirTyped(vol.dir)
      /\ DirOK(vol.dir) /\ loose \subseteq Names /\ failures \in Nat
  BY Parts, AtRest
<1>5. cl = 0 <=> s = <<>>
  BY <1>3, HeadOf
<1>p. PICK pc : pc = (IF cl = 0 THEN "window" ELSE "free")
  OBVIOUS
<1>6. /\ PutDir(SectorsTo(i), i, Deleted) /\ call' = [NewCall("unlink", n, pc) EXCEPT !.cl = cl]
      /\ UNCHANGED <<fs, file, loose, failures>>
  <2>1. UnlinkFrom(cl) = pc
    BY <1>p DEF UnlinkFrom
  <2> QED
    BY <1>i, <1>c, <1>2, <2>1 DEF UnlinkFile, Begins
<1>7. EntryOk(Deleted) /\ Deleted.kind = "deleted"
  BY DEF Deleted, EntryOk
<1>8. /\ WindowFits' /\ (disk' = disk \/ AsSeen(disk'))
      /\ vol'.fat = vol.fat /\ vol'.dir[i] = Deleted /\ \A j \in Slots \ {i} : vol'.dir[j] = vol.dir[j]
  BY <1>3, <1>4, <1>6, <1>7, PutDirKeeps
<1>9. IsCall(call') /\ call'.op = "unlink" /\ call'.n = n /\ call'.pc = pc /\ ~call'.short /\ call'.cl = cl
  BY <1>6 DEF NewCall, IsCall, CallFields
<1>10. FilesTyped' /\ ~IsOpen(n)' /\ \A m \in Names \ {n} : file'[m] = file[m]
  BY <1>2, <1>6, SameFile DEF IsOpen
<1>11. On(n) /\ On(n)' /\ ~Removing /\ ~Removing'
  BY <1>4, <1>9 DEF On, InCall, Removing, Doing
<1>12. \A j \in Slots : (vol'.dir[j].kind = "file" => j # i /\ vol'.dir[j] = vol.dir[j])
                        /\ (vol'.dir[j].kind = "blank" <=> vol.dir[j].kind = "blank")
  BY <1>3, <1>7, <1>8 DEF IsFile
<1>13. DirOK(vol.dir)'
  <2>1. Names1(vol.dir)'
    BY <1>4, <1>12 DEF DirOK, Names1
  <2>2. BlanksLast(vol.dir)'
    BY <1>4, <1>12 DEF DirOK, BlanksLast
  <2> QED
    BY <2>1, <2>2 DEF DirOK
<1>14. OthersStay(n)
  BY <1>3, <1>7, <1>8 DEF OthersStay, IsFile
<1>15. Steady' => Steady
  BY <1>4, <1>6, <1>9, SteadyStays
<1>16. DiskFine'
  BY <1>8, <1>11, <1>15, DiskFineStays
<1>17. Counts'
  <2>1. FreeNow' = FreeNow
    BY <1>8 DEF FreeNow
  <2> QED
    BY <1>4, <1>6, <1>9, <1>p, <2>1 DEF FatInv, Counts
<1>18. Typed'
  BY <1>4, <1>6, <1>8, <1>9, <1>10, TypedNext DEF FsTyped
<1>19. /\ loose' \subseteq Names /\ (\A m \in Names \ {n} : m \in loose' <=> m \in loose) /\ failures' = failures
       /\ (n \in loose' => LooseFits(n)')
  BY <1>3, <1>4, <1>6
<1>20. \A j \in Slots : IsFile(j)' => vol'.dir[j].name # n
  BY <1>3, <1>12 DEF IsFile
<1>21. InPhase'
  BY <1>9, <1>10, <1>p DEF InPhase, Phase
<1>22. CASE cl = 0
  <2>1. ch[n] = <<>> /\ pc = "window"
    BY <1>5, <1>p, <1>s, <1>22
  <2>2. Floating(ch)' /\ Chained(vol'.fat, ch) /\ (Complete(vol.fat, ch) => Complete(vol'.fat, ch))
    BY <1>1, <1>4, <1>8, <1>9, <2>1, StillFloats DEF ChainsFit
  <2>3. \A m \in Names \ {n} : ch[m] = ch[m]
    OBVIOUS
  <2> QED
    BY <1>1, <1>8, <1>10, <1>11, <1>13, <1>14, <1>16, <1>17, <1>18, <1>19, <1>20, <1>21, <2>1, <2>2, <2>3, EntryKeeps
<1>23. CASE cl # 0
  <2>1. pc = "free" /\ s # <<>>
    BY <1>5, <1>p, <1>23
  <2>2. PICK ch2 : /\ Chained(vol.fat, ch2) /\ (Complete(vol.fat, ch) => Complete(vol.fat, ch2))
                   /\ ch2[n] = <<>> /\ ch2[Nobody] = ch[n] /\ \A m \in Names \ {n} : ch2[m] = ch[m]
    BY <1>1, <1>3, GivenUp
  <2>3. /\ Chained(vol'.fat, ch2) /\ (Complete(vol.fat, ch) => Complete(vol'.fat, ch2))
        /\ ch2[n] = <<>> /\ (\A m \in Names \ {n} : ch2[m] = ch[m]) /\ Floating(ch2)'
    <3>1. call'.pc = "free" /\ call'.cl = Head0(s) /\ vol'.fat = vol.fat
      BY <1>3, <1>8, <1>9, <2>1
    <3>2. Floating(ch2)'
      BY <1>s, <2>1, <2>2, <3>1 DEF Floating
    <3> QED
      BY <2>2, <3>1, <3>2
  <2> QED
    BY <1>1, <1>8, <1>10, <1>11, <1>13, <1>14, <1>16, <1>17, <1>18, <1>19, <1>20, <1>21, <2>3, EntryKeeps
<1> QED
  BY <1>22, <1>23

\* A file that is being cut, and the chain it is left.
LEMMA CuttingFits ==
  ASSUME NEW n \in Names, NEW f, file'[n] = f, f.fptr \in Nat, Cutting(n)', NEW ch2, NEW r, r = ch2[n],
         f.fptr = 0 => r = <<>>, f.fptr # 0 => InCluster(r, f.clust, ToCluster(f.fptr)) /\ f.sclust = Head0(r),
         f.fptr <= Room(r), f.fptr <= f.size,
         NEW e, vol'.dir[f.slot] = e, e.kind = "file", e.name = n
  PROVE  FileFits(ch2, n)'
PROOF
<1>1. ~Ahead(n)'
  BY DEF Cutting, Ahead, With, Doing
<1>2. PointerFits(ch2, n)'
  BY <1>1 DEF PointerFits
<1>3. ChainFits(ch2, n)'
  BY DEF ChainFits
<1>4. SlotFits(n)'
  BY DEF SlotFits
<1> QED
  BY <1>2, <1>3, <1>4 DEF FileFits

\* What is common to the ways f_truncate may begin.
LEMMA TruncateStep ==
  ASSUME FatInv, ~InCall, NEW n \in Names, IsOpen(n), NEW c, call' = c, IsCall(c), c.op = "truncate", c.n = n,
         ~c.short, c.pc \in {"free", "cut"}, loose' = loose \cup {n}, UNCHANGED <<fs, file, failures>>,
         WindowFits', vol'.dir = vol.dir, FreeNow' = FreeNow,
         NEW ch, ChainsFit(ch), NEW ch2, Chained(vol'.fat, ch2),
         Complete(vol.fat, ch) => Complete(vol'.fat, ch2), Floating(ch2)',
         \A m \in Names \ {n} : ch2[m] = ch[m],
         FileFits(ch2, n)'
  PROVE  FatInv'
PROOF
<1>1. /\ call.op = "none" /\ call.pc = "idle" /\ FsTyped /\ DirOK(vol.dir) /\ loose \subseteq Names /\ failures \in Nat
  BY AtRest, Parts
<1>2. FilesTyped' /\ \A m \in Names \ {n} : file'[m] = file[m]
  BY SameFile
<1>3. On(n) /\ On(n)' /\ ~Removing /\ ~Removing' /\ IsOpen(n)' /\ Cutting(n)' /\ OthersStay(n)
  BY <1>1 DEF On, InCall, Removing, Doing, IsOpen, Cutting, With, OthersStay
<1>4. DirOK(vol.dir)'
  BY <1>1
<1>5. ~Steady'
  BY DEF Steady, With, Doing
<1>6. DiskFine'
  BY <1>5 DEF DiskFine
<1>7. Loose(n)'
  BY DEF Loose, With, Doing
<1>8. \A i \in Slots : IsFile(i)' /\ vol'.dir[i].name = n => EntryFits(ch2, i)'
  BY <1>3, <1>7 DEF EntryFits
<1>9. \E i \in Slots : IsFile(i)' /\ vol'.dir[i].name = n
  <2>1. FileFits(ch, n) /\ file[n].slot \in Slots
    BY OfFile, Parts DEF IsFil
  <2> QED
    BY <2>1 DEF FileFits, SlotFits, IsFile
<1>10. LooseFits(n)' /\ loose' \subseteq Names /\ \A m \in Names \ {n} : m \in loose' <=> m \in loose
  BY <1>1, <1>3 DEF LooseFits
<1>11. InPhase'
  BY <1>3 DEF InPhase, Phase
<1>12. Counts'
  BY <1>1 DEF FatInv, Counts
<1>13. Typed'
  BY <1>1, <1>2, <1>10, TypedNext DEF FsTyped
<1> QED
  BY <1>2, <1>3, <1>4, <1>6, <1>8, <1>9, <1>10, <1>11, <1>12, <1>13, EntryKeeps

\* The clusters up to the pointer hold what is before it.
LEMMA ToClusterHolds ==
  ASSUME NEW p \in Nat, p > 0
  PROVE  p <= ToCluster(p) * BCS
PROOF
<1>1. PICK q : q = p \div BCS
  OBVIOUS
<1>2. PICK r : r = p % BCS
  OBVIOUS
<1>3. /\ r \in 0..(BCS - 1) /\ q \in Nat /\ p = BCS * q + r /\ BCS \in Nat \ {0}
      /\ ToCluster(p) = (IF r = 0 THEN q ELSE q + 1)
  BY <1>1, <1>2, Places, Sizes DEF AtCluster
<1>4. q * BCS = BCS * q /\ (q + 1) * BCS = BCS * q + BCS /\ BCS * q \in Nat
  BY <1>3
<1> QED
  BY <1>3, <1>4

\* f_truncate ends the chain at the pointer: what follows is nobody's.
LEMMA TruncateFileKeeps ==
  ASSUME FatInv, ~InCall, NEW n \in Names, TruncateFile(n)
  PROVE  FatInv'
PROOF
<1>f. PICK f : f = file[n]
  OBVIOUS
<1>1. PICK ch : ChainsFit(ch)
  BY DEF FatInv
<1>s. PICK s : s = ch[n]
  OBVIOUS
<1>e. PICK e : e = vol.dir[f.slot]
  OBVIOUS
<1>p. PICK p : p = f.fptr
  OBVIOUS
<1>l. PICK cl : cl = f.clust
  OBVIOUS
<1>2. /\ call.op = "none" /\ call.pc = "idle" /\ WindowFits /\ VolTyped(vol) /\ vol.fat \in Tables
  BY AtRest, Parts
<1>3. IsOpen(n) /\ p < f.size /\ loose' = loose \cup {n} /\ UNCHANGED <<fs, file, failures>>
  BY <1>f, <1>p DEF TruncateFile
<1>4. IsFil(f) /\ p \in Nat /\ f.size \in Nat /\ f.slot \in Slots
  BY <1>3, <1>f, <1>p, Parts DEF IsFil
<1>5. s \in Seq(Clusters) /\ Linked(vol.fat, s) /\ FileFits(ch, n) /\ Chained(vol.fat, ch) /\ ch[Nobody] = <<>>
  BY <1>1, <1>2, <1>3, <1>s, OfFile DEF ChainsFit, Floating
<1>6. AtEase
  BY <1>2 DEF AtEase
<1>7. /\ f.size <= Room(s) /\ f.sclust = Head0(s) /\ p <= Room(s) /\ (p > 0 => InCluster(s, cl, ToCluster(p)))
      /\ e.kind = "file" /\ e.name = n /\ p <= f.size
  BY <1>5, <1>6, <1>f, <1>s, <1>e, <1>p, <1>l, EasyFits
<1>8. s # <<>> /\ 1 \in 1..Len(s) /\ Head0(s) = s[1]
  <2>1. Room(s) \in Nat /\ (s = <<>> => Room(s) = 0)
    BY <1>5, RoomIs
  <2>2. s # <<>>
    BY <1>3, <1>4, <1>7, <2>1
  <2> QED
    BY <1>5, <2>2, HeadOf
<1>c. PICK c : c = (IF p = 0 THEN f.sclust ELSE get_fat(cl))
  OBVIOUS
<1>9. ASSUME NEW pc \in {"free", "cut"}, NEW d, d = [NewCall("truncate", n, pc) EXCEPT !.cl = c]
      PROVE  IsCall(d) /\ d.op = "truncate" /\ d.n = n /\ d.pc = pc /\ ~d.short /\ d.cl = c
  BY <1>9 DEF NewCall, IsCall, CallFields
<1>10. file'[n] = f
  BY <1>3, <1>f
<1>11. CASE p = 0
  <2>1. c = f.sclust /\ SeesNothing
    BY <1>11, <1>c, <1>f, <1>p DEF TruncateFile
  <2>2. call' = [NewCall("truncate", n, "free") EXCEPT !.cl = c]
    BY <1>11, <1>c, <1>f, <1>p DEF TruncateFile, Begins
  <2>3. /\ IsCall(call') /\ call'.op = "truncate" /\ call'.n = n /\ call'.pc = "free" /\ ~call'.short /\ call'.cl = c
    BY <1>9, <2>2
  <2>4. WindowFits' /\ vol' = vol
    BY <1>2, <2>1, SeesNothingKeeps
  <2>5. PICK ch2 : /\ Chained(vol.fat, ch2) /\ (Complete(vol.fat, ch) => Complete(vol.fat, ch2))
                   /\ ch2[n] = <<>> /\ ch2[Nobody] = ch[n] /\ \A m \in Names \ {n} : ch2[m] = ch[m]
    BY <1>1, <1>5, GivenUp
  <2>6. Floating(ch2)'
    BY <1>s, <1>7, <1>8, <2>1, <2>3, <2>5 DEF Floating
  <2>7. Cutting(n)'
    BY <2>3 DEF Cutting, With, Doing
  <2>8. Room(<<>>) = 0
    BY Sizes DEF Room
  <2>9. FileFits(ch2, n)'
    <3>1. /\ f.fptr \in Nat /\ f.fptr = 0 /\ ch2[n] = <<>> /\ f.fptr <= Room(<<>>) /\ f.fptr <= f.size
          /\ vol'.dir[f.slot] = e
      BY <1>e, <1>p, <1>4, <1>7, <1>11, <2>4, <2>5, <2>8
    <3> QED
      BY <1>7, <1>10, <2>7, <3>1, CuttingFits
  <2>10. FreeNow' = FreeNow /\ vol'.dir = vol.dir /\ vol'.fat = vol.fat
    BY <2>4 DEF FreeNow
  <2> QED
    BY <1>1, <1>3, <2>3, <2>4, <2>5, <2>6, <2>9, <2>10, TruncateStep
<1>12. CASE p # 0
  <2>j. PICK j : j = ToCluster(p)
    OBVIOUS
  <2>1. j \in 1..Len(s) /\ cl = s[j] /\ cl \in Clusters /\ p > 0
    BY <1>4, <1>5, <1>7, <1>12, <2>j, LinkOf DEF InCluster
  <2>2. c = vol.fat[cl] /\ c = After(s, j)
    BY <1>c, <1>5, <1>12, <2>1 DEF get_fat, Linked
  <2>3. /\ j = Len(s) => c = Eoc
        /\ j # Len(s) => c = s[j + 1] /\ c \in Clusters /\ j + 1 \in 1..Len(s)
        /\ c # 0 /\ j \in Nat /\ Len(s) \in Nat
    BY <1>5, <2>1, <2>2, LinkOf
  <2>4. CASE j = Len(s)
    <3>1. c = Eoc
      BY <2>3, <2>4
    <3>2. call' = [NewCall("truncate", n, "cut") EXCEPT !.cl = c] /\ SeesFat(cl)
      BY <1>12, <1>c, <1>f, <1>p, <1>l, <3>1 DEF TruncateFile, Begins
    <3>3. /\ IsCall(call') /\ call'.op = "truncate" /\ call'.n = n /\ call'.pc = "cut" /\ ~call'.short
      BY <1>9, <3>2
    <3>4. WindowFits' /\ vol' = vol
      BY <1>2, <3>2, SeesFatKeeps
    <3>5. Floating(ch)' /\ Chained(vol'.fat, ch) /\ (Complete(vol.fat, ch) => Complete(vol'.fat, ch))
      BY <1>2, <1>5, <3>3, <3>4 DEF Floating
    <3>6. Cutting(n)'
      BY <3>3 DEF Cutting, With, Doing
    <3>7. FileFits(ch, n)'
      <4>1. /\ f.fptr \in Nat /\ f.fptr # 0 /\ InCluster(s, f.clust, ToCluster(f.fptr)) /\ f.sclust = Head0(s)
            /\ f.fptr <= Room(s) /\ f.fptr <= f.size /\ vol'.dir[f.slot] = e
        BY <1>e, <1>p, <1>l, <1>4, <1>7, <1>12, <2>1, <3>4
      <4> QED
        BY <1>s, <1>7, <1>10, <3>6, <4>1, CuttingFits
    <3>8. FreeNow' = FreeNow /\ vol'.dir = vol.dir
      BY <3>4 DEF FreeNow
    <3>9. \A m \in Names \ {n} : ch[m] = ch[m]
      OBVIOUS
    <3> QED
      BY <1>1, <1>3, <3>3, <3>4, <3>5, <3>7, <3>8, <3>9, TruncateStep
  <2>5. CASE j # Len(s)
    <3>1. c # Eoc
      BY <2>3, <2>5, Numbers
    <3>2. call' = [NewCall("truncate", n, "free") EXCEPT !.cl = c] /\ PutFat({}, cl, Eoc)
      BY <1>12, <1>c, <1>f, <1>p, <1>l, <3>1 DEF TruncateFile, Begins
    <3>3. /\ IsCall(call') /\ call'.op = "truncate" /\ call'.n = n /\ call'.pc = "free" /\ ~call'.short /\ call'.cl = c
      BY <1>9, <3>2
    <3>4. WindowFits' /\ vol'.fat = [vol.fat EXCEPT ![cl] = Eoc] /\ vol'.dir = vol.dir
      <4>1. PICK x : x = Eoc
        OBVIOUS
      <4>2. WindowFits /\ cl \in Clusters /\ x \in Links /\ PutFat({}, cl, x)
        BY <1>2, <2>1, <3>2, <4>1 DEF Links
      <4>3. WindowFits' /\ vol'.fat = [vol.fat EXCEPT ![cl] = x] /\ vol'.dir = vol.dir
        BY <4>2, PutFatKeeps
      <4> QED
        BY <4>1, <4>3
    <3>5. PICK r : r = SubSeq(s, 1, j)
      OBVIOUS
    <3>6. PICK q : q = SubSeq(s, j + 1, Len(s))
      OBVIOUS
    <3>7. PICK ch2 : ch2 = [ch EXCEPT ![n] = r, ![Nobody] = q]
      OBVIOUS
    <3>8. Chained(vol'.fat, ch2) /\ (Complete(vol.fat, ch) => Complete(vol'.fat, ch2))
      <4>1. j \in 1..Len(ch[n]) /\ j # Len(ch[n])
        BY <1>s, <2>1, <2>5
      <4>2. /\ Chained([vol.fat EXCEPT ![ch[n][j]] = Eoc],
                       [ch EXCEPT ![n] = SubSeq(@, 1, j), ![Nobody] = SubSeq(ch[n], j + 1, Len(ch[n]))])
            /\ Complete(vol.fat, ch) =>
                 Complete([vol.fat EXCEPT ![ch[n][j]] = Eoc],
                          [ch EXCEPT ![n] = SubSeq(@, 1, j), ![Nobody] = SubSeq(ch[n], j + 1, Len(ch[n]))])
        BY <1>2, <1>5, <4>1, CutChain, Zenon
      <4> QED
        BY <1>s, <2>1, <3>4, <3>5, <3>6, <3>7, <4>2
    <3>9. ch2[n] = r /\ ch2[Nobody] = q /\ \A m \in Names \ {n} : ch2[m] = ch[m]
      <4>1. ch \in Chainings /\ n \in Owners /\ Nobody \in Owners /\ n # Nobody
        BY <1>5, NobodyIs DEF Chained, Owners
      <4> QED
        BY <3>7, <4>1, NobodyIs DEF Chainings, Owners
    <3>10. /\ r \in Seq(Clusters) /\ Len(r) = j /\ (\A k \in 1..j : r[k] = s[k])
           /\ q \in Seq(Clusters) /\ Len(q) = Len(s) - j /\ (\A k \in 1..(Len(s) - j) : q[k] = s[k + j])
      BY <1>5, <2>1, <3>5, <3>6, PartsAre
    <3>11. Head0(q) = c /\ q # <<>> /\ Head0(r) = s[1] /\ r # <<>> /\ r[j] = cl
      <4>1. 1 \in 1..(Len(s) - j) /\ 1 \in 1..j /\ j \in 1..j
        BY <2>1, <2>3, <2>5
      <4>2. q[1] = c /\ r[1] = s[1] /\ r[j] = cl
        BY <2>1, <2>3, <2>5, <3>10, <4>1
      <4>3. q # <<>> /\ r # <<>>
        BY <3>10, <4>1
      <4> QED
        BY <4>2, <4>3 DEF Head0
    <3>12. Floating(ch2)'
      BY <3>3, <3>9, <3>11 DEF Floating
    <3>13. Cutting(n)'
      BY <3>3 DEF Cutting, With, Doing
    <3>14. p <= Room(r)
      <4>1. p <= j * BCS
        BY <1>4, <2>1, <2>j, ToClusterHolds
      <4> QED
        BY <3>10, <4>1 DEF Room
    <3>15. FileFits(ch2, n)'
      <4>1. InCluster(r, cl, j)
        BY <2>1, <2>3, <3>10, <3>11 DEF InCluster
      <4>2. /\ f.fptr \in Nat /\ f.fptr # 0 /\ InCluster(r, f.clust, ToCluster(f.fptr)) /\ f.sclust = Head0(r)
            /\ f.fptr <= Room(r) /\ f.fptr <= f.size /\ vol'.dir[f.slot] = e /\ r = ch2[n]
        BY <1>e, <1>p, <1>l, <1>4, <1>7, <1>8, <1>12, <2>j, <3>4, <3>9, <3>11, <3>14, <4>1
      <4> QED
        BY <1>7, <1>10, <3>13, <4>2, CuttingFits
    <3>16. FreeNow' = FreeNow
      BY <1>2, <2>1, <2>2, <2>3, <3>4, NoneMore, Numbers
    <3> QED
      BY <1>1, <1>3, <3>3, <3>4, <3>8, <3>9, <3>12, <3>15, <3>16, TruncateStep
  <2> QED
    BY <2>4, <2>5
<1> QED
  BY <1>11, <1>12

-----------------------------------------------------------------------------
(* f_rename *)

\* f_rename of a file that is not there, or to a name that is.
LEMMA RenameRefusedKeeps ==
  ASSUME FatInv, ~InCall, NEW n \in Names, NEW m \in Names, RenameFile(n, m),
         SlotOf(n) = 0 \/ SlotOf(m) \notin {0, SlotOf(n)}
  PROVE  FatInv'
PROOF
<1>1. StopsAt(n) \in {0} \cup Slots /\ StopsAt(m) \in {0} \cup Slots
  BY Parts, AtRest, SlotOfIs
<1>2. LastSeen(StopsAt(n)) \in SectorsTo(StopsAt(n)) /\ LastSeen(StopsAt(m)) \in SectorsTo(StopsAt(m))
  BY <1>1, LastIsSeen
<1>3. ~IsOpen(n) /\ ~IsOpen(m) /\ UNCHANGED <<fs, file, loose, failures>>
  BY DEF RenameFile
<1>4. \E S : \E x \in {n, m} : LastSeen(StopsAt(x)) \in S /\ Sees(S, LastSeen(StopsAt(x)))
  <2>1. CASE SlotOf(n) = 0
    BY <1>2, <2>1 DEF RenameFile
  <2>2. CASE SlotOf(n) # 0
    <3>1. LastSeen(StopsAt(m)) \in SectorsTo(StopsAt(n)) \cup SectorsTo(StopsAt(m))
      BY <1>2
    <3>2. Sees(SectorsTo(StopsAt(n)) \cup SectorsTo(StopsAt(m)), LastSeen(StopsAt(m)))
      BY <2>2 DEF RenameFile
    <3> QED
      BY <3>1, <3>2
  <2> QED
    BY <2>1, <2>2
<1>5. WindowFits' /\ (disk' = disk \/ AsSeen(disk')) /\ vol' = vol
  BY <1>4, SearchSees
<1>6. \E res \in {"FR_NO_FILE", "FR_EXIST"} : \E i :
        call' = [NewCall("rename", n, "done") EXCEPT !.m = m, !.slot = i, !.res = res]
  <2>1. CASE SlotOf(n) = 0
    BY <2>1 DEF RenameFile, Begins
  <2>2. CASE SlotOf(n) # 0
    BY <2>2 DEF RenameFile, Begins
  <2> QED
    BY <2>1, <2>2
<1>7. IsCall(call') /\ call'.n = n /\ call'.m = m /\ call'.op = "rename" /\ call'.pc = "done" /\ ~call'.short
  BY <1>6 DEF NewCall, IsCall, CallFields
<1>8. call'.op = "rename" => ~IsOpen(call'.m)
  BY <1>3, <1>7
<1> QED
  BY <1>3, <1>5, <1>7, <1>8, RefusedKeeps

\* Open files, and files truncated, that keep their entries and chains.
LEMMA OpenFilesStay ==
  ASSUME FatInv, NEW n \in Names, On(n), On(n)', ~IsOpen(n), n \notin loose, file' = file, loose' = loose,
         NEW ch, ChainsFit(ch), NEW ch2,
         \A x \in Names : IsOpen(x) =>
            ch2[x] = ch[x] /\ vol'.dir[file[x].slot] = vol.dir[file[x].slot]
  PROVE  FilesFit(ch2)' /\ LooseFit'
PROOF
<1>1. FilesFit(ch) /\ LooseFit /\ loose \subseteq Names
  BY Parts DEF ChainsFit, FatInv
<1>2. ASSUME NEW x \in Names, IsOpen(x)' PROVE FileFits(ch2, x)'
  <2>1. IsOpen(x) /\ x # n /\ file'[x] = file[x]
    BY <1>2 DEF IsOpen
  <2>2. FileFits(ch, x)
    BY <1>1, <2>1 DEF FilesFit
  <2>3. ch2[x] = ch[x] /\ vol'.dir[file[x].slot] = vol.dir[file[x].slot]
    BY <2>1
  <2> QED
    BY <2>1, <2>2, <2>3, OthersFit
<1>3. ASSUME NEW x \in loose' PROVE LooseFits(x)'
  <2>1. x \in Names /\ x # n /\ LooseFits(x)
    BY <1>1, <1>3 DEF LooseFit, LooseFits
  <2>2. ~Cutting(x) /\ ~With(x, {"sync", "close"}, {"done"})
    BY <2>1 DEF On, InCall, With, Doing, Cutting
  <2>3. IsOpen(x) /\ file[x].mod
    BY <2>1, <2>2 DEF LooseFits
  <2> QED
    BY <2>3 DEF LooseFits, IsOpen
<1> QED
  BY <1>2, <1>3 DEF FilesFit, LooseFit, LooseFits

\* f_rename registers the new entry, and the old one is excused.
LEMMA RenameKeeps ==
  ASSUME FatInv, ~InCall, NEW n \in Names, NEW m \in Names, n # m, RenameFile(n, m),
         SlotOf(n) # 0, SlotOf(m) = 0
  PROVE  FatInv'
PROOF
<1>i. PICK i : i = SlotOf(n)
  OBVIOUS
<1>1. PICK ch : ChainsFit(ch)
  BY DEF FatInv
<1>s. PICK s : s = ch[n]
  OBVIOUS
<1>2. /\ n # m /\ ~IsOpen(n) /\ ~IsOpen(m) /\ i # 0
      /\ file' = file /\ fs' = fs /\ loose' = loose /\ failures' = failures
  BY <1>i DEF RenameFile
<1>d. PICK d : d = vol.dir[i]
  OBVIOUS
<1>3. /\ s \in Seq(Clusters) /\ n \notin loose /\ ch[Nobody] = <<>> /\ Chained(vol.fat, ch) /\ ch \in Chainings
      /\ i \in Slots /\ IsFile(i) /\ d.name = n /\ d.clust = Head0(s) /\ d.size <= Room(s)
      /\ d.size \in Nat /\ d.clust \in {0} \cup Clusters
      /\ \A j \in Slots : IsFile(j) /\ vol.dir[j].name = n => j = i
  BY <1>i, <1>1, <1>s, <1>d, <1>2, ClosedFile
<1>4. ch[m] = <<>> /\ m \notin loose /\ \A j \in Slots : IsFile(j) => vol.dir[j].name # m
  BY <1>1, <1>2, ClosedFile
<1>5. /\ WindowFits /\ FsTyped /\ FilesTyped /\ call.op = "none" /\ call.pc = "idle" /\ DirTyped(vol.dir)
      /\ DirOK(vol.dir) /\ loose \subseteq Names /\ failures \in Nat /\ VolTyped(vol)
  BY Parts, AtRest
<1>w. PICK w : w = FreeSlot
  OBVIOUS
<1>6. w \in Slots /\ ~IsFile(w) /\ \A j \in Slots : j < w => IsFile(j)
  BY <1>w, <1>4, <1>5, FreeSlotIs
<1>e. PICK e : e = Entry(m, d.clust, d.size)
  OBVIOUS
<1>7. e.kind = "file" /\ e.name = m /\ e.clust = d.clust /\ e.size = d.size /\ EntryOk(e)
  BY <1>e, <1>3 DEF Entry, EntryOk
<1>8. /\ \E S : PutDir(S, w, e)
      /\ call' = [NewCall("rename", n, "remove") EXCEPT !.m = m, !.slot = i, !.res = "FR_OK"]
  BY <1>i, <1>w, <1>e, <1>d, <1>2 DEF RenameFile, Begins
<1>9. /\ WindowFits' /\ (disk' = disk \/ AsSeen(disk'))
      /\ vol'.fat = vol.fat /\ vol'.dir[w] = e /\ \A j \in Slots \ {w} : vol'.dir[j] = vol.dir[j]
  BY <1>5, <1>6, <1>7, <1>8, PutDirKeeps
<1>10. /\ IsCall(call') /\ call'.op = "rename" /\ call'.n = n /\ call'.m = m /\ call'.pc = "remove"
       /\ ~call'.short /\ call'.slot = i
  BY <1>8 DEF NewCall, IsCall, CallFields
<1>11. On(n) /\ On(n)' /\ ~Removing /\ FilesTyped' /\ \A x \in Names : IsOpen(x)' <=> IsOpen(x)
  <2>1. FilesTyped'
    BY <1>2, SameFile
  <2> QED
    BY <1>2, <1>5, <1>10, <2>1 DEF On, InCall, Removing, Doing, IsOpen
<1>12. i # w /\ IsFile(i)' /\ vol'.dir[i].name = n /\ IsFile(w)'
  BY <1>3, <1>6, <1>7, <1>9, <1>d DEF IsFile
<1>13. DirOK(vol.dir)'
  <2>1. Names1(vol.dir)'
    BY <1>4, <1>5, <1>7, <1>9 DEF DirOK, Names1, IsFile
  <2>2. ASSUME NEW j \in Slots, NEW k \in Slots, j < k, vol'.dir[j].kind = "blank"
        PROVE  vol'.dir[k].kind = "blank"
    <3>1. j # w /\ vol.dir[j].kind = "blank"
      BY <1>7, <1>9, <2>2
    <3>2. k # w
      BY <1>6, <2>2, <3>1 DEF IsFile
    <3> QED
      BY <1>5, <1>9, <2>2, <3>1, <3>2 DEF DirOK, BlanksLast
  <2> QED
    BY <2>1, <2>2 DEF DirOK, BlanksLast
<1>14. PICK ch2 : ch2 = [ch EXCEPT ![m] = ch[n], ![n] = <<>>]
  OBVIOUS
<1>15. n \in Owners /\ m \in Owners /\ Nobody \in Owners /\ n # Nobody /\ m # Nobody
  BY NobodyIs DEF Owners
<1>16. Chained(vol'.fat, ch2) /\ (Complete(vol.fat, ch) => Complete(vol'.fat, ch2))
  <2>1. /\ Chained(vol.fat, [ch EXCEPT ![m] = ch[n], ![n] = <<>>])
        /\ Complete(vol.fat, ch) => Complete(vol.fat, [ch EXCEPT ![m] = ch[n], ![n] = <<>>])
    BY <1>2, <1>3, <1>4, <1>15, MoveChain, Zenon
  <2> QED
    BY <1>9, <1>14, <2>1
<1>17. ch2[n] = <<>> /\ ch2[m] = s /\ ch2[Nobody] = <<>> /\ \A x \in Names \ {n, m} : ch2[x] = ch[x]
  BY <1>s, <1>2, <1>3, <1>14, <1>15, NobodyIs DEF Chainings, Owners
<1>18. Floating(ch2)'
  BY <1>10, <1>17 DEF Floating
<1>19. /\ EntriesFit(ch) /\ Unnamed(ch) /\ FilesFit(ch) /\ (failures = 0 => Complete(vol.fat, ch))
       /\ \A j \in Slots : ~Excused(j)
  BY <1>1, <1>5 DEF ChainsFit, Excused, Doing
<1>20. \A j \in Slots : Excused(j)' <=> j = i
  BY <1>10 DEF Excused, Doing
<1>21. ASSUME NEW j \in Slots, IsFile(j)', j # i PROVE EntryFits(ch2, j)'
  <2>1. CASE j = w
    BY <1>3, <1>7, <1>9, <1>17, <2>1, OwnEntry
  <2>2. CASE j # w
    <3>1. vol'.dir[j] = vol.dir[j] /\ IsFile(j)
      BY <1>9, <1>21, <2>2 DEF IsFile
    <3>2. PICK x : x = vol.dir[j].name
      OBVIOUS
    <3>3. EntryFits(ch, j) /\ x \in Names /\ x # n /\ x # m
      BY <1>3, <1>4, <1>5, <1>19, <1>21, <3>1, <3>2 DEF EntriesFit, DirTyped, EntryOk, IsFile
    <3>4. (IsOpen(x)' <=> IsOpen(x)) /\ (Loose(x) => Loose(x)') /\ ch2[x] = ch[x]
      BY <1>2, <1>10, <1>11, <1>17, <3>3 DEF Loose, With, Doing
    <3> QED
      BY <3>1, <3>2, <3>3, <3>4, EntryStays
  <2> QED
    BY <2>1, <2>2
<1>22. EntriesFit(ch2)'
  BY <1>20, <1>21 DEF EntriesFit
<1>23. ASSUME NEW x \in Names, \A j \in Slots : IsFile(j)' /\ vol'.dir[j].name = x => Excused(j)'
       PROVE  ch2[x] = <<>>
  <2>1. CASE x = n
    BY <1>17, <2>1
  <2>2. CASE x = m
    BY <1>6, <1>7, <1>9, <1>12, <1>20, <1>23, <2>2
  <2>3. CASE x # n /\ x # m
    <3>1. ASSUME NEW j \in Slots, IsFile(j), vol.dir[j].name = x PROVE FALSE
      <4>1. j # w /\ vol'.dir[j] = vol.dir[j] /\ IsFile(j)'
        BY <1>6, <1>9, <3>1 DEF IsFile
      <4>2. j = i
        BY <1>20, <1>23, <3>1, <4>1
      <4> QED
        BY <1>3, <1>d, <2>3, <3>1, <4>2
    <3>2. ch[x] = <<>>
      BY <1>19, <3>1 DEF Unnamed
    <3> QED
      BY <1>17, <2>3, <3>2
  <2> QED
    BY <2>1, <2>2, <2>3
<1>24. Unnamed(ch2)'
  BY <1>23 DEF Unnamed
<1>25. ASSUME NEW x \in Names, IsOpen(x)
       PROVE  ch2[x] = ch[x] /\ vol'.dir[file[x].slot] = vol.dir[file[x].slot]
  <2>1. x # n /\ x # m
    BY <1>2, <1>25
  <2>2. FileFits(ch, x) /\ file[x].slot \in Slots
    BY <1>19, <1>25, Parts DEF FilesFit, IsFil
  <2>3. IsFile(file[x].slot)
    BY <2>2 DEF FileFits, SlotFits, IsFile
  <2> QED
    BY <1>6, <1>9, <1>17, <2>1, <2>2, <2>3
<1>26. FilesFit(ch2)' /\ LooseFit'
  BY <1>1, <1>2, <1>3, <1>11, <1>25, OpenFilesStay
<1>27. ChainsFit(ch2)'
  BY <1>2, <1>9, <1>16, <1>18, <1>19, <1>22, <1>24, <1>26 DEF ChainsFit
<1>28. Steady' => Steady
  BY <1>2, <1>5, <1>10 DEF Steady, With, Doing
<1>29. DiskFine'
  BY <1>9, <1>11, <1>28, DiskFineStays
<1>30. Counts'
  <2>1. FreeNow' = FreeNow
    BY <1>9 DEF FreeNow
  <2> QED
    BY <1>2, <1>5, <1>10, <2>1 DEF FatInv, Counts
<1>31. InPhase'
  <2>1. ~IsOpen(n)' /\ ~IsOpen(m)'
    BY <1>2, <1>11
  <2>2. \E j \in Slots \ {i} : IsFile(j)' /\ vol'.dir[j].name = m
    BY <1>6, <1>7, <1>9, <1>12
  <2>3. DirOK(DirLeft)'
    <3>1. vol'.dir[i].kind = "file" /\ DOMAIN vol'.dir = Slots /\ vol'.dir = [x \in Slots |-> vol'.dir[x]]
      BY <1>8, <1>5, <1>12 DEF IsFile, PutDir, DirTyped
    <3>2. DirOK([vol'.dir EXCEPT ![i] = Deleted])
      BY <1>3, <1>13, <3>1, LeftIsOK DEF DirOK, Names1
    <3> QED
      BY <1>10, <3>2 DEF DirLeft
  <2> QED
    BY <1>2, <1>3, <1>10, <1>12, <2>1, <2>2, <2>3 DEF InPhase, Phase
<1>32. Typed'
  BY <1>2, <1>5, <1>9, <1>10, <1>11, TypedNext DEF FsTyped
<1>33. Agrees'
  BY <1>9 DEF WindowFits
<1> QED
  BY <1>13, <1>26, <1>27, <1>29, <1>30, <1>31, <1>32, <1>33 DEF FatInv

\* f_rename to the file's own name registers a second entry of that name.
LEMMA RenameSameKeeps ==
  ASSUME FatInv, ~InCall, NEW n \in Names, RenameFile(n, n), SlotOf(n) # 0
  PROVE  FatInv'
PROOF
<1>i. PICK i : i = SlotOf(n)
  OBVIOUS
<1>1. PICK ch : ChainsFit(ch)
  BY DEF FatInv
<1>s. PICK s : s = ch[n]
  OBVIOUS
<1>2. /\ ~IsOpen(n) /\ i # 0 /\ (\E k \in Slots : IsFree(vol.dir[k]))
      /\ file' = file /\ fs' = fs /\ loose' = loose /\ failures' = failures
  BY <1>i DEF RenameFile
<1>d. PICK d : d = vol.dir[i]
  OBVIOUS
<1>3. /\ s \in Seq(Clusters) /\ n \notin loose /\ ch[Nobody] = <<>>
      /\ i \in Slots /\ IsFile(i) /\ d.name = n /\ d.clust = Head0(s) /\ d.size <= Room(s)
      /\ d.size \in Nat /\ d.clust \in {0} \cup Clusters
      /\ \A j \in Slots : IsFile(j) /\ vol.dir[j].name = n => j = i
  BY <1>i, <1>1, <1>s, <1>d, <1>2, ClosedFile
<1>5. /\ WindowFits /\ FsTyped /\ FilesTyped /\ call.op = "none" /\ call.pc = "idle" /\ DirTyped(vol.dir)
      /\ DirOK(vol.dir) /\ loose \subseteq Names /\ failures \in Nat /\ VolTyped(vol)
  BY Parts, AtRest
<1>w. PICK w : w = FreeSlot
  OBVIOUS
<1>6. w \in Slots /\ ~IsFile(w) /\ \A j \in Slots : j < w => IsFile(j)
  BY <1>w, <1>2, <1>5, FirstFree
<1>e. PICK e : e = Entry(n, d.clust, d.size)
  OBVIOUS
<1>7. e.kind = "file" /\ e.name = n /\ e.clust = d.clust /\ e.size = d.size /\ EntryOk(e)
  BY <1>e, <1>3 DEF Entry, EntryOk
<1>8. /\ \E S : PutDir(S, w, e)
      /\ call' = [NewCall("rename", n, "remove") EXCEPT !.m = n, !.slot = i, !.res = "FR_OK"]
  BY <1>i, <1>w, <1>e, <1>d, <1>2 DEF RenameFile, Begins
<1>9. /\ WindowFits' /\ (disk' = disk \/ AsSeen(disk'))
      /\ vol'.fat = vol.fat /\ vol'.dir[w] = e /\ \A j \in Slots \ {w} : vol'.dir[j] = vol.dir[j]
  BY <1>5, <1>6, <1>7, <1>8, PutDirKeeps
<1>10. /\ IsCall(call') /\ call'.op = "rename" /\ call'.n = n /\ call'.m = n /\ call'.pc = "remove"
       /\ ~call'.short /\ call'.slot = i
  BY <1>8 DEF NewCall, IsCall, CallFields
<1>11. On(n) /\ On(n)' /\ ~Removing /\ Removing' /\ FilesTyped' /\ \A x \in Names : IsOpen(x)' <=> IsOpen(x)
  <2>1. FilesTyped'
    BY <1>2, SameFile
  <2> QED
    BY <1>2, <1>5, <1>10, <2>1 DEF On, InCall, Removing, Doing, IsOpen
<1>12. i # w /\ IsFile(i)' /\ vol'.dir[i].name = n /\ IsFile(w)'
  BY <1>3, <1>6, <1>7, <1>9, <1>d DEF IsFile
<1>13. DirOK(DirLeft)'
  <2>1. ASSUME NEW j \in Slots, NEW k \in Slots, j < k, vol'.dir[j].kind = "blank"
        PROVE  vol'.dir[k].kind = "blank"
    <3>1. j # w /\ vol.dir[j].kind = "blank"
      BY <1>7, <1>9, <2>1
    <3>2. k # w
      BY <1>6, <2>1, <3>1 DEF IsFile
    <3> QED
      BY <1>5, <1>9, <2>1, <3>1, <3>2 DEF DirOK, BlanksLast
  <2>2. BlanksLast(vol'.dir)
    BY <2>1 DEF BlanksLast
  <2>3. ASSUME NEW j \in Slots \ {i}, NEW k \in Slots \ {i},
               vol'.dir[j].kind = "file", vol'.dir[k].kind = "file", vol'.dir[j].name = vol'.dir[k].name
        PROVE  j = k
    <3>1. ASSUME NEW x \in Slots \ {i}, x # w, vol'.dir[x].kind = "file"
          PROVE  vol'.dir[x] = vol.dir[x] /\ IsFile(x) /\ vol.dir[x].name # n
      BY <1>3, <1>9, <3>1 DEF IsFile
    <3>2. j # w /\ k # w => j = k
      BY <1>5, <2>3, <3>1 DEF DirOK, Names1, IsFile
    <3> QED
      BY <1>7, <1>9, <2>3, <3>1, <3>2
  <2>4. vol'.dir[i].kind = "file" /\ DOMAIN vol'.dir = Slots /\ vol'.dir = [x \in Slots |-> vol'.dir[x]]
    BY <1>8, <1>5, <1>12 DEF IsFile, PutDir, DirTyped
  <2>5. DirOK([vol'.dir EXCEPT ![i] = Deleted])
    BY <1>3, <2>2, <2>3, <2>4, LeftIsOK
  <2> QED
    BY <1>10, <2>5 DEF DirLeft
<1>18. Floating(ch)'
  BY <1>3, <1>10 DEF Floating
<1>19. /\ EntriesFit(ch) /\ Unnamed(ch) /\ FilesFit(ch) /\ (failures = 0 => Complete(vol.fat, ch))
       /\ Chained(vol.fat, ch) /\ \A j \in Slots : ~Excused(j)
  BY <1>1, <1>5 DEF ChainsFit, Excused, Doing
<1>20. \A j \in Slots : Excused(j)' <=> j = i
  BY <1>10 DEF Excused, Doing
<1>21. ASSUME NEW j \in Slots, IsFile(j)', j # i PROVE EntryFits(ch, j)'
  <2>1. CASE j = w
    BY <1>3, <1>s, <1>7, <1>9, <2>1, OwnEntry
  <2>2. CASE j # w
    <3>1. vol'.dir[j] = vol.dir[j] /\ IsFile(j)
      BY <1>9, <1>21, <2>2 DEF IsFile
    <3>2. PICK x : x = vol.dir[j].name
      OBVIOUS
    <3>3. EntryFits(ch, j) /\ x \in Names /\ x # n
      BY <1>3, <1>5, <1>19, <1>21, <3>1, <3>2 DEF EntriesFit, DirTyped, EntryOk, IsFile
    <3>4. (IsOpen(x)' <=> IsOpen(x)) /\ (Loose(x) => Loose(x)')
      BY <1>2, <1>10, <1>11, <3>3 DEF Loose, With, Doing
    <3> QED
      BY <3>1, <3>2, <3>3, <3>4, EntryStays
  <2> QED
    BY <2>1, <2>2
<1>22. EntriesFit(ch)'
  BY <1>20, <1>21 DEF EntriesFit
<1>23. ASSUME NEW x \in Names, \A j \in Slots : IsFile(j)' /\ vol'.dir[j].name = x => Excused(j)'
       PROVE  ch[x] = <<>>
  <2>1. x # n
    BY <1>6, <1>7, <1>9, <1>12, <1>20, <1>23
  <2>2. ASSUME NEW j \in Slots, IsFile(j), vol.dir[j].name = x PROVE FALSE
    <3>1. j # w /\ vol'.dir[j] = vol.dir[j] /\ IsFile(j)'
      BY <1>6, <1>9, <2>2 DEF IsFile
    <3>2. j = i
      BY <1>20, <1>23, <2>2, <3>1
    <3> QED
      BY <1>3, <1>d, <2>1, <2>2, <3>2
  <2> QED
    BY <1>19, <2>2 DEF Unnamed
<1>24. Unnamed(ch)'
  BY <1>23 DEF Unnamed
<1>25. ASSUME NEW x \in Names, IsOpen(x)
       PROVE  ch[x] = ch[x] /\ vol'.dir[file[x].slot] = vol.dir[file[x].slot]
  <2>1. FileFits(ch, x) /\ file[x].slot \in Slots
    BY <1>19, <1>25, Parts DEF FilesFit, IsFil
  <2>2. IsFile(file[x].slot)
    BY <2>1 DEF FileFits, SlotFits, IsFile
  <2> QED
    BY <1>6, <1>9, <2>1, <2>2
<1>26. FilesFit(ch)' /\ LooseFit'
  BY <1>1, <1>2, <1>3, <1>11, <1>25, OpenFilesStay
<1>27. ChainsFit(ch)'
  BY <1>2, <1>9, <1>18, <1>19, <1>22, <1>24, <1>26 DEF ChainsFit
<1>28. Steady' => Steady
  BY <1>2, <1>5, <1>10 DEF Steady, With, Doing
<1>29. DiskFine'
  BY <1>9, <1>11, <1>28, DiskFineStays
<1>30. Counts'
  <2>1. FreeNow' = FreeNow
    BY <1>9 DEF FreeNow
  <2> QED
    BY <1>2, <1>5, <1>10, <2>1 DEF FatInv, Counts
<1>31. InPhase'
  <2>1. ~IsOpen(n)'
    BY <1>2, <1>11
  <2>2. \E j \in Slots \ {i} : IsFile(j)' /\ vol'.dir[j].name = n
    BY <1>6, <1>7, <1>9, <1>12
  <2> QED
    BY <1>2, <1>3, <1>10, <1>12, <1>13, <2>1, <2>2 DEF InPhase, Phase
<1>32. Typed'
  BY <1>2, <1>5, <1>9, <1>10, <1>11, TypedNext DEF FsTyped
<1>33. Agrees'
  BY <1>9 DEF WindowFits
<1> QED
  BY <1>11, <1>26, <1>27, <1>29, <1>30, <1>31, <1>32, <1>33 DEF FatInv

\* f_rename begins, one way or the other.
LEMMA RenameFileKeeps ==
  ASSUME FatInv, ~InCall, NEW n \in Names, NEW m \in Names, RenameFile(n, m)
  PROVE  FatInv'
PROOF
<1>1. /\ SlotOf(n) = 0 => \A j \in Slots : IsFile(j) => vol.dir[j].name # n
      /\ SlotOf(n) # 0 => SlotOf(n) \in Slots /\ IsFile(SlotOf(n)) /\ vol.dir[SlotOf(n)].name = n
      /\ SlotOf(m) # 0 => SlotOf(m) \in Slots /\ IsFile(SlotOf(m)) /\ vol.dir[SlotOf(m)].name = m
  BY Parts, AtRest, SlotOfIs
<1>2. CASE SlotOf(n) = 0 \/ SlotOf(m) \notin {0, SlotOf(n)}
  BY <1>2, RenameRefusedKeeps
<1>3. CASE SlotOf(n) # 0 /\ SlotOf(m) = 0
  <2>1. n # m
    BY <1>3
  <2> QED
    BY <1>3, <2>1, RenameKeeps
<1>4. CASE SlotOf(n) # 0 /\ SlotOf(m) = SlotOf(n)
  <2>1. n = m
    BY <1>1, <1>4
  <2> QED
    BY <1>4, <2>1, RenameSameKeeps
<1> QED
  BY <1>2, <1>3, <1>4

\* f_unlink begins, one way or the other.
LEMMA UnlinkFileKeeps ==
  ASSUME FatInv, ~InCall, NEW n \in Names, UnlinkFile(n)
  PROVE  FatInv'
BY UnlinkRefusedKeeps, UnlinkKeeps

\* f_rename removes the old entry.
LEMMA RemoveOldKeeps ==
  ASSUME FatInv, RemoveOld
  PROVE  FatInv'
PROOF
<1>i. PICK i : i = call.slot
  OBVIOUS
<1>1. PICK ch : ChainsFit(ch)
  BY DEF FatInv
<1>2. call.pc = "remove" /\ PutDir({}, i, Deleted) /\ UNCHANGED <<fs, file, loose, failures>>
  BY <1>i DEF RemoveOld
<1>3. /\ WindowFits /\ FsTyped /\ FilesTyped /\ DirTyped(vol.dir) /\ VolTyped(vol)
      /\ loose \subseteq Names /\ failures \in Nat /\ IsCall(call) /\ InCall
  BY <1>2, Parts DEF Idle
<1>4. call.op = "rename"
  BY <1>2, <1>3, Parts DEF Phase, InCall
<1>5. PICK n \in Names : n = call.n
  BY <1>3 DEF IsCall
<1>6. /\ ~IsOpen(n) /\ ~IsOpen(call.m) /\ i \in Slots /\ IsFile(i) /\ vol.dir[i].name = n
      /\ DirOK(DirLeft)
  BY <1>i, <1>2, <1>4, <1>5, Parts DEF Phase
<1>7. EntryOk(Deleted) /\ Deleted.kind = "deleted"
  BY DEF Deleted, EntryOk
<1>8. /\ WindowFits' /\ vol'.fat = vol.fat /\ vol'.dir[i] = Deleted
      /\ \A j \in Slots \ {i} : vol'.dir[j] = vol.dir[j]
  BY <1>2, <1>3, <1>6, <1>7, PutDirKeeps
<1>9. /\ IsCall(call') /\ call'.op = "rename" /\ call'.n = n /\ call'.m = call.m /\ call'.pc = "window"
      /\ call'.short = call.short
  <2>1. call' = [call EXCEPT !.pc = "window"]
    BY DEF RemoveOld, Goes
  <2> QED
    BY <1>3, <1>4, <1>5, <2>1 DEF IsCall, CallFields
<1>10. On(n) /\ On(n)' /\ FilesTyped' /\ \A x \in Names : IsOpen(x)' <=> IsOpen(x)
  <2>1. FilesTyped'
    BY <1>2, <1>5, SameFile
  <2> QED
    BY <1>2, <1>5, <1>9, <2>1 DEF On, IsOpen
<1>11. \A j \in Slots : (vol'.dir[j].kind = "file" => j # i /\ vol'.dir[j] = vol.dir[j])
                        /\ (vol'.dir[j].kind = "blank" <=> vol.dir[j].kind = "blank")
  BY <1>6, <1>7, <1>8 DEF IsFile
<1>12. DirOK(vol.dir)'
  <2>1. vol'.dir = DirLeft
    BY <1>i, <1>2 DEF PutDir, DirLeft
  <2> QED
    BY <1>6, <2>1
<1>13. /\ EntriesFit(ch) /\ Unnamed(ch) /\ FilesFit(ch) /\ (failures = 0 => Complete(vol.fat, ch))
       /\ Chained(vol.fat, ch) /\ Floating(ch)
  BY <1>1 DEF ChainsFit
<1>14. \A j \in Slots : (Excused(j) <=> j = i) /\ ~Excused(j)'
  BY <1>i, <1>2, <1>4, <1>9 DEF Excused, Doing
<1>15. Floating(ch)'
  BY <1>2, <1>9, <1>13 DEF Floating
<1>16. n \notin loose
  BY <1>4, <1>6 DEF FatInv, LooseFit, With, Doing
<1>17. ASSUME NEW j \in Slots, IsFile(j)' PROVE EntryFits(ch, j)'
  <2>1. vol'.dir[j] = vol.dir[j] /\ IsFile(j) /\ j # i
    BY <1>11, <1>17 DEF IsFile
  <2>2. PICK x : x = vol.dir[j].name
    OBVIOUS
  <2>3. EntryFits(ch, j) /\ x \in Names
    BY <1>3, <1>13, <1>14, <2>1, <2>2 DEF EntriesFit, DirTyped, EntryOk, IsFile
  <2>4. (IsOpen(x)' <=> IsOpen(x)) /\ (Loose(x) => Loose(x)')
    BY <1>2, <1>9, <1>10, <2>3 DEF Loose, With, Doing
  <2> QED
    BY <2>1, <2>2, <2>3, <2>4, EntryStays
<1>18. EntriesFit(ch)'
  BY <1>17 DEF EntriesFit
<1>19. ASSUME NEW x \in Names, \A j \in Slots : IsFile(j)' /\ vol'.dir[j].name = x => Excused(j)'
       PROVE  ch[x] = <<>>
  <2>1. ASSUME NEW j \in Slots, IsFile(j), vol.dir[j].name = x PROVE Excused(j)
    <3>1. CASE j = i
      BY <1>14, <3>1
    <3>2. CASE j # i
      <4>1. vol'.dir[j] = vol.dir[j] /\ IsFile(j)'
        BY <1>8, <2>1, <3>2 DEF IsFile
      <4> QED
        BY <1>14, <1>19, <2>1, <4>1
    <3> QED
      BY <3>1, <3>2
  <2> QED
    BY <1>13, <2>1 DEF Unnamed
<1>20. Unnamed(ch)'
  BY <1>19 DEF Unnamed
<1>21. ASSUME NEW x \in Names, IsOpen(x)
       PROVE  ch[x] = ch[x] /\ vol'.dir[file[x].slot] = vol.dir[file[x].slot]
  <2>1. FileFits(ch, x) /\ file[x].slot \in Slots
    BY <1>13, <1>21, Parts DEF FilesFit, IsFil
  <2>2. vol.dir[file[x].slot].name = x
    BY <2>1 DEF FileFits, SlotFits
  <2> QED
    BY <1>6, <1>8, <1>21, <2>1, <2>2
<1>22. FilesFit(ch)' /\ LooseFit'
  BY <1>1, <1>2, <1>6, <1>10, <1>16, <1>21, OpenFilesStay
<1>23. ChainsFit(ch)'
  BY <1>2, <1>8, <1>13, <1>15, <1>18, <1>20, <1>22 DEF ChainsFit
<1>24. DiskFine'
  BY <1>9 DEF DiskFine, Steady, Doing
<1>25. Counts'
  <2>1. FreeNow' = FreeNow
    BY <1>8 DEF FreeNow
  <2>2. Counts
    BY DEF FatInv
  <2> QED
    BY <1>2, <1>3, <1>9, <2>1, <2>2 DEF Counts
<1>26. InPhase'
  <2>1. PICK m : m = call.m
    OBVIOUS
  <2>2. ~IsOpen(n)' /\ ~IsOpen(m)' /\ call'.m = m
    BY <1>2, <1>6, <1>9, <2>1 DEF IsOpen
  <2> QED
    BY <1>9, <2>2 DEF InPhase, Phase
<1>27. Typed'
  BY <1>2, <1>3, <1>8, <1>9, <1>10, TypedNext DEF FsTyped
<1>28. Agrees'
  BY <1>8 DEF WindowFits
<1> QED
  BY <1>12, <1>22, <1>23, <1>24, <1>25, <1>26, <1>27, <1>28 DEF FatInv

-----------------------------------------------------------------------------
(* f_getfree *)

\* What is said of the chains depends on the table, the files and the call only.
LEMMA SameChains ==
  ASSUME NEW ch, ChainsFit(ch), UNCHANGED <<vol, call, file, loose, failures>>
  PROVE  ChainsFit(ch)'
PROOF
<1>1. Chained(vol'.fat, ch) /\ (failures' = 0 => Complete(vol'.fat, ch)) /\ Floating(ch)'
  BY DEF ChainsFit, Floating
<1>2. EntriesFit(ch)' /\ Unnamed(ch)'
  BY DEF ChainsFit, EntriesFit, EntryFits, Unnamed, Excused, Doing, IsFile, IsOpen, Loose, With
<1>3. ASSUME NEW n \in Names, IsOpen(n)' PROVE FileFits(ch, n)'
  <2>1. FileFits(ch, n)
    BY <1>3 DEF ChainsFit, FilesFit, IsOpen
  <2>2. PointerFits(ch, n)'
    BY <2>1 DEF FileFits, PointerFits, Ahead, Seeking, With, Doing
  <2>3. ChainFits(ch, n)'
    BY <2>1 DEF FileFits, ChainFits, Cutting, With, Doing
  <2>4. SlotFits(n)'
    BY <2>1 DEF FileFits, SlotFits, Cutting, With, Doing
  <2> QED
    BY <2>2, <2>3, <2>4 DEF FileFits
<1> QED
  BY <1>1, <1>2, <1>3 DEF ChainsFit, FilesFit

\* f_getfree counts the free clusters.
LEMMA GetFreeKeeps ==
  ASSUME FatInv, ~InCall, GetFree
  PROVE  FatInv'
PROOF
<1>1. /\ WindowFits /\ FsTyped /\ FilesTyped /\ VolTyped(vol) /\ DirOK(vol.dir)
      /\ loose \subseteq Names /\ failures \in Nat /\ call = Idle /\ call.op = "none" /\ call.pc = "idle"
  BY Parts, AtRest
<1>2. UNCHANGED <<file, call, loose, failures>>
  BY DEF GetFree
<1>3. /\ WindowFits' /\ (disk' = disk \/ AsSeen(disk')) /\ vol' = vol
      /\ FsTyped' /\ (fs'.free = fs.free \/ fs'.free = Cardinality(FreeNow))
  <2>1. CASE fs.free <= NFree
    <3>1. SeesNothing /\ UNCHANGED fs
      BY <2>1 DEF GetFree
    <3> QED
      BY <1>1, <3>1, SeesNothingKeeps DEF FsTyped
  <2>2. CASE ~(fs.free <= NFree)
    <3>1. LastCluster \in Clusters
      BY Sizes DEF Clusters
    <3>2. Sees({FatSector(c) : c \in Clusters}, FatSector(LastCluster))
      BY <2>2 DEF GetFree
    <3>3. WindowFits' /\ (disk' = disk \/ AsSeen(disk')) /\ vol' = vol
      BY <1>1, <3>1, <3>2, SeesKeeps
    <3>4. fs' = [fs EXCEPT !.free = Cardinality(FreeNow), !.fsi = TRUE]
      BY <2>2 DEF GetFree
    <3>5. FsTyped' /\ fs'.free = Cardinality(FreeNow)
      BY <1>1, <3>4, FreeNowIs, Sizes DEF FsTyped
    <3> QED
      BY <3>3, <3>5
  <2> QED
    BY <2>1, <2>2
<1>4. \E ch : ChainsFit(ch)'
  BY <1>2, <1>3, SameChains DEF FatInv
<1>5. FilesTyped'
  BY <1>1, <1>2 DEF FilesTyped
<1>6. Typed'
  BY <1>1, <1>2, <1>3, <1>5, TypedNext
<1>7. DirOK(vol.dir)' /\ Agrees'
  BY <1>1, <1>3 DEF WindowFits
<1>8. LooseFit'
  BY <1>2 DEF FatInv, LooseFit, IsOpen, Cutting, With, Doing
<1>9. DiskFine'
  <2>1. ~Removing
    BY <1>1 DEF Removing, Doing
  <2>2. Steady' => Steady
    BY <1>2 DEF Steady, With, Doing
  <2> QED
    BY <1>3, <2>1, <2>2, DiskFineStays
<1>10. Counts'
  <2>1. FreeNow' = FreeNow
    BY <1>3 DEF FreeNow
  <2>2. Counts
    BY DEF FatInv
  <2>3. Cardinality(FreeNow) \in Nat
    BY FreeNowIs
  <2> QED
    BY <1>1, <1>2, <1>3, <2>1, <2>2, <2>3 DEF Counts, InCall
<1>11. InPhase'
  BY <1>1, <1>2 DEF InPhase, Phase
<1> QED
  BY <1>4, <1>6, <1>7, <1>8, <1>9, <1>10, <1>11 DEF FatInv

-----------------------------------------------------------------------------
(* f_mount: what a disk holds *)

\* The chains of the files of a disk.
LEMMA MountedChains ==
  ASSUME NEW t, NEW d, NEW h, FineWith(t, d, h), DirOK(d), DirTyped(d)
  PROVE  \E ch : /\ Chained(t, ch) /\ ch[Nobody] = <<>>
                 /\ \A i \in Slots : d[i].kind = "file" => ch[d[i].name] = h[i]
                 /\ \A n \in Names : (\A i \in Slots : d[i].kind = "file" => d[i].name # n) => ch[n] = <<>>
PROOF
<1> DEFINE Of(o) == {i \in Slots : d[i].kind = "file" /\ d[i].name = o}
<1>1. PICK ch : ch = [o \in Owners |-> IF Of(o) = {} THEN <<>> ELSE h[CHOOSE i \in Of(o) : TRUE]]
  OBVIOUS
<1>2. ASSUME NEW o \in Owners PROVE \/ Of(o) = {} /\ ch[o] = <<>>
                                    \/ \E i \in Of(o) : ch[o] = h[i]
  BY <1>1
<1>3. \A o : \A i, j \in Of(o) : i = j
  BY DEF DirOK, Names1
<1>4. \A i \in Slots : d[i].kind = "file" => d[i].name \in Names /\ d[i].name \in Owners /\ i \in Of(d[i].name)
  BY DEF DirTyped, EntryOk, Owners
<1>5. /\ h \in [Slots -> Seq(Clusters)]
      /\ \A i \in Slots : d[i].kind = "file" => Linked(t, h[i])
      /\ \A i, j \in Slots : d[i].kind = "file" /\ d[j].kind = "file" =>
           \A k \in 1..Len(h[i]), l \in 1..Len(h[j]) : h[i][k] = h[j][l] => i = j /\ k = l
  BY DEF FineWith
<1>6. ASSUME NEW i \in Slots, d[i].kind = "file" PROVE ch[d[i].name] = h[i]
  BY <1>2, <1>3, <1>4, <1>6
<1>7. ASSUME NEW n \in Names, \A i \in Slots : d[i].kind = "file" => d[i].name # n PROVE ch[n] = <<>>
  BY <1>2, <1>7 DEF Owners
<1>8. ch[Nobody] = <<>>
  BY <1>2, <1>4, NobodyIs DEF Owners
<1>9. ch \in Chainings
  <2>1. ASSUME NEW o \in Owners PROVE ch[o] \in Seq(Clusters)
    <3>1. <<>> \in Seq(Clusters)
      OBVIOUS
    <3>2. CASE ch[o] = <<>>
      BY <3>1, <3>2
    <3>3. CASE \E i \in Slots : ch[o] = h[i]
      BY <1>5, <3>3
    <3> QED
      BY <1>2, <3>2, <3>3
  <2> QED
    BY <1>1, <2>1 DEF Chainings
<1>10. \A o \in Owners : Linked(t, ch[o])
  <2>1. Linked(t, <<>>)
    BY DEF Linked
  <2> QED
    BY <1>2, <1>5, <2>1
<1>11. Distinct(ch)
  <2>1. ASSUME NEW o \in Owners, NEW p \in Owners, NEW k \in 1..Len(ch[o]), NEW l \in 1..Len(ch[p]),
               ch[o][k] = ch[p][l]
        PROVE  o = p /\ k = l
    <3>1. PICK i \in Of(o) : ch[o] = h[i]
      BY <1>2, <2>1
    <3>2. PICK j \in Of(p) : ch[p] = h[j]
      BY <1>2, <2>1
    <3>3. i = j /\ k = l
      <4>1. i \in Slots /\ j \in Slots /\ d[i].kind = "file" /\ d[j].kind = "file"
        OBVIOUS
      <4>2. k \in 1..Len(h[i]) /\ l \in 1..Len(h[j]) /\ h[i][k] = h[j][l]
        BY <2>1, <3>1, <3>2
      <4>3. \A q \in 1..Len(h[i]), r \in 1..Len(h[j]) : h[i][q] = h[j][r] => i = j /\ q = r
        <5> HIDE DEF Of
        <5> QED
          BY <1>5, <4>1
      <4> QED
        BY <4>2, <4>3, Zenon
    <3> QED
      BY <3>1, <3>2, <3>3
  <2> QED
    BY <2>1 DEF Distinct
<1> QED
  BY <1>6, <1>7, <1>8, <1>9, <1>10, <1>11 DEF Chained

\* When nothing is exposed the disk is fine.
LEMMA SettledThen ==
  ASSUME FatInv, ~Exposed
  PROVE  Fine(disk.fat, disk.dir)
PROOF
<1>1. Steady
  BY DEF Exposed, Steady, InCall, Doing
<1> QED
  BY <1>1 DEF FatInv, DiskFine

\* What is true when nothing is open and nothing is being done.
LEMMA QuietVolume ==
  ASSUME call = Idle, file = NoFiles, NEW ch, Chained(vol.fat, ch), ch[Nobody] = <<>>,
         failures = 0 => Complete(vol.fat, ch), loose = {}, DirTyped(vol.dir),
         \A i \in Slots : IsFile(i) =>
           vol.dir[i].clust = Head0(ch[vol.dir[i].name]) /\ vol.dir[i].size <= Room(ch[vol.dir[i].name]),
         \A n \in Names : (\A i \in Slots : IsFile(i) => vol.dir[i].name # n) => ch[n] = <<>>
  PROVE  ChainsFit(ch) /\ LooseFit /\ InPhase /\ FilesTyped
PROOF
<1>1. call.op = "none" /\ call.pc = "idle"
  BY DEF Idle
<1>2. FilesTyped /\ \A n \in Names : ~IsOpen(n)
  BY DEF FilesTyped, NoFiles, NoFile, IsOpen
<1>3. \A i \in Slots : ~Excused(i)
  BY <1>1 DEF Excused, Doing
<1>4. EntriesFit(ch)
  <2>1. \A i \in Slots : IsFile(i) => vol.dir[i].name \in Names
    BY DEF DirTyped, EntryOk, IsFile
  <2> QED
    BY <1>2, <2>1 DEF EntriesFit, EntryFits
<1>5. Unnamed(ch)
  BY <1>3 DEF Unnamed
<1>6. Floating(ch) /\ FilesFit(ch)
  BY <1>1, <1>2 DEF Floating, FilesFit
<1>7. InPhase
  BY <1>1 DEF InPhase, Phase
<1> QED
  BY <1>2, <1>4, <1>5, <1>6, <1>7 DEF ChainsFit, LooseFit

\* The power fails and nothing is torn: what is mounted next is what was on the disk.
LEMMA PowerFailsKeeps ==
  ASSUME FatInv, PowerFails, ~torn'
  PROVE  FatInv'
PROOF
<1>1. /\ vol' = Seen(disk) /\ win' = Unmoved /\ fs' = Mounted(disk) /\ file' = NoFiles /\ call' = Idle
      /\ loose' = {} /\ failures' = failures + 1 /\ disk' = disk /\ ~Exposed
  BY DEF PowerFails
<1>2. DiskTyped(disk) /\ failures \in Nat
  BY Parts DEF WindowFits
<1>3. Fine(disk.fat, disk.dir)
  BY <1>1, SettledThen
<1>4. DirOK(disk.dir) /\ DirTyped(disk.dir) /\ disk.fat \in Tables
  BY <1>2, <1>3 DEF Fine, DiskTyped
<1>5. PICK h : FineWith(disk.fat, disk.dir, h)
  BY <1>3 DEF Fine
<1>6. PICK ch : /\ Chained(disk.fat, ch) /\ ch[Nobody] = <<>>
                /\ \A i \in Slots : disk.dir[i].kind = "file" => ch[disk.dir[i].name] = h[i]
                /\ \A n \in Names : (\A i \in Slots : disk.dir[i].kind = "file" => disk.dir[i].name # n)
                                      => ch[n] = <<>>
  BY <1>4, <1>5, MountedChains
<1>7. vol'.fat = disk.fat /\ vol'.dir = disk.dir /\ VolTyped(vol')
  BY <1>1, <1>4 DEF Seen, VolTyped
<1>8. failures' # 0 /\ failures' \in Nat
  BY <1>1, <1>2
<1>9. WindowFits'
  <2>1. DOMAIN win' = {"sect", "dirty"} /\ win'.dirty \in BOOLEAN
    BY <1>1 DEF Unmoved
  <2>2. Agrees'
    BY <1>1, <1>7 DEF Agrees
  <2> QED
    BY <1>1, <1>2, <1>7, <2>1, <2>2 DEF WindowFits, DiskTyped, DirTyped
<1>10. FsTyped'
  <2>1. disk.info.free \in 0..Unknown
    BY <1>2 DEF DiskTyped
  <2> QED
    BY <1>1, <2>1 DEF FsTyped, Mounted
<1>11. /\ call'.op = "none" /\ call'.pc = "idle"
  BY <1>1 DEF Idle
<1>12. FilesTyped' /\ \A n \in Names : ~IsOpen(n)'
  BY <1>1 DEF FilesTyped, NoFiles, NoFile, IsOpen
<1>13. EntriesFit(ch)'
  <2>1. ASSUME NEW i \in Slots, IsFile(i)' PROVE EntryFits(ch, i)'
    <3>1. PICK e : e = disk.dir[i]
      OBVIOUS
    <3>2. e.kind = "file" /\ vol'.dir[i] = e
      BY <1>7, <2>1, <3>1 DEF IsFile
    <3>3. PICK s : s = h[i]
      OBVIOUS
    <3>4. e.clust = Head0(s) /\ e.size <= Room(s) /\ s = ch[e.name]
      BY <1>5, <1>6, <3>1, <3>2, <3>3 DEF FineWith
    <3>5. e.name \in Names /\ e.size \in Nat /\ s \in Seq(Clusters)
      BY <1>4, <1>5, <3>1, <3>2, <3>3 DEF DirTyped, EntryOk, FineWith
    <3> QED
      BY <3>2, <3>4, <3>5, OwnEntry
  <2> QED
    BY <2>1 DEF EntriesFit
<1>14. Unnamed(ch)'
  <2>1. \A i \in Slots : ~Excused(i)'
    BY <1>11 DEF Excused, Doing
  <2> QED
    BY <1>6, <1>7, <2>1 DEF Unnamed, IsFile
<1>15. ChainsFit(ch)'
  BY <1>6, <1>7, <1>8, <1>11, <1>12, <1>13, <1>14 DEF ChainsFit, Floating, FilesFit
<1>16. Typed'
  <2>1. call' = Idle /\ loose' \subseteq Names
    BY <1>1
  <2> QED
    BY <1>8, <1>9, <1>10, <1>12, <2>1, TypedNext
<1>17. DirOK(vol.dir)' /\ Agrees'
  BY <1>4, <1>7, <1>9 DEF WindowFits
<1>18. LooseFit' /\ Counts'
  BY <1>1, <1>8 DEF LooseFit, Counts
<1>19. InPhase'
  BY <1>1, <1>11 DEF InPhase, Phase
<1>20. DiskFine'
  BY <1>1, <1>3 DEF DiskFine
<1> QED
  BY <1>15, <1>16, <1>17, <1>18, <1>19, <1>20 DEF FatInv

-----------------------------------------------------------------------------
(* The volumes there may be *)

\* Each cluster is free or in a chain, and the free count is right if it is known.
Filled(t, h) == \A c \in Clusters : t[c] = 0 \/ \E i \in Slots : \E k \in 1..Len(h[i]) : h[i][k] = c
CountFits(v) == v.info.free \in {Unknown, Cardinality({c \in Clusters : v.fat[c] = 0})}

\* The table of a layout: its chains, and every other cluster is free.
LEMMA LayoutTable ==
  ASSUME NEW layout \in Layouts, NEW name, NEW known \in BOOLEAN, NEW v, v = Formatted(name, layout, known)
  PROVE  v.fat \in Tables /\ (\A i \in Slots : Linked(v.fat, layout[i])) /\ Filled(v.fat, layout) /\ CountFits(v)
PROOF
<1> DEFINE places == UNION {{i} \X DOMAIN layout[i] : i \in Slots}
           at(p) == layout[p[1]][p[2]]
           used == {at(p) : p \in places}
           link(p) == IF p[2] = Len(layout[p[1]]) THEN Eoc ELSE layout[p[1]][p[2] + 1]
<1>t. PICK t : t = v.fat
  OBVIOUS
<1>1. /\ layout \in [Slots -> Seq(Clusters)]
      /\ \A i, j \in Slots : \A k \in DOMAIN layout[i], l \in DOMAIN layout[j] :
           layout[i][k] = layout[j][l] => i = j /\ k = l
  BY LayoutAssumption
<1>2. \A i \in Slots : layout[i] \in Seq(Clusters) /\ DOMAIN layout[i] = 1..Len(layout[i])
  BY <1>1
<1>3. t = [c \in Clusters |-> IF c \in used THEN link(CHOOSE p \in places : at(p) = c) ELSE 0]
  BY <1>t DEF Formatted
<1>4. \A i \in Slots : \A k \in 1..Len(layout[i]) : <<i, k>> \in places
  BY <1>2
<1>5. ASSUME NEW p \in places
      PROVE  p[1] \in Slots /\ p[2] \in 1..Len(layout[p[1]]) /\ p = <<p[1], p[2]>>
  BY <1>2
<1>6. ASSUME NEW p \in places, NEW q \in places, at(p) = at(q) PROVE p = q
  <2>1. /\ p[1] \in Slots /\ p[2] \in DOMAIN layout[p[1]] /\ p = <<p[1], p[2]>>
        /\ q[1] \in Slots /\ q[2] \in DOMAIN layout[q[1]] /\ q = <<q[1], q[2]>>
    BY <1>2, <1>5
  <2>2. p[1] = q[1] /\ p[2] = q[2]
    BY <1>1, <1>6, <2>1
  <2> QED
    BY <2>1, <2>2
<1> HIDE DEF places
<1>u. \A c : c \in used <=> \E p \in places : at(p) = c
  OBVIOUS
<1>h. \A p \in places : link(p) = After(layout[p[1]], p[2])
  BY DEF After
<1> HIDE DEF used, link
<1>7. ASSUME NEW p \in places PROVE at(p) \in Clusters /\ t[at(p)] = link(p)
  <2>1. PICK c : c = at(p)
    OBVIOUS
  <2>2. c \in Clusters
    BY <1>2, <1>5, <1>7, <2>1, LinkOf
  <2>3. PICK q : q = CHOOSE x \in places : at(x) = c
    OBVIOUS
  <2>4. q = p
    <3>1. q \in places /\ at(q) = c
      BY <1>7, <2>1, <2>3
    <3> QED
      BY <1>6, <1>7, <2>1, <3>1
  <2>5. c \in used
    BY <1>u, <1>7, <2>1
  <2>6. t[c] = link(q)
    BY <1>3, <2>2, <2>3, <2>5
  <2> QED
    BY <2>1, <2>2, <2>4, <2>6
<1>8. \A i \in Slots : \A k \in 1..Len(layout[i]) : t[layout[i][k]] = After(layout[i], k)
  BY <1>4, <1>7, <1>h
<1>9. \A p \in places : link(p) \in Links /\ link(p) # 0
  BY <1>2, <1>5, <1>h, LinkOf DEF Links
<1>10. used \subseteq Clusters
  BY <1>u, <1>7
<1>11. \A c \in Clusters : (c \in used => t[c] \in Links /\ t[c] # 0) /\ (c \notin used => t[c] = 0)
  <2>1. ASSUME NEW c \in used PROVE t[c] \in Links /\ t[c] # 0
    <3>1. PICK p \in places : at(p) = c
      BY <1>u, <2>1
    <3> QED
      BY <1>7, <1>9, <3>1
  <2>2. \A c \in Clusters : c \notin used => t[c] = 0
    BY <1>3
  <2> QED
    BY <2>1, <2>2
<1>12. t \in Tables
  BY <1>3, <1>11 DEF Tables, Links
<1>13. Filled(t, layout)
  BY <1>5, <1>11, <1>u DEF Filled
<1>14. {c \in Clusters : t[c] = 0} = Clusters \ used
  BY <1>11
<1>15. Cardinality(Clusters \ used) = NFree - Cardinality(used)
  <2>1. Cardinality(Clusters \ used) = Cardinality(Clusters) - Cardinality(Clusters \cap used)
    BY ClustersAre, FS_Difference
  <2>2. Clusters \cap used = used
    BY <1>10
  <2> QED
    BY <2>1, <2>2, ClustersAre
<1>16. v.info.free \in {Unknown, NFree - Cardinality(used)}
  BY DEF Formatted, places, used
<1>17. CountFits(v)
  BY <1>t, <1>14, <1>15, <1>16 DEF CountFits
<1> QED
  BY <1>t, <1>8, <1>12, <1>13, <1>17 DEF Linked

\* The directory of a layout: a file for each chain.
LEMMA LayoutDirectory ==
  ASSUME NEW layout \in Layouts, NEW name \in [Slots -> Names], IsInjective(name), NEW known,
         NEW d, d = Formatted(name, layout, known).dir
  PROVE  /\ DirTyped(d) /\ DirOK(d) /\ layout \in [Slots -> Seq(Clusters)]
         /\ \A i \in Slots : d[i].kind = (IF layout[i] = <<>> THEN "blank" ELSE "file")
         /\ \A i \in Slots : d[i].kind = "file" =>
              d[i].clust = Head0(layout[i]) /\ d[i].size <= Room(layout[i])
PROOF
<1>1. /\ layout \in [Slots -> Seq(Clusters)]
      /\ \A i, j \in Slots : i < j /\ layout[i] = <<>> => layout[j] = <<>>
  BY LayoutAssumption
<1>2. d = [i \in Slots |-> IF layout[i] = <<>> THEN Blank
                           ELSE Entry(name[i], layout[i][1], Len(layout[i]) * BCS - 1)]
  BY DEF Formatted
<1>3. ASSUME NEW i \in Slots, layout[i] = <<>> PROVE d[i].kind = "blank"
  BY <1>2, <1>3 DEF Blank
<1>4. ASSUME NEW i \in Slots, layout[i] # <<>>
      PROVE  /\ d[i].kind = "file" /\ d[i].name = name[i] /\ name[i] \in Names
             /\ d[i].clust = Head0(layout[i]) /\ d[i].clust \in Clusters
             /\ d[i].size \in Nat /\ d[i].size <= Room(layout[i])
  <2>1. PICK s : s = layout[i]
    OBVIOUS
  <2>2. s \in Seq(Clusters) /\ s # <<>>
    BY <1>1, <1>4, <2>1
  <2>3. Head0(s) = s[1] /\ s[1] \in Clusters
    BY <2>2, HeadOf
  <2>4. Room(s) \in Nat /\ Room(s) >= BCS /\ BCS \in Nat \ {0} /\ Room(s) = Len(s) * BCS
    BY <2>2, RoomIs, Sizes DEF Room
  <2>5. Room(s) - 1 \in Nat /\ Room(s) - 1 <= Room(s)
    BY <2>4
  <2>6. d[i] = Entry(name[i], s[1], Room(s) - 1)
    BY <1>2, <1>4, <2>1, <2>4
  <2> QED
    BY <2>1, <2>3, <2>5, <2>6 DEF Entry
<1>5. DirTyped(d)
  BY <1>2, <1>3, <1>4 DEF DirTyped, EntryOk
<1>6. Names1(d)
  <2>1. \A i \in Slots : d[i].kind = "file" => d[i].name = name[i]
    BY <1>3, <1>4
  <2> QED
    BY <2>1 DEF Names1, IsInjective
<1>7. BlanksLast(d)
  BY <1>1, <1>3, <1>4 DEF BlanksLast
<1> QED
  BY <1>1, <1>3, <1>4, <1>5, <1>6, <1>7 DEF DirOK

\* The invariant holds of a formatted volume of any layout.
LEMMA InitKeeps ==
  ASSUME FatInit
  PROVE  FatInv
PROOF
<1>1. PICK name \in [Slots -> Names], h \in Layouts, known \in BOOLEAN :
        IsInjective(name) /\ disk = Formatted(name, h, known)
  BY DEF FatInit
<1>2. /\ vol = Seen(disk) /\ win = Unmoved /\ fs = Mounted(disk) /\ file = NoFiles /\ call = Idle
      /\ loose = {} /\ failures = 0
  BY DEF FatInit
<1>t. PICK t : t = disk.fat
  OBVIOUS
<1>d. PICK d : d = disk.dir
  OBVIOUS
<1>3. t \in Tables /\ (\A i \in Slots : Linked(t, h[i])) /\ Filled(t, h) /\ CountFits(disk)
  BY <1>1, <1>t, LayoutTable
<1>4. /\ DirTyped(d) /\ DirOK(d) /\ h \in [Slots -> Seq(Clusters)]
      /\ \A i \in Slots : d[i].kind = (IF h[i] = <<>> THEN "blank" ELSE "file")
      /\ \A i \in Slots : d[i].kind = "file" => d[i].clust = Head0(h[i]) /\ d[i].size <= Room(h[i])
  BY <1>1, <1>d, LayoutDirectory
<1>5. FineWith(t, d, h)
  <2>1. \A i, j \in Slots : \A k \in 1..Len(h[i]), l \in 1..Len(h[j]) : h[i][k] = h[j][l] => i = j /\ k = l
    <3>1. \A i \in Slots : DOMAIN h[i] = 1..Len(h[i])
      BY <1>4
    <3> QED
      BY <1>1, <3>1, LayoutAssumption
  <2> QED
    BY <1>3, <1>4, <2>1 DEF FineWith
<1>6. PICK ch : /\ Chained(t, ch) /\ ch[Nobody] = <<>>
                /\ \A i \in Slots : d[i].kind = "file" => ch[d[i].name] = h[i]
                /\ \A n \in Names : (\A i \in Slots : d[i].kind = "file" => d[i].name # n) => ch[n] = <<>>
  BY <1>4, <1>5, MountedChains
<1>7. vol.fat = t /\ vol.dir = d /\ VolTyped(vol)
  BY <1>2, <1>3, <1>4, <1>t, <1>d DEF Seen, VolTyped
<1>8. Complete(t, ch)
  <2>1. ASSUME NEW c \in Clusters, t[c] # 0 PROVE InSome(ch, c)
    <3>1. PICK i \in Slots : \E k \in 1..Len(h[i]) : h[i][k] = c
      BY <1>3, <2>1 DEF Filled
    <3>2. h[i] # <<>>
      BY <1>4, <3>1
    <3>3. d[i].kind = "file" /\ d[i].name \in Names
      BY <1>4, <3>2 DEF DirTyped, EntryOk
    <3>4. d[i].name \in Owners /\ ch[d[i].name] = h[i]
      BY <1>6, <3>3 DEF Owners
    <3> QED
      BY <3>1, <3>4 DEF InSome
  <2> QED
    BY <2>1 DEF Complete
<1>9. ChainsFit(ch) /\ LooseFit /\ InPhase /\ FilesTyped
  <2>1. \A i \in Slots : IsFile(i) =>
          vol.dir[i].clust = Head0(ch[vol.dir[i].name]) /\ vol.dir[i].size <= Room(ch[vol.dir[i].name])
    BY <1>4, <1>6, <1>7 DEF IsFile
  <2>2. \A n \in Names : (\A i \in Slots : IsFile(i) => vol.dir[i].name # n) => ch[n] = <<>>
    BY <1>6, <1>7 DEF IsFile
  <2>3. Chained(vol.fat, ch) /\ ch[Nobody] = <<>> /\ Complete(vol.fat, ch) /\ DirTyped(vol.dir)
    BY <1>4, <1>6, <1>7, <1>8
  <2> QED
    BY <1>2, <2>1, <2>2, <2>3, QuietVolume
<1>10. Counts /\ disk.info.free \in 0..Unknown
  <2>1. FreeNow = {c \in Clusters : t[c] = 0}
    BY <1>7 DEF FreeNow
  <2>2. Cardinality(FreeNow) \in Nat /\ Cardinality(FreeNow) <= NFree
    BY FreeNowIs
  <2>3. disk.info.free \in 0..Unknown /\ (disk.info.free # Unknown => disk.info.free = Cardinality(FreeNow))
    BY <1>3, <1>t, <2>1, <2>2, Sizes DEF CountFits
  <2>4. call.pc = "idle" /\ ~InCall
    BY <1>2 DEF Idle, InCall
  <2>5. fs.free = disk.info.free
    BY <1>2 DEF Mounted
  <2> QED
    BY <2>2, <2>3, <2>4, <2>5 DEF Counts
<1>11. Agrees
  BY <1>7, <1>t, <1>d DEF Agrees
<1>12. Typed
  <2>1. DOMAIN disk = {"fat", "dir", "info"}
    BY <1>1 DEF Formatted
  <2>2. DiskTyped(disk)
    BY <1>3, <1>4, <1>10, <1>t, <1>d, <2>1 DEF DiskTyped
  <2>3. FsTyped
    BY <1>2, <1>10 DEF FsTyped, Mounted
  <2>4. DOMAIN win = {"sect", "dirty"} /\ win.dirty \in BOOLEAN
    BY <1>2 DEF Unmoved
  <2> QED
    BY <1>2, <1>7, <1>9, <2>2, <2>3, <2>4 DEF Typed
<1>13. DiskFine
  BY <1>4, <1>5, <1>t, <1>d DEF DiskFine, Fine
<1>14. DirOK(vol.dir)
  BY <1>4, <1>7
<1> QED
  BY <1>9, <1>10, <1>11, <1>12, <1>13, <1>14 DEF FatInv

-----------------------------------------------------------------------------
(* Every step *)

\* Every beginning of a call keeps the invariant,
LEMMA CallsKeep ==
  ASSUME FatInv, Calls
  PROVE  FatInv'
PROOF
<1>1. ~InCall
  BY DEF Calls
<1>2. CASE \E n \in Names, mode \in Modes : OpenFile(n, mode)
  <2>1. PICK n \in Names, mode \in Modes : OpenFile(n, mode)
    BY <1>2
  <2>2. /\ ~IsOpen(n) /\ UNCHANGED <<fs, loose, failures>>
        /\ OpenRefused(n, mode) \/ OpenOld(n, mode) \/ OpenNew(n, mode) \/ OpenOver(n, mode)
    BY <2>1 DEF OpenFile
  <2> QED
    BY <1>1, <2>2, OpenRefusedKeeps, OpenOldKeeps, OpenNewKeeps, OpenOverKeeps
<1>3. CASE \E n \in Names, len \in Lengths : WriteFile(n, len) \/ ReadFile(n, len)
  BY <1>1, <1>3, WriteFileKeeps, ReadFileKeeps
<1>4. CASE \E n \in Names, ofs \in Offsets : SeekFile(n, ofs)
  BY <1>1, <1>4, SeekFileKeeps
<1>5. CASE \E n \in Names : TruncateFile(n) \/ SyncFile(n) \/ CloseFile(n) \/ UnlinkFile(n)
  BY <1>1, <1>5, TruncateFileKeeps, SyncFileKeeps, UnlinkFileKeeps
<1>6. CASE \E n \in Names, m \in Names : RenameFile(n, m)
  BY <1>1, <1>6, RenameFileKeeps
<1>7. CASE GetFree
  BY <1>1, <1>7, GetFreeKeeps
<1> QED
  BY <1>2, <1>3, <1>4, <1>5, <1>6, <1>7 DEF Calls

\* every step of a call does,
LEMMA StepsKeep ==
  ASSUME FatInv, Steps
  PROVE  FatInv'
PROOF
<1>1. CASE FreeCluster \/ FollowChain \/ VolumeFull \/ TakeCluster \/ LinkCluster \/ OverIsEmptied
  BY <1>1, FreeClusterKeeps, FollowChainKeeps, VolumeFullKeeps, TakeClusterKeeps, LinkClusterKeeps,
     OverIsEmptiedKeeps
<1>2. CASE FlushBuffer \/ NextToRead \/ ReadSector \/ NextToWrite \/ WriteSector
  BY <1>2, FlushBufferKeeps, NextToReadKeeps, ReadSectorKeeps, NextToWriteKeeps, WriteSectorKeeps
<1>3. CASE SeekOn \/ SeekInCluster \/ Seeked \/ Cut
  BY <1>3, SeekOnKeeps, SeekInClusterKeeps, SeekedKeeps, CutKeeps
<1>4. CASE SyncEntry \/ sync_window \/ WriteInfo \/ RemoveOld \/ Return
  BY <1>4, SyncEntryKeeps, SyncWindowKeeps, WriteInfoKeeps, RemoveOldKeeps, ReturnKeeps
<1> QED
  BY <1>1, <1>2, <1>3, <1>4 DEF Steps

\* and so does a step of something else.
LEMMA StutterKeeps ==
  ASSUME FatInv, UNCHANGED fatVars
  PROVE  FatInv'
PROOF
<1>1. UNCHANGED <<disk, vol, win, fs, file, call, loose, failures>>
  BY DEF fatVars
<1>2. \E ch : ChainsFit(ch)'
  BY <1>1, SameChains DEF FatInv
<1>3. Typed' /\ LooseFit' /\ Agrees' /\ (~Removing => DirOK(vol.dir))'
  BY <1>1 DEF FatInv, Typed, FsTyped, FilesTyped, LooseFit, IsOpen, Cutting, Removing, With, Doing, Agrees
<1>4. InPhase'
  BY <1>1 DEF FatInv, InPhase, Phase, IsOpen, Growing, IsFile, DirLeft
<1>5. Counts'
  BY <1>1 DEF FatInv, Counts, FreeNow, InCall
<1>6. DiskFine'
  BY <1>1 DEF FatInv, DiskFine, Steady, With, Doing
<1> QED
  BY <1>2, <1>3, <1>4, <1>5, <1>6 DEF FatInv

\* A failure that tears the volume is the end.
VolumeInv == IF torn THEN call = Idle /\ file = NoFiles /\ failures # 0 ELSE FatInv

\* A failure of the power, where nothing is exposed and where something is.
LEMMA PowerKeepsVolume ==
  ASSUME FatInv, ~torn, PowerFails
  PROVE  VolumeInv'
PROOF
<1>1. CASE torn'
  <2>1. call' = Idle /\ file' = NoFiles /\ failures' = failures + 1 /\ failures \in Nat
    BY Parts DEF PowerFails
  <2> QED
    BY <1>1, <2>1 DEF VolumeInv, NoFiles
<1>2. CASE ~torn'
  BY <1>2, PowerFailsKeeps DEF VolumeInv
<1> QED
  BY <1>1, <1>2

\* The invariant of the volume holds at every step of every call and after every
\* power failure, but one within f_rename, or between f_truncate and the end of the
\* next f_sync: that tears the volume and ends the behaviour.
THEOREM VolumeIsKept == FatSpec => []VolumeInv
PROOF
<1>1. FatInit => VolumeInv
  BY InitKeeps DEF FatInit, VolumeInv
<1>2. VolumeInv /\ [FatNext]_fatVars => VolumeInv'
  <2>1. ASSUME VolumeInv, FatNext PROVE VolumeInv'
    <3>1. ~torn /\ FatInv
      BY <2>1 DEF FatNext, VolumeInv
    <3>2. CASE (Calls \/ Steps) /\ UNCHANGED torn
      <4>1. FatInv' /\ ~torn'
        BY <3>1, <3>2, CallsKeep, StepsKeep
      <4> QED
        BY <4>1 DEF VolumeInv
    <3>3. CASE PowerFails
      BY <3>1, <3>3, PowerKeepsVolume
    <3> QED
      BY <2>1, <3>2, <3>3 DEF FatNext
  <2>2. ASSUME VolumeInv, UNCHANGED fatVars PROVE VolumeInv'
    <3>1. UNCHANGED <<torn, call, file, failures>>
      BY <2>2 DEF fatVars
    <3>2. CASE torn
      <4>1. torn' /\ call' = Idle /\ file' = NoFiles /\ failures' # 0
        BY <2>2, <3>1, <3>2 DEF VolumeInv
      <4> QED
        BY <4>1 DEF VolumeInv, NoFiles
    <3>3. CASE ~torn
      <4>1. ~torn' /\ FatInv'
        BY <2>2, <3>1, <3>3, StutterKeeps DEF VolumeInv
      <4> QED
        BY <4>1 DEF VolumeInv
    <3> QED
      BY <3>2, <3>3
  <2> QED
    BY <2>1, <2>2
<1> QED
  BY <1>1, <1>2, PTL DEF FatSpec

-----------------------------------------------------------------------------
(* What follows *)

\* A fine table and directory are sound.
LEMMA SoundWhenFine ==
  ASSUME NEW t, NEW d, Fine(t, d)
  PROVE  Sound(t, d)
PROOF
<1>1. Names1(d)
  BY DEF Fine, DirOK
<1>2. PICK h : FineWith(t, d, h)
  BY DEF Fine
<1>3. EntriesOf(d) = {i \in Slots : d[i].kind = "file"}
  BY DEF EntriesOf, IsFree
<1>4. ASSUME NEW i \in EntriesOf(d)
      PROVE  /\ h[i] \in Chains /\ IsChain(t, d[i].clust, h[i]) /\ d[i].size <= Len(h[i]) * BCS
             /\ Within(t, d[i].clust) = {h[i][k] : k \in 1..Len(h[i])}
  <2>1. PICK s : s = h[i]
    OBVIOUS
  <2>2. /\ s \in Seq(Clusters) /\ Linked(t, s) /\ d[i].clust = Head0(s) /\ d[i].size <= Room(s)
        /\ \A k, l \in 1..Len(s) : s[k] = s[l] => k = l
    BY <1>2, <1>3, <1>4, <2>1 DEF FineWith
  <2> QED
    BY <2>1, <2>2, ChainIs DEF Room
<1>5. ASSUME NEW i \in EntriesOf(d), NEW j \in EntriesOf(d), i < j
      PROVE  d[i].name # d[j].name /\ Within(t, d[i].clust) \cap Within(t, d[j].clust) = {}
  <2>1. i \in Slots /\ j \in Slots /\ i # j /\ d[i].kind = "file" /\ d[j].kind = "file"
    BY <1>3, <1>5 DEF Slots
  <2>2. d[i].name # d[j].name
    BY <1>1, <2>1 DEF Names1
  <2>3. \A k \in 1..Len(h[i]), l \in 1..Len(h[j]) : h[i][k] # h[j][l]
    BY <1>2, <2>1 DEF FineWith
  <2> QED
    BY <1>4, <2>2, <2>3
<1> QED
  BY <1>4, <1>5 DEF Sound

\* The clusters of a file are those of its chain.
LEMMA UsedIs ==
  ASSUME FatInv, ~InCall, NEW ch, ChainsFit(ch), NEW n \in Names
  PROVE  UsedBy(n) = {ch[n][k] : k \in 1..Len(ch[n])}
PROOF
<1>1. /\ call.op = "none" /\ DirTyped(vol.dir)
  BY AtRest, Parts
<1>2. AtEase
  BY <1>1 DEF AtEase
<1>s. PICK s : s = ch[n]
  OBVIOUS
<1>3. s \in Seq(Clusters) /\ Linked(vol.fat, s) /\ \A k, l \in 1..Len(s) : s[k] = s[l] => k = l
  BY <1>s, OfFile DEF ChainsFit, Chained, Distinct, Owners
<1>4. Within(vol.fat, Head0(s)) = {s[k] : k \in 1..Len(s)}
  BY <1>3, ChainIs
<1>T. PICK T : T = {j \in EntriesOf(vol.dir) : vol.dir[j].name = n}
  OBVIOUS
<1>i. PICK i : i = Least(T)
  OBVIOUS
<1>5. /\ T = {j \in Slots : IsFile(j) /\ vol.dir[j].name = n}
      /\ T \subseteq Nat \ {0}
  BY <1>T DEF EntriesOf, IsFree, IsFile, Slots
<1>6. (i = 0 <=> T = {}) /\ (i # 0 => i \in T)
  BY <1>i, <1>5, LeastIs
<1>7. CASE IsOpen(n)
  <2>1. file[n].sclust = Head0(s)
    BY <1>2, <1>7, <1>s, OfFile, EasyFits
  <2>2. UsedBy(n) = Within(vol.fat, file[n].sclust)
    BY <1>7 DEF UsedBy
  <2> QED
    BY <1>4, <1>s, <2>1, <2>2
<1>8. CASE ~IsOpen(n) /\ i # 0
  <2>1. i \in Slots /\ IsFile(i) /\ vol.dir[i].name = n
    BY <1>5, <1>6, <1>8
  <2>2. EntryFits(ch, i)
    BY <1>1, <2>1 DEF ChainsFit, EntriesFit, Excused, Doing
  <2>3. vol.dir[i].clust = Head0(s)
    BY <1>8, <1>s, <2>1, <2>2 DEF EntryFits
  <2>4. UsedBy(n) = Within(vol.fat, vol.dir[i].clust)
    BY <1>8, <1>T, <1>i DEF UsedBy
  <2> QED
    BY <1>4, <1>s, <2>3, <2>4
<1>9. CASE ~IsOpen(n) /\ i = 0
  <2>1. \A j \in Slots : IsFile(j) => vol.dir[j].name # n
    BY <1>5, <1>6, <1>9
  <2>2. s = <<>>
    BY <1>s, <2>1 DEF ChainsFit, Unnamed
  <2>3. UsedBy(n) = {}
    BY <1>9, <1>T, <1>i DEF UsedBy
  <2>4. {s[k] : k \in 1..Len(s)} = {}
    BY <2>2
  <2> QED
    BY <1>s, <2>3, <2>4
<1> QED
  BY <1>7, <1>8, <1>9

\* The invariant gives the account of the clusters.
LEMMA AccountedWhenKept ==
  ASSUME FatInv
  PROVE  ClustersAccounted
PROOF
<1>1. SUFFICES ASSUME failures = 0
               PROVE  /\ ~InCall => /\ Clusters \ FreeNow = UNION {UsedBy(n) : n \in Names}
                                    /\ fs.free \in {Cardinality(FreeNow), Unknown}
                      /\ InCall /\ call.short => FreeNow = {}
  BY DEF ClustersAccounted
<1>2. Counts
  BY DEF FatInv
<1>3. InCall /\ call.short => FreeNow = {}
  BY <1>1, <1>2 DEF Counts
<1>4. ASSUME ~InCall PROVE fs.free \in {Cardinality(FreeNow), Unknown}
  <2>1. call.pc = "idle" /\ Cardinality(FreeNow) \in Nat
    BY <1>4, AtRest, FreeNowIs
  <2> QED
    BY <1>1, <1>2, <2>1 DEF Counts
<1>5. ASSUME ~InCall PROVE Clusters \ FreeNow = UNION {UsedBy(n) : n \in Names}
  <2>1. PICK ch : ChainsFit(ch)
    BY DEF FatInv
  <2>2. \A n \in Names : UsedBy(n) = {ch[n][k] : k \in 1..Len(ch[n])}
    BY <1>5, <2>1, UsedIs
  <2>3. Chained(vol.fat, ch) /\ Complete(vol.fat, ch) /\ ch[Nobody] = <<>>
    BY <1>1, <1>5, <2>1, AtRest DEF ChainsFit, Floating
  <2>4. ASSUME NEW c \in Clusters, c \notin FreeNow PROVE \E n \in Names : c \in UsedBy(n)
    <3>1. vol.fat[c] # 0
      BY <2>4 DEF FreeNow
    <3>2. PICK o \in Owners : \E k \in 1..Len(ch[o]) : ch[o][k] = c
      BY <2>3, <2>4, <3>1 DEF Complete, InSome
    <3>3. o \in Names
      BY <2>3, <3>2 DEF Owners
    <3> QED
      BY <2>2, <3>2, <3>3
  <2>5. ASSUME NEW n \in Names, NEW c \in UsedBy(n) PROVE c \in Clusters \ FreeNow
    <3>1. PICK k \in 1..Len(ch[n]) : c = ch[n][k]
      BY <2>2, <2>5
    <3>2. ch[n] \in Seq(Clusters) /\ Linked(vol.fat, ch[n])
      BY <2>1, OfFile
    <3>3. c \in Clusters /\ vol.fat[c] # 0
      BY <3>1, <3>2, LinkOf DEF Linked
    <3> QED
      BY <3>3 DEF FreeNow
  <2> QED
    BY <2>4, <2>5
<1> QED
  BY <1>3, <1>4, <1>5

\* At every instant at which no file is exposed the disk is sound.
THEOREM DiskStaysSound == FatSpec => []DiskIsSound
PROOF
<1>1. VolumeInv => DiskIsSound
  <2> SUFFICES ASSUME VolumeInv, ~Exposed PROVE Sound(disk.fat, disk.dir)
    BY DEF DiskIsSound
  <2>1. FatInv
    BY DEF VolumeInv, Exposed
  <2> QED
    BY <2>1, SettledThen, SoundWhenFine
<1> QED
  BY <1>1, VolumeIsKept, PTL

\* Until the power fails no cluster is lost or counted twice.
THEOREM ClustersAreAccounted == FatSpec => []ClustersAccounted
PROOF
<1>1. VolumeInv => ClustersAccounted
  <2>1. CASE torn
    BY <2>1 DEF VolumeInv, ClustersAccounted
  <2>2. CASE ~torn
    BY <2>2, AccountedWhenKept DEF VolumeInv
  <2> QED
    BY <2>1, <2>2
<1> QED
  BY <1>1, VolumeIsKept, PTL

\* No call ends with FR_INT_ERR until a power failure within f_rename, or between
\* f_truncate and the end of the next f_sync, tears the volume.
THEOREM AssertionsHold == FatSpec => []NoAssertionFails
PROOF
<1>1. VolumeInv => NoAssertionFails
  <2>1. CASE torn
    BY <2>1 DEF VolumeInv, NoAssertionFails, InCall, Idle
  <2>2. CASE ~torn
    BY <2>2, Parts DEF VolumeInv, NoAssertionFails, IsCall
  <2> QED
    BY <2>1, <2>2
<1> QED
  BY <1>1, VolumeIsKept, PTL

-----------------------------------------------------------------------------
(* What the files hold: the inductive invariant *)

\* The entry of a file, and its chain in the table as the window shows it.
Its(n, i) == IsFile(i) /\ vol.dir[i].name = n /\ ~Excused(i)
FirstOf(n) ==
  IF IsOpen(n) THEN IF Cutting(n) /\ file[n].fptr = 0 THEN 0 ELSE file[n].sclust
  ELSE IF \E i \in Slots : Its(n, i) THEN vol.dir[CHOOSE i \in Slots : Its(n, i)].clust ELSE 0
ChainOf(n) == Chain(vol.fat, FirstOf(n))

\* The sector that the p-th unit of a file is in, and its place there.
Loc(s, p) == Sect(s[ToCluster(p)], ((p - 1) % BCS) \div SS)
Off(p) == ((p - 1) % SS) + 1

UnitsOf(n) == content[n].units
PledgedOf(n) == promise[n].units
Writing(n) == With(n, {"write"}, {"next", "sector", "grow", "link"})

\* Types.
Places0 == Clusters \X (0..(CSize - 1))
OneSector == [1..SS -> Int]
DataTyped ==
  /\ data \in [Places0 -> OneSector] /\ calls \in Nat
  /\ \A n \in Names : IsOpen(n) => file[n].buf \in OneSector /\ file[n].dirty \in BOOLEAN
  /\ content \in [Names -> {Absent} \cup {Held(s) : s \in Seq(Int)}]
  /\ promise \in [Names -> {Absent, Open} \cup {Held(s) : s \in Seq(Int)}]
  /\ InCall /\ call.op # "rename" => call.m = call.n

\* A file is there if it has an entry, and is as long as the FIL or the entry says.
Kinds(n) == content[n].kind = (IF \E i \in Slots : Its(n, i) THEN "held" ELSE "absent")
Lens(n) ==
  /\ IsOpen(n) => Len(UnitsOf(n)) = IF Cutting(n) THEN file[n].fptr ELSE file[n].size
  /\ ~IsOpen(n) => \A i \in Slots : Its(n, i) => vol.dir[i].size = Len(UnitsOf(n))

\* Each unit is in the buffer, if that holds its sector, and on the disk unless the
\* buffer holds a newer one.
Fits(n) == \A p \in 1..Len(UnitsOf(n)) :
  /\ IsOpen(n) /\ file[n].sect = Loc(ChainOf(n), p) =>
       UnitsOf(n)[p] \in {Unset, file[n].buf[Off(p)]}
  /\ ~(IsOpen(n) /\ file[n].dirty /\ file[n].sect = Loc(ChainOf(n), p)) =>
       UnitsOf(n)[p] \in {Unset, data[Loc(ChainOf(n), p)][Off(p)]}

\* What is yet to be written goes to a cluster of the file, or to one that f_truncate frees.
Own(n) == IsOpen(n) /\ file[n].dirty =>
  /\ file[n].sect \in Places0
  /\ IF Cutting(n)
     THEN \A m \in Names \ {n} : \A k \in 1..Len(ChainOf(m)) : ChainOf(m)[k] # file[n].sect[1]
     ELSE \E k \in 1..Len(ChainOf(n)) : ChainOf(n)[k] = file[n].sect[1]

\* A file that is not marked as changed is as long as its entry says, and has nothing to
\* be written.
Marked(n) == IsOpen(n) =>
  /\ ~file[n].mod /\ ~Writing(n) /\ ~Cutting(n) => vol.dir[file[n].slot].size = file[n].size
  /\ file[n].dirty => file[n].mod \/ Writing(n)
  /\ With(n, {"sync", "close"}, {"entry", "window", "info"}) => ~file[n].dirty
  /\ With(n, {"sync", "close"}, {"done"}) => ~file[n].mod

\* The buffer has the sector that the pointer is within.
Inside(n) ==
  IsOpen(n) /\ ~Seeking(n) /\ file[n].fptr % SS # 0 => file[n].sect = Loc(ChainOf(n), file[n].fptr)

\* What is promised is what the file begins with, on the disk and within the entry.
Pledge(n) == promise[n].kind # "open" =>
  /\ promise[n].kind = content[n].kind /\ Len(PledgedOf(n)) <= Len(UnitsOf(n))
  /\ n \notin loose /\ ~(Removing /\ call.n = n)
  /\ \A p \in 1..Len(PledgedOf(n)) :
       /\ PledgedOf(n)[p] = UnitsOf(n)[p]
       /\ PledgedOf(n)[p] \in {Unset, data[Loc(ChainOf(n), p)][Off(p)]}
  /\ \A i \in Slots : Its(n, i) => vol.dir[i].size >= Len(PledgedOf(n))

\* A disk has what is promised, by a chain that begins as the file's does.
KeptOn(d, n, pr, s) ==
  /\ pr.kind = "absent" => \A i \in Slots : ~(d.dir[i].kind = "file" /\ d.dir[i].name = n)
  /\ pr.kind = "held" => \E i \in Slots : \E r \in Seq(Clusters) :
       /\ d.dir[i].kind = "file" /\ d.dir[i].name = n /\ d.dir[i].size >= Len(pr.units)
       /\ d.dir[i].clust = Head0(r) /\ Linked(d.fat, r)
       /\ \A p \in 1..Len(pr.units) :
            ToCluster(p) \in 1..Len(r) /\ r[ToCluster(p)] = s[ToCluster(p)]

\* The disk as it is does.
DiskKeeps(n) == KeptOn(disk, n, promise[n], ChainOf(n))

\* Outside the calls that change it all of a file that is not marked as changed is promised.
Apart(n) ==
  /\ ~Writing(n) /\ ~Cutting(n) /\ ~With(n, {"open"}, {"free", "emptied"})
  /\ call.op \in {"sync", "close", "unlink", "rename"} => n \notin {call.n, call.m}
Current(n) == (IsOpen(n) => ~file[n].mod) /\ Apart(n) => promise[n] = content[n]

DataFits(n) ==
  /\ Kinds(n) /\ Lens(n) /\ Fits(n) /\ Own(n) /\ Marked(n) /\ Inside(n) /\ Pledge(n) /\ DiskKeeps(n)
  /\ Current(n)

\* f_sync and the others return when the disk has all or had it before.
AtReturn == Doing({"sync", "close", "unlink", "rename"}, {"done"}) =>
  ~win.dirty \/ \A n \in {call.n, call.m} : promise[n] = content[n]

\* What a read has got so far is what the file holds where it began.
ReadsRight == InCall /\ call.op = "read" =>
  \A u \in DOMAIN call.got : content[call.n].units[call.at + u] \in {Unset, call.got[u]}

DataInv == DataTyped /\ AtReturn /\ ReadsRight /\ \A n \in Names : DataFits(n)

-----------------------------------------------------------------------------
(* The sectors of a file *)

\* Which sector of the file its p-th unit is in.
SectNo(p) == (p - 1) \div SS

\* The cluster a unit is in and the sector of that cluster, from the number of its sector.
LEMMA SectNoIs ==
  ASSUME NEW p \in Nat \ {0}
  PROVE  /\ SectNo(p) \in Nat /\ Off(p) \in 1..SS /\ p = SS * SectNo(p) + Off(p)
         /\ ToCluster(p) \in Nat \ {0} /\ ((p - 1) % BCS) \div SS \in 0..(CSize - 1)
         /\ SectNo(p) = CSize * (ToCluster(p) - 1) + (((p - 1) % BCS) \div SS)
PROOF
<1> DEFINE q == (p - 1) \div BCS
           r == (p - 1) % BCS
           j == r \div SS
           t == r % SS
<1>0. p - 1 \in Nat
  OBVIOUS
<1>1. BCS \in Nat \ {0} /\ q \in Nat /\ r \in 0..(BCS - 1) /\ p - 1 = BCS * q + r
  BY <1>0, Split
<1>2. SS \in Nat \ {0} /\ CSize \in Nat \ {0} /\ BCS = CSize * SS /\ BCS = SS * CSize
  BY Sizes
<1>3. j \in Nat /\ t \in 0..(SS - 1) /\ r = SS * j + t
  <2>1. ASSUME NEW a \in Nat, NEW b \in Nat \ {0}
        PROVE  a \div b \in Nat /\ a % b \in 0..(b - 1) /\ a = b * (a \div b) + (a % b)
    OBVIOUS
  <2>2. r \in Nat /\ SS \in Nat \ {0}
    BY <1>1, <1>2
  <2> HIDE DEF q, r
  <2> QED
    BY <2>1, <2>2
<1>4. j \in 0..(CSize - 1)
  BY <1>0, InSector
<1> HIDE DEF q, r, j, t
<1>5. CSize * q + j \in Nat
  BY <1>1, <1>2, <1>3
<1>6. SS * (CSize * q + j) = BCS * q + SS * j
  <2>1. SS * (CSize * q + j) = SS * (CSize * q) + SS * j
    BY <1>1, <1>2, <1>3
  <2>2. SS * (CSize * q) = (SS * CSize) * q
    BY <1>1, <1>2
  <2> QED
    BY <1>2, <2>1, <2>2
<1>7. p - 1 = SS * (CSize * q + j) + t
  BY <1>1, <1>2, <1>3, <1>6
<1>x. PICK x \in Nat : x = CSize * q + j
  BY <1>5
<1>y. p - 1 = SS * x + t
  BY <1>7, <1>x
<1>8. (p - 1) \div SS = x /\ (p - 1) % SS = t
  <2>1. (SS * x + t) \div SS = x /\ (SS * x + t) % SS = t
    BY <1>2, <1>3, Quotient
  <2> QED
    BY <2>1, <1>y
<1>9. SectNo(p) = CSize * q + j /\ Off(p) = t + 1 /\ ToCluster(p) = q + 1
  BY <1>8, <1>x DEF SectNo, Off, ToCluster, q
<1>10. Off(p) \in 1..SS
  BY <1>2, <1>3, <1>9
<1>11. p = SS * SectNo(p) + Off(p)
  <2>1. SS * x \in Int
    BY <1>2
  <2>2. p = SS * x + (t + 1)
    BY <1>3, <1>y, <2>1
  <2> QED
    BY <1>9, <1>x, <2>2
<1>12. ToCluster(p) \in Nat \ {0} /\ ToCluster(p) - 1 = q
  BY <1>1, <1>9
<1>13. ((p - 1) % BCS) \div SS = j
  BY DEF j, r
<1> QED
  BY <1>4, <1>5, <1>9, <1>10, <1>11, <1>12, <1>13

\* Two units are in the same sector of a chain if their sectors have the same number.
LEMMA SameSector ==
  ASSUME NEW p \in Nat \ {0}, NEW q \in Nat \ {0}
  PROVE  SectNo(p) = SectNo(q) <=>
           ToCluster(p) = ToCluster(q) /\ ((p - 1) % BCS) \div SS = ((q - 1) % BCS) \div SS
PROOF
<1> DEFINE a == ToCluster(p) - 1
           b == ToCluster(q) - 1
           j == ((p - 1) % BCS) \div SS
           k == ((q - 1) % BCS) \div SS
<1>1. SectNo(p) = CSize * a + j /\ ToCluster(p) \in Nat \ {0} /\ j \in 0..(CSize - 1)
  BY SectNoIs
<1>2. SectNo(q) = CSize * b + k /\ ToCluster(q) \in Nat \ {0} /\ k \in 0..(CSize - 1)
  BY SectNoIs
<1>3. CSize \in Nat \ {0} /\ a \in Nat /\ b \in Nat
  BY Sizes, <1>1, <1>2
<1> HIDE DEF a, b, j, k
<1>4. (CSize * a + j) \div CSize = a /\ (CSize * a + j) % CSize = j
  <2>1. CSize \in Nat \ {0} /\ a \in Int /\ j \in 0..(CSize - 1)
    BY <1>1, <1>3
  <2> QED
    BY <2>1, Quotient
<1>5. (CSize * b + k) \div CSize = b /\ (CSize * b + k) % CSize = k
  <2>1. CSize \in Nat \ {0} /\ b \in Int /\ k \in 0..(CSize - 1)
    BY <1>2, <1>3
  <2> QED
    BY <2>1, Quotient
<1>6. SectNo(p) = SectNo(q) <=> a = b /\ j = k
  BY <1>1, <1>2, <1>4, <1>5
<1>7. a = b <=> ToCluster(p) = ToCluster(q)
  BY <1>1, <1>2 DEF a, b
<1> QED
  BY <1>6, <1>7 DEF j, k

\* The units a transfer at a pointer moves: those after it in its sector.
LEMMA Following ==
  ASSUME NEW p \in Nat
  PROVE  /\ p % SS \in 0..(SS - 1) /\ p \div SS \in Nat
         /\ \A k \in 1..(SS - (p % SS)) : SectNo(p + k) = p \div SS /\ Off(p + k) = (p % SS) + k
         /\ \A q \in Nat \ {0} : SectNo(q) = p \div SS =>
              q - p = Off(q) - (p % SS) /\ (q > p => q - p \in 1..(SS - (p % SS)))
         /\ p % SS # 0 => p > 0 /\ SectNo(p) = p \div SS
         /\ p % SS = 0 => \A q \in Nat \ {0} : SectNo(q) = p \div SS => q > p
PROOF
<1> DEFINE d == p \div SS
           t == p % SS
<1>1. SS \in Nat \ {0}
  BY Sizes
<1>2. d \in Nat /\ t \in 0..(SS - 1) /\ p = SS * d + t
  <2>1. ASSUME NEW a \in Nat, NEW b \in Nat \ {0}
        PROVE  a \div b \in Nat /\ a % b \in 0..(b - 1) /\ a = b * (a \div b) + (a % b)
    OBVIOUS
  <2> QED
    BY <1>1, <2>1
<1> HIDE DEF d, t
<1>3. ASSUME NEW u \in 1..SS, NEW q \in Nat \ {0}, q = SS * d + u PROVE SectNo(q) = d /\ Off(q) = u
  <2>1. SS * d \in Int
    BY <1>1, <1>2
  <2>2. q - 1 = SS * d + (u - 1) /\ u - 1 \in 0..(SS - 1)
    BY <1>3, <2>1, <1>1
  <2>3. (q - 1) \div SS = d /\ (q - 1) % SS = u - 1
    BY <1>1, <1>2, <2>2, Quotient
  <2> QED
    BY <2>3, <1>1 DEF SectNo, Off
<1>4. SS * d \in Nat
  BY <1>1, <1>2
<1>5. ASSUME NEW k \in 1..(SS - t) PROVE SectNo(p + k) = d /\ Off(p + k) = t + k
  <2>1. t + k \in 1..SS /\ p + k \in Nat \ {0} /\ p + k = SS * d + (t + k)
    BY <1>1, <1>2, <1>4
  <2> QED
    BY <2>1, <1>3
<1>6. ASSUME NEW q \in Nat \ {0}, SectNo(q) = d
      PROVE  q - p = Off(q) - t /\ Off(q) \in 1..SS
  <2>1. q = SS * d + Off(q) /\ Off(q) \in 1..SS
    BY <1>6, SectNoIs
  <2> QED
    BY <1>2, <1>4, <2>1, <1>1
<1>7. ASSUME NEW q \in Nat \ {0}, SectNo(q) = d, q > p PROVE q - p \in 1..(SS - t)
  BY <1>6, <1>7, <1>1, <1>2
<1>8. ASSUME t # 0 PROVE p > 0 /\ SectNo(p) = d
  <2>1. t \in 1..SS /\ p \in Nat \ {0}
    BY <1>8, <1>1, <1>2, <1>4
  <2> QED
    BY <2>1, <1>2, <1>3
<1>9. ASSUME t = 0, NEW q \in Nat \ {0}, SectNo(q) = d PROVE q > p
  BY <1>6, <1>9, <1>1, <1>2
<1> QED
  BY <1>1, <1>2, <1>5, <1>6, <1>7, <1>8, <1>9 DEF d, t

\* The sectors of a chain without repetitions are told apart by their numbers.
LEMMA LocIs ==
  ASSUME NEW s \in Seq(Clusters), NEW p \in Nat \ {0}, ToCluster(p) \in 1..Len(s)
  PROVE  /\ Loc(s, p) \in Places0 /\ Loc(s, p)[1] = s[ToCluster(p)] /\ Off(p) \in 1..SS
         /\ s[ToCluster(p)] \in Clusters
PROOF
<1>1. s[ToCluster(p)] \in Clusters
  OBVIOUS
<1>2. ((p - 1) % BCS) \div SS \in 0..(CSize - 1) /\ Off(p) \in 1..SS
  BY SectNoIs
<1> QED
  BY <1>1, <1>2 DEF Loc, Sect, Places0

\* Units of one sector lie in one place,
LEMMA LocOf ==
  ASSUME NEW s, NEW p \in Nat \ {0}, NEW q \in Nat \ {0}, SectNo(p) = SectNo(q)
  PROVE  Loc(s, p) = Loc(s, q)
BY SameSector DEF Loc

\* and those of different sectors in different ones.
LEMMA LocsDiffer ==
  ASSUME NEW s \in Seq(Clusters), \A k, l \in 1..Len(s) : s[k] = s[l] => k = l,
         NEW p \in Nat \ {0}, NEW q \in Nat \ {0},
         ToCluster(p) \in 1..Len(s), ToCluster(q) \in 1..Len(s), Loc(s, p) = Loc(s, q)
  PROVE  SectNo(p) = SectNo(q)
PROOF
<1>1. s[ToCluster(p)] = s[ToCluster(q)] /\ ((p - 1) % BCS) \div SS = ((q - 1) % BCS) \div SS
  BY DEF Loc, Sect
<1>2. ToCluster(p) = ToCluster(q)
  BY <1>1
<1> QED
  BY <1>1, <1>2, SameSector

\* Two chains that have the same cluster for a unit have the same sector for it.
LEMMA LocIn ==
  ASSUME NEW s, NEW r, NEW p, s[ToCluster(p)] = r[ToCluster(p)]
  PROVE  Loc(s, p) = Loc(r, p)
BY DEF Loc

\* The sector the pointer is in, when the file's cluster is that of the next unit.
LEMMA HereIs ==
  ASSUME NEW f, NEW s \in Seq(Clusters), f.fptr \in Nat, InCluster(s, f.clust, AtCluster(f.fptr))
  PROVE  /\ \A k \in 1..(SS - (f.fptr % SS)) :
              Here(f) = Loc(s, f.fptr + k) /\ ToCluster(f.fptr + k) \in 1..Len(s)
         /\ f.fptr % SS # 0 => Here(f) = Loc(s, f.fptr) /\ ToCluster(f.fptr) \in 1..Len(s)
         /\ Here(f) \in Places0 /\ Here(f)[1] = f.clust
PROOF
<1>p. PICK p : p = f.fptr
  OBVIOUS
<1>0. p \in Nat /\ SS \in Nat \ {0} /\ AtCluster(p) \in 1..Len(s) /\ f.clust = s[AtCluster(p)]
  BY <1>p, Sizes DEF InCluster
<1>1. Here(f) = Sect(s[AtCluster(p)], (p % BCS) \div SS)
  BY <1>0, <1>p DEF Here
<1>2. p + 1 \in Nat \ {0} /\ (p + 1) - 1 = p /\ ToCluster(p + 1) = AtCluster(p)
  BY <1>0 DEF ToCluster, AtCluster
<1>3. Here(f) = Loc(s, p + 1)
  BY <1>1, <1>2 DEF Loc
<1>4. p % SS \in 0..(SS - 1)
  BY <1>0, Following
<1>5. 1 \in 1..(SS - (p % SS))
  BY <1>0, <1>4
<1>6. ASSUME NEW q \in Nat \ {0}, SectNo(q) = p \div SS
      PROVE  Here(f) = Loc(s, q) /\ ToCluster(q) \in 1..Len(s)
  <2>1. SectNo(p + 1) = p \div SS
    BY <1>0, <1>5, Following
  <2>2. SectNo(q) = SectNo(p + 1)
    BY <1>6, <2>1
  <2>3. ToCluster(q) = ToCluster(p + 1)
    BY <1>2, <2>2, SameSector
  <2>4. Loc(s, q) = Loc(s, p + 1)
    BY <1>2, <2>2, LocOf
  <2> QED
    BY <1>0, <1>2, <1>3, <2>3, <2>4
<1>7. ASSUME NEW k \in 1..(SS - (p % SS)) PROVE p + k \in Nat \ {0} /\ SectNo(p + k) = p \div SS
  <2>1. k \in Nat \ {0}
    BY <1>0, <1>4
  <2>2. SectNo(p + k) = p \div SS
    BY <1>0, Following
  <2> QED
    BY <1>0, <2>1, <2>2
<1>8. p % SS # 0 => p \in Nat \ {0} /\ SectNo(p) = p \div SS
  <2>1. p % SS # 0 => p > 0 /\ SectNo(p) = p \div SS
    BY <1>0, Following
  <2>2. p > 0 => p \in Nat \ {0}
    BY <1>0
  <2> QED
    BY <2>1, <2>2
<1>9. Loc(s, p + 1) \in Places0 /\ Loc(s, p + 1)[1] = f.clust
  BY <1>0, <1>2, LocIs
<1>10. \A k \in 1..(SS - (p % SS)) : Here(f) = Loc(s, p + k) /\ ToCluster(p + k) \in 1..Len(s)
  BY <1>6, <1>7
<1>11. p % SS # 0 => Here(f) = Loc(s, p) /\ ToCluster(p) \in 1..Len(s)
  BY <1>6, <1>8
<1> QED
  BY <1>p, <1>3, <1>9, <1>10, <1>11

-----------------------------------------------------------------------------
(* The chain of a file *)

\* There is one entry of a file at most.
LEMMA OneEntry ==
  ASSUME FatInv, NEW n, NEW i \in Slots, NEW j \in Slots, Its(n, i), Its(n, j)
  PROVE  i = j
PROOF
<1>1. CASE ~Removing
  BY <1>1, Parts DEF DirOK, Names1, Its, IsFile
<1>2. CASE Removing
  <2>1. call.slot \in Slots /\ Names1(DirLeft)
    BY <1>2, Parts DEF Phase, Removing, Doing, DirOK
  <2>2. DirLeft[i] = vol.dir[i] /\ DirLeft[j] = vol.dir[j]
    BY <1>2, Parts DEF DirLeft, DirTyped, Its, Excused, Removing
  <2> QED
    BY <2>1, <2>2 DEF Names1, Its, IsFile
<1> QED
  BY <1>1, <1>2

\* The chains that fit begin as ChainOf says,
LEMMA FirstIs0 ==
  ASSUME FatInv, NEW ch, ChainsFit(ch), NEW n \in Names
  PROVE  FirstOf(n) = Head0(ch[n])
PROOF
<1>1. ch[n] \in Seq(Clusters) /\ (IsOpen(n) => FileFits(ch, n))
  BY OfFile
<1>2. CASE IsOpen(n)
  <2>1. ChainFits(ch, n)
    BY <1>1, <1>2 DEF FileFits
  <2>2. FirstOf(n) = IF Cutting(n) /\ file[n].fptr = 0 THEN 0 ELSE file[n].sclust
    BY <1>2 DEF FirstOf
  <2>3. Head0(<<>>) = 0
    BY DEF Head0
  <2> QED
    BY <2>1, <2>2, <2>3 DEF ChainFits
<1>3. CASE ~IsOpen(n) /\ \E i \in Slots : Its(n, i)
  <2>1. PICK i \in Slots : i = (CHOOSE j \in Slots : Its(n, j)) /\ Its(n, i)
    BY <1>3
  <2>2. FirstOf(n) = vol.dir[i].clust
    BY <1>3, <2>1 DEF FirstOf
  <2>3. EntryFits(ch, i)
    BY <2>1 DEF ChainsFit, EntriesFit, Its
  <2> QED
    BY <1>3, <2>1, <2>2, <2>3 DEF EntryFits, Its
<1>4. CASE ~IsOpen(n) /\ ~\E i \in Slots : Its(n, i)
  <2>1. FirstOf(n) = 0
    BY <1>4 DEF FirstOf
  <2>2. ch[n] = <<>>
    BY <1>4 DEF ChainsFit, Unnamed, Its
  <2> QED
    BY <2>1, <2>2 DEF Head0
<1> QED
  BY <1>2, <1>3, <1>4

\* and ChainOf is the chain that fits.
LEMMA TheChains ==
  FatInv => \E ch : ChainsFit(ch) /\ \A n \in Names : ChainOf(n) = ch[n]
PROOF
<1> SUFFICES ASSUME FatInv PROVE \E ch : ChainsFit(ch) /\ \A n \in Names : ChainOf(n) = ch[n]
  OBVIOUS
<1>1. PICK ch : ChainsFit(ch)
  BY DEF FatInv
<1>2. ASSUME NEW n \in Names PROVE ChainOf(n) = ch[n]
  <2>s. PICK s : s = ch[n]
    OBVIOUS
  <2>1. s \in Seq(Clusters) /\ Linked(vol.fat, s) /\ FirstOf(n) = Head0(s)
    BY <1>1, <2>s, OfFile, FirstIs0
  <2>2. \A k, l \in 1..Len(s) : s[k] = s[l] => k = l
    BY <1>1, <2>s DEF ChainsFit, Chained, Distinct, Owners
  <2>3. Chain(vol.fat, Head0(s)) = s
    BY <2>1, <2>2, ChainIs
  <2> QED
    BY <2>1, <2>3, <2>s DEF ChainOf
<1> QED
  BY <1>1, <1>2

\* What is known of it.
OfChain(n, s) ==
  /\ s \in Seq(Clusters) /\ Linked(vol.fat, s) /\ Head0(s) = FirstOf(n)
  /\ \A k, l \in 1..Len(s) : s[k] = s[l] => k = l
  /\ IsOpen(n) =>
       /\ Ahead(n) => InCluster(s, file[n].clust, AtCluster(file[n].fptr))
       /\ ~Ahead(n) /\ file[n].fptr > 0 => InCluster(s, file[n].clust, ToCluster(file[n].fptr))
       /\ file[n].fptr <= Room(s) /\ (~Seeking(n) => file[n].fptr <= file[n].size)
       /\ ~Cutting(n) => file[n].size <= Room(s)
       /\ Its(n, file[n].slot) /\ IsFil(file[n])
  /\ ~IsOpen(n) =>
       /\ file[n] = NoFile
       /\ \A i \in Slots : Its(n, i) => vol.dir[i].clust = Head0(s) /\ vol.dir[i].size <= Room(s)

\* The invariant of the volume gives it, and no two files share a cluster.
LEMMA ChainFacts ==
  FatInv => \A n \in Names :
    /\ OfChain(n, ChainOf(n))
    /\ \A m \in Names \ {n} : \A k \in 1..Len(ChainOf(n)), l \in 1..Len(ChainOf(m)) :
         ChainOf(n)[k] # ChainOf(m)[l]
PROOF
<1> SUFFICES ASSUME FatInv, NEW n \in Names
             PROVE  /\ OfChain(n, ChainOf(n))
                    /\ \A m \in Names \ {n} : \A k \in 1..Len(ChainOf(n)), l \in 1..Len(ChainOf(m)) :
                         ChainOf(n)[k] # ChainOf(m)[l]
  OBVIOUS
<1>1. PICK ch : ChainsFit(ch) /\ \A m \in Names : ChainOf(m) = ch[m]
  BY TheChains
<1>s. PICK s : s = ChainOf(n) /\ s = ch[n]
  BY <1>1
<1>2. s \in Seq(Clusters) /\ Linked(vol.fat, s) /\ (IsOpen(n) => FileFits(ch, n)) /\ Head0(s) = FirstOf(n)
  BY <1>1, <1>s, OfFile, FirstIs0
<1>3. Distinct(ch)
  BY <1>1 DEF ChainsFit, Chained
<1>4. \A k, l \in 1..Len(s) : s[k] = s[l] => k = l
  BY <1>3, <1>s DEF Distinct, Owners
<1>5. ASSUME IsOpen(n)
      PROVE  /\ Ahead(n) => InCluster(s, file[n].clust, AtCluster(file[n].fptr))
             /\ ~Ahead(n) /\ file[n].fptr > 0 => InCluster(s, file[n].clust, ToCluster(file[n].fptr))
             /\ file[n].fptr <= Room(s) /\ (~Seeking(n) => file[n].fptr <= file[n].size)
             /\ ~Cutting(n) => file[n].size <= Room(s)
             /\ Its(n, file[n].slot) /\ IsFil(file[n])
  <2>1. PointerFits(ch, n) /\ ChainFits(ch, n) /\ SlotFits(n) /\ IsFil(file[n])
    BY <1>2, <1>5, Parts DEF FileFits
  <2>2. ~Excused(file[n].slot)
    <3> SUFFICES ASSUME Excused(file[n].slot) PROVE FALSE
      OBVIOUS
    <3>1. call.op = "rename" /\ call.pc = "remove" /\ call.slot = file[n].slot
      BY DEF Excused, Doing
    <3>2. ~IsOpen(call.n) /\ vol.dir[call.slot].name = call.n
      BY <3>1, Parts DEF Phase
    <3> QED
      BY <1>5, <2>1, <3>1, <3>2 DEF SlotFits
  <2>3. Its(n, file[n].slot)
    BY <2>1, <2>2 DEF SlotFits, Its, IsFile
  <2>4. ~Cutting(n) => file[n].size <= Room(s)
    BY <1>s, <2>1 DEF ChainFits
  <2> QED
    BY <1>s, <2>1, <2>3, <2>4 DEF PointerFits
<1>6. ASSUME ~IsOpen(n), NEW i \in Slots, Its(n, i)
      PROVE  vol.dir[i].clust = Head0(s) /\ vol.dir[i].size <= Room(s)
  <2>1. EntryFits(ch, i) /\ vol.dir[i].name = n
    BY <1>1, <1>6 DEF ChainsFit, EntriesFit, Its
  <2> QED
    BY <1>6, <1>s, <2>1 DEF EntryFits
<1>7. OfChain(n, s)
  BY <1>2, <1>4, <1>5, <1>6, Parts DEF OfChain
<1>8. ASSUME NEW m \in Names \ {n}, NEW k \in 1..Len(ChainOf(n)), NEW l \in 1..Len(ChainOf(m))
      PROVE  ChainOf(n)[k] # ChainOf(m)[l]
  BY <1>1, <1>3 DEF Distinct, Owners
<1> QED
  BY <1>7, <1>8, <1>s

\* The chain after a step, from where it begins and how it is linked.
LEMMA ChainThen ==
  ASSUME NEW n, NEW s \in Seq(Clusters), \A k, l \in 1..Len(s) : s[k] = s[l] => k = l,
         FirstOf(n)' = Head0(s), NEW t, t = vol'.fat, Linked(t, s)
  PROVE  ChainOf(n)' = s
PROOF
<1>1. Chain(t, Head0(s)) = s
  BY ChainIs
<1> QED
  BY <1>1 DEF ChainOf

\* It stays if it begins where it did and its clusters are linked as they were.
LEMMA ChainStays ==
  ASSUME FatInv, NEW n \in Names, FirstOf(n)' = FirstOf(n),
         \A k \in 1..Len(ChainOf(n)) : vol'.fat[ChainOf(n)[k]] = vol.fat[ChainOf(n)[k]]
  PROVE  ChainOf(n)' = ChainOf(n)
PROOF
<1>s. PICK s : s = ChainOf(n)
  OBVIOUS
<1>t. PICK t : t = vol'.fat
  OBVIOUS
<1>1. s \in Seq(Clusters) /\ Linked(vol.fat, s) /\ Head0(s) = FirstOf(n)
      /\ \A k, l \in 1..Len(s) : s[k] = s[l] => k = l
  BY <1>s, ChainFacts DEF OfChain
<1>2. Linked(t, s)
  BY <1>s, <1>t, <1>1 DEF Linked
<1>3. ChainOf(n)' = s
  BY <1>1, <1>2, <1>t, ChainThen
<1> QED
  BY <1>3, <1>s

\* Where it begins depends on the FIL or on the entry.
LEMMA FirstStays ==
  ASSUME FatInv, NEW n, IsOpen(n)' <=> IsOpen(n),
         IsOpen(n) => file'[n].sclust = file[n].sclust /\ (Cutting(n)' <=> Cutting(n))
                      /\ (Cutting(n) => file'[n].fptr = file[n].fptr),
         ~IsOpen(n) => \A i \in Slots : (Its(n, i)' <=> Its(n, i)) /\ (Its(n, i) => vol'.dir[i].clust = vol.dir[i].clust)
  PROVE  FirstOf(n)' = FirstOf(n)
PROOF
<1>1. CASE IsOpen(n)
  BY <1>1 DEF FirstOf
<1>2. CASE ~IsOpen(n) /\ \E i \in Slots : Its(n, i)
  <2>1. PICK j \in Slots : Its(n, j)
    BY <1>2
  <2>2. PICK x : x = (CHOOSE k \in Slots : Its(n, k))
    OBVIOUS
  <2>3. PICK y : y = (CHOOSE k \in Slots : Its(n, k)')
    OBVIOUS
  <2>4. x \in Slots /\ Its(n, x) /\ y \in Slots /\ Its(n, y)'
    BY <1>2, <2>1, <2>2, <2>3
  <2>5. Its(n, y)
    BY <1>2, <2>4
  <2>6. x = y
    BY <2>4, <2>5, OneEntry
  <2>7. FirstOf(n) = vol.dir[x].clust
    BY <1>2, <2>2 DEF FirstOf
  <2>8. FirstOf(n)' = vol'.dir[y].clust
    BY <1>2, <2>1, <2>3 DEF FirstOf
  <2> QED
    BY <1>2, <2>4, <2>6, <2>7, <2>8
<1>3. CASE ~IsOpen(n) /\ ~\E i \in Slots : Its(n, i)
  BY <1>3 DEF FirstOf
<1> QED
  BY <1>1, <1>2, <1>3

-----------------------------------------------------------------------------
(* What is known of the units *)

\* What the application and the promise say of a file are sequences.
LEMMA Ghosts ==
  DataTyped => \A n \in Names :
    /\ UnitsOf(n) \in Seq(Int) /\ Len(UnitsOf(n)) \in Nat
    /\ content[n].kind \in {"absent", "held"}
    /\ content[n].kind = "absent" => content[n] = Absent /\ Len(UnitsOf(n)) = 0
    /\ content[n].kind = "held" => content[n] = Held(UnitsOf(n))
    /\ PledgedOf(n) \in Seq(Int) /\ Len(PledgedOf(n)) \in Nat
    /\ promise[n].kind \in {"absent", "held", "open"}
    /\ promise[n].kind # "held" => Len(PledgedOf(n)) = 0
PROOF
<1> SUFFICES ASSUME DataTyped, NEW n \in Names
             PROVE  /\ UnitsOf(n) \in Seq(Int) /\ Len(UnitsOf(n)) \in Nat
                    /\ content[n].kind \in {"absent", "held"}
                    /\ content[n].kind = "absent" => content[n] = Absent /\ Len(UnitsOf(n)) = 0
                    /\ content[n].kind = "held" => content[n] = Held(UnitsOf(n))
                    /\ PledgedOf(n) \in Seq(Int) /\ Len(PledgedOf(n)) \in Nat
                    /\ promise[n].kind \in {"absent", "held", "open"}
                    /\ promise[n].kind # "held" => Len(PledgedOf(n)) = 0
  OBVIOUS
<1>1. content[n] \in {Absent} \cup {Held(s) : s \in Seq(Int)}
      /\ promise[n] \in {Absent, Open} \cup {Held(s) : s \in Seq(Int)}
  BY DEF DataTyped
<1>2. <<>> \in Seq(Int) /\ Len(<<>>) = 0 /\ \A s \in Seq(Int) : Len(s) \in Nat
  OBVIOUS
<1>3. ASSUME NEW x \in {Absent, Open} \cup {Held(s) : s \in Seq(Int)}
      PROVE  /\ x.units \in Seq(Int) /\ Len(x.units) \in Nat /\ x.kind \in {"absent", "held", "open"}
             /\ x.kind = "absent" => x = Absent
             /\ x.kind = "held" => x = Held(x.units)
             /\ x.kind # "held" => Len(x.units) = 0
             /\ x # Open => x.kind # "open"
  <2>1. CASE x = Absent
    BY <1>2, <2>1 DEF Absent, Open
  <2>2. CASE x = Open
    BY <1>2, <2>2 DEF Open
  <2>3. CASE x \in {Held(s) : s \in Seq(Int)}
    <3>1. PICK s \in Seq(Int) : x = Held(s)
      BY <2>3
    <3>2. x.kind = "held" /\ x.units = s
      BY <3>1 DEF Held
    <3> QED
      BY <1>2, <3>1, <3>2 DEF Open
  <2> QED
    BY <2>1, <2>2, <2>3
<1>4. content[n] # Open
  BY <1>1 DEF Open, Absent, Held
<1>5. content[n] \in {Absent, Open} \cup {Held(s) : s \in Seq(Int)}
  BY <1>1
<1>6. /\ UnitsOf(n) \in Seq(Int) /\ Len(UnitsOf(n)) \in Nat /\ content[n].kind \in {"absent", "held", "open"}
      /\ content[n].kind = "absent" => content[n] = Absent
      /\ content[n].kind = "held" => content[n] = Held(UnitsOf(n))
      /\ content[n].kind # "held" => Len(UnitsOf(n)) = 0
      /\ content[n].kind # "open"
  BY <1>3, <1>4, <1>5 DEF UnitsOf
<1>7. /\ PledgedOf(n) \in Seq(Int) /\ Len(PledgedOf(n)) \in Nat
      /\ promise[n].kind \in {"absent", "held", "open"}
      /\ promise[n].kind # "held" => Len(PledgedOf(n)) = 0
  BY <1>1, <1>3 DEF PledgedOf
<1> QED
  BY <1>6, <1>7

\* Each unit is in a sector of the file's chain.
LEMMA UnitsInChain ==
  FatInv /\ DataTyped => \A n \in Names : Kinds(n) /\ Lens(n) =>
    /\ Len(UnitsOf(n)) <= Room(ChainOf(n))
    /\ \A p \in 1..Len(UnitsOf(n)) :
         /\ p \in Nat \ {0} /\ ToCluster(p) \in 1..Len(ChainOf(n))
         /\ Loc(ChainOf(n), p) \in Places0 /\ Loc(ChainOf(n), p)[1] = ChainOf(n)[ToCluster(p)]
         /\ Off(p) \in 1..SS
PROOF
<1> SUFFICES ASSUME FatInv, DataTyped, NEW n \in Names, Kinds(n), Lens(n)
             PROVE  /\ Len(UnitsOf(n)) <= Room(ChainOf(n))
                    /\ \A p \in 1..Len(UnitsOf(n)) :
                         /\ p \in Nat \ {0} /\ ToCluster(p) \in 1..Len(ChainOf(n))
                         /\ Loc(ChainOf(n), p) \in Places0 /\ Loc(ChainOf(n), p)[1] = ChainOf(n)[ToCluster(p)]
                         /\ Off(p) \in 1..SS
  OBVIOUS
<1>s. PICK s : s = ChainOf(n)
  OBVIOUS
<1>l. PICK l : l = Len(UnitsOf(n))
  OBVIOUS
<1>1. OfChain(n, s) /\ l \in Nat
  BY <1>s, <1>l, ChainFacts, Ghosts
<1>2. s \in Seq(Clusters) /\ Room(s) \in Nat /\ Len(s) \in Nat
  BY <1>1, RoomIs DEF OfChain
<1>3. l <= Room(s)
  <2>1. CASE IsOpen(n)
    BY <1>1, <1>l, <2>1 DEF OfChain, Lens
  <2>2. CASE ~IsOpen(n) /\ \E i \in Slots : Its(n, i)
    BY <1>1, <1>l, <2>2 DEF OfChain, Lens
  <2>3. CASE ~IsOpen(n) /\ ~\E i \in Slots : Its(n, i)
    <3>1. content[n].kind = "absent"
      BY <2>3 DEF Kinds
    <3>2. l = 0
      BY <1>l, <3>1, Ghosts
    <3> QED
      BY <1>2, <3>2
  <2> QED
    BY <2>1, <2>2, <2>3
<1>4. ASSUME NEW p \in 1..l PROVE p \in Nat \ {0} /\ ToCluster(p) \in 1..Len(s)
  <2>1. p \in Nat \ {0} /\ p <= Room(s)
    BY <1>1, <1>2, <1>3
  <2>2. p <= Len(s) * BCS
    BY <2>1 DEF Room
  <2>3. ToCluster(p) \in 1..Len(s)
    BY <1>2, <2>1, <2>2, InChain
  <2> QED
    BY <2>1, <2>3
<1>5. \A p \in 1..l : /\ p \in Nat \ {0} /\ ToCluster(p) \in 1..Len(s)
                      /\ Loc(s, p) \in Places0 /\ Loc(s, p)[1] = s[ToCluster(p)] /\ Off(p) \in 1..SS
  BY <1>2, <1>4, LocIs
<1> QED
  BY <1>3, <1>5, <1>s, <1>l

\* What a disk that is as seen has of a file.
LEMMA SeenKeeps ==
  ASSUME FatInv, DataTyped, NEW n \in Names, Kinds(n), Lens(n), ~Loose(n), ~(Removing /\ call.n = n),
         NEW d, AsSeen(d), NEW pr,
         pr.kind = content[n].kind, Len(pr.units) \in Nat, Len(pr.units) <= Len(UnitsOf(n)),
         \A i \in Slots : Its(n, i) => vol.dir[i].size >= Len(pr.units)
  PROVE  KeptOn(d, n, pr, ChainOf(n))
PROOF
<1>s. PICK s : s = ChainOf(n)
  OBVIOUS
<1>1. OfChain(n, s) /\ \A i \in Slots : d.dir[i] = vol.dir[i]
  BY <1>s, ChainFacts DEF AsSeen
<1>2. ASSUME NEW i \in Slots, IsFile(i), vol.dir[i].name = n PROVE Its(n, i)
  <2>1. ~Excused(i)
    <3> SUFFICES ASSUME Excused(i) PROVE FALSE
      OBVIOUS
    <3>1. call.op = "rename" /\ call.pc = "remove" /\ i = call.slot /\ Removing
      BY DEF Excused, Removing, Doing
    <3>2. vol.dir[call.slot].name = call.n
      BY <3>1, Parts DEF Phase
    <3> QED
      BY <1>2, <3>1, <3>2
  <2> QED
    BY <1>2, <2>1 DEF Its
<1>3. pr.kind = "absent" => \A i \in Slots : ~(d.dir[i].kind = "file" /\ d.dir[i].name = n)
  BY <1>1, <1>2 DEF Kinds, IsFile
<1>4. ASSUME pr.kind = "held"
      PROVE  \E i \in Slots : \E r \in Seq(Clusters) :
               /\ d.dir[i].kind = "file" /\ d.dir[i].name = n /\ d.dir[i].size >= Len(pr.units)
               /\ d.dir[i].clust = Head0(r) /\ Linked(d.fat, r)
               /\ \A p \in 1..Len(pr.units) : ToCluster(p) \in 1..Len(r) /\ r[ToCluster(p)] = s[ToCluster(p)]
  <2>1. PICK i \in Slots : Its(n, i)
    BY <1>4 DEF Kinds
  <2>e. PICK e : e = vol.dir[i]
    OBVIOUS
  <2>2. d.dir[i] = e /\ e.kind = "file" /\ e.name = n /\ e.size \in Nat /\ e.size >= Len(pr.units)
    BY <1>1, <2>1, <2>e, Parts DEF Its, IsFile, DirTyped, EntryOk
  <2>3. PICK ch : ChainsFit(ch) /\ ch[n] = s
    BY <1>s, TheChains
  <2>4. /\ e.clust \in {0, Head0(s)} /\ (e.clust = 0 => e.size = 0 \/ s = <<>>)
    <3>1. EntryFits(ch, i)
      BY <2>1, <2>3 DEF ChainsFit, EntriesFit, Its
    <3>2. CASE IsOpen(n)
      BY <2>1, <2>e, <2>3, <3>1, <3>2 DEF EntryFits, Its
    <3>3. CASE ~IsOpen(n)
      <4>1. e.clust = Head0(s)
        BY <2>1, <2>e, <2>3, <3>1, <3>3 DEF EntryFits, Its
      <4>2. s \in Seq(Clusters)
        BY <1>1 DEF OfChain
      <4> QED
        BY <4>1, <4>2, HeadOf
    <3> QED
      BY <3>2, <3>3
  <2>5. s \in Seq(Clusters) /\ Linked(d.fat, s)
    <3>1. s \in Seq(Clusters) /\ Linked(vol.fat, s) /\ \A k \in 1..Len(s) : s[k] \in Clusters
      BY <1>1 DEF OfChain
    <3> QED
      BY <3>1 DEF AsSeen, Linked
  <2>6. \A p \in 1..Len(pr.units) : ToCluster(p) \in 1..Len(s)
    <3>1. \A p \in 1..Len(pr.units) : p \in 1..Len(UnitsOf(n))
      BY Ghosts
    <3> QED
      BY <1>s, <3>1, UnitsInChain
  <2>7. CASE e.clust = Head0(s)
    BY <2>2, <2>5, <2>6, <2>7
  <2>8. CASE e.clust # Head0(s)
    <3>1. e.clust = 0 /\ s # <<>> /\ e.size = 0
      BY <2>4, <2>8 DEF Head0
    <3>2. Len(pr.units) = 0
      BY <2>2, <3>1
    <3>3. <<>> \in Seq(Clusters) /\ Head0(<<>>) = 0 /\ Linked(d.fat, <<>>)
      BY DEF Head0, Linked
    <3>4. \A p \in 1..Len(pr.units) : FALSE
      BY <3>2
    <3> QED
      BY <2>2, <3>1, <3>3, <3>4
  <2> QED
    BY <2>7, <2>8
<1> QED
  BY <1>3, <1>4, <1>s DEF KeptOn

\* A disk that does not change, or that comes to be what is seen, goes on to have what is
\* promised.
LEMMA DiskKept ==
  ASSUME FatInv, DataTyped, NEW n \in Names, Kinds(n), Lens(n), Pledge(n), DiskKeeps(n),
         disk' = disk \/ AsSeen(disk'), promise'[n].kind = "open" \/ promise'[n] = promise[n],
         \A p \in 1..Len(PledgedOf(n)) : ChainOf(n)'[ToCluster(p)] = ChainOf(n)[ToCluster(p)]
  PROVE  DiskKeeps(n)'
PROOF
<1>1. CASE promise'[n].kind = "open"
  BY <1>1 DEF DiskKeeps, KeptOn
<1>2. CASE promise'[n] = promise[n] /\ promise[n].kind # "open"
  <2>d. PICK d : d = disk'
    OBVIOUS
  <2>s. PICK s : s = ChainOf(n)
    OBVIOUS
  <2>t. PICK t : t = ChainOf(n)'
    OBVIOUS
  <2>p. PICK pr : pr = promise[n]
    OBVIOUS
  <2>1. KeptOn(d, n, pr, s)
    <3>1. CASE d = disk
      BY <3>1, <2>s, <2>p DEF DiskKeeps
    <3>2. CASE AsSeen(d)
      <4>1. ~Loose(n) /\ ~(Removing /\ call.n = n) /\ pr.kind = content[n].kind
            /\ Len(pr.units) <= Len(UnitsOf(n)) /\ Len(pr.units) \in Nat
            /\ \A i \in Slots : Its(n, i) => vol.dir[i].size >= Len(pr.units)
        BY <1>2, <2>p, Ghosts DEF Pledge, Loose, PledgedOf
      <4> QED
        BY <2>s, <3>2, <4>1, SeenKeeps
    <3> QED
      BY <2>d, <3>1, <3>2
  <2>2. \A p \in 1..Len(pr.units) : t[ToCluster(p)] = s[ToCluster(p)]
    BY <2>p, <2>s, <2>t DEF PledgedOf
  <2>3. KeptOn(d, n, pr, t)
    BY <2>1, <2>2 DEF KeptOn
  <2> QED
    BY <1>2, <2>3, <2>d, <2>p, <2>t DEF DiskKeeps, KeptOn
<1>3. CASE promise'[n] = promise[n] /\ promise[n].kind = "open"
  BY <1>3 DEF DiskKeeps, KeptOn
<1> QED
  BY <1>1, <1>2, <1>3

-----------------------------------------------------------------------------
(* What a step leaves alone *)

\* The chain of a file is at least as long as it was.
ChainGoesOn(n) ==
  \A k \in 1..Len(ChainOf(n)) : k \in 1..Len(ChainOf(n)') /\ ChainOf(n)'[k] = ChainOf(n)[k]

\* A file whose units, sectors and clusters stay where they are.
LEMMA SameData ==
  ASSUME FatInv, DataTyped, NEW n \in Names, DataFits(n),
         content'[n] = content[n], promise'[n] = promise[n], IsOpen(n)' <=> IsOpen(n),
         ChainGoesOn(n),
         IsOpen(n) => /\ file'[n].size = file[n].size /\ file'[n].sect = file[n].sect
                      /\ file'[n].buf = file[n].buf /\ file'[n].dirty = file[n].dirty,
         Cutting(n)' <=> Cutting(n), Cutting(n) => file'[n].fptr = file[n].fptr,
         Cutting(n) => \A m \in Names : ChainOf(m)' = ChainOf(m),
         \A p \in 1..Len(UnitsOf(n)) : data'[Loc(ChainOf(n), p)] = data[Loc(ChainOf(n), p)],
         \A i \in Slots : Its(n, i)' <=> Its(n, i),
         \A i \in Slots : Its(n, i) =>
           \/ vol'.dir[i].size = vol.dir[i].size
           \/ IsOpen(n) /\ vol'.dir[i].size >= Len(PledgedOf(n)),
         disk' = disk \/ AsSeen(disk'), n \in loose' => n \in loose \/ promise[n].kind = "open",
         Removing' /\ call'.n = n => (Removing /\ call.n = n) \/ promise[n].kind = "open",
         Marked(n)', Inside(n)', Current(n)'
  PROVE  DataFits(n)'
PROOF
<1>0. /\ Kinds(n) /\ Lens(n) /\ Fits(n) /\ Own(n) /\ Pledge(n) /\ DiskKeeps(n)
  BY DEF DataFits
<1>s. PICK s : s = ChainOf(n)
  OBVIOUS
<1>t. PICK t : t = ChainOf(n)'
  OBVIOUS
<1>1. UnitsOf(n)' = UnitsOf(n) /\ PledgedOf(n)' = PledgedOf(n)
  BY DEF UnitsOf, PledgedOf
<1>u. \A p \in 1..Len(UnitsOf(n)) : t[ToCluster(p)] = s[ToCluster(p)] /\ Loc(t, p) = Loc(s, p)
  <2>1. \A p \in 1..Len(UnitsOf(n)) : ToCluster(p) \in 1..Len(s)
    BY <1>0, <1>s, UnitsInChain
  <2>2. \A p \in 1..Len(UnitsOf(n)) : t[ToCluster(p)] = s[ToCluster(p)]
    BY <1>s, <1>t, <2>1 DEF ChainGoesOn
  <2> QED
    BY <2>2, LocIn
<1>2. Kinds(n)'
  BY <1>0 DEF Kinds
<1>3. Lens(n)'
  <2>1. CASE IsOpen(n)
    BY <1>0, <1>1, <2>1 DEF Lens
  <2>2. CASE ~IsOpen(n)
    BY <1>0, <1>1, <2>2 DEF Lens
  <2> QED
    BY <2>1, <2>2
<1>4. Fits(n)'
  <2>1. CASE IsOpen(n)
    BY <1>0, <1>1, <1>s, <1>t, <1>u, <2>1 DEF Fits
  <2>2. CASE ~IsOpen(n)
    BY <1>0, <1>1, <1>s, <1>t, <1>u, <2>2 DEF Fits
  <2> QED
    BY <2>1, <2>2
<1>5. Own(n)'
  <2>1. CASE Cutting(n)
    BY <1>0, <2>1 DEF Own
  <2>2. CASE ~Cutting(n)
    BY <1>0, <1>s, <2>2 DEF Own, ChainGoesOn
  <2> QED
    BY <2>1, <2>2
<1>6. Pledge(n)'
  <2> SUFFICES ASSUME promise[n].kind # "open"
               PROVE  /\ promise'[n].kind = content'[n].kind /\ Len(PledgedOf(n)') <= Len(UnitsOf(n)')
                      /\ n \notin loose' /\ ~(Removing /\ call.n = n)'
                      /\ \A p \in 1..Len(PledgedOf(n)') :
                           /\ PledgedOf(n)'[p] = UnitsOf(n)'[p]
                           /\ PledgedOf(n)'[p] \in {Unset, data'[Loc(ChainOf(n)', p)][Off(p)]}
                      /\ \A i \in Slots : Its(n, i)' => vol'.dir[i].size >= Len(PledgedOf(n)')
    BY DEF Pledge
  <2>1. /\ promise[n].kind = content[n].kind /\ Len(PledgedOf(n)) <= Len(UnitsOf(n))
        /\ n \notin loose /\ ~(Removing /\ call.n = n)
        /\ \A p \in 1..Len(PledgedOf(n)) :
             /\ PledgedOf(n)[p] = UnitsOf(n)[p]
             /\ PledgedOf(n)[p] \in {Unset, data[Loc(s, p)][Off(p)]}
        /\ \A i \in Slots : Its(n, i) => vol.dir[i].size >= Len(PledgedOf(n))
    BY <1>0, <1>s DEF Pledge
  <2>2. \A p \in 1..Len(PledgedOf(n)) : p \in 1..Len(UnitsOf(n))
    BY <2>1, Ghosts
  <2>3. \A p \in 1..Len(PledgedOf(n)) : data'[Loc(s, p)] = data[Loc(s, p)] /\ Loc(t, p) = Loc(s, p)
    BY <2>2, <1>s, <1>u
  <2> QED
    BY <1>1, <1>t, <2>1, <2>3
<1>7. DiskKeeps(n)'
  <2>1. CASE promise[n].kind = "open"
    BY <2>1 DEF DiskKeeps, KeptOn
  <2>2. CASE promise[n].kind # "open"
    <3>1. \A p \in 1..Len(PledgedOf(n)) : p \in 1..Len(UnitsOf(n))
      BY <1>0, <2>2, Ghosts DEF Pledge
    <3>2. \A p \in 1..Len(PledgedOf(n)) : ChainOf(n)'[ToCluster(p)] = ChainOf(n)[ToCluster(p)]
      BY <1>s, <1>t, <1>u, <3>1
    <3> QED
      BY <1>0, <3>2, DiskKept
  <2> QED
    BY <2>1, <2>2
<1> QED
  BY <1>2, <1>3, <1>4, <1>5, <1>6, <1>7 DEF DataFits

\* The files of T are those a call is about.
Among(T) == InCall => call.n \in T /\ call.m \in T

\* The entries of other files stay.
LEMMA EntriesOfOthers ==
  ASSUME FatInv, FatInv', NEW T, Among(T), Among(T)',
         \A i \in Slots : \/ vol'.dir[i] = vol.dir[i]
                          \/ (IsFile(i) => vol.dir[i].name \in T) /\ (IsFile(i)' => vol'.dir[i].name \in T),
         NEW m, m \notin T, NEW i \in Slots
  PROVE  (Its(m, i)' <=> Its(m, i)) /\ (Its(m, i) => vol'.dir[i] = vol.dir[i])
PROOF
<1>1. ASSUME Excused(i), vol.dir[i].name = m PROVE FALSE
  <2>1. call.op = "rename" /\ call.pc = "remove" /\ i = call.slot
    BY <1>1 DEF Excused, Doing
  <2>2. vol.dir[call.slot].name = call.n /\ call.n \in T
    BY <2>1, Parts DEF Phase, Among, InCall
  <2> QED
    BY <1>1, <2>1, <2>2
<1>2. ASSUME Excused(i)', vol'.dir[i].name = m PROVE FALSE
  <2>1. call'.op = "rename" /\ call'.pc = "remove" /\ i = call'.slot
    BY <1>2 DEF Excused, Doing
  <2>2. vol'.dir[call'.slot].name = call'.n
    BY <2>1 DEF FatInv, InPhase, Phase
  <2>3. call'.n \in T
    BY <2>1 DEF Among, InCall
  <2> QED
    BY <1>2, <2>1, <2>2, <2>3
<1>3. Its(m, i) => vol'.dir[i] = vol.dir[i]
  BY DEF Its
<1>4. Its(m, i) => Its(m, i)'
  BY <1>2, <1>3 DEF Its, IsFile
<1>5. Its(m, i)' => Its(m, i)
  BY <1>1 DEF Its, IsFile
<1> QED
  BY <1>3, <1>4, <1>5

\* A file that the step is not about.
LEMMA OtherData ==
  ASSUME FatInv, FatInv', DataTyped, DataTyped', NEW T, Among(T), Among(T)',
         \A i \in Slots : \/ vol'.dir[i] = vol.dir[i]
                          \/ (IsFile(i) => vol.dir[i].name \in T) /\ (IsFile(i)' => vol'.dir[i].name \in T),
         NEW m \in Names, m \notin T, DataFits(m),
         file'[m] = file[m], content'[m] = content[m], promise'[m] = promise[m],
         \A k \in 1..Len(ChainOf(m)) : vol'.fat[ChainOf(m)[k]] = vol.fat[ChainOf(m)[k]],
         \A x \in Places0 : (\E k \in 1..Len(ChainOf(m)) : ChainOf(m)[k] = x[1]) => data'[x] = data[x],
         disk' = disk \/ AsSeen(disk'), m \in loose' => m \in loose
  PROVE  DataFits(m)'
PROOF
<1>1. \A i \in Slots : (Its(m, i)' <=> Its(m, i)) /\ (Its(m, i) => vol'.dir[i] = vol.dir[i])
  BY EntriesOfOthers
<1>2. \A ops, pcs : "none" \notin ops => ~With(m, ops, pcs) /\ ~With(m, ops, pcs)'
  BY DEF With, Doing, Among, InCall
<1>3. ~Cutting(m) /\ ~Cutting(m)' /\ ~Writing(m) /\ ~Writing(m)' /\ ~Seeking(m) /\ ~Seeking(m)'
      /\ (IsOpen(m)' <=> IsOpen(m))
  BY <1>2 DEF Cutting, Writing, Seeking, IsOpen
<1>4. FirstOf(m)' = FirstOf(m)
  BY <1>1, <1>3, FirstStays
<1>5. ChainOf(m)' = ChainOf(m) /\ ChainGoesOn(m)
  BY <1>4, ChainStays DEF ChainGoesOn
<1>6. \A p \in 1..Len(UnitsOf(m)) : data'[Loc(ChainOf(m), p)] = data[Loc(ChainOf(m), p)]
  <2>1. \A p \in 1..Len(UnitsOf(m)) :
          /\ Loc(ChainOf(m), p) \in Places0
          /\ \E k \in 1..Len(ChainOf(m)) : ChainOf(m)[k] = Loc(ChainOf(m), p)[1]
    BY UnitsInChain DEF DataFits
  <2> QED
    BY <2>1
<1>7. Marked(m)'
  <2>1. Marked(m)
    BY DEF DataFits
  <2>2. ASSUME IsOpen(m) PROVE vol'.dir[file[m].slot] = vol.dir[file[m].slot]
    <3>1. Its(m, file[m].slot) /\ file[m].slot \in Slots
      BY <2>2, ChainFacts DEF OfChain, IsFil
    <3> QED
      BY <1>1, <3>1
  <2>3. ~With(m, {"sync", "close"}, {"entry", "window", "info"})' /\ ~With(m, {"sync", "close"}, {"done"})'
    BY <1>2
  <2> QED
    BY <1>3, <2>1, <2>2, <2>3 DEF Marked
<1>8. Inside(m)'
  BY <1>3, <1>5 DEF DataFits, Inside
<1>9. Current(m)'
  <2>1. Current(m)
    BY DEF DataFits
  <2>2. ~With(m, {"open"}, {"free", "emptied"})
    BY <1>2
  <2>3. call.op \in {"sync", "close", "unlink", "rename"} => m \notin {call.n, call.m}
    BY DEF Among, InCall
  <2>4. Apart(m)
    BY <1>3, <2>2, <2>3 DEF Apart
  <2> QED
    BY <1>3, <2>1, <2>4 DEF Current
<1>10. ~(Removing' /\ call'.n = m)
  BY DEF Removing, Doing, Among, InCall
<1> QED
  BY <1>1, <1>3, <1>5, <1>6, <1>7, <1>8, <1>9, <1>10, SameData

\* A step about some files keeps what is said of all if it does for them.
LEMMA StepData ==
  ASSUME FatInv, FatInv', DataInv, DataTyped', AtReturn', ReadsRight',
         NEW T, Among(T), Among(T)',
         \A i \in Slots : \/ vol'.dir[i] = vol.dir[i]
                          \/ (IsFile(i) => vol.dir[i].name \in T) /\ (IsFile(i)' => vol'.dir[i].name \in T),
         \A m \in Names : m \notin T =>
           /\ file'[m] = file[m] /\ content'[m] = content[m] /\ promise'[m] = promise[m]
           /\ \A k \in 1..Len(ChainOf(m)) : vol'.fat[ChainOf(m)[k]] = vol.fat[ChainOf(m)[k]]
           /\ \A x \in Places0 : (\E k \in 1..Len(ChainOf(m)) : ChainOf(m)[k] = x[1]) => data'[x] = data[x]
           /\ m \in loose' => m \in loose,
         disk' = disk \/ AsSeen(disk'),
         \A n \in T : n \in Names => DataFits(n)'
  PROVE  DataInv'
PROOF
<1>1. DataTyped /\ \A m \in Names : DataFits(m)
  BY DEF DataInv
<1>2. ASSUME NEW m \in Names PROVE DataFits(m)'
  <2>1. CASE m \in T
    BY <2>1
  <2>2. CASE m \notin T
    BY <1>1, <2>2, OtherData
  <2> QED
    BY <2>1, <2>2
<1> QED
  BY <1>2 DEF DataInv

-----------------------------------------------------------------------------
(* Steps that move a pointer *)

\* A call does not find its own structures broken.
LEMMA NeverEnds ==
  ASSUME FatInv, FatInv', InCall, Ends("FR_INT_ERR")
  PROVE  FALSE
PROOF
<1>1. DOMAIN call = CallFields /\ call.op # "none"
  BY Parts DEF IsCall
<1>2. call'.res = "FR_INT_ERR" /\ call'.op # "none"
  BY <1>1 DEF Ends, CallFields
<1>3. call' = Idle \/ IsCall(call')
  BY DEF FatInv, Typed
<1> QED
  BY <1>2, <1>3 DEF Idle, IsCall

\* What a step may leave in a FIL that moves its pointer alone.
SameBuffer(f, g) ==
  /\ g.open /\ g.slot = f.slot /\ g.size = f.size /\ g.sect = f.sect
  /\ g.buf = f.buf /\ g.dirty = f.dirty /\ (f.mod => g.mod)

\* A step of f_open, f_read, f_write or f_lseek that writes no unit.
LEMMA GrownData ==
  ASSUME FatInv, FatInv', DataInv, NEW n \in Names, Among({n}), Among({n})',
         call.op \in Moving \cup {"none"}, call'.op \in Moving \cup {"none"},
         {call.pc, call'.pc} \cap {"free", "emptied", "cut"} = {},
         vol'.dir = vol.dir, data' = data, content' = content, promise' = promise, loose' = loose,
         \A m \in Names \ {n} : \A k \in 1..Len(ChainOf(m)) : vol'.fat[ChainOf(m)[k]] = vol.fat[ChainOf(m)[k]],
         ChainGoesOn(n),
         disk' = disk \/ AsSeen(disk'),
         \A m \in Names \ {n} : file'[m] = file[m],
         \/ file'[n] = file[n]
         \/ IsOpen(n) /\ SameBuffer(file[n], file'[n]),
         IsOpen(n) /\ Writing(n) => Writing(n)' \/ file'[n].mod,
         \/ Seeking(n)'
         \/ ~IsOpen(n)
         \/ file'[n].fptr % SS = 0
         \/ ~Seeking(n) /\ file'[n].fptr = file[n].fptr,
         calls' \in Nat, ReadsRight'
  PROVE  DataInv'
PROOF
<1>1. DataTyped /\ DataFits(n) /\ \A m \in Names : DataFits(m)
  BY DEF DataInv
<1>2. /\ ~Cutting(n) /\ ~Cutting(n)' /\ ~Removing /\ ~Removing'
      /\ ~With(n, {"open"}, {"free", "emptied"})
      /\ ~With(n, {"sync", "close"}, {"entry", "window", "info"})'
      /\ ~With(n, {"sync", "close"}, {"done"})'
      /\ call.op \notin {"sync", "close", "unlink", "rename"}
  BY DEF Cutting, Removing, With, Doing, Moving
<1>3. IsOpen(n)' <=> IsOpen(n)
  BY DEF IsOpen, SameBuffer
<1>4. IsOpen(n) => SameBuffer(file[n], file'[n])
  BY DEF IsOpen, SameBuffer
<1>5. \A i \in Slots : (Its(n, i)' <=> Its(n, i)) /\ (Its(n, i) => vol'.dir[i] = vol.dir[i])
  BY <1>2 DEF Its, IsFile, Excused, Removing, Doing
<1>8. Marked(n)'
  <2>1. Marked(n)
    BY <1>1 DEF DataFits
  <2>2. SUFFICES ASSUME IsOpen(n)
                 PROVE  /\ ~file'[n].mod /\ ~Writing(n)' => vol'.dir[file'[n].slot].size = file'[n].size
                        /\ file'[n].dirty => file'[n].mod \/ Writing(n)'
    BY <1>2, <1>3 DEF Marked
  <2>3. SameBuffer(file[n], file'[n])
    BY <1>4, <2>2
  <2> QED
    BY <1>2, <2>1, <2>2, <2>3 DEF Marked, SameBuffer
<1>9. Inside(n)'
  <2>1. Inside(n)
    BY <1>1 DEF DataFits
  <2>2. SUFFICES ASSUME IsOpen(n), ~Seeking(n)', file'[n].fptr % SS # 0
                 PROVE  file'[n].sect = Loc(ChainOf(n)', file'[n].fptr)
    BY <1>3 DEF Inside
  <2>3. ~Seeking(n) /\ file'[n].fptr = file[n].fptr
    BY <2>2
  <2>p. PICK p : p = file[n].fptr
    OBVIOUS
  <2>s. PICK s : s = ChainOf(n)
    OBVIOUS
  <2>t. PICK t : t = ChainOf(n)'
    OBVIOUS
  <2>4. s \in Seq(Clusters) /\ p <= Room(s) /\ p \in Nat
    BY <2>2, <2>p, <2>s, ChainFacts DEF OfChain, IsFil
  <2>5. p > 0
    BY <2>2, <2>3, <2>4, <2>p, Following
  <2>6. ToCluster(p) \in 1..Len(s)
    BY <2>4, <2>5, InChain DEF Room
  <2>7. Loc(t, p) = Loc(s, p)
    BY <2>6, <2>s, <2>t, LocIn DEF ChainGoesOn
  <2> QED
    BY <1>4, <2>1, <2>2, <2>3, <2>7, <2>p, <2>s, <2>t DEF Inside, SameBuffer
<1>10. Current(n)'
  <2>1. Current(n)
    BY <1>1 DEF DataFits
  <2>2. SUFFICES ASSUME IsOpen(n) => ~file'[n].mod, Apart(n)' PROVE promise[n] = content[n]
    BY <1>3 DEF Current
  <2>3. ((IsOpen(n) => ~file[n].mod) /\ ~Writing(n)) \/ ~IsOpen(n)
    BY <1>4, <2>2 DEF Apart, SameBuffer
  <2>4. ~IsOpen(n) => ~Writing(n)
    BY Parts DEF Writing, With, Doing, Phase
  <2>5. Apart(n) /\ (IsOpen(n) => ~file[n].mod)
    BY <1>2, <2>3, <2>4 DEF Apart
  <2> QED
    BY <2>1, <2>5 DEF Current
<1>11. DataFits(n)'
  BY <1>1, <1>2, <1>3, <1>4, <1>5, <1>8, <1>9, <1>10, SameData DEF SameBuffer
<1>12. AtReturn'
  BY DEF AtReturn, Doing, Moving
<1>13. DataTyped'
  <2>1. \A m \in Names : IsOpen(m)' => file'[m].buf \in OneSector /\ file'[m].dirty \in BOOLEAN
    BY <1>1, <1>3, <1>4 DEF DataTyped, IsOpen, SameBuffer
  <2>2. InCall' /\ call'.op # "rename" => call'.m = call'.n
    BY DEF Among
  <2> QED
    BY <1>1, <2>1, <2>2 DEF DataTyped
<1> QED
  BY <1>11, <1>12, <1>13, StepData

\* And one that links no cluster.
LEMMA QuietData ==
  ASSUME FatInv, FatInv', DataInv, NEW n \in Names, Among({n}), Among({n})',
         call.op \in Moving \cup {"none"}, call'.op \in Moving \cup {"none"},
         {call.pc, call'.pc} \cap {"free", "emptied", "cut"} = {},
         vol'.dir = vol.dir, data' = data, content' = content, promise' = promise, loose' = loose,
         \A m \in Names : \A k \in 1..Len(ChainOf(m)) : vol'.fat[ChainOf(m)[k]] = vol.fat[ChainOf(m)[k]],
         disk' = disk \/ AsSeen(disk'),
         \A m \in Names \ {n} : file'[m] = file[m],
         \/ file'[n] = file[n]
         \/ IsOpen(n) /\ SameBuffer(file[n], file'[n]) /\ file'[n].sclust = file[n].sclust,
         IsOpen(n) /\ Writing(n) => Writing(n)' \/ file'[n].mod,
         \/ Seeking(n)'
         \/ ~IsOpen(n)
         \/ file'[n].fptr % SS = 0
         \/ ~Seeking(n) /\ file'[n].fptr = file[n].fptr,
         calls' \in Nat, ReadsRight'
  PROVE  DataInv'
PROOF
<1>1. ~Cutting(n) /\ ~Cutting(n)' /\ ~Removing /\ ~Removing'
  BY DEF Cutting, Removing, With, Doing, Moving
<1>2. (IsOpen(n)' <=> IsOpen(n)) /\ (IsOpen(n) => file'[n].sclust = file[n].sclust)
  BY DEF IsOpen, SameBuffer
<1>3. \A i \in Slots : (Its(n, i)' <=> Its(n, i)) /\ (Its(n, i) => vol'.dir[i] = vol.dir[i])
  BY <1>1 DEF Its, IsFile, Excused, Removing, Doing
<1>4. FirstOf(n)' = FirstOf(n)
  BY <1>1, <1>2, <1>3, FirstStays
<1>5. ChainOf(n)' = ChainOf(n)
  BY <1>4, ChainStays
<1>6. ChainGoesOn(n)
  BY <1>5 DEF ChainGoesOn
<1> QED
  BY <1>6, GrownData

\* Such a step that leaves the table.
LEMMA PointerData ==
  ASSUME FatInv, FatInv', DataInv, NEW n \in Names, Among({n}), Among({n})',
         call.op \in Moving \cup {"none"}, call'.op \in Moving \cup {"none"},
         {call.pc, call'.pc} \cap {"free", "emptied", "cut"} = {},
         vol' = vol, data' = data, content' = content, promise' = promise, loose' = loose,
         disk' = disk \/ AsSeen(disk'),
         NEW g, SetFile(n, g), g = file[n] \/ (IsOpen(n) /\ SameBuffer(file[n], g) /\ g.sclust = file[n].sclust),
         IsOpen(n) /\ Writing(n) => Writing(n)' \/ g.mod,
         \/ Seeking(n)'
         \/ ~IsOpen(n)
         \/ g.fptr % SS = 0
         \/ ~Seeking(n) /\ g.fptr = file[n].fptr,
         calls' \in Nat, ReadsRight'
  PROVE  DataInv'
PROOF
<1>1. file'[n] = g /\ \A m \in Names \ {n} : file'[m] = file[m]
  BY Parts DEF SetFile, FilesTyped
<1>2. vol'.dir = vol.dir /\ \A m \in Names : \A k \in 1..Len(ChainOf(m)) : vol'.fat[ChainOf(m)[k]] = vol.fat[ChainOf(m)[k]]
  OBVIOUS
<1>3. file'[n] = file[n] \/ (IsOpen(n) /\ SameBuffer(file[n], file'[n]) /\ file'[n].sclust = file[n].sclust)
  BY <1>1
<1> QED
  BY <1>1, <1>2, <1>3, QuietData

\* What holds of a call that goes on.
LEMMA CallThen ==
  ASSUME FatInv, DataTyped, InCall
  PROVE  /\ IsCall(call) /\ call.n \in Names /\ (call.op # "rename" => Among({call.n}) /\ call.m = call.n)
         /\ \A n \in Names : Its(n, file[n].slot) \/ ~IsOpen(n)
BY Parts, ChainFacts DEF IsCall, Among, DataTyped, OfChain

\* f_read on a cluster boundary.
LEMMA NextToReadData ==
  ASSUME FatInv, FatInv', DataInv, NextToRead
  PROVE  DataInv'
PROOF
<1>1. /\ call.op = "read" /\ call.pc = "next" /\ InCall
      /\ data' = data /\ content' = content /\ promise' = promise /\ loose' = loose /\ calls' = calls
  BY DEF NextToRead, At, InCall
<1>2. DataTyped /\ ReadsRight
  BY DEF DataInv
<1>3. PICK n \in Names : n = call.n /\ Among({n}) /\ call.m = n /\ IsCall(call) /\ IsOpen(n)
  BY <1>1, <1>2, CallThen, Parts DEF Phase
<1>f. PICK f : f = file[n]
  OBVIOUS
<1>4. IsFil(f) /\ f.fptr % BCS = 0
  BY <1>1, <1>3, <1>f, Parts DEF Phase
<1>5. PICK x : SetFile(n, [f EXCEPT !.clust = x]) /\ Goes("sector")
               /\ (IF f.fptr = 0 THEN SeesNothing ELSE SeesFat(f.clust))
  BY <1>1, <1>3, <1>f, NeverEnds DEF NextToRead
<1>g. PICK g : g = [f EXCEPT !.clust = x]
  OBVIOUS
<1>6. SameBuffer(f, g) /\ g.fptr = f.fptr /\ g.sclust = f.sclust
  BY <1>4, <1>g DEF IsFil, FilFields, SameBuffer
<1>7. disk' = disk \/ AsSeen(disk')
  BY <1>5, Parts, SeesNothingKeeps, SeesFatKeeps
<1>8. vol' = vol
  BY <1>5, Parts, SeesNothingKeeps, SeesFatKeeps
<1>9. /\ call'.op = "read" /\ call'.pc = "sector" /\ call'.n = n /\ call'.m = n
      /\ call'.got = call.got /\ call'.at = call.at
  BY <1>1, <1>3, <1>5 DEF Goes, IsCall, CallFields
<1>10. Among({n})' /\ ~Seeking(n) /\ ~Writing(n)
  BY <1>1, <1>9 DEF Among, Seeking, Writing, With, Doing
<1>11. ReadsRight'
  BY <1>1, <1>2, <1>3, <1>9 DEF ReadsRight, InCall
<1>12. call.op \in Moving \cup {"none"} /\ call'.op \in Moving \cup {"none"}
       /\ {call.pc, call'.pc} \cap {"free", "emptied", "cut"} = {}
  BY <1>1, <1>9 DEF Moving
<1>13. calls' \in Nat
  BY <1>1, <1>2 DEF DataTyped
<1> QED
  BY <1>1, <1>3, <1>5, <1>6, <1>7, <1>8, <1>10, <1>11, <1>12, <1>13, <1>f, <1>g, PointerData

\* The FIL that a step gives a file.
FileBecomes(n, g) == file'[n] = g /\ \A m \in Names \ {n} : file'[m] = file[m]

\* A file has the FIL it had, or the one it is given.
LEMMA Becomes ==
  ASSUME FatInv, NEW n \in Names
  PROVE  (file' = file => FileBecomes(n, file[n])) /\ \A g : SetFile(n, g) => FileBecomes(n, g)
BY Parts DEF SetFile, FilesTyped, FileBecomes

Kept(f, g) == SameBuffer(f, g) /\ g.sclust = f.sclust

\* A call on an open file that goes on in this way.
LEMMA OnwardData ==
  ASSUME FatInv, FatInv', DataInv, InCall, call.op \in {"open", "read", "write", "seek"},
         NEW n \in Names, n = call.n, IsOpen(n),
         call'.op = call.op, call'.n = n, call'.m = call.m, call'.got = call.got, call'.at = call.at,
         {call.pc, call'.pc} \cap {"free", "emptied", "cut"} = {},
         vol'.dir = vol.dir, UNCHANGED <<data, content, promise, loose, calls>>,
         \A m \in Names : \A k \in 1..Len(ChainOf(m)) : vol'.fat[ChainOf(m)[k]] = vol.fat[ChainOf(m)[k]],
         disk' = disk \/ AsSeen(disk'),
         NEW g, FileBecomes(n, g), Kept(file[n], g),
         Writing(n) => Writing(n)' \/ g.mod,
         \/ Seeking(n)'
         \/ g.fptr % SS = 0
         \/ ~Seeking(n) /\ g.fptr = file[n].fptr
  PROVE  DataInv'
PROOF
<1>1. file'[n] = g /\ \A m \in Names \ {n} : file'[m] = file[m]
  BY DEF FileBecomes
<1>2. call.m = n
  BY DEF DataInv, DataTyped
<1>3. Among({n}) /\ Among({n})'
  BY <1>2 DEF Among
<1>4. call.op \in Moving \cup {"none"} /\ call'.op \in Moving \cup {"none"}
  BY DEF Moving
<1>5. calls' \in Nat
  BY DEF DataInv, DataTyped
<1>6. ReadsRight'
  BY DEF DataInv, ReadsRight, InCall
<1> QED
  BY <1>1, <1>3, <1>4, <1>5, <1>6, QuietData DEF Kept

\* A call begins that writes nothing before it goes on.
LEMMA BegunData ==
  ASSUME FatInv, FatInv', DataInv, ~InCall, NEW n \in Names,
         call'.op \in {"open", "read", "write", "seek"}, call'.n = n, call'.m = n, call'.got = <<>>,
         call'.pc \notin {"free", "emptied", "cut"}, calls' = calls + 1,
         vol' = vol, UNCHANGED <<data, content, promise, loose>>,
         disk' = disk \/ AsSeen(disk'),
         NEW g, FileBecomes(n, g), g = file[n] \/ (IsOpen(n) /\ Kept(file[n], g)),
         ~IsOpen(n) \/ Seeking(n)' \/ g.fptr = file[n].fptr
  PROVE  DataInv'
PROOF
<1>1. call.op = "none" /\ call.pc = "idle"
  BY AtRest
<1>2. Among({n}) /\ Among({n})'
  BY DEF Among
<1>3. call.op \in Moving \cup {"none"} /\ call'.op \in Moving \cup {"none"}
      /\ {call.pc, call'.pc} \cap {"free", "emptied", "cut"} = {}
  BY <1>1 DEF Moving
<1>4. calls' \in Nat
  <2>1. calls \in Nat
    BY DEF DataInv, DataTyped
  <2> QED
    BY <2>1
<1>5. ReadsRight'
  <2>1. \A u \in DOMAIN call'.got : FALSE
    OBVIOUS
  <2> QED
    BY <2>1 DEF ReadsRight
<1>6. ~Writing(n) /\ ~Seeking(n)
  BY <1>1 DEF Writing, Seeking, With, Doing
<1>7. file'[n] = g /\ \A m \in Names \ {n} : file'[m] = file[m]
  BY DEF FileBecomes
<1> QED
  BY <1>2, <1>3, <1>4, <1>5, <1>6, <1>7, QuietData DEF Kept

\* The fields of a FIL that a step sets.
LEMMA FilSet ==
  ASSUME NEW f, IsFil(f), NEW x, NEW y, NEW z
  PROVE  /\ Kept(f, f)
         /\ \A g \in { [f EXCEPT !.clust = x], [f EXCEPT !.fptr = y], [f EXCEPT !.fptr = y, !.clust = x] } : Kept(f, g)
         /\ Kept(f, [f EXCEPT !.mod = TRUE])
         /\ [f EXCEPT !.clust = x].fptr = f.fptr /\ [f EXCEPT !.mod = TRUE].fptr = f.fptr
         /\ [f EXCEPT !.mod = TRUE].mod
BY DEF IsFil, FilFields, Kept, SameBuffer

\* f_write on a cluster boundary.
LEMMA NextToWriteData ==
  ASSUME FatInv, FatInv', DataInv, NextToWrite
  PROVE  DataInv'
PROOF
<1>1. /\ call.op = "write" /\ call.pc = "next" /\ InCall
      /\ UNCHANGED <<disk, data, vol, content, promise, loose, calls>>
  BY DEF NextToWrite, At, InCall
<1>2. PICK n \in Names : n = call.n /\ IsOpen(n) /\ IsFil(file[n])
  BY <1>1, InTransfer
<1>3. IsCall(call)
  BY <1>1, Parts
<1>4. PICK g : FileBecomes(n, g) /\ Kept(file[n], g) /\ g.fptr = file[n].fptr
  <2>1. CASE SetFile(n, [file[n] EXCEPT !.clust = file[n].sclust])
    BY <1>2, <2>1, FilSet, Becomes
  <2>2. CASE UNCHANGED file
    <3>1. FileBecomes(n, file[n])
      BY <2>2, Becomes
    <3> QED
      BY <1>2, <3>1, FilSet
  <2> QED
    BY <1>2, <2>1, <2>2 DEF NextToWrite
<1>5. /\ call'.op = call.op /\ call'.n = n /\ call'.m = call.m /\ call'.got = call.got /\ call'.at = call.at
      /\ call'.pc \in {"sector", "grow"}
  BY <1>2, <1>3 DEF NextToWrite, Goes, IsCall, CallFields
<1>6. Writing(n)' /\ ~Seeking(n)
  BY <1>1, <1>5 DEF Writing, Seeking, With, Doing
<1>7. {call.pc, call'.pc} \cap {"free", "emptied", "cut"} = {}
  BY <1>1, <1>5
<1> QED
  BY <1>1, <1>2, <1>4, <1>5, <1>6, <1>7, OnwardData

\* f_lseek: the walk along the chain,
LEMMA SeekOnData ==
  ASSUME FatInv, FatInv', DataInv, SeekOn
  PROVE  DataInv'
PROOF
<1>1. call.pc = "seek" /\ UNCHANGED <<data, content, promise, loose, calls>>
  BY DEF SeekOn
<1>2. /\ call.op \in {"open", "seek"} /\ IsCall(call) /\ InCall
      /\ \E n \in Names : n = call.n /\ IsOpen(n) /\ IsFil(file[n])
  BY <1>1, InSeek
<1>3. PICK n \in Names : n = call.n /\ IsOpen(n) /\ IsFil(file[n])
  BY <1>2
<1>f. PICK f : f = file[n]
  OBVIOUS
<1>4. ~Ends("FR_INT_ERR")
  BY <1>2, NeverEnds
<1>5. CASE call.op = "seek" /\ "WRITE" \in f.mode
  <2>1. call' = [call EXCEPT !.pc = "grow", !.cl = f.clust] /\ SeesNothing /\ UNCHANGED file
    BY <1>3, <1>5, <1>f DEF SeekOn
  <2>2. /\ call'.op = call.op /\ call'.n = n /\ call'.m = call.m /\ call'.got = call.got /\ call'.at = call.at
        /\ call'.pc = "grow"
    BY <1>2, <1>3, <2>1 DEF IsCall, CallFields
  <2>3. FileBecomes(n, f) /\ Kept(f, f)
    BY <1>3, <1>f, <2>1, FilSet, Becomes
  <2>4. vol' = vol /\ disk' = disk
    BY <2>1 DEF SeesNothing
  <2>5. Seeking(n)' /\ ~Writing(n)
    BY <1>5, <2>2 DEF Seeking, Writing, With, Doing
  <2>6. {call.pc, call'.pc} \cap {"free", "emptied", "cut"} = {} /\ call.op \in {"open", "read", "write", "seek"}
    BY <1>1, <1>2, <2>2
  <2> QED
    BY <1>1, <1>2, <1>3, <1>f, <2>2, <2>3, <2>4, <2>5, <2>6, OnwardData
<1>6. CASE ~(call.op = "seek" /\ "WRITE" \in f.mode)
  <2>c. PICK c : c = get_fat(f.clust)
    OBVIOUS
  <2>1. SeesFat(f.clust) /\ SetFile(n, [f EXCEPT !.fptr = @ + BCS, !.clust = c]) /\ call' = [call EXCEPT !.left = @ - BCS]
    BY <1>3, <1>4, <1>6, <1>f, <2>c DEF SeekOn
  <2>2. /\ call'.op = call.op /\ call'.n = n /\ call'.m = call.m /\ call'.got = call.got /\ call'.at = call.at
        /\ call'.pc = "seek"
    BY <1>1, <1>2, <1>3, <2>1 DEF IsCall, CallFields
  <2>g. PICK g : g = [f EXCEPT !.fptr = @ + BCS, !.clust = c]
    OBVIOUS
  <2>3. FileBecomes(n, g) /\ Kept(f, g)
    <3>1. Kept(f, g)
      BY <1>3, <1>f, <2>g DEF IsFil, FilFields, Kept, SameBuffer
    <3> QED
      BY <2>1, <2>g, <3>1, Becomes
  <2>4. vol' = vol /\ (disk' = disk \/ AsSeen(disk'))
    BY <2>1, Parts, SeesFatKeeps
  <2>5. Seeking(n)' /\ ~Writing(n)
    BY <1>2, <2>2 DEF Seeking, Writing, With, Doing
  <2>6. {call.pc, call'.pc} \cap {"free", "emptied", "cut"} = {} /\ call.op \in {"open", "read", "write", "seek"}
    BY <1>1, <1>2, <2>2
  <2> QED
    BY <1>1, <1>2, <1>3, <1>f, <2>2, <2>3, <2>4, <2>5, <2>6, OnwardData
<1> QED
  BY <1>5, <1>6

\* and its end.
LEMMA SeekInClusterData ==
  ASSUME FatInv, FatInv', DataInv, SeekInCluster
  PROVE  DataInv'
PROOF
<1>1. call.pc = "seek" /\ UNCHANGED <<disk, vol, data, content, promise, loose, calls>> /\ Goes("seeked")
  BY DEF SeekInCluster
<1>2. /\ call.op \in {"open", "seek"} /\ IsCall(call) /\ InCall
      /\ \E n \in Names : n = call.n /\ IsOpen(n) /\ IsFil(file[n])
  BY <1>1, InSeek
<1>3. PICK n \in Names : n = call.n /\ IsOpen(n) /\ IsFil(file[n])
  BY <1>2
<1>g. PICK g : g = [file[n] EXCEPT !.fptr = @ + call.left]
  OBVIOUS
<1>4. FileBecomes(n, g) /\ Kept(file[n], g)
  <2>1. Kept(file[n], g)
    BY <1>3, <1>g DEF IsFil, FilFields, Kept, SameBuffer
  <2> QED
    BY <1>3, <1>g, <2>1, Becomes DEF SeekInCluster
<1>5. /\ call'.op = call.op /\ call'.n = n /\ call'.m = call.m /\ call'.got = call.got /\ call'.at = call.at
      /\ call'.pc = "seeked"
  BY <1>1, <1>2, <1>3 DEF Goes, IsCall, CallFields
<1>6. Seeking(n)' /\ ~Writing(n)
  BY <1>2, <1>5 DEF Seeking, Writing, With, Doing
<1>7. {call.pc, call'.pc} \cap {"free", "emptied", "cut"} = {} /\ call.op \in {"open", "read", "write", "seek"}
  BY <1>1, <1>2, <1>5
<1> QED
  BY <1>1, <1>2, <1>3, <1>4, <1>5, <1>6, <1>7, OnwardData

\* The beginnings of f_read, f_write and f_lseek, and of an f_open that is refused.
LEMMA TransferBegunData ==
  ASSUME FatInv, FatInv', DataInv, ~InCall, NEW n \in Names, NEW len \in Lengths, ReadFile(n, len) \/ WriteFile(n, len)
  PROVE  DataInv'
PROOF
<1>1. \E op \in {"read", "write"} : \E pc, left :
        /\ call' = [NewCall(op, n, pc) EXCEPT !.left = left] /\ calls' = calls + 1 /\ pc \in {"done", "next", "sector"}
        /\ UNCHANGED <<disk, data, vol, file, content, promise, loose>> /\ IsOpen(n)
  <2>0. ASSUME NEW q, NEW l PROVE PcAt(q, l) \in {"done", "next", "sector"}
    BY DEF PcAt
  <2>1. CASE ReadFile(n, len)
    <3>1. PICK l : call' = [NewCall("read", n, PcAt(file[n].fptr, l)) EXCEPT !.left = l]
      BY <2>1 DEF ReadFile, Begins
    <3>2. PcAt(file[n].fptr, l) \in {"done", "next", "sector"}
      BY <2>0
    <3>3. calls' = calls + 1 /\ UNCHANGED <<disk, data, vol, file, content, promise, loose>> /\ IsOpen(n)
      BY <2>1 DEF ReadFile, Begins
    <3> QED
      BY <3>1, <3>2, <3>3
  <2>2. CASE WriteFile(n, len)
    <3>1. call' = [NewCall("write", n, PcAt(file[n].fptr, len)) EXCEPT !.left = len]
      BY <2>2 DEF WriteFile, Begins
    <3>2. PcAt(file[n].fptr, len) \in {"done", "next", "sector"}
      BY <2>0
    <3>3. calls' = calls + 1 /\ UNCHANGED <<disk, data, vol, file, content, promise, loose>> /\ IsOpen(n)
      BY <2>2 DEF WriteFile, Begins
    <3> QED
      BY <3>1, <3>2, <3>3
  <2> QED
    BY <2>1, <2>2
<1>o. PICK op \in {"read", "write"} : \E pc, left :
        /\ call' = [NewCall(op, n, pc) EXCEPT !.left = left] /\ calls' = calls + 1 /\ pc \in {"done", "next", "sector"}
        /\ UNCHANGED <<disk, data, vol, file, content, promise, loose>> /\ IsOpen(n)
  BY <1>1
<1>p. PICK pc, left :
        /\ call' = [NewCall(op, n, pc) EXCEPT !.left = left] /\ calls' = calls + 1 /\ pc \in {"done", "next", "sector"}
        /\ UNCHANGED <<disk, data, vol, file, content, promise, loose>> /\ IsOpen(n)
  BY <1>o
<1>2. call'.op = op /\ call'.n = n /\ call'.m = n /\ call'.got = <<>> /\ call'.pc = pc
  BY <1>p DEF NewCall
<1>3. FileBecomes(n, file[n])
  BY <1>p, Becomes
<1> QED
  BY <1>p, <1>2, <1>3, BegunData

\* f_lseek, as it is called.
LEMMA SeekFileData ==
  ASSUME FatInv, FatInv', DataInv, ~InCall, NEW n \in Names, NEW offset \in Offsets, SeekFile(n, offset)
  PROVE  DataInv'
PROOF
<1>f. PICK f : f = file[n]
  OBVIOUS
<1>o. PICK ofs : ofs = Clip(f, offset)
  OBVIOUS
<1>h. PICK here : here = (f.fptr - 1) \div BCS
  OBVIOUS
<1>r. PICK near : near = (f.fptr > 0 /\ (ofs - 1) \div BCS >= here)
  OBVIOUS
<1>y. PICK y : y = IF near THEN here * BCS ELSE 0
  OBVIOUS
<1>c. PICK pc : pc = CASE ofs = 0 -> "seeked" [] ofs > 0 /\ ~near /\ f.sclust = 0 -> "grow" [] OTHER -> "seek"
  OBVIOUS
<1>x. PICK x : x = IF near \/ ofs = 0 THEN f.clust ELSE f.sclust
  OBVIOUS
<1>l. PICK left : left = ofs - y
  OBVIOUS
<1>1. /\ call' = [NewCall("seek", n, pc) EXCEPT !.left = left] /\ calls' = calls + 1
      /\ SetFile(n, [file[n] EXCEPT !.fptr = y, !.clust = x])
      /\ UNCHANGED <<disk, data, vol, content, promise, loose>> /\ IsOpen(n)
  BY <1>f, <1>o, <1>h, <1>r, <1>y, <1>c, <1>x, <1>l, Zenon DEF SeekFile, Begins
<1>p. pc \in {"seek", "seeked", "grow"}
  BY <1>c
<1>2. call'.op = "seek" /\ call'.n = n /\ call'.m = n /\ call'.got = <<>> /\ call'.pc = pc
  BY <1>1 DEF NewCall
<1>3. IsFil(file[n])
  BY <1>1, Parts
<1>g. PICK g : g = [file[n] EXCEPT !.fptr = y, !.clust = x]
  OBVIOUS
<1>4. FileBecomes(n, g) /\ Kept(file[n], g)
  BY <1>1, <1>3, <1>g, FilSet, Becomes
<1>5. Seeking(n)'
  BY <1>1, <1>2, <1>p DEF Seeking, With, Doing
<1> QED
  BY <1>1, <1>2, <1>4, <1>5, <1>p, BegunData

\* f_open that is refused.
LEMMA OpenRefusedData ==
  ASSUME FatInv, FatInv', DataInv, ~InCall, NEW n \in Names, NEW mode, ~IsOpen(n), OpenRefused(n, mode),
         UNCHANGED <<data, loose>>
  PROVE  DataInv'
PROOF
<1>1. PICK res :
        /\ call' = [NewCall("open", n, "done") EXCEPT !.res = res] /\ calls' = calls + 1
        /\ Sees(SectorsTo(StopsAt(n)), LastSeen(StopsAt(n)))
        /\ UNCHANGED <<data, file, content, promise, loose>>
  BY DEF OpenRefused, Begins
<1>2. call'.op = "open" /\ call'.n = n /\ call'.m = n /\ call'.got = <<>> /\ call'.pc = "done"
  BY <1>1 DEF NewCall
<1>3. FileBecomes(n, file[n])
  BY <1>1, Becomes
<1>4. LastSeen(StopsAt(n)) \in SectorsTo(StopsAt(n))
  BY Parts, AtRest, SlotOfIs, LastIsSeen
<1>5. vol' = vol /\ (disk' = disk \/ AsSeen(disk'))
  BY <1>1, <1>4, SearchSees
<1> QED
  BY <1>1, <1>2, <1>3, <1>5, BegunData

-----------------------------------------------------------------------------
(* Steps on the table *)

\* A step of create_chain keeps the data if it keeps the file's clusters.
LEMMA GrowthData ==
  ASSUME FatInv, FatInv', DataInv, call.pc \in {"grow", "link"}, NEW n \in Names, n = call.n,
         call'.op = call.op, call'.n = n, call'.m = call.m, call'.got = call.got, call'.at = call.at,
         call'.pc \notin {"free", "emptied", "cut"},
         vol'.dir = vol.dir, UNCHANGED <<data, content, promise, loose, calls>>,
         \A m \in Names \ {n} : \A k \in 1..Len(ChainOf(m)) : vol'.fat[ChainOf(m)[k]] = vol.fat[ChainOf(m)[k]],
         ChainGoesOn(n), disk' = disk \/ AsSeen(disk'),
         NEW g, FileBecomes(n, g), SameBuffer(file[n], g),
         Writing(n) => Writing(n)' \/ g.mod,
         \/ Seeking(n)'
         \/ ~Seeking(n) /\ g.fptr = file[n].fptr
  PROVE  DataInv'
PROOF
<1>1. file'[n] = g /\ \A m \in Names \ {n} : file'[m] = file[m]
  BY DEF FileBecomes
<1>2. call.op \in {"write", "seek"} /\ InCall /\ IsOpen(n)
  BY InGrowth
<1>3. call.m = n
  BY <1>2 DEF DataInv, DataTyped
<1>4. Among({n}) /\ Among({n})'
  BY <1>3 DEF Among
<1>5. call.op \in Moving \cup {"none"} /\ call'.op \in Moving \cup {"none"}
      /\ {call.pc, call'.pc} \cap {"free", "emptied", "cut"} = {}
  BY <1>2 DEF Moving
<1>6. calls' \in Nat
  BY DEF DataInv, DataTyped
<1>7. ReadsRight'
  BY <1>2 DEF DataInv, ReadsRight, InCall
<1> QED
  BY <1>1, <1>2, <1>4, <1>5, <1>6, <1>7, GrownData

\* What the call that goes on in a cluster makes of the FIL and of itself.
LEMMA GoesOnData ==
  ASSUME FatInv, call.pc \in {"grow", "link"}, NEW n \in Names, n = call.n, NEW d \in Clusters, GoesOnIn(d)
  PROVE  \E g : /\ FileBecomes(n, g) /\ SameBuffer(file[n], g)
                /\ call.cl # 0 => g.sclust = file[n].sclust
                /\ call'.op = call.op /\ call'.n = n /\ call'.m = call.m /\ call'.got = call.got
                /\ call'.at = call.at /\ call'.pc \notin {"free", "emptied", "cut"}
                /\ Writing(n) => Writing(n)'
                /\ Seeking(n)' \/ (~Seeking(n) /\ g.fptr = file[n].fptr)
PROOF
<1>1. /\ call.op \in {"write", "seek"} /\ InCall /\ IsOpen(n) /\ IsFil(file[n]) /\ IsCall(call)
  BY InGrowth
<1>k. PICK k : k = (IF call.op = "seek" /\ call.cl # 0 THEN BCS ELSE 0)
  OBVIOUS
<1>f. PICK f : f = file[n]
  OBVIOUS
<1>x. PICK x : x = IF f.sclust = 0 THEN d ELSE f.sclust
  OBVIOUS
<1>h. PICK h : h = [f EXCEPT !.clust = d, !.sclust = x]
  OBVIOUS
<1>g. PICK g : g = [h EXCEPT !.fptr = @ + k]
  OBVIOUS
<1>p. PICK pc : pc = IF call.op = "seek" THEN "seek" ELSE "sector"
  OBVIOUS
<1>c. PICK c : c = [call EXCEPT !.pc = pc, !.left = @ - k]
  OBVIOUS
<1>2. SetFile(n, g) /\ call' = c
  BY <1>k, <1>f, <1>x, <1>h, <1>g, <1>p, <1>c DEF GoesOnIn
<1>3. FileBecomes(n, g)
  BY <1>2, Becomes
<1>4. DOMAIN h = FilFields /\ SameBuffer(f, h) /\ h.sclust = x /\ h.fptr = f.fptr
  BY <1>1, <1>f, <1>h DEF IsFil, FilFields, SameBuffer
<1>5. SameBuffer(f, g) /\ g.sclust = x /\ g.fptr = f.fptr + k
  BY <1>4, <1>g DEF FilFields, SameBuffer
<1>6. /\ c.op = call.op /\ c.n = n /\ c.m = call.m /\ c.got = call.got /\ c.at = call.at /\ c.pc = pc
  BY <1>1, <1>c DEF IsCall, CallFields
<1>7. f.fptr \in Nat
  BY <1>1, <1>f DEF IsFil
<1>8. call.op = "write" => g.fptr = f.fptr
  BY <1>5, <1>7, <1>k
<1>9. call.cl # 0 => x = f.sclust
  <2>1. PICK ch : ChainsFit(ch)
    BY DEF FatInv
  <2>2. call.cl # 0 => ch[n] # <<>> /\ f.sclust = Head0(ch[n]) /\ ch[n] \in Seq(Clusters)
    BY <2>1, <1>f, GrowthIs
  <2> QED
    BY <1>x, <2>2, HeadOf
<1>10. (Writing(n) => Writing(n)') /\ (Seeking(n)' \/ (~Seeking(n) /\ g.fptr = f.fptr))
  BY <1>1, <1>2, <1>6, <1>8, <1>p DEF Writing, Seeking, With, Doing
<1>11. pc \notin {"free", "emptied", "cut"}
  BY <1>p
<1> QED
  BY <1>f, <1>2, <1>3, <1>5, <1>6, <1>9, <1>10, <1>11

\* A free cluster is in no chain.
LEMMA FreeInNoChain ==
  ASSUME FatInv, NEW d \in Clusters, vol.fat[d] = 0, NEW m \in Names, NEW k \in 1..Len(ChainOf(m))
  PROVE  ChainOf(m)[k] # d
PROOF
<1>1. ChainOf(m) \in Seq(Clusters) /\ Linked(vol.fat, ChainOf(m))
  BY ChainFacts DEF OfChain
<1> QED
  BY <1>1, LinkOf DEF Linked

\* Where the chain of the call's file begins, in create_chain.
LEMMA FirstInGrowth ==
  ASSUME FatInv, call.pc \in {"grow", "link"}, NEW n \in Names, n = call.n, IsOpen(n)',
         call'.op = call.op, file'[n].sclust = file[n].sclust
  PROVE  FirstOf(n)' = FirstOf(n)
PROOF
<1>1. call.op \in {"write", "seek"} /\ IsOpen(n)
  BY InGrowth
<1>2. ~Cutting(n) /\ ~Cutting(n)'
  BY <1>1 DEF Cutting, With, Doing
<1> QED
  BY <1>1, <1>2 DEF FirstOf

\* create_chain: the chain goes on,
LEMMA FollowChainData ==
  ASSUME FatInv, FatInv', DataInv, FollowChain
  PROVE  DataInv'
PROOF
<1>1. /\ call.pc = "grow" /\ call.cl # 0 /\ SeesFat(call.cl)
      /\ UNCHANGED <<data, content, promise, loose, calls>>
  BY DEF FollowChain
<1>2. PICK n \in Names : n = call.n /\ IsOpen(n) /\ InCall
  BY <1>1, InGrowth
<1>3. vol.fat[call.cl] \in Clusters /\ GoesOnIn(vol.fat[call.cl])
  BY <1>2, NeverEnds DEF FollowChain
<1>4. vol' = vol /\ (disk' = disk \/ AsSeen(disk'))
  BY <1>1, Parts, SeesFatKeeps
<1>5. PICK g : /\ FileBecomes(n, g) /\ SameBuffer(file[n], g) /\ g.sclust = file[n].sclust
               /\ call'.op = call.op /\ call'.n = n /\ call'.m = call.m /\ call'.got = call.got
               /\ call'.at = call.at /\ call'.pc \notin {"free", "emptied", "cut"}
               /\ Writing(n) => Writing(n)'
               /\ Seeking(n)' \/ (~Seeking(n) /\ g.fptr = file[n].fptr)
  BY <1>1, <1>2, <1>3, GoesOnData
<1>6. FirstOf(n)' = FirstOf(n)
  BY <1>1, <1>2, <1>5, FirstInGrowth DEF FileBecomes, SameBuffer, IsOpen
<1>7. ChainOf(n)' = ChainOf(n)
  BY <1>4, <1>6, ChainStays
<1>8. ChainGoesOn(n)
  BY <1>7 DEF ChainGoesOn
<1> QED
  BY <1>1, <1>2, <1>4, <1>5, <1>8, GrowthData

\* no cluster is free,
LEMMA VolumeFullData ==
  ASSUME FatInv, FatInv', DataInv, VolumeFull
  PROVE  DataInv'
PROOF
<1>1. /\ call.pc = "grow" /\ GoesNoFurther
      /\ UNCHANGED <<data, content, promise, loose, calls>>
  BY DEF VolumeFull
<1>2. PICK n \in Names : n = call.n /\ IsOpen(n) /\ InCall /\ IsFil(file[n]) /\ call.op \in {"write", "seek"} /\ IsCall(call)
  BY <1>1, InGrowth
<1>3. PICK ch0 : ChainsFit(ch0)
  BY DEF FatInv
<1>4. call.cl \in {0} \cup Clusters
  BY <1>1, <1>2, <1>3, GrowthIs
<1>5. vol' = vol /\ (disk' = disk \/ AsSeen(disk'))
  <2>r. PICK far : far = Farthest(call.cl)
    OBVIOUS
  <2>1. far \in Clusters /\ FatSector(far) \in SeenTo(call.cl, far)
    BY <1>4, <2>r, Parts, FarthestIs, SeenLast
  <2>2. \/ Sees(SeenTo(call.cl, far), FatSector(far))
        \/ SeesFat(call.cl)
        \/ SeesNothing
    BY <2>r DEF VolumeFull
  <2> QED
    BY <2>1, <2>2, Parts, SeesKeeps, SeesFatKeeps, SeesNothingKeeps
<1>f. PICK f : f = file[n]
  OBVIOUS
<1>6. PICK g : /\ FileBecomes(n, g) /\ SameBuffer(f, g) /\ g.sclust = f.sclust
               /\ call.op = "write" => g.mod /\ g.fptr = f.fptr
  <2>1. CASE call.op = "write"
    <3>1. SetFile(n, [f EXCEPT !.mod = TRUE])
      BY <1>1, <1>2, <1>f, <2>1 DEF GoesNoFurther
    <3>g. PICK g : g = [f EXCEPT !.mod = TRUE]
      OBVIOUS
    <3>2. Kept(f, g) /\ g.mod /\ g.fptr = f.fptr
      BY <1>2, <1>f, <3>g, FilSet
    <3>3. FileBecomes(n, g)
      BY <3>1, <3>g, Becomes
    <3> QED
      BY <3>2, <3>3 DEF Kept
  <2>2. CASE call.op = "seek" /\ call.cl = 0
    <3>1. SetFile(n, [f EXCEPT !.clust = 0])
      BY <1>1, <1>2, <1>f, <2>2 DEF GoesNoFurther
    <3>g. PICK g : g = [f EXCEPT !.clust = 0]
      OBVIOUS
    <3>2. Kept(f, g)
      BY <1>2, <1>f, <3>g, FilSet
    <3>3. FileBecomes(n, g)
      BY <3>1, <3>g, Becomes
    <3> QED
      BY <2>2, <3>2, <3>3 DEF Kept
  <2>3. CASE call.op = "seek" /\ call.cl # 0
    <3>1. SetFile(n, [f EXCEPT !.fptr = f.fptr + BCS])
      BY <1>1, <1>2, <1>f, <2>3 DEF GoesNoFurther
    <3>g. PICK g : g = [f EXCEPT !.fptr = f.fptr + BCS]
      OBVIOUS
    <3>2. Kept(f, g)
      BY <1>2, <1>f, <3>g, FilSet
    <3>3. FileBecomes(n, g)
      BY <3>1, <3>g, Becomes
    <3> QED
      BY <2>3, <3>2, <3>3 DEF Kept
  <2> QED
    BY <1>2, <2>1, <2>2, <2>3
<1>7. /\ call'.op = call.op /\ call'.n = n /\ call'.m = call.m /\ call'.got = call.got /\ call'.at = call.at
      /\ call'.pc = (IF call.op = "write" THEN "done" ELSE "seeked")
  <2>1. CASE call.op = "write"
    <3>1. call' = [call EXCEPT !.pc = "done", !.short = TRUE]
      BY <1>1, <2>1 DEF GoesNoFurther
    <3> QED
      BY <1>2, <2>1, <3>1 DEF IsCall, CallFields
  <2>2. CASE call.op = "seek"
    <3>1. call' = [call EXCEPT !.pc = "seeked"]
      BY <1>1, <2>2 DEF GoesNoFurther, Goes
    <3> QED
      BY <1>2, <2>2, <3>1 DEF IsCall, CallFields
  <2> QED
    BY <1>2, <2>1, <2>2
<1>8. (Writing(n) => g.mod) /\ (Seeking(n)' \/ (~Seeking(n) /\ g.fptr = f.fptr))
  BY <1>2, <1>6, <1>7 DEF Writing, Seeking, With, Doing
<1>9. FirstOf(n)' = FirstOf(n)
  BY <1>1, <1>2, <1>6, <1>7, <1>f, FirstInGrowth DEF FileBecomes, SameBuffer, IsOpen
<1>10. ChainOf(n)' = ChainOf(n)
  BY <1>5, <1>9, ChainStays
<1>11. ChainGoesOn(n)
  BY <1>10 DEF ChainGoesOn
<1>12. call'.pc \notin {"free", "emptied", "cut"}
  BY <1>7
<1> QED
  BY <1>1, <1>2, <1>5, <1>6, <1>7, <1>8, <1>11, <1>12, <1>f, GrowthData

\* a free one is marked as the end of a chain,
LEMMA TakeClusterData ==
  ASSUME FatInv, FatInv', DataInv, TakeCluster
  PROVE  DataInv'
PROOF
<1>a. PICK a : a = call.cl
  OBVIOUS
<1>d. PICK d : d = Nearest(a)
  OBVIOUS
<1>1. /\ call.pc = "grow" /\ (a # 0 => vol.fat[a] = Eoc) /\ FreeNow # {}
      /\ PutFat(SeenTo(a, d), d, Eoc) /\ UNCHANGED <<data, content, promise, loose, calls>>
  BY <1>a, <1>d DEF TakeCluster, NewMark
<1>2. PICK n \in Names : n = call.n /\ IsOpen(n) /\ InCall /\ IsFil(file[n]) /\ call.op \in {"write", "seek"} /\ IsCall(call)
  BY <1>1, InGrowth
<1>3. PICK ch0 : ChainsFit(ch0) /\ \A m \in Names : ChainOf(m) = ch0[m]
  BY TheChains
<1>4. a \in {0} \cup Clusters /\ (a = 0 => ch0[n] = <<>>)
  BY <1>a, <1>1, <1>2, <1>3, GrowthIs
<1>5. d \in Clusters /\ vol.fat[d] = 0
  BY <1>d, <1>1, <1>4, Parts, NearestIs
<1>6. /\ disk' = disk \/ AsSeen(disk')
      /\ vol'.fat = [vol.fat EXCEPT ![d] = Eoc] /\ vol'.dir = vol.dir
  BY <1>1, <1>5, Parts, PutFatKeeps DEF Links
<1>7. \A m \in Names : \A k \in 1..Len(ChainOf(m)) : vol'.fat[ChainOf(m)[k]] = vol.fat[ChainOf(m)[k]]
  <2> SUFFICES ASSUME NEW m \in Names, NEW k \in 1..Len(ChainOf(m))
               PROVE  vol'.fat[ChainOf(m)[k]] = vol.fat[ChainOf(m)[k]]
    OBVIOUS
  <2>1. ChainOf(m)[k] # d /\ ChainOf(m) \in Seq(Clusters)
    BY <1>5, FreeInNoChain, ChainFacts DEF OfChain
  <2>c. PICK c \in Clusters : c = ChainOf(m)[k]
    BY <2>1
  <2>2. vol.fat \in Tables
    BY Parts
  <2> QED
    BY <1>6, <2>1, <2>2, <2>c DEF Tables
<1>8. CASE a = 0
  <2>1. GoesOnIn(d)
    BY <1>8, <1>a, <1>d DEF TakeCluster, NewMark
  <2>2. PICK g : /\ FileBecomes(n, g) /\ SameBuffer(file[n], g)
                 /\ call'.op = call.op /\ call'.n = n /\ call'.m = call.m /\ call'.got = call.got
                 /\ call'.at = call.at /\ call'.pc \notin {"free", "emptied", "cut"}
                 /\ Writing(n) => Writing(n)'
                 /\ Seeking(n)' \/ (~Seeking(n) /\ g.fptr = file[n].fptr)
    BY <1>1, <1>2, <1>5, <2>1, GoesOnData
  <2>3. ChainOf(n) = <<>>
    BY <1>3, <1>4, <1>8
  <2>4. ChainGoesOn(n)
    <3>1. \A k \in 1..0 : FALSE
      OBVIOUS
    <3> QED
      BY <2>3, <3>1 DEF ChainGoesOn
  <2> QED
    BY <1>1, <1>2, <1>6, <1>7, <2>2, <2>4, GrowthData
<1>9. CASE a # 0
  <2>1. call' = [call EXCEPT !.pc = "link", !.new = d] /\ file' = file
    BY <1>9, <1>a, <1>d DEF TakeCluster, NewMark
  <2>2. /\ call'.op = call.op /\ call'.n = n /\ call'.m = call.m /\ call'.got = call.got /\ call'.at = call.at
        /\ call'.pc = "link"
    BY <1>2, <2>1 DEF IsCall, CallFields
  <2>3. FileBecomes(n, file[n]) /\ SameBuffer(file[n], file[n])
    BY <1>2, <2>1, Becomes, FilSet DEF Kept
  <2>4. FirstOf(n)' = FirstOf(n)
    BY <1>1, <1>2, <2>1, <2>2, FirstInGrowth DEF IsOpen
  <2>5. ChainOf(n)' = ChainOf(n)
    BY <1>7, <2>4, ChainStays
  <2>6. ChainGoesOn(n)
    BY <2>5 DEF ChainGoesOn
  <2>7. (Writing(n) => Writing(n)') /\ (Seeking(n)' \/ ~Seeking(n))
    BY <1>2, <2>2 DEF Writing, Seeking, With, Doing
  <2> QED
    BY <1>1, <1>2, <1>6, <1>7, <2>2, <2>3, <2>6, <2>7, GrowthData
<1> QED
  BY <1>8, <1>9

\* and the chain of the file is linked to it.
LEMMA LinkClusterData ==
  ASSUME FatInv, FatInv', DataInv, LinkCluster
  PROVE  DataInv'
PROOF
<1>a. PICK a : a = call.cl
  OBVIOUS
<1>d. PICK d : d = call.new
  OBVIOUS
<1>1. /\ call.pc = "link" /\ PutFat({}, a, d) /\ GoesOnIn(d)
      /\ UNCHANGED <<data, content, promise, loose, calls>>
  BY <1>a, <1>d DEF LinkCluster
<1>2. PICK n \in Names : n = call.n /\ IsOpen(n) /\ IsFil(file[n]) /\ Growing(file[n])
  BY <1>1, InGrowth
<1>3. d \in Clusters /\ vol.fat[a] = Eoc /\ vol.fat \in Tables /\ WindowFits
  BY <1>a, <1>d, <1>1, InGrowth, Parts
<1>4. PICK ch : ChainsFit(ch) /\ \A m \in Names : ChainOf(m) = ch[m]
  BY TheChains
<1>5. a # 0 /\ a \in Clusters
  BY <1>a, <1>1, <1>2 DEF Growing
<1>6. /\ disk' = disk \/ AsSeen(disk')
      /\ vol'.fat = [vol.fat EXCEPT ![a] = d] /\ vol'.dir = vol.dir
  BY <1>1, <1>3, <1>5, PutFatKeeps DEF Links
<1>7. /\ Chained(vol.fat, ch) /\ ch[Nobody] = <<d>> /\ ch \in Chainings
  BY <1>d, <1>1, <1>4 DEF ChainsFit, Floating, Chained
<1>8. n \in Owners /\ Nobody \in Owners /\ n # Nobody
  BY NobodyIs DEF Owners
<1>9. PICK s : s = ch[n]
  OBVIOUS
<1>10. /\ s \in Seq(Clusters) /\ Linked(vol.fat, s) /\ file[n].sclust = Head0(s) /\ s # <<>>
       /\ a = s[Len(s)]
  BY <1>a, <1>1, <1>2, <1>3, <1>4, <1>5, <1>9, GrowthIs
<1>13. PICK ch2 : ch2 = [ch EXCEPT ![n] = Append(@, d), ![Nobody] = <<>>]
  OBVIOUS
<1>14. Chained(vol'.fat, ch2)
  <2>1. Chained([vol.fat EXCEPT ![ch[n][Len(ch[n])]] = d], [ch EXCEPT ![n] = Append(@, d), ![Nobody] = <<>>])
    BY <1>3, <1>7, <1>9, <1>10, JoinChain
  <2> QED
    BY <1>6, <1>9, <1>10, <1>13, <2>1
<1>r. PICK r : r = Append(s, d)
  OBVIOUS
<1>15. ch2[n] = r
  <2>1. [ch EXCEPT ![n] = Append(@, d)] = [ch EXCEPT ![n] = r]
    BY <1>7, <1>9, <1>r
  <2>2. ch2 = [ch EXCEPT ![n] = r, ![Nobody] = <<>>] /\ DOMAIN ch = Owners
    BY <1>7, <1>9, <1>13, <1>r DEF Chainings
  <2> QED
    BY <1>8, <2>2
<1>16. /\ r \in Seq(Clusters) /\ Len(r) = Len(s) + 1 /\ Len(s) \in Nat
       /\ (\A k \in 1..Len(s) : r[k] = s[k]) /\ Head0(r) = Head0(s)
  <2>1. /\ r \in Seq(Clusters) /\ Len(r) = Len(s) + 1 /\ Len(s) \in Nat
        /\ (\A k \in 1..Len(s) : r[k] = s[k])
    BY <1>3, <1>10, <1>r, AppendIs
  <2>2. 1 \in 1..Len(s) /\ Head0(s) = s[1] /\ r # <<>>
    BY <1>10, <2>1, HeadOf
  <2> QED
    BY <2>1, <2>2 DEF Head0
<1>17. PICK g : /\ FileBecomes(n, g) /\ SameBuffer(file[n], g) /\ g.sclust = file[n].sclust
                /\ call'.op = call.op /\ call'.n = n /\ call'.m = call.m /\ call'.got = call.got
                /\ call'.at = call.at /\ call'.pc \notin {"free", "emptied", "cut"}
                /\ Writing(n) => Writing(n)'
                /\ Seeking(n)' \/ (~Seeking(n) /\ g.fptr = file[n].fptr)
  BY <1>a, <1>1, <1>2, <1>3, <1>5, GoesOnData
<1>18. FirstOf(n)' = Head0(r)
  <2>1. FirstOf(n)' = FirstOf(n)
    BY <1>1, <1>2, <1>17, FirstInGrowth DEF FileBecomes, SameBuffer, IsOpen
  <2>2. FirstOf(n) = Head0(s)
    BY <1>4, <1>9, FirstIs0
  <2> QED
    BY <1>16, <2>1, <2>2
<1>19. ChainOf(n)' = r
  <2>t. PICK t : t = vol'.fat
    OBVIOUS
  <2>1. Linked(t, r) /\ \A k, l \in 1..Len(r) : r[k] = r[l] => k = l
    BY <1>8, <1>14, <1>15, <2>t DEF Chained, Distinct
  <2> QED
    BY <1>16, <1>18, <2>1, <2>t, ChainThen
<1>20. ChainGoesOn(n)
  <2>1. ChainOf(n) = s
    BY <1>4, <1>9
  <2>2. \A k \in 1..Len(s) : k \in 1..Len(r)
    BY <1>16
  <2> QED
    BY <1>16, <1>19, <2>1, <2>2 DEF ChainGoesOn
<1>21. \A m \in Names \ {n} : \A k \in 1..Len(ChainOf(m)) : vol'.fat[ChainOf(m)[k]] = vol.fat[ChainOf(m)[k]]
  <2> SUFFICES ASSUME NEW m \in Names \ {n}, NEW k \in 1..Len(ChainOf(m))
               PROVE  vol'.fat[ChainOf(m)[k]] = vol.fat[ChainOf(m)[k]]
    OBVIOUS
  <2>1. ChainOf(m) \in Seq(Clusters) /\ ChainOf(n) = s /\ Len(s) \in 1..Len(s)
    BY <1>4, <1>9, <1>10, ChainFacts, HeadOf DEF OfChain
  <2>2. ChainOf(m)[k] # a
    BY <1>10, <2>1, ChainFacts
  <2>c. PICK c \in Clusters : c = ChainOf(m)[k]
    BY <2>1
  <2> QED
    BY <1>3, <1>6, <2>2, <2>c DEF Tables
<1> QED
  BY <1>1, <1>2, <1>6, <1>17, <1>20, <1>21, GrowthData

\* f_getfree.
LEMMA GetFreeData ==
  ASSUME FatInv, FatInv', DataInv, ~InCall, GetFree
  PROVE  DataInv'
PROOF
<1>1. UNCHANGED <<data, file, call, content, promise, loose>> /\ calls' = calls + 1
  BY DEF GetFree
<1>2. vol' = vol /\ (disk' = disk \/ AsSeen(disk'))
  <2>1. FatSector(LastCluster) \in {FatSector(c) : c \in Clusters}
    BY Sizes DEF Clusters
  <2>2. SeesNothing \/ Sees({FatSector(c) : c \in Clusters}, FatSector(LastCluster))
    BY DEF GetFree
  <2> QED
    BY <2>1, <2>2, Parts, SeesKeeps, SeesNothingKeeps
<1>3. calls' \in Nat
  <2>1. calls \in Nat
    BY DEF DataInv, DataTyped
  <2> QED
    BY <1>1, <2>1
<1>4. Among({}) /\ Among({})'
  BY <1>1 DEF Among, InCall
<1>5. AtReturn' /\ ReadsRight'
  BY <1>1, AtRest DEF AtReturn, ReadsRight, InCall, Doing
<1>6. DataTyped'
  BY <1>1, <1>3 DEF DataInv, DataTyped, IsOpen, InCall
<1> QED
  BY <1>1, <1>2, <1>4, <1>5, <1>6, StepData
=============================================================================
