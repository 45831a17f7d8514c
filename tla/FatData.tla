------------------------------- MODULE FatData -------------------------------
(***************************************************************************)
(* The files of FatVolume hold what was written to them: every step keeps  *)
(* DataInv of FatProofs, so that a read returns what was written last and, *)
(* whenever the power fails, the disk has what f_sync, f_close, f_unlink   *)
(* and f_rename have promised of each file.                                *)
(***************************************************************************)
EXTENDS FatProofs

-----------------------------------------------------------------------------
(* Steps that write the buffer back *)

\* The buffer of a file is written to its sector, if it has to be.
LEMMA FlushStep ==
  ASSUME FatInv, FatInv', DataInv, NEW n \in Names, IsOpen(n), Among({n}), Among({n})',
         call.op # "rename", call'.op # "rename", vol' = vol, disk' = disk,
         UNCHANGED <<content, promise, loose>>,
         data' = IF file[n].dirty THEN [data EXCEPT ![file[n].sect] = file[n].buf] ELSE data,
         NEW g, FileBecomes(n, g), g.open, g.sect = file[n].sect, g.buf = file[n].buf, g.dirty = FALSE,
         FirstOf(n)' = FirstOf(n), Lens(n)', Marked(n)', Inside(n)', Current(n)',
         calls' \in Nat, AtReturn', ReadsRight'
  PROVE  DataInv'
PROOF
<1>f. PICK f : f = file[n]
  OBVIOUS
<1>s. PICK s : s = ChainOf(n)
  OBVIOUS
<1>1. DataTyped /\ (\A m \in Names : DataFits(m))
  BY DEF DataInv
<1>2. Kinds(n) /\ Lens(n) /\ Fits(n) /\ Own(n) /\ Pledge(n) /\ DiskKeeps(n)
  BY <1>1 DEF DataFits
<1>3. file'[n] = g /\ (\A m \in Names \ {n} : file'[m] = file[m]) /\ IsOpen(n)'
  BY DEF FileBecomes, IsOpen
<1>4. ChainOf(n)' = s
  BY <1>s, ChainStays
<1>5. f.dirty => f.sect \in Places0
  BY <1>2, <1>f DEF Own
<1>6. /\ data \in [Places0 -> OneSector] /\ f.buf \in OneSector /\ f.dirty \in BOOLEAN
  BY <1>1, <1>f DEF DataTyped
<1>7. /\ data' \in [Places0 -> OneSector]
      /\ f.dirty => data'[f.sect] = f.buf
      /\ \A x \in Places0 : (f.dirty /\ f.sect = x) \/ data'[x] = data[x]
  BY <1>5, <1>6, <1>f
<1>8. \A p \in 1..Len(UnitsOf(n)) : Loc(s, p) \in Places0
  BY <1>1, <1>2, <1>s, UnitsInChain
<1>9. \A i \in Slots : Its(n, i)' <=> Its(n, i)
  BY DEF Its, IsFile, Excused, Doing
<1>10. UnitsOf(n)' = UnitsOf(n) /\ PledgedOf(n)' = PledgedOf(n)
  BY DEF UnitsOf, PledgedOf
<1>11. \A p \in 1..Len(UnitsOf(n)) : UnitsOf(n)[p] \in {Unset, data'[Loc(s, p)][Off(p)]}
  <2> SUFFICES ASSUME NEW p \in 1..Len(UnitsOf(n)) PROVE UnitsOf(n)[p] \in {Unset, data'[Loc(s, p)][Off(p)]}
    OBVIOUS
  <2>1. CASE f.dirty /\ f.sect = Loc(s, p)
    <3>1. UnitsOf(n)[p] \in {Unset, f.buf[Off(p)]}
      BY <1>2, <1>f, <1>s, <2>1 DEF Fits
    <3> QED
      BY <1>7, <2>1, <3>1
  <2>2. CASE ~(f.dirty /\ f.sect = Loc(s, p))
    <3>1. UnitsOf(n)[p] \in {Unset, data[Loc(s, p)][Off(p)]}
      BY <1>2, <1>f, <1>s, <2>2 DEF Fits
    <3> QED
      BY <1>7, <1>8, <2>2, <3>1
  <2> QED
    BY <2>1, <2>2
<1>12. Fits(n)'
  <2>1. \A p \in 1..Len(UnitsOf(n)) : f.sect = Loc(s, p) => UnitsOf(n)[p] \in {Unset, f.buf[Off(p)]}
    BY <1>2, <1>f, <1>s DEF Fits
  <2> QED
    BY <1>3, <1>4, <1>10, <1>11, <1>f, <2>1 DEF Fits
<1>13. Own(n)'
  BY <1>3 DEF Own
<1>14. Kinds(n)'
  BY <1>2, <1>9 DEF Kinds
<1>15. Pledge(n)'
  <2> SUFFICES ASSUME promise[n].kind # "open"
               PROVE  /\ promise'[n].kind = content'[n].kind /\ Len(PledgedOf(n)') <= Len(UnitsOf(n)')
                      /\ n \notin loose' /\ ~(Removing /\ call.n = n)'
                      /\ \A p \in 1..Len(PledgedOf(n)') :
                           /\ PledgedOf(n)'[p] = UnitsOf(n)'[p]
                           /\ PledgedOf(n)'[p] \in {Unset, data'[Loc(ChainOf(n)', p)][Off(p)]}
                      /\ \A i \in Slots : Its(n, i)' => vol'.dir[i].size >= Len(PledgedOf(n)')
    BY DEF Pledge
  <2>1. /\ promise[n].kind = content[n].kind /\ Len(PledgedOf(n)) <= Len(UnitsOf(n)) /\ n \notin loose
        /\ \A p \in 1..Len(PledgedOf(n)) : PledgedOf(n)[p] = UnitsOf(n)[p]
        /\ \A i \in Slots : Its(n, i) => vol.dir[i].size >= Len(PledgedOf(n))
    BY <1>2 DEF Pledge
  <2>2. \A p \in 1..Len(PledgedOf(n)) : p \in 1..Len(UnitsOf(n))
    BY <1>1, <2>1, Ghosts
  <2>3. ~(Removing /\ call.n = n)'
    BY DEF Removing, Doing
  <2> QED
    BY <1>4, <1>9, <1>10, <1>11, <2>1, <2>2, <2>3
<1>16. DiskKeeps(n)'
  BY <1>1, <1>2, <1>4, <1>s, DiskKept
<1>17. DataFits(n)'
  BY <1>12, <1>13, <1>14, <1>15, <1>16 DEF DataFits
<1>18. ASSUME NEW m \in Names, m # n, NEW x \in Places0, NEW k \in 1..Len(ChainOf(m)), ChainOf(m)[k] = x[1]
       PROVE  data'[x] = data[x]
  <2> SUFFICES ASSUME f.dirty, f.sect = x PROVE FALSE
    BY <1>7
  <2>1. CASE Cutting(n)
    BY <1>2, <1>18, <1>f, <2>1 DEF Own
  <2>2. CASE ~Cutting(n)
    <3>1. PICK l \in 1..Len(s) : s[l] = x[1]
      BY <1>2, <1>f, <1>s, <2>2 DEF Own
    <3> QED
      BY <1>18, <1>s, <3>1, ChainFacts
  <2> QED
    BY <2>1, <2>2
<1>19. DataTyped'
  <2>1. \A m \in Names : IsOpen(m)' => file'[m].buf \in OneSector /\ file'[m].dirty \in BOOLEAN
    BY <1>1, <1>3, <1>6, <1>f DEF DataTyped, IsOpen
  <2>2. InCall' /\ call'.op # "rename" => call'.m = call'.n
    BY DEF Among
  <2> QED
    BY <1>1, <1>7, <2>1, <2>2 DEF DataTyped
<1> QED
  BY <1>3, <1>17, <1>18, <1>19, StepData

\* FlushBuffer: the buffer goes to the disk before it takes another sector.
LEMMA FlushBufferData ==
  ASSUME FatInv, FatInv', DataInv, FlushBuffer
  PROVE  DataInv'
PROOF
<1>1. /\ call.pc \in {"sector", "seeked"} /\ call' = call /\ vol' = vol /\ disk' = disk
      /\ UNCHANGED <<content, promise, loose, calls>>
      /\ file[call.n].dirty /\ data' = [data EXCEPT ![file[call.n].sect] = file[call.n].buf]
      /\ SetFile(call.n, [file[call.n] EXCEPT !.dirty = FALSE])
  BY DEF FlushBuffer
<1>2. call.op \in {"read", "write", "open", "seek"} /\ InCall /\ IsCall(call)
      /\ \E n \in Names : n = call.n /\ IsOpen(n) /\ IsFil(file[n])
  <2>1. CASE call.pc = "seeked"
    BY <2>1, InSeek
  <2>2. CASE call.pc = "sector"
    <3>1. call.op \in {"read", "write"}
      BY <2>2, Parts DEF Phase, InCall, Idle
    <3> QED
      BY <3>1, InTransfer DEF InCall
  <2> QED
    BY <1>1, <2>1, <2>2
<1>3. PICK n \in Names : n = call.n /\ IsOpen(n) /\ IsFil(file[n])
  BY <1>2
<1>g. PICK g : g = [file[n] EXCEPT !.dirty = FALSE]
  OBVIOUS
<1>4. FileBecomes(n, g)
  BY <1>1, <1>3, <1>g, Becomes
<1>5. /\ g.open /\ g.sect = file[n].sect /\ g.buf = file[n].buf /\ g.dirty = FALSE /\ g.fptr = file[n].fptr
      /\ g.size = file[n].size /\ g.sclust = file[n].sclust /\ g.mod = file[n].mod /\ g.slot = file[n].slot
  BY <1>3, <1>g DEF IsFil, FilFields
<1>6. DataTyped /\ DataFits(n) /\ call.m = n
  BY <1>2, <1>3 DEF DataInv, DataTyped
<1>7. Among({n}) /\ Among({n})'
  BY <1>1, <1>3, <1>6 DEF Among
<1>8. IsOpen(n)' /\ file'[n] = g
  BY <1>4, <1>5 DEF FileBecomes, IsOpen
<1>9. FirstOf(n)' = FirstOf(n)
  <2>1. Cutting(n)' <=> Cutting(n)
    BY <1>1 DEF Cutting, With, Doing
  <2> QED
    BY <1>1, <1>3, <1>5, <1>8, <2>1, FirstStays
<1>10. ChainOf(n)' = ChainOf(n)
  BY <1>1, <1>9, ChainStays
<1>11. /\ (Cutting(n)' <=> Cutting(n)) /\ (Writing(n)' <=> Writing(n)) /\ (Seeking(n)' <=> Seeking(n))
       /\ (Apart(n)' <=> Apart(n))
  BY <1>1 DEF Cutting, Writing, Seeking, Apart, With, Doing
<1>12. Lens(n)' /\ Inside(n)' /\ Current(n)'
  <2>1. Lens(n) /\ Inside(n) /\ Current(n)
    BY <1>6 DEF DataFits
  <2>2. Lens(n)'
    BY <1>1, <1>3, <1>5, <1>8, <1>11, <2>1 DEF Lens, UnitsOf
  <2>3. Inside(n)'
    BY <1>3, <1>5, <1>8, <1>10, <1>11, <2>1 DEF Inside
  <2>4. Current(n)'
    BY <1>1, <1>3, <1>5, <1>8, <1>11, <2>1 DEF Current
  <2> QED
    BY <2>2, <2>3, <2>4
<1>13. Marked(n)'
  <2>1. Marked(n)
    BY <1>6 DEF DataFits
  <2>2. ~With(n, {"sync", "close"}, {"done"})'
    BY <1>1, <1>2 DEF With, Doing
  <2>3. ~file[n].mod /\ ~Writing(n) /\ ~Cutting(n) => vol.dir[file[n].slot].size = file[n].size
    BY <1>3, <2>1 DEF Marked
  <2> QED
    BY <1>1, <1>3, <1>5, <1>8, <1>11, <2>2, <2>3 DEF Marked
<1>14. AtReturn' /\ ReadsRight' /\ calls' \in Nat
  <2>1. AtReturn /\ ReadsRight /\ calls \in Nat
    BY <1>6 DEF DataInv, DataTyped
  <2>2. AtReturn'
    BY <1>1, <1>2 DEF AtReturn, Doing
  <2> QED
    BY <1>1, <2>1, <2>2 DEF ReadsRight, InCall
<1>15. data' = IF file[n].dirty THEN [data EXCEPT ![file[n].sect] = file[n].buf] ELSE data
  BY <1>1, <1>3
<1>16. call.op # "rename" /\ call'.op # "rename"
  BY <1>1, <1>2
<1> QED
  BY <1>1, <1>3, <1>4, <1>5, <1>7, <1>9, <1>12, <1>13, <1>14, <1>15, <1>16, FlushStep

\* f_truncate: the end.
LEMMA CutData ==
  ASSUME FatInv, FatInv', DataInv, Cut
  PROVE  DataInv'
PROOF
<1>1. /\ call.pc = "cut" /\ vol' = vol /\ disk' = disk /\ Ends("FR_OK")
      /\ UNCHANGED <<content, promise, loose, calls>>
  BY DEF Cut
<1>2. call.op = "truncate" /\ InCall /\ IsOpen(call.n) /\ IsCall(call)
  BY <1>1, Parts DEF Phase, InCall, Idle
<1>3. PICK n \in Names : n = call.n /\ IsOpen(n) /\ IsFil(file[n])
  BY <1>2, Parts DEF IsCall
<1>f. PICK f : f = file[n]
  OBVIOUS
<1>x. PICK x : x = IF f.fptr = 0 THEN 0 ELSE f.sclust
  OBVIOUS
<1>g. PICK g : g = [f EXCEPT !.sclust = x, !.size = f.fptr, !.mod = TRUE, !.dirty = FALSE]
  OBVIOUS
<1>4. /\ SetFile(n, g)
      /\ data' = IF f.dirty THEN [data EXCEPT ![f.sect] = f.buf] ELSE data
  BY <1>3, <1>f, <1>x, <1>g DEF Cut
<1>5. FileBecomes(n, g)
  BY <1>4, Becomes
<1>6. /\ g.open /\ g.sect = f.sect /\ g.buf = f.buf /\ g.dirty = FALSE /\ g.fptr = f.fptr
      /\ g.size = f.fptr /\ g.sclust = x /\ g.mod /\ g.slot = f.slot
  BY <1>3, <1>f, <1>g DEF IsFil, FilFields
<1>7. DataTyped /\ DataFits(n) /\ call.m = n
  BY <1>2, <1>3 DEF DataInv, DataTyped
<1>8. /\ call'.op = "truncate" /\ call'.n = n /\ call'.m = n /\ call'.pc = "done"
  BY <1>1, <1>2, <1>3, <1>7 DEF Ends, IsCall, CallFields
<1>9. Among({n}) /\ Among({n})'
  BY <1>3, <1>7, <1>8 DEF Among
<1>10. IsOpen(n)' /\ file'[n] = g
  BY <1>5, <1>6 DEF FileBecomes, IsOpen
<1>11. Cutting(n) /\ ~Cutting(n)' /\ ~Seeking(n) /\ ~Seeking(n)' /\ ~Writing(n)'
  BY <1>1, <1>2, <1>3, <1>8 DEF Cutting, Seeking, Writing, With, Doing
<1>12. FirstOf(n)' = FirstOf(n)
  BY <1>3, <1>6, <1>10, <1>11, <1>f, <1>x DEF FirstOf
<1>13. ChainOf(n)' = ChainOf(n)
  BY <1>1, <1>12, ChainStays
<1>14. Lens(n)' /\ Inside(n)' /\ Current(n)' /\ Marked(n)'
  <2>1. Lens(n) /\ Inside(n)
    BY <1>7 DEF DataFits
  <2>2. Lens(n)'
    BY <1>1, <1>3, <1>6, <1>10, <1>11, <1>f, <2>1 DEF Lens, UnitsOf
  <2>3. Inside(n)'
    BY <1>3, <1>6, <1>10, <1>11, <1>13, <1>f, <2>1 DEF Inside
  <2>4. Current(n)'
    BY <1>6, <1>10 DEF Current
  <2>5. Marked(n)'
    BY <1>6, <1>8, <1>10 DEF Marked, With, Doing
  <2> QED
    BY <2>2, <2>3, <2>4, <2>5
<1>15. AtReturn' /\ ReadsRight' /\ calls' \in Nat
  BY <1>1, <1>7, <1>8 DEF AtReturn, ReadsRight, Doing, DataTyped
<1>16. data' = IF file[n].dirty THEN [data EXCEPT ![file[n].sect] = file[n].buf] ELSE data
  BY <1>4, <1>f
<1>17. call.op # "rename" /\ call'.op # "rename"
  BY <1>2, <1>8
<1> QED
  BY <1>1, <1>3, <1>5, <1>6, <1>9, <1>12, <1>14, <1>15, <1>16, <1>17, <1>f, FlushStep

-----------------------------------------------------------------------------
(* f_sync and f_close *)

\* A file that has nothing to be written, and is as its entry says, is closed.
LEMMA ClosedData ==
  ASSUME FatInv, FatInv', DataInv, NEW n \in Names, IsOpen(n), Among({n}), call.op # "rename",
         vol' = vol, data' = data, disk' = disk \/ AsSeen(disk'), UNCHANGED <<content, promise, loose>>,
         ~file[n].dirty, ~Cutting(n),
         vol.dir[file[n].slot].clust = file[n].sclust, vol.dir[file[n].slot].size = file[n].size,
         FileBecomes(n, NoFile), call'.op = "close", call'.n = n, call'.m = n,
         calls' \in Nat, AtReturn', ReadsRight'
  PROVE  DataInv'
PROOF
<1>f. PICK f : f = file[n]
  OBVIOUS
<1>s. PICK s : s = ChainOf(n)
  OBVIOUS
<1>1. DataTyped /\ (\A m \in Names : DataFits(m))
  BY DEF DataInv
<1>2. Kinds(n) /\ Lens(n) /\ Fits(n) /\ Own(n) /\ Pledge(n) /\ DiskKeeps(n)
  BY <1>1 DEF DataFits
<1>3. file'[n] = NoFile /\ (\A m \in Names \ {n} : file'[m] = file[m]) /\ ~IsOpen(n)'
  BY DEF FileBecomes, IsOpen, NoFile
<1>4. \A i \in Slots : Its(n, i)' <=> Its(n, i)
  BY DEF Its, IsFile, Excused, Doing
<1>5. f.slot \in Slots /\ Its(n, f.slot) /\ (\A i \in Slots : Its(n, i) => i = f.slot)
  BY <1>f, ChainFacts, OneEntry DEF OfChain, IsFil
<1>6. FirstOf(n)' = FirstOf(n)
  <2>i. PICK i : i = (CHOOSE j \in Slots : Its(n, j)')
    OBVIOUS
  <2>1. i \in Slots /\ Its(n, i)'
    BY <1>4, <1>5, <2>i
  <2>2. i = f.slot
    BY <1>4, <1>5, <2>1
  <2>3. FirstOf(n)' = vol'.dir[i].clust
    BY <1>3, <1>4, <1>5, <2>i DEF FirstOf
  <2>4. FirstOf(n) = f.sclust
    BY <1>f DEF FirstOf
  <2> QED
    BY <1>f, <2>2, <2>3, <2>4
<1>7. ChainOf(n)' = s
  BY <1>6, <1>s, ChainStays
<1>8. UnitsOf(n)' = UnitsOf(n) /\ PledgedOf(n)' = PledgedOf(n)
  BY DEF UnitsOf, PledgedOf
<1>9. Kinds(n)'
  BY <1>2, <1>4 DEF Kinds
<1>10. Lens(n)'
  <2>1. Len(UnitsOf(n)) = f.size
    BY <1>2, <1>f DEF Lens
  <2>2. \A i \in Slots : Its(n, i)' => vol'.dir[i].size = Len(UnitsOf(n))
    BY <1>4, <1>5, <1>f, <2>1
  <2> QED
    BY <1>3, <1>8, <2>2 DEF Lens
<1>11. Fits(n)'
  <2>1. \A p \in 1..Len(UnitsOf(n)) : UnitsOf(n)[p] \in {Unset, data[Loc(s, p)][Off(p)]}
    BY <1>2, <1>s DEF Fits
  <2> QED
    BY <1>3, <1>7, <1>8, <2>1 DEF Fits
<1>12. Own(n)' /\ Marked(n)' /\ Inside(n)'
  BY <1>3 DEF Own, Marked, Inside
<1>13. Pledge(n)'
  <2> SUFFICES ASSUME promise[n].kind # "open"
               PROVE  /\ promise'[n].kind = content'[n].kind /\ Len(PledgedOf(n)') <= Len(UnitsOf(n)')
                      /\ n \notin loose' /\ ~(Removing /\ call.n = n)'
                      /\ \A p \in 1..Len(PledgedOf(n)') :
                           /\ PledgedOf(n)'[p] = UnitsOf(n)'[p]
                           /\ PledgedOf(n)'[p] \in {Unset, data'[Loc(ChainOf(n)', p)][Off(p)]}
                      /\ \A i \in Slots : Its(n, i)' => vol'.dir[i].size >= Len(PledgedOf(n)')
    BY DEF Pledge
  <2>1. ~(Removing /\ call.n = n)'
    BY DEF Removing, Doing
  <2> QED
    BY <1>2, <1>4, <1>7, <1>8, <1>s, <2>1 DEF Pledge
<1>14. DiskKeeps(n)'
  BY <1>1, <1>2, <1>7, <1>s, DiskKept
<1>15. Current(n)'
  BY DEF Current, Apart
<1>16. DataFits(n)'
  BY <1>9, <1>10, <1>11, <1>12, <1>13, <1>14, <1>15 DEF DataFits
<1>17. DataTyped'
  <2>1. \A m \in Names : IsOpen(m)' => file'[m].buf \in OneSector /\ file'[m].dirty \in BOOLEAN
    BY <1>1, <1>3 DEF DataTyped, IsOpen
  <2> QED
    BY <1>1, <2>1 DEF DataTyped
<1>18. Among({n})'
  BY DEF Among
<1> QED
  BY <1>3, <1>16, <1>17, <1>18, StepData

\* f_sync and f_close begin.
LEMMA SyncBegunData ==
  ASSUME FatInv, FatInv', DataInv, ~InCall, NEW n \in Names, NEW op \in {"sync", "close"}, IsOpen(n), f_sync(n, op),
         UNCHANGED <<disk, vol, content, promise, loose>>
  PROVE  DataInv'
PROOF
<1>f. PICK f : f = file[n]
  OBVIOUS
<1>p. PICK pc : pc = IF f.mod THEN "entry" ELSE "done"
  OBVIOUS
<1>1. call' = NewCall(op, n, pc) /\ calls' = calls + 1
  BY <1>f, <1>p DEF f_sync, Begins
<1>2. call'.op = op /\ call'.n = n /\ call'.m = n /\ call'.pc = pc
  BY <1>1 DEF NewCall
<1>3. DataTyped /\ DataFits(n) /\ IsFil(f) /\ f.mod \in BOOLEAN /\ f.dirty \in BOOLEAN
  BY <1>f, Parts DEF DataInv, DataTyped, IsFil
<1>4. call.op = "none" /\ call.pc = "idle"
  BY AtRest
<1>5. Among({n}) /\ Among({n})'
  BY <1>2 DEF Among
<1>6. calls' \in Nat
  <2>1. calls \in Nat
    BY <1>3 DEF DataTyped
  <2> QED
    BY <1>1, <2>1
<1>7. /\ ~Cutting(n) /\ ~Cutting(n)' /\ ~Seeking(n) /\ ~Seeking(n)' /\ ~Writing(n) /\ ~Writing(n)'
  BY <1>2, <1>4 DEF Cutting, Seeking, Writing, With, Doing
<1>8. ReadsRight'
  BY <1>2 DEF ReadsRight
<1>9. Marked(n) /\ Lens(n) /\ Inside(n) /\ Current(n)
  BY <1>3 DEF DataFits
<1>10. ~f.mod => ~f.dirty /\ vol.dir[f.slot].size = f.size
  BY <1>3, <1>7, <1>9, <1>f DEF Marked
<1>11. ~f.mod => promise[n] = content[n]
  <2>1. Apart(n)
    BY <1>4 DEF Apart, Writing, Cutting, With, Doing
  <2> QED
    BY <1>9, <1>f, <2>1 DEF Current
<1>12. AtReturn'
  BY <1>2, <1>11, <1>p DEF AtReturn, Doing
<1>13. call.op # "rename" /\ call'.op # "rename"
  BY <1>2, <1>4
<1>14. CASE f.mod \/ op = "sync"
  <2>g. PICK g : g = IF f.mod THEN [f EXCEPT !.dirty = FALSE] ELSE f
    OBVIOUS
  <2>1. SetFile(n, g)
    BY <1>14, <1>f, <1>3, <2>g DEF f_sync
  <2>2. FileBecomes(n, g)
    BY <2>1, Becomes
  <2>3. data' = IF f.dirty THEN [data EXCEPT ![f.sect] = f.buf] ELSE data
    BY <1>3, <1>10, <1>f DEF f_sync
  <2>4. /\ g.open /\ g.sect = f.sect /\ g.buf = f.buf /\ g.dirty = FALSE /\ g.fptr = f.fptr
        /\ g.size = f.size /\ g.sclust = f.sclust /\ g.mod = f.mod /\ g.slot = f.slot
    <3>1. CASE f.mod
      BY <1>3, <2>g, <3>1 DEF IsFil, FilFields
    <3>2. CASE ~f.mod
      BY <1>3, <1>10, <2>g, <3>2 DEF IsFil
    <3> QED
      BY <3>1, <3>2
  <2>5. IsOpen(n)' /\ file'[n] = g
    BY <2>2, <2>4 DEF FileBecomes, IsOpen
  <2>6. FirstOf(n)' = FirstOf(n)
    BY <1>7, <1>f, <2>4, <2>5 DEF FirstOf
  <2>7. ChainOf(n)' = ChainOf(n)
    BY <2>6, ChainStays
  <2>8. Lens(n)' /\ Inside(n)' /\ Current(n)' /\ Marked(n)'
    <3>1. Lens(n)'
      BY <1>7, <1>9, <1>f, <2>4, <2>5 DEF Lens, UnitsOf
    <3>2. Inside(n)'
      BY <1>7, <1>9, <1>f, <2>4, <2>5, <2>7 DEF Inside
    <3>3. Current(n)'
      BY <1>2 DEF Current, Apart
    <3>4. Marked(n)'
      BY <1>2, <1>10, <1>p, <2>4, <2>5 DEF Marked, With, Doing
    <3> QED
      BY <3>1, <3>2, <3>3, <3>4
  <2> QED
    BY <1>5, <1>6, <1>8, <1>12, <1>13, <1>f, <2>2, <2>3, <2>4, <2>6, <2>8, FlushStep
<1>15. CASE ~f.mod /\ op = "close"
  <2>1. SetFile(n, NoFile) /\ data' = data
    BY <1>15, <1>f DEF f_sync
  <2>2. FileBecomes(n, NoFile)
    BY <2>1, Becomes
  <2>3. vol.dir[f.slot].clust = f.sclust
    <3>1. PICK ch : ChainsFit(ch)
      BY DEF FatInv
    <3> QED
      BY <1>15, <1>f, <3>1, PointerAtRest
  <2> QED
    BY <1>2, <1>5, <1>6, <1>7, <1>8, <1>10, <1>12, <1>13, <1>15, <1>f, <2>1, <2>2, <2>3, ClosedData
<1> QED
  BY <1>3, <1>14, <1>15

\* f_sync and f_close, as they are called.
LEMMA SyncFileData ==
  ASSUME FatInv, FatInv', DataInv, ~InCall, NEW n \in Names, SyncFile(n) \/ CloseFile(n)
  PROVE  DataInv'
BY SyncBegunData DEF SyncFile, CloseFile

\* A call that synchronises goes on with the entries and the disk alone.
LEMMA SyncGoesOn ==
  ASSUME FatInv, FatInv', DataInv, call.op \in {"sync", "close", "unlink", "rename"}, call'.op = call.op,
         call'.n = call.n, call'.m = call.m, ~Removing, ~Removing', vol'.fat = vol.fat,
         \A i \in Slots : \/ vol'.dir[i] = vol.dir[i]
                          \/ /\ call.m = call.n /\ IsOpen(call.n) /\ i = file[call.n].slot
                             /\ vol'.dir[i] = Entry(call.n, file[call.n].sclust, file[call.n].size),
         disk' = disk \/ AsSeen(disk'), UNCHANGED <<data, content, promise, loose, calls>>,
         \A m \in Names : \/ file'[m] = file[m]
                          \/ m = call.n /\ IsOpen(m) /\ file'[m] = [file[m] EXCEPT !.mod = FALSE],
         \A n \in {call.n, call.m} : Marked(n)', AtReturn'
  PROVE  DataInv'
PROOF
<1>t. PICK T : T = {call.n, call.m}
  OBVIOUS
<1>1. DataTyped /\ (\A m \in Names : DataFits(m)) /\ IsCall(call)
  BY Parts DEF DataInv, InCall
<1>2. Among(T) /\ Among(T)'
  BY <1>t DEF Among
<1>3. \A m \in Names : m \notin T => file'[m] = file[m]
  BY <1>t
<1>4. \A m \in Names : IsOpen(m) =>
        /\ file'[m].open /\ file'[m].size = file[m].size /\ file'[m].sect = file[m].sect
        /\ file'[m].buf = file[m].buf /\ file'[m].dirty = file[m].dirty
        /\ file'[m].fptr = file[m].fptr /\ file'[m].sclust = file[m].sclust
  <2> SUFFICES ASSUME NEW m \in Names, IsOpen(m)
               PROVE  /\ file'[m].open /\ file'[m].size = file[m].size /\ file'[m].sect = file[m].sect
                      /\ file'[m].buf = file[m].buf /\ file'[m].dirty = file[m].dirty
                      /\ file'[m].fptr = file[m].fptr /\ file'[m].sclust = file[m].sclust
    OBVIOUS
  <2>f. PICK f : f = file[m]
    OBVIOUS
  <2>1. IsFil(f)
    BY <2>f, Parts
  <2>g. PICK g : g = [f EXCEPT !.mod = FALSE]
    OBVIOUS
  <2>2. /\ g.open /\ g.size = f.size /\ g.sect = f.sect /\ g.buf = f.buf /\ g.dirty = f.dirty
        /\ g.fptr = f.fptr /\ g.sclust = f.sclust
    BY <2>1, <2>g DEF IsFil, FilFields
  <2>3. file'[m] = f \/ file'[m] = g
    BY <2>f, <2>g
  <2> QED
    BY <2>1, <2>2, <2>3, <2>f DEF IsFil
<1>5. \A m \in Names : IsOpen(m)' <=> IsOpen(m)
  <2>1. \A m \in Names : IsOpen(m) => IsOpen(m)'
    BY <1>4 DEF IsOpen
  <2>2. \A m \in Names : ~IsOpen(m) => ~IsOpen(m)'
    BY DEF IsOpen
  <2> QED
    BY <2>1, <2>2
<1>6. \A m \in Names : ~Cutting(m) /\ ~Cutting(m)' /\ ~Seeking(m) /\ ~Seeking(m)'
  BY DEF Cutting, Seeking, With, Doing
<1>7. ASSUME NEW n \in Names, n \in T PROVE DataFits(n)'
  <2>1. DataFits(n) /\ Lens(n) /\ Inside(n) /\ Pledge(n)
    BY <1>1 DEF DataFits
  <2>2. \A i \in Slots : /\ Its(n, i)' <=> Its(n, i)
                         /\ Its(n, i) => \/ vol'.dir[i] = vol.dir[i]
                                         \/ IsOpen(n) /\ vol'.dir[i].size = file[n].size
    <3> SUFFICES ASSUME NEW i \in Slots
                 PROVE  /\ Its(n, i)' <=> Its(n, i)
                        /\ Its(n, i) => \/ vol'.dir[i] = vol.dir[i]
                                        \/ IsOpen(n) /\ vol'.dir[i].size = file[n].size
      OBVIOUS
    <3>1. ~Excused(i) /\ ~Excused(i)'
      BY DEF Excused, Removing, Doing
    <3>2. CASE vol'.dir[i] = vol.dir[i]
      BY <3>1, <3>2 DEF Its, IsFile
    <3>3. CASE /\ call.m = call.n /\ IsOpen(call.n) /\ i = file[call.n].slot
               /\ vol'.dir[i] = Entry(call.n, file[call.n].sclust, file[call.n].size)
      <4>1. n = call.n /\ Its(n, i)
        BY <1>7, <1>t, <3>3, ChainFacts DEF OfChain
      <4>2. vol'.dir[i].kind = "file" /\ vol'.dir[i].name = n /\ vol'.dir[i].size = file[n].size
        BY <3>3, <4>1 DEF Entry
      <4> QED
        BY <3>1, <3>3, <4>1, <4>2 DEF Its, IsFile
    <3> QED
      BY <3>2, <3>3
  <2>3. FirstOf(n)' = FirstOf(n)
    <3>1. CASE IsOpen(n)
      BY <1>4, <1>5, <1>6, <3>1, FirstStays
    <3>2. CASE ~IsOpen(n)
      BY <1>5, <2>2, <3>2, FirstStays
    <3> QED
      BY <3>1, <3>2
  <2>4. ChainOf(n)' = ChainOf(n) /\ ChainGoesOn(n)
    BY <2>3, ChainStays DEF ChainGoesOn
  <2>5. ASSUME IsOpen(n) PROVE file[n].size >= Len(PledgedOf(n))
    <3>1. Len(UnitsOf(n)) = file[n].size /\ Len(UnitsOf(n)) \in Nat
      BY <1>1, <1>6, <2>1, <2>5, Ghosts DEF Lens
    <3>2. CASE promise[n].kind # "open"
      BY <1>1, <2>1, <3>1, <3>2, Ghosts DEF Pledge
    <3>3. CASE promise[n].kind = "open"
      BY <1>1, <3>1, <3>3, Ghosts
    <3> QED
      BY <3>2, <3>3
  <2>6. \A i \in Slots : Its(n, i) =>
          \/ vol'.dir[i].size = vol.dir[i].size
          \/ IsOpen(n) /\ vol'.dir[i].size >= Len(PledgedOf(n))
    BY <2>2, <2>5
  <2>7. Inside(n)'
    BY <1>4, <1>5, <1>6, <2>1, <2>4 DEF Inside
  <2>8. Current(n)'
    BY <1>7, <1>t DEF Current, Apart
  <2>9. Marked(n)'
    BY <1>7, <1>t
  <2> QED
    BY <1>1, <1>4, <1>5, <1>6, <2>1, <2>2, <2>4, <2>6, <2>7, <2>8, <2>9, SameData
<1>8. \A i \in Slots : \/ vol'.dir[i] = vol.dir[i]
                       \/ (IsFile(i) => vol.dir[i].name \in T) /\ (IsFile(i)' => vol'.dir[i].name \in T)
  <2> SUFFICES ASSUME NEW i \in Slots, vol'.dir[i] # vol.dir[i]
               PROVE  vol.dir[i].name \in T /\ vol'.dir[i].name \in T
    OBVIOUS
  <2>1. IsOpen(call.n) /\ i = file[call.n].slot /\ call.n \in Names
        /\ vol'.dir[i] = Entry(call.n, file[call.n].sclust, file[call.n].size)
    BY <1>1 DEF IsCall
  <2>2. Its(call.n, i)
    BY <2>1, ChainFacts DEF OfChain
  <2> QED
    BY <1>t, <2>1, <2>2 DEF Its, Entry
<1>9. DataTyped' /\ ReadsRight'
  <2>1. \A m \in Names : IsOpen(m)' => file'[m].buf \in OneSector /\ file'[m].dirty \in BOOLEAN
    BY <1>1, <1>4, <1>5 DEF DataTyped
  <2>2. InCall' /\ call'.op # "rename" => call'.m = call'.n
    BY <1>1 DEF DataTyped, InCall
  <2> QED
    BY <1>1, <2>1, <2>2 DEF DataTyped, ReadsRight
<1>10. \A m \in Names : m \notin T =>
         /\ file'[m] = file[m] /\ content'[m] = content[m] /\ promise'[m] = promise[m]
         /\ \A k \in 1..Len(ChainOf(m)) : vol'.fat[ChainOf(m)[k]] = vol.fat[ChainOf(m)[k]]
         /\ \A x \in Places0 : (\E k \in 1..Len(ChainOf(m)) : ChainOf(m)[k] = x[1]) => data'[x] = data[x]
         /\ m \in loose' => m \in loose
  BY <1>3
<1>11. \A n \in T : n \in Names => DataFits(n)'
  BY <1>7
<1> QED
  BY <1>2, <1>8, <1>9, <1>10, <1>11, StepData

\* f_sync: the entry,
LEMMA SyncEntryData ==
  ASSUME FatInv, FatInv', DataInv, SyncEntry
  PROVE  DataInv'
PROOF
<1>1. /\ call.pc = "entry" /\ Goes("window") /\ UNCHANGED <<data, file, content, promise, loose, calls>>
      /\ PutDir({}, file[call.n].slot, Entry(call.n, file[call.n].sclust, file[call.n].size))
  BY DEF SyncEntry
<1>2. PICK n \in Names : n = call.n /\ IsOpen(n) /\ IsFil(file[n]) /\ file[n].mod
                         /\ call.op \in {"sync", "close"} /\ InCall /\ IsCall(call) /\ ~Removing
  BY <1>1, InSync, Parts
<1>e. PICK e : e = Entry(n, file[n].sclust, file[n].size)
  OBVIOUS
<1>3. EntryOk(e)
  BY <1>2, <1>e DEF EntryOk, Entry, IsFil
<1>4. file[n].slot \in Slots /\ PutDir({}, file[n].slot, e) /\ WindowFits
  BY <1>1, <1>2, <1>e, Parts DEF IsFil
<1>5. /\ disk' = disk \/ AsSeen(disk')
      /\ vol'.fat = vol.fat /\ vol'.dir[file[n].slot] = e /\ \A j \in Slots \ {file[n].slot} : vol'.dir[j] = vol.dir[j]
  BY <1>3, <1>4, PutDirKeeps
<1>6. call'.op = call.op /\ call'.n = n /\ call'.m = call.m /\ call'.pc = "window" /\ call.m = n
  BY <1>1, <1>2 DEF Goes, IsCall, CallFields, DataInv, DataTyped
<1>7. ~Removing' /\ AtReturn'
  BY <1>2, <1>6 DEF Removing, AtReturn, Doing
<1>8. Marked(n)'
  <2>1. Marked(n)
    BY <1>2 DEF DataInv, DataFits
  <2>2. ~file[n].dirty
    BY <1>1, <1>2, <2>1 DEF Marked, With, Doing
  <2> QED
    BY <1>1, <1>2, <1>6, <2>2 DEF Marked, With, Doing
<1>9. \A i \in Slots : \/ vol'.dir[i] = vol.dir[i]
                       \/ /\ call.m = call.n /\ IsOpen(call.n) /\ i = file[call.n].slot
                          /\ vol'.dir[i] = Entry(call.n, file[call.n].sclust, file[call.n].size)
  BY <1>2, <1>5, <1>6, <1>e
<1> QED
  BY <1>1, <1>2, <1>5, <1>6, <1>7, <1>8, <1>9, SyncGoesOn

\* the window,
LEMMA SyncWindowData ==
  ASSUME FatInv, FatInv', DataInv, sync_window
  PROVE  DataInv'
PROOF
<1>1. /\ call.pc = "window" /\ Goes("info") /\ UNCHANGED <<data, vol, file, content, promise, loose, calls>>
      /\ disk' = IF win.dirty THEN Written ELSE disk
  BY DEF sync_window
<1>2. /\ InCall /\ IsCall(call) /\ ~Removing /\ call.op \in {"sync", "close", "unlink", "rename"}
  BY <1>1, InSync
<1>3. disk' = disk \/ AsSeen(disk')
  BY <1>1, Parts, WrittenIs
<1>4. call'.op = call.op /\ call'.n = call.n /\ call'.m = call.m /\ call'.pc = "info"
  BY <1>1, <1>2 DEF Goes, IsCall, CallFields
<1>5. ~Removing' /\ AtReturn'
  BY <1>4 DEF Removing, AtReturn, Doing
<1>6. ASSUME NEW n \in {call.n, call.m} PROVE Marked(n)'
  <2>1. Marked(n) /\ n \in Names
    BY <1>2 DEF DataInv, DataFits, IsCall
  <2> QED
    BY <1>1, <1>2, <1>4, <2>1 DEF Marked, With, Doing, Writing, Cutting, IsOpen
<1> QED
  BY <1>1, <1>2, <1>3, <1>4, <1>5, <1>6, SyncGoesOn

\* and the FSINFO.
LEMMA WriteInfoData ==
  ASSUME FatInv, FatInv', DataInv, WriteInfo
  PROVE  DataInv'
PROOF
<1>1. /\ call.pc = "info" /\ Ends("FR_OK") /\ UNCHANGED <<data, vol, content, promise, loose, calls>>
  BY DEF WriteInfo
<1>2. /\ InCall /\ IsCall(call) /\ ~Removing /\ call.op \in {"sync", "close", "unlink", "rename"}
      /\ ~win.dirty /\ call.n \in Names
  BY <1>1, InSync
<1>3. disk' = disk \/ AsSeen(disk')
  <2>1. AsSeen(disk)
    BY <1>2, Parts, WrittenIs
  <2>2. disk' = disk \/ disk' = [disk EXCEPT !.info = [free |-> fs.free, next |-> fs.last]]
    BY DEF WriteInfo
  <2>3. DOMAIN disk = {"fat", "dir", "info"}
    BY DEF FatInv, Typed, DiskTyped
  <2> QED
    BY <2>1, <2>2, <2>3 DEF AsSeen
<1>4. call'.op = call.op /\ call'.n = call.n /\ call'.m = call.m /\ call'.pc = "done"
  BY <1>1, <1>2 DEF Ends, IsCall, CallFields
<1>5. ~Removing' /\ AtReturn' /\ ReadsRight'
  <2>1. win' = win \/ win' = [win EXCEPT !.sect = InfoSector]
    BY DEF WriteInfo
  <2>2. ~win'.dirty
    BY <1>2, <2>1, Parts DEF FatInv, Typed
  <2> QED
    BY <1>2, <1>4, <2>2 DEF Removing, AtReturn, ReadsRight, Doing
<1>6. ASSUME NEW n \in {call.n, call.m} PROVE Marked(n) /\ n \in Names
  BY <1>2 DEF DataInv, DataFits, IsCall
<1>7. CASE call.op = "sync"
  <2>n. PICK n \in Names : n = call.n
    BY <1>2
  <2>1. IsOpen(n) /\ IsFil(file[n]) /\ call.m = n /\ vol.dir[file[n].slot] = Entry(n, file[n].sclust, file[n].size)
    BY <1>1, <1>2, <1>7, <2>n, InSync, Parts DEF DataInv, DataTyped
  <2>g. PICK g : g = [file[n] EXCEPT !.mod = FALSE]
    OBVIOUS
  <2>2. FileBecomes(n, g)
    <3>1. file' = [file EXCEPT ![n] = g]
      BY <1>7, <2>n, <2>g, Zenon DEF WriteInfo
    <3> QED
      BY <3>1, Becomes DEF SetFile
  <2>3. ~file[n].dirty
    BY <1>1, <1>6, <1>7, <2>n, <2>1 DEF Marked, With, Doing
  <2>4. ~g.dirty /\ g.open /\ g.slot = file[n].slot /\ g.size = file[n].size /\ ~g.mod
    BY <2>1, <2>3, <2>g DEF IsFil, FilFields
  <2>5. Marked(n)'
    <3>1. file'[n] = g
      BY <2>2 DEF FileBecomes
    <3>2. vol.dir[file[n].slot].size = file[n].size
      BY <2>1 DEF Entry
    <3> QED
      BY <1>1, <2>4, <3>1, <3>2 DEF Marked
  <2> QED
    BY <1>1, <1>2, <1>3, <1>4, <1>5, <2>n, <2>1, <2>2, <2>5, <2>g, SyncGoesOn DEF FileBecomes
<1>8. CASE call.op = "close"
  <2>n. PICK n \in Names : n = call.n
    BY <1>2
  <2>1. IsOpen(n) /\ call.m = n /\ vol.dir[file[n].slot] = Entry(n, file[n].sclust, file[n].size)
    BY <1>1, <1>2, <1>8, <2>n, InSync DEF DataInv, DataTyped
  <2>2. FileBecomes(n, NoFile)
    <3>1. SetFile(n, NoFile)
      BY <1>8, <2>n DEF WriteInfo, SetFile
    <3> QED
      BY <3>1, Becomes
  <2>3. ~file[n].dirty
    BY <1>1, <1>6, <1>8, <2>n, <2>1 DEF Marked, With, Doing
  <2>4. vol.dir[file[n].slot].clust = file[n].sclust /\ vol.dir[file[n].slot].size = file[n].size
    BY <2>1 DEF Entry
  <2>5. Among({n}) /\ ~Cutting(n) /\ calls' \in Nat
    BY <1>1, <1>8, <2>n, <2>1 DEF Among, Cutting, With, Doing, DataInv, DataTyped
  <2> QED
    BY <1>1, <1>3, <1>4, <1>5, <1>8, <2>n, <2>1, <2>2, <2>3, <2>4, <2>5, ClosedData
<1>9. CASE call.op \in {"unlink", "rename"}
  <2>1. file' = file
    BY <1>9 DEF WriteInfo
  <2>2. ASSUME NEW n \in {call.n, call.m} PROVE Marked(n)'
    <3>1. ~IsOpen(n)
      <4>1. n = call.n \/ call.op = "rename"
        BY <1>2, <1>9 DEF DataInv, DataTyped
      <4> QED
        BY <1>1, <1>9, <2>2, <4>1, InSync
    <3> QED
      BY <2>1, <3>1 DEF Marked, IsOpen
  <2> QED
    BY <1>1, <1>2, <1>3, <1>4, <1>5, <2>1, <2>2, SyncGoesOn
<1> QED
  BY <1>2, <1>7, <1>8, <1>9

-----------------------------------------------------------------------------
(* The end of a call *)

\* A call returns: what it synchronised, removed or renamed is promised.
LEMMA ReturnData ==
  ASSUME FatInv, FatInv', DataInv, Return
  PROVE  DataInv'
PROOF
<1>1. /\ InCall /\ call.pc = "done" /\ call' = Idle /\ UNCHANGED <<disk, data, vol, win, file, content, calls>>
      /\ \A m \in Names : promise'[m] =
           IF m \in {call.n, call.m} /\ call.op \in {"sync", "close", "unlink", "rename"} THEN content[m]
           ELSE promise[m]
      /\ promise' = [m \in Names |-> promise'[m]]
      /\ loose' = IF call.op \in {"sync", "close"} THEN loose \ {call.n} ELSE loose
  BY DEF Return
<1>2. /\ IsCall(call) /\ call.n \in Names /\ call.m \in Names /\ DataTyped /\ AtReturn
      /\ call.op # "rename" => call.m = call.n
      /\ call.op \in {"open", "read", "write", "seek", "truncate", "sync", "close", "unlink", "rename"}
      /\ call.op = "unlink" => ~IsOpen(call.n)
      /\ call.op = "rename" => ~IsOpen(call.n) /\ ~IsOpen(call.m)
  BY <1>1, Parts DEF IsCall, DataInv, DataTyped, Phase, InCall
<1>3. call'.op = "none" /\ call'.pc = "idle" /\ ~InCall'
  BY <1>1 DEF Idle, InCall
<1>t. PICK T : T = {call.n, call.m}
  OBVIOUS
<1>4. Among(T) /\ Among(T)'
  BY <1>3, <1>t DEF Among
<1>5. \A n : /\ ~Cutting(n) /\ ~Writing(n) /\ ~Seeking(n) /\ ~Cutting(n)' /\ ~Writing(n)' /\ ~Seeking(n)'
             /\ ~With(n, {"open"}, {"free", "emptied"}) /\ ~With(n, {"open"}, {"free", "emptied"})'
  BY <1>1, <1>3 DEF Cutting, Writing, Seeking, With, Doing
<1>6. ~Removing /\ ~Removing'
  BY <1>1, <1>3 DEF Removing, Doing
<1>7. ASSUME NEW n \in T PROVE DataFits(n)'
  <2>s. PICK s : s = ChainOf(n)
    OBVIOUS
  <2>0. n \in Names /\ n \in {call.n, call.m} /\ DataFits(n)
    BY <1>2, <1>7, <1>t DEF DataInv
  <2>1. Kinds(n) /\ Lens(n) /\ Fits(n) /\ Own(n) /\ Marked(n) /\ Inside(n) /\ Pledge(n) /\ DiskKeeps(n) /\ Current(n)
    BY <2>0 DEF DataFits
  <2>2. \A i \in Slots : Its(n, i)' <=> Its(n, i)
    BY <1>1, <1>6 DEF Its, IsFile, Excused, Removing, Doing
  <2>3. (IsOpen(n)' <=> IsOpen(n)) /\ file'[n] = file[n]
    BY <1>1 DEF IsOpen
  <2>4. FirstOf(n)' = FirstOf(n)
    BY <1>1, <1>5, <2>2, <2>3, FirstStays
  <2>5. ChainOf(n)' = s /\ ChainGoesOn(n)
    <3>1. ChainOf(n)' = ChainOf(n)
      BY <1>1, <2>0, <2>4, ChainStays
    <3> QED
      BY <3>1, <2>s DEF ChainGoesOn
  <2>6. Inside(n)'
    BY <1>5, <2>1, <2>3, <2>5, <2>s DEF Inside
  <2>7. Marked(n)'
    <3>1. ~With(n, {"sync", "close"}, {"entry", "window", "info"})' /\ ~With(n, {"sync", "close"}, {"done"})'
      BY <1>3 DEF With, Doing
    <3> QED
      BY <1>1, <1>5, <2>1, <2>3, <3>1 DEF Marked
  <2>8. CASE call.op \notin {"sync", "close", "unlink", "rename"}
    <3>1. promise'[n] = promise[n] /\ loose' = loose
      BY <1>1, <2>0, <2>8
    <3>2. Current(n)'
      <4>1. Apart(n)
        BY <1>5, <2>8 DEF Apart
      <4> QED
        BY <1>1, <2>1, <2>3, <3>1, <4>1 DEF Current
    <3> QED
      BY <1>1, <1>2, <1>5, <1>6, <2>0, <2>2, <2>3, <2>5, <2>6, <2>7, <3>1, <3>2, SameData
  <2>9. CASE call.op \in {"sync", "close", "unlink", "rename"}
    <3>1. promise'[n] = content[n]
      BY <1>1, <2>0, <2>9
    <3>2. IsOpen(n) => call.op \in {"sync", "close"} /\ call.n = n
      BY <1>2, <2>0, <2>9
    <3>3. n \notin loose' /\ ~Loose(n)
      <4>1. CASE call.op \in {"sync", "close"}
        BY <1>1, <1>2, <2>0, <4>1 DEF Loose, With, Doing
      <4>2. CASE call.op \in {"unlink", "rename"}
        <5>1. n \notin loose
          BY <3>2, <4>2 DEF FatInv, LooseFit, With, Doing
        <5> QED
          BY <1>1, <4>2, <5>1 DEF Loose
      <4> QED
        BY <2>9, <4>1, <4>2
    <3>4. IsOpen(n) => ~file[n].dirty /\ vol.dir[file[n].slot].size = file[n].size
      <4>1. IsOpen(n) => With(n, {"sync", "close"}, {"done"})
        BY <1>1, <3>2 DEF With, Doing
      <4> QED
        BY <1>5, <2>1, <4>1 DEF Marked
    <3>5. \A i \in Slots : Its(n, i) => vol.dir[i].size = Len(UnitsOf(n))
      <4>1. CASE IsOpen(n)
        <5>1. Its(n, file[n].slot) /\ file[n].slot \in Slots
          BY <2>0, <4>1, ChainFacts DEF OfChain, IsFil
        <5>2. Len(UnitsOf(n)) = file[n].size
          BY <1>5, <2>1, <4>1 DEF Lens
        <5> QED
          BY <3>4, <4>1, <5>1, <5>2, OneEntry
      <4>2. CASE ~IsOpen(n)
        BY <2>1, <4>2 DEF Lens
      <4> QED
        BY <4>1, <4>2
    <3>6. \A p \in 1..Len(UnitsOf(n)) : UnitsOf(n)[p] \in {Unset, data[Loc(s, p)][Off(p)]}
      BY <2>1, <2>s, <3>4 DEF Fits
    <3>7. UnitsOf(n)' = UnitsOf(n) /\ PledgedOf(n)' = UnitsOf(n) /\ Len(UnitsOf(n)) \in Nat
      BY <1>1, <1>2, <2>0, <3>1, Ghosts DEF UnitsOf, PledgedOf
    <3>8. Kinds(n)' /\ Lens(n)' /\ Fits(n)' /\ Own(n)'
      <4>1. Kinds(n)'
        BY <1>1, <2>1, <2>2 DEF Kinds
      <4>2. Lens(n)'
        <5>1. IsOpen(n) => Len(UnitsOf(n)) = file[n].size
          BY <1>5, <2>1 DEF Lens
        <5> QED
          BY <1>1, <1>5, <2>2, <2>3, <3>5, <3>7, <5>1 DEF Lens
      <4>3. Fits(n)'
        BY <1>1, <2>1, <2>3, <2>5, <2>s, <3>7 DEF Fits
      <4>4. Own(n)'
        BY <2>3, <3>4 DEF Own
      <4> QED
        BY <4>1, <4>2, <4>3, <4>4
    <3>9. Pledge(n)'
      <4> SUFFICES /\ promise'[n].kind = content'[n].kind /\ Len(PledgedOf(n)') <= Len(UnitsOf(n)')
                   /\ n \notin loose' /\ ~(Removing /\ call.n = n)'
                   /\ \A p \in 1..Len(PledgedOf(n)') :
                        /\ PledgedOf(n)'[p] = UnitsOf(n)'[p]
                        /\ PledgedOf(n)'[p] \in {Unset, data'[Loc(ChainOf(n)', p)][Off(p)]}
                   /\ \A i \in Slots : Its(n, i)' => vol'.dir[i].size >= Len(PledgedOf(n)')
        BY DEF Pledge
      <4>1. \A i \in Slots : Its(n, i)' => vol'.dir[i].size >= Len(PledgedOf(n)')
        BY <1>1, <2>2, <3>5, <3>7
      <4>2. Len(PledgedOf(n)') <= Len(UnitsOf(n)')
        BY <3>7
      <4> QED
        BY <1>1, <1>6, <2>5, <3>1, <3>3, <3>6, <3>7, <4>1, <4>2
    <3>10. KeptOn(disk, n, content[n], s)
      <4>1. CASE ~win.dirty
        <5>1. AsSeen(disk)
          BY <4>1, Parts, WrittenIs
        <5>c. PICK c : c = content[n]
          OBVIOUS
        <5>2. /\ Len(c.units) \in Nat /\ Len(c.units) <= Len(UnitsOf(n))
              /\ \A i \in Slots : Its(n, i) => vol.dir[i].size >= Len(c.units)
          BY <3>5, <3>7, <5>c DEF UnitsOf
        <5>3. KeptOn(disk, n, c, ChainOf(n))
          BY <1>2, <1>6, <2>0, <2>1, <3>3, <5>1, <5>2, <5>c, SeenKeeps
        <5> QED
          BY <5>3, <5>c, <2>s
      <4>2. CASE promise[n] = content[n]
        BY <2>1, <2>s, <4>2 DEF DiskKeeps
      <4> QED
        BY <1>1, <1>2, <2>0, <2>9, <4>1, <4>2 DEF AtReturn, Doing
    <3>11. DiskKeeps(n)'
      BY <1>1, <2>5, <3>1, <3>10 DEF DiskKeeps, KeptOn
    <3>12. Current(n)'
      BY <1>1, <3>1 DEF Current
    <3> QED
      BY <2>6, <2>7, <3>8, <3>9, <3>11, <3>12 DEF DataFits
  <2> QED
    BY <2>8, <2>9
<1>8. AtReturn' /\ ReadsRight'
  BY <1>3 DEF AtReturn, ReadsRight, Doing
<1>9. DataTyped'
  <2>1. promise' \in [Names -> {Absent, Open} \cup {Held(s) : s \in Seq(Int)}]
    <3>1. \A m \in Names : promise'[m] \in {Absent, Open} \cup {Held(s) : s \in Seq(Int)}
      BY <1>1, <1>2 DEF DataTyped
    <3> QED
      BY <1>1, <3>1
  <2>2. \A m \in Names : IsOpen(m)' => file'[m].buf \in OneSector /\ file'[m].dirty \in BOOLEAN
    BY <1>1, <1>2 DEF DataTyped, IsOpen
  <2> QED
    BY <1>1, <1>2, <1>3, <2>1, <2>2 DEF DataTyped
<1>10. \A m \in Names : m \notin T =>
         /\ file'[m] = file[m] /\ content'[m] = content[m] /\ promise'[m] = promise[m]
         /\ \A k \in 1..Len(ChainOf(m)) : vol'.fat[ChainOf(m)[k]] = vol.fat[ChainOf(m)[k]]
         /\ \A x \in Places0 : (\E k \in 1..Len(ChainOf(m)) : ChainOf(m)[k] = x[1]) => data'[x] = data[x]
         /\ m \in loose' => m \in loose
  BY <1>1, <1>t
<1> QED
  BY <1>1, <1>4, <1>7, <1>8, <1>9, <1>10, StepData

\* Nothing happens.
LEMMA StutterData ==
  ASSUME FatInv, DataInv, UNCHANGED fatVars
  PROVE  DataInv'
PROOF
<1>1. UNCHANGED <<disk, data, vol, win, file, call, content, promise, loose, calls>>
  BY DEF fatVars
<1>2. DataTyped /\ (\A m \in Names : DataFits(m)) /\ AtReturn /\ ReadsRight
  BY DEF DataInv
<1>3. \A n : /\ (Cutting(n)' <=> Cutting(n)) /\ (Writing(n)' <=> Writing(n)) /\ (Seeking(n)' <=> Seeking(n))
             /\ (Apart(n)' <=> Apart(n)) /\ (IsOpen(n)' <=> IsOpen(n))
             /\ (With(n, {"sync", "close"}, {"entry", "window", "info"})' <=> With(n, {"sync", "close"}, {"entry", "window", "info"}))
             /\ (With(n, {"sync", "close"}, {"done"})' <=> With(n, {"sync", "close"}, {"done"}))
  BY <1>1 DEF Cutting, Writing, Seeking, Apart, With, Doing, IsOpen
<1>4. ASSUME NEW n \in Names PROVE DataFits(n)'
  <2>1. Marked(n) /\ Inside(n) /\ Current(n) /\ DataFits(n)
    BY <1>2 DEF DataFits
  <2>2. \A i \in Slots : Its(n, i)' <=> Its(n, i)
    BY <1>1 DEF Its, IsFile, Excused, Doing
  <2>3. FirstOf(n)' = FirstOf(n)
    BY <1>1, <1>3, <2>2, FirstStays
  <2>4. ChainOf(n)' = ChainOf(n)
    BY <1>1, <2>3, ChainStays
  <2>5. ChainGoesOn(n)
    BY <2>4 DEF ChainGoesOn
  <2>6. Marked(n)' /\ Inside(n)' /\ Current(n)'
    <3>1. Marked(n)'
      BY <1>1, <1>3, <2>1 DEF Marked
    <3>2. Inside(n)'
      BY <1>1, <1>3, <2>1, <2>4 DEF Inside
    <3>3. Current(n)'
      BY <1>1, <1>3, <2>1 DEF Current
    <3> QED
      BY <3>1, <3>2, <3>3
  <2>7. Cutting(n) => \A m \in Names : ChainOf(m)' = ChainOf(m)
    <3> SUFFICES ASSUME NEW m \in Names PROVE ChainOf(m)' = ChainOf(m)
      OBVIOUS
    <3>1. \A i \in Slots : Its(m, i)' <=> Its(m, i)
      BY <1>1 DEF Its, IsFile, Excused, Doing
    <3>2. FirstOf(m)' = FirstOf(m)
      BY <1>1, <1>3, <3>1, FirstStays
    <3> QED
      BY <1>1, <3>2, ChainStays
  <2>8. Removing' /\ call'.n = n => Removing /\ call.n = n
    BY <1>1 DEF Removing, Doing
  <2> QED
    BY <1>1, <1>2, <1>3, <2>1, <2>2, <2>5, <2>6, <2>7, <2>8, SameData
<1>5. DataTyped' /\ AtReturn' /\ ReadsRight'
  <2>1. DataTyped'
    BY <1>1, <1>2 DEF DataTyped, IsOpen, InCall
  <2>2. AtReturn'
    BY <1>1, <1>2 DEF AtReturn, Doing
  <2>3. ReadsRight'
    BY <1>1, <1>2 DEF ReadsRight, InCall
  <2> QED
    BY <2>1, <2>2, <2>3
<1> QED
  BY <1>4, <1>5 DEF DataInv

-----------------------------------------------------------------------------
(* Steps that fill the buffer *)

\* A cluster boundary is a sector boundary.
LEMMA Aligned ==
  ASSUME NEW p \in Nat, p % BCS = 0
  PROVE  p % SS = 0
PROOF
<1>1. BCS \in Nat \ {0} /\ p \div BCS \in Nat /\ p = BCS * (p \div BCS) + (p % BCS)
  BY Split
<1>q. PICK q \in Nat : q = p \div BCS
  BY <1>1
<1>2. p = BCS * q
  BY <1>1, <1>q
<1>3. SS \in Nat \ {0} /\ CSize \in Nat \ {0} /\ BCS = SS * CSize
  BY Sizes
<1>x. PICK x \in Nat : x = CSize * q
  BY <1>3
<1>4. p = SS * x + 0 /\ 0 \in 0..(SS - 1)
  BY <1>2, <1>3, <1>x
<1>5. (SS * x + 0) % SS = 0
  BY <1>3, <1>4, Quotient
<1> QED
  BY <1>4, <1>5

\* The buffer keeps its sector or, when it has nothing to be written, takes another; the
\* file may grow by units that were never written.
LEMMA LoadStep ==
  ASSUME FatInv, FatInv', DataInv, NEW n \in Names, IsOpen(n), Among({n}), Among({n})',
         call.op \in Moving, call'.op \in Moving, ~Cutting(n), ~Cutting(n)',
         vol' = vol, disk' = disk, UNCHANGED <<data, promise, loose>>,
         NEW g, FileBecomes(n, g), g.open, g.sclust = file[n].sclust, g.dirty = file[n].dirty,
         \/ g.sect = file[n].sect /\ g.buf = file[n].buf
         \/ ~file[n].dirty /\ g.sect \in Places0 /\ g.buf = data[g.sect],
         NEW u \in Seq(Int), content' = [content EXCEPT ![n] = Held(u)], g.size = Len(u),
         Len(UnitsOf(n)) <= Len(u),
         \A q \in 1..Len(u) : u[q] = IF q <= Len(UnitsOf(n)) THEN UnitsOf(n)[q] ELSE Unset,
         Marked(n)', Inside(n)', Current(n)', calls' \in Nat, AtReturn', ReadsRight'
  PROVE  DataInv'
PROOF
<1>f. PICK f : f = file[n]
  OBVIOUS
<1>s. PICK s : s = ChainOf(n)
  OBVIOUS
<1>v. PICK v : v = UnitsOf(n)
  OBVIOUS
<1>1. DataTyped /\ (\A m \in Names : DataFits(m))
  BY DEF DataInv
<1>2. Kinds(n) /\ Lens(n) /\ Fits(n) /\ Own(n) /\ Pledge(n) /\ DiskKeeps(n)
  BY <1>1 DEF DataFits
<1>3. file'[n] = g /\ (\A m \in Names \ {n} : file'[m] = file[m]) /\ IsOpen(n)'
  BY DEF FileBecomes, IsOpen
<1>4. content'[n] = Held(u) /\ (\A m \in Names \ {n} : content'[m] = content[m])
      /\ content' \in [Names -> {Absent} \cup {Held(z) : z \in Seq(Int)}]
  BY <1>1 DEF DataTyped
<1>5. content'[n].kind = "held" /\ UnitsOf(n)' = u /\ PledgedOf(n)' = PledgedOf(n)
  BY <1>4 DEF UnitsOf, PledgedOf, Held
<1>6. FirstOf(n)' = FirstOf(n)
  BY <1>3, FirstStays
<1>7. ChainOf(n)' = s
  BY <1>6, <1>s, ChainStays
<1>8. \A i \in Slots : Its(n, i)' <=> Its(n, i)
  BY DEF Its, IsFile, Excused, Doing, Moving
<1>9. Its(n, f.slot) /\ f.slot \in Slots
  BY <1>f, ChainFacts DEF OfChain, IsFil
<1>10. Kinds(n)'
  BY <1>5, <1>8, <1>9 DEF Kinds
<1>11. Lens(n)'
  BY <1>3, <1>5 DEF Lens
<1>12. v \in Seq(Int) /\ Len(v) \in Nat /\ Len(u) \in Nat
  BY <1>1, <1>v, Ghosts
<1>13. Fits(n)'
  <2> SUFFICES ASSUME NEW q \in 1..Len(u)
               PROVE  /\ g.sect = Loc(s, q) => u[q] \in {Unset, g.buf[Off(q)]}
                      /\ ~(g.dirty /\ g.sect = Loc(s, q)) => u[q] \in {Unset, data[Loc(s, q)][Off(q)]}
    BY <1>3, <1>5, <1>7 DEF Fits
  <2>1. CASE q <= Len(v)
    <3>1. q \in 1..Len(v) /\ u[q] = v[q]
      BY <1>12, <1>v, <2>1
    <3>2. /\ f.sect = Loc(s, q) => v[q] \in {Unset, f.buf[Off(q)]}
          /\ ~(f.dirty /\ f.sect = Loc(s, q)) => v[q] \in {Unset, data[Loc(s, q)][Off(q)]}
      BY <1>2, <1>f, <1>s, <1>v, <3>1 DEF Fits
    <3> QED
      BY <1>f, <3>1, <3>2
  <2>2. CASE ~(q <= Len(v))
    BY <1>v, <2>2
  <2> QED
    BY <2>1, <2>2
<1>14. Own(n)'
  BY <1>2, <1>3, <1>7, <1>s DEF Own
<1>15. Pledge(n)'
  <2> SUFFICES ASSUME promise[n].kind # "open"
               PROVE  /\ promise'[n].kind = content'[n].kind /\ Len(PledgedOf(n)') <= Len(UnitsOf(n)')
                      /\ n \notin loose' /\ ~(Removing /\ call.n = n)'
                      /\ \A p \in 1..Len(PledgedOf(n)') :
                           /\ PledgedOf(n)'[p] = UnitsOf(n)'[p]
                           /\ PledgedOf(n)'[p] \in {Unset, data'[Loc(ChainOf(n)', p)][Off(p)]}
                      /\ \A i \in Slots : Its(n, i)' => vol'.dir[i].size >= Len(PledgedOf(n)')
    BY DEF Pledge
  <2>w. PICK w : w = PledgedOf(n)
    OBVIOUS
  <2>1. /\ promise[n].kind = content[n].kind /\ Len(w) <= Len(v) /\ n \notin loose
        /\ \A p \in 1..Len(w) : w[p] = v[p] /\ w[p] \in {Unset, data[Loc(s, p)][Off(p)]}
        /\ \A i \in Slots : Its(n, i) => vol.dir[i].size >= Len(w)
    BY <1>2, <1>s, <1>v, <2>w DEF Pledge
  <2>2. Len(w) \in Nat
    BY <1>1, <2>w, Ghosts
  <2>3. \A p \in 1..Len(w) : p \in 1..Len(u) /\ u[p] = v[p]
    BY <1>12, <1>v, <2>1, <2>2
  <2>4. ~(Removing /\ call.n = n)'
    BY DEF Removing, Doing, Moving
  <2>5. content[n].kind = "held"
    BY <1>2, <1>9 DEF Kinds
  <2>6. Len(w) <= Len(u)
    BY <1>12, <1>v, <2>1, <2>2
  <2> QED
    BY <1>5, <1>7, <1>8, <2>w, <2>1, <2>3, <2>4, <2>5, <2>6
<1>16. DiskKeeps(n)'
  BY <1>1, <1>2, <1>7, <1>s, DiskKept
<1>17. DataFits(n)'
  BY <1>10, <1>11, <1>13, <1>14, <1>15, <1>16 DEF DataFits
<1>18. DataTyped'
  <2>1. g.buf \in OneSector /\ g.dirty \in BOOLEAN
    BY <1>1 DEF DataTyped
  <2>2. \A m \in Names : IsOpen(m)' => file'[m].buf \in OneSector /\ file'[m].dirty \in BOOLEAN
    BY <1>1, <1>3, <2>1 DEF DataTyped, IsOpen
  <2>3. InCall' /\ call'.op # "rename" => call'.m = call'.n
    BY DEF Among
  <2> QED
    BY <1>1, <1>4, <2>2, <2>3 DEF DataTyped
<1> QED
  BY <1>3, <1>4, <1>17, <1>18, StepData

\* f_read, one sector or a part of one.
LEMMA ReadSectorData ==
  ASSUME FatInv, FatInv', DataInv, ReadSector
  PROVE  DataInv'
PROOF
<1>1. /\ call.op = "read" /\ call.pc = "sector" /\ UNCHANGED <<disk, data, vol, content, promise, loose, calls>>
  BY DEF ReadSector, At
<1>2. PICK n \in Names : n = call.n /\ IsOpen(n) /\ IsFil(file[n]) /\ IsCall(call)
  BY <1>1, InTransfer
<1>f. PICK f : f = file[n]
  OBVIOUS
<1>s. PICK s : s = ChainOf(n)
  OBVIOUS
<1>v. PICK v : v = UnitsOf(n)
  OBVIOUS
<1>h. PICK here : here = Here(f)
  OBVIOUS
<1>o. PICK direct : direct = Direct(f, call.left) /\ direct \in BOOLEAN
  BY DEF Direct
<1>l. PICK loads : loads = (AtSector(f) /\ f.sect # here) /\ loads \in BOOLEAN
  OBVIOUS
<1>b. PICK buf : buf = IF ~direct /\ loads THEN data[here] ELSE f.buf
  OBVIOUS
<1>c. PICK sect : sect = IF ~direct /\ loads THEN here ELSE f.sect
  OBVIOUS
<1>p. PICK p : p = f.fptr % SS
  OBVIOUS
<1>k. PICK k : k = InPart(f, call.left)
  OBVIOUS
<1>u. PICK units : units = IF direct THEN Latest(f) ELSE [u \in 1..k |-> buf[p + u]]
  OBVIOUS
<1>e. PICK end : end = f.fptr + k
  OBVIOUS
<1>g. PICK g : g = [f EXCEPT !.fptr = end, !.buf = buf, !.sect = sect]
  OBVIOUS
<1>3. /\ SetFile(n, g) /\ call' = [Transfers(k) EXCEPT !.at = f.fptr, !.got = units]
      /\ ~(f.dirty /\ Evicts(f))
  BY <1>2, <1>f, <1>h, <1>o, <1>l, <1>b, <1>c, <1>p, <1>k, <1>u, <1>e, <1>g, Zenon DEF ReadSector
<1>4. FileBecomes(n, g)
  BY <1>3, Becomes
<1>5. /\ g.open /\ g.sect = sect /\ g.buf = buf /\ g.dirty = f.dirty /\ g.fptr = end
      /\ g.size = f.size /\ g.sclust = f.sclust /\ g.mod = f.mod /\ g.slot = f.slot
  BY <1>2, <1>f, <1>g DEF IsFil, FilFields
<1>6. DataTyped /\ DataFits(n) /\ call.m = n
  BY <1>1, <1>2 DEF DataInv, DataTyped, InCall
<1>7. PICK pc : /\ call'.op = "read" /\ call'.n = n /\ call'.m = n /\ call'.pc = pc /\ call'.at = f.fptr /\ call'.got = units
                /\ pc \in {"done", "next", "sector"}
  <2>q. PICK q : q = PcAt(file[call.n].fptr + k, call.left - k)
    OBVIOUS
  <2>1. q \in {"done", "next", "sector"}
    BY <2>q DEF PcAt
  <2>x. PICK x : x = call.left - k
    OBVIOUS
  <2>2. Transfers(k) = [call EXCEPT !.left = x, !.pc = q]
    BY <2>q, <2>x DEF Transfers
  <2>3. call' = [[call EXCEPT !.left = x, !.pc = q] EXCEPT !.at = f.fptr, !.got = units]
    BY <1>3, <2>2
  <2> QED
    BY <1>1, <1>2, <1>6, <2>1, <2>3 DEF IsCall, CallFields
<1>8. Among({n}) /\ Among({n})' /\ call.op \in Moving /\ call'.op \in Moving
  BY <1>1, <1>2, <1>6, <1>7 DEF Among, Moving
<1>9. /\ ~Cutting(n) /\ ~Cutting(n)' /\ ~Seeking(n) /\ ~Writing(n) /\ ~Seeking(n)' /\ ~Writing(n)'
      /\ Apart(n) /\ AtReturn'
  BY <1>1, <1>7 DEF Cutting, Seeking, Writing, Apart, AtReturn, With, Doing
<1>10. Kinds(n) /\ Lens(n) /\ Fits(n) /\ Marked(n) /\ Inside(n) /\ Current(n)
  BY <1>6 DEF DataFits
<1>11. /\ s \in Seq(Clusters) /\ InCluster(s, f.clust, AtCluster(f.fptr)) /\ f.fptr \in Nat /\ call.left \in Nat \ {0}
       /\ f.fptr + call.left <= f.size /\ f.size \in Nat /\ Its(n, f.slot) /\ f.slot \in Slots
  <2>1. Ahead(n)
    BY <1>1, <1>2 DEF Ahead, With, Doing
  <2>2. OfChain(n, s)
    BY <1>s, ChainFacts
  <2>3. f.fptr + call.left <= f.size /\ call.left > 0
    BY <1>1, <1>2, <1>f, Parts DEF Phase
  <2> QED
    BY <1>2, <1>f, <2>1, <2>2, <2>3 DEF OfChain, IsFil, IsCall
<1>12. /\ \A j \in 1..(SS - p) : here = Loc(s, f.fptr + j)
       /\ p # 0 => here = Loc(s, f.fptr)
       /\ here \in Places0
  BY <1>11, <1>h, <1>p, HereIs
<1>13. k \in 1..call.left /\ k <= SS - p /\ k \in Nat /\ k \in 1..(SS - p)
  <2>1. k \in 1..call.left /\ k <= SS - p /\ k \in Nat
    BY <1>11, <1>k, <1>p, InPartIs
  <2>2. p \in 0..(SS - 1) /\ SS \in Nat \ {0}
    BY <1>11, <1>p, Following, Sizes
  <2> QED
    BY <2>1, <2>2
<1>14. p \in 0..(SS - 1) /\ SS \in Nat \ {0} /\ \A j \in 1..(SS - p) : Off(f.fptr + j) = p + j
  BY <1>11, <1>p, Following, Sizes
<1>15. loads /\ ~direct => ~f.dirty
  BY <1>1, <1>3, <1>o, <1>l, <1>h DEF Evicts
<1>16. ~direct => sect = here
  <2>1. CASE AtSector(f)
    BY <1>c, <1>l, <2>1
  <2>2. CASE ~AtSector(f)
    <3>1. p # 0
      BY <1>p, <2>2 DEF AtSector
    <3>2. f.sect = Loc(s, f.fptr)
      BY <1>2, <1>9, <1>10, <1>f, <1>s, <1>p, <3>1 DEF Inside
    <3> QED
      BY <1>12, <1>c, <3>1, <3>2
  <2> QED
    BY <2>1, <2>2
<1>17. direct => p = 0 /\ k = SS /\ call.left >= SS
  <2>1. direct => p = 0 /\ call.left >= SS
    BY <1>o, <1>p DEF Direct, AtSector
  <2>l. PICK l : l = call.left
    OBVIOUS
  <2>2. k = IF l < SS - p THEN l ELSE SS - p
    BY <1>k, <1>p, <2>l DEF InPart
  <2> QED
    BY <1>11, <1>14, <2>1, <2>2, <2>l
<1>18. \A q \in 1..Len(v) :
         /\ f.sect = Loc(s, q) => v[q] \in {Unset, f.buf[Off(q)]}
         /\ ~(f.dirty /\ f.sect = Loc(s, q)) => v[q] \in {Unset, data[Loc(s, q)][Off(q)]}
  BY <1>2, <1>10, <1>f, <1>s, <1>v DEF Fits
<1>19. Len(v) = f.size
  BY <1>2, <1>9, <1>10, <1>f, <1>v DEF Lens
<1>20. \A j \in 1..call.left : f.fptr + j \in 1..Len(v)
  BY <1>11, <1>19
<1>21. ReadsRight'
  <2>1. content'[n].units = v
    BY <1>1, <1>v DEF UnitsOf
  <2> SUFFICES ASSUME NEW j \in DOMAIN units PROVE v[f.fptr + j] \in {Unset, units[j]}
    BY <1>7, <2>1 DEF ReadsRight
  <2>2. CASE direct
    <3>1. Latest(f) \in OneSector /\ units = Latest(f)
      BY <1>2, <1>6, <1>12, <1>f, <1>h, <1>u, <2>2 DEF Latest, DataTyped
    <3>2. j \in 1..SS
      BY <3>1 DEF OneSector
    <3>3. j \in 1..call.left /\ j \in 1..(SS - p) /\ p + j = j
      BY <1>11, <1>14, <1>17, <2>2, <3>2
    <3>q. PICK q : q = f.fptr + j
      OBVIOUS
    <3>4. q \in 1..Len(v) /\ Loc(s, q) = here /\ Off(q) = j
      BY <1>12, <1>14, <1>20, <3>3, <3>q
    <3>5. CASE f.dirty /\ f.sect = here
      BY <1>18, <1>h, <3>1, <3>4, <3>5, <3>q DEF Latest
    <3>6. CASE ~(f.dirty /\ f.sect = here)
      BY <1>18, <1>h, <3>1, <3>4, <3>6, <3>q DEF Latest
    <3> QED
      BY <3>5, <3>6
  <2>3. CASE ~direct
    <3>1. units = [i \in 1..k |-> buf[p + i]]
      BY <1>u, <2>3
    <3>2. j \in 1..k /\ units[j] = buf[p + j]
      BY <3>1
    <3>3. j \in 1..call.left /\ j \in 1..(SS - p)
      BY <1>11, <1>13, <1>14, <3>2
    <3>q. PICK q : q = f.fptr + j
      OBVIOUS
    <3>4. q \in 1..Len(v) /\ Loc(s, q) = here /\ Off(q) = p + j
      BY <1>12, <1>14, <1>20, <3>3, <3>q
    <3>5. CASE loads
      <4>1. v[q] \in {Unset, data[here][Off(q)]}
        BY <1>15, <1>18, <2>3, <3>4, <3>5
      <4> QED
        BY <1>b, <2>3, <3>2, <3>4, <3>5, <3>q, <4>1
    <3>6. CASE ~loads
      <4>1. f.sect = here /\ buf = f.buf
        BY <1>16, <1>b, <1>c, <2>3, <3>6
      <4>2. v[q] \in {Unset, f.buf[Off(q)]}
        BY <1>18, <3>4, <4>1
      <4> QED
        BY <3>2, <3>4, <3>q, <4>1, <4>2
    <3> QED
      BY <1>l, <3>5, <3>6
  <2> QED
    BY <1>o, <2>2, <2>3
<1>22. IsOpen(n)' /\ file'[n] = g
  BY <1>4, <1>5 DEF FileBecomes, IsOpen
<1>23. FirstOf(n)' = FirstOf(n)
  BY <1>1, <1>2, <1>5, <1>9, <1>22, <1>f, FirstStays
<1>24. ChainOf(n)' = s
  BY <1>1, <1>23, <1>s, ChainStays
<1>25. Inside(n)'
  <2> SUFFICES ASSUME end % SS # 0 PROVE sect = Loc(s, end)
    BY <1>5, <1>22, <1>24 DEF Inside
  <2>1. CASE direct
    <3>0. ASSUME NEW a \in Nat, NEW b \in Nat \ {0} PROVE a = b * (a \div b) + (a % b) /\ a \div b \in Nat
      OBVIOUS
    <3>q. PICK q : q = f.fptr
      OBVIOUS
    <3>r. PICK b : b = SS
      OBVIOUS
    <3>4. q \in Nat /\ b \in Nat \ {0}
      BY <1>11, <1>14, <3>q, <3>r
    <3>5. q = b * (q \div b) + (q % b) /\ q \div b \in Nat
      BY <3>0, <3>4
    <3>1. f.fptr = SS * (f.fptr \div SS) + p /\ f.fptr \div SS \in Nat
      BY <1>p, <3>q, <3>r, <3>5
    <3>x. PICK x \in Nat : x = f.fptr \div SS
      BY <3>1
    <3>2. end = SS * (x + 1) + 0 /\ 0 \in 0..(SS - 1)
      <4>1. SS * (x + 1) = SS * x + SS
        BY <1>14
      <4> QED
        BY <1>14, <1>17, <1>e, <2>1, <3>1, <3>x, <4>1
    <3>3. (SS * (x + 1) + 0) % SS = 0
      BY <1>14, <3>2, Quotient
    <3> QED
      BY <3>2, <3>3
  <2>2. CASE ~direct
    BY <1>12, <1>13, <1>16, <1>e, <2>2
  <2> QED
    BY <1>o, <2>1, <2>2
<1>26. Marked(n)'
  BY <1>1, <1>2, <1>5, <1>7, <1>9, <1>10, <1>22, <1>f DEF Marked, With, Doing
<1>27. Current(n)'
  BY <1>1, <1>2, <1>5, <1>9, <1>10, <1>22, <1>f DEF Current
<1>28. calls' \in Nat
  BY <1>1, <1>6 DEF DataTyped
<1>29. \/ g.sect = f.sect /\ g.buf = f.buf
       \/ ~f.dirty /\ g.sect \in Places0 /\ g.buf = data[g.sect]
  BY <1>5, <1>12, <1>15, <1>b, <1>c
<1>30. /\ v \in Seq(Int) /\ content' = [content EXCEPT ![n] = Held(v)]
       /\ \A q \in 1..Len(v) : v[q] = IF q <= Len(v) THEN v[q] ELSE Unset
       /\ Len(v) <= Len(v)
  <2>1. v \in Seq(Int) /\ (content[n].kind = "held" => content[n] = Held(v)) /\ Len(v) \in Nat
    BY <1>6, <1>v, Ghosts
  <2>2. content[n].kind = "held"
    BY <1>10, <1>11 DEF Kinds
  <2>3. content = [content EXCEPT ![n] = Held(v)]
    BY <1>6, <2>1, <2>2 DEF DataTyped
  <2> QED
    BY <1>1, <2>1, <2>3
<1>31. /\ IsOpen(n) /\ vol' = vol /\ disk' = disk /\ UNCHANGED <<data, promise, loose>>
       /\ g.sclust = file[n].sclust /\ g.dirty = file[n].dirty /\ g.size = Len(v)
       /\ \/ g.sect = file[n].sect /\ g.buf = file[n].buf
          \/ ~file[n].dirty /\ g.sect \in Places0 /\ g.buf = data[g.sect]
       /\ v \in Seq(Int) /\ content' = [content EXCEPT ![n] = Held(v)] /\ Len(UnitsOf(n)) <= Len(v)
  BY <1>1, <1>2, <1>5, <1>19, <1>29, <1>30, <1>f, <1>v
<1>32. \A q \in 1..Len(v) : v[q] = IF q <= Len(UnitsOf(n)) THEN UnitsOf(n)[q] ELSE Unset
  BY <1>30, <1>v
<1> QED
  BY <1>4, <1>5, <1>8, <1>9, <1>21, <1>25, <1>26, <1>27, <1>28, <1>31, <1>32, LoadStep

\* f_lseek and f_open, the end: a file is as long as the pointer has gone, and a sector in
\* part is in the buffer.
LEMMA SeekedData ==
  ASSUME FatInv, FatInv', DataInv, Seeked
  PROVE  DataInv'
PROOF
<1>1. call.pc = "seeked" /\ UNCHANGED <<disk, data, vol, promise, loose, calls>>
  BY DEF Seeked
<1>2. call.op \in {"open", "seek"} /\ IsCall(call) /\ InCall
      /\ \E n \in Names : n = call.n /\ IsOpen(n) /\ IsFil(file[n])
  BY <1>1, InSeek
<1>3. PICK n \in Names : n = call.n /\ IsOpen(n) /\ IsFil(file[n])
  BY <1>2
<1>f. PICK f : f = file[n]
  OBVIOUS
<1>s. PICK s : s = ChainOf(n)
  OBVIOUS
<1>v. PICK v : v = UnitsOf(n)
  OBVIOUS
<1>h. PICK here : here = Here(f)
  OBVIOUS
<1> DEFINE longer == f.fptr > f.size
<1>l. PICK loads : loads = (~AtSector(f) /\ f.sect # here) /\ loads \in BOOLEAN
  OBVIOUS
<1>b. PICK buf : buf = IF loads THEN data[here] ELSE f.buf
  OBVIOUS
<1>c. PICK sect : sect = IF loads THEN here ELSE f.sect
  OBVIOUS
<1>z. PICK size : size = IF longer THEN f.fptr ELSE f.size
  OBVIOUS
<1>m. PICK mod : mod = (f.mod \/ longer)
  OBVIOUS
<1>g. PICK g : g = [f EXCEPT !.size = size, !.mod = mod, !.buf = buf, !.sect = sect]
  OBVIOUS
<1>4. /\ SetFile(n, g) /\ Ends("FR_OK") /\ ~(f.dirty /\ Evicts(f))
      /\ IF longer THEN Content(n, Lengthened(v, f.fptr)) ELSE UNCHANGED content
  BY <1>3, <1>f, <1>h, <1>v, <1>l, <1>b, <1>c, <1>z, <1>m, <1>g, Zenon DEF Seeked, UnitsOf
<1>5. FileBecomes(n, g)
  BY <1>4, Becomes
<1>6. /\ g.open /\ g.sect = sect /\ g.buf = buf /\ g.dirty = f.dirty /\ g.fptr = f.fptr
      /\ g.size = size /\ g.sclust = f.sclust /\ g.mod = mod /\ g.slot = f.slot
  BY <1>3, <1>f, <1>g DEF IsFil, FilFields
<1>7. DataTyped /\ DataFits(n) /\ call.m = n
  BY <1>2, <1>3 DEF DataInv, DataTyped, InCall
<1>8. call'.op = call.op /\ call'.n = n /\ call'.m = n /\ call'.pc = "done"
  BY <1>2, <1>3, <1>4, <1>7 DEF Ends, IsCall, CallFields
<1>9. Among({n}) /\ Among({n})' /\ call.op \in Moving /\ call'.op \in Moving
  BY <1>2, <1>3, <1>7, <1>8 DEF Among, Moving
<1>10. /\ ~Cutting(n) /\ ~Cutting(n)' /\ ~Ahead(n) /\ ~Writing(n) /\ ~Seeking(n)' /\ ~Writing(n)'
       /\ Apart(n) /\ AtReturn' /\ ReadsRight'
  BY <1>1, <1>2, <1>8 DEF Cutting, Ahead, Seeking, Writing, Apart, AtReturn, ReadsRight, With, Doing
<1>11. Kinds(n) /\ Lens(n) /\ Marked(n) /\ Current(n)
  BY <1>7 DEF DataFits
<1>12. /\ s \in Seq(Clusters) /\ f.fptr \in Nat /\ f.size \in Nat /\ Its(n, f.slot) /\ f.slot \in Slots
       /\ (f.fptr > 0 => InCluster(s, f.clust, ToCluster(f.fptr))) /\ f.mod \in BOOLEAN
  <2>1. OfChain(n, s)
    BY <1>s, ChainFacts
  <2> QED
    BY <1>3, <1>10, <1>f, <2>1 DEF OfChain, IsFil
<1>13. ~AtSector(f) => here = Loc(s, f.fptr) /\ here \in Places0
  <2> SUFFICES ASSUME ~AtSector(f) PROVE here = Loc(s, f.fptr) /\ here \in Places0
    OBVIOUS
  <2>1. f.fptr % SS # 0
    BY DEF AtSector
  <2>2. f.fptr % BCS # 0
    BY <1>12, <2>1, Aligned
  <2>3. f.fptr > 0
    BY <1>12, <2>1, Following
  <2>4. ToCluster(f.fptr) = AtCluster(f.fptr)
    BY <1>12, <2>2, <2>3, Places
  <2> QED
    BY <1>12, <1>h, <2>1, <2>3, <2>4, HereIs
<1>14. loads => ~f.dirty
  BY <1>2, <1>4, <1>l, <1>h DEF Evicts
<1>15. Len(v) = f.size /\ v \in Seq(Int)
  BY <1>3, <1>7, <1>10, <1>11, <1>f, <1>v, Ghosts DEF Lens
<1>16. content[n] = Held(v) /\ content = [content EXCEPT ![n] = Held(v)]
  <2>1. content[n].kind = "held"
    BY <1>11, <1>12 DEF Kinds
  <2> QED
    BY <1>7, <1>v, <2>1, Ghosts DEF DataTyped
<1>17. PICK u \in Seq(Int) :
         /\ content' = [content EXCEPT ![n] = Held(u)] /\ Len(u) = size /\ Len(v) <= Len(u)
         /\ \A q \in 1..Len(u) : u[q] = IF q <= Len(v) THEN v[q] ELSE Unset
  <2>1. CASE ~longer
    BY <1>4, <1>15, <1>16, <1>z, <2>1
  <2>2. CASE longer
    <3>u. PICK u : u = Lengthened(v, f.fptr)
      OBVIOUS
    <3>k. PICK k : k = f.fptr
      OBVIOUS
    <3>1. u = [q \in 1..k |-> IF q <= Len(v) THEN v[q] ELSE Unset] /\ k \in Nat
      BY <1>12, <3>u, <3>k DEF Lengthened
    <3>2. \A q \in 1..k : (IF q <= Len(v) THEN v[q] ELSE Unset) \in Int
      BY <1>15, <3>1 DEF Unset
    <3>3. u \in Seq(Int) /\ Len(u) = k
      BY <3>1, <3>2
    <3>4. content' = [content EXCEPT ![n] = Held(u)]
      BY <1>4, <2>2, <3>u DEF Content
    <3>5. k = size /\ Len(v) <= k
      BY <1>12, <1>15, <1>z, <2>2, <3>k
    <3> QED
      BY <3>1, <3>3, <3>4, <3>5
  <2> QED
    BY <2>1, <2>2
<1>18. IsOpen(n)' /\ file'[n] = g
  BY <1>5, <1>6 DEF FileBecomes, IsOpen
<1>19. FirstOf(n)' = FirstOf(n)
  BY <1>3, <1>6, <1>10, <1>18, <1>f, FirstStays
<1>20. ChainOf(n)' = s
  BY <1>1, <1>19, <1>s, ChainStays
<1>21. Inside(n)'
  <2> SUFFICES ASSUME f.fptr % SS # 0 PROVE sect = Loc(s, f.fptr)
    BY <1>6, <1>18, <1>20 DEF Inside
  <2> QED
    BY <1>13, <1>c, <1>l DEF AtSector
<1>22. Marked(n)'
  <2>1. /\ ~f.mod => vol.dir[f.slot].size = f.size
        /\ f.dirty => f.mod
    BY <1>3, <1>10, <1>11, <1>f DEF Marked
  <2>2. ~mod => ~f.mod /\ size = f.size
    BY <1>12, <1>m, <1>z
  <2> QED
    BY <1>1, <1>2, <1>6, <1>8, <1>12, <1>18, <1>m, <2>1, <2>2 DEF Marked, With, Doing
<1>23. Current(n)'
  <2> SUFFICES ASSUME ~mod PROVE promise'[n] = content'[n]
    BY <1>6, <1>18 DEF Current
  <2>1. ~f.mod /\ ~longer
    BY <1>m
  <2>2. promise[n] = content[n]
    BY <1>10, <1>11, <1>f, <2>1 DEF Current
  <2> QED
    BY <1>1, <1>4, <2>1, <2>2
<1>24. calls' \in Nat
  BY <1>1, <1>7 DEF DataTyped
<1>25. /\ IsOpen(n) /\ vol' = vol /\ disk' = disk /\ UNCHANGED <<data, promise, loose>>
       /\ g.sclust = file[n].sclust /\ g.dirty = file[n].dirty /\ g.size = Len(u)
       /\ \/ g.sect = file[n].sect /\ g.buf = file[n].buf
          \/ ~file[n].dirty /\ g.sect \in Places0 /\ g.buf = data[g.sect]
       /\ Len(UnitsOf(n)) <= Len(u)
  BY <1>1, <1>3, <1>6, <1>13, <1>14, <1>17, <1>b, <1>c, <1>l, <1>f, <1>v
<1>26. \A q \in 1..Len(u) : u[q] = IF q <= Len(UnitsOf(n)) THEN UnitsOf(n)[q] ELSE Unset
  BY <1>17, <1>v
<1> QED
  BY <1>5, <1>6, <1>9, <1>10, <1>17, <1>21, <1>22, <1>23, <1>24, <1>25, <1>26, LoadStep

\* What a transfer of k units from position p on makes of the contents.
LEMMA OverlayIs ==
  ASSUME NEW v \in Seq(Int), NEW p \in 0..Len(v), NEW k \in Nat \ {0}, NEW x \in Int
  PROVE  /\ Overlay(v, p, k, x) \in Seq(Int)
         /\ Len(Overlay(v, p, k, x)) = (IF p + k > Len(v) THEN p + k ELSE Len(v))
         /\ \A q \in 1..Len(Overlay(v, p, k, x)) :
              /\ q \in (p + 1)..(p + k) => Overlay(v, p, k, x)[q] = x
              /\ q \notin (p + 1)..(p + k) => q \in 1..Len(v) /\ Overlay(v, p, k, x)[q] = v[q]
PROOF
<1>l. PICK l \in Nat : l = IF p + k > Len(v) THEN p + k ELSE Len(v)
  OBVIOUS
<1>w. PICK w : w = Overlay(v, p, k, x)
  OBVIOUS
<1>1. w = [u \in 1..l |-> IF u \in (p + 1)..(p + k) THEN x ELSE v[u]]
  BY <1>l, <1>w DEF Overlay
<1>2. \A u \in 1..l : u \notin (p + 1)..(p + k) => u \in 1..Len(v)
  BY <1>l
<1>3. \A u \in 1..l : (IF u \in (p + 1)..(p + k) THEN x ELSE v[u]) \in Int
  BY <1>2
<1>4. w \in Seq(Int) /\ Len(w) = l
  BY <1>1, <1>3
<1> QED
  BY <1>1, <1>2, <1>4, <1>l, <1>w

\* The sector that a transfer of k units x at the pointer makes new.
Renewed(f, k, x) ==
  [u \in 1..SS |->
     IF u \in ((f.fptr % SS) + 1)..((f.fptr % SS) + k) THEN x
     ELSE IF AtSector(f) /\ f.sect # Here(f) /\ f.fptr < f.size THEN data[Here(f)][u] ELSE f.buf[u]]
\* It has what the file then has there, and no other sector is concerned.
Renews(f, s, v, k, x) ==
  /\ Renewed(f, k, x) \in OneSector
  /\ \A q \in 1..Len(Overlay(v, f.fptr, k, x)) :
       /\ Loc(s, q) = Here(f) => Overlay(v, f.fptr, k, x)[q] \in {Unset, Renewed(f, k, x)[Off(q)]}
       /\ Loc(s, q) # Here(f) =>
            q \in 1..Len(v) /\ q \notin (f.fptr + 1)..(f.fptr + k) /\ Overlay(v, f.fptr, k, x)[q] = v[q]
  /\ AtSector(f) => \A q \in 1..Len(v) : q <= f.fptr => Loc(s, q) # Here(f)

\* The sector that f_write leaves is renewed so.
LEMMA SectorWritten ==
  ASSUME FatInv, NEW n \in Names, NEW f, f = file[n], NEW s, s = ChainOf(n), NEW v, v = UnitsOf(n),
         DataTyped, Kinds(n), Lens(n), Fits(n), Inside(n), IsOpen(n), ~Seeking(n), ~Cutting(n),
         InCluster(s, f.clust, AtCluster(f.fptr)), f.fptr \in Nat, f.fptr <= Len(v),
         NEW k \in Nat \ {0}, k <= SS - (f.fptr % SS), AtSector(f) => ~f.dirty, NEW x \in Int
  PROVE  Renews(f, s, v, k, x)
PROOF
<1>h. PICK here : here = Here(f)
  OBVIOUS
<1>t. PICK t : t = f.fptr
  OBVIOUS
<1>p. PICK p : p = t % SS
  OBVIOUS
<1>n. PICK new : new = Renewed(f, k, x)
  OBVIOUS
<1>w. PICK w : w = Overlay(v, t, k, x)
  OBVIOUS
<1>1. v \in Seq(Int) /\ Len(v) \in Nat /\ Len(v) = f.size /\ t \in 0..Len(v)
  BY <1>t, Ghosts DEF Lens
<1>2. /\ w \in Seq(Int)
      /\ Len(w) = (IF t + k > Len(v) THEN t + k ELSE Len(v))
      /\ \A q \in 1..Len(w) :
           /\ q \in (t + 1)..(t + k) => w[q] = x
           /\ q \notin (t + 1)..(t + k) => q \in 1..Len(v) /\ w[q] = v[q]
  <2>1. t \in 0..Len(v) /\ v \in Seq(Int) /\ k \in Nat \ {0} /\ x \in Int
    BY <1>1
  <2>2. w \in Seq(Int)
    BY <1>w, <2>1, OverlayIs
  <2>3. Len(w) = (IF t + k > Len(v) THEN t + k ELSE Len(v))
    BY <1>w, <2>1, OverlayIs
  <2>4. \A q \in 1..Len(w) :
          /\ q \in (t + 1)..(t + k) => w[q] = x
          /\ q \notin (t + 1)..(t + k) => q \in 1..Len(v) /\ w[q] = v[q]
    BY <1>w, <2>1, OverlayIs
  <2> QED
    BY <2>2, <2>3, <2>4
<1>k. k <= SS - p /\ k \in Nat
  BY <1>t, <1>p
<1>3. OfChain(n, s) /\ s \in Seq(Clusters) /\ \A i, j \in 1..Len(s) : s[i] = s[j] => i = j
  BY ChainFacts DEF OfChain
<1>4. /\ \A j \in 1..(SS - p) : here = Loc(s, t + j) /\ ToCluster(t + j) \in 1..Len(s)
      /\ p # 0 => here = Loc(s, t)
      /\ here \in Places0
  BY <1>3, <1>h, <1>t, <1>p, HereIs
<1>5. /\ p \in 0..(SS - 1) /\ SS \in Nat \ {0}
      /\ \A j \in 1..(SS - p) : SectNo(t + j) = t \div SS /\ Off(t + j) = p + j
      /\ \A q \in Nat \ {0} : SectNo(q) = t \div SS =>
           q - t = Off(q) - p /\ (q > t => q - t \in 1..(SS - p))
      /\ p = 0 => \A q \in Nat \ {0} : SectNo(q) = t \div SS => q > t
  BY <1>t, <1>p, Following, Sizes
<1>6. f.buf \in OneSector /\ data[here] \in OneSector
  BY <1>4 DEF DataTyped
<1>7. new = [u \in 1..SS |->
               IF u \in (p + 1)..(p + k) THEN x
               ELSE IF AtSector(f) /\ f.sect # here /\ t < f.size THEN data[here][u] ELSE f.buf[u]]
  BY <1>h, <1>t, <1>p, <1>n DEF Renewed
<1>8. new \in OneSector
  BY <1>6, <1>7 DEF OneSector
<1>9. AtSector(f) <=> p = 0
  BY <1>t, <1>p DEF AtSector
<1>10. ~AtSector(f) => f.sect = here
  <2> SUFFICES ASSUME ~AtSector(f) PROVE f.sect = here
    OBVIOUS
  <2>1. p # 0
    BY <1>9
  <2>2. f.sect = Loc(s, t)
    BY <2>1, <1>p, <1>t DEF Inside
  <2> QED
    BY <1>4, <2>1, <2>2
<1>11. \A q \in 1..Len(v) : q \in Nat \ {0} /\ ToCluster(q) \in 1..Len(s) /\ Off(q) \in 1..SS
  BY UnitsInChain
<1>12. \A q \in 1..Len(v) : Loc(s, q) = here => SectNo(q) = t \div SS
  <2> SUFFICES ASSUME NEW q \in 1..Len(v), Loc(s, q) = here PROVE SectNo(q) = t \div SS
    OBVIOUS
  <2>1. 1 \in 1..(SS - p)
    BY <1>5
  <2>r. PICK r : r = t + 1
    OBVIOUS
  <2>2. r \in Nat \ {0} /\ ToCluster(r) \in 1..Len(s) /\ Loc(s, r) = here /\ SectNo(r) = t \div SS
    <3>1. r \in Nat \ {0}
      BY <1>1, <2>r
    <3>2. ToCluster(r) \in 1..Len(s) /\ Loc(s, r) = here
      BY <1>4, <2>1, <2>r
    <3>3. SectNo(r) = t \div SS
      BY <1>5, <2>1, <2>r
    <3> QED
      BY <3>1, <3>2, <3>3
  <2> QED
    BY <1>3, <1>11, <2>2, LocsDiffer
<1>13. ASSUME NEW q \in 1..Len(w), q \in (t + 1)..(t + k)
       PROVE  Loc(s, q) = here /\ new[Off(q)] = x
  <2>j. PICK j : j = q - t
    OBVIOUS
  <2>0. p \in Nat /\ SS \in Nat /\ t \in Nat /\ Len(w) \in Nat
    BY <1>1, <1>2, <1>5
  <2>1. j \in 1..(SS - p) /\ j \in 1..k /\ q = t + j
    BY <1>k, <1>13, <2>0, <2>j
  <2>2. Loc(s, q) = here /\ Off(q) = p + j
    BY <1>4, <1>5, <2>1
  <2>3. p + j \in 1..SS /\ p + j \in (p + 1)..(p + k)
    BY <1>5, <2>1
  <2> QED
    BY <1>7, <2>2, <2>3
<1>14. ASSUME NEW q \in 1..Len(w), Loc(s, q) = here
       PROVE  w[q] \in {Unset, new[Off(q)]}
  <2>1. CASE q \in (t + 1)..(t + k)
    BY <1>2, <1>13, <2>1
  <2>2. CASE q \notin (t + 1)..(t + k)
    <3>1. q \in 1..Len(v) /\ w[q] = v[q] /\ q \in Nat \ {0} /\ Off(q) \in 1..SS
      BY <1>2, <1>11, <2>2
    <3>2. SectNo(q) = t \div SS
      BY <1>12, <1>14, <3>1
    <3>3. q - t = Off(q) - p
      BY <1>5, <3>1, <3>2
    <3>o. PICK o : o = Off(q)
      OBVIOUS
    <3>4. o \notin (p + 1)..(p + k)
      <4>1. p \in Nat /\ t \in Nat /\ k \in Nat /\ o \in Nat /\ q \in Nat /\ q - t = o - p
        BY <1>1, <1>5, <3>1, <3>3, <3>o
      <4> QED
        BY <2>2, <4>1
    <3>5. new[o] = IF AtSector(f) /\ f.sect # here /\ t < f.size THEN data[here][o] ELSE f.buf[o]
      BY <1>7, <3>1, <3>4, <3>o
    <3>6. /\ f.sect = here => v[q] \in {Unset, f.buf[o]}
          /\ ~(f.dirty /\ f.sect = here) => v[q] \in {Unset, data[here][o]}
      BY <1>14, <3>1, <3>o DEF Fits
    <3>7. CASE f.sect = here
      BY <3>1, <3>5, <3>6, <3>7, <3>o
    <3>8. CASE f.sect # here
      <4>1. AtSector(f)
        BY <1>10, <3>8
      <4>2. q > t
        BY <1>5, <1>9, <3>1, <3>2, <4>1
      <4>3. t < f.size
        BY <1>1, <3>1, <4>2
      <4> QED
        BY <3>1, <3>5, <3>6, <3>8, <3>o, <4>1, <4>3
    <3> QED
      BY <3>7, <3>8
  <2> QED
    BY <2>1, <2>2
<1>15. ASSUME AtSector(f), NEW q \in 1..Len(v), q <= t
       PROVE  Loc(s, q) # here
  <2> SUFFICES ASSUME Loc(s, q) = here PROVE FALSE
    OBVIOUS
  <2>1. q > t
    BY <1>5, <1>9, <1>11, <1>12, <1>15
  <2> QED
    BY <1>1, <1>15, <2>1
<1>16. ASSUME NEW q \in 1..Len(w), Loc(s, q) # here
       PROVE  q \in 1..Len(v) /\ q \notin (t + 1)..(t + k) /\ w[q] = v[q]
  BY <1>2, <1>13, <1>16
<1> QED
  BY <1>8, <1>14, <1>15, <1>16, <1>h, <1>n, <1>t, <1>w DEF Renews

\* f_write, one sector or a part of one.
LEMMA WriteSectorData ==
  ASSUME FatInv, FatInv', DataInv, WriteSector
  PROVE  DataInv'
PROOF
<1>1. call.op = "write" /\ call.pc = "sector" /\ UNCHANGED <<disk, vol, loose, calls>>
  BY DEF WriteSector, At
<1>2. PICK n \in Names : n = call.n /\ IsOpen(n) /\ IsFil(file[n]) /\ IsCall(call)
  BY <1>1, InTransfer
<1>f. PICK f : f = file[n]
  OBVIOUS
<1>s. PICK s : s = ChainOf(n)
  OBVIOUS
<1>v. PICK v : v = UnitsOf(n)
  OBVIOUS
<1>h. PICK here : here = Here(f)
  OBVIOUS
<1>x. PICK x : x = calls
  OBVIOUS
<1>o. PICK direct : direct = Direct(f, call.left) /\ direct \in BOOLEAN
  BY DEF Direct
<1>a. PICK fills : fills = (AtSector(f) /\ f.sect # here /\ f.fptr < f.size)
  OBVIOUS
<1>p. PICK p : p = f.fptr % SS
  OBVIOUS
<1>k. PICK k : k = InPart(f, call.left)
  OBVIOUS
<1>n. PICK new : new = [u \in 1..SS |-> IF u \in (p + 1)..(p + k) THEN x
                                         ELSE IF fills THEN data[here][u] ELSE f.buf[u]]
  OBVIOUS
<1>e. PICK end : end = f.fptr + k
  OBVIOUS
<1>l. PICK left : left = call.left - k
  OBVIOUS
<1>z. PICK size : size = IF end > f.size THEN end ELSE f.size
  OBVIOUS
<1>m. PICK mod : mod = (f.mod \/ left = 0)
  OBVIOUS
<1>i. PICK g0 : g0 = [f EXCEPT !.fptr = end, !.size = size, !.mod = mod]
  OBVIOUS
<1>g. PICK g : g = IF direct THEN (IF f.sect = here THEN [g0 EXCEPT !.buf = new] ELSE g0)
                   ELSE [g0 EXCEPT !.buf = new, !.sect = here, !.dirty = TRUE]
  OBVIOUS
<1>w. PICK w : w = Overlay(v, f.fptr, k, x)
  OBVIOUS
<1>3. /\ SetFile(n, g) /\ data' = (IF direct THEN [data EXCEPT ![here] = new] ELSE data)
      /\ ~(f.dirty /\ Evicts(f)) /\ Content(n, w)
      /\ Promise(n, IF f.fptr < Len(promise[n].units) THEN Open ELSE promise[n])
      /\ call' = Transfers(k)
  <2>1. /\ IF direct
           THEN /\ data' = [data EXCEPT ![here] = new]
                /\ SetFile(n, IF f.sect = here THEN [g0 EXCEPT !.buf = new] ELSE g0)
           ELSE /\ SetFile(n, [g0 EXCEPT !.buf = new, !.sect = here, !.dirty = TRUE])
                /\ UNCHANGED data
        /\ ~(f.dirty /\ Evicts(f)) /\ Content(n, w)
        /\ Promise(n, IF f.fptr < Len(promise[n].units) THEN Open ELSE promise[n])
        /\ call' = Transfers(k)
    BY <1>2, <1>f, <1>v, <1>h, <1>x, <1>o, <1>a, <1>p, <1>k, <1>n, <1>e, <1>l, <1>z, <1>m, <1>i, <1>w, Zenon
       DEF WriteSector, UnitsOf
  <2>2. CASE direct
    BY <2>1, <2>2, <1>g
  <2>3. CASE ~direct
    BY <2>1, <2>3, <1>g
  <2> QED
    BY <1>o, <2>2, <2>3
<1>4. FileBecomes(n, g)
  BY <1>3, Becomes
<1>5. /\ g.open /\ g.fptr = end /\ g.size = size /\ g.mod = mod /\ g.sclust = f.sclust /\ g.slot = f.slot
      /\ direct => g.sect = f.sect /\ g.dirty = f.dirty /\ g.buf = (IF f.sect = here THEN new ELSE f.buf)
      /\ ~direct => g.sect = here /\ g.dirty = TRUE /\ g.buf = new
  <2>1. /\ DOMAIN g0 = FilFields /\ g0.open /\ g0.fptr = end /\ g0.size = size /\ g0.mod = mod
        /\ g0.sclust = f.sclust /\ g0.slot = f.slot /\ g0.sect = f.sect /\ g0.dirty = f.dirty /\ g0.buf = f.buf
    BY <1>2, <1>f, <1>i DEF IsFil, FilFields
  <2>2. CASE direct
    BY <1>g, <2>1, <2>2 DEF FilFields
  <2>3. CASE ~direct
    BY <1>g, <2>1, <2>3 DEF FilFields
  <2> QED
    BY <1>o, <2>2, <2>3
<1>6. DataTyped /\ DataFits(n) /\ call.m = n
  BY <1>1, <1>2 DEF DataInv, DataTyped, InCall
<1>7. Kinds(n) /\ Lens(n) /\ Fits(n) /\ Own(n) /\ Marked(n) /\ Inside(n) /\ Pledge(n) /\ DiskKeeps(n)
  BY <1>6 DEF DataFits
<1>8. ~Cutting(n) /\ ~Cutting(n)' /\ ~Seeking(n) /\ ~Seeking(n)' /\ ~Removing'
      /\ call'.op = "write" /\ call'.n = n /\ call'.m = n /\ call'.pc = PcAt(end, left)
  <2>q. PICK q : q = PcAt(end, left)
    OBVIOUS
  <2>1. call' = [call EXCEPT !.left = left, !.pc = q]
    BY <1>2, <1>3, <1>f, <1>e, <1>l, <2>q DEF Transfers
  <2>2. call'.op = "write" /\ call'.n = n /\ call'.m = n /\ call'.pc = q
    BY <1>1, <1>2, <1>6, <2>1 DEF IsCall, CallFields
  <2> QED
    BY <1>1, <2>2, <2>q DEF Cutting, Seeking, Removing, With, Doing
<1>9. /\ s \in Seq(Clusters) /\ InCluster(s, f.clust, AtCluster(f.fptr)) /\ f.fptr \in Nat /\ call.left \in Nat \ {0}
      /\ f.size \in Nat /\ f.fptr <= f.size /\ Its(n, f.slot) /\ f.slot \in Slots /\ f.mod \in BOOLEAN
  <2>1. Ahead(n)
    BY <1>1, <1>2 DEF Ahead, With, Doing
  <2>2. OfChain(n, s)
    BY <1>s, ChainFacts
  <2>3. call.left > 0
    BY <1>1, <1>2, Parts DEF Phase
  <2> QED
    BY <1>2, <1>8, <1>f, <2>1, <2>2, <2>3 DEF OfChain, IsFil, IsCall
<1>10. k \in 1..call.left /\ k <= SS - p /\ k \in Nat \ {0}
  BY <1>9, <1>k, <1>p, InPartIs
<1>11. p \in 0..(SS - 1) /\ SS \in Nat \ {0} /\ left \in Nat /\ end \in Nat
  <2>1. p \in 0..(SS - 1) /\ SS \in Nat \ {0}
    BY <1>9, <1>p, Following, Sizes
  <2> QED
    BY <1>9, <1>10, <1>l, <1>e, <2>1
<1>12. Len(v) = f.size /\ v \in Seq(Int) /\ x \in Int /\ Len(v) \in Nat
  BY <1>2, <1>6, <1>7, <1>8, <1>f, <1>v, <1>x, Ghosts DEF Lens, DataTyped
<1>13. AtSector(f) => ~f.dirty
  BY <1>1, <1>3 DEF Evicts
<1>14. direct => AtSector(f) /\ p = 0 /\ k = SS
  <2>1. direct => AtSector(f) /\ p = 0 /\ call.left >= SS
    BY <1>o, <1>p DEF Direct, AtSector
  <2>l. PICK l : l = call.left
    OBVIOUS
  <2>2. k = IF l < SS - p THEN l ELSE SS - p
    BY <1>k, <1>p, <2>l DEF InPart
  <2> QED
    BY <1>9, <1>11, <2>1, <2>2, <2>l
<1>15. /\ new \in OneSector
       /\ \A q \in 1..Len(w) :
            /\ Loc(s, q) = here => w[q] \in {Unset, new[Off(q)]}
            /\ Loc(s, q) # here => q \in 1..Len(v) /\ q \notin (f.fptr + 1)..(f.fptr + k) /\ w[q] = v[q]
       /\ AtSector(f) => \A q \in 1..Len(v) : q <= f.fptr => Loc(s, q) # here
  <2>1. new = Renewed(f, k, x)
    BY <1>n, <1>p, <1>a, <1>h, Zenon DEF Renewed
  <2>2. k <= SS - (f.fptr % SS) /\ f.fptr <= Len(v)
    BY <1>9, <1>10, <1>12, <1>p
  <2>3. /\ n \in Names /\ f = file[n] /\ s = ChainOf(n) /\ v = UnitsOf(n) /\ DataTyped /\ Kinds(n) /\ Lens(n)
        /\ Fits(n) /\ Inside(n) /\ IsOpen(n) /\ ~Seeking(n) /\ ~Cutting(n)
        /\ InCluster(s, f.clust, AtCluster(f.fptr)) /\ f.fptr \in Nat /\ f.fptr <= Len(v)
        /\ k \in Nat \ {0} /\ k <= SS - (f.fptr % SS) /\ (AtSector(f) => ~f.dirty) /\ x \in Int
    BY <1>2, <1>6, <1>7, <1>8, <1>9, <1>10, <1>12, <1>13, <1>f, <1>s, <1>v, <2>2
  <2>4. Renews(f, s, v, k, x)
    BY <2>3, SectorWritten
  <2> QED
    BY <1>h, <1>w, <2>1, <2>4, Zenon DEF Renews
<1>16. /\ w \in Seq(Int) /\ Len(w) = size /\ Len(v) <= Len(w) /\ Len(w) \in Nat
       /\ \A q \in 1..Len(v) : q <= f.fptr => w[q] = v[q] /\ q \in 1..Len(w)
  <2>t. PICK t : t = f.fptr
    OBVIOUS
  <2>1. t \in 0..Len(v)
    BY <1>9, <1>12, <2>t
  <2>2. w \in Seq(Int) /\ Len(w) = (IF t + k > Len(v) THEN t + k ELSE Len(v))
    BY <1>10, <1>12, <1>w, <2>t, <2>1, OverlayIs
  <2>3. \A q \in 1..Len(w) : q \notin (t + 1)..(t + k) => w[q] = v[q]
    BY <1>10, <1>12, <1>w, <2>t, <2>1, OverlayIs
  <2>4. Len(w) = size /\ Len(v) <= Len(w) /\ Len(w) \in Nat
    BY <1>10, <1>12, <1>e, <1>z, <2>t, <2>1, <2>2
  <2>5. \A q \in 1..Len(v) : q <= t => q \in 1..Len(w) /\ q \notin (t + 1)..(t + k)
    BY <1>10, <1>12, <2>1, <2>4
  <2> QED
    BY <2>2, <2>3, <2>4, <2>5, <2>t
<1>17. /\ here \in Places0 /\ here[1] = f.clust /\ (\A j \in 1..(SS - p) : here = Loc(s, f.fptr + j))
       /\ \E j \in 1..Len(s) : s[j] = here[1]
  BY <1>9, <1>h, <1>p, HereIs DEF InCluster
<1>18. ~AtSector(f) => f.sect = here
  <2> SUFFICES ASSUME ~AtSector(f) PROVE f.sect = here
    OBVIOUS
  <2>1. f.fptr % SS # 0
    BY DEF AtSector
  <2> QED
    BY <1>2, <1>7, <1>8, <1>9, <1>f, <1>s, <1>h, <2>1, HereIs DEF Inside
<1>19. IsOpen(n)' /\ file'[n] = g
  BY <1>4, <1>5 DEF FileBecomes, IsOpen
<1>20. ChainOf(n)' = s
  <2>1. FirstOf(n)' = FirstOf(n)
    BY <1>2, <1>5, <1>8, <1>19, <1>f, FirstStays
  <2> QED
    BY <1>1, <1>s, <2>1, ChainStays
<1>21. content'[n] = Held(w) /\ (\A m \in Names \ {n} : content'[m] = content[m])
       /\ content' \in [Names -> {Absent} \cup {Held(y) : y \in Seq(Int)}]
  BY <1>3, <1>6, <1>16 DEF Content, DataTyped
<1>22. content'[n].kind = "held" /\ UnitsOf(n)' = w
  BY <1>21 DEF UnitsOf, Held
<1>23. /\ data' \in [Places0 -> OneSector] /\ (direct => data'[here] = new)
       /\ \A y \in Places0 : y # here => data'[y] = data[y]
       /\ ~direct => data' = data
  BY <1>3, <1>6, <1>15, <1>17 DEF DataTyped
<1>24. \A i \in Slots : Its(n, i)' <=> Its(n, i)
  BY <1>1, <1>8 DEF Its, IsFile, Excused, Doing
<1>25. Kinds(n)' /\ Lens(n)'
  BY <1>5, <1>8, <1>9, <1>16, <1>19, <1>22, <1>24 DEF Kinds, Lens
<1>26. Fits(n)'
  <2> SUFFICES ASSUME NEW q \in 1..Len(w)
               PROVE  /\ g.sect = Loc(s, q) => w[q] \in {Unset, g.buf[Off(q)]}
                      /\ ~(g.dirty /\ g.sect = Loc(s, q)) => w[q] \in {Unset, data'[Loc(s, q)][Off(q)]}
    BY <1>19, <1>20, <1>22 DEF Fits
  <2>1. CASE Loc(s, q) = here
    <3>1. w[q] \in {Unset, new[Off(q)]}
      BY <1>15, <2>1
    <3>2. CASE direct
      BY <1>5, <1>23, <2>1, <3>1, <3>2
    <3>3. CASE ~direct
      BY <1>5, <2>1, <3>1, <3>3
    <3> QED
      BY <1>o, <3>2, <3>3
  <2>2. CASE Loc(s, q) # here
    <3>1. q \in 1..Len(v) /\ w[q] = v[q]
      BY <1>15, <2>2
    <3>2. /\ f.sect = Loc(s, q) => v[q] \in {Unset, f.buf[Off(q)]}
          /\ ~(f.dirty /\ f.sect = Loc(s, q)) => v[q] \in {Unset, data[Loc(s, q)][Off(q)]}
      BY <1>2, <1>7, <1>f, <1>s, <1>v, <3>1 DEF Fits
    <3>3. Loc(s, q) \in Places0
      BY <1>6, <1>7, <1>s, <1>v, <3>1, UnitsInChain
    <3>4. data'[Loc(s, q)] = data[Loc(s, q)]
      BY <1>23, <2>2, <3>3
    <3>5. CASE direct
      BY <1>5, <2>2, <3>1, <3>2, <3>4, <3>5
    <3>6. CASE ~direct
      BY <1>5, <1>13, <1>18, <2>2, <3>1, <3>2, <3>4, <3>6
    <3> QED
      BY <1>o, <3>5, <3>6
  <2> QED
    BY <2>1, <2>2
<1>27. Own(n)'
  <2> SUFFICES ASSUME g.dirty PROVE g.sect \in Places0 /\ \E j \in 1..Len(s) : s[j] = g.sect[1]
    BY <1>8, <1>19, <1>20 DEF Own
  <2>1. ~direct
    BY <1>5, <1>13, <1>14
  <2> QED
    BY <1>5, <1>17, <2>1
<1>28. mod \/ Writing(n)'
  <2>1. /\ PcAt(end, left) \in {"done", "next", "sector"}
        /\ PcAt(end, left) = "done" <=> left = 0
    BY <1>11, PcAtIs
  <2> QED
    BY <1>8, <1>m, <2>1 DEF Writing, With, Doing
<1>29. Marked(n)'
  BY <1>5, <1>8, <1>19, <1>28 DEF Marked, With, Doing
<1>30. Current(n)'
  BY <1>5, <1>19, <1>28 DEF Current, Apart
<1>31. Inside(n)'
  <2> SUFFICES ASSUME end % SS # 0 PROVE g.sect = Loc(s, end)
    BY <1>5, <1>19, <1>20 DEF Inside
  <2>1. CASE direct
    <3>0. ASSUME NEW a \in Nat, NEW b \in Nat \ {0} PROVE a = b * (a \div b) + (a % b) /\ a \div b \in Nat
      OBVIOUS
    <3>q. PICK q : q = f.fptr
      OBVIOUS
    <3>r. PICK b : b = SS
      OBVIOUS
    <3>4. q \in Nat /\ b \in Nat \ {0}
      BY <1>9, <1>11, <3>q, <3>r
    <3>5. q = b * (q \div b) + (q % b) /\ q \div b \in Nat
      BY <3>0, <3>4
    <3>1. f.fptr = SS * (f.fptr \div SS) + p /\ f.fptr \div SS \in Nat
      BY <1>p, <3>q, <3>r, <3>5
    <3>y. PICK y \in Nat : y = f.fptr \div SS
      BY <3>1
    <3>2. end = SS * (y + 1) + 0 /\ 0 \in 0..(SS - 1)
      <4>1. SS * (y + 1) = SS * y + SS
        BY <1>11
      <4> QED
        BY <1>11, <1>14, <1>e, <2>1, <3>1, <3>y, <4>1
    <3>3. (SS * (y + 1) + 0) % SS = 0
      BY <1>11, <3>2, Quotient
    <3> QED
      BY <3>2, <3>3
  <2>2. CASE ~direct
    <3>1. k \in 1..(SS - p)
      BY <1>10, <1>11
    <3> QED
      BY <1>5, <1>17, <1>e, <2>2, <3>1
  <2> QED
    BY <1>o, <2>1, <2>2
<1>b. PICK pr : pr = promise[n]
  OBVIOUS
<1>32. /\ promise'[n] = IF f.fptr < Len(pr.units) THEN Open ELSE pr
       /\ \A m \in Names \ {n} : promise'[m] = promise[m]
       /\ promise' \in [Names -> {Absent, Open} \cup {Held(y) : y \in Seq(Int)}]
  BY <1>3, <1>6, <1>b DEF Promise, DataTyped
<1>33. Len(pr.units) \in Nat
  BY <1>6, <1>b, Ghosts DEF PledgedOf
<1>34. DiskKeeps(n)'
  <2>1. promise'[n].kind = "open" \/ promise'[n] = promise[n]
    BY <1>32, <1>b DEF Open
  <2> QED
    BY <1>1, <1>6, <1>7, <1>20, <1>s, <2>1, DiskKept
<1>35. Pledge(n)'
  <2> SUFFICES ASSUME promise'[n].kind # "open"
               PROVE  /\ promise'[n].kind = content'[n].kind /\ Len(PledgedOf(n)') <= Len(UnitsOf(n)')
                      /\ n \notin loose' /\ ~(Removing /\ call.n = n)'
                      /\ \A q \in 1..Len(PledgedOf(n)') :
                           /\ PledgedOf(n)'[q] = UnitsOf(n)'[q]
                           /\ PledgedOf(n)'[q] \in {Unset, data'[Loc(ChainOf(n)', q)][Off(q)]}
                      /\ \A i \in Slots : Its(n, i)' => vol'.dir[i].size >= Len(PledgedOf(n)')
    BY DEF Pledge
  <2>r. PICK r : r = pr.units
    OBVIOUS
  <2>1. ~(f.fptr < Len(r)) /\ promise'[n] = pr /\ pr.kind # "open"
    BY <1>32, <2>r DEF Open
  <2>2. PledgedOf(n)' = r /\ r = PledgedOf(n)
    BY <1>b, <2>1, <2>r DEF PledgedOf
  <2>3. /\ pr.kind = content[n].kind /\ Len(r) <= Len(v) /\ n \notin loose
        /\ \A q \in 1..Len(r) : r[q] = v[q] /\ r[q] \in {Unset, data[Loc(s, q)][Off(q)]}
        /\ \A i \in Slots : Its(n, i) => vol.dir[i].size >= Len(r)
    BY <1>7, <1>b, <1>s, <1>v, <2>1, <2>2 DEF Pledge
  <2>4. Len(r) \in Nat /\ Len(r) <= f.fptr /\ Len(r) <= Len(w)
    BY <1>9, <1>12, <1>16, <1>33, <2>r, <2>1, <2>3
  <2>5. content[n].kind = "held"
    BY <1>7, <1>9 DEF Kinds
  <2>6. ASSUME NEW q \in 1..Len(r)
        PROVE  r[q] = w[q] /\ r[q] \in {Unset, data'[Loc(s, q)][Off(q)]}
    <3>1. q \in 1..Len(v) /\ q <= f.fptr
      BY <1>9, <1>12, <2>3, <2>4
    <3>2. r[q] = w[q]
      BY <1>16, <2>3, <3>1
    <3>3. data'[Loc(s, q)] = data[Loc(s, q)]
      <4>1. CASE direct
        <5>1. Loc(s, q) # here
          BY <1>14, <1>15, <3>1, <4>1
        <5>2. Loc(s, q) \in Places0
          BY <1>6, <1>7, <1>s, <1>v, <3>1, UnitsInChain
        <5> QED
          BY <1>23, <5>1, <5>2
      <4>2. CASE ~direct
        BY <1>23, <4>2
      <4> QED
        BY <1>o, <4>1, <4>2
    <3> QED
      BY <2>3, <3>2, <3>3
  <2> QED
    BY <1>1, <1>8, <1>20, <1>22, <1>24, <2>1, <2>2, <2>3, <2>4, <2>5, <2>6
<1>36. DataFits(n)'
  BY <1>25, <1>26, <1>27, <1>29, <1>30, <1>31, <1>34, <1>35 DEF DataFits
<1>37. DataTyped'
  <2>1. g.buf \in OneSector /\ g.dirty \in BOOLEAN
    <3>1. f.buf \in OneSector /\ f.dirty \in BOOLEAN
      BY <1>2, <1>6, <1>f DEF DataTyped
    <3> QED
      BY <1>o, <1>5, <1>15, <3>1
  <2>2. \A m \in Names : IsOpen(m)' => file'[m].buf \in OneSector /\ file'[m].dirty \in BOOLEAN
    BY <1>4, <1>6, <2>1 DEF DataTyped, IsOpen, FileBecomes
  <2>3. call'.m = call'.n
    BY <1>8
  <2>4. calls' \in Nat
    BY <1>1, <1>6 DEF DataTyped
  <2> QED
    BY <1>21, <1>23, <1>32, <2>2, <2>3, <2>4 DEF DataTyped
<1>38. AtReturn' /\ ReadsRight' /\ Among({n}) /\ Among({n})'
  BY <1>1, <1>2, <1>6, <1>8 DEF AtReturn, ReadsRight, Among, Doing
<1>39. \A m \in Names : m \notin {n} =>
         /\ file'[m] = file[m] /\ content'[m] = content[m] /\ promise'[m] = promise[m]
         /\ \A j \in 1..Len(ChainOf(m)) : vol'.fat[ChainOf(m)[j]] = vol.fat[ChainOf(m)[j]]
         /\ \A y \in Places0 : (\E j \in 1..Len(ChainOf(m)) : ChainOf(m)[j] = y[1]) => data'[y] = data[y]
         /\ m \in loose' => m \in loose
  <2> SUFFICES ASSUME NEW m \in Names, m \notin {n}, NEW y \in Places0,
                      NEW j \in 1..Len(ChainOf(m)), ChainOf(m)[j] = y[1]
               PROVE  data'[y] = data[y]
    BY <1>1, <1>4, <1>21, <1>32 DEF FileBecomes
  <2>1. y # here
    BY <1>17, <1>s, ChainFacts
  <2> QED
    BY <1>23, <2>1
<1> QED
  BY <1>1, <1>36, <1>37, <1>38, <1>39, StepData

-----------------------------------------------------------------------------
(* Files that are emptied, truncated, removed or renamed *)

\* A file of no units fits its new entry, open or not yet.
LEMMA EmptyData ==
  ASSUME NEW n \in Names, content'[n] = Held(<<>>), NEW i \in Slots, Its(n, i)',
         \A j \in Slots : Its(n, j)' => vol'.dir[j].size = 0, Pledge(n)', DiskKeeps(n)', call'.op = "open",
         NEW mode,
         \/ file'[n] = NoFile /\ call'.n = n /\ call'.pc \in {"free", "emptied"}
         \/ file'[n] = Emptied(n, i, mode)
  PROVE  DataFits(n)'
PROOF
<1>1. content'[n].kind = "held" /\ UnitsOf(n)' = <<>> /\ Len(UnitsOf(n)') = 0
  BY DEF UnitsOf, Held
<1>2. Kinds(n)'
  BY <1>1 DEF Kinds
<1>3. Fits(n)'
  <2>1. \A p \in 1..0 : FALSE
    OBVIOUS
  <2> QED
    BY <1>1, <2>1 DEF Fits
<1>4. CASE file'[n] = NoFile /\ call'.n = n /\ call'.pc \in {"free", "emptied"}
  <2>1. ~IsOpen(n)'
    BY <1>4 DEF IsOpen, NoFile
  <2>2. ~Apart(n)'
    BY <1>4 DEF Apart, With, Doing
  <2>3. Lens(n)' /\ Own(n)' /\ Marked(n)' /\ Inside(n)' /\ Current(n)'
    BY <1>1, <2>1, <2>2 DEF Lens, Own, Marked, Inside, Current
  <2> QED
    BY <1>2, <1>3, <2>3 DEF DataFits
<1>5. CASE file'[n] = Emptied(n, i, mode)
  <2>1. /\ IsOpen(n)' /\ file'[n].size = 0 /\ file'[n].fptr = 0 /\ file'[n].dirty = FALSE /\ file'[n].mod = TRUE
    BY <1>5 DEF Emptied, IsOpen
  <2>2. ~Cutting(n)' /\ ~With(n, {"sync", "close"}, {"entry", "window", "info"})'
        /\ ~With(n, {"sync", "close"}, {"done"})'
    BY DEF Cutting, With, Doing
  <2>3. Lens(n)'
    BY <1>1, <2>1, <2>2 DEF Lens
  <2>4. Own(n)' /\ Current(n)'
    BY <2>1 DEF Own, Current
  <2>5. Marked(n)'
    BY <2>1, <2>2 DEF Marked
  <2>6. Inside(n)'
    <3>1. 0 % SS = 0
      <4>1. SS * 0 + 0 = 0 /\ 0 \in 0..(SS - 1) /\ SS \in Nat \ {0}
        BY Sizes
      <4>2. (SS * 0 + 0) % SS = 0
        BY <4>1, Quotient
      <4> QED
        BY <4>1, <4>2
    <3> QED
      BY <2>1, <3>1 DEF Inside
  <2> QED
    BY <1>2, <1>3, <2>3, <2>4, <2>5, <2>6 DEF DataFits
<1> QED
  BY <1>4, <1>5

\* f_open, the end of an emptied file.
LEMMA OverIsEmptiedData ==
  ASSUME FatInv, FatInv', DataInv, OverIsEmptied
  PROVE  DataInv'
PROOF
<1>1. /\ call.pc = "emptied" /\ Sees({DirSector(call.slot)}, DirSector(call.slot)) /\ Ends("FR_OK")
      /\ SetFile(call.n, Emptied(call.n, call.slot, call.mode))
      /\ UNCHANGED <<data, content, promise, loose, calls>>
  BY DEF OverIsEmptied
<1>2. call.op = "open" /\ InCall /\ IsCall(call)
  BY <1>1, Parts DEF Phase, InCall, Idle
<1>3. PICK n \in Names : n = call.n
  BY <1>2 DEF IsCall
<1>i. PICK i : i = call.slot
  OBVIOUS
<1>m. PICK mode : mode = call.mode
  OBVIOUS
<1>4. ~IsOpen(n) /\ i \in Slots /\ vol.dir[i] = Entry(n, 0, 0) /\ file[n] = NoFile
  BY <1>1, <1>2, <1>3, <1>i, Parts DEF Phase
<1>5. vol' = vol /\ (disk' = disk \/ AsSeen(disk'))
  BY <1>1, Parts, SeesKeeps
<1>6. call'.op = "open" /\ call'.n = n /\ call'.m = call.m /\ call'.pc = "done" /\ call.m = n
  BY <1>1, <1>2, <1>3 DEF Ends, IsCall, CallFields, DataInv, DataTyped
<1>7. FileBecomes(n, Emptied(n, i, mode))
  BY <1>1, <1>3, <1>i, <1>m, Becomes
<1>8. DataTyped /\ DataFits(n) /\ Among({n}) /\ Among({n})'
  BY <1>3, <1>6 DEF DataInv, Among
<1>9. Kinds(n) /\ Lens(n) /\ Pledge(n) /\ DiskKeeps(n)
  BY <1>8 DEF DataFits
<1>10. \A j \in Slots : Its(n, j)' <=> Its(n, j)
  BY <1>2, <1>5, <1>6 DEF Its, IsFile, Excused, Doing
<1>11. Its(n, i)
  BY <1>2, <1>4 DEF Its, IsFile, Excused, Doing, Entry
<1>12. \A j \in Slots : Its(n, j)' => vol'.dir[j].size = 0
  <2> SUFFICES ASSUME NEW j \in Slots, Its(n, j) PROVE vol'.dir[j].size = 0
    BY <1>10
  <2>1. j = i
    BY <1>4, <1>11, OneEntry
  <2> QED
    BY <1>4, <1>5, <2>1 DEF Entry
<1>13. content[n] = Held(<<>>) /\ Len(UnitsOf(n)) = 0
  <2>1. content[n].kind = "held"
    BY <1>4, <1>9, <1>11 DEF Kinds
  <2>2. Len(UnitsOf(n)) = 0
    <3>1. vol.dir[i].size = Len(UnitsOf(n))
      BY <1>4, <1>9, <1>11 DEF Lens
    <3> QED
      BY <1>4, <3>1 DEF Entry
  <2>3. UnitsOf(n) = <<>>
    BY <1>8, <2>2, Ghosts
  <2> QED
    BY <1>8, <2>1, <2>2, <2>3, Ghosts
<1>14. ~Removing'
  BY <1>6 DEF Removing, Doing
<1>15. Len(PledgedOf(n)) \in Nat /\ PledgedOf(n)' = PledgedOf(n) /\ UnitsOf(n)' = UnitsOf(n)
  BY <1>1, <1>8, Ghosts DEF PledgedOf, UnitsOf
<1>16. promise[n].kind # "open" => Len(PledgedOf(n)) = 0
  BY <1>9, <1>13, <1>15 DEF Pledge
<1>17. Pledge(n)'
  <2> SUFFICES ASSUME promise[n].kind # "open"
               PROVE  /\ promise'[n].kind = content'[n].kind /\ Len(PledgedOf(n)') <= Len(UnitsOf(n)')
                      /\ n \notin loose' /\ ~(Removing /\ call.n = n)'
                      /\ \A p \in 1..Len(PledgedOf(n)') :
                           /\ PledgedOf(n)'[p] = UnitsOf(n)'[p]
                           /\ PledgedOf(n)'[p] \in {Unset, data'[Loc(ChainOf(n)', p)][Off(p)]}
                      /\ \A j \in Slots : Its(n, j)' => vol'.dir[j].size >= Len(PledgedOf(n)')
    BY <1>1 DEF Pledge
  <2>1. \A p \in 1..0 : FALSE
    OBVIOUS
  <2> QED
    BY <1>1, <1>5, <1>9, <1>10, <1>14, <1>15, <1>16, <2>1 DEF Pledge
<1>18. DiskKeeps(n)'
  <2>1. CASE promise[n].kind = "open"
    BY <1>1, <2>1 DEF DiskKeeps, KeptOn
  <2>2. CASE promise[n].kind # "open"
    <3>1. \A p \in 1..0 : FALSE
      OBVIOUS
    <3>2. \A p \in 1..Len(PledgedOf(n)) : ChainOf(n)'[ToCluster(p)] = ChainOf(n)[ToCluster(p)]
      BY <1>16, <2>2, <3>1
    <3> QED
      BY <1>1, <1>5, <1>8, <1>9, <3>2, DiskKept
  <2> QED
    BY <2>1, <2>2
<1>19. DataFits(n)'
  <2>1. content'[n] = Held(<<>>) /\ Its(n, i)' /\ i \in Slots /\ call'.op = "open" /\ file'[n] = Emptied(n, i, mode)
    BY <1>1, <1>4, <1>6, <1>7, <1>10, <1>11, <1>13 DEF FileBecomes
  <2> QED
    BY <1>12, <1>17, <1>18, <2>1, EmptyData
<1>20. DataTyped'
  <2>1. file'[n].buf \in OneSector /\ file'[n].dirty \in BOOLEAN
    BY <1>7, Sizes DEF FileBecomes, Emptied, Zeros, OneSector
  <2>2. \A m \in Names : IsOpen(m)' => file'[m].buf \in OneSector /\ file'[m].dirty \in BOOLEAN
    BY <1>7, <1>8, <2>1 DEF DataTyped, IsOpen, FileBecomes
  <2> QED
    BY <1>1, <1>6, <1>8, <2>2 DEF DataTyped
<1>21. AtReturn' /\ ReadsRight'
  BY <1>6 DEF AtReturn, ReadsRight, Doing
<1> QED
  BY <1>1, <1>5, <1>7, <1>8, <1>19, <1>20, <1>21, StepData DEF FileBecomes

\* f_open, f_truncate and f_unlink: a cluster of no file is freed.
LEMMA FreeClusterData ==
  ASSUME FatInv, FatInv', DataInv, FreeCluster
  PROVE  DataInv'
PROOF
<1>a. PICK a : a = call.cl
  OBVIOUS
<1>1. call.pc = "free" /\ InCall /\ UNCHANGED <<data, file, content, promise, loose, calls>>
  <2>1. call.pc = "free" /\ UNCHANGED <<data, file, content, promise, loose, calls>>
    BY DEF FreeCluster
  <2> QED
    BY <2>1, Parts DEF Idle, InCall
<1>2. /\ IsCall(call) /\ WindowFits /\ vol.fat \in Tables /\ call.op \in {"open", "truncate", "unlink"}
      /\ (call.op # "truncate" => ~IsOpen(call.n))
  <2>1. Phase(call.op, file[call.n], call.pc) /\ call.op # "none"
    BY <1>1, Parts DEF InCall
  <2>2. call.op \in {"open", "truncate", "unlink"}
    BY <1>1, <2>1 DEF Phase
  <2> QED
    BY <1>1, <2>1, <2>2, Parts DEF Phase
<1>3. PICK n \in Names : n = call.n
  BY <1>2 DEF IsCall
<1>4. PICK ch : ChainsFit(ch) /\ \A m \in Names : ChainOf(m) = ch[m]
  BY TheChains
<1>5. Chained(vol.fat, ch) /\ ch[Nobody] # <<>> /\ a = Head0(ch[Nobody])
  BY <1>a, <1>1, <1>4 DEF ChainsFit, Floating
<1>6. a \in Clusters /\ vol.fat[a] \in Clusters \cup {Eoc} /\ a = ch[Nobody][1]
  <2>1. LET r == ch[Nobody] IN r[1] \in Clusters /\ vol.fat[r[1]] \in Clusters \cup {Eoc}
    BY <1>2, <1>5, PopChain, Zenon
  <2> QED
    BY <1>5, <2>1 DEF Head0
<1>n. PICK nxt : nxt = vol.fat[a]
  OBVIOUS
<1>p. PICK pc : pc = (IF nxt \in Clusters THEN "free" ELSE Freed)
  OBVIOUS
<1>7. nxt \notin {0, 1} /\ get_fat(a) = nxt
  BY <1>6, <1>n, Numbers DEF get_fat
<1>8. PutFat({}, a, 0) /\ call' = [call EXCEPT !.cl = nxt, !.pc = pc]
  BY <1>a, <1>p, <1>7 DEF FreeCluster
<1>9. /\ disk' = disk \/ AsSeen(disk')
      /\ vol'.fat = [vol.fat EXCEPT ![a] = 0] /\ vol'.dir = vol.dir
  BY <1>2, <1>6, <1>8, PutFatKeeps DEF Links
<1>10. /\ call'.op = call.op /\ call'.n = n /\ call'.m = call.m /\ call'.pc = pc /\ call.m = n
       /\ pc \in {"free", "emptied", "cut", "window"}
       /\ call.op = "truncate" => pc \in {"free", "cut"}
       /\ call.op = "open" => pc \in {"free", "emptied"}
  <2>1. call.m = n
    BY <1>1, <1>2, <1>3 DEF DataInv, DataTyped
  <2>2. /\ pc \in {"free", "emptied", "cut", "window"}
        /\ call.op = "truncate" => pc \in {"free", "cut"}
        /\ call.op = "open" => pc \in {"free", "emptied"}
    BY <1>p DEF Freed
  <2> QED
    BY <1>2, <1>3, <1>8, <2>1, <2>2 DEF IsCall, CallFields
<1>11. ASSUME NEW m \in Names, NEW k \in 1..Len(ChainOf(m))
       PROVE  vol'.fat[ChainOf(m)[k]] = vol.fat[ChainOf(m)[k]]
  <2>1. ch[m][k] \in Clusters /\ k \in 1..Len(ch[m])
    BY <1>4, <1>5, <1>11, LinkOf DEF Chained, Chainings, Owners
  <2>2. m \in Owners /\ Nobody \in Owners /\ m # Nobody
    BY NobodyIs DEF Owners
  <2>3. 1 \in 1..Len(ch[Nobody])
    BY <1>5, <2>2, HeadOf DEF Chained, Chainings
  <2>4. ch[m][k] # a
    BY <1>5, <1>6, <2>1, <2>2, <2>3 DEF Chained, Distinct
  <2>5. PICK c \in Clusters : c = ChainOf(m)[k] /\ c # a
    BY <1>4, <2>1, <2>4
  <2> QED
    BY <1>2, <1>9, <2>5 DEF Tables
<1>12. \A m \in Names : (Cutting(m)' <=> Cutting(m)) /\ (IsOpen(m)' <=> IsOpen(m))
  BY <1>1, <1>2, <1>3, <1>10 DEF Cutting, With, Doing, IsOpen
<1>13. \A m \in Names : \A i \in Slots : Its(m, i)' <=> Its(m, i)
  BY <1>2, <1>9, <1>10 DEF Its, IsFile, Excused, Doing
<1>14. \A m \in Names : ChainOf(m)' = ChainOf(m)
  <2> SUFFICES ASSUME NEW m \in Names PROVE ChainOf(m)' = ChainOf(m)
    OBVIOUS
  <2>1. FirstOf(m)' = FirstOf(m)
    BY <1>1, <1>9, <1>12, <1>13, FirstStays
  <2> QED
    BY <1>11, <2>1, ChainStays
<1>15. DataTyped /\ DataFits(n) /\ Among({n}) /\ Among({n})'
  BY <1>3, <1>10 DEF DataInv, Among
<1>16. Marked(n) /\ Inside(n)
  BY <1>15 DEF DataFits
<1>17. ~Apart(n)' /\ (IsOpen(n) => Cutting(n) /\ Cutting(n)') /\ ~Seeking(n)
  BY <1>1, <1>2, <1>3, <1>10 DEF Apart, Cutting, Seeking, With, Doing
<1>18. Marked(n)' /\ Inside(n)' /\ Current(n)'
  <2>1. Marked(n)'
    <3>1. ~With(n, {"sync", "close"}, {"entry", "window", "info"})' /\ ~With(n, {"sync", "close"}, {"done"})' /\ ~Writing(n)
      BY <1>2, <1>10 DEF With, Doing, Writing
    <3> QED
      BY <1>1, <1>12, <1>16, <1>17, <3>1 DEF Marked
  <2>2. Inside(n)'
    BY <1>1, <1>12, <1>14, <1>16, <1>17 DEF Inside
  <2> QED
    BY <1>17, <2>1, <2>2 DEF Current
<1>19. DataFits(n)'
  <2>1. ChainGoesOn(n)
    BY <1>14 DEF ChainGoesOn
  <2>2. ~Removing'
    BY <1>2, <1>10 DEF Removing, Doing
  <2> QED
    BY <1>1, <1>9, <1>12, <1>13, <1>14, <1>15, <1>18, <2>1, <2>2, SameData
<1>20. DataTyped'
  <2>1. \A m \in Names : IsOpen(m)' => file'[m].buf \in OneSector /\ file'[m].dirty \in BOOLEAN
    BY <1>1, <1>12, <1>15 DEF DataTyped
  <2> QED
    BY <1>1, <1>10, <1>15, <2>1 DEF DataTyped
<1>21. AtReturn' /\ ReadsRight'
  BY <1>2, <1>10 DEF AtReturn, ReadsRight, Doing
<1> QED
  BY <1>1, <1>9, <1>11, <1>15, <1>19, <1>20, <1>21, StepData

\* f_rename, the end: the old entry is removed.
LEMMA RemoveOldData ==
  ASSUME FatInv, FatInv', DataInv, RemoveOld
  PROVE  DataInv'
PROOF
<1>1. /\ call.pc = "remove" /\ PutDir({}, call.slot, Deleted) /\ Goes("window")
      /\ UNCHANGED <<data, file, content, promise, loose, calls>>
  BY DEF RemoveOld
<1>2. call.op = "rename" /\ InCall /\ IsCall(call)
  BY <1>1, Parts DEF Phase, InCall, Idle
<1>i. PICK i : i = call.slot
  OBVIOUS
<1>3. /\ ~IsOpen(call.n) /\ ~IsOpen(call.m)
      /\ i \in Slots /\ IsFile(i) /\ vol.dir[i].name = call.n
  BY <1>1, <1>2, <1>i, Parts DEF Phase
<1>t. PICK T : T = {call.n, call.m}
  OBVIOUS
<1>4. T \subseteq Names /\ Among(T) /\ \A n \in T : ~IsOpen(n) /\ file[n] = NoFile
  BY <1>2, <1>3, <1>t, Parts DEF Among, IsCall
<1>5. /\ disk' = disk \/ AsSeen(disk')
      /\ vol'.fat = vol.fat /\ vol'.dir[i] = Deleted /\ \A j \in Slots \ {i} : vol'.dir[j] = vol.dir[j]
  <2>1. EntryOk(Deleted) /\ PutDir({}, i, Deleted)
    BY <1>1, <1>i DEF EntryOk, Deleted
  <2> QED
    BY <1>3, <2>1, Parts, PutDirKeeps
<1>6. call'.op = "rename" /\ call'.n = call.n /\ call'.m = call.m /\ call'.pc = "window"
  BY <1>1, <1>2 DEF Goes, IsCall, CallFields
<1>7. \A n \in Names : \A j \in Slots : Its(n, j)' <=> Its(n, j)
  <2> SUFFICES ASSUME NEW n \in Names, NEW j \in Slots PROVE Its(n, j)' <=> Its(n, j)
    OBVIOUS
  <2>1. ~Excused(j)' /\ (Excused(j) <=> j = i)
    BY <1>1, <1>2, <1>i, <1>6 DEF Excused, Doing
  <2>2. CASE j = i
    BY <1>5, <2>1, <2>2 DEF Its, IsFile, Deleted
  <2>3. CASE j # i
    BY <1>5, <2>1, <2>3 DEF Its, IsFile
  <2> QED
    BY <2>2, <2>3
<1>8. \A n \in Names : \A j \in Slots : Its(n, j) => vol'.dir[j] = vol.dir[j]
  <2> SUFFICES ASSUME NEW n \in Names, NEW j \in Slots, Its(n, j) PROVE vol'.dir[j] = vol.dir[j]
    OBVIOUS
  <2>1. j # i
    BY <1>1, <1>2, <1>i DEF Its, Excused, Doing
  <2> QED
    BY <1>5, <2>1
<1>9. DataTyped /\ (\A n \in Names : DataFits(n))
  BY DEF DataInv
<1>10. \A n \in Names : IsOpen(n)' <=> IsOpen(n)
  BY <1>1 DEF IsOpen
<1>11. ASSUME NEW n \in T PROVE DataFits(n)'
  <2>1. n \in Names /\ ~IsOpen(n) /\ ~IsOpen(n)' /\ ~Cutting(n) /\ ~Cutting(n)' /\ ~Removing'
    BY <1>2, <1>4, <1>6, <1>10 DEF Cutting, Removing, With, Doing
  <2>2. FirstOf(n)' = FirstOf(n)
    BY <1>7, <1>8, <2>1, FirstStays
  <2>3. ChainOf(n)' = ChainOf(n)
    BY <1>5, <2>1, <2>2, ChainStays
  <2>4. ChainGoesOn(n)
    BY <2>3 DEF ChainGoesOn
  <2>5. Marked(n)' /\ Inside(n)' /\ Current(n)'
    <3>1. ~Apart(n)'
      BY <1>6, <1>11, <1>t DEF Apart
    <3> QED
      BY <2>1, <3>1 DEF Marked, Inside, Current
  <2> QED
    BY <1>1, <1>5, <1>7, <1>8, <1>9, <2>1, <2>4, <2>5, SameData
<1>12. DataTyped'
  BY <1>1, <1>6, <1>9, <1>10 DEF DataTyped
<1>13. AtReturn' /\ ReadsRight' /\ Among(T)'
  BY <1>6, <1>t DEF AtReturn, ReadsRight, Doing, Among
<1>14. \A j \in Slots : \/ vol'.dir[j] = vol.dir[j]
                        \/ (IsFile(j) => vol.dir[j].name \in T) /\ (IsFile(j)' => vol'.dir[j].name \in T)
  BY <1>3, <1>5, <1>t DEF IsFile, Deleted
<1> QED
  BY <1>1, <1>4, <1>5, <1>11, <1>12, <1>13, <1>14, StepData

\* f_truncate: the chain is cut after the pointer.
LEMMA ChainCut ==
  ASSUME FatInv, ~InCall, NEW n \in Names, TruncateFile(n)
  PROVE  /\ call'.op = "truncate" /\ call'.n = n /\ call'.m = n /\ call'.pc \in {"free", "cut"}
         /\ disk' = disk \/ AsSeen(disk')
         /\ vol'.dir = vol.dir
         /\ \A m \in Names \ {n} : \A k \in 1..Len(ChainOf(m)) : vol'.fat[ChainOf(m)[k]] = vol.fat[ChainOf(m)[k]]
         /\ Len(ChainOf(n)') <= Len(ChainOf(n)) /\ Len(ChainOf(n)') \in Nat
         /\ \A k \in 1..Len(ChainOf(n)') : k \in 1..Len(ChainOf(n)) /\ ChainOf(n)'[k] = ChainOf(n)[k]
         /\ file[n].fptr <= Len(ChainOf(n)') * BCS
PROOF
<1>f. PICK f : f = file[n]
  OBVIOUS
<1>s. PICK s : s = ChainOf(n)
  OBVIOUS
<1>p. PICK p : p = f.fptr
  OBVIOUS
<1>l. PICK cl : cl = f.clust
  OBVIOUS
<1>1. /\ call.op = "none" /\ call.pc = "idle" /\ WindowFits /\ vol.fat \in Tables
  BY AtRest, Parts
<1>2. IsOpen(n) /\ p < f.size /\ file' = file
  BY <1>f, <1>p DEF TruncateFile
<1>3. ~Ahead(n) /\ ~Cutting(n)
  BY <1>1 DEF Ahead, Cutting, With, Doing
<1>4. /\ s \in Seq(Clusters) /\ Linked(vol.fat, s) /\ Head0(s) = FirstOf(n) /\ FirstOf(n) = f.sclust
      /\ (\A k, l \in 1..Len(s) : s[k] = s[l] => k = l)
      /\ p > 0 => InCluster(s, cl, ToCluster(p))
      /\ p <= Room(s) /\ IsFil(f) /\ p \in Nat /\ Len(s) \in Nat
  <2>1. OfChain(n, s)
    BY <1>s, ChainFacts
  <2>2. FirstOf(n) = f.sclust
    BY <1>2, <1>3, <1>f DEF FirstOf
  <2> QED
    BY <1>2, <1>3, <1>f, <1>p, <1>l, <2>1, <2>2 DEF OfChain, IsFil
<1>c. PICK c : c = (IF p = 0 THEN f.sclust ELSE get_fat(cl))
  OBVIOUS
<1>5. ASSUME NEW pc, NEW d, d = [NewCall("truncate", n, pc) EXCEPT !.cl = c]
      PROVE  d.op = "truncate" /\ d.n = n /\ d.m = n /\ d.pc = pc
  BY <1>5 DEF NewCall
<1>6. ASSUME NEW r \in Seq(Clusters), NEW t, t = vol'.fat, Linked(t, r), Cutting(n)',
             IF p = 0 THEN r = <<>> ELSE Head0(r) = Head0(s),
             Len(r) <= Len(s), \A k \in 1..Len(r) : r[k] = s[k], p <= Len(r) * BCS
      PROVE  /\ Len(ChainOf(n)') <= Len(s) /\ Len(ChainOf(n)') \in Nat
             /\ \A k \in 1..Len(ChainOf(n)') : k \in 1..Len(s) /\ ChainOf(n)'[k] = s[k]
             /\ p <= Len(ChainOf(n)') * BCS
  <2>1. FirstOf(n)' = Head0(r)
    <3>1. FirstOf(n)' = IF p = 0 THEN 0 ELSE f.sclust
      BY <1>2, <1>6, <1>f, <1>p DEF FirstOf, IsOpen
    <3> QED
      BY <1>4, <1>6, <3>1 DEF Head0
  <2>2. Len(r) \in Nat /\ \A k \in 1..Len(r) : k \in 1..Len(s)
    BY <1>4, <1>6
  <2>3. \A k, l \in 1..Len(r) : r[k] = r[l] => k = l
    BY <1>4, <1>6, <2>2
  <2>4. ChainOf(n)' = r
    BY <1>6, <2>1, <2>3, ChainThen
  <2> QED
    BY <1>6, <2>2, <2>4
<1>7. CASE p = 0
  <2>1. SeesNothing
    BY <1>7, <1>f, <1>p DEF TruncateFile
  <2>2. call' = [NewCall("truncate", n, "free") EXCEPT !.cl = c]
    BY <1>7, <1>c, <1>f, <1>p DEF TruncateFile, Begins
  <2>3. call'.op = "truncate" /\ call'.n = n /\ call'.m = n /\ call'.pc = "free"
    BY <1>5, <2>2
  <2>4. vol' = vol /\ disk' = disk
    BY <2>1 DEF SeesNothing
  <2>5. Cutting(n)'
    BY <2>3 DEF Cutting, With, Doing
  <2>t. PICK t : t = vol'.fat
    OBVIOUS
  <2>r. PICK r : r = <<>>
    OBVIOUS
  <2>8. r \in Seq(Clusters) /\ Len(r) = 0 /\ \A k \in 1..0 : FALSE
    BY <2>r
  <2>6. /\ r \in Seq(Clusters) /\ Linked(t, r) /\ Len(r) <= Len(s) /\ p <= Len(r) * BCS
        /\ \A k \in 1..Len(r) : r[k] = s[k]
    BY <1>4, <1>7, <2>8, Sizes DEF Linked
  <2>7. /\ Len(ChainOf(n)') <= Len(s) /\ Len(ChainOf(n)') \in Nat
        /\ \A k \in 1..Len(ChainOf(n)') : k \in 1..Len(s) /\ ChainOf(n)'[k] = s[k]
        /\ p <= Len(ChainOf(n)') * BCS
    BY <1>6, <1>7, <2>t, <2>r, <2>5, <2>6
  <2> QED
    BY <1>s, <1>f, <1>p, <2>3, <2>4, <2>7
<1>8. CASE p # 0
  <2>j. PICK j : j = ToCluster(p)
    OBVIOUS
  <2>1. j \in 1..Len(s) /\ cl = s[j] /\ cl \in Clusters /\ p > 0
    BY <1>4, <1>8, <2>j, LinkOf DEF InCluster
  <2>2. c = vol.fat[cl] /\ c = After(s, j)
    BY <1>4, <1>8, <1>c, <2>1 DEF get_fat, Linked
  <2>3. /\ j = Len(s) => c = Eoc
        /\ j # Len(s) => c = s[j + 1] /\ c \in Clusters
        /\ j \in Nat
    BY <1>4, <2>1, <2>2, LinkOf
  <2>t. PICK t : t = vol'.fat
    OBVIOUS
  <2>4. CASE j = Len(s)
    <3>1. c = Eoc
      BY <2>3, <2>4
    <3>2. call' = [NewCall("truncate", n, "cut") EXCEPT !.cl = c] /\ SeesFat(cl)
      BY <1>8, <1>c, <1>f, <1>p, <1>l, <3>1 DEF TruncateFile, Begins
    <3>3. call'.op = "truncate" /\ call'.n = n /\ call'.m = n /\ call'.pc = "cut"
      BY <1>5, <3>2
    <3>4. vol' = vol /\ (disk' = disk \/ AsSeen(disk'))
      BY <1>1, <3>2, SeesFatKeeps
    <3>5. Cutting(n)'
      BY <3>3 DEF Cutting, With, Doing
    <3>6. Linked(t, s) /\ p <= Len(s) * BCS
      BY <1>4, <2>t, <3>4 DEF Room
    <3>7. /\ Len(ChainOf(n)') <= Len(s) /\ Len(ChainOf(n)') \in Nat
          /\ \A k \in 1..Len(ChainOf(n)') : k \in 1..Len(s) /\ ChainOf(n)'[k] = s[k]
          /\ p <= Len(ChainOf(n)') * BCS
      BY <1>4, <1>6, <1>8, <2>t, <3>5, <3>6
    <3> QED
      BY <1>s, <1>f, <1>p, <3>3, <3>4, <3>7
  <2>5. CASE j # Len(s)
    <3>1. c # Eoc
      BY <2>3, <2>5, Numbers
    <3>2. call' = [NewCall("truncate", n, "free") EXCEPT !.cl = c] /\ PutFat({}, cl, Eoc)
      BY <1>8, <1>c, <1>f, <1>p, <1>l, <3>1 DEF TruncateFile, Begins
    <3>3. call'.op = "truncate" /\ call'.n = n /\ call'.m = n /\ call'.pc = "free"
      BY <1>5, <3>2
    <3>x. PICK x : x = Eoc
      OBVIOUS
    <3>4. /\ disk' = disk \/ AsSeen(disk')
          /\ vol'.fat = [vol.fat EXCEPT ![cl] = x] /\ vol'.dir = vol.dir
      <4>1. WindowFits /\ cl \in Clusters /\ x \in Links /\ PutFat({}, cl, x)
        BY <1>1, <2>1, <3>2, <3>x DEF Links
      <4> QED
        BY <4>1, PutFatKeeps
    <3>5. t[cl] = x /\ \A d \in Clusters : d # cl => t[d] = vol.fat[d]
      BY <1>1, <2>1, <2>t, <3>4 DEF Tables
    <3>r. PICK r : r = SubSeq(s, 1, j)
      OBVIOUS
    <3>6. r \in Seq(Clusters) /\ Len(r) = j /\ \A k \in 1..j : r[k] = s[k]
      BY <1>4, <2>1, <3>r, PartsAre
    <3>7. Linked(t, r)
      <4> SUFFICES ASSUME NEW k \in 1..j PROVE t[r[k]] = After(r, k)
        BY <3>6 DEF Linked
      <4>1. k \in 1..Len(s) /\ r[k] = s[k] /\ s[k] \in Clusters
        BY <1>4, <2>1, <3>6, LinkOf
      <4>2. CASE k = j
        BY <2>1, <3>5, <3>6, <3>x, <4>1, <4>2 DEF After
      <4>3. CASE k # j
        <5>1. s[k] # cl /\ k # Len(s) /\ k + 1 \in 1..j
          BY <1>4, <2>1, <2>3, <4>1, <4>3
        <5>2. vol.fat[s[k]] = After(s, k)
          BY <1>4, <4>1 DEF Linked
        <5> QED
          BY <3>5, <3>6, <4>1, <4>3, <5>1, <5>2 DEF After
      <4> QED
        BY <4>2, <4>3
    <3>8. Head0(r) = Head0(s) /\ p <= Len(r) * BCS /\ Len(r) <= Len(s) /\ \A k \in 1..Len(r) : r[k] = s[k]
      <4>1. p <= j * BCS
        BY <1>4, <2>1, <2>j, ToClusterHolds
      <4>2. 1 \in 1..j /\ 1 \in 1..Len(s)
        BY <1>4, <2>1
      <4>3. r # <<>> /\ s # <<>>
        BY <1>4, <3>6, <4>2, HeadOf
      <4> QED
        BY <1>4, <2>1, <3>6, <4>1, <4>2, <4>3 DEF Head0
    <3>9. Cutting(n)'
      BY <3>3 DEF Cutting, With, Doing
    <3>10. /\ Len(ChainOf(n)') <= Len(s) /\ Len(ChainOf(n)') \in Nat
           /\ \A k \in 1..Len(ChainOf(n)') : k \in 1..Len(s) /\ ChainOf(n)'[k] = s[k]
           /\ p <= Len(ChainOf(n)') * BCS
      BY <1>6, <1>8, <2>t, <3>6, <3>7, <3>8, <3>9
    <3>11. \A m \in Names \ {n} : \A k \in 1..Len(ChainOf(m)) : vol'.fat[ChainOf(m)[k]] = vol.fat[ChainOf(m)[k]]
      <4> SUFFICES ASSUME NEW m \in Names \ {n}, NEW k \in 1..Len(ChainOf(m))
                   PROVE  vol'.fat[ChainOf(m)[k]] = vol.fat[ChainOf(m)[k]]
        OBVIOUS
      <4>1. ChainOf(m) \in Seq(Clusters) /\ ChainOf(m)[k] # cl
        BY <1>s, <2>1, ChainFacts DEF OfChain
      <4>2. PICK d \in Clusters : d = ChainOf(m)[k]
        BY <4>1
      <4> QED
        BY <2>t, <3>5, <4>1, <4>2
    <3> QED
      BY <1>s, <1>f, <1>p, <3>3, <3>4, <3>10, <3>11
  <2> QED
    BY <2>4, <2>5
<1> QED
  BY <1>7, <1>8

\* f_truncate: what is left is the beginning of the file.
LEMMA TruncateFileData ==
  ASSUME FatInv, FatInv', DataInv, ~InCall, NEW n \in Names, TruncateFile(n), calls' = calls + 1
  PROVE  DataInv'
PROOF
<1>f. PICK f : f = file[n]
  OBVIOUS
<1>s. PICK s : s = ChainOf(n)
  OBVIOUS
<1>r. PICK r : r = ChainOf(n)'
  OBVIOUS
<1>v. PICK v : v = UnitsOf(n)
  OBVIOUS
<1>p. PICK p : p = f.fptr
  OBVIOUS
<1>w. PICK w : w = [u \in 1..p |-> v[u]]
  OBVIOUS
<1>1. /\ IsOpen(n) /\ p < f.size /\ file' = file /\ Content(n, w) /\ Promise(n, Open)
      /\ loose' = loose \cup {n} /\ data' = data
  BY <1>f, <1>v, <1>p, <1>w DEF TruncateFile, UnitsOf
<1>2. /\ call'.op = "truncate" /\ call'.n = n /\ call'.m = n /\ call'.pc \in {"free", "cut"}
      /\ (disk' = disk \/ AsSeen(disk')) /\ vol'.dir = vol.dir
      /\ \A m \in Names \ {n} : \A k \in 1..Len(ChainOf(m)) : vol'.fat[ChainOf(m)[k]] = vol.fat[ChainOf(m)[k]]
      /\ Len(r) <= Len(s) /\ Len(r) \in Nat
      /\ \A k \in 1..Len(r) : k \in 1..Len(s) /\ r[k] = s[k]
      /\ p <= Len(r) * BCS
  BY <1>f, <1>s, <1>r, <1>p, ChainCut
<1>3. call.op = "none" /\ call.pc = "idle"
  BY AtRest
<1>4. ~Cutting(n) /\ Cutting(n)' /\ ~Seeking(n) /\ ~Writing(n) /\ ~Removing'
  BY <1>2, <1>3 DEF Cutting, Seeking, Writing, Removing, With, Doing
<1>5. DataTyped /\ (\A m \in Names : DataFits(m))
  BY DEF DataInv
<1>6. Kinds(n) /\ Lens(n) /\ Fits(n) /\ Own(n) /\ Marked(n) /\ Inside(n)
  BY <1>5 DEF DataFits
<1>7. /\ s \in Seq(Clusters) /\ p \in Nat /\ f.size \in Nat /\ Its(n, f.slot) /\ f.slot \in Slots
  <2>1. OfChain(n, s)
    BY <1>s, ChainFacts
  <2> QED
    BY <1>1, <1>f, <1>p, <2>1 DEF OfChain, IsFil
<1>8. Len(v) = f.size /\ v \in Seq(Int)
  BY <1>1, <1>4, <1>5, <1>6, <1>f, <1>v, Ghosts DEF Lens
<1>9. w \in Seq(Int) /\ Len(w) = p /\ \A q \in 1..p : q \in 1..Len(v) /\ w[q] = v[q]
  <2>1. \A q \in 1..p : q \in 1..Len(v)
    BY <1>1, <1>7, <1>8
  <2>2. \A q \in 1..p : v[q] \in Int
    BY <1>8, <2>1
  <2> QED
    BY <1>7, <1>w, <2>1, <2>2
<1>10. content'[n] = Held(w) /\ (\A m \in Names \ {n} : content'[m] = content[m])
       /\ content' \in [Names -> {Absent} \cup {Held(y) : y \in Seq(Int)}]
  BY <1>1, <1>5, <1>9 DEF Content, DataTyped
<1>11. promise'[n] = Open /\ (\A m \in Names \ {n} : promise'[m] = promise[m])
       /\ promise' \in [Names -> {Absent, Open} \cup {Held(y) : y \in Seq(Int)}]
  BY <1>1, <1>5 DEF Promise, DataTyped
<1>12. content'[n].kind = "held" /\ UnitsOf(n)' = w /\ promise'[n].kind = "open"
  BY <1>10, <1>11 DEF UnitsOf, Held, Open
<1>13. \A m \in Names : \A i \in Slots : Its(m, i)' <=> Its(m, i)
  BY <1>2, <1>3 DEF Its, IsFile, Excused, Doing
<1>14. (\A m \in Names : IsOpen(m)' <=> IsOpen(m)) /\ file'[n] = f
  BY <1>1, <1>f DEF IsOpen
<1>15. \A q \in Nat \ {0} : q <= p => Loc(r, q) = Loc(s, q)
  <2> SUFFICES ASSUME NEW q \in Nat \ {0}, q <= p PROVE Loc(r, q) = Loc(s, q)
    OBVIOUS
  <2>l. PICK l : l = Len(r)
    OBVIOUS
  <2>1. l \in Nat /\ q <= l * BCS
    <3>b. PICK b : b = l * BCS
      OBVIOUS
    <3>1. b \in Int
      BY <1>2, <2>l, <3>b, Sizes
    <3> QED
      BY <1>2, <1>7, <2>l, <3>b, <3>1
  <2>2. ToCluster(q) \in 1..l
    BY <2>1, InChain
  <2> QED
    BY <1>2, <2>l, <2>2, LocIn
<1>16. \A m \in Names \ {n} : ChainOf(m)' = ChainOf(m)
  <2> SUFFICES ASSUME NEW m \in Names \ {n} PROVE ChainOf(m)' = ChainOf(m)
    OBVIOUS
  <2>1. Cutting(m)' <=> Cutting(m)
    BY <1>2, <1>3 DEF Cutting, With, Doing
  <2>2. FirstOf(m)' = FirstOf(m)
    BY <1>1, <1>2, <1>13, <1>14, <2>1, FirstStays
  <2> QED
    BY <1>2, <2>2, ChainStays
<1>17. Kinds(n)' /\ Lens(n)'
  BY <1>1, <1>4, <1>7, <1>9, <1>12, <1>13, <1>14, <1>p DEF Kinds, Lens
<1>18. Fits(n)'
  <2> SUFFICES ASSUME NEW q \in 1..p
               PROVE  /\ f.sect = Loc(r, q) => w[q] \in {Unset, f.buf[Off(q)]}
                      /\ ~(f.dirty /\ f.sect = Loc(r, q)) => w[q] \in {Unset, data[Loc(r, q)][Off(q)]}
    BY <1>1, <1>9, <1>12, <1>14, <1>r DEF Fits
  <2>1. Loc(r, q) = Loc(s, q) /\ q \in 1..Len(v) /\ w[q] = v[q]
    BY <1>7, <1>9, <1>15
  <2>2. /\ f.sect = Loc(s, q) => v[q] \in {Unset, f.buf[Off(q)]}
        /\ ~(f.dirty /\ f.sect = Loc(s, q)) => v[q] \in {Unset, data[Loc(s, q)][Off(q)]}
    BY <1>1, <1>6, <1>f, <1>s, <1>v, <2>1 DEF Fits
  <2> QED
    BY <2>1, <2>2
<1>19. Own(n)'
  <2> SUFFICES ASSUME f.dirty
               PROVE  /\ f.sect \in Places0
                      /\ \A m \in Names \ {n} : \A k \in 1..Len(ChainOf(m)) : ChainOf(m)[k] # f.sect[1]
    BY <1>4, <1>14, <1>16 DEF Own
  <2>1. PICK k \in 1..Len(s) : s[k] = f.sect[1]
    BY <1>1, <1>4, <1>6, <1>f, <1>s DEF Own
  <2> QED
    BY <1>1, <1>4, <1>6, <1>f, <1>s, <2>1, ChainFacts DEF Own
<1>20. Marked(n)'
  <2>1. f.dirty => f.mod
    BY <1>1, <1>4, <1>6, <1>f DEF Marked
  <2> QED
    BY <1>2, <1>4, <1>14, <2>1 DEF Marked, With, Doing
<1>21. Inside(n)'
  <2> SUFFICES ASSUME p % SS # 0 PROVE f.sect = Loc(r, p)
    BY <1>14, <1>p, <1>r DEF Inside
  <2>1. f.sect = Loc(s, p)
    BY <1>1, <1>4, <1>6, <1>f, <1>s, <1>p DEF Inside
  <2>2. p > 0
    BY <1>7, Following
  <2> QED
    BY <1>7, <1>15, <2>1, <2>2
<1>22. Pledge(n)' /\ DiskKeeps(n)'
  BY <1>12 DEF Pledge, DiskKeeps, KeptOn
<1>23. Current(n)'
  BY <1>4 DEF Current, Apart
<1>24. DataFits(n)'
  BY <1>17, <1>18, <1>19, <1>20, <1>21, <1>22, <1>23 DEF DataFits
<1>25. DataTyped'
  <2>1. \A m \in Names : IsOpen(m)' => file'[m].buf \in OneSector /\ file'[m].dirty \in BOOLEAN
    BY <1>1, <1>5, <1>14 DEF DataTyped
  <2>2. calls' \in Nat
    BY <1>5 DEF DataTyped
  <2> QED
    BY <1>1, <1>2, <1>5, <1>10, <1>11, <2>1, <2>2 DEF DataTyped
<1>26. AtReturn' /\ ReadsRight' /\ Among({n}) /\ Among({n})'
  BY <1>2 DEF AtReturn, ReadsRight, Doing, Among
<1> QED
  BY <1>1, <1>2, <1>10, <1>11, <1>24, <1>25, <1>26, StepData

\* Zero is the beginning of a sector.
LEMMA ZeroInSector == 0 % SS = 0
PROOF
<1>1. SS * 0 + 0 = 0 /\ 0 \in 0..(SS - 1) /\ SS \in Nat \ {0}
  BY Sizes
<1>2. (SS * 0 + 0) % SS = 0
  BY <1>1, Quotient
<1> QED
  BY <1>1, <1>2

\* f_open of a file that is there: what it holds is on the disk.
LEMMA OpenOldData ==
  ASSUME FatInv, FatInv', DataInv, ~InCall, NEW n \in Names, NEW mode, ~IsOpen(n), OpenOld(n, mode),
         UNCHANGED <<data, loose>>
  PROVE  DataInv'
PROOF
<1>i. PICK i : i = SlotOf(n)
  OBVIOUS
<1>c. PICK ch : ChainsFit(ch)
  BY DEF FatInv
<1>1. i \in Slots /\ i # 0 /\ IsFile(i) /\ vol.dir[i].name = n
  <2>1. i # 0
    BY <1>i DEF OpenOld
  <2> QED
    BY <1>i, <1>c, <2>1, ClosedFile
<1>2. call.op = "none" /\ call.pc = "idle"
  BY AtRest
<1>g. PICK g : g = file'[n]
  OBVIOUS
<1>o. PICK o : o = Opened(n, i, mode)
  OBVIOUS
<1>h. PICK h : h = [o EXCEPT !.clust = o.sclust]
  OBVIOUS
<1>3. PICK pc, left :
        /\ SetFile(n, o) \/ SetFile(n, h)
        /\ call' = [NewCall("open", n, pc) EXCEPT !.left = left] /\ pc \in {"seek", "done"}
        /\ Sees(SectorsTo(i), DirSector(i)) /\ calls' = calls + 1
        /\ UNCHANGED <<data, content, promise, loose>>
  <2>a. PICK a : a = (IF "SEEKEND" \in mode /\ o.size > 0 THEN "seek" ELSE "done")
    OBVIOUS
  <2>b. PICK b : b = o.size
    OBVIOUS
  <2>1. /\ SetFile(n, o) \/ SetFile(n, h)
        /\ call' = [NewCall("open", n, a) EXCEPT !.left = b] /\ a \in {"seek", "done"}
        /\ Sees(SectorsTo(i), DirSector(i)) /\ calls' = calls + 1
        /\ UNCHANGED <<data, content, promise, loose>>
    BY <1>i, <1>o, <1>h, <2>a, <2>b DEF OpenOld, Begins
  <2> QED
    BY <2>1
<1>4. FileBecomes(n, g) /\ (g = o \/ g = h)
  BY <1>g, <1>3, Becomes DEF FileBecomes
<1>5. /\ IsOpen(n)' /\ g.slot = i /\ g.sclust = vol.dir[i].clust /\ g.size = vol.dir[i].size /\ g.fptr = 0
      /\ g.sect = NoSect /\ g.buf = Zeros /\ g.dirty = FALSE /\ g.mod = FALSE
  <2>1. CASE g = o
    BY <1>g, <1>o, <2>1 DEF Opened, IsOpen
  <2>2. CASE g = h
    BY <1>g, <1>o, <1>h, <2>2 DEF Opened, IsOpen
  <2> QED
    BY <1>4, <2>1, <2>2
<1>6. call'.op = "open" /\ call'.n = n /\ call'.m = n /\ call'.pc = pc /\ call'.got = <<>>
  BY <1>3 DEF NewCall
<1>7. vol' = vol /\ (disk' = disk \/ AsSeen(disk'))
  <2>1. DirSector(i) \in SectorsTo(i)
    BY <1>1, LastIsSeen
  <2> QED
    BY <1>3, <2>1, Parts, SeesKeeps
<1>8. DataTyped /\ DataFits(n) /\ Among({n}) /\ Among({n})'
  BY <1>6 DEF DataInv, Among
<1>9. Kinds(n) /\ Lens(n) /\ Fits(n) /\ Pledge(n) /\ DiskKeeps(n) /\ Current(n)
  BY <1>8 DEF DataFits
<1>10. (\A j \in Slots : Its(n, j)' <=> Its(n, j)) /\ Its(n, i)
  BY <1>1, <1>2, <1>6, <1>7 DEF Its, IsFile, Excused, Doing
<1>11. ~Cutting(n)' /\ ~Removing' /\ ~With(n, {"sync", "close"}, {"entry", "window", "info"})'
       /\ ~With(n, {"sync", "close"}, {"done"})' /\ Apart(n)
  BY <1>2, <1>6 DEF Cutting, Removing, With, Doing, Apart, Writing
<1>12. FirstOf(n)' = FirstOf(n)
  <2>x. PICK x : x = (CHOOSE j \in Slots : Its(n, j))
    OBVIOUS
  <2>1. x \in Slots /\ Its(n, x)
    BY <1>1, <1>10, <2>x
  <2>2. x = i
    BY <1>1, <1>10, <2>1, OneEntry
  <2>3. FirstOf(n) = vol.dir[i].clust
    BY <1>1, <1>10, <2>x, <2>2 DEF FirstOf
  <2>4. FirstOf(n)' = vol.dir[i].clust
    BY <1>g, <1>5, <1>11 DEF FirstOf
  <2> QED
    BY <2>3, <2>4
<1>13. ChainOf(n)' = ChainOf(n)
  BY <1>7, <1>12, ChainStays
<1>14. UnitsOf(n)' = UnitsOf(n) /\ PledgedOf(n)' = PledgedOf(n) /\ vol.dir[i].size = Len(UnitsOf(n))
  BY <1>1, <1>3, <1>9, <1>10 DEF UnitsOf, PledgedOf, Lens
<1>15. Kinds(n)' /\ Lens(n)'
  BY <1>g, <1>3, <1>5, <1>9, <1>10, <1>11, <1>14 DEF Kinds, Lens
<1>16. Fits(n)'
  <2> SUFFICES ASSUME NEW p \in 1..Len(UnitsOf(n))
               PROVE  /\ NoSect # Loc(ChainOf(n), p)
                      /\ UnitsOf(n)[p] \in {Unset, data[Loc(ChainOf(n), p)][Off(p)]}
    BY <1>g, <1>3, <1>5, <1>13, <1>14 DEF Fits
  <2>1. Loc(ChainOf(n), p) \in Places0
    BY <1>8, <1>9, UnitsInChain
  <2>2. NoSect \notin Places0
    BY Numbers DEF NoSect, Places0
  <2> QED
    BY <1>9, <2>1, <2>2 DEF Fits
<1>17. Own(n)' /\ Inside(n)' /\ Marked(n)'
  <2>1. Own(n)'
    BY <1>g, <1>5 DEF Own
  <2>2. Inside(n)'
    BY <1>g, <1>5, ZeroInSector DEF Inside
  <2>3. Marked(n)'
    BY <1>g, <1>5, <1>7, <1>11 DEF Marked
  <2> QED
    BY <2>1, <2>2, <2>3
<1>18. Pledge(n)'
  BY <1>3, <1>7, <1>9, <1>10, <1>11, <1>13, <1>14 DEF Pledge
<1>19. DiskKeeps(n)'
  BY <1>3, <1>7, <1>8, <1>9, <1>13, DiskKept
<1>20. Current(n)'
  BY <1>3, <1>9, <1>11 DEF Current
<1>21. DataFits(n)'
  BY <1>15, <1>16, <1>17, <1>18, <1>19, <1>20 DEF DataFits
<1>22. DataTyped'
  <2>1. g.buf \in OneSector /\ g.dirty \in BOOLEAN
    <3>1. Zeros \in OneSector
      BY DEF Zeros, OneSector
    <3>2. g.dirty \in BOOLEAN
      BY <1>5, Zenon
    <3> QED
      BY <1>5, <3>1, <3>2
  <2>2. \A m \in Names : IsOpen(m)' => file'[m].buf \in OneSector /\ file'[m].dirty \in BOOLEAN
    BY <1>4, <1>8, <2>1 DEF DataTyped, IsOpen, FileBecomes
  <2>3. calls' \in Nat
    BY <1>3, <1>8 DEF DataTyped
  <2> QED
    BY <1>3, <1>6, <1>8, <2>2, <2>3 DEF DataTyped
<1>23. AtReturn' /\ ReadsRight'
  BY <1>6 DEF AtReturn, ReadsRight, Doing
<1> QED
  BY <1>3, <1>4, <1>7, <1>8, <1>21, <1>22, <1>23, StepData DEF FileBecomes

\* f_open that empties a file or enters a new one: its entry is the one of slot i.
LEMMA OpenEmptyData ==
  ASSUME FatInv, FatInv', DataInv, ~InCall, NEW n \in Names, ~IsOpen(n), NEW mode, NEW i \in Slots,
         IsFile(i) => vol.dir[i].name = n, \A j \in Slots : IsFile(j) /\ vol.dir[j].name = n => j = i,
         disk' = disk \/ AsSeen(disk'), vol'.fat = vol.fat, vol'.dir[i] = Entry(n, 0, 0),
         \A j \in Slots \ {i} : vol'.dir[j] = vol.dir[j],
         Content(n, <<>>), Promise(n, Open), UNCHANGED <<data, loose>>, calls' = calls + 1,
         call'.op = "open", call'.n = n, call'.m = n,
         (file' = file /\ call'.pc = "free") \/ FileBecomes(n, Emptied(n, i, mode))
  PROVE  DataInv'
PROOF
<1>1. call.op = "none"
  BY AtRest
<1>2. DataTyped
  BY DEF DataInv
<1>3. /\ content'[n] = Held(<<>>) /\ (\A m \in Names \ {n} : content'[m] = content[m])
      /\ content' \in [Names -> {Absent} \cup {Held(y) : y \in Seq(Int)}]
  <2>1. <<>> \in Seq(Int)
    OBVIOUS
  <2> QED
    BY <1>2, <2>1 DEF Content, DataTyped
<1>4. /\ promise'[n] = Open /\ (\A m \in Names \ {n} : promise'[m] = promise[m])
      /\ promise' \in [Names -> {Absent, Open} \cup {Held(y) : y \in Seq(Int)}]
  BY <1>2 DEF Promise, DataTyped
<1>5. \A j \in Slots : Its(n, j)' <=> j = i
  <2> SUFFICES ASSUME NEW j \in Slots PROVE Its(n, j)' <=> j = i
    OBVIOUS
  <2>1. ~Excused(j)'
    BY DEF Excused, Doing
  <2>2. CASE j = i
    BY <2>1, <2>2 DEF Its, IsFile, Entry
  <2>3. CASE j # i
    BY <2>1, <2>3 DEF Its, IsFile
  <2> QED
    BY <2>2, <2>3
<1>6. \A j \in Slots : Its(n, j)' => vol'.dir[j].size = 0
  BY <1>5 DEF Entry
<1>7. Pledge(n)' /\ DiskKeeps(n)'
  BY <1>4 DEF Pledge, DiskKeeps, KeptOn, Open
<1>8. DataFits(n)'
  <2>1. \/ file'[n] = NoFile /\ call'.n = n /\ call'.pc \in {"free", "emptied"}
        \/ file'[n] = Emptied(n, i, mode)
    BY Parts DEF FileBecomes
  <2>2. Its(n, i)'
    BY <1>5
  <2> QED
    BY <1>3, <1>6, <1>7, <2>1, <2>2, EmptyData
<1>9. \A m \in Names \ {n} : file'[m] = file[m]
  BY DEF FileBecomes
<1>10. DataTyped'
  <2>1. ~IsOpen(n)' \/ (file'[n].buf \in OneSector /\ file'[n].dirty \in BOOLEAN)
    <3>1. CASE file' = file
      BY <3>1 DEF IsOpen
    <3>2. CASE FileBecomes(n, Emptied(n, i, mode))
      <4>1. file'[n].buf = Zeros /\ file'[n].dirty = FALSE
        BY <3>2 DEF FileBecomes, Emptied
      <4>2. Zeros \in OneSector
        BY DEF Zeros, OneSector
      <4>3. file'[n].dirty \in BOOLEAN
        BY <4>1, Zenon
      <4> QED
        BY <4>1, <4>2, <4>3
    <3> QED
      BY <3>1, <3>2
  <2>2. \A m \in Names : IsOpen(m)' => file'[m].buf \in OneSector /\ file'[m].dirty \in BOOLEAN
    BY <1>2, <1>9, <2>1 DEF DataTyped, IsOpen
  <2>3. calls' \in Nat
    BY <1>2 DEF DataTyped
  <2> QED
    BY <1>2, <1>3, <1>4, <2>2, <2>3 DEF DataTyped
<1>11. AtReturn' /\ ReadsRight' /\ Among({n}) /\ Among({n})'
  BY <1>1 DEF AtReturn, ReadsRight, Doing, Among, InCall
<1>12. \A j \in Slots : \/ vol'.dir[j] = vol.dir[j]
                        \/ (IsFile(j) => vol.dir[j].name \in {n}) /\ (IsFile(j)' => vol'.dir[j].name \in {n})
  BY DEF Entry, IsFile
<1> QED
  BY <1>3, <1>4, <1>8, <1>9, <1>10, <1>11, <1>12, StepData

\* f_open of a new file.
LEMMA OpenNewData ==
  ASSUME FatInv, FatInv', DataInv, ~InCall, NEW n \in Names, NEW mode, ~IsOpen(n), OpenNew(n, mode),
         UNCHANGED <<data, loose>>
  PROVE  DataInv'
PROOF
<1>c. PICK ch : ChainsFit(ch)
  BY DEF FatInv
<1>1. \A j \in Slots : IsFile(j) => vol.dir[j].name # n
  <2>1. SlotOf(n) = 0
    BY DEF OpenNew
  <2> QED
    BY <1>c, <2>1, ClosedFile
<1>i. PICK i : i = FreeSlot
  OBVIOUS
<1>2. i \in Slots /\ ~IsFile(i) /\ WindowFits
  BY <1>i, <1>1, Parts, AtRest, FreeSlotIs
<1>e. PICK e : e = Entry(n, 0, 0)
  OBVIOUS
<1>S. PICK S : S = SectorsTo(StopsAt(n)) \cup SectorsTo(i)
  OBVIOUS
<1>3. /\ call' = NewCall("open", n, "done") /\ PutDir(S, i, e) /\ SetFile(n, Emptied(n, i, mode))
      /\ Content(n, <<>>) /\ Promise(n, Open) /\ calls' = calls + 1
  BY <1>i, <1>e, <1>S DEF OpenNew, Begins
<1>4. EntryOk(e)
  BY <1>e DEF Entry, EntryOk
<1>5. /\ disk' = disk \/ AsSeen(disk')
      /\ vol'.fat = vol.fat /\ vol'.dir[i] = e /\ \A j \in Slots \ {i} : vol'.dir[j] = vol.dir[j]
  BY <1>2, <1>3, <1>4, PutDirKeeps
<1>6. call'.op = "open" /\ call'.n = n /\ call'.m = n
  BY <1>3 DEF NewCall
<1>7. FileBecomes(n, Emptied(n, i, mode))
  BY <1>3, Becomes
<1> QED
  BY <1>1, <1>2, <1>3, <1>5, <1>6, <1>7, <1>e, OpenEmptyData

\* f_open of a file that is emptied.
LEMMA OpenOverData ==
  ASSUME FatInv, FatInv', DataInv, ~InCall, NEW n \in Names, NEW mode, ~IsOpen(n), OpenOver(n, mode),
         UNCHANGED <<data, loose>>
  PROVE  DataInv'
PROOF
<1>c. PICK ch : ChainsFit(ch)
  BY DEF FatInv
<1>i. PICK i : i = SlotOf(n)
  OBVIOUS
<1>1. /\ i \in Slots /\ IsFile(i) /\ vol.dir[i].name = n /\ WindowFits
      /\ \A j \in Slots : IsFile(j) /\ vol.dir[j].name = n => j = i
  <2>1. i # 0
    BY <1>i DEF OpenOver
  <2> QED
    BY <1>i, <1>c, <2>1, ClosedFile, Parts
<1>e. PICK e : e = Entry(n, 0, 0)
  OBVIOUS
<1>2. PICK c :
        /\ \/ c = NewCall("open", n, "done") /\ SetFile(n, Emptied(n, i, mode))
           \/ /\ c = [NewCall("open", n, "free") EXCEPT !.slot = i, !.cl = vol.dir[i].clust,
                                                        !.top = vol.dir[i].clust, !.mode = mode]
              /\ file' = file
        /\ call' = c /\ calls' = calls + 1
        /\ PutDir(SectorsTo(i), i, e) /\ Content(n, <<>>) /\ Promise(n, Open)
  BY <1>i, <1>e DEF OpenOver, Begins
<1>3. EntryOk(e)
  BY <1>e DEF Entry, EntryOk
<1>4. /\ disk' = disk \/ AsSeen(disk')
      /\ vol'.fat = vol.fat /\ vol'.dir[i] = e /\ \A j \in Slots \ {i} : vol'.dir[j] = vol.dir[j]
  BY <1>1, <1>2, <1>3, PutDirKeeps
<1>5. /\ call'.op = "open" /\ call'.n = n /\ call'.m = n
      /\ (file' = file /\ call'.pc = "free") \/ FileBecomes(n, Emptied(n, i, mode))
  <2>1. CASE c = NewCall("open", n, "done") /\ SetFile(n, Emptied(n, i, mode))
    <3>1. FileBecomes(n, Emptied(n, i, mode))
      BY <2>1, Becomes
    <3> QED
      BY <1>2, <2>1, <3>1 DEF NewCall
  <2>2. CASE /\ c = [NewCall("open", n, "free") EXCEPT !.slot = i, !.cl = vol.dir[i].clust,
                                                       !.top = vol.dir[i].clust, !.mode = mode]
             /\ file' = file
    <3>1. c.op = "open" /\ c.n = n /\ c.m = n /\ c.pc = "free"
      BY <2>2 DEF NewCall
    <3> QED
      BY <1>2, <2>2, <3>1
  <2> QED
    BY <1>2, <2>1, <2>2
<1> QED
  BY <1>1, <1>2, <1>4, <1>5, <1>e, OpenEmptyData

\* f_open.
LEMMA OpenFileData ==
  ASSUME FatInv, FatInv', DataInv, ~InCall, NEW n \in Names, NEW mode, OpenFile(n, mode)
  PROVE  DataInv'
PROOF
<1>1. ~IsOpen(n) /\ UNCHANGED <<data, loose>>
  BY DEF OpenFile
<1>2. CASE OpenRefused(n, mode)
  BY <1>1, <1>2, OpenRefusedData
<1>3. CASE OpenOld(n, mode)
  BY <1>1, <1>3, OpenOldData
<1>4. CASE OpenNew(n, mode)
  BY <1>1, <1>4, OpenNewData
<1>5. CASE OpenOver(n, mode)
  BY <1>1, <1>5, OpenOverData
<1> QED
  BY <1>2, <1>3, <1>4, <1>5 DEF OpenFile

\* A file that is gone, and one whose entry is the only one of its name.
LEMMA GoneData ==
  ASSUME NEW n \in Names, ~IsOpen(n)', content'[n] = Absent, promise'[n] = Open,
         \A j \in Slots : ~Its(n, j)', ~Apart(n)'
  PROVE  DataFits(n)'
PROOF
<1>1. content'[n].kind = "absent" /\ UnitsOf(n)' = <<>> /\ Len(UnitsOf(n)') = 0 /\ promise'[n].kind = "open"
  BY DEF UnitsOf, Absent, Open
<1>2. Fits(n)'
  <2>1. \A p \in 1..0 : FALSE
    OBVIOUS
  <2> QED
    BY <1>1, <2>1 DEF Fits
<1>3. Pledge(n)' /\ DiskKeeps(n)'
  BY <1>1 DEF Pledge, DiskKeeps, KeptOn
<1>4. Kinds(n)' /\ Lens(n)' /\ Own(n)' /\ Marked(n)' /\ Inside(n)' /\ Current(n)'
  BY <1>1 DEF Kinds, Lens, Own, Marked, Inside, Current
<1> QED
  BY <1>2, <1>3, <1>4 DEF DataFits

\* f_unlink or f_rename of a file that cannot be: it is as it was promised.
LEMMA LeftData ==
  ASSUME FatInv, FatInv', DataInv, ~InCall, call'.op \in {"unlink", "rename"}, call'.pc = "done",
         call'.n \in Names, call'.m \in Names, call'.op = "unlink" => call'.m = call'.n,
         ~IsOpen(call'.n), ~IsOpen(call'.m),
         vol' = vol, disk' = disk \/ AsSeen(disk'), calls' = calls + 1,
         UNCHANGED <<data, file, content, promise, loose>>
  PROVE  DataInv'
PROOF
<1>t. PICK T : T = {call'.n, call'.m}
  OBVIOUS
<1>1. call.op = "none" /\ T \subseteq Names /\ \A n \in T : ~IsOpen(n)
  BY <1>t, AtRest
<1>2. DataTyped /\ \A n \in Names : DataFits(n)
  BY DEF DataInv
<1>3. \A n \in Names : IsOpen(n)' <=> IsOpen(n)
  BY DEF IsOpen
<1>4. ASSUME NEW n \in Names PROVE \A j \in Slots : Its(n, j)' <=> Its(n, j)
  BY <1>1 DEF Its, IsFile, Excused, Doing
<1>5. ASSUME NEW n \in T PROVE DataFits(n)' /\ promise[n] = content[n]
  <2>1. n \in Names /\ ~IsOpen(n) /\ ~IsOpen(n)' /\ ~Cutting(n) /\ ~Cutting(n)' /\ ~Removing'
    BY <1>1, <1>3 DEF Cutting, Removing, With, Doing
  <2>2. FirstOf(n)' = FirstOf(n)
    BY <1>4, <2>1, FirstStays
  <2>3. ChainOf(n)' = ChainOf(n)
    BY <2>1, <2>2, ChainStays
  <2>4. ChainGoesOn(n)
    BY <2>3 DEF ChainGoesOn
  <2>5. Marked(n)' /\ Inside(n)' /\ Current(n)'
    <3>1. ~Apart(n)'
      BY <1>5, <1>t DEF Apart
    <3> QED
      BY <2>1, <3>1 DEF Marked, Inside, Current
  <2>6. promise[n] = content[n]
    <3>1. Apart(n)
      BY <1>1 DEF Apart, Writing, Cutting, With, Doing
    <3>2. Current(n)
      BY <1>2, <2>1 DEF DataFits
    <3> QED
      BY <2>1, <3>1, <3>2 DEF Current
  <2> QED
    BY <1>2, <1>4, <2>1, <2>4, <2>5, <2>6, SameData
<1>6. AtReturn' /\ ReadsRight'
  <2>1. \A n \in {call'.n, call'.m} : promise'[n] = content'[n]
    BY <1>5, <1>t
  <2> QED
    BY <2>1 DEF AtReturn, ReadsRight
<1>7. DataTyped'
  <2>1. \A m \in Names : IsOpen(m)' => file'[m].buf \in OneSector /\ file'[m].dirty \in BOOLEAN
    BY <1>2, <1>3 DEF DataTyped
  <2>2. calls' \in Nat
    BY <1>2 DEF DataTyped
  <2> QED
    BY <1>2, <2>1, <2>2 DEF DataTyped
<1>8. Among(T) /\ Among(T)'
  BY <1>t DEF Among
<1>9. \A n \in T : n \in Names => DataFits(n)'
  BY <1>5
<1> QED
  BY <1>6, <1>7, <1>8, <1>9, StepData

\* f_unlink.
LEMMA UnlinkFileData ==
  ASSUME FatInv, FatInv', DataInv, ~InCall, NEW n \in Names, UnlinkFile(n), calls' = calls + 1
  PROVE  DataInv'
PROOF
<1>c. PICK ch : ChainsFit(ch)
  BY DEF FatInv
<1>i. PICK i : i = SlotOf(n)
  OBVIOUS
<1>1. ~IsOpen(n) /\ UNCHANGED <<data, file, loose>>
  BY DEF UnlinkFile
<1>2. call.op = "none" /\ DataTyped /\ WindowFits
  BY AtRest, Parts DEF DataInv
<1>3. CASE i = 0
  <2>1. /\ call' = [NewCall("unlink", n, "done") EXCEPT !.res = "FR_NO_FILE"]
        /\ Sees(SectorsTo(StopsAt(n)), LastSeen(StopsAt(n)))
        /\ UNCHANGED <<content, promise>>
    BY <1>i, <1>3 DEF UnlinkFile, Begins
  <2>2. call'.op = "unlink" /\ call'.n = n /\ call'.m = n /\ call'.pc = "done"
    BY <2>1 DEF NewCall
  <2>3. LastSeen(StopsAt(n)) \in SectorsTo(StopsAt(n))
    BY Parts, AtRest, SlotOfIs, LastIsSeen
  <2>4. vol' = vol /\ (disk' = disk \/ AsSeen(disk'))
    BY <2>1, <2>3, SearchSees
  <2> QED
    BY <1>1, <2>1, <2>2, <2>4, LeftData
<1>4. CASE i # 0
  <2>1. /\ i \in Slots /\ IsFile(i) /\ vol.dir[i].name = n
        /\ \A j \in Slots : IsFile(j) /\ vol.dir[j].name = n => j = i
    BY <1>c, <1>i, <1>1, <1>4, ClosedFile
  <2>p. PICK pc : pc = UnlinkFrom(vol.dir[i].clust)
    OBVIOUS
  <2>2. /\ call' = [NewCall("unlink", n, pc) EXCEPT !.cl = vol.dir[i].clust]
        /\ PutDir(SectorsTo(i), i, Deleted) /\ Promise(n, Open)
        /\ content' = [content EXCEPT ![n] = Absent]
    BY <1>i, <1>4, <2>p DEF UnlinkFile, Begins
  <2>3. call'.op = "unlink" /\ call'.n = n /\ call'.m = n /\ call'.pc = pc /\ pc \in {"free", "window"}
    BY <2>2, <2>p DEF NewCall, UnlinkFrom
  <2>4. EntryOk(Deleted)
    BY DEF EntryOk, Deleted
  <2>5. /\ disk' = disk \/ AsSeen(disk')
        /\ vol'.fat = vol.fat /\ vol'.dir[i] = Deleted /\ \A j \in Slots \ {i} : vol'.dir[j] = vol.dir[j]
    BY <1>2, <2>1, <2>2, <2>4, PutDirKeeps
  <2>6. /\ content'[n] = Absent /\ (\A m \in Names \ {n} : content'[m] = content[m])
        /\ content' \in [Names -> {Absent} \cup {Held(y) : y \in Seq(Int)}]
    BY <1>2, <2>2 DEF DataTyped
  <2>7. /\ promise'[n] = Open /\ (\A m \in Names \ {n} : promise'[m] = promise[m])
        /\ promise' \in [Names -> {Absent, Open} \cup {Held(y) : y \in Seq(Int)}]
    BY <1>2, <2>2 DEF Promise, DataTyped
  <2>8. \A j \in Slots : ~Its(n, j)'
    <3> SUFFICES ASSUME NEW j \in Slots, Its(n, j)' PROVE FALSE
      OBVIOUS
    <3>1. vol'.dir[j].kind = "file" /\ vol'.dir[j].name = n
      BY DEF Its, IsFile
    <3> QED
      BY <2>1, <2>5, <3>1 DEF Deleted, IsFile
  <2>9. DataFits(n)'
    <3>1. ~IsOpen(n)' /\ ~Apart(n)'
      BY <1>1, <2>3 DEF IsOpen, Apart
    <3> QED
      BY <2>6, <2>7, <2>8, <3>1, GoneData
  <2>10. DataTyped'
    <3>1. \A m \in Names : IsOpen(m)' => file'[m].buf \in OneSector /\ file'[m].dirty \in BOOLEAN
      BY <1>1, <1>2 DEF DataTyped, IsOpen
    <3>2. calls' \in Nat
      BY <1>2 DEF DataTyped
    <3> QED
      BY <1>1, <1>2, <2>3, <2>6, <2>7, <3>1, <3>2 DEF DataTyped
  <2>11. AtReturn' /\ ReadsRight' /\ Among({n}) /\ Among({n})'
    BY <1>2, <2>3 DEF AtReturn, ReadsRight, Doing, Among, InCall
  <2>12. \A j \in Slots : \/ vol'.dir[j] = vol.dir[j]
                          \/ (IsFile(j) => vol.dir[j].name \in {n}) /\ (IsFile(j)' => vol'.dir[j].name \in {n})
    BY <2>1, <2>5 DEF Deleted, IsFile
  <2> QED
    BY <1>1, <2>5, <2>6, <2>7, <2>9, <2>10, <2>11, <2>12, StepData
<1> QED
  BY <1>3, <1>4

\* f_rename: what the file holds goes to the new name with its chain.
LEMMA RenamedData ==
  ASSUME FatInv, FatInv', DataInv, ~InCall, NEW n \in Names, NEW m \in Names, RenameFile(n, m),
         calls' = calls + 1, SlotOf(n) # 0, SlotOf(m) \in {0, SlotOf(n)}
  PROVE  DataInv'
PROOF
<1>c. PICK ch : ChainsFit(ch)
  BY DEF FatInv
<1>i. PICK i : i = SlotOf(n)
  OBVIOUS
<1>d. PICK d : d = vol.dir[i]
  OBVIOUS
<1>w. PICK w : w = FreeSlot
  OBVIOUS
<1>e. PICK e : e = Entry(m, d.clust, d.size)
  OBVIOUS
<1>v. PICK v : v = UnitsOf(n)
  OBVIOUS
<1>s. PICK s : s = ChainOf(n)
  OBVIOUS
<1>1. /\ ~IsOpen(n) /\ ~IsOpen(m) /\ UNCHANGED <<data, file, loose>>
      /\ \E k \in Slots : IsFree(vol.dir[k])
  BY DEF RenameFile
<1>2. call.op = "none" /\ DataTyped /\ WindowFits /\ DataFits(n)
  BY AtRest, Parts DEF DataInv
<1>3. /\ i # 0 /\ i \in Slots /\ IsFile(i) /\ d.name = n /\ d.size \in Nat /\ d.clust \in {0} \cup Clusters
      /\ \A j \in Slots : IsFile(j) /\ vol.dir[j].name = n => j = i
  BY <1>c, <1>i, <1>d, <1>1, ClosedFile
<1>4. \A j \in Slots : IsFile(j) /\ vol.dir[j].name = m => j = i
  <2>1. CASE SlotOf(m) = 0
    BY <1>c, <1>1, <2>1, ClosedFile
  <2>2. CASE SlotOf(m) = SlotOf(n)
    <3>1. i = SlotOf(m)
      BY <1>i, <2>2
    <3> QED
      BY <1>c, <1>1, <1>3, <3>1, ClosedFile
  <2> QED
    BY <2>1, <2>2
<1>5. w \in Slots /\ ~IsFile(w) /\ w # i
  BY <1>w, <1>1, <1>3, Parts, FirstFree
<1>6. e.kind = "file" /\ e.name = m /\ e.clust = d.clust /\ e.size = d.size /\ EntryOk(e)
  BY <1>e, <1>3 DEF Entry, EntryOk
<1>7. /\ \E S : PutDir(S, w, e)
      /\ call' = [NewCall("rename", n, "remove") EXCEPT !.m = m, !.slot = i, !.res = "FR_OK"]
      /\ content' = [content EXCEPT ![n] = Absent, ![m] = content[n]]
      /\ promise' = [promise EXCEPT ![m] = Open, ![n] = Open]
  BY <1>i, <1>d, <1>w, <1>e, <1>3 DEF RenameFile, Begins
<1>8. /\ disk' = disk \/ AsSeen(disk')
      /\ vol'.fat = vol.fat /\ vol'.dir[w] = e /\ \A j \in Slots \ {w} : vol'.dir[j] = vol.dir[j]
  BY <1>2, <1>5, <1>6, <1>7, PutDirKeeps
<1>9. call'.op = "rename" /\ call'.n = n /\ call'.m = m /\ call'.pc = "remove" /\ call'.slot = i
  BY <1>7 DEF NewCall
<1>10. Excused(i)' /\ \A j \in Slots : Excused(j)' => j = i
  BY <1>9 DEF Excused, Doing
<1>11. Its(n, i) /\ Kinds(n) /\ Lens(n) /\ Fits(n)
  <2>1. Its(n, i)
    BY <1>2, <1>3, <1>d DEF Its, Excused, Doing
  <2> QED
    BY <1>2, <2>1 DEF DataFits
<1>12. content[n] = Held(v) /\ v \in Seq(Int) /\ Len(v) = d.size
  BY <1>1, <1>2, <1>3, <1>11, <1>d, <1>v, Ghosts DEF Kinds, Lens
<1>13. /\ (n # m => content'[n] = Absent) /\ content'[m] = Held(v) /\ (\A x \in Names : x \notin {n, m} => content'[x] = content[x])
       /\ content' \in [Names -> {Absent} \cup {Held(y) : y \in Seq(Int)}]
  BY <1>1, <1>2, <1>7, <1>12 DEF DataTyped
<1>14. /\ promise'[n] = Open /\ promise'[m] = Open /\ (\A x \in Names : x \notin {n, m} => promise'[x] = promise[x])
       /\ promise' \in [Names -> {Absent, Open} \cup {Held(y) : y \in Seq(Int)}]
  BY <1>1, <1>2, <1>7 DEF DataTyped
<1>15. ASSUME NEW j \in Slots PROVE (n # m => ~Its(n, j)') /\ (Its(m, j)' <=> j = w)
  <2>1. CASE j = w
    BY <1>5, <1>6, <1>8, <1>10, <2>1 DEF Its, IsFile
  <2>2. CASE j # w
    <3>1. vol'.dir[j] = vol.dir[j]
      BY <1>8, <2>2
    <3>2. j # i => ~Its(m, j)' /\ ~Its(n, j)'
      BY <1>3, <1>4, <3>1 DEF Its, IsFile
    <3>3. j = i => ~Its(m, j)' /\ ~Its(n, j)'
      BY <1>10 DEF Its
    <3> QED
      BY <2>2, <3>2, <3>3
  <2> QED
    BY <2>1, <2>2
<1>16. ~IsOpen(n)' /\ ~IsOpen(m)' /\ ~Apart(n)' /\ ~Apart(m)'
  BY <1>1, <1>9 DEF IsOpen, Apart
<1>17. n # m => DataFits(n)'
  BY <1>13, <1>14, <1>15, <1>16, GoneData
<1>18. ChainOf(m)' = s
  <2>1. OfChain(n, s)
    BY <1>s, ChainFacts
  <2>2. FirstOf(n) = d.clust
    <3>x. PICK x : x = (CHOOSE j \in Slots : Its(n, j))
      OBVIOUS
    <3>1. x \in Slots /\ Its(n, x)
      BY <1>3, <1>11, <3>x
    <3>2. x = i
      BY <1>3, <1>11, <3>1, OneEntry
    <3> QED
      BY <1>1, <1>3, <1>11, <1>d, <3>x, <3>2 DEF FirstOf
  <2>3. FirstOf(m)' = d.clust
    <3>x. PICK x : x = (CHOOSE j \in Slots : Its(m, j)')
      OBVIOUS
    <3>1. x \in Slots /\ Its(m, x)'
      BY <1>5, <1>15, <3>x
    <3>2. x = w
      BY <1>15, <3>1
    <3>3. \E j \in Slots : Its(m, j)'
      BY <3>1
    <3> QED
      BY <1>6, <1>8, <1>16, <3>x, <3>2, <3>3 DEF FirstOf
  <2>t. PICK t : t = vol'.fat
    OBVIOUS
  <2>4. s \in Seq(Clusters) /\ Linked(t, s) /\ FirstOf(m)' = Head0(s) /\ \A k, l \in 1..Len(s) : s[k] = s[l] => k = l
    BY <1>8, <2>1, <2>2, <2>3, <2>t DEF OfChain
  <2> QED
    BY <2>4, <2>t, ChainThen
<1>19. DataFits(m)'
  <2>1. content'[m].kind = "held" /\ UnitsOf(m)' = v /\ promise'[m].kind = "open"
    BY <1>13, <1>14 DEF UnitsOf, Held, Open
  <2>2. Kinds(m)' /\ Lens(m)'
    BY <1>5, <1>6, <1>8, <1>12, <1>15, <1>16, <2>1 DEF Kinds, Lens
  <2>3. Fits(m)'
    <3> SUFFICES ASSUME NEW p \in 1..Len(v) PROVE v[p] \in {Unset, data[Loc(s, p)][Off(p)]}
      BY <1>1, <1>16, <1>18, <2>1 DEF Fits
    <3> QED
      BY <1>1, <1>11, <1>s, <1>v DEF Fits
  <2>4. Pledge(m)' /\ DiskKeeps(m)'
    BY <2>1 DEF Pledge, DiskKeeps, KeptOn
  <2>5. Own(m)' /\ Marked(m)' /\ Inside(m)' /\ Current(m)'
    BY <1>16 DEF Own, Marked, Inside, Current
  <2> QED
    BY <2>2, <2>3, <2>4, <2>5 DEF DataFits
<1>20. DataTyped'
  <2>1. \A x \in Names : IsOpen(x)' => file'[x].buf \in OneSector /\ file'[x].dirty \in BOOLEAN
    BY <1>1, <1>2 DEF DataTyped, IsOpen
  <2>2. calls' \in Nat
    BY <1>2 DEF DataTyped
  <2> QED
    BY <1>1, <1>2, <1>9, <1>13, <1>14, <2>1, <2>2 DEF DataTyped
<1>T. PICK T : T = {n, m}
  OBVIOUS
<1>21. AtReturn' /\ ReadsRight' /\ Among(T) /\ Among(T)'
  BY <1>2, <1>9, <1>T DEF AtReturn, ReadsRight, Doing, Among, InCall
<1>22. \A j \in Slots : \/ vol'.dir[j] = vol.dir[j]
                        \/ (IsFile(j) => vol.dir[j].name \in T) /\ (IsFile(j)' => vol'.dir[j].name \in T)
  BY <1>5, <1>6, <1>8, <1>T DEF IsFile
<1>23. \A x \in T : x \in Names => DataFits(x)'
  BY <1>17, <1>19, <1>T
<1> QED
  BY <1>1, <1>8, <1>13, <1>14, <1>20, <1>21, <1>22, <1>23, <1>T, StepData

\* And when it is refused.
LEMMA RenameRefusedData ==
  ASSUME FatInv, FatInv', DataInv, ~InCall, NEW n \in Names, NEW m \in Names, RenameFile(n, m),
         calls' = calls + 1, SlotOf(n) = 0 \/ SlotOf(m) \notin {0, SlotOf(n)}
  PROVE  DataInv'
PROOF
<1>1. StopsAt(n) \in {0} \cup Slots /\ StopsAt(m) \in {0} \cup Slots
  BY Parts, AtRest, SlotOfIs
<1>2. LastSeen(StopsAt(n)) \in SectorsTo(StopsAt(n)) /\ LastSeen(StopsAt(m)) \in SectorsTo(StopsAt(m))
  BY <1>1, LastIsSeen
<1>3. ~IsOpen(n) /\ ~IsOpen(m) /\ UNCHANGED <<data, file, loose>>
  BY DEF RenameFile
<1>4. PICK res \in {"FR_NO_FILE", "FR_EXIST"} :
        /\ call' = [NewCall("rename", n, "done") EXCEPT !.m = m, !.slot = SlotOf(n), !.res = res]
        /\ UNCHANGED <<content, promise>>
        /\ \E S : \E x \in {n, m} : LastSeen(StopsAt(x)) \in S /\ Sees(S, LastSeen(StopsAt(x)))
  <2>1. CASE SlotOf(n) = 0
    BY <1>2, <2>1 DEF RenameFile, Begins
  <2>2. CASE SlotOf(n) # 0
    <3>1. LastSeen(StopsAt(m)) \in SectorsTo(StopsAt(n)) \cup SectorsTo(StopsAt(m))
      BY <1>2
    <3>2. Sees(SectorsTo(StopsAt(n)) \cup SectorsTo(StopsAt(m)), LastSeen(StopsAt(m)))
      BY <2>2 DEF RenameFile
    <3>3. /\ call' = [NewCall("rename", n, "done") EXCEPT !.m = m, !.slot = SlotOf(n), !.res = "FR_EXIST"]
          /\ UNCHANGED <<content, promise>>
      BY <2>2 DEF RenameFile, Begins
    <3> QED
      BY <3>1, <3>2, <3>3
  <2> QED
    BY <2>1, <2>2
<1>5. vol' = vol /\ (disk' = disk \/ AsSeen(disk'))
  BY <1>4, SearchSees
<1>6. call'.op = "rename" /\ call'.n = n /\ call'.m = m /\ call'.pc = "done"
  BY <1>4 DEF NewCall
<1> QED
  BY <1>3, <1>4, <1>5, <1>6, LeftData

-----------------------------------------------------------------------------
(* What the files hold when a volume is mounted *)

\* What a disk holds by a name is what its one entry says.
LEMMA OnDiskIs ==
  ASSUME NEW d, NEW n \in Names,
         \A i, j \in Slots :
           d.dir[i].kind = "file" /\ d.dir[j].kind = "file" /\ d.dir[i].name = n /\ d.dir[j].name = n => i = j
  PROVE  /\ (\A i \in Slots : ~(d.dir[i].kind = "file" /\ d.dir[i].name = n)) => OnDisk(d, n) = Absent
         /\ \A i \in Slots : d.dir[i].kind = "file" /\ d.dir[i].name = n =>
              OnDisk(d, n) = Held(Units(d.fat, d.dir[i].clust, d.dir[i].size))
PROOF
<1>T. PICK T : T = {j \in EntriesOf(d.dir) : d.dir[j].name = n}
  OBVIOUS
<1>k. PICK k : k = Least(T)
  OBVIOUS
<1>1. T = {j \in Slots : d.dir[j].kind = "file" /\ d.dir[j].name = n} /\ T \subseteq Nat \ {0}
  BY <1>T, SlotsAre DEF EntriesOf, IsFree
<1>2. (k = 0 <=> T = {}) /\ (k # 0 => k \in T)
  BY <1>k, <1>1, LeastIs
<1>3. OnDisk(d, n) = IF k = 0 THEN Absent ELSE Held(Units(d.fat, d.dir[k].clust, d.dir[k].size))
  BY <1>T, <1>k DEF OnDisk
<1>4. ASSUME \A i \in Slots : ~(d.dir[i].kind = "file" /\ d.dir[i].name = n)
      PROVE  OnDisk(d, n) = Absent
  BY <1>1, <1>2, <1>3, <1>4
<1>5. ASSUME NEW i \in Slots, d.dir[i].kind = "file", d.dir[i].name = n
      PROVE  OnDisk(d, n) = Held(Units(d.fat, d.dir[i].clust, d.dir[i].size))
  <2>1. k # 0 /\ k \in Slots /\ d.dir[k].kind = "file" /\ d.dir[k].name = n
    BY <1>1, <1>2, <1>5
  <2>2. k = i
    BY <1>5, <2>1
  <2> QED
    BY <1>3, <2>1, <2>2
<1> QED
  BY <1>4, <1>5

\* The units of a chain.
LEMMA UnitsAre ==
  ASSUME NEW t, NEW s \in Seq(Clusters), Linked(t, s), \A k, l \in 1..Len(s) : s[k] = s[l] => k = l,
         NEW size \in Nat
  PROVE  /\ Units(t, Head0(s), size) = [p \in 1..size |-> data[Loc(s, p)][Off(p)]]
         /\ data \in [Places0 -> OneSector] /\ size <= Room(s) => Units(t, Head0(s), size) \in Seq(Int)
PROOF
<1>u. PICK u : u = Units(t, Head0(s), size)
  OBVIOUS
<1>1. Chain(t, Head0(s)) = s
  BY ChainIs
<1>2. u = [p \in 1..size |-> data[Loc(s, p)][Off(p)]]
  BY <1>u, <1>1 DEF Units, UnitAt, Loc, Off, ToCluster
<1>3. ASSUME data \in [Places0 -> OneSector], size <= Room(s), NEW p \in 1..size
      PROVE  data[Loc(s, p)][Off(p)] \in Int
  <2>l. PICK l : l = Len(s)
    OBVIOUS
  <2>1. l \in Nat /\ p \in Nat \ {0} /\ p <= l * BCS
    <3>b. PICK b : b = l * BCS
      OBVIOUS
    <3>1. l \in Nat /\ b = Room(s)
      BY <2>l, <3>b DEF Room
    <3>2. b \in Nat
      BY <3>1, RoomIs
    <3> QED
      BY <1>3, <3>b, <3>1, <3>2
  <2>2. ToCluster(p) \in 1..Len(s)
    BY <2>1, <2>l, InChain
  <2>3. Loc(s, p) \in Places0 /\ Off(p) \in 1..SS
    BY <2>1, <2>2, LocIs
  <2>4. data[Loc(s, p)] \in OneSector
    BY <1>3, <2>3
  <2> QED
    BY <2>3, <2>4 DEF OneSector
<1>4. data \in [Places0 -> OneSector] /\ size <= Room(s) => u \in Seq(Int)
  BY <1>2, <1>3
<1> QED
  BY <1>u, <1>2, <1>4

\* Then no file is open, and a file holds what its entry and its chain say.
Fresh ==
  /\ call = Idle /\ file = NoFiles /\ loose = {} /\ vol = Seen(disk)
  /\ content = Holds(disk) /\ promise = Holds(disk)
  /\ data \in [Places0 -> OneSector] /\ calls \in Nat

\* A file is then there, as long as its entry says, or it is not there.
LEMMA FreshFile ==
  ASSUME FatInv, Fresh, NEW n \in Names
  PROVE  \/ content[n] = Absent /\ \A i \in Slots : ~Its(n, i)
         \/ \E u \in Seq(Int) : \E i \in Slots :
              /\ content[n] = Held(u) /\ Its(n, i) /\ Len(u) = vol.dir[i].size
              /\ \A p \in 1..Len(u) : u[p] = data[Loc(ChainOf(n), p)][Off(p)]
PROOF
<1>1. vol.fat = disk.fat /\ vol.dir = disk.dir /\ content[n] = OnDisk(disk, n)
  BY DEF Fresh, Seen, Holds
<1>2. Names1(disk.dir) /\ DirTyped(vol.dir) /\ ~IsOpen(n)
  BY <1>1, Parts, AtRest DEF DirOK, Fresh, NoFiles, NoFile, IsOpen, InCall, Idle
<1>3. \A i \in Slots : Its(n, i) <=> disk.dir[i].kind = "file" /\ disk.dir[i].name = n
  BY <1>1 DEF Its, IsFile, Excused, Doing, Fresh, Idle
<1>4. CASE \A i \in Slots : ~Its(n, i)
  BY <1>1, <1>2, <1>3, <1>4, OnDiskIs DEF Names1
<1>5. CASE \E i \in Slots : Its(n, i)
  <2>1. PICK i \in Slots : Its(n, i)
    BY <1>5
  <2>c. PICK c : c = vol.dir[i].clust
    OBVIOUS
  <2>z. PICK z : z = vol.dir[i].size
    OBVIOUS
  <2>2. content[n] = Held(Units(vol.fat, c, z))
    BY <1>1, <1>2, <1>3, <2>1, <2>c, <2>z, OnDiskIs DEF Names1
  <2>3. PICK ch : ChainsFit(ch) /\ \A m \in Names : ChainOf(m) = ch[m]
    BY TheChains
  <2>s. PICK s : s = ChainOf(n)
    OBVIOUS
  <2>4. s \in Seq(Clusters) /\ Linked(vol.fat, s) /\ \A k, l \in 1..Len(s) : s[k] = s[l] => k = l
    BY <2>s, ChainFacts DEF OfChain
  <2>5. c = Head0(s) /\ z <= Room(s) /\ z \in Nat
    <3>1. vol.dir[i].name = n /\ IsFile(i) /\ ~Excused(i)
      BY <2>1 DEF Its
    <3>2. EntryFits(ch, i)
      BY <2>3, <3>1 DEF ChainsFit, EntriesFit
    <3>3. z \in Nat
      BY <1>2, <2>z, <3>1 DEF DirTyped, EntryOk, IsFile
    <3> QED
      BY <1>2, <2>3, <2>c, <2>z, <2>s, <3>1, <3>2, <3>3 DEF EntryFits
  <2>6. PICK u : u = [p \in 1..z |-> data[Loc(s, p)][Off(p)]]
    OBVIOUS
  <2>7. u = Units(vol.fat, c, z) /\ u \in Seq(Int)
    <3>t. PICK t : t = vol.fat
      OBVIOUS
    <3>1. Linked(t, s) /\ data \in [Places0 -> OneSector]
      BY <2>4, <3>t DEF Fresh
    <3>2. /\ Units(t, Head0(s), z) = [p \in 1..z |-> data[Loc(s, p)][Off(p)]]
          /\ Units(t, Head0(s), z) \in Seq(Int)
      BY <2>4, <2>5, <3>1, UnitsAre
    <3> QED
      BY <2>5, <2>6, <3>t, <3>2
  <2>8. Len(u) = z /\ \A p \in 1..z : u[p] = data[Loc(s, p)][Off(p)]
    BY <2>5, <2>6
  <2> QED
    BY <2>1, <2>2, <2>7, <2>8, <2>z, <2>s
<1> QED
  BY <1>4, <1>5

\* So all of it is promised.
LEMMA FreshData == FatInv /\ Fresh => DataInv
PROOF
<1> SUFFICES ASSUME FatInv, Fresh PROVE DataInv
  OBVIOUS
<1>1. /\ call.op = "none" /\ (\A n \in Names : ~IsOpen(n)) /\ loose = {} /\ promise = content
      /\ data \in [Places0 -> OneSector] /\ calls \in Nat
  BY DEF Fresh, Idle, NoFiles, NoFile, IsOpen
<1>2. \A n \in Names : content[n] \in {Absent} \cup {Held(s) : s \in Seq(Int)}
  BY FreshFile
<1>3. DataTyped
  <2>1. content = [n \in Names |-> OnDisk(disk, n)]
    BY DEF Fresh, Holds
  <2>2. content \in [Names -> {Absent} \cup {Held(s) : s \in Seq(Int)}]
    BY <1>2, <2>1
  <2>3. promise \in [Names -> {Absent, Open} \cup {Held(s) : s \in Seq(Int)}]
    BY <1>1, <2>2
  <2> QED
    BY <1>1, <2>2, <2>3 DEF DataTyped, InCall
<1>4. AtReturn /\ ReadsRight
  BY <1>1 DEF AtReturn, ReadsRight, Doing, InCall
<1>5. AsSeen(disk)
  BY DEF AsSeen, Fresh, Seen
<1>6. ASSUME NEW n \in Names PROVE DataFits(n)
  <2>v. PICK v : v = UnitsOf(n)
    OBVIOUS
  <2>1. /\ \A i \in Slots : Its(n, i) => Len(v) = vol.dir[i].size
        /\ \A p \in 1..Len(v) : v[p] = data[Loc(ChainOf(n), p)][Off(p)]
        /\ Kinds(n)
    <3>1. CASE content[n] = Absent /\ \A i \in Slots : ~Its(n, i)
      <4>1. v = <<>> /\ content[n].kind = "absent"
        BY <2>v, <3>1 DEF UnitsOf, Absent
      <4>2. \A p \in 1..Len(v) : FALSE
        BY <4>1
      <4> QED
        BY <3>1, <4>1, <4>2 DEF Kinds
    <3>2. CASE \E u \in Seq(Int) : \E i \in Slots :
                 /\ content[n] = Held(u) /\ Its(n, i) /\ Len(u) = vol.dir[i].size
                 /\ \A p \in 1..Len(u) : u[p] = data[Loc(ChainOf(n), p)][Off(p)]
      <4>1. PICK u \in Seq(Int) : \E i \in Slots :
                 /\ content[n] = Held(u) /\ Its(n, i) /\ Len(u) = vol.dir[i].size
                 /\ \A p \in 1..Len(u) : u[p] = data[Loc(ChainOf(n), p)][Off(p)]
        BY <3>2
      <4>2. PICK i \in Slots :
                 /\ content[n] = Held(u) /\ Its(n, i) /\ Len(u) = vol.dir[i].size
                 /\ \A p \in 1..Len(u) : u[p] = data[Loc(ChainOf(n), p)][Off(p)]
        BY <4>1
      <4>3. v = u /\ content[n].kind = "held"
        BY <2>v, <4>2 DEF UnitsOf, Held
      <4>4. \A j \in Slots : Its(n, j) => j = i
        BY <4>2, OneEntry
      <4> QED
        BY <4>2, <4>3, <4>4 DEF Kinds
    <3> QED
      BY <3>1, <3>2, FreshFile
  <2>2. Lens(n) /\ Own(n) /\ Marked(n) /\ Inside(n)
    BY <1>1, <2>v, <2>1 DEF Lens, Own, Marked, Inside
  <2>3. Fits(n)
    BY <1>1, <2>v, <2>1 DEF Fits
  <2>4. Len(v) \in Nat /\ PledgedOf(n) = v /\ ~Removing /\ ~Loose(n)
    BY <1>1, <1>3, <2>v, Ghosts DEF PledgedOf, UnitsOf, Removing, Loose, Doing
  <2>5. Pledge(n)
    BY <1>1, <2>v, <2>1, <2>4 DEF Pledge
  <2>6. DiskKeeps(n)
    <3>p. PICK pr : pr = promise[n]
      OBVIOUS
    <3>1. pr.kind = content[n].kind /\ Len(pr.units) \in Nat /\ Len(pr.units) <= Len(UnitsOf(n))
          /\ \A i \in Slots : Its(n, i) => vol.dir[i].size >= Len(pr.units)
      BY <1>1, <2>v, <2>1, <2>4, <3>p DEF PledgedOf
    <3> QED
      BY <1>3, <1>5, <2>1, <2>2, <2>4, <3>p, <3>1, SeenKeeps DEF DiskKeeps
  <2> QED
    BY <1>1, <2>1, <2>2, <2>3, <2>5, <2>6 DEF DataFits, Current
<1> QED
  BY <1>3, <1>4, <1>6 DEF DataInv

\* At the start and after a power failure.
LEMMA InitFresh ==
  ASSUME FatInit
  PROVE  Fresh
PROOF
<1>2. Zeros \in OneSector
  BY DEF Zeros, OneSector
<1>3. data \in [Places0 -> OneSector]
  BY <1>2 DEF FatInit, Places0
<1> QED
  BY <1>3 DEF FatInit, Fresh

\* When the power fails, what the disk has is what the files hold.
LEMMA PowerFailsFresh ==
  ASSUME DataInv, PowerFails, ~torn'
  PROVE  Fresh'
PROOF
<1>2. disk' = disk /\ data' = data /\ calls' = calls
  BY DEF PowerFails
<1>3. Holds(disk)' = Holds(disk)
  BY <1>2 DEF Holds, OnDisk, Units, UnitAt
<1>4. data' \in [Places0 -> OneSector] /\ calls' \in Nat
  BY <1>2 DEF DataInv, DataTyped
<1>5. vol' = Seen(disk') /\ call' = Idle /\ file' = NoFiles /\ loose' = {}
      /\ content' = Holds(disk)' /\ promise' = Holds(disk)'
  BY <1>2, <1>3 DEF PowerFails
<1> QED
  BY <1>4, <1>5 DEF Fresh

-----------------------------------------------------------------------------
(* The names on the disk *)

\* The directory on the disk has a name twice only while f_rename gives a file its own
\* name again, and nothing is promised of that file then.
Renaming == Doing({"rename"}, {"remove", "window"})
NamedOnce ==
  /\ Renaming => promise[call.n] = Open
  /\ \A i, j \in Slots :
       /\ disk.dir[i].kind = "file" /\ disk.dir[j].kind = "file"
       /\ disk.dir[i].name = disk.dir[j].name /\ i # j
       => Renaming /\ disk.dir[i].name = call.n

\* A step writes the window to the disk, or it leaves the directory there alone.
Moves == disk' = Written \/ disk'.dir = disk.dir

LEMMA WindowMoves ==
  ASSUME NEW S, NEW s, NEW b, Window(S, s, b)
  PROVE  Moves
BY DEF Window, Moves

LEMMA SeesMoves ==
  /\ \A S, s : Sees(S, s) => Moves
  /\ \A c : SeesFat(c) => Moves
  /\ SeesNothing => Moves
  /\ \A S, c, x : PutFat(S, c, x) => Moves
  /\ \A S, i, e : PutDir(S, i, e) => Moves
PROOF
<1>1. \A S, s, b : Window(S, s, b) => Moves
  BY WindowMoves
<1>2. SeesNothing => Moves
  BY DEF SeesNothing, Moves
<1>3. \A S, s : Sees(S, s) => Moves
  BY <1>1 DEF Sees
<1>4. \A c : SeesFat(c) => Moves
  BY <1>2, <1>3 DEF SeesFat
<1>5. \A S, c, x : PutFat(S, c, x) => Moves
  BY <1>1 DEF PutFat
<1>6. \A S, i, e : PutDir(S, i, e) => Moves
  BY <1>1 DEF PutDir
<1> QED
  BY <1>2, <1>3, <1>4, <1>5, <1>6

LEMMA CallsMove ==
  ASSUME Calls
  PROVE  Moves
PROOF
<1>1. UNCHANGED disk => Moves
  BY DEF Moves
<1>2. CASE \E n \in Names, mode \in Modes : OpenFile(n, mode)
  <2>1. PICK n \in Names, mode \in Modes : OpenFile(n, mode)
    BY <1>2
  <2>2. OpenRefused(n, mode) => Moves
    BY SeesMoves DEF OpenRefused
  <2>3. OpenOld(n, mode) => Moves
    BY SeesMoves DEF OpenOld
  <2>4. OpenNew(n, mode) => Moves
    BY SeesMoves DEF OpenNew
  <2>5. OpenOver(n, mode) => Moves
    BY SeesMoves DEF OpenOver
  <2> QED
    BY <2>1, <2>2, <2>3, <2>4, <2>5 DEF OpenFile
<1>3. CASE \E n \in Names, len \in Lengths : WriteFile(n, len) \/ ReadFile(n, len)
  BY <1>1, <1>3 DEF WriteFile, ReadFile
<1>4. CASE \E n \in Names, ofs \in Offsets : SeekFile(n, ofs)
  BY <1>1, <1>4 DEF SeekFile
<1>5. CASE \E n \in Names : TruncateFile(n)
  BY <1>5, SeesMoves DEF TruncateFile
<1>6. CASE \E n \in Names : SyncFile(n) \/ CloseFile(n)
  BY <1>1, <1>6 DEF SyncFile, CloseFile
<1>7. CASE \E n \in Names : UnlinkFile(n)
  BY <1>7, SeesMoves DEF UnlinkFile
<1>8. CASE \E n \in Names, m \in Names : RenameFile(n, m)
  BY <1>8, SeesMoves DEF RenameFile
<1>9. CASE GetFree
  BY <1>9, SeesMoves DEF GetFree
<1> QED
  BY <1>2, <1>3, <1>4, <1>5, <1>6, <1>7, <1>8, <1>9 DEF Calls

LEMMA StepsMove ==
  ASSUME Steps
  PROVE  Moves
PROOF
<1>1. UNCHANGED disk => Moves
  BY DEF Moves
<1>2. FreeCluster \/ FollowChain \/ TakeCluster \/ LinkCluster \/ OverIsEmptied => Moves
  BY SeesMoves DEF FreeCluster, FollowChain, TakeCluster, NewMark, LinkCluster, OverIsEmptied
<1>3. VolumeFull => Moves
  BY SeesMoves DEF VolumeFull
<1>4. NextToRead \/ SeekOn \/ SyncEntry \/ RemoveOld => Moves
  BY SeesMoves DEF NextToRead, SeekOn, SyncEntry, RemoveOld
<1>5. FlushBuffer \/ ReadSector \/ NextToWrite \/ WriteSector => Moves
  BY <1>1 DEF FlushBuffer, ReadSector, NextToWrite, WriteSector
<1>6. SeekInCluster \/ Seeked \/ Cut \/ Return => Moves
  BY <1>1 DEF SeekInCluster, Seeked, Cut, Return
<1>7. sync_window => Moves
  BY DEF sync_window, Moves
<1>8. WriteInfo => Moves
  <2>1. ASSUME disk' = [disk EXCEPT !.info = [free |-> fs.free, next |-> fs.last]] PROVE disk'.dir = disk.dir
    BY <2>1
  <2> QED
    BY <1>1, <2>1 DEF WriteInfo, Moves
<1> QED
  BY <1>2, <1>3, <1>4, <1>5, <1>6, <1>7, <1>8 DEF Steps

\* What the window is written to has the entries that are seen through it.
LEMMA WrittenDir ==
  ASSUME FatInv, NEW i \in Slots
  PROVE  Written.dir[i] = vol.dir[i]
PROOF
<1>1. WindowFits
  BY Parts
<1>2. CASE win.dirty
  BY <1>1, <1>2, WrittenIs DEF AsSeen
<1>3. CASE ~win.dirty
  <2>1. disk.dir[i] = vol.dir[i]
    BY <1>1, <1>3, WrittenIs DEF AsSeen
  <2>2. Written.dir = [k \in Slots |-> IF DirSector(k) = win.sect THEN vol.dir[k] ELSE disk.dir[k]]
    BY <1>1 DEF Written, WindowFits, DiskTyped
  <2> QED
    BY <2>1, <2>2
<1> QED
  BY <1>2, <1>3 DEF WindowFits

\* Where f_rename is between its entries it goes on to remove the old one or to write the window.
LEMMA RenamingGoesOn ==
  ASSUME FatInv, Steps, Renaming
  PROVE  /\ RemoveOld \/ sync_window
         /\ RemoveOld => Removing
PROOF
<1>1. call.op = "rename" /\ call.pc \in {"remove", "window"} /\ InCall
  BY DEF Renaming, Doing, InCall
<1>2. ~(FreeCluster \/ FollowChain \/ VolumeFull \/ TakeCluster \/ LinkCluster \/ OverIsEmptied)
  BY <1>1 DEF FreeCluster, FollowChain, VolumeFull, TakeCluster, LinkCluster, OverIsEmptied
<1>3. ~(FlushBuffer \/ NextToRead \/ ReadSector \/ NextToWrite \/ WriteSector)
  BY <1>1 DEF FlushBuffer, NextToRead, ReadSector, NextToWrite, WriteSector, At
<1>4. ~(SeekOn \/ SeekInCluster \/ Seeked \/ Cut \/ SyncEntry \/ WriteInfo \/ Return)
  BY <1>1 DEF SeekOn, SeekInCluster, Seeked, Cut, SyncEntry, WriteInfo, Return
<1>5. RemoveOld => Removing
  BY <1>1 DEF RemoveOld, Removing, Doing
<1> QED
  BY <1>2, <1>3, <1>4, <1>5 DEF Steps

\* A step of a call does not make it another.
LEMMA OpStays ==
  ASSUME FatInv, Steps
  PROVE  call'.op \in {call.op, "none"}
PROOF
<1>1. InCall => DOMAIN call = CallFields
  BY Parts DEF IsCall
<1>2. ~InCall => call.pc = "idle"
  BY Parts DEF Idle
<1>3. InCall => \A pc, res : (Goes(pc) => call'.op = call.op) /\ (Ends(res) => call'.op = call.op)
  BY <1>1 DEF Goes, Ends, CallFields
<1>4. InCall => \A c : (GoesOnIn(c) => call'.op = call.op) /\ (GoesNoFurther => call'.op = call.op)
  BY <1>1, <1>3 DEF GoesOnIn, GoesNoFurther, CallFields
<1>5. CASE FreeCluster
  BY <1>1, <1>2, <1>3, <1>5 DEF FreeCluster, CallFields
<1>6. CASE FollowChain \/ VolumeFull \/ LinkCluster \/ OverIsEmptied
  BY <1>2, <1>3, <1>4, <1>6 DEF FollowChain, VolumeFull, LinkCluster, OverIsEmptied
<1>7. CASE TakeCluster
  <2>1. InCall /\ \/ \E d : GoesOnIn(d)
                  \/ \E d : call' = [call EXCEPT !.pc = "link", !.new = d]
    BY <1>2, <1>7 DEF TakeCluster
  <2> QED
    BY <1>1, <1>4, <2>1 DEF CallFields
<1>8. CASE FlushBuffer
  BY <1>8 DEF FlushBuffer
<1>9. CASE NextToRead \/ NextToWrite
  BY <1>1, <1>2, <1>3, <1>9 DEF NextToRead, NextToWrite, At, CallFields
<1>10. CASE ReadSector \/ WriteSector
  <2>1. DOMAIN call = CallFields
    BY <1>1, <1>2, <1>10 DEF ReadSector, WriteSector, At
  <2>2. \A k : Transfers(k).op = call.op /\ DOMAIN Transfers(k) = CallFields
    BY <2>1 DEF Transfers, CallFields
  <2>3. \A k, at, got : [Transfers(k) EXCEPT !.at = at, !.got = got].op = call.op
    BY <2>2 DEF CallFields
  <2>4. ASSUME ReadSector  PROVE call'.op = call.op
    <3> DEFINE f == file[call.n]
               buf == IF ~Direct(f, call.left) /\ (AtSector(f) /\ f.sect # Here(f))
                        THEN data[Here(f)] ELSE f.buf
               k == InPart(f, call.left)
               units == IF Direct(f, call.left) THEN Latest(f)
                        ELSE [u \in 1..k |-> buf[(f.fptr % SS) + u]]
    <3>1. call' = [Transfers(k) EXCEPT !.at = f.fptr, !.got = units]
      BY <2>4, Zenon DEF ReadSector
    <3> HIDE DEF f, k, units
    <3> QED
      BY <3>1, <2>3
  <2>5. WriteSector => call'.op = call.op
    BY <2>2 DEF WriteSector
  <2> QED
    BY <1>10, <2>4, <2>5
<1>11. CASE SeekOn \/ SeekInCluster
  BY <1>1, <1>2, <1>3, <1>11 DEF SeekOn, SeekInCluster, CallFields
<1>12. CASE Seeked \/ Cut \/ SyncEntry \/ sync_window \/ WriteInfo \/ RemoveOld
  BY <1>2, <1>3, <1>12 DEF Seeked, Cut, SyncEntry, sync_window, WriteInfo, RemoveOld
<1>13. CASE Return
  BY <1>13 DEF Return, Idle
<1> QED
  BY <1>5, <1>6, <1>7, <1>8, <1>9, <1>10, <1>11, <1>12, <1>13 DEF Steps

\* No step comes to where f_rename is between its entries but f_rename's own.
LEMMA NotRenamingStays ==
  ASSUME FatInv, Steps, ~Renaming
  PROVE  ~Renaming'
PROOF
<1>1. CASE call.op # "rename"
  BY <1>1, OpStays DEF Renaming, Doing
<1>2. CASE call.op = "rename"
  <2>1. call.pc \in {"info", "done"} /\ InCall /\ DOMAIN call = CallFields
    BY <1>2, Parts DEF Phase, Renaming, Doing, InCall, IsCall
  <2>2. ~(FreeCluster \/ FollowChain \/ VolumeFull \/ TakeCluster \/ LinkCluster \/ OverIsEmptied)
    BY <2>1 DEF FreeCluster, FollowChain, VolumeFull, TakeCluster, LinkCluster, OverIsEmptied
  <2>3. ~(FlushBuffer \/ NextToRead \/ ReadSector \/ NextToWrite \/ WriteSector)
    BY <1>2, <2>1 DEF FlushBuffer, NextToRead, ReadSector, NextToWrite, WriteSector, At
  <2>4. ~(SeekOn \/ SeekInCluster \/ Seeked \/ Cut \/ SyncEntry \/ sync_window \/ RemoveOld)
    BY <2>1 DEF SeekOn, SeekInCluster, Seeked, Cut, SyncEntry, sync_window, RemoveOld
  <2>5. WriteInfo \/ Return
    BY <2>2, <2>3, <2>4 DEF Steps
  <2>6. call'.pc \in {"done", "idle"}
    <3>1. Ends("FR_OK") \/ call' = Idle
      BY <2>5 DEF WriteInfo, Return
    <3> QED
      <4>1. Ends("FR_OK") => call'.pc = "done"
        BY <2>1 DEF Ends, CallFields
      <4>2. call' = Idle => call'.pc = "idle"
        BY DEF Idle
      <4> QED
        BY <3>1, <4>1, <4>2
  <2> QED
    BY <2>6 DEF Renaming, Doing
<1> QED
  BY <1>1, <1>2

\* What a step writes to the disk has no name twice, but while f_rename has both entries.
LEMMA WrittenOnce ==
  ASSUME FatInv, NEW i \in Slots, NEW j \in Slots, i # j,
         Written.dir[i].kind = "file", Written.dir[j].kind = "file", Written.dir[i].name = Written.dir[j].name
  PROVE  Removing /\ Written.dir[i].name = call.n
PROOF
<1>1. Written.dir[i] = vol.dir[i] /\ Written.dir[j] = vol.dir[j]
  BY WrittenDir
<1>2. Removing
  BY <1>1, Parts DEF DirOK, Names1
<1>3. /\ call.slot \in Slots /\ vol.dir[call.slot].name = call.n /\ DirOK(DirLeft)
      /\ DOMAIN vol.dir = Slots
  BY <1>2, Parts DEF Removing, Doing, Phase, DirTyped
<1>4. call.slot \in {i, j}
  <2> SUFFICES ASSUME call.slot \notin {i, j} PROVE FALSE
    OBVIOUS
  <2>1. DirLeft[i] = vol.dir[i] /\ DirLeft[j] = vol.dir[j]
    BY <1>3 DEF DirLeft
  <2> QED
    BY <1>1, <1>3, <2>1 DEF DirOK, Names1
<1> QED
  BY <1>1, <1>2, <1>3, <1>4

\* Every call and every step keeps it,
LEMMA CallsKeepNames ==
  ASSUME FatInv, DataInv, NamedOnce, Calls
  PROVE  NamedOnce'
PROOF
<1>1. ~InCall /\ ~Renaming /\ ~Removing
  BY AtRest DEF Calls, Renaming
<1>2. Moves
  BY CallsMove
<1>3. \A i, j \in Slots :
        ~(/\ disk'.dir[i].kind = "file" /\ disk'.dir[j].kind = "file"
          /\ disk'.dir[i].name = disk'.dir[j].name /\ i # j)
  <2>1. CASE disk'.dir = disk.dir
    BY <1>1, <2>1 DEF NamedOnce
  <2>2. CASE disk' = Written
    BY <1>1, <2>2, WrittenOnce
  <2> QED
    BY <1>2, <2>1, <2>2 DEF Moves
<1>4. Renaming' => promise'[call'.n] = Open
  <2> SUFFICES ASSUME Renaming' PROVE promise'[call'.n] = Open
    OBVIOUS
  <2>1. call'.op = "rename" /\ call'.pc \in {"remove", "window"}
    BY DEF Renaming, Doing
  <2>2. ~(\E n \in Names, mode \in Modes : OpenFile(n, mode))
    <3>1. \A n, mode : OpenRefused(n, mode) => call'.op = "open"
      BY DEF OpenRefused, Begins, NewCall
    <3>2. \A n, mode : OpenOld(n, mode) => call'.op = "open"
      BY DEF OpenOld, Begins, NewCall
    <3>3. \A n, mode : OpenNew(n, mode) => call'.op = "open"
      BY DEF OpenNew, Begins, NewCall
    <3>4. \A n, mode : OpenOver(n, mode) => call'.op = "open"
      <4> SUFFICES ASSUME NEW n, NEW mode, OpenOver(n, mode) PROVE call'.op = "open"
        OBVIOUS
      <4>i. PICK i : i = SlotOf(n)
        OBVIOUS
      <4>c. PICK c : c = vol.dir[i].clust
        OBVIOUS
      <4>1. CASE c = 0
        BY <4>i, <4>c, <4>1 DEF OpenOver, Begins, NewCall
      <4>2. CASE c # 0
        <5>1. call' = [NewCall("open", n, "free") EXCEPT !.slot = i, !.cl = c, !.top = c, !.mode = mode]
          BY <4>i, <4>c, <4>2 DEF OpenOver, Begins
        <5> QED
          BY <5>1 DEF NewCall
      <4> QED
        BY <4>1, <4>2
    <3> QED
      BY <2>1, <3>1, <3>2, <3>3, <3>4 DEF OpenFile
  <2>3. ~(\E n \in Names, len \in Lengths : WriteFile(n, len) \/ ReadFile(n, len))
    BY <2>1 DEF WriteFile, ReadFile, Begins, NewCall
  <2>4. ~(\E n \in Names, ofs \in Offsets : SeekFile(n, ofs))
    BY <2>1 DEF SeekFile, Begins, NewCall
  <2>5. ~(\E n \in Names : TruncateFile(n) \/ SyncFile(n) \/ CloseFile(n) \/ UnlinkFile(n))
    <3>1. \A n : TruncateFile(n) => call'.op = "truncate"
      BY DEF TruncateFile, Begins, NewCall
    <3>2. \A n, op : f_sync(n, op) => call'.op = op
      BY DEF f_sync, Begins, NewCall
    <3>3. \A n : UnlinkFile(n) => call'.op = "unlink"
      BY DEF UnlinkFile, Begins, NewCall
    <3> QED
      BY <2>1, <3>1, <3>2, <3>3 DEF SyncFile, CloseFile
  <2>6. ~GetFree
    BY <1>1, <2>1 DEF GetFree, InCall
  <2>7. PICK n \in Names, m \in Names : RenameFile(n, m)
    BY <2>2, <2>3, <2>4, <2>5, <2>6 DEF Calls
  <2>8. call'.n = n /\ promise' = [promise EXCEPT ![m] = Open, ![n] = Open]
    BY <2>1, <2>7 DEF RenameFile, Begins, NewCall
  <2>9. DOMAIN promise = Names
    BY DEF DataInv, DataTyped
  <2> QED
    BY <2>8, <2>9
<1> QED
  BY <1>3, <1>4 DEF NamedOnce

LEMMA StepsKeepNames ==
  ASSUME FatInv, NamedOnce, Steps
  PROVE  NamedOnce'
PROOF
<1>1. Moves
  BY StepsMove
<1>2. CASE ~Renaming
  <2>1. ~Renaming' /\ ~Removing
    BY <1>2, NotRenamingStays DEF Renaming, Removing, Doing
  <2>2. \A i, j \in Slots :
          ~(/\ disk'.dir[i].kind = "file" /\ disk'.dir[j].kind = "file"
            /\ disk'.dir[i].name = disk'.dir[j].name /\ i # j)
    <3>1. CASE disk'.dir = disk.dir
      BY <1>2, <3>1 DEF NamedOnce
    <3>2. CASE disk' = Written
      BY <2>1, <3>2, WrittenOnce
    <3> QED
      BY <1>1, <3>1, <3>2 DEF Moves
  <2> QED
    BY <2>1, <2>2 DEF NamedOnce
<1>3. CASE Renaming /\ RemoveOld
  <2>1. Removing /\ promise' = promise /\ call' = [call EXCEPT !.pc = "window"] /\ DOMAIN call = CallFields
    BY <1>3, RenamingGoesOn, Parts DEF RemoveOld, Goes, IsCall, Renaming, Doing, InCall
  <2>2. Renaming' /\ call'.n = call.n
    BY <2>1 DEF Renaming, Removing, Doing, CallFields
  <2>3. \A i, j \in Slots :
          /\ disk'.dir[i].kind = "file" /\ disk'.dir[j].kind = "file"
          /\ disk'.dir[i].name = disk'.dir[j].name /\ i # j
          => disk'.dir[i].name = call.n
    <3>1. CASE disk'.dir = disk.dir
      BY <3>1 DEF NamedOnce
    <3>2. CASE disk' = Written
      BY <3>2, WrittenOnce
    <3> QED
      BY <1>1, <3>1, <3>2 DEF Moves
  <2> QED
    BY <1>3, <2>1, <2>2, <2>3 DEF NamedOnce
<1>4. CASE Renaming /\ sync_window
  <2>1. call.pc = "window" /\ call' = [call EXCEPT !.pc = "info"] /\ DOMAIN call = CallFields
    BY <1>4, Parts DEF sync_window, Goes, IsCall, Renaming, Doing, InCall
  <2>2. ~Removing /\ ~Renaming'
    BY <2>1 DEF Renaming, Removing, Doing, CallFields
  <2>3. ~win.dirty => disk' = disk /\ \A i \in Slots : disk.dir[i] = vol.dir[i]
    BY <1>4, Parts, WrittenIs DEF sync_window, AsSeen
  <2>4. win.dirty => disk' = Written
    BY <1>4 DEF sync_window
  <2>5. \A i \in Slots : disk'.dir[i] = vol.dir[i]
    BY <2>3, <2>4, WrittenDir
  <2>6. Names1(vol.dir)
    BY <2>2, Parts DEF DirOK
  <2> QED
    BY <2>2, <2>5, <2>6 DEF NamedOnce, Names1
<1> QED
  BY <1>2, <1>3, <1>4, RenamingGoesOn

LEMMA StutterKeepsNames ==
  ASSUME NamedOnce, UNCHANGED fatVars
  PROVE  NamedOnce'
BY DEF NamedOnce, Renaming, Doing, fatVars

\* and it is so at the start and after a power failure.
LEMMA FreshNames == FatInv /\ Fresh => NamedOnce
PROOF
<1> SUFFICES ASSUME FatInv, Fresh PROVE NamedOnce
  OBVIOUS
<1>1. ~InCall /\ vol.dir = disk.dir
  BY DEF Fresh, InCall, Idle, Seen
<1>2. Names1(disk.dir) /\ ~Renaming
  BY <1>1, AtRest DEF DirOK, Renaming
<1> QED
  BY <1>2 DEF NamedOnce, Names1

-----------------------------------------------------------------------------
(* The theorems on what the files hold *)

\* Every call keeps what the files hold,
LEMMA CallsKeepData ==
  ASSUME FatInv, FatInv', DataInv, Calls
  PROVE  DataInv'
PROOF
<1>1. ~InCall
  BY DEF Calls
<1>2. CASE \E n \in Names, mode \in Modes : OpenFile(n, mode)
  BY <1>1, <1>2, OpenFileData
<1>3. CASE \E n \in Names, len \in Lengths : WriteFile(n, len) \/ ReadFile(n, len)
  BY <1>1, <1>3, TransferBegunData
<1>4. CASE \E n \in Names, ofs \in Offsets : SeekFile(n, ofs)
  BY <1>1, <1>4, SeekFileData
<1>5. CASE \E n \in Names : TruncateFile(n) \/ SyncFile(n) \/ CloseFile(n) \/ UnlinkFile(n)
  <2>1. PICK n \in Names : TruncateFile(n) \/ SyncFile(n) \/ CloseFile(n) \/ UnlinkFile(n)
    BY <1>5
  <2>2. TruncateFile(n) => calls' = calls + 1
    BY DEF TruncateFile, Begins
  <2>3. UnlinkFile(n) => calls' = calls + 1
    BY DEF UnlinkFile, Begins
  <2>4. CASE TruncateFile(n)
    BY <1>1, <2>2, <2>4, TruncateFileData
  <2>5. CASE SyncFile(n) \/ CloseFile(n)
    BY <1>1, <2>5, SyncFileData
  <2>6. CASE UnlinkFile(n)
    BY <1>1, <2>3, <2>6, UnlinkFileData
  <2> QED
    BY <2>1, <2>4, <2>5, <2>6
<1>6. CASE \E n \in Names, m \in Names : RenameFile(n, m)
  <2>1. PICK n \in Names, m \in Names : RenameFile(n, m)
    BY <1>6
  <2>2. calls' = calls + 1
    BY <2>1 DEF RenameFile, Begins
  <2> QED
    BY <1>1, <2>1, <2>2, RenamedData, RenameRefusedData
<1>7. CASE GetFree
  BY <1>1, <1>7, GetFreeData
<1> QED
  BY <1>2, <1>3, <1>4, <1>5, <1>6, <1>7 DEF Calls

\* and so does every step of a call.
LEMMA StepsKeepData ==
  ASSUME FatInv, FatInv', DataInv, Steps
  PROVE  DataInv'
PROOF
<1>1. CASE FreeCluster \/ FollowChain \/ VolumeFull \/ TakeCluster \/ LinkCluster \/ OverIsEmptied
  BY <1>1, FreeClusterData, FollowChainData, VolumeFullData, TakeClusterData, LinkClusterData,
     OverIsEmptiedData
<1>2. CASE FlushBuffer \/ NextToRead \/ ReadSector \/ NextToWrite \/ WriteSector
  BY <1>2, FlushBufferData, NextToReadData, ReadSectorData, NextToWriteData, WriteSectorData
<1>3. CASE SeekOn \/ SeekInCluster \/ Seeked \/ Cut
  BY <1>3, SeekOnData, SeekInClusterData, SeekedData, CutData
<1>4. CASE SyncEntry \/ sync_window \/ WriteInfo \/ RemoveOld \/ Return
  BY <1>4, SyncEntryData, SyncWindowData, WriteInfoData, RemoveOldData, ReturnData
<1> QED
  BY <1>1, <1>2, <1>3, <1>4 DEF Steps

\* All of it, until a failure tears the volume; what was synchronised is on the disk then, too.
VolumeData == IF torn THEN SyncedSurvives ELSE DataInv /\ NamedOnce

\* A chain never comes back to a cluster.
LEMMA NeverTwice ==
  ASSUME NEW t, NEW s \in Seq(Clusters), Linked(t, s)
  PROVE  \A k, l \in 1..Len(s) : s[k] = s[l] => k = l
PROOF
<1> DEFINE Back(d) == \E k, l \in 1..Len(s) : k < l /\ s[k] = s[l] /\ d = Len(s) - l + 1
           T == {d \in Nat \ {0} : Back(d)}
<1>1. Len(s) \in Nat /\ Eoc \notin Clusters
  BY Sizes DEF Clusters, Eoc
<1>2. T = {}
  <2> SUFFICES ASSUME T # {} PROVE FALSE
    OBVIOUS
  <2>d. PICK d : d = Least(T)
    OBVIOUS
  <2>1. d \in Nat /\ d \in T /\ \A e \in T : d <= e
    <3>1. T \in SUBSET (Nat \ {0})
      OBVIOUS
    <3> HIDE DEF T
    <3>2. d \in T /\ \A e \in T : d <= e
      BY <2>d, <3>1, LeastIs
    <3> QED
      BY <3>1, <3>2
  <2>2. PICK k, l \in 1..Len(s) : k < l /\ s[k] = s[l] /\ d = Len(s) - l + 1
    BY <2>1
  <2>3. After(s, k) = After(s, l) /\ After(s, k) = s[k + 1] /\ s[k + 1] \in Clusters /\ k + 1 \in 1..Len(s)
    <3>1. k # Len(s) /\ k + 1 \in 1..Len(s)
      BY <1>1, <2>2
    <3>2. t[s[k]] = After(s, k) /\ t[s[l]] = After(s, l)
      BY <2>2 DEF Linked
    <3>3. After(s, k) = s[k + 1] /\ s[k + 1] \in Clusters
      BY <3>1 DEF After
    <3> QED
      BY <2>2, <3>1, <3>2, <3>3
  <2>4. l # Len(s) /\ s[l + 1] = s[k + 1] /\ l + 1 \in 1..Len(s)
    BY <1>1, <2>2, <2>3 DEF After
  <2>5. d - 1 \in T
    BY <1>1, <2>2, <2>3, <2>4
  <2>6. d <= d - 1
    BY <2>1, <2>5
  <2> QED
    BY <2>1, <2>6
<1>3. \A k, l \in 1..Len(s) : k < l => s[k] # s[l]
  <2> SUFFICES ASSUME NEW k \in 1..Len(s), NEW l \in 1..Len(s), k < l, s[k] = s[l] PROVE FALSE
    OBVIOUS
  <2>1. Len(s) - l + 1 \in Nat \ {0}
    BY <1>1
  <2> QED
    BY <1>2, <2>1
<1> QED
  BY <1>1, <1>3

\* A chain on the disk that begins with the clusters of a promise holds what is promised.
LEMMA PromiseIsKept ==
  ASSUME FatInv, DataInv, NamedOnce, NEW n \in Names, NEW now, now = OnDisk(disk, n)
  PROVE  /\ promise[n].kind = "absent" => now = Absent
         /\ promise[n].kind = "held" =>
              /\ now.kind = "held" /\ Len(now.units) >= Len(promise[n].units)
              /\ \A p \in 1..Len(promise[n].units) : promise[n].units[p] \in {Unset, now.units[p]}
PROOF
<1>1. DataTyped /\ DiskKeeps(n) /\ Pledge(n) /\ DirTyped(disk.dir)
  BY Parts DEF DataInv, DataFits, WindowFits, DiskTyped
<1>2. promise[n].kind # "open" =>
        \A i, j \in Slots : disk.dir[i].kind = "file" /\ disk.dir[j].kind = "file"
                            /\ disk.dir[i].name = n /\ disk.dir[j].name = n => i = j
  BY DEF NamedOnce, Open
<1>4. CASE promise[n].kind = "absent"
  BY <1>1, <1>2, <1>4, OnDiskIs DEF DiskKeeps, KeptOn
<1>5. CASE promise[n].kind = "held"
  <2>v. PICK v : v = promise[n].units
    OBVIOUS
  <2>t. PICK t : t = disk.fat
    OBVIOUS
  <2>1. PICK i \in Slots : \E r \in Seq(Clusters) :
          /\ disk.dir[i].kind = "file" /\ disk.dir[i].name = n /\ disk.dir[i].size >= Len(v)
          /\ disk.dir[i].clust = Head0(r) /\ Linked(t, r)
          /\ \A p \in 1..Len(v) : ToCluster(p) \in 1..Len(r) /\ r[ToCluster(p)] = ChainOf(n)[ToCluster(p)]
    BY <1>1, <1>5, <2>v, <2>t DEF DiskKeeps, KeptOn
  <2>2. PICK s \in Seq(Clusters) :
          /\ disk.dir[i].kind = "file" /\ disk.dir[i].name = n /\ disk.dir[i].size >= Len(v)
          /\ disk.dir[i].clust = Head0(s) /\ Linked(t, s)
          /\ \A p \in 1..Len(v) : ToCluster(p) \in 1..Len(s) /\ s[ToCluster(p)] = ChainOf(n)[ToCluster(p)]
    BY <2>1
  <2>3. \A k, l \in 1..Len(s) : s[k] = s[l] => k = l
    BY <2>2, NeverTwice
  <2>z. PICK z : z = disk.dir[i].size
    OBVIOUS
  <2>5. z \in Nat /\ z >= Len(v) /\ Len(v) \in Nat
    BY <1>1, <2>2, <2>v, <2>z, Ghosts DEF DirTyped, EntryOk, PledgedOf
  <2>u. PICK u : u = [p \in 1..z |-> data[Loc(s, p)][Off(p)]]
    OBVIOUS
  <2>6. now = Held(u)
    <3>1. now = Held(Units(t, Head0(s), z))
      BY <1>2, <1>5, <2>2, <2>t, <2>z, OnDiskIs
    <3>2. Units(t, Head0(s), z) = u
      BY <2>2, <2>3, <2>5, <2>u, UnitsAre
    <3> QED
      BY <3>1, <3>2
  <2>7. now.kind = "held" /\ now.units = u /\ Len(u) = z
    BY <2>5, <2>6, <2>u DEF Held
  <2>8. ASSUME NEW p \in 1..Len(v) PROVE v[p] \in {Unset, u[p]}
    <3>1. v[p] \in {Unset, data[Loc(ChainOf(n), p)][Off(p)]}
      BY <1>1, <1>5, <2>v, <2>8 DEF Pledge, PledgedOf
    <3>2. s[ToCluster(p)] = ChainOf(n)[ToCluster(p)]
      BY <2>2, <2>8
    <3>3. Loc(s, p) = Loc(ChainOf(n), p)
      BY <3>2, LocIn
    <3>4. u[p] = data[Loc(s, p)][Off(p)]
      BY <2>5, <2>8, <2>u
    <3> QED
      BY <3>1, <3>3, <3>4
  <2> QED
    BY <1>5, <2>v, <2>5, <2>7, <2>8
<1> QED
  BY <1>4, <1>5

\* What is on the disk stays what was promised while neither changes.
LEMMA StillSynced ==
  ASSUME SyncedSurvives, UNCHANGED <<disk, data, promise>>
  PROVE  SyncedSurvives'
PROOF
<1>1. \A n : OnDisk(disk, n)' = OnDisk(disk, n)
  BY DEF OnDisk, Units, UnitAt
<1> QED
  BY <1>1 DEF SyncedSurvives

\* A failure of the power leaves what was synchronised where it is, on a torn volume too.
LEMMA PowerKeepsData ==
  ASSUME FatInv, ~torn, VolumeInv', DataInv, NamedOnce, PowerFails
  PROVE  VolumeData'
PROOF
<1>1. CASE torn'
  <2>1. SyncedSurvives
    BY PromiseIsKept DEF SyncedSurvives
  <2>2. UNCHANGED <<disk, data, promise>>
    BY <1>1 DEF PowerFails
  <2>3. SyncedSurvives'
    BY <2>1, <2>2, StillSynced
  <2> QED
    BY <1>1, <2>3 DEF VolumeData
<1>2. CASE ~torn'
  <2>1. FatInv'
    BY <1>2 DEF VolumeInv
  <2>2. FatInv' /\ Fresh' => DataInv' /\ NamedOnce'
    BY FreshData, FreshNames, PTL
  <2>3. DataInv' /\ NamedOnce'
    BY <1>2, <2>1, <2>2, PowerFailsFresh
  <2> QED
    BY <1>2, <2>3 DEF VolumeData
<1> QED
  BY <1>1, <1>2

\* Everything the theorems below say of the files.
LEMMA VolumeDataIsKept == FatSpec => []VolumeData
PROOF
<1>1. FatInit => VolumeData
  <2> SUFFICES ASSUME FatInit PROVE VolumeData
    OBVIOUS
  <2>1. NamedOnce
    BY InitKeeps, FreshNames, InitFresh
  <2> QED
    BY <2>1, InitKeeps, InitFresh, FreshData DEF FatInit, VolumeData
<1>2. VolumeInv /\ VolumeInv' /\ VolumeData /\ [FatNext]_fatVars => VolumeData'
  <2>1. ASSUME VolumeInv, VolumeInv', VolumeData, FatNext PROVE VolumeData'
    <3>1. ~torn /\ FatInv /\ DataInv /\ NamedOnce
      BY <2>1 DEF FatNext, VolumeInv, VolumeData
    <3>2. CASE (Calls \/ Steps) /\ UNCHANGED torn
      <4>1. ~torn' /\ FatInv'
        BY <2>1, <3>1, <3>2 DEF VolumeInv
      <4>2. DataInv'
        BY <3>1, <3>2, <4>1, CallsKeepData, StepsKeepData
      <4>3. NamedOnce'
        BY <3>1, <3>2, CallsKeepNames, StepsKeepNames
      <4> QED
        BY <4>1, <4>2, <4>3 DEF VolumeData
    <3>3. CASE PowerFails
      BY <2>1, <3>1, <3>3, PowerKeepsData
    <3> QED
      BY <2>1, <3>2, <3>3 DEF FatNext
  <2>2. ASSUME VolumeInv, VolumeInv', VolumeData, UNCHANGED fatVars PROVE VolumeData'
    <3>1. torn' = torn
      BY <2>2 DEF fatVars
    <3>2. CASE torn
      <4>1. UNCHANGED <<disk, data, promise>>
        BY <2>2 DEF fatVars
      <4>2. SyncedSurvives'
        BY <2>2, <3>2, <4>1, StillSynced DEF VolumeData
      <4> QED
        BY <3>1, <3>2, <4>2 DEF VolumeData
    <3>3. CASE ~torn
      <4>1. FatInv /\ FatInv' /\ DataInv /\ NamedOnce
        BY <2>2, <3>1, <3>3 DEF VolumeInv, VolumeData
      <4>2. DataInv' /\ NamedOnce'
        BY <2>2, <4>1, StutterData, StutterKeepsNames
      <4> QED
        BY <3>1, <3>3, <4>2 DEF VolumeData
    <3> QED
      BY <3>2, <3>3
  <2> QED
    BY <2>1, <2>2
<1> QED
  BY <1>1, <1>2, VolumeIsKept, PTL DEF FatSpec

\* What the files hold is where the chains, the buffers and the entries say, and what
\* was synchronised is on the disk, at every step and after every power failure, but
\* one within f_rename, or between f_truncate and the end of the next f_sync: that
\* tears the volume, and nothing is said of it here.
THEOREM DataIsKept == FatSpec => [](~torn => DataInv)
PROOF
<1>1. VolumeData => (~torn => DataInv)
  BY DEF VolumeData
<1> QED
  BY <1>1, VolumeDataIsKept, PTL

\* f_read delivers what was written there last, and a file ends where it was left,
\* until such a failure tears the volume.
THEOREM FilesAreRead == FatSpec => []ReadsBack
PROOF
<1>1. DataInv => ReadsBack
  <2> SUFFICES ASSUME DataInv PROVE ReadsBack
    OBVIOUS
  <2>1. ASSUME ~InCall, NEW n \in Names, IsOpen(n) PROVE file[n].size = Len(content[n].units)
    <3>1. Lens(n)
      BY DEF DataInv, DataFits
    <3>2. ~Cutting(n)
      BY <2>1 DEF Cutting, With, Doing, InCall
    <3> QED
      BY <2>1, <3>1, <3>2 DEF Lens, UnitsOf
  <2>2. ReadsRight
    BY DEF DataInv
  <2> QED
    BY <2>1, <2>2 DEF ReadsBack, ReadsRight
<1>2. torn => ReadsBack
  BY DEF ReadsBack
<1> QED
  BY <1>1, <1>2, DataIsKept, PTL

\* What f_sync or f_close acknowledged stays on the disk until the application changes
\* it, wherever the power fails, and also where the failure tears other files.
THEOREM SyncedIsKept == FatSpec => []SyncedSurvives
PROOF
<1>1. VolumeInv /\ VolumeData => SyncedSurvives
  <2>1. CASE torn
    BY <2>1 DEF VolumeData
  <2>2. CASE ~torn
    BY <2>2, PromiseIsKept DEF VolumeInv, VolumeData, SyncedSurvives
  <2> QED
    BY <2>1, <2>2
<1> QED
  BY <1>1, VolumeIsKept, VolumeDataIsKept, PTL
=============================================================================
