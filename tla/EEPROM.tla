------------------------------- MODULE EEPROM -------------------------------
(***************************************************************************)
(* The EEPROM emulation of ethernet/httpServer/eeprom_stm.c: variables     *)
(* identified by a virtual address are appended as (data, address) slots   *)
(* to one of two flash pages, and moved to the other page when it is full. *)
(*                                                                         *)
(* A step is one flash operation (the programming of a halfword or the     *)
(* erasure of a page) with the reads and tests the driver makes up to the  *)
(* next one.  Power can fail between any two steps; it erases everything   *)
(* but `header' and `slot'.  The flash is 0xFFFF (Blank) where erased.     *)
(***************************************************************************)
EXTENDS Integers, Sequences, FiniteSets

CONSTANTS
  Addrs,             \* virtual addresses
  ValuesOf,          \* ValuesOf[a]: the data the application writes at a
  VirtAddVarTab,     \* the addresses that a page transfer moves
  NSlots,            \* slots of a page (255 in the build: 1 KB / 4, less one)
  Blank,             \* 0xFFFF, an erased halfword
  Garbage,           \* a halfword left in these pages by an earlier program
  NotFound,          \* "the variable was not found"
  Unknown,           \* ghost: a write is in progress, or was cut short
  MaxFaults,         \* bound on the faults the driver is not built to survive
  MaxInitCrashes     \* bound on power losses inside one recovery

Page == {0, 1}
Slots == 1..NSlots
NumbOfVar == Len(VirtAddVarTab)
Data == (UNION {ValuesOf[a] : a \in Addrs}) \cup {Blank, Garbage}
Tabled == {VirtAddVarTab[k] : k \in 1..NumbOfVar}

ASSUME AddrAssumption ==
  /\ Blank \notin Addrs /\ Garbage \notin Addrs
  /\ VirtAddVarTab \in Seq(Addrs)
  /\ DOMAIN ValuesOf = Addrs
  /\ \A a \in Addrs : NotFound \notin ValuesOf[a] /\ Unknown \notin ValuesOf[a]

ASSUME BoundAssumption ==
  /\ NSlots \in Nat \ {0}
  /\ MaxFaults \in Nat /\ MaxInitCrashes \in Nat

ASSUME RoomAssumption == NSlots > NumbOfVar

\* The header of a page.  OTHER stands for every halfword that is none of the
\* three the driver writes.
Status == {"ERASED", "RECEIVE_DATA", "VALID_PAGE", "OTHER"}
NoPage == 2           \* NO_VALID_PAGE

InitPoints == {"i_blank", "i_promote", "i_copy", "i_copyaddr", "i_valid",
               "i_erase", "f_erase0", "f_valid", "f_erase1"}
WritePoints == {"w_store", "w_addr"}
TransferPoints == {"t_mark", "t_store", "t_addr", "t_copy", "t_copyaddr",
                   "t_erase", "t_valid"}
Points == {"off", "idle"} \cup InitPoints \cup WritePoints \cup TransferPoints
Codes == {"none", "FLASH_COMPLETE", "FLASH_ERROR", "PAGE_FULL", "NO_VALID_PAGE"}

VARIABLES
  header,      \* flash: the status halfword of each page
  slot,        \* flash: slot[p][i] = [data, addr]
  pc,          \* the flash operation the driver is about to do
  arg,         \* VirtAddress and Data of the EE_WriteVariable in progress
  new,         \* NewPageAddress of a transfer; the page EE_Init keeps
  idx,         \* VarIdx of the copying loops
  at,          \* Address of EE_VerifyPageFullWriteVariable: the slot it fills
  ret,         \* what the last finished call returned
  faults,      \* failed flash operations, and power losses with two VALID pages
  initCrashes, \* other power losses since EE_Init last ran to its end
  acked        \* ghost: last data acknowledged at each address, without faults

flash == <<header, slot>>
locals == <<arg, new, idx, at>>
vars == <<header, slot, pc, arg, new, idx, at, ret, faults, initCrashes, acked>>

NoVar == [addr |-> Blank, data |-> Blank]
BlankSlots == [i \in Slots |-> NoVar]
GarbageSlots == [i \in Slots |-> [addr |-> Garbage, data |-> Garbage]]
Other(p) == 1 - p

-----------------------------------------------------------------------------
(* Reading the flash. *)

\* EE_FindValidPage(READ_FROM_VALID_PAGE)
ReadPage == CASE header[0] = "VALID_PAGE" -> 0
              [] header[0] # "VALID_PAGE" /\ header[1] = "VALID_PAGE" -> 1
              [] OTHER -> NoPage

\* EE_FindValidPage(WRITE_IN_VALID_PAGE): the page next to a VALID one if it
\* is receiving, else the VALID one; Page1 is looked at first.
WritePage ==
  LET Target(p) == IF header[Other(p)] = "RECEIVE_DATA" THEN Other(p) ELSE p
  IN  CASE header[1] = "VALID_PAGE" -> Target(1)
        [] header[1] # "VALID_PAGE" /\ header[0] = "VALID_PAGE" -> Target(0)
        [] OTHER -> NoPage

\* Mutant: a slot counts as free when its data halfword alone is 0xFFFF.
FreeMutant(p, i) == slot[p][i].data = Blank

\* The slot that EE_VerifyPageFullWriteVariable stops at.  A slot whose data
\* was programmed but whose address was not is not free, unless the data is
\* 0xFFFF.
Free(p, i) == slot[p][i] = NoVar
FirstFree(p, i) == Free(p, i) /\ \A j \in 1..(i-1) : ~Free(p, j)
PageFull(p) == \A i \in Slots : ~Free(p, i)

\* The slot that EE_ReadVariable, scanning from the end, stops at.
Newest(p, a, i) == slot[p][i].addr = a /\ \A j \in (i+1)..NSlots : slot[p][j].addr # a
Holds(p, a) == \E i \in Slots : Newest(p, a, i)
LastIn(p, a) == IF Holds(p, a) THEN slot[p][CHOOSE i \in Slots : Newest(p, a, i)].data
                ELSE NotFound

\* EE_ReadVariable: the data it delivers, NotFound where it leaves *Data alone.
EE_ReadVariable(a) == IF ReadPage = NoPage THEN NotFound ELSE LastIn(ReadPage, a)

-----------------------------------------------------------------------------
(* Flash operations, and the end of a call. *)

ErasePage(p) == /\ header' = [header EXCEPT ![p] = "ERASED"]
                /\ slot' = [slot EXCEPT ![p] = BlankSlots]

\* FLASH_ProgramHalfWord on a header: only an erased halfword takes a value,
\* but every halfword takes VALID_PAGE (0x0000).
CanProgram(p, s) == s = "VALID_PAGE" \/ header[p] = "ERASED"
ProgramHeader(p, s) == /\ header' = [header EXCEPT ![p] = s]
                       /\ UNCHANGED slot

NoLocals == /\ arg' = NoVar /\ new' = 0 /\ idx' = 1 /\ at' = <<0, 0>>

Return(code) ==
  /\ pc' = "idle" /\ ret' = code
  /\ NoLocals
  /\ acked' = IF code = "FLASH_COMPLETE" /\ pc \notin InitPoints /\ faults = 0
              THEN [acked EXCEPT ![arg.addr] = arg.data] ELSE acked
  /\ initCrashes' = IF pc \in InitPoints THEN 0 ELSE initCrashes
  /\ UNCHANGED faults

Goto(point) == pc' = point /\ UNCHANGED <<ret, faults, initCrashes, acked>>

\* EE_VerifyPageFullWriteVariable, up to the programming of the data ...
StoreData(d) == \E i \in Slots :
  /\ WritePage # NoPage /\ FirstFree(WritePage, i)
  /\ slot' = [slot EXCEPT ![WritePage][i].data = d]
  /\ at' = <<WritePage, i>>
  /\ UNCHANGED <<header, arg, new, idx>>

\* ... its programming of the virtual address ...
StoreAddr(a) == /\ slot' = [slot EXCEPT ![at[1]][at[2]].addr = a]
                /\ UNCHANGED header

\* ... and its early return.
StoreFull == /\ WritePage # NoPage /\ PageFull(WritePage)
             /\ UNCHANGED flash
             /\ Return("PAGE_FULL")

-----------------------------------------------------------------------------
(* EE_WriteVariable *)

\* A call from the main program, with data of this address.
WriteVariable(a, d) ==
  /\ pc = "idle" /\ d \in ValuesOf[a]
  /\ arg' = [addr |-> a, data |-> d]
  /\ pc' = "w_store" /\ ret' = "none"
  /\ acked' = [acked EXCEPT ![a] = Unknown]
  /\ UNCHANGED <<header, slot, new, idx, at, faults, initCrashes>>

WriteStore == /\ pc = "w_store"
              /\ StoreData(arg.data)
              /\ Goto("w_addr")

WriteNoPage == /\ pc = "w_store" /\ WritePage = NoPage
               /\ UNCHANGED flash
               /\ Return("NO_VALID_PAGE")

WriteAddr == /\ pc = "w_addr"
             /\ StoreAddr(arg.addr)
             /\ Return("FLASH_COMPLETE")

\* The page is full: EE_PageTransfer, from the page that is read to the other.
WriteTransfer == /\ pc = "w_store"
                 /\ WritePage # NoPage /\ PageFull(WritePage)
                 /\ new' = Other(ReadPage)
                 /\ Goto("t_mark")
                 /\ UNCHANGED <<header, slot, arg, idx, at>>

-----------------------------------------------------------------------------
(* EE_PageTransfer *)

TransferMark == /\ pc = "t_mark" /\ CanProgram(new, "RECEIVE_DATA")
                /\ ProgramHeader(new, "RECEIVE_DATA")
                /\ Goto("t_store")
                /\ UNCHANGED locals

\* The flash refuses a header that is not erased (PGERR).
TransferRefused == /\ pc = "t_mark" /\ ~CanProgram(new, "RECEIVE_DATA")
                   /\ UNCHANGED flash
                   /\ Return("FLASH_ERROR")

TransferStore == /\ pc = "t_store"
                 /\ StoreData(arg.data)
                 /\ Goto("t_addr")

TransferAddr == /\ pc = "t_addr"
                /\ StoreAddr(arg.addr)
                /\ Goto("t_copy")
                /\ UNCHANGED locals

\* The loop leaves out the variable being written, and those the old page does
\* not hold.  Its PAGE_FULL return is not modelled: the new page was blank when
\* it was marked, and has room for the table (RoomAssumption).  Nor are the
\* NO_VALID_PAGE returns of the two copying loops: the page they read is VALID.
TransferWants(k) == /\ VirtAddVarTab[k] # arg.addr
                    /\ Holds(ReadPage, VirtAddVarTab[k])

TransferSkip == /\ pc = "t_copy" /\ idx <= NumbOfVar /\ ~TransferWants(idx)
                /\ idx' = idx + 1
                /\ UNCHANGED <<header, slot, pc, arg, new, at, ret, faults, initCrashes, acked>>

TransferCopy == /\ pc = "t_copy" /\ idx <= NumbOfVar /\ TransferWants(idx)
                /\ StoreData(LastIn(ReadPage, VirtAddVarTab[idx]))
                /\ Goto("t_copyaddr")

\* Mutant: VarIdx advances in the body of the loop and in its header.
TransferCopyAddrMutant == /\ pc = "t_copyaddr"
                          /\ StoreAddr(VirtAddVarTab[idx])
                          /\ idx' = idx + 2
                          /\ Goto("t_copy")
                          /\ UNCHANGED <<arg, new, at>>

TransferCopyAddr == /\ pc = "t_copyaddr"
                    /\ StoreAddr(VirtAddVarTab[idx])
                    /\ idx' = idx + 1
                    /\ Goto("t_copy")
                    /\ UNCHANGED <<arg, new, at>>

\* Mutant: the loop ends one variable early.
TransferCopiedMutant == /\ pc = "t_copy" /\ idx >= NumbOfVar
                        /\ Goto("t_erase")
                        /\ UNCHANGED <<header, slot, arg, new, idx, at>>

TransferCopied == /\ pc = "t_copy" /\ idx > NumbOfVar
                  /\ Goto("t_erase")
                  /\ UNCHANGED <<header, slot, arg, new, idx, at>>

TransferErase == /\ pc = "t_erase"
                 /\ ErasePage(Other(new))
                 /\ Goto("t_valid")
                 /\ UNCHANGED locals

TransferValid == /\ pc = "t_valid"
                 /\ ProgramHeader(new, "VALID_PAGE")
                 /\ Return("FLASH_COMPLETE")

-----------------------------------------------------------------------------
(* EE_Init, at each power-up. *)

\* One page erased, the other in use: erase the former once more, and finish
\* the marking of the latter if a transfer was cut short before it.
NeedsBlank(p) == header[Other(p)] = "ERASED" /\ header[p] \in {"VALID_PAGE", "RECEIVE_DATA"}

\* Page p was being filled from the other.  Page1 counts as receiving whenever
\* it is neither VALID nor ERASED and Page0 is VALID (the last `else').
NeedsRecovery(p) ==
  /\ header[Other(p)] = "VALID_PAGE"
  /\ header[p] \in (IF p = 0 THEN {"RECEIVE_DATA"} ELSE {"RECEIVE_DATA", "OTHER"})

NeedsFormat == \A p \in Page : ~NeedsBlank(p) /\ ~NeedsRecovery(p)

InitAt(point, p) == /\ pc = "off"
                    /\ pc' = point /\ new' = p
                    /\ UNCHANGED <<header, slot, arg, idx, at, ret, faults, initCrashes, acked>>

EE_Init == \/ \E p \in Page : NeedsBlank(p) /\ InitAt("i_blank", p)
           \/ \E p \in Page : NeedsRecovery(p) /\ InitAt("i_copy", p)
           \/ NeedsFormat /\ InitAt("f_erase0", 0)

InitBlank == /\ pc = "i_blank"
             /\ ErasePage(Other(new))
             /\ IF header[new] = "RECEIVE_DATA"
                THEN Goto("i_promote") /\ UNCHANGED locals
                ELSE Return("FLASH_COMPLETE")

InitPromote == /\ pc = "i_promote"
               /\ ProgramHeader(new, "VALID_PAGE")
               /\ Return("FLASH_COMPLETE")

\* Mutant: the recovery copies the variable that started the transfer too.
RecoverWantsMutant(k) == Holds(ReadPage, VirtAddVarTab[k])

\* The recovery loop leaves out the variable in the first slot of the
\* receiving page (the one whose write started the transfer).
RecoverWants(k) == /\ slot[new][1].addr # VirtAddVarTab[k]
                   /\ Holds(ReadPage, VirtAddVarTab[k])

\* Mutant: VarIdx does not advance past a variable that is left out.
RecoverSkipMutant == /\ pc = "i_copy" /\ idx <= NumbOfVar /\ ~RecoverWants(idx)
                     /\ UNCHANGED vars

RecoverSkip == /\ pc = "i_copy" /\ idx <= NumbOfVar /\ ~RecoverWants(idx)
               /\ idx' = idx + 1
               /\ UNCHANGED <<header, slot, pc, arg, new, at, ret, faults, initCrashes, acked>>

RecoverCopy == /\ pc = "i_copy" /\ idx <= NumbOfVar /\ RecoverWants(idx)
               /\ StoreData(LastIn(ReadPage, VirtAddVarTab[idx]))
               /\ Goto("i_copyaddr")

RecoverCopyAddr == /\ pc = "i_copyaddr"
                   /\ StoreAddr(VirtAddVarTab[idx])
                   /\ idx' = idx + 1
                   /\ Goto("i_copy")
                   /\ UNCHANGED <<arg, new, at>>

RecoverFull == /\ pc = "i_copy" /\ idx <= NumbOfVar /\ RecoverWants(idx)
               /\ StoreFull

RecoverCopied == /\ pc = "i_copy" /\ idx > NumbOfVar
                 /\ Goto("i_valid")
                 /\ UNCHANGED <<header, slot, arg, new, idx, at>>

RecoverValid == /\ pc = "i_valid"
                /\ ProgramHeader(new, "VALID_PAGE")
                /\ Goto("i_erase")
                /\ UNCHANGED locals

\* Mutant: the old page is not erased.
RecoverEraseMutant == /\ pc = "i_erase"
                      /\ UNCHANGED flash
                      /\ Return("FLASH_COMPLETE")

RecoverErase == /\ pc = "i_erase"
                /\ ErasePage(Other(new))
                /\ Return("FLASH_COMPLETE")

-----------------------------------------------------------------------------
(* EE_Format: Page0 is VALID before Page1 is erased. *)

FormatErase0 == /\ pc = "f_erase0"
                /\ ErasePage(0)
                /\ Goto("f_valid")
                /\ UNCHANGED locals

FormatValid == /\ pc = "f_valid"
               /\ ProgramHeader(0, "VALID_PAGE")
               /\ Goto("f_erase1")
               /\ UNCHANGED locals

\* Mutant: Page1 is left as it was.
FormatErase1Mutant == /\ pc = "f_erase1"
                      /\ UNCHANGED flash
                      /\ Return("FLASH_COMPLETE")

FormatErase1 == /\ pc = "f_erase1"
                /\ ErasePage(1)
                /\ Return("FLASH_COMPLETE")

-----------------------------------------------------------------------------
(* What the driver does not control. *)

\* A fault: nothing that was acknowledged before is sure any more, and the ghost
\* keeps no account of it from here on.
Fault == /\ faults < MaxFaults /\ faults' = faults + 1
         /\ acked' = [a \in Addrs |-> Unknown]

\* Power fails; the next step is the EE_Init of the next power-up.  EE_Init
\* formats two VALID pages away: that is counted with the faults.
PowerLoss ==
  /\ pc # "off"
  /\ IF pc = "i_erase"
     THEN Fault /\ UNCHANGED initCrashes
     ELSE IF pc \in InitPoints
     THEN initCrashes < MaxInitCrashes /\ initCrashes' = initCrashes + 1 /\ UNCHANGED <<faults, acked>>
     ELSE UNCHANGED <<faults, acked, initCrashes>>
  /\ pc' = "off" /\ ret' = "none"
  /\ NoLocals
  /\ UNCHANGED flash

\* The driver is at a flash operation (not at a test or an early return).
FlashOpNext ==
  \/ pc \in {"w_store", "t_store"} /\ WritePage # NoPage /\ ~PageFull(WritePage)
  \/ /\ idx <= NumbOfVar
     /\ \/ pc = "t_copy" /\ TransferWants(idx)
        \/ pc = "i_copy" /\ RecoverWants(idx)
     /\ WritePage # NoPage /\ ~PageFull(WritePage)
  \/ pc \in Points \ {"off", "idle", "w_store", "t_store", "t_copy", "i_copy"}

\* A flash operation fails without effect; every caller returns at once.
FlashFails ==
  /\ FlashOpNext /\ Fault
  /\ pc' = "idle" /\ ret' = "FLASH_ERROR"
  /\ initCrashes' = IF pc \in InitPoints THEN 0 ELSE initCrashes
  /\ NoLocals
  /\ UNCHANGED flash

-----------------------------------------------------------------------------

\* These two pages are as the chip came, or hold something else.
Init ==
  /\ header \in [Page -> {"ERASED", "OTHER"}]
  /\ slot = [p \in Page |-> IF header[p] = "ERASED" THEN BlankSlots ELSE GarbageSlots]
  /\ pc = "off" /\ ret = "none"
  /\ arg = NoVar /\ new = 0 /\ idx = 1 /\ at = <<0, 0>>
  /\ faults = 0 /\ initCrashes = 0
  /\ acked = [a \in Addrs |-> NotFound]

WriteStep == WriteStore \/ WriteNoPage \/ WriteAddr \/ WriteTransfer
TransferStep == \/ TransferMark \/ TransferRefused \/ TransferStore \/ TransferAddr
                \/ TransferSkip \/ TransferCopy \/ TransferCopyAddr \/ TransferCopied
                \/ TransferErase \/ TransferValid
InitStep == \/ EE_Init \/ InitBlank \/ InitPromote \/ RecoverSkip \/ RecoverCopy
            \/ RecoverCopyAddr \/ RecoverFull \/ RecoverCopied \/ RecoverValid
            \/ RecoverErase \/ FormatErase0 \/ FormatValid \/ FormatErase1
DriverStep == WriteStep \/ TransferStep \/ InitStep

Next == \/ \E a \in Addrs : \E d \in ValuesOf[a] : WriteVariable(a, d)
        \/ DriverStep
        \/ PowerLoss
        \/ FlashFails

Spec == Init /\ [][Next]_vars

\* The processor runs the driver on while it has power.
FairSpec == Spec /\ WF_vars(DriverStep)

-----------------------------------------------------------------------------
(* Properties *)

\* Types of the flash, of the driver's locals and of its program counter.
TypeOK ==
  /\ header \in [Page -> Status]
  /\ slot \in [Page -> [Slots -> [addr : Addrs \cup {Blank, Garbage}, data : Data]]]
  /\ pc \in Points
  /\ arg \in [addr : Addrs \cup {Blank}, data : Data]
  /\ new \in Page
  /\ idx \in 1..(NumbOfVar + 1)
  /\ at \in Page \X (0..NSlots)
  /\ ret \in Codes
  /\ faults \in 0..MaxFaults
  /\ initCrashes \in 0..MaxInitCrashes
  /\ acked \in [Addrs -> Data \cup {NotFound, Unknown}]

\* Whatever power losses, flash errors and recoveries have happened, a read of
\* a variable delivers data that the application wrote to that variable: the
\* slot reused after a torn write, the slot filled by a copying loop and the
\* page promoted by EE_Init never give one variable the data of another.
ReadsOwnData == \A a \in Addrs : EE_ReadVariable(a) \in ValuesOf[a] \cup {NotFound}

\* One page is VALID and the other is erased and blank.
InService == \E p \in Page : /\ header[p] = "VALID_PAGE"
                            /\ header[Other(p)] = "ERASED"
                            /\ slot[Other(p)] = BlankSlots

\* When the main program runs, one page is in service and the other is ready to
\* be marked by the next transfer: the known good state EE_Init is there to
\* restore.
OnePageInService == (pc = "idle" /\ faults = 0) => InService

\* A write that returned FLASH_COMPLETE is what the variable reads as from then
\* on, across transfers and power losses, until the next write of it.
AckedIsReadBack ==
  (pc = "idle" /\ faults = 0) =>
    \A a \in Addrs : acked[a] # Unknown => EE_ReadVariable(a) = acked[a]

\* EE_Init returns FLASH_COMPLETE or a flash error, as its header comment says:
\* its copying never runs out of room on the receiving page.
InitReturnsItsCodes ==
  [][(pc \in InitPoints /\ pc' = "idle" /\ faults = 0) =>
       ret' \in {"FLASH_COMPLETE", "FLASH_ERROR"}]_vars

\* A write that finds the flash sound is accepted: it never returns PAGE_FULL,
\* NO_VALID_PAGE or an error, however full the page it started on.
WritesAreAccepted ==
  [][(pc \in WritePoints \cup TransferPoints /\ pc' = "idle" /\ faults' = 0) =>
       ret' = "FLASH_COMPLETE"]_vars

\* After every power-up the driver gets to the main program, and with one page
\* in service unless there was a fault.
InServiceAfterPowerUp == pc = "off" ~> (pc = "idle" /\ (InService \/ faults > 0))

-----------------------------------------------------------------------------
(* What the two pages will read as once EE_Init has run: the abstract value  *)
(* of the flash.                                                             *)

AfterRecovery(p, a) ==      \* page p receives from the other
  IF slot[p][1].addr # a /\ Holds(Other(p), a) THEN LastIn(Other(p), a) ELSE LastIn(p, a)

Durable(a) ==
  IF pc = "i_erase" THEN LastIn(new, a)    \* both pages are VALID
  ELSE CASE NeedsRecovery(0) -> AfterRecovery(0, a)
         [] NeedsRecovery(1) -> AfterRecovery(1, a)
         [] NeedsBlank(0) -> LastIn(0, a)
         [] NeedsBlank(1) -> LastIn(1, a)
         [] OTHER -> NotFound

\* The driver is a store whose writes happen at one instant and survive power
\* losses, until a fault; after one it still reads no variable's data as another's.
\* `req' is the write in progress.
Store == INSTANCE EEStore WITH
  store <- [a \in Addrs |-> Durable(a)],
  sound <- (faults = 0),
  req <- IF arg.addr = Blank THEN {} ELSE {arg}
ImplementsStore == Store!Spec
=============================================================================
