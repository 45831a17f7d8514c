---------------------------- MODULE EEPROMProofs ----------------------------
(***************************************************************************)
(* Theorems of EEPROM, for any number of slots, variables, flash errors    *)
(* and power losses: the types of its state, that no variable ever reads   *)
(* as the data of another, that one page is in service when the main       *)
(* program runs, that an acknowledged write is read back, and that the     *)
(* driver implements EEStore.                                              *)
(***************************************************************************)
EXTENDS EEPROM, TLAPS

-----------------------------------------------------------------------------
(* The inductive invariant. *)

FlashOK == /\ header \in [Page -> Status]
           /\ slot \in [Page -> [Slots -> [addr : Addrs \cup {Blank, Garbage}, data : Data]]]

\* Every complete slot holds data of the variable it names ...
SlotsOwnData == \A p \in Page : \A i \in Slots :
  slot[p][i].addr \in Addrs => slot[p][i].data \in ValuesOf[slot[p][i].addr]

\* ... and a slot whose address is about to be programmed already holds data of
\* that variable.
Owner == IF pc \in {"w_addr", "t_addr"} THEN arg.addr ELSE VirtAddVarTab[idx]
HalfWritten == pc \in {"w_addr", "t_addr", "t_copyaddr", "i_copyaddr"} =>
  /\ at \in Page \X Slots
  /\ Owner \in Addrs
  /\ slot[at[1]][at[2]].data \in ValuesOf[Owner]

ArgOwnsData == pc \in WritePoints \cup TransferPoints =>
  arg.addr \in Addrs /\ arg.data \in ValuesOf[arg.addr]

CopyInTable == pc \in {"t_copyaddr", "i_copyaddr"} => idx \in 1..NumbOfVar

IInv == TypeOK /\ SlotsOwnData /\ HalfWritten /\ ArgOwnsData /\ CopyInTable

-----------------------------------------------------------------------------
(* Facts about the constants and the state functions. *)

\* The members of VirtAddVarTab are virtual addresses, and their data are data.
LEMMA TableFacts ==
  /\ NumbOfVar \in Nat
  /\ \A k \in 1..NumbOfVar : VirtAddVarTab[k] \in Addrs
  /\ \A a \in Addrs : ValuesOf[a] \subseteq Data
  /\ Blank \in Data /\ Garbage \in Data
<1>1. NumbOfVar \in Nat /\ \A k \in 1..NumbOfVar : VirtAddVarTab[k] \in Addrs
  BY AddrAssumption DEF NumbOfVar
<1>2. \A a \in Addrs : ValuesOf[a] \subseteq Data
  BY DEF Data
<1>3. Blank \in Data /\ Garbage \in Data
  BY DEF Data
<1> QED BY <1>1, <1>2, <1>3

\* Where EE_FindValidPage finds a page to write it also finds one to read.
LEMMA PageFacts ==
  /\ WritePage # NoPage => WritePage \in Page /\ ReadPage \in Page
  /\ ReadPage # NoPage => ReadPage \in Page
  /\ \A p \in Page : Other(p) \in Page
BY DEF WritePage, ReadPage, NoPage, Page, Other

\* LastIn delivers the data of a slot with that address.
LEMMA LastInFacts ==
  ASSUME NEW p, NEW a, Holds(p, a)
  PROVE  \E i \in Slots : slot[p][i].addr = a /\ LastIn(p, a) = slot[p][i].data
BY DEF LastIn, Holds, Newest

-----------------------------------------------------------------------------
(* What the parts of a step do to the flash. *)

LEMMA EraseKeeps ==
  ASSUME FlashOK, SlotsOwnData, NEW p \in Page, ErasePage(p)
  PROVE  FlashOK' /\ SlotsOwnData'
<1>1. NoVar \in [addr : Addrs \cup {Blank, Garbage}, data : Data] /\ NoVar.addr \notin Addrs
  BY AddrAssumption, TableFacts DEF NoVar
<1>2. BlankSlots \in [Slots -> [addr : Addrs \cup {Blank, Garbage}, data : Data]]
  BY <1>1 DEF BlankSlots
<1>3. FlashOK'
  BY <1>2 DEF FlashOK, ErasePage, Status
<1>4. SlotsOwnData'
  <2> SUFFICES ASSUME NEW q \in Page, NEW i \in Slots, slot'[q][i].addr \in Addrs
               PROVE  slot'[q][i].data \in ValuesOf[slot'[q][i].addr]
    BY DEF SlotsOwnData
  <2>1. slot'[q] = IF q = p THEN BlankSlots ELSE slot[q]
    BY DEF ErasePage, FlashOK
  <2>2. q # p
    BY <1>1, <2>1 DEF BlankSlots
  <2> QED BY <2>1, <2>2 DEF SlotsOwnData
<1> QED BY <1>3, <1>4

LEMMA HeaderKeeps ==
  ASSUME FlashOK, SlotsOwnData, NEW p \in Page, NEW s \in Status, ProgramHeader(p, s)
  PROVE  FlashOK' /\ SlotsOwnData'
BY DEF FlashOK, SlotsOwnData, ProgramHeader

\* Data go to a slot with no address, so they change nobody's value.
LEMMA StoreDataKeeps ==
  ASSUME FlashOK, SlotsOwnData, NEW d \in Data, StoreData(d)
  PROVE  /\ FlashOK' /\ SlotsOwnData'
         /\ at' \in Page \X Slots
         /\ slot'[at'[1]][at'[2]].data = d
         /\ UNCHANGED <<arg, new, idx>>
<1>1. PICK i \in Slots :
        /\ WritePage # NoPage /\ FirstFree(WritePage, i)
        /\ slot' = [slot EXCEPT ![WritePage][i].data = d]
        /\ at' = <<WritePage, i>>
        /\ UNCHANGED <<header, arg, new, idx>>
  BY DEF StoreData
<1> DEFINE w == WritePage
<1>2. w \in Page /\ slot[w][i] = NoVar
  BY <1>1, PageFacts DEF FirstFree, Free
<1> HIDE DEF w
<1>3. slot' = [slot EXCEPT ![w][i].data = d] /\ at' = <<w, i>>
  BY <1>1 DEF w
<1>4. slot[w][i] = [addr |-> Blank, data |-> Blank]
  BY <1>2 DEF NoVar
<1>5. \A q \in Page : \A j \in Slots :
        slot'[q][j] = IF q = w /\ j = i THEN [addr |-> Blank, data |-> d] ELSE slot[q][j]
  BY <1>2, <1>3, <1>4 DEF FlashOK
<1>6. slot' \in [Page -> [Slots -> [addr : Addrs \cup {Blank, Garbage}, data : Data]]]
  <2>1. slot' = [q \in Page |-> [j \in Slots |-> slot'[q][j]]]
    BY <1>2, <1>3 DEF FlashOK
  <2>2. \A q \in Page : \A j \in Slots :
          slot'[q][j] \in [addr : Addrs \cup {Blank, Garbage}, data : Data]
    BY <1>5 DEF FlashOK
  <2> QED BY <2>1, <2>2
<1>7. SlotsOwnData'
  BY <1>5, AddrAssumption DEF SlotsOwnData
<1>8. slot'[w][i].data = d
  BY <1>2, <1>5
<1> QED BY <1>1, <1>2, <1>3, <1>6, <1>7, <1>8 DEF FlashOK

\* The address completes a slot that holds data of that variable.
LEMMA StoreAddrKeeps ==
  ASSUME FlashOK, SlotsOwnData, NEW a \in Addrs, at \in Page \X Slots,
         slot[at[1]][at[2]].data \in ValuesOf[a], StoreAddr(a)
  PROVE  FlashOK' /\ SlotsOwnData'
<1>1. PICK p \in Page, i \in Slots : at[1] = p /\ at[2] = i
  BY DEF Page
<1>2. slot' = [slot EXCEPT ![p][i].addr = a] /\ UNCHANGED header
  BY <1>1 DEF StoreAddr
<1> DEFINE v == slot[p][i].data
<1>3. v \in Data /\ v \in ValuesOf[a] /\ slot[p][i] = [addr |-> slot[p][i].addr, data |-> v]
  BY <1>1 DEF FlashOK
<1> HIDE DEF v
<1>4. \A q \in Page : \A j \in Slots :
        slot'[q][j] = IF q = p /\ j = i THEN [addr |-> a, data |-> v] ELSE slot[q][j]
  BY <1>1, <1>2, <1>3 DEF FlashOK
<1>5. slot' \in [Page -> [Slots -> [addr : Addrs \cup {Blank, Garbage}, data : Data]]]
  <2>1. slot' = [q \in Page |-> [j \in Slots |-> slot'[q][j]]]
    BY <1>1, <1>2 DEF FlashOK
  <2>2. \A q \in Page : \A j \in Slots :
          slot'[q][j] \in [addr : Addrs \cup {Blank, Garbage}, data : Data]
    BY <1>3, <1>4 DEF FlashOK
  <2> QED BY <2>1, <2>2
<1>6. SlotsOwnData'
  BY <1>3, <1>4 DEF SlotsOwnData
<1> QED BY <1>2, <1>5, <1>6 DEF FlashOK

\* The end of a call leaves nothing half done.
LEMMA ReturnKeeps ==
  ASSUME TypeOK, NEW code \in Codes, Return(code), FlashOK', SlotsOwnData'
  PROVE  IInv'
<1>1. arg' = NoVar /\ new' = 0 /\ idx' = 1 /\ at' = <<0, 0>> /\ pc' = "idle" /\ ret' = code
  BY DEF Return, NoLocals
<1>2. NoVar \in [addr : Addrs \cup {Blank}, data : Data]
  BY TableFacts DEF NoVar
<1>3. acked' \in [Addrs -> Data \cup {NotFound, Unknown}]
  BY DEF Return, TypeOK
<1>4. initCrashes' \in 0..MaxInitCrashes /\ faults' \in 0..MaxFaults
  BY BoundAssumption DEF Return, TypeOK
<1>5. 1 \in 1..(NumbOfVar + 1) /\ <<0, 0>> \in Page \X (0..NSlots) /\ 0 \in Page /\ "idle" \in Points
  BY TableFacts, BoundAssumption DEF Page, Points
<1>6. TypeOK'
  BY <1>1, <1>2, <1>3, <1>4, <1>5 DEF TypeOK, FlashOK
<1>7. HalfWritten' /\ ArgOwnsData' /\ CopyInTable'
  BY <1>1 DEF HalfWritten, ArgOwnsData, CopyInTable, WritePoints, TransferPoints
<1> QED BY <1>6, <1>7 DEF IInv

\* A step that stays inside a call, leaves the call's argument alone and half
\* writes no slot.
LEMMA GotoKeeps ==
  ASSUME IInv, NEW point \in Points, Goto(point), FlashOK', SlotsOwnData',
         UNCHANGED <<arg, new, at>>, idx' \in 1..(NumbOfVar + 1),
         point \notin {"w_addr", "t_addr", "t_copyaddr", "i_copyaddr"},
         point \in WritePoints \cup TransferPoints => pc \in WritePoints \cup TransferPoints
  PROVE  IInv'
<1>1. TypeOK'
  BY DEF Goto, IInv, TypeOK, FlashOK
<1>2. HalfWritten' /\ ArgOwnsData' /\ CopyInTable'
  BY DEF Goto, IInv, HalfWritten, ArgOwnsData, CopyInTable
<1> QED BY <1>1, <1>2 DEF IInv

\* A step that programs the data of a slot, and leaves its address for later.
LEMMA DataKeeps ==
  ASSUME IInv, NEW point \in {"w_addr", "t_addr", "t_copyaddr", "i_copyaddr"}, Goto(point),
         NEW d \in Data, StoreData(d),
         point \in {"t_copyaddr", "i_copyaddr"} => idx \in 1..NumbOfVar /\ d \in ValuesOf[VirtAddVarTab[idx]],
         point \in {"w_addr", "t_addr"} => d = arg.data,
         point \in WritePoints \cup TransferPoints => pc \in WritePoints \cup TransferPoints
  PROVE  IInv'
<1>1. FlashOK /\ SlotsOwnData
  BY DEF IInv, TypeOK, FlashOK
<1>2. /\ FlashOK' /\ SlotsOwnData' /\ at' \in Page \X Slots
      /\ slot'[at'[1]][at'[2]].data = d
  BY <1>1, StoreDataKeeps
<1>3. UNCHANGED <<arg, new, idx>>
  BY DEF StoreData
<1>4. pc' = point /\ UNCHANGED <<ret, faults, initCrashes, acked>>
  BY DEF Goto
<1>5. TypeOK'
  <2>1. at' \in Page \X (0..NSlots) /\ point \in Points
    BY <1>2, BoundAssumption DEF Slots, Points, WritePoints, TransferPoints, InitPoints
  <2> QED BY <1>2, <1>3, <1>4, <2>1 DEF IInv, TypeOK, FlashOK
<1>6. ArgOwnsData' /\ CopyInTable'
  BY <1>3, <1>4 DEF IInv, ArgOwnsData, CopyInTable
<1>7. HalfWritten'
  <2>1. CASE point \in {"w_addr", "t_addr"}
    <3>1. arg.addr \in Addrs /\ d \in ValuesOf[arg.addr]
      BY <2>1 DEF IInv, ArgOwnsData, WritePoints, TransferPoints
    <3> QED BY <1>2, <1>3, <1>4, <2>1, <3>1 DEF HalfWritten, Owner
  <2>2. CASE point \in {"t_copyaddr", "i_copyaddr"}
    <3>1. VirtAddVarTab[idx] \in Addrs
      BY <2>2, TableFacts
    <3> QED BY <1>2, <1>3, <1>4, <2>2, <3>1 DEF HalfWritten, Owner
  <2> QED BY <2>1, <2>2
<1> QED BY <1>2, <1>5, <1>6, <1>7 DEF IInv

\* A step that programs the address of a slot.
LEMMA AddrKeeps ==
  ASSUME IInv, pc \in {"w_addr", "t_addr", "t_copyaddr", "i_copyaddr"}, StoreAddr(Owner)
  PROVE  FlashOK' /\ SlotsOwnData'
<1>1. FlashOK /\ SlotsOwnData
  BY DEF IInv, TypeOK, FlashOK
<1>2. Owner \in Addrs /\ at \in Page \X Slots /\ slot[at[1]][at[2]].data \in ValuesOf[Owner]
  BY DEF IInv, HalfWritten
<1> QED BY <1>1, <1>2, StoreAddrKeeps

-----------------------------------------------------------------------------
(* Every step keeps the invariant. *)

LEMMA WriteKeeps == IInv /\ WriteStep => IInv'
<1> SUFFICES ASSUME IInv, WriteStep PROVE IInv'
  OBVIOUS
<1> USE DEF WritePoints, TransferPoints, Points, Codes
<1>1. FlashOK /\ SlotsOwnData /\ TypeOK
  BY DEF IInv, TypeOK, FlashOK
<1>2. CASE WriteStore
  <2>1. arg.data \in Data /\ arg.addr \in Addrs
    BY <1>2 DEF WriteStore, IInv, TypeOK, ArgOwnsData
  <2> QED BY <1>2, <2>1, DataKeeps DEF WriteStore
<1>3. CASE WriteNoPage
  <2>1. FlashOK' /\ SlotsOwnData'
    BY <1>1, <1>3 DEF WriteNoPage, flash, FlashOK, SlotsOwnData
  <2> QED BY <1>1, <1>3, <2>1, ReturnKeeps DEF WriteNoPage
<1>4. CASE WriteAddr
  <2>1. Owner = arg.addr
    BY <1>4 DEF WriteAddr, Owner
  <2>2. FlashOK' /\ SlotsOwnData'
    BY <1>4, <2>1, AddrKeeps DEF WriteAddr
  <2> QED BY <1>1, <1>4, <2>2, ReturnKeeps DEF WriteAddr
<1>5. CASE WriteTransfer
  <2>1. FlashOK' /\ SlotsOwnData'
    BY <1>1, <1>5 DEF WriteTransfer, FlashOK, SlotsOwnData
  <2>2. new' \in Page
    BY <1>5, PageFacts DEF WriteTransfer
  <2>3. TypeOK'
    BY <1>1, <1>5, <2>1, <2>2 DEF WriteTransfer, TypeOK, FlashOK, Goto
  <2> QED BY <1>5, <2>1, <2>3 DEF WriteTransfer, Goto, IInv, HalfWritten, ArgOwnsData, CopyInTable
<1> QED BY <1>2, <1>3, <1>4, <1>5 DEF WriteStep

LEMMA TransferKeeps == IInv /\ TransferStep => IInv'
<1> SUFFICES ASSUME IInv, TransferStep PROVE IInv'
  OBVIOUS
<1> USE DEF WritePoints, TransferPoints, InitPoints, Points, Codes
<1>1. FlashOK /\ SlotsOwnData /\ TypeOK
  BY DEF IInv, TypeOK, FlashOK
<1>2. CASE TransferMark
  <2>1. FlashOK' /\ SlotsOwnData'
    BY <1>1, <1>2, HeaderKeeps DEF TransferMark, Status, TypeOK, Page
  <2>2. idx' \in 1..(NumbOfVar + 1)
    BY <1>1, <1>2 DEF TransferMark, locals, TypeOK
  <2> QED BY <1>2, <2>1, <2>2, GotoKeeps DEF TransferMark, locals
<1>3. CASE TransferRefused
  <2>1. FlashOK' /\ SlotsOwnData'
    BY <1>1, <1>3 DEF TransferRefused, flash, FlashOK, SlotsOwnData
  <2> QED BY <1>1, <1>3, <2>1, ReturnKeeps DEF TransferRefused
<1>4. CASE TransferStore
  <2>1. arg.data \in Data
    BY <1>1 DEF TypeOK
  <2> QED BY <1>4, <2>1, DataKeeps DEF TransferStore
<1>5. CASE TransferAddr
  <2>1. Owner = arg.addr
    BY <1>5 DEF TransferAddr, Owner
  <2>2. FlashOK' /\ SlotsOwnData' /\ idx' \in 1..(NumbOfVar + 1)
    BY <1>1, <1>5, <2>1, AddrKeeps DEF TransferAddr, locals, TypeOK
  <2> QED BY <1>5, <2>2, GotoKeeps DEF TransferAddr, locals
<1>6. CASE TransferSkip
  <2>1. idx' \in 1..(NumbOfVar + 1)
    BY <1>1, <1>6, TableFacts DEF TransferSkip, TypeOK
  <2>2. FlashOK' /\ SlotsOwnData'
    BY <1>1, <1>6 DEF TransferSkip, FlashOK, SlotsOwnData
  <2>3. TypeOK'
    BY <1>1, <1>6, <2>1, <2>2 DEF TransferSkip, TypeOK, FlashOK
  <2> QED BY <1>6, <2>2, <2>3 DEF TransferSkip, IInv, HalfWritten, ArgOwnsData, CopyInTable
<1>7. CASE TransferCopy
  <2>1. idx \in 1..NumbOfVar /\ VirtAddVarTab[idx] \in Addrs
    BY <1>1, <1>7, TableFacts DEF TransferCopy, TypeOK
  <2>2. WritePage # NoPage
    BY <1>7 DEF TransferCopy, StoreData
  <2>3. ReadPage \in Page /\ Holds(ReadPage, VirtAddVarTab[idx])
    BY <1>7, <2>2, PageFacts DEF TransferCopy, TransferWants, Page, NoPage
  <2>4. LastIn(ReadPage, VirtAddVarTab[idx]) \in ValuesOf[VirtAddVarTab[idx]]
    BY <1>1, <2>1, <2>3, LastInFacts DEF SlotsOwnData
  <2>5. LastIn(ReadPage, VirtAddVarTab[idx]) \in Data
    BY <2>1, <2>4, TableFacts
  <2> QED BY <1>7, <2>1, <2>4, <2>5, DataKeeps DEF TransferCopy
<1>8. CASE TransferCopyAddr
  <2>1. Owner = VirtAddVarTab[idx]
    BY <1>8 DEF TransferCopyAddr, Owner
  <2>2. FlashOK' /\ SlotsOwnData'
    BY <1>8, <2>1, AddrKeeps DEF TransferCopyAddr
  <2>3. idx' \in 1..(NumbOfVar + 1)
    BY <1>8, TableFacts DEF TransferCopyAddr, IInv, CopyInTable
  <2> QED BY <1>8, <2>2, <2>3, GotoKeeps DEF TransferCopyAddr, locals
<1>9. CASE TransferCopied
  <2>1. FlashOK' /\ SlotsOwnData' /\ idx' \in 1..(NumbOfVar + 1)
    BY <1>1, <1>9 DEF TransferCopied, FlashOK, SlotsOwnData, TypeOK
  <2> QED BY <1>9, <2>1, GotoKeeps DEF TransferCopied
<1>10. CASE TransferErase
  <2>1. FlashOK' /\ SlotsOwnData'
    BY <1>1, <1>10, PageFacts, EraseKeeps DEF TransferErase, TypeOK, Page
  <2>2. idx' \in 1..(NumbOfVar + 1)
    BY <1>1, <1>10 DEF TransferErase, locals, TypeOK
  <2> QED BY <1>10, <2>1, <2>2, GotoKeeps DEF TransferErase, locals
<1>11. CASE TransferValid
  <2>1. FlashOK' /\ SlotsOwnData'
    BY <1>1, <1>11, HeaderKeeps DEF TransferValid, Status, TypeOK, Page
  <2> QED BY <1>1, <1>11, <2>1, ReturnKeeps DEF TransferValid
<1> QED BY <1>2, <1>3, <1>4, <1>5, <1>6, <1>7, <1>8, <1>9, <1>10, <1>11 DEF TransferStep

LEMMA InitKeeps == IInv /\ InitStep => IInv'
<1> SUFFICES ASSUME IInv, InitStep PROVE IInv'
  OBVIOUS
<1> USE DEF WritePoints, TransferPoints, InitPoints, Points, Codes
<1>1. FlashOK /\ SlotsOwnData /\ TypeOK
  BY DEF IInv, TypeOK, FlashOK
<1>2. CASE EE_Init
  <2>1. PICK point \in {"i_blank", "i_copy", "f_erase0"}, p \in Page : InitAt(point, p)
    BY <1>2 DEF EE_Init, Page
  <2>2. FlashOK' /\ SlotsOwnData'
    BY <1>1, <2>1 DEF InitAt, FlashOK, SlotsOwnData
  <2>3. TypeOK'
    BY <1>1, <2>1, <2>2 DEF InitAt, TypeOK, FlashOK
  <2> QED BY <2>1, <2>2, <2>3 DEF InitAt, IInv, HalfWritten, ArgOwnsData, CopyInTable
<1>3. CASE InitBlank
  <2>1. FlashOK' /\ SlotsOwnData'
    BY <1>1, <1>3, PageFacts, EraseKeeps DEF InitBlank, TypeOK
  <2>2. CASE header[new] = "RECEIVE_DATA"
    <3>1. idx' \in 1..(NumbOfVar + 1)
      BY <1>1, <1>3, <2>2 DEF InitBlank, locals, TypeOK
    <3> QED BY <1>3, <2>1, <2>2, <3>1, GotoKeeps DEF InitBlank, locals
  <2>3. CASE header[new] # "RECEIVE_DATA"
    BY <1>1, <1>3, <2>1, <2>3, ReturnKeeps DEF InitBlank
  <2> QED BY <2>2, <2>3
<1>4. CASE InitPromote
  <2>1. FlashOK' /\ SlotsOwnData'
    BY <1>1, <1>4, HeaderKeeps DEF InitPromote, Status, TypeOK, Page
  <2> QED BY <1>1, <1>4, <2>1, ReturnKeeps DEF InitPromote
<1>5. CASE RecoverSkip
  <2>1. idx' \in 1..(NumbOfVar + 1)
    BY <1>1, <1>5, TableFacts DEF RecoverSkip, TypeOK
  <2>2. FlashOK' /\ SlotsOwnData'
    BY <1>1, <1>5 DEF RecoverSkip, FlashOK, SlotsOwnData
  <2>3. TypeOK'
    BY <1>1, <1>5, <2>1, <2>2 DEF RecoverSkip, TypeOK, FlashOK
  <2> QED BY <1>5, <2>2, <2>3 DEF RecoverSkip, IInv, HalfWritten, ArgOwnsData, CopyInTable
<1>6. CASE RecoverCopy
  <2>1. idx \in 1..NumbOfVar /\ VirtAddVarTab[idx] \in Addrs
    BY <1>1, <1>6, TableFacts DEF RecoverCopy, TypeOK
  <2>2. WritePage # NoPage
    BY <1>6 DEF RecoverCopy, StoreData
  <2>3. ReadPage \in Page /\ Holds(ReadPage, VirtAddVarTab[idx])
    BY <1>6, <2>2, PageFacts DEF RecoverCopy, RecoverWants, Page, NoPage
  <2>4. LastIn(ReadPage, VirtAddVarTab[idx]) \in ValuesOf[VirtAddVarTab[idx]]
    BY <1>1, <2>1, <2>3, LastInFacts DEF SlotsOwnData
  <2>5. LastIn(ReadPage, VirtAddVarTab[idx]) \in Data
    BY <2>1, <2>4, TableFacts
  <2> QED BY <1>6, <2>1, <2>4, <2>5, DataKeeps DEF RecoverCopy
<1>7. CASE RecoverCopyAddr
  <2>1. Owner = VirtAddVarTab[idx]
    BY <1>7 DEF RecoverCopyAddr, Owner
  <2>2. FlashOK' /\ SlotsOwnData'
    BY <1>7, <2>1, AddrKeeps DEF RecoverCopyAddr
  <2>3. idx' \in 1..(NumbOfVar + 1)
    BY <1>7, TableFacts DEF RecoverCopyAddr, IInv, CopyInTable
  <2> QED BY <1>7, <2>2, <2>3, GotoKeeps DEF RecoverCopyAddr, locals
<1>8. CASE RecoverFull
  <2>1. FlashOK' /\ SlotsOwnData'
    BY <1>1, <1>8 DEF RecoverFull, StoreFull, flash, FlashOK, SlotsOwnData
  <2> QED BY <1>1, <1>8, <2>1, ReturnKeeps DEF RecoverFull, StoreFull
<1>9. CASE RecoverCopied
  <2>1. FlashOK' /\ SlotsOwnData' /\ idx' \in 1..(NumbOfVar + 1)
    BY <1>1, <1>9 DEF RecoverCopied, FlashOK, SlotsOwnData, TypeOK
  <2> QED BY <1>9, <2>1, GotoKeeps DEF RecoverCopied
<1>10. CASE RecoverValid
  <2>1. FlashOK' /\ SlotsOwnData'
    BY <1>1, <1>10, HeaderKeeps DEF RecoverValid, Status, TypeOK, Page
  <2>2. idx' \in 1..(NumbOfVar + 1)
    BY <1>1, <1>10 DEF RecoverValid, locals, TypeOK
  <2> QED BY <1>10, <2>1, <2>2, GotoKeeps DEF RecoverValid, locals
<1>11. CASE RecoverErase
  <2>1. FlashOK' /\ SlotsOwnData'
    BY <1>1, <1>11, PageFacts, EraseKeeps DEF RecoverErase, TypeOK, Page
  <2> QED BY <1>1, <1>11, <2>1, ReturnKeeps DEF RecoverErase
<1>12. CASE FormatErase0
  <2>1. FlashOK' /\ SlotsOwnData'
    BY <1>1, <1>12, PageFacts, EraseKeeps DEF FormatErase0, TypeOK, Page
  <2>2. idx' \in 1..(NumbOfVar + 1)
    BY <1>1, <1>12 DEF FormatErase0, locals, TypeOK
  <2> QED BY <1>12, <2>1, <2>2, GotoKeeps DEF FormatErase0, locals
<1>13. CASE FormatValid
  <2>1. FlashOK' /\ SlotsOwnData'
    BY <1>1, <1>13, HeaderKeeps DEF FormatValid, Status, TypeOK, Page
  <2>2. idx' \in 1..(NumbOfVar + 1)
    BY <1>1, <1>13 DEF FormatValid, locals, TypeOK
  <2> QED BY <1>13, <2>1, <2>2, GotoKeeps DEF FormatValid, locals
<1>14. CASE FormatErase1
  <2>1. FlashOK' /\ SlotsOwnData'
    BY <1>1, <1>14, PageFacts, EraseKeeps DEF FormatErase1, TypeOK, Page
  <2> QED BY <1>1, <1>14, <2>1, ReturnKeeps DEF FormatErase1
<1> QED BY <1>2, <1>3, <1>4, <1>5, <1>6, <1>7, <1>8, <1>9, <1>10, <1>11, <1>12, <1>13, <1>14 DEF InitStep

LEMMA EnvironmentKeeps ==
  ASSUME IInv,
         \/ \E a \in Addrs : \E d \in ValuesOf[a] : WriteVariable(a, d)
         \/ PowerLoss
         \/ FlashFails
  PROVE  IInv'
<1> USE DEF WritePoints, TransferPoints, InitPoints, Points, Codes
<1>1. FlashOK /\ SlotsOwnData /\ TypeOK
  BY DEF IInv, TypeOK, FlashOK
<1>2. NoVar \in [addr : Addrs \cup {Blank}, data : Data] /\ 1 \in 1..(NumbOfVar + 1)
      /\ <<0, 0>> \in Page \X (0..NSlots) /\ 0 \in Page
  BY TableFacts, BoundAssumption DEF NoVar, Page
<1>3. ASSUME NEW a \in Addrs, NEW d \in ValuesOf[a], WriteVariable(a, d)
      PROVE  IInv'
  <2>1. FlashOK' /\ SlotsOwnData'
    BY <1>1, <1>3 DEF WriteVariable, FlashOK, SlotsOwnData
  <2>2. arg' \in [addr : Addrs \cup {Blank}, data : Data]
    BY <1>3, TableFacts DEF WriteVariable
  <2>3. TypeOK'
    BY <1>1, <1>3, <2>1, <2>2 DEF WriteVariable, TypeOK, FlashOK
  <2> QED BY <1>3, <2>1, <2>3 DEF WriteVariable, IInv, HalfWritten, ArgOwnsData, CopyInTable
<1>4. CASE PowerLoss
  <2>1. FlashOK' /\ SlotsOwnData'
    BY <1>1, <1>4 DEF PowerLoss, flash, FlashOK, SlotsOwnData
  <2>2. initCrashes' \in 0..MaxInitCrashes /\ faults' \in 0..MaxFaults
        /\ acked' \in [Addrs -> Data \cup {NotFound, Unknown}]
    BY <1>1, <1>4, BoundAssumption DEF PowerLoss, Fault, TypeOK
  <2>3. TypeOK'
    BY <1>1, <1>2, <1>4, <2>1, <2>2 DEF PowerLoss, NoLocals, TypeOK, FlashOK
  <2> QED BY <1>4, <2>1, <2>3 DEF PowerLoss, IInv, HalfWritten, ArgOwnsData, CopyInTable
<1>5. CASE FlashFails
  <2>1. FlashOK' /\ SlotsOwnData'
    BY <1>1, <1>5 DEF FlashFails, flash, FlashOK, SlotsOwnData
  <2>2. initCrashes' \in 0..MaxInitCrashes /\ faults' \in 0..MaxFaults
        /\ acked' \in [Addrs -> Data \cup {NotFound, Unknown}]
    BY <1>1, <1>5, BoundAssumption DEF FlashFails, Fault, TypeOK
  <2>3. TypeOK'
    BY <1>1, <1>2, <1>5, <2>1, <2>2 DEF FlashFails, NoLocals, TypeOK, FlashOK
  <2> QED BY <1>5, <2>1, <2>3 DEF FlashFails, IInv, HalfWritten, ArgOwnsData, CopyInTable
<1> QED BY <1>3, <1>4, <1>5

LEMMA InitInv == Init => IInv
<1> SUFFICES ASSUME Init PROVE IInv
  OBVIOUS
<1>1. NoVar \in [addr : Addrs \cup {Blank, Garbage}, data : Data]
      /\ NoVar \in [addr : Addrs \cup {Blank}, data : Data]
      /\ [addr |-> Garbage, data |-> Garbage] \in [addr : Addrs \cup {Blank, Garbage}, data : Data]
  BY TableFacts DEF NoVar
<1>2. FlashOK
  BY <1>1 DEF Init, FlashOK, Status, BlankSlots, GarbageSlots
<1>3. SlotsOwnData
  BY AddrAssumption DEF Init, SlotsOwnData, BlankSlots, GarbageSlots, NoVar
<1>4. TypeOK
  BY <1>1, <1>2, TableFacts, BoundAssumption DEF Init, TypeOK, FlashOK, Points, Page, Codes
<1> QED BY <1>3, <1>4 DEF Init, IInv, HalfWritten, ArgOwnsData, CopyInTable, WritePoints, TransferPoints

LEMMA NextInv == IInv /\ [Next]_vars => IInv'
<1> SUFFICES ASSUME IInv, [Next]_vars PROVE IInv'
  OBVIOUS
<1>1. CASE DriverStep
  BY <1>1, WriteKeeps, TransferKeeps, InitKeeps DEF DriverStep
<1>2. CASE UNCHANGED vars
  BY <1>2 DEF vars, IInv, TypeOK, SlotsOwnData, HalfWritten, Owner, ArgOwnsData, CopyInTable
<1> QED BY <1>1, <1>2, EnvironmentKeeps DEF Next

-----------------------------------------------------------------------------
(* The pages, as long as there is no fault: what each flash operation finds. *)

\* Page p is in service, and the other one is ready for a transfer.
InUse(p) == /\ header[p] = "VALID_PAGE" /\ header[Other(p)] = "ERASED"
            /\ slot[Other(p)] = BlankSlots

\* Page p receives from the other, and its slots beyond the n-th are free.
Receiving(p, n) == /\ header[p] = "RECEIVE_DATA" /\ header[Other(p)] = "VALID_PAGE"
                   /\ \A i \in Slots : i > n => Free(p, i)

\* Page p has received everything and the other one is gone.
Promotable(p) == /\ header[p] = "RECEIVE_DATA" /\ header[Other(p)] = "ERASED"
                 /\ slot[Other(p)] = BlankSlots

Raw == \A p \in Page : header[p] \in {"ERASED", "OTHER"}

\* EE_Format was cut short; Page1 counts as receiving from a page without variables.
HalfFormatted == /\ header[0] = "VALID_PAGE" /\ header[1] = "OTHER"
                 /\ slot[0] = BlankSlots

\* The slots filled when a recovery begins: a transfer's, and those of every recovery that
\* was cut short.
Budget == 1 + NumbOfVar * (1 + initCrashes)

OffOK == \/ Raw \/ HalfFormatted
         \/ \E p \in Page : NeedsBlank(p) \/ Receiving(p, Budget)

Phase ==
  /\ pc = "off" => OffOK
  /\ pc \in {"idle", "w_store", "w_addr"} => InService
  /\ pc = "w_addr" => header[at[1]] = "VALID_PAGE"
  /\ pc = "t_mark" => InUse(Other(new))
  /\ pc = "t_store" => Receiving(new, 0)
  /\ pc = "t_addr" => Receiving(new, 1) /\ at[1] = new /\ at[2] <= 1
  /\ pc = "t_copy" => Receiving(new, idx)
  /\ pc = "t_copyaddr" => Receiving(new, idx + 1) /\ at[1] = new /\ at[2] <= idx + 1
  /\ pc = "t_erase" => Receiving(new, NumbOfVar + 1)
  /\ pc \in {"t_valid", "i_promote"} => Promotable(new)
  /\ pc = "i_blank" => NeedsBlank(new)
  /\ pc = "i_copy" => (HalfFormatted /\ new = 1) \/ Receiving(new, Budget + idx - 1)
  /\ pc = "i_copyaddr" => Receiving(new, Budget + idx) /\ at[1] = new /\ at[2] <= Budget + idx
  /\ pc = "i_valid" => (HalfFormatted /\ new = 1) \/ Receiving(new, Budget + NumbOfVar)
  /\ pc = "i_erase" => \A p \in Page : header[p] = "VALID_PAGE"
  /\ pc = "f_erase0" => Raw
  /\ pc = "f_valid" => Raw /\ header[0] = "ERASED" /\ slot[0] = BlankSlots
  /\ pc = "f_erase1" => /\ header[0] = "VALID_PAGE" /\ header[1] \in {"ERASED", "OTHER"}
                        /\ slot[0] = BlankSlots

\* The loops begin with the first variable.
FromFirst ==
  pc \notin {"t_copy", "t_copyaddr", "t_erase", "t_valid", "i_copy", "i_copyaddr",
             "i_valid", "i_erase"} => idx = 1

PagesInv == faults = 0 => Phase /\ FromFirst

\* A page holds what a transfer and one more recovery than may be cut short copy.
RecoveryRoom == NSlots > NumbOfVar * (MaxInitCrashes + 2)

\* The two pages.
LEMMA TwoPages ==
  \A p \in Page : /\ Other(p) \in Page /\ Other(p) # p /\ Other(Other(p)) = p
                  /\ \A q \in Page : q = p \/ q = Other(p)
  BY DEF Page, Other

\* Where the data goes while a page is in service, and while one receives.
LEMMA InUsePages ==
  ASSUME NEW p \in Page, InUse(p)
  PROVE  WritePage = p /\ ReadPage = p
  BY DEF InUse, WritePage, ReadPage, Page, Other

LEMMA ReceivingPages ==
  ASSUME NEW p \in Page, NEW n, Receiving(p, n)
  PROVE  WritePage = p /\ ReadPage = Other(p)
  BY DEF Receiving, WritePage, ReadPage, Page, Other

\* The budget is a number, and grows by the table with every recovery cut short.
LEMMA BudgetFacts ==
  ASSUME TypeOK
  PROVE  /\ Budget \in Nat /\ Budget >= NumbOfVar + 1
         /\ 1 + NumbOfVar * (1 + (initCrashes + 1)) = Budget + NumbOfVar
         /\ RecoveryRoom => Budget + NumbOfVar <= NSlots
<1> DEFINE V == NumbOfVar
           c == initCrashes
           M == MaxInitCrashes
<1>1. V \in Nat /\ c \in Nat /\ M \in Nat /\ c <= M /\ NSlots \in Nat
  BY TableFacts, BoundAssumption DEF TypeOK
<1> HIDE DEF V, c, M
<1>2. V * c \in Nat /\ V * (1 + c) = V + V * c /\ V * (1 + (c + 1)) = V + V + V * c
  BY <1>1, Z3
<1>3. V * (M + 2) = V * c + V * (M - c) + V + V /\ V * (M - c) \in Nat
  BY <1>1, Z3
<1>4. NSlots > V * (M + 2) => V * c + V + V < NSlots
  BY <1>1, <1>2, <1>3
<1> QED
  BY <1>1, <1>2, <1>4 DEF Budget, RecoveryRoom, V, c, M

\* The data of a slot: at most one slot more is in use.
LEMMA StoreFills ==
  ASSUME TypeOK, NEW p \in Page, NEW n \in Nat, Receiving(p, n), NEW d, StoreData(d)
  PROVE  /\ UNCHANGED header /\ at' \in Page \X Slots /\ at'[1] = p /\ at'[2] <= n + 1
         /\ \A i \in Slots : i > n + 1 => slot'[p][i] = NoVar
         /\ UNCHANGED <<arg, new, idx>>
<1>1. PICK i \in Slots :
        /\ FirstFree(p, i) /\ slot' = [slot EXCEPT ![p][i].data = d] /\ at' = <<p, i>>
        /\ UNCHANGED <<header, arg, new, idx>>
  BY ReceivingPages DEF StoreData
<1>2. i <= n + 1
  <2> SUFFICES ASSUME i > n + 1 PROVE FALSE
    BY <1>1, BoundAssumption DEF Slots
  <2>1. n + 1 \in 1..(i - 1) /\ n + 1 \in Slots
    BY BoundAssumption DEF Slots
  <2> QED
    BY <1>1, <2>1 DEF FirstFree, Receiving
<1>3. \A j \in Slots : j # i => slot'[p][j] = slot[p][j]
  BY <1>1 DEF TypeOK
<1>4. \A j \in Slots : j > n + 1 => slot'[p][j] = NoVar
  BY <1>2, <1>3, BoundAssumption DEF Receiving, Free, Slots
<1> QED
  BY <1>1, <1>2, <1>4

\* Its address: no slot more is in use.
LEMMA AddrFills ==
  ASSUME TypeOK, NEW p \in Page, NEW n \in Nat, Receiving(p, n), NEW a, StoreAddr(a),
         at \in Page \X Slots, at[1] = p, at[2] <= n
  PROVE  UNCHANGED header /\ \A i \in Slots : i > n => slot'[p][i] = NoVar
<1>1. PICK i \in Slots : at[2] = i
  OBVIOUS
<1>2. slot' = [slot EXCEPT ![p][i].addr = a] /\ UNCHANGED header
  BY <1>1 DEF StoreAddr
<1>3. \A j \in Slots : j # i => slot'[p][j] = slot[p][j]
  BY <1>2 DEF TypeOK
<1> QED
  BY <1>1, <1>2, <1>3, BoundAssumption DEF Receiving, Free, Slots

\* A page in service has none of the other's slots touched.
LEMMA InUseKept ==
  ASSUME TypeOK, NEW p \in Page, InUse(p), NEW i \in Slots, NEW r,
         slot' = [slot EXCEPT ![p][i] = r], UNCHANGED header
  PROVE  InService'
<1>1. slot'[Other(p)] = slot[Other(p)]
  BY TwoPages DEF TypeOK
<1> QED
  BY <1>1 DEF InUse, InService

-----------------------------------------------------------------------------
(* Every step keeps what the pages are.                                     *)

\* The pages in service, the pages of a transfer and of a recovery never have
\* fewer free slots than a larger bound allows.
LEMMA ReceivingWeaker ==
  ASSUME NEW p \in Page, NEW m \in Int, NEW n \in Int, m <= n, Receiving(p, m)
  PROVE  Receiving(p, n)
  BY BoundAssumption DEF Receiving, Slots

\* A call that ends with a page in service.
LEMMA EndsInService ==
  ASSUME NEW code \in Codes, Return(code), InService'
  PROVE  PagesInv'
<1>1. pc' = "idle" /\ idx' = 1
  BY DEF Return, NoLocals
<1> QED
  BY <1>1 DEF PagesInv, Phase, FromFirst

LEMMA WriteKeepsPages ==
  ASSUME IInv, PagesInv, RecoveryRoom, WriteStep, faults = 0
  PROVE  PagesInv' /\ (pc' = "idle" => ret' = "FLASH_COMPLETE")
<1>1. TypeOK
  BY DEF IInv
<1>2. pc \in {"w_store", "w_addr"} /\ idx = 1
  BY DEF WriteStep, WriteStore, WriteNoPage, WriteAddr, WriteTransfer, PagesInv, FromFirst
<1>3. PICK p \in Page : InUse(p)
  BY <1>2 DEF PagesInv, Phase, InService, InUse
<1>4. WritePage = p /\ ReadPage = p /\ WritePage # NoPage
  BY <1>3, InUsePages DEF Page, NoPage
<1>5. CASE WriteStore
  <2>1. PICK i \in Slots : /\ slot' = [slot EXCEPT ![p][i].data = arg.data] /\ at' = <<p, i>>
                           /\ UNCHANGED <<header, arg, new, idx>>
    BY <1>4, <1>5 DEF WriteStore, StoreData
  <2>2. slot'[Other(p)] = slot[Other(p)]
    BY <1>1, <2>1, TwoPages DEF TypeOK
  <2>3. InService'
    BY <1>3, <2>1, <2>2 DEF InUse, InService
  <2>4. pc' = "w_addr" /\ header'[at'[1]] = "VALID_PAGE" /\ idx' = 1
    BY <1>2, <1>3, <1>5, <2>1 DEF WriteStore, Goto, InUse
  <2> QED
    BY <2>3, <2>4 DEF PagesInv, Phase, FromFirst
<1>6. CASE WriteNoPage
  BY <1>4, <1>6 DEF WriteNoPage
<1>7. CASE WriteAddr
  <2>1. at \in Page \X Slots /\ header[at[1]] = "VALID_PAGE"
    BY <1>7 DEF WriteAddr, IInv, HalfWritten, PagesInv, Phase
  <2>2. at[1] = p
    BY <1>3, <2>1, TwoPages DEF InUse
  <2>3. slot'[Other(p)] = slot[Other(p)] /\ UNCHANGED header
    BY <1>1, <1>7, <2>1, <2>2, TwoPages DEF WriteAddr, StoreAddr, TypeOK
  <2>4. InService'
    BY <1>3, <2>3 DEF InUse, InService
  <2>5. ret' = "FLASH_COMPLETE"
    BY <1>7 DEF WriteAddr, Return
  <2> QED
    BY <1>7, <2>4, <2>5, EndsInService DEF WriteAddr, Codes
<1>8. CASE WriteTransfer
  <2>1. pc' = "t_mark" /\ new' = Other(p) /\ UNCHANGED <<header, slot, idx>>
    BY <1>4, <1>8 DEF WriteTransfer, Goto
  <2>2. Other(new') = p
    BY <2>1, TwoPages
  <2>3. InUse(Other(new))'
    BY <1>3, <2>1, <2>2 DEF InUse
  <2> QED
    BY <1>2, <2>1, <2>3 DEF PagesInv, Phase, FromFirst
<1> QED
  BY <1>5, <1>6, <1>7, <1>8 DEF WriteStep

LEMMA TransferKeepsPages ==
  ASSUME IInv, PagesInv, RecoveryRoom, TransferStep, faults = 0
  PROVE  PagesInv' /\ (pc' = "idle" => ret' = "FLASH_COMPLETE")
<1>1. TypeOK /\ new \in Page /\ Other(new) \in Page /\ NumbOfVar \in Nat /\ idx \in 1..(NumbOfVar + 1)
  BY TwoPages, TableFacts DEF IInv, TypeOK
<1>2. Phase /\ FromFirst
  BY DEF PagesInv
<1>3. CASE TransferMark
  <2>1. InUse(Other(new))
    BY <1>2, <1>3 DEF TransferMark, Phase
  <2>2. /\ header' = [header EXCEPT ![new] = "RECEIVE_DATA"] /\ pc' = "t_store"
        /\ UNCHANGED <<slot, new, idx, faults>>
    BY <1>3 DEF TransferMark, ProgramHeader, Goto, locals
  <2>3. header'[new] = "RECEIVE_DATA" /\ header'[Other(new)] = "VALID_PAGE"
    BY <1>1, <2>1, <2>2, TwoPages DEF InUse, TypeOK
  <2>4. \A i \in Slots : slot'[new][i] = NoVar
    BY <1>1, <2>1, <2>2, TwoPages DEF InUse, BlankSlots
  <2>5. Receiving(new, 0)'
    BY <2>2, <2>3, <2>4 DEF Receiving, Free
  <2>6. idx = 1
    BY <1>2, <1>3 DEF TransferMark, FromFirst
  <2> QED
    BY <2>2, <2>5, <2>6 DEF PagesInv, Phase, FromFirst
<1>4. CASE TransferRefused
  <2>1. InUse(Other(new))
    BY <1>2, <1>4 DEF TransferRefused, Phase
  <2> QED
    BY <1>1, <1>4, <2>1, TwoPages DEF TransferRefused, CanProgram, InUse
<1>5. CASE TransferStore
  <2>1. Receiving(new, 0) /\ idx = 1
    BY <1>2, <1>5 DEF TransferStore, Phase, FromFirst
  <2>2. StoreData(arg.data) /\ pc' = "t_addr"
    BY <1>5 DEF TransferStore, Goto
  <2>3. /\ UNCHANGED header /\ at'[1] = new /\ at'[2] <= 0 + 1
        /\ \A i \in Slots : i > 0 + 1 => slot'[new][i] = NoVar
        /\ UNCHANGED <<new, idx>>
    BY <1>1, <2>1, <2>2, StoreFills
  <2>4. Receiving(new, 1)'
    BY <2>1, <2>3 DEF Receiving, Free
  <2> QED
    BY <2>1, <2>2, <2>3, <2>4 DEF PagesInv, Phase, FromFirst
<1>6. CASE TransferAddr
  <2>1. Receiving(new, 1) /\ idx = 1 /\ at[1] = new /\ at[2] <= 1
    BY <1>2, <1>6 DEF TransferAddr, Phase, FromFirst
  <2>2. at \in Page \X Slots
    BY <1>6 DEF TransferAddr, IInv, HalfWritten
  <2>3. StoreAddr(arg.addr) /\ pc' = "t_copy" /\ UNCHANGED <<new, idx>>
    BY <1>6 DEF TransferAddr, Goto, locals
  <2>4. UNCHANGED header /\ \A i \in Slots : i > 1 => slot'[new][i] = NoVar
    BY <1>1, <2>1, <2>2, <2>3, AddrFills
  <2>5. Receiving(new, idx)'
    BY <2>1, <2>3, <2>4 DEF Receiving, Free
  <2> QED
    BY <2>3, <2>5 DEF PagesInv, Phase, FromFirst
<1>7. CASE TransferSkip
  <2>1. Receiving(new, idx) /\ pc' = "t_copy" /\ idx' = idx + 1 /\ UNCHANGED <<header, slot, new>>
    BY <1>2, <1>7 DEF TransferSkip, Phase
  <2>2. Receiving(new, idx + 1)
    BY <1>1, <2>1, ReceivingWeaker
  <2>3. Receiving(new, idx)'
    BY <2>1, <2>2 DEF Receiving, Free
  <2> QED
    BY <2>1, <2>3 DEF PagesInv, Phase, FromFirst
<1>8. CASE TransferCopy
  <2>1. Receiving(new, idx) /\ pc' = "t_copyaddr"
    BY <1>2, <1>8 DEF TransferCopy, Phase, Goto
  <2>2. PICK d : StoreData(d)
    BY <1>8 DEF TransferCopy
  <2>3. /\ UNCHANGED header /\ at'[1] = new /\ at'[2] <= idx + 1
        /\ \A i \in Slots : i > idx + 1 => slot'[new][i] = NoVar
        /\ UNCHANGED <<new, idx>>
    BY <1>1, <2>1, <2>2, StoreFills
  <2>4. Receiving(new, idx + 1)'
    BY <2>1, <2>3 DEF Receiving, Free
  <2> QED
    BY <2>1, <2>3, <2>4 DEF PagesInv, Phase, FromFirst
<1>9. CASE TransferCopyAddr
  <2>1. Receiving(new, idx + 1) /\ at[1] = new /\ at[2] <= idx + 1
    BY <1>2, <1>9 DEF TransferCopyAddr, Phase
  <2>2. at \in Page \X Slots
    BY <1>9 DEF TransferCopyAddr, IInv, HalfWritten
  <2>3. pc' = "t_copy" /\ idx' = idx + 1 /\ UNCHANGED new
    BY <1>9 DEF TransferCopyAddr, Goto
  <2>4. UNCHANGED header /\ \A i \in Slots : i > idx + 1 => slot'[new][i] = NoVar
    BY <1>1, <1>9, <2>1, <2>2, AddrFills DEF TransferCopyAddr
  <2>5. Receiving(new, idx)'
    BY <2>1, <2>3, <2>4 DEF Receiving, Free
  <2> QED
    BY <2>3, <2>5 DEF PagesInv, Phase, FromFirst
<1>10. CASE TransferCopied
  <2>1. Receiving(new, idx) /\ idx = NumbOfVar + 1
    BY <1>1, <1>2, <1>10 DEF TransferCopied, Phase
  <2>2. pc' = "t_erase" /\ UNCHANGED <<header, slot, new, idx>>
    BY <1>10 DEF TransferCopied, Goto
  <2>3. Receiving(new, NumbOfVar + 1)'
    BY <2>1, <2>2 DEF Receiving, Free
  <2> QED
    BY <2>2, <2>3 DEF PagesInv, Phase, FromFirst
<1>11. CASE TransferErase
  <2>1. header[new] = "RECEIVE_DATA"
    BY <1>2, <1>11 DEF TransferErase, Phase, Receiving
  <2>2. ErasePage(Other(new)) /\ pc' = "t_valid" /\ UNCHANGED <<new, idx>>
    BY <1>11 DEF TransferErase, Goto, locals
  <2>3. header'[new] = "RECEIVE_DATA" /\ header'[Other(new)] = "ERASED" /\ slot'[Other(new)] = BlankSlots
    BY <1>1, <2>1, <2>2, TwoPages DEF ErasePage, TypeOK
  <2>4. Promotable(new)'
    BY <2>2, <2>3 DEF Promotable
  <2> QED
    BY <2>2, <2>4 DEF PagesInv, Phase, FromFirst
<1>12. CASE TransferValid
  <2>1. Promotable(new)
    BY <1>2, <1>12 DEF TransferValid, Phase
  <2>2. /\ header'[new] = "VALID_PAGE" /\ header'[Other(new)] = "ERASED"
        /\ slot'[Other(new)] = BlankSlots
    BY <1>1, <1>12, <2>1, TwoPages DEF TransferValid, ProgramHeader, Promotable, TypeOK
  <2>3. InService'
    BY <1>1, <2>2 DEF InService
  <2>4. ret' = "FLASH_COMPLETE"
    BY <1>12 DEF TransferValid, Return
  <2> QED
    BY <1>12, <2>3, <2>4, EndsInService DEF TransferValid, Codes
<1> QED
  BY <1>3, <1>4, <1>5, <1>6, <1>7, <1>8, <1>9, <1>10, <1>11, <1>12 DEF TransferStep

\* Power-up: each of the three ways EE_Init starts finds the pages it expects.
LEMMA StartKeepsPages ==
  ASSUME IInv, PagesInv, EE_Init, faults = 0
  PROVE  PagesInv'
<1>1. TypeOK /\ pc = "off"
  BY DEF IInv, EE_Init, InitAt
<1>2. OffOK /\ idx = 1
  BY <1>1 DEF PagesInv, Phase, FromFirst
<1>3. 0 \in Page /\ 1 \in Page /\ Other(0) = 1 /\ Other(1) = 0
  BY DEF Page, Other
<1>4. ASSUME NEW p \in Page, NeedsBlank(p), InitAt("i_blank", p)
      PROVE  PagesInv'
  <2>1. pc' = "i_blank" /\ new' = p /\ UNCHANGED <<header, slot, idx>>
    BY <1>4 DEF InitAt
  <2>2. NeedsBlank(new)'
    BY <1>4, <2>1 DEF NeedsBlank
  <2> QED
    BY <1>2, <2>1, <2>2 DEF PagesInv, Phase, FromFirst
<1>5. ASSUME NEW p \in Page, NeedsRecovery(p), InitAt("i_copy", p)
      PROVE  PagesInv'
  <2>1. pc' = "i_copy" /\ new' = p /\ UNCHANGED <<header, slot, idx, initCrashes>>
    BY <1>5 DEF InitAt
  <2>2. header[Other(p)] = "VALID_PAGE" /\ header[p] \in {"RECEIVE_DATA", "OTHER"}
    BY <1>5 DEF NeedsRecovery
  <2>3. \A q \in Page : ~NeedsBlank(q)
    BY <2>2, TwoPages DEF NeedsBlank
  <2>4. ~Raw
    BY <2>2, TwoPages DEF Raw
  <2>5. CASE HalfFormatted
    <3>1. p = 1
      BY <1>3, <2>2, <2>5, TwoPages DEF HalfFormatted, Page
    <3>2. HalfFormatted' /\ new' = 1
      BY <2>1, <2>5, <3>1 DEF HalfFormatted
    <3> QED
      BY <1>2, <2>1, <3>2 DEF PagesInv, Phase, FromFirst
  <2>6. ASSUME NEW q \in Page, Receiving(q, Budget)
        PROVE  PagesInv'
    <3>1. q = p
      BY <2>2, <2>6, TwoPages DEF Receiving
    <3>2. Receiving(new, Budget)'
      BY <2>1, <2>6, <3>1 DEF Receiving, Free, Budget
    <3>3. Budget' \in Int /\ Budget' + idx' - 1 = Budget'
      BY <1>1, <1>2, <2>1, BudgetFacts DEF Budget
    <3>4. Receiving(new, Budget + idx - 1)'
      BY <3>2, <3>3 DEF Receiving, Free
    <3> QED
      BY <1>2, <2>1, <3>4 DEF PagesInv, Phase, FromFirst
  <2> QED
    BY <1>2, <2>3, <2>4, <2>5, <2>6 DEF OffOK
<1>6. ASSUME NeedsFormat, InitAt("f_erase0", 0)
      PROVE  PagesInv'
  <2>1. pc' = "f_erase0" /\ UNCHANGED <<header, slot, idx>>
    BY <1>6 DEF InitAt
  <2>2. ~HalfFormatted
    BY <1>3, <1>6 DEF NeedsFormat, NeedsRecovery, HalfFormatted
  <2>3. \A p \in Page : ~NeedsBlank(p) /\ ~Receiving(p, Budget)
    BY <1>6 DEF NeedsFormat, NeedsRecovery, Receiving
  <2>4. Raw
    BY <1>2, <2>2, <2>3 DEF OffOK
  <2>5. Raw'
    BY <2>1, <2>4 DEF Raw
  <2> QED
    BY <1>2, <2>1, <2>5 DEF PagesInv, Phase, FromFirst
<1> QED
  BY <1>4, <1>5, <1>6 DEF EE_Init

\* The copying of EE_Init never runs out of room.
LEMMA RecoverKeepsPages ==
  ASSUME IInv, PagesInv, RecoveryRoom, faults = 0,
         RecoverSkip \/ RecoverCopy \/ RecoverCopyAddr \/ RecoverFull \/ RecoverCopied
  PROVE  PagesInv' /\ pc' # "idle"
<1> DEFINE B == Budget
<1>1. TypeOK /\ new \in Page /\ NumbOfVar \in Nat /\ idx \in 1..(NumbOfVar + 1)
  BY TableFacts DEF IInv, TypeOK
<1>2. Phase /\ FromFirst
  BY DEF PagesInv
<1>3. B \in Nat /\ B + NumbOfVar <= NSlots
  BY <1>1, BudgetFacts
<1>4. HalfFormatted /\ idx <= NumbOfVar => ~RecoverWants(idx)
  <2> SUFFICES ASSUME HalfFormatted, idx <= NumbOfVar PROVE ~RecoverWants(idx)
    OBVIOUS
  <2>1. ReadPage = 0
    BY DEF HalfFormatted, ReadPage
  <2>2. idx \in 1..NumbOfVar
    BY <1>1
  <2>3. VirtAddVarTab[idx] # Blank
    BY <2>2, TableFacts, AddrAssumption
  <2>4. ~Holds(0, VirtAddVarTab[idx])
    BY <2>3 DEF HalfFormatted, Holds, Newest, BlankSlots, NoVar
  <2> QED
    BY <2>1, <2>4 DEF RecoverWants
<1>5. CASE RecoverSkip
  <2>1. pc' = "i_copy" /\ idx' = idx + 1 /\ UNCHANGED <<header, slot, new, initCrashes>>
    BY <1>5 DEF RecoverSkip
  <2>2. CASE HalfFormatted /\ new = 1
    <3>1. HalfFormatted' /\ new' = 1
      BY <2>1, <2>2 DEF HalfFormatted
    <3> QED
      BY <2>1, <3>1 DEF PagesInv, Phase, FromFirst
  <2>3. CASE Receiving(new, B + idx - 1)
    <3>1. Receiving(new, B + idx)
      <4>1. B + idx - 1 \in Int /\ B + idx \in Int /\ B + idx - 1 <= B + idx
        BY <1>1, <1>3
      <4> HIDE DEF B
      <4> QED BY <1>1, <2>3, <4>1, ReceivingWeaker
    <3>2. (Budget + idx - 1)' = B + idx
      BY <1>1, <1>3, <2>1 DEF Budget
    <3>3. Receiving(new, Budget + idx - 1)'
      BY <2>1, <3>1, <3>2 DEF Receiving, Free
    <3> QED
      BY <2>1, <3>3 DEF PagesInv, Phase, FromFirst
  <2> QED
    BY <1>2, <1>5, <2>2, <2>3 DEF RecoverSkip, Phase
<1>6. CASE RecoverCopy
  <2>1. Receiving(new, B + idx - 1) /\ pc' = "i_copyaddr" /\ UNCHANGED initCrashes
    BY <1>2, <1>4, <1>6 DEF RecoverCopy, Phase, Goto
  <2>2. PICK d : StoreData(d)
    BY <1>6 DEF RecoverCopy
  <2>3. B + idx - 1 \in Nat /\ (B + idx - 1) + 1 = B + idx
    BY <1>1, <1>3
  <2>4. /\ UNCHANGED header /\ at'[1] = new /\ at'[2] <= B + idx
        /\ \A i \in Slots : i > B + idx => slot'[new][i] = NoVar
        /\ UNCHANGED <<new, idx>>
    <3> HIDE DEF B
    <3> QED BY <1>1, <2>1, <2>2, <2>3, StoreFills
  <2>5. (Budget + idx)' = B + idx
    BY <2>1, <2>4 DEF Budget
  <2>6. Receiving(new, Budget + idx)' /\ (at[2] <= Budget + idx)'
    BY <2>1, <2>4, <2>5 DEF Receiving, Free
  <2> QED
    BY <2>1, <2>4, <2>6 DEF PagesInv, Phase, FromFirst
<1>7. CASE RecoverCopyAddr
  <2>1. Receiving(new, B + idx) /\ at[1] = new /\ at[2] <= B + idx
    BY <1>2, <1>7 DEF RecoverCopyAddr, Phase
  <2>2. at \in Page \X Slots
    BY <1>7 DEF RecoverCopyAddr, IInv, HalfWritten
  <2>3. pc' = "i_copy" /\ idx' = idx + 1 /\ UNCHANGED <<new, initCrashes>>
    BY <1>7 DEF RecoverCopyAddr, Goto
  <2>4. UNCHANGED header /\ \A i \in Slots : i > B + idx => slot'[new][i] = NoVar
    <3>1. B + idx \in Nat
      BY <1>1, <1>3
    <3> HIDE DEF B
    <3> QED BY <1>1, <1>7, <2>1, <2>2, <3>1, AddrFills DEF RecoverCopyAddr
  <2>5. (Budget + idx - 1)' = B + idx
    BY <1>1, <1>3, <2>3 DEF Budget
  <2>6. Receiving(new, Budget + idx - 1)'
    BY <2>1, <2>3, <2>4, <2>5 DEF Receiving, Free
  <2> QED
    BY <2>3, <2>6 DEF PagesInv, Phase, FromFirst
<1>8. CASE RecoverFull
  <2>1. Receiving(new, B + idx - 1) /\ idx <= NumbOfVar
    BY <1>2, <1>4, <1>8 DEF RecoverFull, Phase
  <2>2. NSlots \in Slots /\ NSlots > B + idx - 1
    BY <1>1, <1>3, <2>1, BoundAssumption DEF Slots
  <2>3. Free(new, NSlots)
    BY <2>1, <2>2 DEF Receiving
  <2>4. WritePage = new
    BY <1>1, <2>1, ReceivingPages
  <2> QED
    BY <1>8, <2>2, <2>3, <2>4 DEF RecoverFull, StoreFull, PageFull
<1>9. CASE RecoverCopied
  <2>1. pc' = "i_valid" /\ idx = NumbOfVar + 1 /\ UNCHANGED <<header, slot, new, initCrashes>>
    BY <1>1, <1>9 DEF RecoverCopied, Goto
  <2>2. CASE HalfFormatted /\ new = 1
    <3>1. HalfFormatted' /\ new' = 1
      BY <2>1, <2>2 DEF HalfFormatted
    <3> QED
      BY <2>1, <3>1 DEF PagesInv, Phase, FromFirst
  <2>3. CASE Receiving(new, B + idx - 1)
    <3>1. (Budget + NumbOfVar)' = B + idx - 1
      BY <1>1, <1>3, <2>1 DEF Budget, NumbOfVar
    <3>2. Receiving(new, Budget + NumbOfVar)'
      BY <2>1, <2>3, <3>1 DEF Receiving, Free
    <3> QED
      BY <2>1, <3>2 DEF PagesInv, Phase, FromFirst
  <2> QED
    BY <1>2, <1>9, <2>2, <2>3 DEF RecoverCopied, Phase
<1> QED
  BY <1>5, <1>6, <1>7, <1>8, <1>9

\* The steps of EE_Init that erase a page or promote one, and those of EE_Format.
LEMMA FinishKeepsPages ==
  ASSUME IInv, PagesInv, faults = 0,
         \/ InitBlank \/ InitPromote \/ RecoverValid \/ RecoverErase
         \/ FormatErase0 \/ FormatValid \/ FormatErase1
  PROVE  PagesInv' /\ (pc' = "idle" => ret' = "FLASH_COMPLETE")
<1>1. TypeOK /\ new \in Page /\ Other(new) \in Page
  BY TwoPages DEF IInv, TypeOK
<1>2. Phase /\ FromFirst
  BY DEF PagesInv
<1>3. 0 \in Page /\ 1 \in Page /\ Other(0) = 1 /\ Other(1) = 0 /\ \A p \in Page : p = 0 \/ p = 1
  BY DEF Page, Other
<1>4. CASE InitBlank
  <2>1. NeedsBlank(new) /\ idx = 1
    BY <1>2, <1>4 DEF InitBlank, Phase, FromFirst
  <2>2. /\ header'[new] = header[new] /\ header'[Other(new)] = "ERASED"
        /\ slot'[Other(new)] = BlankSlots
    BY <1>1, <1>4, TwoPages DEF InitBlank, ErasePage, TypeOK
  <2>3. CASE header[new] = "RECEIVE_DATA"
    <3>1. pc' = "i_promote" /\ UNCHANGED <<new, idx>>
      BY <1>4, <2>3 DEF InitBlank, Goto, locals
    <3>2. Promotable(new)'
      BY <2>2, <2>3, <3>1 DEF Promotable
    <3> QED
      BY <2>1, <3>1, <3>2 DEF PagesInv, Phase, FromFirst
  <2>4. CASE header[new] # "RECEIVE_DATA"
    <3>1. InService'
      BY <1>1, <2>1, <2>2, <2>4 DEF NeedsBlank, InService
    <3>2. Return("FLASH_COMPLETE")
      BY <1>4, <2>4 DEF InitBlank
    <3>3. ret' = "FLASH_COMPLETE"
      BY <3>2 DEF Return
    <3> QED
      BY <3>1, <3>2, <3>3, EndsInService DEF Codes
  <2> QED
    BY <2>3, <2>4
<1>5. CASE InitPromote
  <2>1. Promotable(new)
    BY <1>2, <1>5 DEF InitPromote, Phase
  <2>2. /\ header'[new] = "VALID_PAGE" /\ header'[Other(new)] = "ERASED"
        /\ slot'[Other(new)] = BlankSlots
    BY <1>1, <1>5, <2>1, TwoPages DEF InitPromote, ProgramHeader, Promotable, TypeOK
  <2>3. InService'
    BY <1>1, <2>2 DEF InService
  <2>4. ret' = "FLASH_COMPLETE"
    BY <1>5 DEF InitPromote, Return
  <2> QED
    BY <1>5, <2>3, <2>4, EndsInService DEF InitPromote, Codes
<1>6. CASE RecoverValid
  <2>1. header[Other(new)] = "VALID_PAGE"
    BY <1>2, <1>3, <1>6 DEF RecoverValid, Phase, HalfFormatted, Receiving
  <2>2. header' = [header EXCEPT ![new] = "VALID_PAGE"] /\ pc' = "i_erase"
    BY <1>6 DEF RecoverValid, ProgramHeader, Goto
  <2>3. \A p \in Page : header'[p] = "VALID_PAGE"
    BY <1>1, <2>1, <2>2, TwoPages DEF TypeOK
  <2> QED
    BY <2>2, <2>3 DEF PagesInv, Phase, FromFirst
<1>7. CASE RecoverErase
  <2>1. header[new] = "VALID_PAGE"
    BY <1>1, <1>2, <1>7 DEF RecoverErase, Phase
  <2>2. /\ header'[new] = "VALID_PAGE" /\ header'[Other(new)] = "ERASED"
        /\ slot'[Other(new)] = BlankSlots
    BY <1>1, <1>7, <2>1, TwoPages DEF RecoverErase, ErasePage, TypeOK
  <2>3. InService'
    BY <1>1, <2>2 DEF InService
  <2>4. ret' = "FLASH_COMPLETE"
    BY <1>7 DEF RecoverErase, Return
  <2> QED
    BY <1>7, <2>3, <2>4, EndsInService DEF RecoverErase, Codes
<1>8. CASE FormatErase0
  <2>1. Raw /\ idx = 1
    BY <1>2, <1>8 DEF FormatErase0, Phase, FromFirst
  <2>2. header' = [header EXCEPT ![0] = "ERASED"] /\ slot' = [slot EXCEPT ![0] = BlankSlots]
        /\ pc' = "f_valid" /\ UNCHANGED idx
    BY <1>8 DEF FormatErase0, ErasePage, Goto, locals
  <2>3. header'[0] = "ERASED" /\ slot'[0] = BlankSlots /\ header'[1] = header[1]
    BY <1>1, <1>3, <2>2 DEF TypeOK
  <2>4. Raw'
    BY <1>3, <2>1, <2>3 DEF Raw
  <2> QED
    BY <2>1, <2>2, <2>3, <2>4 DEF PagesInv, Phase, FromFirst
<1>9. CASE FormatValid
  <2>1. Raw /\ slot[0] = BlankSlots /\ idx = 1
    BY <1>2, <1>9 DEF FormatValid, Phase, FromFirst
  <2>2. header' = [header EXCEPT ![0] = "VALID_PAGE"] /\ pc' = "f_erase1" /\ UNCHANGED <<slot, idx>>
    BY <1>9 DEF FormatValid, ProgramHeader, Goto, locals
  <2>3. header'[0] = "VALID_PAGE" /\ header'[1] \in {"ERASED", "OTHER"}
    BY <1>1, <1>3, <2>1, <2>2 DEF TypeOK, Raw
  <2> QED
    BY <2>1, <2>2, <2>3 DEF PagesInv, Phase, FromFirst
<1>10. CASE FormatErase1
  <2>1. header[0] = "VALID_PAGE"
    BY <1>2, <1>10 DEF FormatErase1, Phase
  <2>2. header'[0] = "VALID_PAGE" /\ header'[1] = "ERASED" /\ slot'[1] = BlankSlots
    BY <1>1, <1>3, <1>10, <2>1 DEF FormatErase1, ErasePage, TypeOK
  <2>3. InService'
    BY <1>3, <2>2 DEF InService
  <2>4. ret' = "FLASH_COMPLETE"
    BY <1>10 DEF FormatErase1, Return
  <2> QED
    BY <1>10, <2>3, <2>4, EndsInService DEF FormatErase1, Codes
<1> QED
  BY <1>4, <1>5, <1>6, <1>7, <1>8, <1>9, <1>10

\* A call only finds a page in service, and a power loss leaves pages that EE_Init
\* tells apart.
LEMMA CallKeepsPages ==
  ASSUME PagesInv, NEW a \in Addrs, NEW d \in ValuesOf[a], WriteVariable(a, d)
  PROVE  PagesInv'
<1>1. pc = "idle" /\ pc' = "w_store" /\ UNCHANGED <<header, slot, idx, faults>>
  BY DEF WriteVariable
<1>2. InService => InService'
  BY <1>1 DEF InService
<1> QED
  BY <1>1, <1>2 DEF PagesInv, Phase, FromFirst

LEMMA PowerLossKeepsPages ==
  ASSUME IInv, PagesInv, RecoveryRoom, PowerLoss, faults' = 0
  PROVE  PagesInv'
<1> DEFINE B == Budget
<1>1. TypeOK /\ new \in Page /\ NumbOfVar \in Nat /\ idx \in 1..(NumbOfVar + 1)
  BY TableFacts DEF IInv, TypeOK
<1>2. faults = 0 /\ pc # "off" /\ pc # "i_erase"
  BY <1>1 DEF PowerLoss, Fault, TypeOK
<1>3. pc' = "off" /\ idx' = 1 /\ UNCHANGED <<header, slot>>
  BY DEF PowerLoss, NoLocals, flash
<1>4. Phase
  BY <1>2 DEF PagesInv
<1>5. B \in Nat /\ B >= NumbOfVar + 1
  BY <1>1, BudgetFacts
<1>6. Budget' = IF pc \in InitPoints THEN B + NumbOfVar ELSE B
  <2>1. pc \in InitPoints => initCrashes' = initCrashes + 1
    BY <1>2 DEF PowerLoss
  <2>2. pc \notin InitPoints => initCrashes' = initCrashes
    BY <1>2 DEF PowerLoss
  <2>3. CASE pc \in InitPoints
    <3>1. 1 + NumbOfVar * (1 + (initCrashes + 1)) = B + NumbOfVar
      BY <1>1, BudgetFacts
    <3>2. Budget' = 1 + NumbOfVar * (1 + (initCrashes + 1))
      BY <2>1, <2>3 DEF Budget, NumbOfVar
    <3> QED
      BY <2>3, <3>1, <3>2
  <2>4. CASE pc \notin InitPoints
    BY <2>2, <2>4 DEF Budget, NumbOfVar
  <2> QED
    BY <2>3, <2>4
<1>7. ASSUME NEW p \in Page, NeedsBlank(p)
      PROVE  OffOK'
  BY <1>3, <1>7 DEF OffOK, NeedsBlank
<1>8. ASSUME NEW n \in Int, n <= Budget', Receiving(new, n)
      PROVE  OffOK'
  <2>1. Budget' \in Int
    BY <1>1, <1>5, <1>6
  <2>2. \A i \in Slots : i > Budget' => slot[new][i] = NoVar
    BY <1>8, <2>1, BoundAssumption DEF Receiving, Free, Slots
  <2>3. header'[new] = "RECEIVE_DATA" /\ header'[Other(new)] = "VALID_PAGE"
    BY <1>3, <1>8 DEF Receiving
  <2>4. \E p \in Page : /\ header'[p] = "RECEIVE_DATA" /\ header'[Other(p)] = "VALID_PAGE"
                        /\ \A i \in Slots : i > Budget' => slot'[p][i] = NoVar
    BY <1>1, <1>3, <2>2, <2>3
  <2> QED
    BY <2>4 DEF OffOK, Receiving, Free
<1>9. HalfFormatted => OffOK'
  BY <1>3 DEF OffOK, HalfFormatted
<1>10. Raw => OffOK'
  BY <1>3 DEF OffOK, Raw
<1>11. CASE pc \in {"idle", "w_store", "w_addr"}
  <2>1. PICK p \in Page : NeedsBlank(p)
    BY <1>4, <1>11 DEF Phase, InService, NeedsBlank
  <2>2. OffOK'
    BY <1>7, <2>1
  <2> QED
    BY <1>3, <2>2 DEF PagesInv, Phase, FromFirst
<1>12. CASE pc \in {"t_mark", "t_valid", "i_promote", "i_blank"}
  <2>1. PICK p \in Page : NeedsBlank(p)
    BY <1>1, <1>4, <1>12, TwoPages DEF Phase, InUse, Promotable, NeedsBlank
  <2>2. OffOK'
    BY <1>7, <2>1
  <2> QED
    BY <1>3, <2>2 DEF PagesInv, Phase, FromFirst
<1>13. CASE pc \in {"t_store", "t_addr", "t_copy", "t_copyaddr", "t_erase"}
  <2>1. pc = "t_copyaddr" => idx <= NumbOfVar
    BY <1>1 DEF IInv, CopyInTable
  <2>2. PICK n \in Int : n <= NumbOfVar + 1 /\ Receiving(new, n)
    <3>1. CASE pc = "t_store"
      BY <1>1, <1>4, <3>1 DEF Phase
    <3>2. CASE pc = "t_addr"
      BY <1>1, <1>4, <3>2 DEF Phase
    <3>3. CASE pc = "t_copy"
      BY <1>1, <1>4, <3>3 DEF Phase
    <3>4. CASE pc = "t_copyaddr"
      BY <1>1, <1>4, <2>1, <3>4 DEF Phase
    <3>5. CASE pc = "t_erase"
      BY <1>1, <1>4, <3>5 DEF Phase
    <3> QED
      BY <1>13, <3>1, <3>2, <3>3, <3>4, <3>5
  <2>3. n <= Budget'
    BY <1>1, <1>5, <1>6, <1>13, <2>2 DEF InitPoints
  <2>4. OffOK'
    BY <1>8, <2>2, <2>3
  <2> QED
    BY <1>3, <2>4 DEF PagesInv, Phase, FromFirst
<1>14. CASE pc \in {"i_copy", "i_copyaddr", "i_valid"}
  <2>1. pc = "i_copyaddr" => idx <= NumbOfVar
    BY <1>1 DEF IInv, CopyInTable
  <2>2. HalfFormatted \/ \E n \in Int : n <= B + NumbOfVar /\ Receiving(new, n)
    <3> HIDE DEF B
    <3>1. CASE pc = "i_copy"
      <4>1. B + idx - 1 \in Int /\ B + idx - 1 <= B + NumbOfVar
        BY <1>1, <1>5
      <4>2. HalfFormatted \/ Receiving(new, B + idx - 1)
        BY <1>4, <3>1 DEF Phase, B
      <4> QED BY <4>1, <4>2
    <3>2. CASE pc = "i_copyaddr"
      <4>1. B + idx \in Int /\ B + idx <= B + NumbOfVar
        BY <1>1, <1>5, <2>1, <3>2
      <4>2. Receiving(new, B + idx)
        BY <1>4, <3>2 DEF Phase, B
      <4> QED BY <4>1, <4>2
    <3>3. CASE pc = "i_valid"
      <4>1. B + NumbOfVar \in Int /\ B + NumbOfVar <= B + NumbOfVar
        BY <1>1, <1>5
      <4>2. HalfFormatted \/ Receiving(new, B + NumbOfVar)
        BY <1>4, <3>3 DEF Phase, B
      <4> QED BY <4>1, <4>2
    <3> QED
      BY <1>14, <3>1, <3>2, <3>3
  <2>3. Budget' = B + NumbOfVar
    BY <1>6, <1>14 DEF InitPoints
  <2>4. OffOK'
    BY <1>8, <1>9, <2>2, <2>3
  <2> QED
    BY <1>3, <2>4 DEF PagesInv, Phase, FromFirst
<1>15. CASE pc \in {"f_erase0", "f_valid"}
  <2>1. OffOK'
    BY <1>4, <1>10, <1>15 DEF Phase
  <2> QED
    BY <1>3, <2>1 DEF PagesInv, Phase, FromFirst
<1>16. CASE pc = "f_erase1"
  <2>1. /\ header[0] = "VALID_PAGE" /\ header[1] \in {"ERASED", "OTHER"} /\ slot[0] = BlankSlots
    BY <1>4, <1>16 DEF Phase
  <2>2. NeedsBlank(0) \/ HalfFormatted
    BY <2>1 DEF NeedsBlank, HalfFormatted, Other
  <2>3. OffOK'
    BY <1>7, <1>9, <2>2 DEF Page
  <2> QED
    BY <1>3, <2>3 DEF PagesInv, Phase, FromFirst
<1> QED
  BY <1>1, <1>2, <1>11, <1>12, <1>13, <1>14, <1>15, <1>16
     DEF TypeOK, Points, InitPoints, WritePoints, TransferPoints

\* The driver itself causes no fault.
LEMMA DriverKeepsFaults == DriverStep => UNCHANGED faults
  BY DEF DriverStep, WriteStep, TransferStep, InitStep, WriteStore, WriteNoPage, WriteAddr,
       WriteTransfer, TransferMark, TransferRefused, TransferStore, TransferAddr, TransferSkip,
       TransferCopy, TransferCopyAddr, TransferCopied, TransferErase, TransferValid, EE_Init, InitAt,
       InitBlank, InitPromote, RecoverSkip, RecoverCopy, RecoverCopyAddr, RecoverFull, StoreFull,
       RecoverCopied, RecoverValid, RecoverErase, FormatErase0, FormatValid, FormatErase1, Return, Goto

\* What a step keeps, and what a call that ends in it returns.
ReturnsWell ==
  (pc' = "idle" /\ faults' = 0) =>
    \/ pc = "idle"
    \/ pc \in InitPoints \cup WritePoints \cup TransferPoints /\ ret' = "FLASH_COMPLETE"

LEMMA StepKeepsPages ==
  ASSUME IInv, PagesInv, RecoveryRoom, Next
  PROVE  PagesInv' /\ ReturnsWell
<1>1. TypeOK
  BY DEF IInv
<1>2. CASE DriverStep
  <2>1. UNCHANGED faults
    BY <1>2, DriverKeepsFaults
  <2>2. CASE faults # 0
    BY <2>1, <2>2 DEF PagesInv, ReturnsWell
  <2>3. CASE faults = 0
    <3>1. pc # "off" \/ EE_Init
      BY <1>2 DEF DriverStep, WriteStep, TransferStep, InitStep, WriteStore, WriteNoPage, WriteAddr,
       WriteTransfer, TransferMark, TransferRefused, TransferStore, TransferAddr, TransferSkip,
       TransferCopy, TransferCopyAddr, TransferCopied, TransferErase, TransferValid,
       InitBlank, InitPromote, RecoverSkip, RecoverCopy, RecoverCopyAddr, RecoverFull,
       RecoverCopied, RecoverValid, RecoverErase, FormatErase0, FormatValid, FormatErase1
    <3>2. EE_Init => pc' # "idle"
      BY DEF EE_Init, InitAt
    <3>3. PagesInv' /\ (pc' = "idle" => ret' = "FLASH_COMPLETE")
      BY <1>2, <2>3, <3>2, WriteKeepsPages, TransferKeepsPages, StartKeepsPages,
         RecoverKeepsPages, FinishKeepsPages DEF DriverStep, InitStep
    <3> QED
      BY <1>1, <3>1, <3>2, <3>3 DEF ReturnsWell, TypeOK, Points
  <2> QED
    BY <2>2, <2>3
<1>3. ASSUME NEW a \in Addrs, NEW d \in ValuesOf[a], WriteVariable(a, d)
      PROVE  PagesInv' /\ ReturnsWell
  BY <1>3, CallKeepsPages DEF WriteVariable, ReturnsWell
<1>4. CASE PowerLoss
  <2>1. PagesInv'
    BY <1>4, PowerLossKeepsPages DEF PagesInv
  <2> QED
    BY <1>4, <2>1 DEF PowerLoss, ReturnsWell
<1>5. CASE FlashFails
  <2>1. faults' # 0
    BY <1>1, <1>5, BoundAssumption DEF FlashFails, Fault, TypeOK
  <2> QED
    BY <2>1 DEF PagesInv, ReturnsWell
<1> QED
  BY <1>2, <1>3, <1>4, <1>5 DEF Next

-----------------------------------------------------------------------------
(* What a page reads as.                                                    *)

\* LastIn on the slots s of a page.
NewestAt(s, a, i) == s[i].addr = a /\ \A j \in (i+1)..NSlots : s[j].addr # a
LastOf(s, a) == IF \E i \in Slots : NewestAt(s, a, i)
                THEN s[CHOOSE i \in Slots : NewestAt(s, a, i)].data ELSE NotFound

LEMMA LastInIs ==
  ASSUME NEW p, NEW a
  PROVE  /\ LastIn(p, a) = LastOf(slot[p], a)
         /\ ~Holds(p, a) => LastOf(slot[p], a) = NotFound
  BY DEF LastIn, Holds, Newest, LastOf, NewestAt

LEMMA LastOfIs ==
  ASSUME NEW s, NEW a, NEW i \in Slots, NewestAt(s, a, i)
  PROVE  LastOf(s, a) = s[i].data
<1> DEFINE n == CHOOSE k \in Slots : NewestAt(s, a, k)
<1>1. n \in Slots /\ NewestAt(s, a, n)
  OBVIOUS
<1>2. LastOf(s, a) = s[n].data
  BY DEF LastOf
<1> HIDE DEF n
<1>3. n = i
  BY <1>1, BoundAssumption DEF NewestAt, Slots
<1> QED
  BY <1>2, <1>3

\* Slots that agree on an address read the same there.
LEMMA LastOfSame ==
  ASSUME NEW s, NEW t, NEW a,
         \A i \in Slots : /\ s[i].addr = a <=> t[i].addr = a
                          /\ s[i].addr = a => s[i].data = t[i].data
  PROVE  LastOf(s, a) = LastOf(t, a)
<1>1. \A i \in Slots : \A j \in (i+1)..NSlots : j \in Slots
  BY BoundAssumption DEF Slots
<1>2. \A i \in Slots : NewestAt(s, a, i) <=> NewestAt(t, a, i)
  BY <1>1 DEF NewestAt
<1>3. CASE \E i \in Slots : NewestAt(s, a, i)
  <2>1. PICK i \in Slots : NewestAt(s, a, i)
    BY <1>3
  <2>2. LastOf(s, a) = s[i].data /\ LastOf(t, a) = t[i].data
    BY <1>2, <2>1, LastOfIs
  <2> QED
    BY <2>1, <2>2 DEF NewestAt
<1>4. CASE ~\E i \in Slots : NewestAt(s, a, i)
  BY <1>2, <1>4 DEF LastOf
<1> QED
  BY <1>3, <1>4

\* No slot with that address: not found.
LEMMA LastOfNone ==
  ASSUME NEW s, NEW a, \A i \in Slots : s[i].addr # a
  PROVE  LastOf(s, a) = NotFound
  BY DEF LastOf, NewestAt

\* The address of the last slot in use makes its data the variable's.
LEMMA LastOfAdd ==
  ASSUME NEW s, NEW t, NEW i \in Slots, NEW b \in Addrs, t[i].addr = b, s[i].addr = Blank,
         \A j \in Slots : j # i => t[j] = s[j],
         \A j \in Slots : j > i => s[j] = NoVar
  PROVE  /\ LastOf(t, b) = t[i].data
         /\ \A a \in Addrs : a # b => LastOf(t, a) = LastOf(s, a)
<1>1. Blank \notin Addrs /\ NoVar.addr = Blank
  BY AddrAssumption DEF NoVar
<1>2. NewestAt(t, b, i)
  <2>1. \A j \in (i+1)..NSlots : j \in Slots /\ j # i /\ j > i
    BY BoundAssumption DEF Slots
  <2> QED
    BY <1>1, <2>1 DEF NewestAt
<1>3. \A a \in Addrs : a # b => LastOf(t, a) = LastOf(s, a)
  <2> SUFFICES ASSUME NEW a \in Addrs, a # b PROVE LastOf(t, a) = LastOf(s, a)
    OBVIOUS
  <2>1. \A j \in Slots : /\ t[j].addr = a <=> s[j].addr = a
                         /\ t[j].addr = a => t[j].data = s[j].data
    BY <1>1
  <2> QED
    BY <2>1, LastOfSame
<1> QED
  BY <1>2, <1>3, LastOfIs

-----------------------------------------------------------------------------
(* The slots of a page are used in order, whatever fails.                   *)

Appended == \A p \in Page : \A i, j \in Slots : slot[p][i] = NoVar /\ j > i => slot[p][j] = NoVar

\* A slot whose address is about to be programmed is the last one in use.
HalfLast == pc \in {"w_addr", "t_addr", "t_copyaddr", "i_copyaddr"} =>
  /\ slot[at[1]][at[2]].addr = Blank
  /\ \A j \in Slots : j > at[2] => slot[at[1]][j] = NoVar
  /\ \A j \in Slots : j < at[2] => slot[at[1]][j] # NoVar

SlotsInv == Appended /\ HalfLast

\* The data of a slot: no variable reads differently.
LEMMA DataHides ==
  ASSUME IInv, SlotsInv, NEW d, StoreData(d)
  PROVE  /\ \A p \in Page : \A a \in Addrs : LastOf(slot'[p], a) = LastOf(slot[p], a)
         /\ \A p \in Page : \A i \in Slots : slot'[p][i].addr = slot[p][i].addr
         /\ slot'[at'[1]][at'[2]].data = d
         /\ at' \in Page \X Slots
         /\ slot'[at'[1]][at'[2]].addr = Blank
         /\ \A j \in Slots : j > at'[2] => slot'[at'[1]][j] = NoVar
         /\ \A j \in Slots : j < at'[2] => slot'[at'[1]][j] # NoVar
         /\ Appended'
         /\ UNCHANGED <<header, arg, new, idx>>
<1>1. TypeOK /\ WritePage # NoPage
  BY DEF IInv, StoreData
<1> DEFINE w == WritePage
<1>2. w \in Page
  BY <1>1, PageFacts
<1>3. PICK i \in Slots :
        /\ FirstFree(w, i) /\ slot' = [slot EXCEPT ![w][i].data = d] /\ at' = <<w, i>>
        /\ UNCHANGED <<header, arg, new, idx>>
  BY DEF StoreData
<1> HIDE DEF w
<1>4. slot[w][i] = NoVar /\ \A j \in 1..(i-1) : slot[w][j] # NoVar
  BY <1>3 DEF FirstFree, Free
<1>5. slot[w][i] = [addr |-> Blank, data |-> Blank]
  BY <1>4 DEF NoVar
<1>6. \A q \in Page : \A j \in Slots :
        slot'[q][j] = IF q = w /\ j = i THEN [addr |-> Blank, data |-> d] ELSE slot[q][j]
  BY <1>1, <1>2, <1>3, <1>5 DEF TypeOK
<1>7. \A q \in Page : \A j \in Slots : slot'[q][j].addr = slot[q][j].addr
  BY <1>2, <1>5, <1>6
<1>8. \A q \in Page : \A a \in Addrs : LastOf(slot'[q], a) = LastOf(slot[q], a)
  <2> SUFFICES ASSUME NEW q \in Page, NEW a \in Addrs
               PROVE  LastOf(slot'[q], a) = LastOf(slot[q], a)
    OBVIOUS
  <2>1. \A j \in Slots : /\ slot'[q][j].addr = a <=> slot[q][j].addr = a
                         /\ slot'[q][j].addr = a => slot'[q][j].data = slot[q][j].data
    BY <1>5, <1>6, AddrAssumption
  <2> QED
    BY <2>1, LastOfSame
<1>9. \A j \in Slots : j > i => slot[w][j] = NoVar
  BY <1>2, <1>4 DEF SlotsInv, Appended
<1>10. \A j \in Slots : j > i => slot'[w][j] = NoVar
  BY <1>2, <1>6, <1>9, BoundAssumption DEF Slots
<1>11. Appended'
  <2> SUFFICES ASSUME NEW q \in Page, NEW j \in Slots, NEW k \in Slots, slot'[q][j] = NoVar, k > j
               PROVE  slot'[q][k] = NoVar
    BY DEF Appended
  <2>1. CASE q # w
    BY <1>6, <2>1 DEF SlotsInv, Appended
  <2>2. CASE q = w /\ j < i
    <3>1. j \in 1..(i-1) /\ j # i
      BY <2>2, BoundAssumption DEF Slots
    <3> QED
      BY <1>2, <1>4, <1>6, <2>2, <3>1
  <2>3. CASE q = w /\ j >= i
    <3>1. k > i
      BY <2>3, BoundAssumption DEF Slots
    <3> QED
      BY <1>10, <2>3, <3>1
  <2> QED
    BY <2>1, <2>2, <2>3, BoundAssumption DEF Slots
<1>12. slot'[w][i] = [addr |-> Blank, data |-> d]
  BY <1>2, <1>6
<1>13. \A j \in Slots : j < i => slot'[w][j] # NoVar
  <2> SUFFICES ASSUME NEW j \in Slots, j < i PROVE slot'[w][j] # NoVar
    OBVIOUS
  <2>1. j \in 1..(i-1) /\ j # i
    BY BoundAssumption DEF Slots
  <2> QED
    BY <1>2, <1>4, <1>6, <2>1
<1> QED
  BY <1>2, <1>3, <1>7, <1>8, <1>10, <1>11, <1>12, <1>13

\* Its address: that variable reads as the data of the slot, the others as before.
LEMMA AddrShows ==
  ASSUME IInv, SlotsInv, pc \in {"w_addr", "t_addr", "t_copyaddr", "i_copyaddr"},
         NEW p \in Page, p = at[1], NEW b \in Addrs, StoreAddr(b)
  PROVE  /\ LastOf(slot'[p], b) = slot[p][at[2]].data
         /\ \A a \in Addrs : a # b => LastOf(slot'[p], a) = LastOf(slot[p], a)
         /\ \A i \in Slots : \A a \in Addrs : a # b /\ slot'[p][i].addr = a => slot[p][i].addr = a
         /\ \A i \in Slots : slot'[p][i].addr = IF i = at[2] THEN b ELSE slot[p][i].addr
         /\ slot[p][at[2]].addr = Blank
         /\ slot'[Other(p)] = slot[Other(p)]
         /\ Appended'
         /\ UNCHANGED header
<1>1. TypeOK /\ at \in Page \X Slots
  BY DEF IInv, HalfWritten
<1>2. PICK i \in Slots : at[2] = i
  BY <1>1
<1>3. slot' = [slot EXCEPT ![p][i].addr = b] /\ UNCHANGED header
  BY <1>2 DEF StoreAddr
<1>4. \A j \in Slots : j # i => slot'[p][j] = slot[p][j]
  BY <1>1, <1>3 DEF TypeOK
<1>5. slot'[p][i].addr = b /\ slot'[p][i].data = slot[p][i].data
  BY <1>1, <1>3 DEF TypeOK
<1>6. slot'[Other(p)] = slot[Other(p)]
  BY <1>1, <1>3, TwoPages DEF TypeOK
<1>7. slot[p][i].addr = Blank /\ \A j \in Slots : j > i => slot[p][j] = NoVar
  BY <1>2 DEF SlotsInv, HalfLast
<1>8. /\ LastOf(slot'[p], b) = slot'[p][i].data
      /\ \A a \in Addrs : a # b => LastOf(slot'[p], a) = LastOf(slot[p], a)
  BY <1>4, <1>5, <1>7, LastOfAdd
<1>9. Appended'
  <2> SUFFICES ASSUME NEW q \in Page, NEW j \in Slots, NEW k \in Slots, slot'[q][j] = NoVar, k > j
               PROVE  slot'[q][k] = NoVar
    BY DEF Appended
  <2>1. CASE q # p
    <3>1. slot'[q] = slot[q]
      BY <1>6, <2>1, TwoPages
    <3> QED
      BY <2>1, <3>1 DEF SlotsInv, Appended
  <2>2. CASE q = p
    <3>1. NoVar.addr = Blank /\ b # Blank
      BY AddrAssumption DEF NoVar
    <3>2. j # i
      BY <1>5, <2>2, <3>1
    <3>3. slot[p][k] = NoVar
      BY <1>4, <2>2, <3>2 DEF SlotsInv, Appended
    <3>4. slot[p][j] = NoVar
      BY <1>4, <2>2, <3>2
    <3>5. k # i
      BY <1>2, <2>2, <3>4 DEF SlotsInv, HalfLast
    <3> QED
      BY <1>4, <2>2, <3>3, <3>5
  <2> QED
    BY <2>1, <2>2
<1> QED
  BY <1>2, <1>3, <1>4, <1>5, <1>6, <1>7, <1>8, <1>9

LEMMA SlotsStep == IInv /\ SlotsInv /\ [Next]_vars => SlotsInv'
<1> SUFFICES ASSUME IInv, SlotsInv, [Next]_vars PROVE SlotsInv'
  OBVIOUS
<1>1. ASSUME UNCHANGED slot, pc' \notin {"w_addr", "t_addr", "t_copyaddr", "i_copyaddr"}
      PROVE  SlotsInv'
  BY <1>1 DEF SlotsInv, Appended, HalfLast
<1>2. ASSUME NEW p \in Page, ErasePage(p), pc' \notin {"w_addr", "t_addr", "t_copyaddr", "i_copyaddr"}
      PROVE  SlotsInv'
  <2>1. \A q \in Page : slot'[q] = IF q = p THEN BlankSlots ELSE slot[q]
    BY <1>2 DEF ErasePage, IInv, TypeOK
  <2>2. \A i \in Slots : BlankSlots[i] = NoVar
    BY DEF BlankSlots
  <2>3. Appended'
    BY <2>1, <2>2 DEF SlotsInv, Appended
  <2> QED
    BY <1>2, <2>3 DEF SlotsInv, HalfLast
<1>3. ASSUME NEW d, StoreData(d)
      PROVE  SlotsInv'
  BY <1>3, DataHides DEF SlotsInv, HalfLast
<1>4. ASSUME pc \in {"w_addr", "t_addr", "t_copyaddr", "i_copyaddr"}, StoreAddr(Owner),
             pc' \notin {"w_addr", "t_addr", "t_copyaddr", "i_copyaddr"}
      PROVE  SlotsInv'
  <2>1. at[1] \in Page /\ Owner \in Addrs
    BY <1>4 DEF IInv, HalfWritten
  <2>2. Appended'
    BY <1>4, <2>1, AddrShows
  <2> QED
    BY <1>4, <2>2 DEF SlotsInv, HalfLast
<1>5. CASE WriteStep
  BY <1>1, <1>3, <1>4, <1>5 DEF WriteStep, WriteStore, WriteNoPage, WriteAddr, WriteTransfer,
     Return, Goto, flash, Owner
<1>6. CASE TransferStep
  <2>1. Other(new) \in Page
    BY TwoPages DEF IInv, TypeOK
  <2>2. CASE TransferMark \/ TransferRefused \/ TransferCopied \/ TransferValid
    BY <1>1, <2>2 DEF TransferMark, TransferRefused, TransferCopied, TransferValid, ProgramHeader,
       Return, Goto, flash
  <2>3. CASE TransferStore \/ TransferCopy
    BY <1>3, <2>3 DEF TransferStore, TransferCopy
  <2>4. CASE TransferAddr \/ TransferCopyAddr
    BY <1>4, <2>4 DEF TransferAddr, TransferCopyAddr, Goto, Owner
  <2>5. CASE TransferSkip
    BY <1>1, <2>5 DEF TransferSkip
  <2>6. CASE TransferErase
    BY <1>2, <2>1, <2>6 DEF TransferErase, Goto
  <2> QED
    BY <1>6, <2>2, <2>3, <2>4, <2>5, <2>6 DEF TransferStep
<1>7. CASE InitStep
  <2>1. Other(new) \in Page /\ 0 \in Page /\ 1 \in Page
    BY TwoPages DEF IInv, TypeOK, Page
  <2>2. CASE EE_Init \/ InitPromote \/ RecoverFull \/ RecoverCopied \/ RecoverValid \/ FormatValid
    BY <1>1, <2>2 DEF EE_Init, InitAt, InitPromote, RecoverFull, RecoverCopied, RecoverValid,
       FormatValid, StoreFull, ProgramHeader, Return, Goto, flash
  <2>3. CASE InitBlank
    BY <1>2, <2>1, <2>3 DEF InitBlank, Return, Goto
  <2>4. CASE RecoverSkip
    BY <1>1, <2>4 DEF RecoverSkip
  <2>5. CASE RecoverCopy
    BY <1>3, <2>5 DEF RecoverCopy
  <2>6. CASE RecoverCopyAddr
    BY <1>4, <2>6 DEF RecoverCopyAddr, Goto, Owner
  <2>7. CASE RecoverErase \/ FormatErase0 \/ FormatErase1
    BY <1>2, <2>1, <2>7 DEF RecoverErase, FormatErase0, FormatErase1, Return, Goto
  <2> QED
    BY <1>7, <2>2, <2>3, <2>4, <2>5, <2>6, <2>7 DEF InitStep
<1>8. CASE \E a \in Addrs : \E d \in ValuesOf[a] : WriteVariable(a, d)
  BY <1>1, <1>8 DEF WriteVariable
<1>9. CASE PowerLoss \/ FlashFails
  BY <1>1, <1>9 DEF PowerLoss, FlashFails, flash
<1>10. CASE UNCHANGED vars
  BY <1>10 DEF vars, SlotsInv, Appended, HalfLast
<1> QED
  BY <1>5, <1>6, <1>7, <1>8, <1>9, <1>10 DEF Next, DriverStep

-----------------------------------------------------------------------------
(* Where the acknowledged data is, as long as there is no fault.            *)

\* Page p has every variable whose data is known.
Keeps(p) == \A a \in Addrs : acked[a] # Unknown => LastOf(slot[p], a) = acked[a]

\* Page p may lack some of them, but not the one its first slot names.
Partial(p) == \A a \in Addrs : acked[a] # Unknown =>
  \/ LastOf(slot[p], a) = acked[a]
  \/ LastOf(slot[p], a) = NotFound /\ slot[p][1].addr # a

\* Nothing was ever written.
Fresh == \A a \in Addrs : /\ acked[a] = NotFound
                          /\ \A p \in Page : \A i \in Slots : slot[p][i].addr # a

\* What EE_Init would find after a power loss.
PagesKeep ==
  /\ \A p \in Page : NeedsBlank(p) => Keeps(p)
  /\ \A p \in Page : NeedsRecovery(p) => Keeps(Other(p)) /\ Partial(p)
  /\ Raw \/ pc = "f_erase1" => Fresh

\* The loops have copied the variables before the idx-th.
CallKeeps ==
  /\ pc \in WritePoints \cup TransferPoints => acked[arg.addr] = Unknown
  /\ pc \in {"w_addr", "t_addr"} => slot[at[1]][at[2]].data = arg.data
  /\ pc \in {"t_copy", "t_copyaddr", "t_erase", "t_valid"} => LastOf(slot[new], arg.addr) = arg.data
  /\ pc \in {"t_copy", "t_copyaddr", "i_copy", "i_copyaddr"} =>
       \A k \in 1..NumbOfVar : k < idx /\ acked[VirtAddVarTab[k]] # Unknown =>
         LastOf(slot[new], VirtAddVarTab[k]) = acked[VirtAddVarTab[k]]
  /\ pc \in {"t_copyaddr", "i_copyaddr"} =>
       slot[at[1]][at[2]].data = LastOf(slot[Other(new)], VirtAddVarTab[idx])
  /\ pc = "t_copyaddr" => VirtAddVarTab[idx] # arg.addr
  /\ pc \in {"t_erase", "i_valid", "i_erase"} => Keeps(new)

AcksInv == faults = 0 => PagesKeep /\ CallKeeps

\* The application's variables are those of the table.
AllTabled == \A a \in Addrs : \E k \in 1..NumbOfVar : VirtAddVarTab[k] = a

\* A step after which the pages read as before, of the same acknowledged data.
LEMMA SameReads ==
  ASSUME PagesKeep, UNCHANGED <<header, acked>>, pc' # "f_erase1",
         \A p \in Page : \A a \in Addrs : LastOf(slot'[p], a) = LastOf(slot[p], a),
         \A p \in Page : \A i \in Slots : slot'[p][i].addr = slot[p][i].addr
  PROVE  PagesKeep'
<1>1. 1 \in Slots
  BY BoundAssumption DEF Slots
<1>2. ASSUME NEW p \in Page
      PROVE  /\ Keeps(p) => Keeps(p)'
             /\ Partial(p) => Partial(p)'
  BY <1>1 DEF Keeps, Partial
<1>3. Fresh => Fresh'
  BY DEF Fresh
<1>4. ASSUME NEW p \in Page, NeedsBlank(p)'
      PROVE  Keeps(p)'
  BY <1>2, <1>4 DEF PagesKeep, NeedsBlank
<1>5. ASSUME NEW p \in Page, NeedsRecovery(p)'
      PROVE  Keeps(Other(p))' /\ Partial(p)'
  BY <1>2, <1>5, TwoPages DEF PagesKeep, NeedsRecovery
<1>6. Raw' => Fresh'
  BY <1>3 DEF PagesKeep, Raw
<1> QED
  BY <1>4, <1>5, <1>6 DEF PagesKeep

\* A step after which one page has everything and the other is erased ...
LEMMA OneKeeps ==
  ASSUME NEW p \in Page, header'[p] \in {"VALID_PAGE", "RECEIVE_DATA"}, header'[Other(p)] = "ERASED",
         pc' # "f_erase1", \A a \in Addrs : acked'[a] # Unknown => LastOf(slot'[p], a) = acked'[a]
  PROVE  PagesKeep'
<1>1. \A q \in Page : NeedsBlank(q)' => q = p
  BY TwoPages DEF NeedsBlank
<1>2. \A q \in Page : ~NeedsRecovery(q)'
  BY TwoPages DEF NeedsRecovery
<1>3. ~Raw'
  BY DEF Raw
<1>4. Keeps(p)'
  BY DEF Keeps
<1> QED
  BY <1>1, <1>2, <1>3, <1>4 DEF PagesKeep

\* ... or one page receives from the other ...
LEMMA TwoKeep ==
  ASSUME NEW p \in Page, header'[p] \in {"OTHER", "RECEIVE_DATA"}, header'[Other(p)] = "VALID_PAGE",
         pc' # "f_erase1",
         \A a \in Addrs : acked'[a] # Unknown =>
           /\ LastOf(slot'[Other(p)], a) = acked'[a]
           /\ \/ LastOf(slot'[p], a) = acked'[a]
              \/ LastOf(slot'[p], a) = NotFound /\ slot'[p][1].addr # a
  PROVE  PagesKeep'
<1>1. \A q \in Page : ~NeedsBlank(q)'
  BY TwoPages DEF NeedsBlank
<1>2. \A q \in Page : NeedsRecovery(q)' => q = p
  BY TwoPages DEF NeedsRecovery
<1>3. ~Raw'
  BY TwoPages DEF Raw
<1>4. Keeps(Other(p))' /\ Partial(p)'
  BY DEF Keeps, Partial
<1> QED
  BY <1>1, <1>2, <1>3, <1>4 DEF PagesKeep

\* ... or there is nothing to keep.
LEMMA FreshKeeps ==
  ASSUME Fresh'
  PROVE  PagesKeep'
<1>1. 1 \in Slots
  BY BoundAssumption DEF Slots
<1>2. \A p \in Page : \A a \in Addrs : LastOf(slot'[p], a) = NotFound
  <2> SUFFICES ASSUME NEW p \in Page, NEW a \in Addrs PROVE LastOf(slot'[p], a) = NotFound
    OBVIOUS
  <2>1. \A i \in Slots : slot'[p][i].addr # a
    BY DEF Fresh
  <2> QED
    BY <2>1, LastOfNone
<1>3. \A p \in Page : Keeps(p)' /\ Partial(p)'
  BY <1>1, <1>2 DEF Fresh, Keeps, Partial
<1> QED
  BY <1>3, TwoPages DEF PagesKeep

LEMMA WriteKeepsAcks ==
  ASSUME IInv, PagesInv, SlotsInv, AcksInv, WriteStep, faults = 0
  PROVE  PagesKeep' /\ CallKeeps'
<1> USE DEF WritePoints, TransferPoints
<1>1. TypeOK /\ PagesKeep /\ CallKeeps
  BY DEF IInv, AcksInv
<1>2. pc \in {"w_store", "w_addr"} /\ arg.addr \in Addrs /\ acked[arg.addr] = Unknown
  BY <1>1 DEF WriteStep, WriteStore, WriteNoPage, WriteAddr, WriteTransfer, IInv, ArgOwnsData, CallKeeps
<1>3. PICK p \in Page : InUse(p)
  BY <1>2 DEF PagesInv, Phase, InService, InUse
<1>4. WritePage = p /\ ReadPage = p /\ WritePage # NoPage
  BY <1>3, InUsePages DEF Page, NoPage
<1>5. CASE WriteStore
  <2>1. StoreData(arg.data) /\ pc' = "w_addr" /\ UNCHANGED acked
    BY <1>5 DEF WriteStore, Goto
  <2>2. PagesKeep'
    BY <1>1, <2>1, DataHides, SameReads
  <2>3. CallKeeps'
    BY <1>2, <2>1, DataHides DEF CallKeeps
  <2> QED
    BY <2>2, <2>3
<1>6. CASE WriteNoPage
  BY <1>4, <1>6 DEF WriteNoPage
<1>7. CASE WriteAddr
  <2>1. at \in Page \X Slots /\ header[at[1]] = "VALID_PAGE" /\ StoreAddr(arg.addr) /\ pc = "w_addr"
    BY <1>7 DEF WriteAddr, IInv, HalfWritten, PagesInv, Phase
  <2>2. at[1] = p
    BY <1>3, <2>1, TwoPages DEF InUse
  <2>3. /\ LastOf(slot'[p], arg.addr) = arg.data
        /\ \A a \in Addrs : a # arg.addr => LastOf(slot'[p], a) = LastOf(slot[p], a)
        /\ UNCHANGED header
    BY <1>1, <1>2, <2>1, <2>2, AddrShows DEF CallKeeps
  <2>4. acked' = [acked EXCEPT ![arg.addr] = arg.data] /\ pc' = "idle"
    BY <1>7 DEF WriteAddr, Return, InitPoints
  <2>5. Keeps(p)
    BY <1>1, <1>3 DEF PagesKeep, InUse, NeedsBlank
  <2>6. \A a \in Addrs : acked'[a] # Unknown => LastOf(slot'[p], a) = acked'[a]
    BY <1>1, <1>2, <2>3, <2>4, <2>5 DEF Keeps, TypeOK
  <2>7. PagesKeep'
    BY <1>3, <2>3, <2>4, <2>6, OneKeeps DEF InUse
  <2> QED
    BY <2>4, <2>7 DEF CallKeeps
<1>8. CASE WriteTransfer
  <2>1. pc' = "t_mark" /\ UNCHANGED <<header, slot, acked, arg>>
    BY <1>8 DEF WriteTransfer, Goto
  <2>2. PagesKeep'
    BY <1>1, <2>1, SameReads
  <2> QED
    BY <1>2, <2>1, <2>2 DEF CallKeeps
<1> QED
  BY <1>5, <1>6, <1>7, <1>8 DEF WriteStep

\* The loops: a variable that is left out is there already or nowhere, and one that is copied
\* reads as on the other page.
LEMMA SkipKeeps ==
  ASSUME IInv, CallKeeps, NEW p \in Page, new = p, Keeps(Other(p)), Partial(p), ReadPage = Other(p),
         pc \in {"t_copy", "i_copy"}, idx \in 1..NumbOfVar,
         \/ ~Holds(ReadPage, VirtAddVarTab[idx])
         \/ acked[VirtAddVarTab[idx]] = Unknown
         \/ slot[p][1].addr = VirtAddVarTab[idx]
  PROVE  \A k \in 1..NumbOfVar : k < idx + 1 /\ acked[VirtAddVarTab[k]] # Unknown =>
           LastOf(slot[p], VirtAddVarTab[k]) = acked[VirtAddVarTab[k]]
<1> DEFINE v == VirtAddVarTab[idx]
<1>1. v \in Addrs
  BY TableFacts
<1>2. ~Holds(Other(p), v) => LastOf(slot[Other(p)], v) = NotFound
  BY LastInIs
<1>3. acked[v] # Unknown => LastOf(slot[p], v) = acked[v]
  BY <1>1, <1>2 DEF Keeps, Partial
<1> SUFFICES ASSUME NEW k \in 1..NumbOfVar, k < idx + 1, acked[VirtAddVarTab[k]] # Unknown
             PROVE  LastOf(slot[p], VirtAddVarTab[k]) = acked[VirtAddVarTab[k]]
  OBVIOUS
<1>4. CASE k = idx
  BY <1>3, <1>4
<1>5. CASE k < idx
  BY <1>5 DEF CallKeeps
<1> QED
  BY <1>4, <1>5, TableFacts

LEMMA CopyKeeps ==
  ASSUME IInv, SlotsInv, CallKeeps, NEW p \in Page, new = p, at[1] = p, Keeps(Other(p)), Partial(p),
         pc \in {"t_copyaddr", "i_copyaddr"}, StoreAddr(VirtAddVarTab[idx]), UNCHANGED acked
  PROVE  /\ \A k \in 1..NumbOfVar : k < idx + 1 /\ acked'[VirtAddVarTab[k]] # Unknown =>
              LastOf(slot'[p], VirtAddVarTab[k]) = acked'[VirtAddVarTab[k]]
         /\ \A a \in Addrs : a # VirtAddVarTab[idx] => LastOf(slot'[p], a) = LastOf(slot[p], a)
         /\ \A a \in Addrs : acked'[a] # Unknown =>
              /\ LastOf(slot'[Other(p)], a) = acked'[a]
              /\ \/ LastOf(slot'[p], a) = acked'[a]
                 \/ LastOf(slot'[p], a) = NotFound /\ slot'[p][1].addr # a
         /\ UNCHANGED header
<1> DEFINE v == VirtAddVarTab[idx]
<1>1. idx \in 1..NumbOfVar /\ v \in Addrs /\ 1 \in Slots
  BY TableFacts, BoundAssumption DEF IInv, CopyInTable, Slots
<1>2. /\ LastOf(slot'[p], v) = slot[p][at[2]].data
      /\ \A a \in Addrs : a # v => LastOf(slot'[p], a) = LastOf(slot[p], a)
      /\ \A i \in Slots : \A a \in Addrs : a # v /\ slot'[p][i].addr = a => slot[p][i].addr = a
      /\ slot'[Other(p)] = slot[Other(p)]
      /\ UNCHANGED header
  BY <1>1, AddrShows
<1>3. slot[p][at[2]].data = LastOf(slot[Other(p)], v)
  BY DEF CallKeeps
<1>4. acked[v] # Unknown => LastOf(slot'[p], v) = acked[v]
  BY <1>1, <1>2, <1>3 DEF Keeps
<1> HIDE DEF v
<1>5. ASSUME NEW a \in Addrs, acked[a] # Unknown
      PROVE  /\ LastOf(slot'[Other(p)], a) = acked[a]
             /\ \/ LastOf(slot'[p], a) = acked[a]
                \/ LastOf(slot'[p], a) = NotFound /\ slot'[p][1].addr # a
  BY <1>1, <1>2, <1>4, <1>5 DEF Keeps, Partial
<1>6. ASSUME NEW k \in 1..NumbOfVar, k < idx + 1, acked[VirtAddVarTab[k]] # Unknown
      PROVE  LastOf(slot'[p], VirtAddVarTab[k]) = acked[VirtAddVarTab[k]]
  <2>1. VirtAddVarTab[k] \in Addrs
    BY <1>6, TableFacts
  <2>2. CASE VirtAddVarTab[k] = v
    BY <1>4, <1>6, <2>2
  <2>3. CASE VirtAddVarTab[k] # v
    <3>1. k < idx
      BY <1>1, <1>6, <2>3, TableFacts DEF v
    <3>2. LastOf(slot[p], VirtAddVarTab[k]) = acked[VirtAddVarTab[k]]
      BY <1>6, <3>1 DEF CallKeeps
    <3> QED
      BY <1>2, <2>1, <2>3, <3>2
  <2> QED
    BY <2>2, <2>3
<1> QED
  BY <1>2, <1>5, <1>6 DEF v

\* When the loops have ended, the page has everything.
LEMMA CopiedKeeps ==
  ASSUME CallKeeps, AllTabled, NEW p \in Page, new = p, pc \in {"t_copy", "i_copy"}, idx = NumbOfVar + 1
  PROVE  Keeps(p)
<1>1. \A k \in 1..NumbOfVar : k < idx
  BY TableFacts
<1>2. \A k \in 1..NumbOfVar : acked[VirtAddVarTab[k]] # Unknown =>
        LastOf(slot[p], VirtAddVarTab[k]) = acked[VirtAddVarTab[k]]
  BY <1>1 DEF CallKeeps
<1> QED
  BY <1>2 DEF AllTabled, Keeps

LEMMA TransferKeepsAcks ==
  ASSUME IInv, PagesInv, SlotsInv, AcksInv, AllTabled, TransferStep, faults = 0
  PROVE  PagesKeep' /\ CallKeeps'
<1> USE DEF WritePoints, TransferPoints
<1>1. TypeOK /\ PagesKeep /\ CallKeeps /\ Phase /\ FromFirst
  BY DEF IInv, AcksInv, PagesInv
<1>2. pc \in TransferPoints /\ arg.addr \in Addrs /\ acked[arg.addr] = Unknown
  BY <1>1 DEF TransferStep, TransferMark, TransferRefused, TransferStore, TransferAddr, TransferSkip,
     TransferCopy, TransferCopyAddr, TransferCopied, TransferErase, TransferValid,
     IInv, ArgOwnsData, CallKeeps
<1>3. PICK p \in Page : new = p
  BY <1>1 DEF TypeOK
<1>4. NumbOfVar \in Nat /\ idx \in 1..(NumbOfVar + 1) /\ Other(p) \in Page /\ Other(p) # p /\ 1 \in Slots
  BY <1>1, TableFacts, TwoPages, BoundAssumption DEF TypeOK, Slots
<1>5. ASSUME header[p] = "RECEIVE_DATA", header[Other(p)] = "VALID_PAGE"
      PROVE  Keeps(Other(p)) /\ Partial(p) /\ ReadPage = Other(p)
  BY <1>1, <1>5 DEF PagesKeep, NeedsRecovery, ReadPage, Page, Other
<1>6. CASE TransferMark
  <2>1. InUse(Other(p))
    BY <1>1, <1>3, <1>6 DEF TransferMark, Phase
  <2>2. /\ header' = [header EXCEPT ![p] = "RECEIVE_DATA"] /\ pc' = "t_store"
        /\ UNCHANGED <<slot, acked, arg>>
    BY <1>3, <1>6 DEF TransferMark, ProgramHeader, Goto, locals
  <2>3. header'[p] = "RECEIVE_DATA" /\ header'[Other(p)] = "VALID_PAGE"
    BY <1>1, <1>4, <2>1, <2>2 DEF InUse, TypeOK
  <2>4. Keeps(Other(p))
    BY <1>1, <1>4, <2>1 DEF PagesKeep, InUse, NeedsBlank
  <2>5. slot[p] = BlankSlots
    BY <2>1, TwoPages DEF InUse
  <2>6. \A a \in Addrs : \A i \in Slots : slot[p][i].addr # a
    BY <2>5, AddrAssumption DEF BlankSlots, NoVar
  <2>7. \A a \in Addrs : LastOf(slot[p], a) = NotFound
    BY <2>6, LastOfNone
  <2>8. \A a \in Addrs : acked'[a] # Unknown =>
          /\ LastOf(slot'[Other(p)], a) = acked'[a]
          /\ LastOf(slot'[p], a) = NotFound /\ slot'[p][1].addr # a
    BY <1>4, <2>2, <2>4, <2>6, <2>7 DEF Keeps
  <2>9. PagesKeep'
    BY <2>2, <2>3, <2>8, TwoKeep
  <2> QED
    BY <1>2, <2>2, <2>9 DEF CallKeeps
<1>7. CASE TransferRefused
  <2>1. InUse(Other(new))
    BY <1>1, <1>7 DEF TransferRefused, Phase
  <2> QED
    BY <1>3, <1>7, <2>1, TwoPages DEF TransferRefused, CanProgram, InUse
<1>8. CASE TransferStore
  <2>1. StoreData(arg.data) /\ pc' = "t_addr" /\ UNCHANGED acked
    BY <1>8 DEF TransferStore, Goto
  <2>2. PagesKeep'
    BY <1>1, <2>1, DataHides, SameReads
  <2>3. CallKeeps'
    BY <1>2, <2>1, DataHides DEF CallKeeps
  <2> QED
    BY <2>2, <2>3
<1>9. CASE TransferAddr
  <2>1. Receiving(p, 1) /\ at[1] = p /\ idx = 1 /\ pc = "t_addr"
    BY <1>1, <1>3, <1>9 DEF TransferAddr, Phase, FromFirst
  <2>2. StoreAddr(arg.addr) /\ pc' = "t_copy" /\ UNCHANGED <<acked, arg, new, idx>>
    BY <1>9 DEF TransferAddr, Goto, locals
  <2>3. /\ LastOf(slot'[p], arg.addr) = arg.data
        /\ \A a \in Addrs : a # arg.addr => LastOf(slot'[p], a) = LastOf(slot[p], a)
        /\ \A i \in Slots : \A a \in Addrs : a # arg.addr /\ slot'[p][i].addr = a => slot[p][i].addr = a
        /\ slot'[Other(p)] = slot[Other(p)]
        /\ UNCHANGED header
    BY <1>1, <1>2, <2>1, <2>2, AddrShows DEF CallKeeps
  <2>4. Keeps(Other(p)) /\ Partial(p)
    BY <1>5, <2>1 DEF Receiving
  <2>5. \A a \in Addrs : acked'[a] # Unknown =>
          /\ LastOf(slot'[Other(p)], a) = acked'[a]
          /\ \/ LastOf(slot'[p], a) = acked'[a]
             \/ LastOf(slot'[p], a) = NotFound /\ slot'[p][1].addr # a
    BY <1>2, <1>4, <2>2, <2>3, <2>4 DEF Keeps, Partial
  <2>6. PagesKeep'
    BY <2>1, <2>2, <2>3, <2>5, TwoKeep DEF Receiving
  <2> QED
    BY <1>2, <1>3, <2>1, <2>2, <2>3, <2>6 DEF CallKeeps
<1>10. CASE TransferSkip
  <2>1. Receiving(p, idx) /\ pc = "t_copy" /\ idx \in 1..NumbOfVar
    BY <1>1, <1>3, <1>4, <1>10 DEF TransferSkip, Phase
  <2>2. Keeps(Other(p)) /\ Partial(p) /\ ReadPage = Other(p)
    BY <1>5, <2>1 DEF Receiving
  <2>3. ~Holds(ReadPage, VirtAddVarTab[idx]) \/ acked[VirtAddVarTab[idx]] = Unknown
    BY <1>2, <1>10 DEF TransferSkip, TransferWants
  <2>4. \A k \in 1..NumbOfVar : k < idx + 1 /\ acked[VirtAddVarTab[k]] # Unknown =>
          LastOf(slot[p], VirtAddVarTab[k]) = acked[VirtAddVarTab[k]]
    BY <1>1, <1>3, <2>1, <2>2, <2>3, SkipKeeps
  <2>5. pc' = "t_copy" /\ idx' = idx + 1 /\ UNCHANGED <<header, slot, acked, arg, new>>
    BY <1>10 DEF TransferSkip
  <2>6. PagesKeep'
    BY <1>1, <2>5, SameReads
  <2>7. LastOf(slot[new], arg.addr) = arg.data
    BY <1>1, <2>1 DEF CallKeeps
  <2> QED
    BY <1>2, <1>3, <2>4, <2>5, <2>6, <2>7 DEF CallKeeps
<1>11. CASE TransferCopy
  <2>1. Receiving(p, idx) /\ pc = "t_copy"
    BY <1>1, <1>3, <1>11 DEF TransferCopy, Phase
  <2>2. ReadPage = Other(p)
    BY <1>5, <2>1 DEF Receiving
  <2>3. LastIn(ReadPage, VirtAddVarTab[idx]) = LastOf(slot[Other(p)], VirtAddVarTab[idx])
    BY <2>2, LastInIs
  <2>4. /\ StoreData(LastIn(ReadPage, VirtAddVarTab[idx])) /\ VirtAddVarTab[idx] # arg.addr
        /\ pc' = "t_copyaddr" /\ UNCHANGED acked
    BY <1>11 DEF TransferCopy, TransferWants, Goto
  <2>5. PagesKeep'
    BY <1>1, <2>4, DataHides, SameReads
  <2>6. /\ slot'[at'[1]][at'[2]].data = LastIn(ReadPage, VirtAddVarTab[idx])
        /\ \A a \in Addrs : LastOf(slot'[p], a) = LastOf(slot[p], a)
        /\ \A a \in Addrs : LastOf(slot'[Other(p)], a) = LastOf(slot[Other(p)], a)
        /\ UNCHANGED <<arg, new, idx>>
    BY <1>4, <2>4, DataHides
  <2>7. \A k \in 1..NumbOfVar : VirtAddVarTab[k] \in Addrs
    BY TableFacts
  <2>8. idx \in 1..NumbOfVar
    BY <1>4, <1>11 DEF TransferCopy
  <2>9. LastOf(slot'[p], arg.addr) = arg.data
    BY <1>1, <1>2, <1>3, <2>1, <2>6 DEF CallKeeps
  <2>10. \A k \in 1..NumbOfVar : k < idx /\ acked[VirtAddVarTab[k]] # Unknown =>
           LastOf(slot'[p], VirtAddVarTab[k]) = acked[VirtAddVarTab[k]]
    BY <1>1, <1>3, <2>1, <2>6, <2>7 DEF CallKeeps
  <2>11. slot'[at'[1]][at'[2]].data = LastOf(slot'[Other(p)], VirtAddVarTab[idx])
    BY <2>3, <2>6, <2>7, <2>8
  <2> QED
    BY <1>2, <1>3, <2>4, <2>5, <2>6, <2>9, <2>10, <2>11 DEF CallKeeps
<1>12. CASE TransferCopyAddr
  <2>1. Receiving(p, idx + 1) /\ at[1] = p /\ pc = "t_copyaddr"
    BY <1>1, <1>3, <1>12 DEF TransferCopyAddr, Phase
  <2>2. Keeps(Other(p)) /\ Partial(p)
    BY <1>5, <2>1 DEF Receiving
  <2>3. /\ StoreAddr(VirtAddVarTab[idx]) /\ pc' = "t_copy" /\ idx' = idx + 1
        /\ UNCHANGED <<acked, arg, new>>
    BY <1>12 DEF TransferCopyAddr, Goto
  <2>4. /\ \A k \in 1..NumbOfVar : k < idx + 1 /\ acked'[VirtAddVarTab[k]] # Unknown =>
             LastOf(slot'[p], VirtAddVarTab[k]) = acked'[VirtAddVarTab[k]]
        /\ \A a \in Addrs : a # VirtAddVarTab[idx] => LastOf(slot'[p], a) = LastOf(slot[p], a)
        /\ \A a \in Addrs : acked'[a] # Unknown =>
             /\ LastOf(slot'[Other(p)], a) = acked'[a]
             /\ \/ LastOf(slot'[p], a) = acked'[a]
                \/ LastOf(slot'[p], a) = NotFound /\ slot'[p][1].addr # a
        /\ UNCHANGED header
    BY <1>1, <1>3, <2>1, <2>2, <2>3, CopyKeeps
  <2>5. PagesKeep'
    BY <2>1, <2>3, <2>4, TwoKeep DEF Receiving
  <2>6. LastOf(slot'[p], arg.addr) = arg.data
    BY <1>1, <1>2, <1>3, <2>1, <2>4 DEF CallKeeps
  <2> QED
    BY <1>2, <1>3, <2>3, <2>4, <2>5, <2>6 DEF CallKeeps
<1>13. CASE TransferCopied
  <2>1. pc = "t_copy" /\ idx = NumbOfVar + 1
    BY <1>4, <1>13 DEF TransferCopied
  <2>2. Keeps(p)
    BY <1>1, <1>3, <2>1, CopiedKeeps
  <2>3. pc' = "t_erase" /\ UNCHANGED <<header, slot, acked, arg, new>>
    BY <1>13 DEF TransferCopied, Goto
  <2>4. PagesKeep'
    BY <1>1, <2>3, SameReads
  <2>5. LastOf(slot[new], arg.addr) = arg.data
    BY <1>1, <2>1 DEF CallKeeps
  <2> QED
    BY <1>2, <1>3, <2>2, <2>3, <2>4, <2>5 DEF CallKeeps, Keeps
<1>14. CASE TransferErase
  <2>1. header[p] = "RECEIVE_DATA" /\ Keeps(p) /\ LastOf(slot[p], arg.addr) = arg.data
    BY <1>1, <1>3, <1>14 DEF TransferErase, Phase, Receiving, CallKeeps
  <2>2. ErasePage(Other(p)) /\ pc' = "t_valid" /\ UNCHANGED <<acked, arg, new>>
    BY <1>3, <1>14 DEF TransferErase, Goto, locals
  <2>3. header'[p] = "RECEIVE_DATA" /\ header'[Other(p)] = "ERASED" /\ slot'[p] = slot[p]
    BY <1>1, <1>4, <2>1, <2>2 DEF ErasePage, TypeOK
  <2>4. PagesKeep'
    BY <2>1, <2>2, <2>3, OneKeeps DEF Keeps
  <2> QED
    BY <1>2, <1>3, <2>1, <2>2, <2>3, <2>4 DEF CallKeeps
<1>15. CASE TransferValid
  <2>1. Promotable(p) /\ LastOf(slot[p], arg.addr) = arg.data
    BY <1>1, <1>3, <1>15 DEF TransferValid, Phase, CallKeeps
  <2>2. Keeps(p)
    BY <1>1, <2>1 DEF PagesKeep, Promotable, NeedsBlank
  <2>3. header'[p] = "VALID_PAGE" /\ header'[Other(p)] = "ERASED" /\ UNCHANGED slot
    BY <1>1, <1>3, <1>4, <1>15, <2>1 DEF TransferValid, ProgramHeader, Promotable, TypeOK
  <2>4. acked' = [acked EXCEPT ![arg.addr] = arg.data] /\ pc' = "idle"
    BY <1>15 DEF TransferValid, Return, InitPoints
  <2>5. \A a \in Addrs : acked'[a] # Unknown => LastOf(slot'[p], a) = acked'[a]
    BY <1>1, <1>2, <2>1, <2>2, <2>3, <2>4 DEF Keeps, TypeOK
  <2>6. PagesKeep'
    BY <2>3, <2>4, <2>5, OneKeeps
  <2> QED
    BY <2>4, <2>6 DEF CallKeeps
<1> QED
  BY <1>6, <1>7, <1>8, <1>9, <1>10, <1>11, <1>12, <1>13, <1>14, <1>15 DEF TransferStep

LEMMA InitKeepsAcks ==
  ASSUME IInv, PagesInv, SlotsInv, AcksInv, AllTabled, RecoveryRoom, InitStep, faults = 0
  PROVE  PagesKeep' /\ CallKeeps'
<1> USE DEF WritePoints, TransferPoints
<1>1. TypeOK /\ PagesKeep /\ CallKeeps /\ Phase /\ FromFirst
  BY DEF IInv, AcksInv, PagesInv
<1>2. PICK p \in Page : new = p
  BY <1>1 DEF TypeOK
<1>3. NumbOfVar \in Nat /\ idx \in 1..(NumbOfVar + 1) /\ Other(p) \in Page /\ Other(p) # p
  BY <1>1, TableFacts, TwoPages DEF TypeOK
<1>4. ASSUME pc \in {"i_copy", "i_copyaddr", "i_valid"}
      PROVE  /\ header[p] \in {"OTHER", "RECEIVE_DATA"} /\ header[Other(p)] = "VALID_PAGE"
             /\ Keeps(Other(p)) /\ Partial(p) /\ ReadPage = Other(p)
  <2>1. CASE HalfFormatted /\ p = 1
    <3>1. header[1] = "OTHER" /\ header[0] = "VALID_PAGE" /\ Other(p) = 0
      BY <2>1 DEF HalfFormatted, Other
    <3>2. NeedsRecovery(p) /\ ReadPage = 0
      BY <2>1, <3>1 DEF NeedsRecovery, ReadPage
    <3> QED
      BY <1>1, <2>1, <3>1, <3>2 DEF PagesKeep
  <2>2. CASE header[p] = "RECEIVE_DATA" /\ header[Other(p)] = "VALID_PAGE"
    <3>1. NeedsRecovery(p) /\ ReadPage = Other(p)
      BY <2>2 DEF NeedsRecovery, ReadPage, Page, Other
    <3> QED
      BY <1>1, <2>2, <3>1 DEF PagesKeep
  <2> QED
    BY <1>1, <1>2, <1>4, <2>1, <2>2 DEF Phase, Receiving
<1>5. CASE EE_Init
  <2>1. PICK point \in {"i_blank", "i_copy", "f_erase0"}, q \in Page : InitAt(point, q)
    BY <1>5 DEF EE_Init, Page
  <2>2. pc' = point /\ idx' = 1 /\ UNCHANGED <<header, slot, acked>>
    BY <1>1, <2>1 DEF InitAt, FromFirst
  <2>3. PagesKeep'
    BY <1>1, <2>2, SameReads
  <2>4. \A k \in 1..NumbOfVar : ~(k < 1)
    BY <1>3
  <2> QED
    BY <2>2, <2>3, <2>4 DEF CallKeeps
<1>6. CASE InitBlank
  <2>1. NeedsBlank(p) /\ ErasePage(Other(p)) /\ pc' \in {"i_promote", "idle"} /\ UNCHANGED acked
    BY <1>1, <1>2, <1>6 DEF InitBlank, Phase, Return, Goto, InitPoints
  <2>2. Keeps(p)
    BY <1>1, <2>1 DEF PagesKeep
  <2>3. /\ header'[p] \in {"VALID_PAGE", "RECEIVE_DATA"} /\ header'[Other(p)] = "ERASED"
        /\ slot'[p] = slot[p]
    BY <1>1, <1>3, <2>1 DEF ErasePage, NeedsBlank, TypeOK
  <2>4. PagesKeep'
    BY <2>1, <2>2, <2>3, OneKeeps DEF Keeps
  <2> QED
    BY <2>1, <2>4 DEF CallKeeps
<1>7. CASE InitPromote
  <2>1. Promotable(p) /\ pc' = "idle" /\ UNCHANGED acked
    BY <1>1, <1>2, <1>7 DEF InitPromote, Phase, Return, InitPoints
  <2>2. Keeps(p)
    BY <1>1, <2>1 DEF PagesKeep, Promotable, NeedsBlank
  <2>3. header'[p] = "VALID_PAGE" /\ header'[Other(p)] = "ERASED" /\ UNCHANGED slot
    BY <1>1, <1>2, <1>3, <1>7, <2>1 DEF InitPromote, ProgramHeader, Promotable, TypeOK
  <2>4. PagesKeep'
    BY <2>1, <2>2, <2>3, OneKeeps DEF Keeps
  <2> QED
    BY <2>1, <2>4 DEF CallKeeps
<1>8. CASE RecoverSkip
  <2>1. pc = "i_copy" /\ idx \in 1..NumbOfVar
    BY <1>3, <1>8 DEF RecoverSkip
  <2>2. Keeps(Other(p)) /\ Partial(p) /\ ReadPage = Other(p)
    BY <1>4, <2>1
  <2>3. ~Holds(ReadPage, VirtAddVarTab[idx]) \/ slot[p][1].addr = VirtAddVarTab[idx]
    BY <1>2, <1>8 DEF RecoverSkip, RecoverWants
  <2>4. \A k \in 1..NumbOfVar : k < idx + 1 /\ acked[VirtAddVarTab[k]] # Unknown =>
          LastOf(slot[p], VirtAddVarTab[k]) = acked[VirtAddVarTab[k]]
    BY <1>1, <1>2, <2>1, <2>2, <2>3, SkipKeeps
  <2>5. pc' = "i_copy" /\ idx' = idx + 1 /\ UNCHANGED <<header, slot, acked, new>>
    BY <1>8 DEF RecoverSkip
  <2>6. PagesKeep'
    BY <1>1, <2>5, SameReads
  <2> QED
    BY <1>2, <2>4, <2>5, <2>6 DEF CallKeeps
<1>9. CASE RecoverCopy
  <2>1. pc = "i_copy" /\ idx \in 1..NumbOfVar
    BY <1>3, <1>9 DEF RecoverCopy
  <2>2. ReadPage = Other(p)
    BY <1>4, <2>1
  <2>3. LastIn(ReadPage, VirtAddVarTab[idx]) = LastOf(slot[Other(p)], VirtAddVarTab[idx])
    BY <2>2, LastInIs
  <2>4. /\ StoreData(LastIn(ReadPage, VirtAddVarTab[idx]))
        /\ pc' = "i_copyaddr" /\ UNCHANGED acked
    BY <1>9 DEF RecoverCopy, Goto
  <2>5. PagesKeep'
    BY <1>1, <2>4, DataHides, SameReads
  <2>6. /\ slot'[at'[1]][at'[2]].data = LastIn(ReadPage, VirtAddVarTab[idx])
        /\ \A a \in Addrs : LastOf(slot'[p], a) = LastOf(slot[p], a)
        /\ \A a \in Addrs : LastOf(slot'[Other(p)], a) = LastOf(slot[Other(p)], a)
        /\ UNCHANGED <<arg, new, idx>>
    BY <1>3, <2>4, DataHides
  <2>7. \A k \in 1..NumbOfVar : VirtAddVarTab[k] \in Addrs
    BY TableFacts
  <2>8. \A k \in 1..NumbOfVar : k < idx /\ acked[VirtAddVarTab[k]] # Unknown =>
          LastOf(slot'[p], VirtAddVarTab[k]) = acked[VirtAddVarTab[k]]
    BY <1>1, <1>2, <2>1, <2>6, <2>7 DEF CallKeeps
  <2>9. slot'[at'[1]][at'[2]].data = LastOf(slot'[Other(p)], VirtAddVarTab[idx])
    BY <2>1, <2>3, <2>6, <2>7
  <2> QED
    BY <1>2, <2>4, <2>5, <2>6, <2>8, <2>9 DEF CallKeeps
<1>10. CASE RecoverCopyAddr
  <2>1. pc = "i_copyaddr" /\ at[1] = p
    BY <1>1, <1>2, <1>10 DEF RecoverCopyAddr, Phase
  <2>2. /\ header[p] \in {"OTHER", "RECEIVE_DATA"} /\ header[Other(p)] = "VALID_PAGE"
        /\ Keeps(Other(p)) /\ Partial(p)
    BY <1>4, <2>1
  <2>3. /\ StoreAddr(VirtAddVarTab[idx]) /\ pc' = "i_copy" /\ idx' = idx + 1
        /\ UNCHANGED <<acked, new>>
    BY <1>10 DEF RecoverCopyAddr, Goto
  <2>4. /\ \A k \in 1..NumbOfVar : k < idx + 1 /\ acked'[VirtAddVarTab[k]] # Unknown =>
             LastOf(slot'[p], VirtAddVarTab[k]) = acked'[VirtAddVarTab[k]]
        /\ \A a \in Addrs : acked'[a] # Unknown =>
             /\ LastOf(slot'[Other(p)], a) = acked'[a]
             /\ \/ LastOf(slot'[p], a) = acked'[a]
                \/ LastOf(slot'[p], a) = NotFound /\ slot'[p][1].addr # a
        /\ UNCHANGED header
    BY <1>1, <1>2, <2>1, <2>2, <2>3, CopyKeeps
  <2>5. PagesKeep'
    BY <2>2, <2>3, <2>4, TwoKeep
  <2> QED
    BY <1>2, <2>3, <2>4, <2>5 DEF CallKeeps
<1>11. CASE RecoverFull
  <2>1. pc' # "idle"
    BY <1>11, RecoverKeepsPages
  <2> QED
    BY <1>11, <2>1 DEF RecoverFull, StoreFull, Return
<1>12. CASE RecoverCopied
  <2>1. pc = "i_copy" /\ idx = NumbOfVar + 1
    BY <1>3, <1>12 DEF RecoverCopied
  <2>2. Keeps(p)
    BY <1>1, <1>2, <2>1, CopiedKeeps
  <2>3. pc' = "i_valid" /\ UNCHANGED <<header, slot, acked, new>>
    BY <1>12 DEF RecoverCopied, Goto
  <2>4. PagesKeep'
    BY <1>1, <2>3, SameReads
  <2> QED
    BY <1>2, <2>2, <2>3, <2>4 DEF CallKeeps, Keeps
<1>13. CASE RecoverValid
  <2>1. header[Other(p)] = "VALID_PAGE" /\ Keeps(p)
    BY <1>1, <1>2, <1>4, <1>13 DEF RecoverValid, CallKeeps
  <2>2. /\ header' = [header EXCEPT ![p] = "VALID_PAGE"] /\ pc' = "i_erase"
        /\ UNCHANGED <<slot, acked, new>>
    BY <1>2, <1>13 DEF RecoverValid, ProgramHeader, Goto, locals
  <2>3. \A q \in Page : header'[q] = "VALID_PAGE"
    BY <1>1, <2>1, <2>2, TwoPages DEF TypeOK
  <2>4. PagesKeep'
    BY <2>2, <2>3, TwoPages DEF PagesKeep, NeedsBlank, NeedsRecovery, Raw
  <2> QED
    BY <1>2, <2>1, <2>2, <2>4 DEF CallKeeps, Keeps
<1>14. CASE RecoverErase
  <2>1. header[p] = "VALID_PAGE" /\ Keeps(p)
    BY <1>1, <1>2, <1>14 DEF RecoverErase, Phase, CallKeeps
  <2>2. ErasePage(Other(p)) /\ pc' = "idle" /\ UNCHANGED acked
    BY <1>2, <1>14 DEF RecoverErase, Return, InitPoints
  <2>3. header'[p] = "VALID_PAGE" /\ header'[Other(p)] = "ERASED" /\ slot'[p] = slot[p]
    BY <1>1, <1>3, <2>1, <2>2 DEF ErasePage, TypeOK
  <2>4. PagesKeep'
    BY <2>1, <2>2, <2>3, OneKeeps DEF Keeps
  <2> QED
    BY <2>2, <2>4 DEF CallKeeps
<1>15. ASSUME NEW q \in Page, ErasePage(q), Fresh, UNCHANGED acked
      PROVE  Fresh'
  <2>1. \A a \in Addrs : \A i \in Slots : BlankSlots[i].addr # a
    BY AddrAssumption DEF BlankSlots, NoVar
  <2>2. \A r \in Page : slot'[r] = BlankSlots \/ slot'[r] = slot[r]
    BY <1>1, <1>15 DEF ErasePage, TypeOK
  <2> QED
    BY <1>15, <2>1, <2>2 DEF Fresh
<1>16. CASE FormatErase0
  <2>1. Fresh /\ ErasePage(0) /\ pc' = "f_valid" /\ UNCHANGED acked
    BY <1>1, <1>16 DEF FormatErase0, Phase, PagesKeep, Goto
  <2>2. PagesKeep'
    BY <1>15, <2>1, FreshKeeps DEF Page
  <2> QED
    BY <2>1, <2>2 DEF CallKeeps
<1>17. CASE FormatValid
  <2>1. Fresh /\ pc' = "f_erase1" /\ UNCHANGED <<slot, acked>>
    BY <1>1, <1>17 DEF FormatValid, Phase, PagesKeep, ProgramHeader, Goto
  <2>2. Fresh'
    BY <2>1 DEF Fresh
  <2> QED
    BY <2>1, <2>2, FreshKeeps DEF CallKeeps
<1>18. CASE FormatErase1
  <2>1. Fresh /\ ErasePage(1) /\ pc' = "idle" /\ UNCHANGED acked
    BY <1>1, <1>18 DEF FormatErase1, PagesKeep, Return, InitPoints
  <2>2. PagesKeep'
    BY <1>15, <2>1, FreshKeeps DEF Page
  <2> QED
    BY <2>1, <2>2 DEF CallKeeps
<1> QED
  BY <1>5, <1>6, <1>7, <1>8, <1>9, <1>10, <1>11, <1>12, <1>13, <1>14, <1>16, <1>17, <1>18 DEF InitStep

LEMMA AcksStep ==
  ASSUME IInv, PagesInv, SlotsInv, AcksInv, AllTabled, RecoveryRoom, Next
  PROVE  AcksInv'
<1> USE DEF WritePoints, TransferPoints
<1> SUFFICES ASSUME faults' = 0 PROVE PagesKeep' /\ CallKeeps'
  BY DEF AcksInv
<1>1. TypeOK
  BY DEF IInv
<1>2. CASE DriverStep
  <2>1. faults = 0
    BY <1>2, DriverKeepsFaults
  <2> QED
    BY <1>2, <2>1, WriteKeepsAcks, TransferKeepsAcks, InitKeepsAcks DEF DriverStep
<1>3. ASSUME NEW a \in Addrs, NEW d \in ValuesOf[a], WriteVariable(a, d)
      PROVE  PagesKeep' /\ CallKeeps'
  <2>1. /\ faults = 0 /\ pc = "idle" /\ pc' = "w_store" /\ UNCHANGED <<header, slot>>
        /\ arg'.addr = a /\ acked' = [acked EXCEPT ![a] = Unknown]
    BY <1>3 DEF WriteVariable
  <2>2. PICK p \in Page : header[p] = "VALID_PAGE" /\ header[Other(p)] = "ERASED"
    BY <2>1 DEF PagesInv, Phase, InService
  <2>3. Keeps(p)
    BY <2>1, <2>2 DEF AcksInv, PagesKeep, NeedsBlank
  <2>4. acked'[a] = Unknown /\ \A b \in Addrs : acked'[b] # Unknown => acked'[b] = acked[b]
    BY <1>1, <2>1 DEF TypeOK
  <2>5. PagesKeep'
    BY <2>1, <2>2, <2>3, <2>4, OneKeeps DEF Keeps
  <2> QED
    BY <2>1, <2>4, <2>5 DEF CallKeeps
<1>4. CASE PowerLoss
  <2>1. faults = 0 /\ pc # "i_erase"
    BY <1>1, <1>4 DEF PowerLoss, Fault, TypeOK
  <2>2. pc' = "off" /\ UNCHANGED <<header, slot, acked>>
    BY <1>4, <2>1 DEF PowerLoss, flash
  <2>3. PagesKeep'
    BY <2>1, <2>2, SameReads DEF AcksInv
  <2> QED
    BY <2>2, <2>3 DEF CallKeeps
<1>5. CASE FlashFails
  BY <1>1, <1>5, BoundAssumption DEF FlashFails, Fault, TypeOK
<1> QED
  BY <1>2, <1>3, <1>4, <1>5 DEF Next

-----------------------------------------------------------------------------
(* How far a transfer or a recovery is, whatever was acknowledged.          *)

\* Page p needs no more of variable a from the other page.
Same(p, a) == slot[p][1].addr # a /\ LastOf(slot[Other(p)], a) # NotFound =>
                LastOf(slot[p], a) = LastOf(slot[Other(p)], a)

CopyInv ==
  faults = 0 =>
    /\ pc \in {"t_copy", "t_copyaddr", "t_erase"} => slot[new][1].addr = arg.addr
    /\ pc \in {"t_copyaddr", "i_copyaddr"} =>
         /\ slot[new][1].addr # VirtAddVarTab[idx]
         /\ LastOf(slot[Other(new)], VirtAddVarTab[idx]) # NotFound
    /\ pc \in {"t_copy", "t_copyaddr", "i_copy", "i_copyaddr"} =>
         \A k \in 1..NumbOfVar : k < idx => Same(new, VirtAddVarTab[k])
    /\ pc \in {"t_erase", "i_valid"} => \A a \in Addrs : Same(new, a)

\* A variable that a page holds is found there.
LEMMA HeldIsFound ==
  ASSUME IInv, NEW p \in Page, NEW a \in Addrs, Holds(p, a)
  PROVE  LastOf(slot[p], a) # NotFound
<1>1. PICK i \in Slots : slot[p][i].addr = a /\ LastIn(p, a) = slot[p][i].data
  BY LastInFacts
<1> QED
  BY <1>1, LastInIs, AddrAssumption DEF IInv, SlotsOwnData

\* The four steps of the copying loops.
LEMMA SkipSame ==
  ASSUME IInv, NEW p \in Page, new = p, ReadPage = Other(p), idx \in 1..NumbOfVar,
         \A k \in 1..NumbOfVar : k < idx => Same(p, VirtAddVarTab[k]),
         \/ ~Holds(ReadPage, VirtAddVarTab[idx])
         \/ slot[p][1].addr = VirtAddVarTab[idx]
  PROVE  \A k \in 1..NumbOfVar : k < idx + 1 => Same(p, VirtAddVarTab[k])
<1>1. Same(p, VirtAddVarTab[idx])
  BY LastInIs DEF Same
<1>2. \A k \in 1..NumbOfVar : k < idx + 1 => k < idx \/ k = idx
  OBVIOUS
<1> QED
  BY <1>1, <1>2

LEMMA HideSame ==
  ASSUME IInv, SlotsInv, NEW p \in Page, NEW d, StoreData(d), NEW a \in Addrs
  PROVE  /\ Same(p, a) => Same(p, a)'
         /\ slot'[p][1].addr = slot[p][1].addr
         /\ LastOf(slot'[Other(p)], a) = LastOf(slot[Other(p)], a)
<1>1. 1 \in Slots
  BY BoundAssumption DEF Slots
<1>2. /\ LastOf(slot'[p], a) = LastOf(slot[p], a)
      /\ LastOf(slot'[Other(p)], a) = LastOf(slot[Other(p)], a)
      /\ slot'[p][1].addr = slot[p][1].addr
  BY <1>1, DataHides, TwoPages
<1> QED
  BY <1>2 DEF Same

LEMMA CopySame ==
  ASSUME IInv, SlotsInv, CallKeeps, NEW p \in Page, new = p, at[1] = p,
         pc \in {"t_copyaddr", "i_copyaddr"}, StoreAddr(VirtAddVarTab[idx]),
         \A k \in 1..NumbOfVar : k < idx => Same(p, VirtAddVarTab[k])
  PROVE  /\ \A k \in 1..NumbOfVar : k < idx + 1 => Same(p, VirtAddVarTab[k])'
         /\ \A a \in Addrs : slot[p][1].addr = a => slot'[p][1].addr = a
<1> DEFINE v == VirtAddVarTab[idx]
<1>1. idx \in 1..NumbOfVar /\ v \in Addrs /\ 1 \in Slots
  BY TableFacts, BoundAssumption DEF IInv, CopyInTable, Slots
<1>2. /\ LastOf(slot'[p], v) = slot[p][at[2]].data
      /\ \A a \in Addrs : a # v => LastOf(slot'[p], a) = LastOf(slot[p], a)
      /\ slot'[p][1].addr = IF 1 = at[2] THEN v ELSE slot[p][1].addr
      /\ slot[p][at[2]].addr = Blank
      /\ slot'[Other(p)] = slot[Other(p)]
  BY <1>1, AddrShows
<1>3. slot[p][at[2]].data = LastOf(slot[Other(p)], v)
  BY DEF CallKeeps
<1> HIDE DEF v
<1>4. \A a \in Addrs : slot[p][1].addr = a => slot'[p][1].addr = a
  BY <1>2, AddrAssumption
<1>6. ASSUME NEW a \in Addrs, a # v, Same(p, a)
      PROVE  /\ slot'[p][1].addr # a /\ LastOf(slot'[Other(p)], a) # NotFound =>
                  LastOf(slot'[p], a) = LastOf(slot'[Other(p)], a)
  BY <1>2, <1>4, <1>6 DEF Same
<1>7. ASSUME NEW k \in 1..NumbOfVar, k < idx + 1
      PROVE  /\ slot'[p][1].addr # VirtAddVarTab[k] /\ LastOf(slot'[Other(p)], VirtAddVarTab[k]) # NotFound =>
                  LastOf(slot'[p], VirtAddVarTab[k]) = LastOf(slot'[Other(p)], VirtAddVarTab[k])
  <2>1. VirtAddVarTab[k] \in Addrs
    BY <1>7, TableFacts
  <2>2. CASE VirtAddVarTab[k] = v
    BY <1>2, <1>3, <2>2
  <2>3. CASE VirtAddVarTab[k] # v
    <3>1. k < idx
      BY <1>1, <1>7, <2>3, TableFacts DEF v
    <3>2. Same(p, VirtAddVarTab[k])
      BY <1>7, <3>1
    <3> QED
      BY <1>6, <2>1, <2>3, <3>2
  <2> QED
    BY <2>2, <2>3
<1> QED
  BY <1>4, <1>7 DEF Same

\* Outside a call of EE_WriteVariable there is no argument.
NoArg == pc \notin WritePoints \cup TransferPoints => arg.addr = Blank

LEMMA ArgStep == NoArg /\ [Next]_vars => NoArg'
<1> USE DEF WritePoints, TransferPoints
<1> SUFFICES ASSUME NoArg, [Next]_vars PROVE NoArg'
  OBVIOUS
<1>1. ASSUME NEW code, Return(code)
      PROVE  NoArg'
  BY <1>1 DEF Return, NoLocals, NoVar, NoArg
<1>2. ASSUME UNCHANGED arg, pc' \notin WritePoints \cup TransferPoints => pc \notin WritePoints \cup TransferPoints
      PROVE  NoArg'
  BY <1>2 DEF NoArg
<1>3. CASE WriteStep
  BY <1>1, <1>2, <1>3 DEF WriteStep, WriteStore, WriteNoPage, WriteAddr, WriteTransfer, StoreData, Goto
<1>4. CASE TransferStep
  BY <1>1, <1>2, <1>4 DEF TransferStep, TransferMark, TransferRefused, TransferStore, TransferAddr,
     TransferSkip, TransferCopy, TransferCopyAddr, TransferCopied, TransferErase, TransferValid,
     StoreData, Goto, locals
<1>5. CASE InitStep
  BY <1>1, <1>2, <1>5 DEF InitStep, EE_Init, InitAt, InitBlank, InitPromote, RecoverSkip, RecoverCopy,
     RecoverCopyAddr, RecoverFull, StoreFull, RecoverCopied, RecoverValid, RecoverErase,
     FormatErase0, FormatValid, FormatErase1, StoreData, Goto, locals
<1>6. CASE \E a \in Addrs : \E d \in ValuesOf[a] : WriteVariable(a, d)
  BY <1>6 DEF WriteVariable, NoArg
<1>7. CASE PowerLoss \/ FlashFails
  BY <1>7 DEF PowerLoss, FlashFails, NoLocals, NoVar, NoArg
<1>8. CASE UNCHANGED vars
  BY <1>8 DEF vars, NoArg
<1> QED
  BY <1>3, <1>4, <1>5, <1>6, <1>7, <1>8 DEF Next, DriverStep

\* With one more step of the loops, or none, the pages are Same so far.
LEMMA CopyStep ==
  ASSUME IInv, PagesInv, SlotsInv, AcksInv, CopyInv, AllTabled, RecoveryRoom, Next
  PROVE  CopyInv'
<1> SUFFICES ASSUME faults' = 0 PROVE CopyInv'
  BY DEF CopyInv
<1>1. TypeOK
  BY DEF IInv
<1>2. PICK p \in Page : new = p
  BY <1>1 DEF TypeOK
<1>3. NumbOfVar \in Nat /\ idx \in 1..(NumbOfVar + 1) /\ Other(p) \in Page /\ Other(p) # p /\ 1 \in Slots
  BY <1>1, TableFacts, TwoPages, BoundAssumption DEF TypeOK, Slots
<1>4. ASSUME pc' \notin {"t_copy", "t_copyaddr", "t_erase", "i_copy", "i_copyaddr", "i_valid"}
      PROVE  CopyInv'
  BY <1>4 DEF CopyInv
<1>5. CASE DriverStep
  <2>1. faults = 0
    BY <1>5, DriverKeepsFaults
  <2>2. PagesKeep /\ CallKeeps /\ Phase /\ FromFirst
    BY <2>1 DEF AcksInv, PagesInv
  <2>3. ASSUME pc \in {"t_copy", "t_copyaddr"}
        PROVE  ReadPage = Other(p)
    BY <1>2, <2>2, <2>3, ReceivingPages DEF Phase
  <2>4. ASSUME pc \in {"i_copy", "i_copyaddr"}
        PROVE  ReadPage = Other(p)
    <3>1. CASE HalfFormatted /\ p = 1
      BY <3>1 DEF HalfFormatted, ReadPage, Other
    <3> QED
      BY <1>2, <2>2, <2>4, <3>1, ReceivingPages DEF Phase
  <2>5. CASE WriteStep
    BY <1>4, <2>5 DEF WriteStep, WriteStore, WriteNoPage, WriteAddr, WriteTransfer, Return, Goto
  <2>6. CASE TransferMark \/ TransferRefused \/ TransferStore \/ TransferErase \/ TransferValid
    BY <1>4, <2>6 DEF TransferMark, TransferRefused, TransferStore, TransferErase, TransferValid,
       Return, Goto
  <2>7. CASE TransferAddr
    <3>1. at[1] = p /\ at[2] <= 1 /\ idx = 1 /\ at \in Page \X Slots /\ arg.addr \in Addrs
      BY <1>2, <2>2, <2>7 DEF TransferAddr, Phase, FromFirst, IInv, HalfWritten, ArgOwnsData, TransferPoints
    <3>2. at[2] = 1
      BY <3>1, BoundAssumption DEF Slots
    <3>3. StoreAddr(arg.addr) /\ pc' = "t_copy" /\ UNCHANGED <<arg, new, idx>>
      BY <2>7 DEF TransferAddr, Goto, locals
    <3>4. slot'[p][1].addr = arg.addr
      BY <1>3, <2>7, <3>1, <3>2, <3>3, AddrShows DEF TransferAddr
    <3>5. \A k \in 1..NumbOfVar : ~(k < 1)
      BY <1>3
    <3> QED
      BY <1>2, <3>1, <3>3, <3>4, <3>5 DEF CopyInv
  <2>8. CASE TransferSkip
    <3>1. pc = "t_copy" /\ idx \in 1..NumbOfVar /\ slot[p][1].addr = arg.addr
      BY <1>2, <1>3, <2>1, <2>8 DEF TransferSkip, CopyInv
    <3>2. \A k \in 1..NumbOfVar : k < idx + 1 => Same(p, VirtAddVarTab[k])
      BY <1>2, <2>1, <2>3, <2>8, <3>1, SkipSame DEF TransferSkip, TransferWants, CopyInv
    <3>3. pc' = "t_copy" /\ idx' = idx + 1 /\ UNCHANGED <<slot, arg, new>>
      BY <2>8 DEF TransferSkip
    <3> QED
      BY <1>2, <3>1, <3>2, <3>3 DEF CopyInv, Same
  <2>9. CASE RecoverSkip
    <3>1. pc = "i_copy" /\ idx \in 1..NumbOfVar
      BY <1>3, <2>9 DEF RecoverSkip
    <3>2. \A k \in 1..NumbOfVar : k < idx + 1 => Same(p, VirtAddVarTab[k])
      BY <1>2, <2>1, <2>4, <2>9, <3>1, SkipSame DEF RecoverSkip, RecoverWants, CopyInv
    <3>3. pc' = "i_copy" /\ idx' = idx + 1 /\ UNCHANGED <<slot, arg, new>>
      BY <2>9 DEF RecoverSkip
    <3> QED
      BY <1>2, <3>2, <3>3 DEF CopyInv, Same
  <2>10. CASE TransferCopy \/ RecoverCopy
    <3>1. pc \in {"t_copy", "i_copy"} /\ idx \in 1..NumbOfVar /\ VirtAddVarTab[idx] \in Addrs
      BY <1>3, <2>10, TableFacts DEF TransferCopy, RecoverCopy
    <3>2. PICK d : StoreData(d)
      BY <2>10 DEF TransferCopy, RecoverCopy
    <3>3. ReadPage = Other(p) /\ Holds(Other(p), VirtAddVarTab[idx])
          /\ slot[p][1].addr # VirtAddVarTab[idx]
      BY <1>2, <2>1, <2>3, <2>4, <2>10, <3>1
         DEF TransferCopy, RecoverCopy, TransferWants, RecoverWants, CopyInv
    <3>4. LastOf(slot[Other(p)], VirtAddVarTab[idx]) # NotFound
      BY <1>3, <3>1, <3>3, HeldIsFound
    <3>5. UNCHANGED <<arg, new, idx>> /\ slot'[p][1].addr = slot[p][1].addr
      BY <1>3, <3>2, DataHides
    <3>6. \A k \in 1..NumbOfVar : k < idx => Same(p, VirtAddVarTab[k])
      BY <1>2, <2>1, <3>1 DEF CopyInv
    <3>7. \A k \in 1..NumbOfVar : k < idx => Same(p, VirtAddVarTab[k])'
      <4> SUFFICES ASSUME NEW k \in 1..NumbOfVar, k < idx PROVE Same(p, VirtAddVarTab[k])'
        OBVIOUS
      <4> DEFINE a == VirtAddVarTab[k]
      <4>1. a \in Addrs /\ Same(p, a)
        BY <3>6, TableFacts
      <4>2. /\ LastOf(slot'[p], a) = LastOf(slot[p], a)
            /\ LastOf(slot'[Other(p)], a) = LastOf(slot[Other(p)], a)
        BY <1>3, <3>2, <4>1, DataHides
      <4> QED
        BY <3>5, <4>1, <4>2 DEF Same
    <3>8. LastOf(slot'[Other(p)], VirtAddVarTab[idx]) # NotFound
      BY <1>3, <3>1, <3>2, <3>4, DataHides
    <3>9. CASE TransferCopy
      <4>1. slot[p][1].addr = arg.addr /\ pc' = "t_copyaddr"
        BY <1>2, <2>1, <3>9 DEF TransferCopy, CopyInv, Goto
      <4> QED
        BY <1>2, <3>3, <3>5, <3>7, <3>8, <4>1 DEF CopyInv, Same
    <3>10. CASE RecoverCopy
      <4>1. pc' = "i_copyaddr"
        BY <3>10 DEF RecoverCopy, Goto
      <4> QED
        BY <1>2, <3>3, <3>5, <3>7, <3>8, <4>1 DEF CopyInv, Same
    <3> QED
      BY <2>10, <3>9, <3>10
  <2>11. CASE TransferCopyAddr \/ RecoverCopyAddr
    <3>1. /\ pc \in {"t_copyaddr", "i_copyaddr"} /\ at[1] = p /\ StoreAddr(VirtAddVarTab[idx])
          /\ idx' = idx + 1 /\ UNCHANGED <<arg, new>>
      BY <1>2, <2>2, <2>11 DEF TransferCopyAddr, RecoverCopyAddr, Phase
    <3>2. \A k \in 1..NumbOfVar : k < idx => Same(p, VirtAddVarTab[k])
      BY <1>2, <2>1, <3>1 DEF CopyInv
    <3>3. /\ \A k \in 1..NumbOfVar : k < idx + 1 => Same(p, VirtAddVarTab[k])'
          /\ \A a \in Addrs : slot[p][1].addr = a => slot'[p][1].addr = a
      BY <1>2, <2>2, <3>1, <3>2, CopySame
    <3>4. CASE TransferCopyAddr
      <4>1. slot[p][1].addr = arg.addr /\ pc' = "t_copy" /\ arg.addr \in Addrs
        BY <1>2, <2>1, <3>4 DEF TransferCopyAddr, CopyInv, Goto, IInv, ArgOwnsData, TransferPoints
      <4> QED
        BY <1>2, <3>1, <3>3, <4>1 DEF CopyInv, Same
    <3>5. CASE RecoverCopyAddr
      <4>1. pc' = "i_copy"
        BY <3>5 DEF RecoverCopyAddr, Goto
      <4> QED
        BY <1>2, <3>1, <3>3, <4>1 DEF CopyInv, Same
    <3> QED
      BY <2>11, <3>4, <3>5
  <2>12. CASE TransferCopied \/ RecoverCopied
    <3>1. pc \in {"t_copy", "i_copy"} /\ idx = NumbOfVar + 1
      BY <1>3, <2>12 DEF TransferCopied, RecoverCopied
    <3>2. \A k \in 1..NumbOfVar : k < idx
      BY <1>3, <3>1
    <3>3. \A a \in Addrs : Same(p, a)
      BY <1>2, <2>1, <3>1, <3>2 DEF CopyInv, AllTabled
    <3>4. UNCHANGED <<slot, arg, new>>
      BY <2>12 DEF TransferCopied, RecoverCopied
    <3>5. CASE TransferCopied
      <4>1. slot[p][1].addr = arg.addr /\ pc' = "t_erase"
        BY <1>2, <2>1, <3>5 DEF TransferCopied, CopyInv, Goto
      <4> QED
        BY <1>2, <3>3, <3>4, <4>1 DEF CopyInv, Same
    <3>6. CASE RecoverCopied
      <4>1. pc' = "i_valid"
        BY <3>6 DEF RecoverCopied, Goto
      <4> QED
        BY <1>2, <3>3, <3>4, <4>1 DEF CopyInv, Same
    <3> QED
      BY <2>12, <3>5, <3>6
  <2>13. CASE EE_Init
    <3>1. pc' \in {"i_blank", "i_copy", "f_erase0"} /\ idx' = 1
      BY <2>2, <2>13 DEF EE_Init, InitAt, FromFirst
    <3>2. \A k \in 1..NumbOfVar : ~(k < 1)
      BY <1>3
    <3> QED
      BY <3>1, <3>2 DEF CopyInv
  <2>14. CASE InitBlank \/ InitPromote \/ RecoverFull \/ RecoverValid \/ RecoverErase
              \/ FormatErase0 \/ FormatValid \/ FormatErase1
    BY <1>4, <2>14 DEF InitBlank, InitPromote, RecoverFull, StoreFull, RecoverValid, RecoverErase,
       FormatErase0, FormatValid, FormatErase1, Return, Goto
  <2> QED
    BY <1>5, <2>5, <2>6, <2>7, <2>8, <2>9, <2>10, <2>11, <2>12, <2>13, <2>14
       DEF DriverStep, TransferStep, InitStep
<1>6. CASE \E a \in Addrs : \E d \in ValuesOf[a] : WriteVariable(a, d)
  BY <1>4, <1>6 DEF WriteVariable
<1>7. CASE PowerLoss \/ FlashFails
  BY <1>4, <1>7 DEF PowerLoss, FlashFails
<1> QED
  BY <1>5, <1>6, <1>7 DEF Next

-----------------------------------------------------------------------------
(* What the flash will read as once EE_Init has run.                        *)

Recovers(h, p) == h[Other(p)] = "VALID_PAGE"
               /\ h[p] \in (IF p = 0 THEN {"RECEIVE_DATA"} ELSE {"RECEIVE_DATA", "OTHER"})
Blanks(h, p) == h[Other(p)] = "ERASED" /\ h[p] \in {"VALID_PAGE", "RECEIVE_DATA"}

\* AfterRecovery of slots s: page p receives from the other.
Merged(s, p, a) == IF s[p][1].addr # a /\ LastOf(s[Other(p)], a) # NotFound
                   THEN LastOf(s[Other(p)], a) ELSE LastOf(s[p], a)

\* Durable, of headers h and slots s; n is the page a recovery keeps.
DurableOf(h, s, c, n, a) ==
  IF c = "i_erase" THEN LastOf(s[n], a)
  ELSE IF Recovers(h, 0) THEN Merged(s, 0, a)
  ELSE IF Recovers(h, 1) THEN Merged(s, 1, a)
  ELSE IF Blanks(h, 0) THEN LastOf(s[0], a)
  ELSE IF Blanks(h, 1) THEN LastOf(s[1], a) ELSE NotFound

LEMMA DurableCases ==
  ASSUME NEW h, NEW s, NEW c, NEW n, NEW a, NEW p \in Page, c # "i_erase"
  PROVE  /\ Blanks(h, p) => DurableOf(h, s, c, n, a) = LastOf(s[p], a)
         /\ Recovers(h, p) => DurableOf(h, s, c, n, a) = Merged(s, p, a)
         /\ (\A q \in Page : h[q] \in {"ERASED", "OTHER"}) => DurableOf(h, s, c, n, a) = NotFound
<1>1. CASE Blanks(h, p)
  <2>1. \A q \in Page : ~Recovers(h, q)
    BY <1>1, TwoPages DEF Blanks, Recovers
  <2>2. \A q \in Page : Blanks(h, q) => q = p
    BY <1>1, TwoPages DEF Blanks
  <2>3. DurableOf(h, s, c, n, a) = LastOf(s[p], a)
    BY <1>1, <2>1, <2>2 DEF DurableOf, Page
  <2> QED
    BY <1>1, <2>1, <2>3, TwoPages DEF Blanks
<1>2. CASE Recovers(h, p)
  <2>1. \A q \in Page : ~Blanks(h, q)
    BY <1>2, TwoPages DEF Blanks, Recovers
  <2>2. \A q \in Page : Recovers(h, q) => q = p
    BY <1>2, TwoPages DEF Recovers
  <2>3. DurableOf(h, s, c, n, a) = Merged(s, p, a)
    BY <1>2, <2>1, <2>2 DEF DurableOf, Page
  <2> QED
    BY <1>2, <2>1, <2>3, TwoPages DEF Recovers
<1>3. CASE \A q \in Page : h[q] \in {"ERASED", "OTHER"}
  <2>1. \A q \in Page : ~Blanks(h, q) /\ ~Recovers(h, q)
    BY <1>3, TwoPages DEF Blanks, Recovers
  <2> QED
    BY <1>3, <2>1 DEF DurableOf, Page
<1> QED
  BY <1>1, <1>2, <1>3

LEMMA DurableIfBlanks ==
  ASSUME NEW h, NEW s, NEW c, NEW n, NEW a, NEW p \in Page, Blanks(h, p), c # "i_erase"
  PROVE  DurableOf(h, s, c, n, a) = LastOf(s[p], a)
  BY DurableCases

LEMMA DurableIfRecovers ==
  ASSUME NEW h, NEW s, NEW c, NEW n, NEW a, NEW p \in Page, Recovers(h, p), c # "i_erase"
  PROVE  DurableOf(h, s, c, n, a) = Merged(s, p, a)
  BY DurableCases

\* It is what one of the pages reads as.
LEMMA DurableIsRead ==
  ASSUME NEW h, NEW s, NEW c, NEW n \in Page, NEW a
  PROVE  \/ DurableOf(h, s, c, n, a) = NotFound
         \/ \E p \in Page : DurableOf(h, s, c, n, a) = LastOf(s[p], a)
  BY TwoPages DEF DurableOf, Merged, Page

\* It depends on no more than what the pages read as and name first.
LEMMA DurableSame ==
  ASSUME NEW h, NEW s, NEW t, NEW c, NEW e, NEW n, NEW m, NEW a, c # "i_erase", e # "i_erase",
         \A p \in Page : LastOf(s[p], a) = LastOf(t[p], a) /\ s[p][1].addr = t[p][1].addr
  PROVE  DurableOf(h, s, c, n, a) = DurableOf(h, t, e, m, a)
<1>1. CASE \E p \in Page : Recovers(h, p)
  <2>1. PICK p \in Page : Recovers(h, p)
    BY <1>1
  <2>2. Merged(s, p, a) = Merged(t, p, a)
    BY TwoPages DEF Merged
  <2> QED
    BY <2>1, <2>2, DurableCases
<1>2. CASE \E p \in Page : Blanks(h, p)
  <2>1. PICK p \in Page : Blanks(h, p)
    BY <1>2
  <2>2. DurableOf(h, s, c, n, a) = LastOf(s[p], a)
    BY <2>1, DurableIfBlanks
  <2>3. DurableOf(h, t, e, m, a) = LastOf(t[p], a)
    BY <2>1, DurableIfBlanks
  <2> QED
    BY <2>2, <2>3
<1>3. CASE \A p \in Page : ~Recovers(h, p) /\ ~Blanks(h, p)
  BY <1>3 DEF DurableOf, Page
<1> QED
  BY <1>1, <1>2, <1>3

\* Durable is DurableOf the flash.
LEMMA DurableIs ==
  ASSUME IInv, NEW a \in Addrs
  PROVE  Durable(a) = DurableOf(header, slot, pc, new, a)
<1>1. \A p \in Page : NeedsRecovery(p) <=> Recovers(header, p)
  BY DEF NeedsRecovery, Recovers
<1>2. \A p \in Page : NeedsBlank(p) <=> Blanks(header, p)
  BY DEF NeedsBlank, Blanks
<1>3. ASSUME NEW p \in Page
      PROVE  AfterRecovery(p, a) = Merged(slot, p, a)
  <2>1. Holds(Other(p), a) <=> LastOf(slot[Other(p)], a) # NotFound
    BY HeldIsFound, LastInIs, TwoPages
  <2> QED
    BY <2>1, LastInIs DEF AfterRecovery, Merged
<1>4. \A p \in Page : LastIn(p, a) = LastOf(slot[p], a)
  BY LastInIs
<1>5. 0 \in Page /\ 1 \in Page /\ Other(0) = 1 /\ Other(1) = 0
  BY DEF Page, Other
<1>6. CASE pc = "i_erase"
  BY <1>4, <1>6 DEF Durable, DurableOf, IInv, TypeOK
<1>7. ASSUME NEW p \in Page, NeedsRecovery(p), pc # "i_erase"
      PROVE  Durable(a) = DurableOf(header, slot, pc, new, a)
  <2>1. /\ NeedsRecovery(0) => ~NeedsRecovery(1)
        /\ ~NeedsBlank(0) /\ ~NeedsBlank(1)
    BY <1>5, <1>7, TwoPages DEF NeedsRecovery, NeedsBlank
  <2>2. Durable(a) = AfterRecovery(p, a)
    BY <1>7, <2>1 DEF Durable, Page
  <2> QED
    BY <1>1, <1>3, <1>7, <2>2, DurableIfRecovers
<1>8. ASSUME NEW p \in Page, NeedsBlank(p), pc # "i_erase"
      PROVE  Durable(a) = DurableOf(header, slot, pc, new, a)
  <2>1. /\ NeedsBlank(0) => ~NeedsBlank(1)
        /\ ~NeedsRecovery(0) /\ ~NeedsRecovery(1)
    BY <1>5, <1>8, TwoPages DEF NeedsRecovery, NeedsBlank
  <2>2. Durable(a) = LastIn(p, a)
    BY <1>8, <2>1 DEF Durable, Page
  <2> QED
    BY <1>2, <1>4, <1>8, <2>2, DurableIfBlanks
<1>9. CASE pc # "i_erase" /\ \A p \in Page : ~NeedsRecovery(p) /\ ~NeedsBlank(p)
  BY <1>1, <1>2, <1>5, <1>9 DEF Durable, DurableOf
<1> QED
  BY <1>6, <1>7, <1>8, <1>9

LEMMA DurableIsNow == IInv => \A a \in Addrs : Durable(a) = DurableOf(header, slot, pc, new, a)
  BY DurableIs

LEMMA DurableIsNext == IInv' => (\A a \in Addrs : Durable(a) = DurableOf(header, slot, pc, new, a))'
  BY DurableIsNow, PTL

-----------------------------------------------------------------------------
(* The driver implements EEStore, step by step.                             *)

\* The step changes nothing that a read will deliver ...
Still == \A a \in Addrs :
  DurableOf(header', slot', pc', new', a) = DurableOf(header, slot, pc, new, a)

\* ... or the data of the write in progress takes effect.
Commits == \A a \in Addrs :
  DurableOf(header', slot', pc', new', a) =
    IF a = arg.addr THEN arg.data ELSE DurableOf(header, slot, pc, new, a)

LEMMA StillIfSame ==
  ASSUME UNCHANGED header, pc # "i_erase", pc' # "i_erase",
         \A p \in Page : \A a \in Addrs : LastOf(slot'[p], a) = LastOf(slot[p], a),
         \A p \in Page : \A i \in Slots : slot'[p][i].addr = slot[p][i].addr
  PROVE  Still
<1>1. 1 \in Slots
  BY BoundAssumption DEF Slots
<1> SUFFICES ASSUME NEW a \in Addrs
             PROVE  DurableOf(header', slot', pc', new', a) = DurableOf(header, slot, pc, new, a)
  BY DEF Still
<1>2. \A p \in Page : LastOf(slot[p], a) = LastOf(slot'[p], a) /\ slot[p][1].addr = slot'[p][1].addr
  BY <1>1
<1> QED
  BY <1>2, DurableSame

\* A page in service, or about to be: what its slots say.
LEMMA StillIfOne ==
  ASSUME NEW p \in Page, Blanks(header, p), Blanks(header', p), pc # "i_erase", pc' # "i_erase",
         \A a \in Addrs : LastOf(slot'[p], a) = LastOf(slot[p], a)
  PROVE  Still
<1>1. \A a \in Addrs : DurableOf(header, slot, pc, new, a) = LastOf(slot[p], a)
  BY DurableIfBlanks
<1>2. \A a \in Addrs : DurableOf(header', slot', pc', new', a) = LastOf(slot'[p], a)
  BY DurableIfBlanks
<1> QED
  BY <1>1, <1>2 DEF Still

LEMMA WriteSimulates ==
  ASSUME IInv, PagesInv, SlotsInv, AcksInv, WriteStep, faults = 0
  PROVE  \/ Still /\ UNCHANGED arg
         \/ Commits /\ arg' = NoVar
<1>1. TypeOK /\ CallKeeps
  BY DEF IInv, AcksInv
<1>2. pc \in {"w_store", "w_addr"} /\ arg.addr \in Addrs
  BY <1>1 DEF WriteStep, WriteStore, WriteNoPage, WriteAddr, WriteTransfer, IInv, ArgOwnsData,
     WritePoints
<1>3. PICK p \in Page : InUse(p)
  BY <1>2 DEF PagesInv, Phase, InService, InUse
<1>4. WritePage = p /\ WritePage # NoPage
  BY <1>3, InUsePages DEF Page, NoPage
<1>5. CASE WriteStore
  <2>1. StoreData(arg.data) /\ pc' = "w_addr"
    BY <1>5 DEF WriteStore, Goto
  <2>2. Still
    BY <1>2, <2>1, DataHides, StillIfSame
  <2> QED
    BY <2>1, <2>2 DEF StoreData
<1>6. CASE WriteNoPage
  BY <1>4, <1>6 DEF WriteNoPage
<1>7. CASE WriteAddr
  <2>1. at \in Page \X Slots /\ header[at[1]] = "VALID_PAGE" /\ StoreAddr(arg.addr) /\ pc = "w_addr"
    BY <1>7 DEF WriteAddr, IInv, HalfWritten, PagesInv, Phase
  <2>2. at[1] = p
    BY <1>3, <2>1, TwoPages DEF InUse
  <2>3. /\ LastOf(slot'[p], arg.addr) = arg.data
        /\ \A a \in Addrs : a # arg.addr => LastOf(slot'[p], a) = LastOf(slot[p], a)
        /\ UNCHANGED header
    BY <1>1, <1>2, <2>1, <2>2, AddrShows DEF CallKeeps
  <2>4. pc' = "idle" /\ arg' = NoVar
    BY <1>7 DEF WriteAddr, Return, NoLocals
  <2>5. Blanks(header, p) /\ Blanks(header', p)
    BY <1>3, <2>3 DEF InUse, Blanks
  <2>6. \A a \in Addrs : DurableOf(header, slot, pc, new, a) = LastOf(slot[p], a)
    BY <2>1, <2>5, DurableIfBlanks
  <2>7. \A a \in Addrs : DurableOf(header', slot', pc', new', a) = LastOf(slot'[p], a)
    BY <2>4, <2>5, DurableIfBlanks
  <2>8. Commits
    BY <2>3, <2>6, <2>7 DEF Commits
  <2> QED
    BY <2>4, <2>8
<1>8. CASE WriteTransfer
  <2>1. pc' = "t_mark" /\ UNCHANGED <<header, slot, arg>>
    BY <1>8 DEF WriteTransfer, Goto
  <2>2. Still
    BY <1>2, <2>1, StillIfSame
  <2> QED
    BY <2>1, <2>2
<1> QED
  BY <1>5, <1>6, <1>7, <1>8 DEF WriteStep

\* The copy of a variable: it was read from the other page, and now from this one or still
\* from the other.
LEMMA CopyStill ==
  ASSUME IInv, SlotsInv, CallKeeps, CopyInv, faults = 0, NEW p \in Page, new = p, at[1] = p,
         pc \in {"t_copyaddr", "i_copyaddr"}, StoreAddr(VirtAddVarTab[idx]), Recovers(header, p),
         pc' # "i_erase"
  PROVE  Still
<1> DEFINE v == VirtAddVarTab[idx]
<1>1. idx \in 1..NumbOfVar /\ v \in Addrs /\ 1 \in Slots
  BY TableFacts, BoundAssumption DEF IInv, CopyInTable, Slots
<1>2. /\ LastOf(slot'[p], v) = slot[p][at[2]].data
      /\ \A a \in Addrs : a # v => LastOf(slot'[p], a) = LastOf(slot[p], a)
      /\ slot'[p][1].addr = IF 1 = at[2] THEN v ELSE slot[p][1].addr
      /\ slot[p][at[2]].addr = Blank
      /\ slot'[Other(p)] = slot[Other(p)]
      /\ UNCHANGED header
  BY <1>1, AddrShows
<1>3. slot[p][at[2]].data = LastOf(slot[Other(p)], v)
  BY DEF CallKeeps
<1>4. slot[p][1].addr # v /\ LastOf(slot[Other(p)], v) # NotFound
  BY DEF CopyInv
<1> HIDE DEF v
<1>5. ASSUME NEW a \in Addrs
      PROVE  Merged(slot', p, a) = Merged(slot, p, a)
  <2>1. CASE a = v
    BY <1>2, <1>3, <1>4, <2>1 DEF Merged
  <2>2. CASE a # v
    <3>1. slot'[p][1].addr = a <=> slot[p][1].addr = a
      BY <1>2, <2>2, AddrAssumption
    <3> QED
      BY <1>2, <2>2, <3>1 DEF Merged
  <2> QED
    BY <2>1, <2>2
<1>6. \A a \in Addrs : DurableOf(header, slot, pc, new, a) = Merged(slot, p, a)
  BY DurableIfRecovers
<1>7. \A a \in Addrs : DurableOf(header', slot', pc', new', a) = Merged(slot', p, a)
  BY <1>2, DurableIfRecovers
<1> QED
  BY <1>5, <1>6, <1>7 DEF Still

LEMMA TransferSimulates ==
  ASSUME IInv, PagesInv, SlotsInv, AcksInv, CopyInv, TransferStep, faults = 0
  PROVE  \/ Still /\ UNCHANGED arg
         \/ Commits /\ UNCHANGED arg
         \/ /\ Still /\ arg' = NoVar
            /\ DurableOf(header, slot, pc, new, arg.addr) = arg.data
<1> USE DEF TransferPoints
<1>1. TypeOK /\ PagesKeep /\ CallKeeps /\ Phase /\ FromFirst
  BY DEF IInv, AcksInv, PagesInv
<1>2. pc \in TransferPoints /\ arg.addr \in Addrs /\ pc # "i_erase"
  BY <1>1 DEF TransferStep, TransferMark, TransferRefused, TransferStore, TransferAddr, TransferSkip,
     TransferCopy, TransferCopyAddr, TransferCopied, TransferErase, TransferValid, IInv, ArgOwnsData
<1>3. PICK p \in Page : new = p
  BY <1>1 DEF TypeOK
<1>4. NumbOfVar \in Nat /\ idx \in 1..(NumbOfVar + 1) /\ Other(p) \in Page /\ Other(p) # p /\ 1 \in Slots
      /\ Other(Other(p)) = p
  BY <1>1, TableFacts, TwoPages, BoundAssumption DEF TypeOK, Slots
<1>5. ASSUME header[p] = "RECEIVE_DATA", header[Other(p)] = "VALID_PAGE"
      PROVE  Recovers(header, p)
  BY <1>5 DEF Recovers
<1>6. CASE TransferMark
  <2>1. InUse(Other(p))
    BY <1>1, <1>3, <1>6 DEF TransferMark, Phase
  <2>2. /\ header' = [header EXCEPT ![p] = "RECEIVE_DATA"] /\ pc' = "t_store"
        /\ UNCHANGED <<slot, arg>>
    BY <1>3, <1>6 DEF TransferMark, ProgramHeader, Goto, locals
  <2>3. Recovers(header', p) /\ Blanks(header, Other(p))
    BY <1>1, <1>4, <2>1, <2>2 DEF InUse, TypeOK, Recovers, Blanks
  <2>4. slot[p] = BlankSlots
    BY <1>4, <2>1 DEF InUse
  <2>5. \A a \in Addrs : \A i \in Slots : slot[p][i].addr # a
    BY <2>4, AddrAssumption DEF BlankSlots, NoVar
  <2>6. \A a \in Addrs : LastOf(slot[p], a) = NotFound
    BY <2>5, LastOfNone
  <2>7. \A a \in Addrs : DurableOf(header, slot, pc, new, a) = LastOf(slot[Other(p)], a)
    BY <1>2, <1>4, <2>3, DurableIfBlanks
  <2>8. \A a \in Addrs : DurableOf(header', slot', pc', new', a) = Merged(slot', p, a)
    BY <2>2, <2>3, DurableIfRecovers
  <2>9. \A a \in Addrs : Merged(slot', p, a) = LastOf(slot[Other(p)], a)
    BY <1>4, <2>2, <2>5, <2>6 DEF Merged
  <2>10. Still
    BY <2>7, <2>8, <2>9 DEF Still
  <2> QED
    BY <2>2, <2>10
<1>7. CASE TransferRefused
  <2>1. InUse(Other(new))
    BY <1>1, <1>7 DEF TransferRefused, Phase
  <2> QED
    BY <1>3, <1>4, <1>7, <2>1 DEF TransferRefused, CanProgram, InUse
<1>8. CASE TransferStore \/ TransferCopy
  <2>1. pc' # "i_erase" /\ UNCHANGED arg
    BY <1>8 DEF TransferStore, TransferCopy, Goto, StoreData
  <2>2. PICK d : StoreData(d)
    BY <1>8 DEF TransferStore, TransferCopy
  <2>3. Still
    BY <1>2, <2>1, <2>2, DataHides, StillIfSame
  <2> QED
    BY <2>1, <2>3
<1>9. CASE TransferAddr
  <2>1. Receiving(p, 1) /\ at[1] = p /\ at[2] <= 1 /\ at \in Page \X Slots /\ pc = "t_addr"
    BY <1>1, <1>3, <1>9 DEF TransferAddr, Phase, IInv, HalfWritten
  <2>2. at[2] = 1
    BY <2>1, BoundAssumption DEF Slots
  <2>3. StoreAddr(arg.addr) /\ pc' = "t_copy" /\ UNCHANGED arg
    BY <1>9 DEF TransferAddr, Goto, locals
  <2>4. /\ LastOf(slot'[p], arg.addr) = arg.data
        /\ \A a \in Addrs : a # arg.addr => LastOf(slot'[p], a) = LastOf(slot[p], a)
        /\ slot'[p][1].addr = arg.addr /\ slot[p][1].addr = Blank
        /\ slot'[Other(p)] = slot[Other(p)]
        /\ UNCHANGED header
    BY <1>1, <1>2, <1>4, <2>1, <2>2, <2>3, AddrShows DEF CallKeeps
  <2>5. Recovers(header, p) /\ Recovers(header', p)
    BY <1>5, <2>1, <2>4 DEF Receiving
  <2>6. \A a \in Addrs : DurableOf(header, slot, pc, new, a) = Merged(slot, p, a)
    BY <1>2, <2>5, DurableIfRecovers
  <2>7. \A a \in Addrs : DurableOf(header', slot', pc', new', a) = Merged(slot', p, a)
    BY <2>3, <2>5, DurableIfRecovers
  <2>8. \A a \in Addrs : Merged(slot', p, a) = IF a = arg.addr THEN arg.data ELSE Merged(slot, p, a)
    BY <2>4, AddrAssumption DEF Merged
  <2>9. Commits
    BY <2>6, <2>7, <2>8 DEF Commits
  <2> QED
    BY <2>3, <2>9
<1>10. CASE TransferSkip \/ TransferCopied
  <2>1. pc' # "i_erase" /\ UNCHANGED <<header, slot, arg>>
    BY <1>10 DEF TransferSkip, TransferCopied, Goto
  <2>2. Still
    BY <1>2, <2>1, StillIfSame
  <2> QED
    BY <2>1, <2>2
<1>11. CASE TransferCopyAddr
  <2>1. Receiving(p, idx + 1) /\ at[1] = p /\ pc = "t_copyaddr"
    BY <1>1, <1>3, <1>11 DEF TransferCopyAddr, Phase
  <2>2. StoreAddr(VirtAddVarTab[idx]) /\ pc' = "t_copy" /\ UNCHANGED arg
    BY <1>11 DEF TransferCopyAddr, Goto
  <2>3. Still
    BY <1>1, <1>3, <1>5, <2>1, <2>2, CopyStill DEF Receiving
  <2> QED
    BY <2>2, <2>3
<1>12. CASE TransferErase
  <2>1. header[p] = "RECEIVE_DATA" /\ Recovers(header, p) /\ \A a \in Addrs : Same(p, a)
    BY <1>1, <1>3, <1>5, <1>12 DEF TransferErase, Phase, Receiving, CopyInv
  <2>2. ErasePage(Other(p)) /\ pc' = "t_valid" /\ UNCHANGED arg
    BY <1>3, <1>12 DEF TransferErase, Goto, locals
  <2>3. Blanks(header', p) /\ slot'[p] = slot[p]
    BY <1>1, <1>4, <2>1, <2>2 DEF ErasePage, TypeOK, Blanks
  <2>4. \A a \in Addrs : DurableOf(header, slot, pc, new, a) = Merged(slot, p, a)
    BY <1>2, <2>1, DurableIfRecovers
  <2>5. \A a \in Addrs : Merged(slot, p, a) = LastOf(slot[p], a)
    BY <2>1 DEF Same, Merged
  <2>6. \A a \in Addrs : DurableOf(header', slot', pc', new', a) = LastOf(slot'[p], a)
    BY <2>2, <2>3, DurableIfBlanks
  <2>7. Still
    BY <2>3, <2>4, <2>5, <2>6 DEF Still
  <2> QED
    BY <2>2, <2>7
<1>13. CASE TransferValid
  <2>1. Promotable(p) /\ LastOf(slot[p], arg.addr) = arg.data
    BY <1>1, <1>3, <1>13 DEF TransferValid, Phase, CallKeeps
  <2>2. header'[p] = "VALID_PAGE" /\ header'[Other(p)] = "ERASED" /\ UNCHANGED slot
    BY <1>1, <1>3, <1>4, <1>13, <2>1 DEF TransferValid, ProgramHeader, Promotable, TypeOK
  <2>3. arg' = NoVar /\ pc' = "idle"
    BY <1>13 DEF TransferValid, Return, NoLocals
  <2>4. Blanks(header, p) /\ Blanks(header', p)
    BY <2>1, <2>2 DEF Promotable, Blanks
  <2>5. Still
    BY <1>2, <2>2, <2>3, <2>4, StillIfOne
  <2>6. DurableOf(header, slot, pc, new, arg.addr) = arg.data
    BY <1>2, <2>1, <2>4, DurableIfBlanks
  <2> QED
    BY <2>3, <2>5, <2>6
<1> QED
  BY <1>6, <1>7, <1>8, <1>9, <1>10, <1>11, <1>12, <1>13 DEF TransferStep

\* Pages that hold no variable deliver none.
LEMMA DurableOfNone ==
  ASSUME NEW h, NEW s, NEW c, NEW n \in Page, NEW a,
         \A p \in Page : \A i \in Slots : s[p][i].addr # a
  PROVE  DurableOf(h, s, c, n, a) = NotFound
<1>1. \A p \in Page : LastOf(s[p], a) = NotFound
  BY LastOfNone
<1> QED
  BY <1>1, DurableIsRead

LEMMA InitSimulates ==
  ASSUME IInv, IInv', PagesInv, SlotsInv, AcksInv, CopyInv, RecoveryRoom, InitStep, faults = 0
  PROVE  Still /\ (arg' = arg \/ arg' = NoVar)
<1>1. TypeOK /\ PagesKeep /\ CallKeeps /\ Phase /\ FromFirst /\ new' \in Page
  BY DEF IInv, TypeOK, AcksInv, PagesInv
<1>2. PICK p \in Page : new = p
  BY <1>1 DEF TypeOK
<1>3. NumbOfVar \in Nat /\ idx \in 1..(NumbOfVar + 1) /\ Other(p) \in Page /\ Other(p) # p
  BY <1>1, TableFacts, TwoPages DEF TypeOK
<1>4. ASSUME pc \in {"i_copy", "i_copyaddr", "i_valid"}
      PROVE  Recovers(header, p)
  <2>1. CASE HalfFormatted /\ p = 1
    BY <2>1 DEF HalfFormatted, Recovers, Other
  <2>2. CASE header[p] = "RECEIVE_DATA" /\ header[Other(p)] = "VALID_PAGE"
    BY <2>2 DEF Recovers
  <2> QED
    BY <1>1, <1>2, <1>4, <2>1, <2>2 DEF Phase, Receiving
<1>5. CASE EE_Init
  <2>1. /\ pc = "off" /\ pc' \in {"i_blank", "i_copy", "f_erase0"}
        /\ UNCHANGED <<header, slot, arg>>
    BY <1>5 DEF EE_Init, InitAt
  <2>2. Still
    BY <2>1, StillIfSame
  <2> QED
    BY <2>1, <2>2
<1>6. CASE InitBlank
  <2>1. /\ pc = "i_blank" /\ NeedsBlank(p) /\ ErasePage(Other(p)) /\ pc' \in {"i_promote", "idle"}
        /\ arg' = arg \/ arg' = NoVar
    BY <1>1, <1>2, <1>6 DEF InitBlank, Phase, Return, Goto, NoLocals, locals
  <2>2. Blanks(header, p) /\ Blanks(header', p) /\ slot'[p] = slot[p]
    BY <1>1, <1>3, <2>1 DEF ErasePage, NeedsBlank, Blanks, TypeOK
  <2>3. Still
    BY <2>1, <2>2, StillIfOne
  <2> QED
    BY <2>1, <2>3
<1>7. CASE InitPromote
  <2>1. pc = "i_promote" /\ Promotable(p) /\ pc' = "idle" /\ arg' = NoVar
    BY <1>1, <1>2, <1>7 DEF InitPromote, Phase, Return, NoLocals
  <2>2. header'[p] = "VALID_PAGE" /\ header'[Other(p)] = "ERASED" /\ UNCHANGED slot
    BY <1>1, <1>2, <1>3, <1>7, <2>1 DEF InitPromote, ProgramHeader, Promotable, TypeOK
  <2>3. Blanks(header, p) /\ Blanks(header', p)
    BY <2>1, <2>2 DEF Promotable, Blanks
  <2>4. Still
    BY <2>1, <2>2, <2>3, StillIfOne
  <2> QED
    BY <2>1, <2>4
<1>8. CASE RecoverSkip \/ RecoverCopied
  <2>1. pc = "i_copy" /\ pc' \in {"i_copy", "i_valid"} /\ UNCHANGED <<header, slot, arg>>
    BY <1>8 DEF RecoverSkip, RecoverCopied, Goto
  <2>2. Still
    BY <2>1, StillIfSame
  <2> QED
    BY <2>1, <2>2
<1>9. CASE RecoverCopy
  <2>1. pc = "i_copy" /\ pc' = "i_copyaddr"
    BY <1>9 DEF RecoverCopy, Goto
  <2>2. PICK d : StoreData(d)
    BY <1>9 DEF RecoverCopy
  <2>3. Still
    BY <2>1, <2>2, DataHides, StillIfSame
  <2> QED
    BY <2>2, <2>3 DEF StoreData
<1>10. CASE RecoverCopyAddr
  <2>1. pc = "i_copyaddr" /\ at[1] = p
    BY <1>1, <1>2, <1>10 DEF RecoverCopyAddr, Phase
  <2>2. StoreAddr(VirtAddVarTab[idx]) /\ pc' = "i_copy" /\ UNCHANGED arg
    BY <1>10 DEF RecoverCopyAddr, Goto
  <2>3. Still
    BY <1>1, <1>2, <1>4, <2>1, <2>2, CopyStill
  <2> QED
    BY <2>2, <2>3
<1>11. CASE RecoverFull
  <2>1. pc' # "idle"
    BY <1>11, RecoverKeepsPages
  <2> QED
    BY <1>11, <2>1 DEF RecoverFull, StoreFull, Return
<1>12. CASE RecoverValid
  <2>1. pc = "i_valid" /\ Recovers(header, p) /\ \A a \in Addrs : Same(p, a)
    BY <1>2, <1>4, <1>12 DEF RecoverValid, CopyInv
  <2>2. pc' = "i_erase" /\ UNCHANGED <<slot, new, arg>>
    BY <1>12 DEF RecoverValid, ProgramHeader, Goto, locals
  <2>3. \A a \in Addrs : DurableOf(header, slot, pc, new, a) = Merged(slot, p, a)
    BY <2>1, DurableIfRecovers
  <2>4. \A a \in Addrs : Merged(slot, p, a) = LastOf(slot[p], a)
    BY <2>1 DEF Same, Merged
  <2>5. \A a \in Addrs : DurableOf(header', slot', pc', new', a) = LastOf(slot[p], a)
    BY <1>2, <2>2 DEF DurableOf
  <2> QED
    BY <2>2, <2>3, <2>4, <2>5 DEF Still
<1>13. CASE RecoverErase
  <2>1. pc = "i_erase" /\ header[p] = "VALID_PAGE"
    BY <1>1, <1>2, <1>13 DEF RecoverErase, Phase
  <2>2. ErasePage(Other(p)) /\ pc' = "idle" /\ arg' = NoVar
    BY <1>2, <1>13 DEF RecoverErase, Return, NoLocals
  <2>3. Blanks(header', p) /\ slot'[p] = slot[p]
    BY <1>1, <1>3, <2>1, <2>2 DEF ErasePage, Blanks, TypeOK
  <2>4. \A a \in Addrs : DurableOf(header, slot, pc, new, a) = LastOf(slot[p], a)
    BY <1>2, <2>1 DEF DurableOf
  <2>5. \A a \in Addrs : DurableOf(header', slot', pc', new', a) = LastOf(slot'[p], a)
    BY <2>2, <2>3, DurableIfBlanks
  <2> QED
    BY <2>2, <2>3, <2>4, <2>5 DEF Still
<1>14. CASE FormatErase0 \/ FormatValid \/ FormatErase1
  <2>1. Fresh
    BY <1>1, <1>14 DEF FormatErase0, FormatValid, FormatErase1, Phase, PagesKeep
  <2>2. arg' = arg \/ arg' = NoVar
    BY <1>14 DEF FormatErase0, FormatValid, FormatErase1, Return, Goto, NoLocals, locals
  <2>3. \A r \in Page : slot'[r] = BlankSlots \/ slot'[r] = slot[r]
    BY <1>1, <1>14 DEF FormatErase0, FormatValid, FormatErase1, ErasePage, ProgramHeader, TypeOK
  <2>4. \A a \in Addrs : \A i \in Slots : BlankSlots[i].addr # a
    BY AddrAssumption DEF BlankSlots, NoVar
  <2>5. \A a \in Addrs : \A r \in Page : \A i \in Slots : slot'[r][i].addr # a
    BY <2>1, <2>3, <2>4 DEF Fresh
  <2>6. \A a \in Addrs : DurableOf(header, slot, pc, new, a) = NotFound
    BY <1>2, <2>1, DurableOfNone DEF Fresh
  <2>7. \A a \in Addrs : DurableOf(header', slot', pc', new', a) = NotFound
    BY <1>1, <2>5, DurableOfNone
  <2> QED
    BY <2>2, <2>6, <2>7 DEF Still
<1> QED
  BY <1>5, <1>6, <1>7, <1>8, <1>9, <1>10, <1>11, <1>12, <1>13, <1>14 DEF InitStep

\* Whatever the flash does, a page delivers no variable's data as another's.
LEMMA DurableOwnsData ==
  ASSUME IInv
  PROVE  \A a \in Addrs : DurableOf(header, slot, pc, new, a) \in ValuesOf[a] \cup {NotFound}
<1> SUFFICES ASSUME NEW a \in Addrs
             PROVE  DurableOf(header, slot, pc, new, a) \in ValuesOf[a] \cup {NotFound}
  OBVIOUS
<1>1. ASSUME NEW p \in Page
      PROVE  LastOf(slot[p], a) \in ValuesOf[a] \cup {NotFound}
  <2>1. CASE Holds(p, a)
    <3>1. PICK i \in Slots : slot[p][i].addr = a /\ LastIn(p, a) = slot[p][i].data
      BY <2>1, LastInFacts
    <3> QED
      BY <3>1, LastInIs DEF IInv, SlotsOwnData
  <2> QED
    BY <2>1, LastInIs
<1> QED
  BY <1>1, DurableIsRead DEF IInv, TypeOK

LEMMA DurableOwnsNow ==
  IInv => \A a \in Addrs : DurableOf(header, slot, pc, new, a) \in ValuesOf[a] \cup {NotFound}
  BY DurableOwnsData

LEMMA DurableOwnsNext ==
  IInv' => (\A a \in Addrs : DurableOf(header, slot, pc, new, a) \in ValuesOf[a] \cup {NotFound})'
  BY DurableOwnsNow, PTL

\* A step leaves the call's argument, drops it, or is a new call.
LEMMA Arguments ==
  ASSUME Next
  PROVE  \/ arg' = arg \/ arg' = NoVar
         \/ \E a \in Addrs : \E d \in ValuesOf[a] : arg' = [addr |-> a, data |-> d]
<1>1. CASE WriteStep
  BY <1>1 DEF WriteStep, WriteStore, WriteNoPage, WriteAddr, WriteTransfer, StoreData, Goto, Return, NoLocals
<1>2. CASE TransferStep
  BY <1>2 DEF TransferStep, TransferMark, TransferRefused, TransferStore, TransferAddr,
     TransferSkip, TransferCopy, TransferCopyAddr, TransferCopied, TransferErase, TransferValid,
     StoreData, Goto, Return, NoLocals, locals
<1>3. CASE InitStep
  BY <1>3 DEF InitStep, EE_Init, InitAt, InitBlank, InitPromote, RecoverSkip, RecoverCopy,
     RecoverCopyAddr, RecoverFull, StoreFull, RecoverCopied, RecoverValid, RecoverErase,
     FormatErase0, FormatValid, FormatErase1, StoreData, Goto, Return, NoLocals, locals
<1>4. CASE \E a \in Addrs : \E d \in ValuesOf[a] : WriteVariable(a, d)
  BY <1>4 DEF WriteVariable
<1>5. CASE PowerLoss \/ FlashFails
  BY <1>5 DEF PowerLoss, FlashFails, NoLocals
<1> QED
  BY <1>1, <1>2, <1>3, <1>4, <1>5 DEF Next, DriverStep

\* Every step of the driver is one of the store's, or leaves it as it is.
LEMMA StepSimulates ==
  ASSUME IInv, IInv', PagesInv, SlotsInv, AcksInv, NoArg, CopyInv, RecoveryRoom, Next
  PROVE  Store!Next \/ UNCHANGED Store!storeVars
<1> USE DEF WritePoints, TransferPoints
<1> DEFINE now == [a \in Addrs |-> DurableOf(header, slot, pc, new, a)]
           then == [a \in Addrs |-> DurableOf(header', slot', pc', new', a)]
           r == IF arg.addr = Blank THEN {} ELSE {arg}
           s == IF arg'.addr = Blank THEN {} ELSE {arg'}
<1>1. [a \in Addrs |-> Durable(a)] = now
  BY DurableIsNow
<1>2. [a \in Addrs |-> Durable(a)]' = then
  BY DurableIsNext
<1>3. (IF arg.addr = Blank THEN {} ELSE {arg})' = s
  OBVIOUS
<1>4. ASSUME Still
      PROVE  then = now
  BY <1>4 DEF Still
<1>5. ASSUME Commits, arg.addr \in Addrs
      PROVE  then = [now EXCEPT ![arg.addr] = arg.data]
  BY <1>5 DEF Commits
<1>6. NoVar.addr = Blank
  BY DEF NoVar
<1>7. faults' = 0 => faults = 0
  <2>1. faults \in Nat
    BY BoundAssumption DEF IInv, TypeOK
  <2> QED
    BY <2>1, DriverKeepsFaults DEF Next, WriteVariable, PowerLoss, FlashFails, Fault
<1>8. CASE faults' # 0
  <2>1. \A a \in Addrs : then[a] \in ValuesOf[a] \cup {NotFound}
    BY DurableOwnsNext
  <2>2. s \in {r, {}} \/ \E a \in Addrs : \E d \in ValuesOf[a] : s = {[addr |-> a, data |-> d]}
    <3>1. CASE arg' = arg \/ arg' = NoVar
      BY <1>6, <3>1
    <3>2. CASE \E a \in Addrs : \E d \in ValuesOf[a] : arg' = [addr |-> a, data |-> d]
      BY <3>2
    <3> QED
      BY <3>1, <3>2, Arguments
  <2> QED
    BY <1>1, <1>2, <1>3, <1>8, <2>1, <2>2 DEF Store!Next, Store!Unsound
<1>9. CASE faults' = 0 /\ (WriteStep \/ TransferStep)
  <2>1. arg.addr \in Addrs /\ arg.addr # Blank
    BY <1>9, AddrAssumption DEF IInv, ArgOwnsData, WriteStep, TransferStep, WriteStore, WriteNoPage,
       WriteAddr, WriteTransfer, TransferMark, TransferRefused, TransferStore, TransferAddr,
       TransferSkip, TransferCopy, TransferCopyAddr, TransferCopied, TransferErase, TransferValid
  <2>2. \/ Still /\ UNCHANGED arg
        \/ Commits /\ (arg' = arg \/ arg' = NoVar)
        \/ /\ Still /\ arg' = NoVar
           /\ DurableOf(header, slot, pc, new, arg.addr) = arg.data
    BY <1>7, <1>9, WriteSimulates, TransferSimulates
  <2>3. r = {arg}
    BY <2>1
  <2>4. CASE Still /\ UNCHANGED arg
    <3>1. then = now /\ s = r
      BY <1>4, <2>4
    <3> QED
      BY <1>1, <1>2, <1>3, <1>7, <1>9, <3>1 DEF Store!storeVars
  <2>5. CASE Commits /\ (arg' = arg \/ arg' = NoVar)
    <3>1. then = [now EXCEPT ![arg.addr] = arg.data] /\ s \in {r, {}}
      BY <1>5, <1>6, <2>1, <2>5
    <3> QED
      BY <1>1, <1>2, <1>3, <1>7, <1>9, <2>3, <3>1 DEF Store!Next, Store!Commit
  <2>6. CASE /\ Still /\ arg' = NoVar
             /\ DurableOf(header, slot, pc, new, arg.addr) = arg.data
    <3>1. then = now /\ s = {} /\ now[arg.addr] = arg.data
      BY <1>4, <1>6, <2>1, <2>6
    <3> QED
      BY <1>1, <1>2, <1>3, <1>7, <1>9, <2>3, <3>1 DEF Store!Next, Store!Reply
  <2> QED
    BY <2>2, <2>4, <2>5, <2>6
<1>10. CASE faults' = 0 /\ InitStep
  <2>1. Still /\ (arg' = arg \/ arg' = NoVar)
    BY <1>7, <1>10, InitSimulates
  <2>2. pc \notin WritePoints \cup TransferPoints
    BY <1>10 DEF InitStep, EE_Init, InitAt, InitBlank, InitPromote, RecoverSkip, RecoverCopy,
       RecoverCopyAddr, RecoverFull, RecoverCopied, RecoverValid, RecoverErase,
       FormatErase0, FormatValid, FormatErase1
  <2>3. then = now /\ s = {}
    BY <1>4, <1>6, <2>1, <2>2 DEF NoArg
  <2> QED
    BY <1>1, <1>2, <1>3, <1>7, <1>10, <2>3 DEF Store!Next, Store!Crash
<1>11. ASSUME NEW a \in Addrs, NEW d \in ValuesOf[a], WriteVariable(a, d), faults' = 0
       PROVE  Store!Next
  <2>1. /\ pc = "idle" /\ pc' = "w_store" /\ UNCHANGED <<header, slot>>
        /\ arg' = [addr |-> a, data |-> d]
    BY <1>11 DEF WriteVariable
  <2>2. Still
    BY <2>1, StillIfSame
  <2>3. then = now /\ r = {} /\ s = {[addr |-> a, data |-> d]}
    BY <1>4, <2>1, <2>2, AddrAssumption DEF NoArg
  <2> QED
    BY <1>1, <1>2, <1>3, <1>7, <1>11, <2>3 DEF Store!Next, Store!Request
<1>12. CASE faults' = 0 /\ PowerLoss
  <2>1. pc # "i_erase"
    BY <1>12, BoundAssumption DEF PowerLoss, Fault, IInv, TypeOK
  <2>2. pc' = "off" /\ arg' = NoVar /\ UNCHANGED <<header, slot>>
    BY <1>12 DEF PowerLoss, NoLocals, flash
  <2>3. Still
    BY <2>1, <2>2, StillIfSame
  <2>4. then = now /\ s = {}
    BY <1>4, <1>6, <2>2, <2>3
  <2> QED
    BY <1>1, <1>2, <1>3, <1>7, <1>12, <2>4 DEF Store!Next, Store!Crash
<1>13. FlashFails => faults' # 0
  BY BoundAssumption DEF FlashFails, Fault, IInv, TypeOK
<1> QED
  BY <1>8, <1>9, <1>10, <1>11, <1>12, <1>13 DEF Next, DriverStep

-----------------------------------------------------------------------------
(* The theorems. *)

\* The invariant that the two theorems below are read off.
LEMMA Invariance == Spec => []IInv
<1> QED BY InitInv, NextInv, PTL DEF Spec

\* Type correctness of the driver's state, for all values of the constants: in
\* particular every slot EE_VerifyPageFullWriteVariable programs lies inside a
\* page, and VarIdx never leaves VirtAddVarTab.
THEOREM TypeCorrect == Spec => []TypeOK
<1>1. IInv => TypeOK
  BY DEF IInv
<1> QED BY <1>1, Invariance, PTL

\* No history of writes, transfers, power losses, recoveries and flash errors
\* makes EE_ReadVariable deliver one variable's data for another.
THEOREM ReadsAreOwn == Spec => []ReadsOwnData
<1>1. IInv => ReadsOwnData
  <2> SUFFICES ASSUME IInv, NEW a \in Addrs PROVE EE_ReadVariable(a) \in ValuesOf[a] \cup {NotFound}
    BY DEF ReadsOwnData
  <2>1. CASE ReadPage # NoPage /\ Holds(ReadPage, a)
    <3>1. PICK i \in Slots : slot[ReadPage][i].addr = a /\ LastIn(ReadPage, a) = slot[ReadPage][i].data
      BY <2>1, LastInFacts
    <3> QED BY <2>1, <3>1, PageFacts DEF IInv, SlotsOwnData, EE_ReadVariable
  <2>2. CASE ReadPage = NoPage \/ ~Holds(ReadPage, a)
    BY <2>2 DEF EE_ReadVariable, LastIn
  <2> QED BY <2>1, <2>2
<1> QED BY <1>1, Invariance, PTL

\* With RecoveryRoom the pages are at every step what the driver's next flash
\* operation expects, as long as there is no fault.
LEMMA PagesInvariance ==
  ASSUME RecoveryRoom
  PROVE  Spec => []PagesInv
<1>1. Init => PagesInv
  BY DEF Init, PagesInv, Phase, FromFirst, OffOK, Raw
<1>2. IInv /\ PagesInv /\ [Next]_vars => PagesInv'
  <2>1. IInv /\ PagesInv /\ Next => PagesInv'
    BY StepKeepsPages
  <2>2. PagesInv /\ UNCHANGED vars => PagesInv'
    BY DEF vars, PagesInv, Phase, FromFirst, OffOK, Raw, HalfFormatted, NeedsBlank, Receiving,
       Free, Budget, InService, InUse, Promotable
  <2> QED
    BY <2>1, <2>2
<1> QED
  BY <1>1, <1>2, Invariance, PTL DEF Spec

\* Whenever the main program runs and no flash operation has failed, one page is
\* VALID and the other erased and blank: wherever the power was lost in EE_Init,
\* EE_Format, EE_WriteVariable or EE_PageTransfer, and however often.
THEOREM OnePageIsInService ==
  ASSUME RecoveryRoom
  PROVE  Spec => []OnePageInService
<1>1. PagesInv => OnePageInService
  BY DEF PagesInv, Phase, OnePageInService
<1> QED
  BY <1>1, PagesInvariance, PTL

\* EE_Init never returns PAGE_FULL: a recovery finds a free slot for every
\* variable it copies, also after recoveries that were cut short.
THEOREM InitFindsRoom ==
  ASSUME RecoveryRoom
  PROVE  Spec => InitReturnsItsCodes
<1> DEFINE A == (pc \in InitPoints /\ pc' = "idle" /\ faults = 0) =>
                   ret' \in {"FLASH_COMPLETE", "FLASH_ERROR"}
<1>1. IInv /\ PagesInv /\ [Next]_vars => [A]_vars
  <2> SUFFICES ASSUME IInv, PagesInv, Next, pc \in InitPoints, pc' = "idle", faults = 0
               PROVE  ret' \in {"FLASH_COMPLETE", "FLASH_ERROR"}
    OBVIOUS
  <2>1. pc \notin {"idle", "off"}
    BY DEF InitPoints
  <2>2. CASE DriverStep
    BY <2>1, <2>2, DriverKeepsFaults, StepKeepsPages DEF ReturnsWell
  <2>3. CASE \E a \in Addrs : \E d \in ValuesOf[a] : WriteVariable(a, d)
    BY <2>1, <2>3 DEF WriteVariable
  <2>4. CASE PowerLoss
    BY <2>4 DEF PowerLoss
  <2>5. CASE FlashFails
    BY <2>5 DEF FlashFails
  <2> QED
    BY <2>2, <2>3, <2>4, <2>5 DEF Next
<1>2. Spec => [][A]_vars
  BY <1>1, Invariance, PagesInvariance, PTL DEF Spec
<1> QED
  BY <1>2 DEF InitReturnsItsCodes

\* EE_WriteVariable returns FLASH_COMPLETE unless a flash operation fails: the
\* page it writes is there, and the page of its transfer is erased.
THEOREM WritesAreTaken ==
  ASSUME RecoveryRoom
  PROVE  Spec => WritesAreAccepted
<1> DEFINE A == (pc \in WritePoints \cup TransferPoints /\ pc' = "idle" /\ faults' = 0) =>
                   ret' = "FLASH_COMPLETE"
<1>1. IInv /\ PagesInv /\ [Next]_vars => [A]_vars
  <2> SUFFICES ASSUME IInv, PagesInv, Next, pc \in WritePoints \cup TransferPoints,
                      pc' = "idle", faults' = 0
               PROVE  ret' = "FLASH_COMPLETE"
    OBVIOUS
  <2> QED
    BY StepKeepsPages DEF ReturnsWell, WritePoints, TransferPoints
<1>2. Spec => [][A]_vars
  BY <1>1, Invariance, PagesInvariance, PTL DEF Spec
<1> QED
  BY <1>2 DEF WritesAreAccepted

\* What the slots hold and what they say of the acknowledged data, at every step.
LEMMA AcksInvariance ==
  ASSUME RecoveryRoom, AllTabled
  PROVE  Spec => [](SlotsInv /\ AcksInv)
<1>1. Init => SlotsInv /\ AcksInv
  <2> SUFFICES ASSUME Init PROVE SlotsInv /\ AcksInv
    OBVIOUS
  <2>1. \A p \in Page : \/ \A i \in Slots : slot[p][i] = NoVar
                        \/ \A i \in Slots : slot[p][i] = [addr |-> Garbage, data |-> Garbage]
    BY DEF Init, BlankSlots, GarbageSlots
  <2>2. NoVar.addr = Blank /\ [addr |-> Garbage, data |-> Garbage].addr = Garbage
    BY DEF NoVar
  <2>3. Blank # Garbage => NoVar # [addr |-> Garbage, data |-> Garbage]
    BY <2>2
  <2>4. SlotsInv
    BY <2>1, <2>2 DEF Init, SlotsInv, Appended, HalfLast
  <2>5. Fresh
    BY <2>1, <2>2, AddrAssumption DEF Init, Fresh
  <2>6. PagesKeep
    BY <2>5 DEF Init, PagesKeep, NeedsBlank, NeedsRecovery, Page, Other
  <2>7. CallKeeps
    BY DEF Init, CallKeeps, WritePoints, TransferPoints
  <2> QED
    BY <2>4, <2>6, <2>7 DEF AcksInv
<1>2. IInv /\ PagesInv /\ SlotsInv /\ AcksInv /\ [Next]_vars => SlotsInv' /\ AcksInv'
  <2>1. IInv /\ PagesInv /\ SlotsInv /\ AcksInv /\ Next => AcksInv'
    BY AcksStep
  <2>2. AcksInv /\ UNCHANGED vars => AcksInv'
    BY DEF vars, AcksInv, PagesKeep, CallKeeps, Keeps, Partial, Fresh, NeedsBlank, NeedsRecovery, Raw
  <2> QED
    BY <2>1, <2>2, SlotsStep
<1> QED
  BY <1>1, <1>2, Invariance, PagesInvariance, PTL DEF Spec

\* The driver keeps what it has acknowledged: whenever the main program runs and
\* no flash operation has failed, EE_ReadVariable delivers the data of the last
\* EE_WriteVariable that returned FLASH_COMPLETE, across the transfers, power
\* losses and recoveries since, if every variable is in VirtAddVarTab.
THEOREM AckedAreReadBack ==
  ASSUME RecoveryRoom, AllTabled
  PROVE  Spec => []AckedIsReadBack
<1>1. IInv /\ PagesInv /\ AcksInv => AckedIsReadBack
  <2> SUFFICES ASSUME PagesInv, AcksInv, pc = "idle", faults = 0, NEW a \in Addrs, acked[a] # Unknown
               PROVE  EE_ReadVariable(a) = acked[a]
    BY DEF AckedIsReadBack
  <2>1. PICK p \in Page : InUse(p)
    BY DEF PagesInv, Phase, InService, InUse
  <2>2. ReadPage = p /\ ReadPage # NoPage
    BY <2>1, InUsePages DEF Page, NoPage
  <2>3. Keeps(p)
    BY <2>1 DEF AcksInv, PagesKeep, InUse, NeedsBlank
  <2> QED
    BY <2>2, <2>3, LastInIs DEF Keeps, EE_ReadVariable
<1> QED
  BY <1>1, Invariance, PagesInvariance, AcksInvariance, PTL

\* The driver implements EEStore: a write takes effect at one instant between its
\* call and its return, the address of its slot, or of its slot on the page a transfer
\* fills; no power loss, transfer or recovery changes what a read delivers; and
\* once the flash has failed each variable still reads as data of its own.
THEOREM DriverImplementsStore ==
  ASSUME RecoveryRoom, AllTabled
  PROVE  Spec => ImplementsStore
<1>1. Init => NoArg /\ CopyInv
  BY DEF Init, NoArg, NoVar, CopyInv
<1>2. IInv /\ PagesInv /\ SlotsInv /\ AcksInv /\ NoArg /\ CopyInv /\ [Next]_vars => NoArg' /\ CopyInv'
  <2>1. CopyInv /\ UNCHANGED vars => CopyInv'
    BY DEF vars, CopyInv, Same
  <2> QED
    BY <2>1, ArgStep, CopyStep
<1>3. Init => Store!Init
  <2> SUFFICES ASSUME Init PROVE Store!Init
    OBVIOUS
  <2>1. \A p \in Page : header[p] \in {"ERASED", "OTHER"}
    BY DEF Init
  <2>2. \A a \in Addrs : Durable(a) = NotFound
    BY <2>1 DEF Init, Durable, NeedsRecovery, NeedsBlank, Page, Other
  <2> QED
    BY <2>2 DEF Init, NoVar, Store!Init
<1>4. IInv /\ IInv' /\ PagesInv /\ SlotsInv /\ AcksInv /\ NoArg /\ CopyInv /\ [Next]_vars
        => [Store!Next]_(Store!storeVars)
  <2>1. UNCHANGED vars => UNCHANGED Store!storeVars
    BY DEF vars, Store!storeVars, Durable, AfterRecovery, NeedsRecovery, NeedsBlank, LastIn, Holds, Newest
  <2> QED
    BY <2>1, StepSimulates
<1>5. Spec => [](IInv /\ PagesInv /\ SlotsInv /\ AcksInv)
  BY Invariance, PagesInvariance, AcksInvariance, PTL
<1> QED
  BY <1>1, <1>2, <1>3, <1>4, <1>5, PTL DEF Spec, ImplementsStore, Store!Spec
=============================================================================
