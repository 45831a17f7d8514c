---------------------------- MODULE StorageProofs ----------------------------
(***************************************************************************)
(* Proofs about what is stored: the configuration in the emulated EEPROM   *)
(* (BootConfig), for any addresses, any room in a page and any number of   *)
(* power losses, and the sectors of the SD card (SdCard), for any cards,   *)
(* sectors, data and waits.                                                *)
(***************************************************************************)
EXTENDS BootConfig, SdCard, FiniteSetTheorems, TLAPS

-----------------------------------------------------------------------------
(* The configuration: the invariant *)

Configuration == [Fields -> [Bytes -> 0..255]]

\* The first n of the variables of configuration c are in the store.
Holds(n, c) == \A i \in 1..n : store[SaveAddr(i)] = SaveData(i, c)

\* The type invariant.
ConfigTypeInv ==
  /\ store = [v \in Vars |-> store[v]]
  /\ packet \in Configuration
  /\ pc \in {"off", "run", "factory", "save"}
  /\ next \in 1..(NSaves + 1)

\* A write in progress is that of the next variable.
WritesNext == req # {} =>
  /\ pc \in {"factory", "save"} /\ next <= NSaves
  /\ req = {[addr |-> SaveAddr(next), data |-> SaveData(next, Config)]}

\* While a configuration is written none counts as saved, and what has been written
\* of it is in the store, unless a page transfer came between.
WrittenSoFar == pc \in {"factory", "save"} =>
  /\ saved = <<>>
  /\ ~split => Holds(next - 1, Config)

\* The store holds a configuration that counts as saved.
SavedIsHeld == Kept => saved \in Configuration /\ Holds(NSaves, saved)

\* The factory setting is not what a power-up loaded.
FactoryNotLoaded == pc = "factory" => ~loaded

ConfigInv ==
  ConfigTypeInv /\ WritesNext /\ WrittenSoFar /\ SavedIsHeld /\ FactoryNotLoaded /\ SavedIsLoaded

-----------------------------------------------------------------------------
(* The configuration: lemmas on the operators *)

\* The fifteen variables.
LEMMA VarsAre == Vars = (0..2) \cup (4..15) /\ NSaves = 15
PROOF
<1>1. {VarOf(f, k) : f \in Fields, k \in Bytes} = 4..15
  <2>1. ASSUME NEW f \in Fields, NEW k \in Bytes PROVE VarOf(f, k) \in 4..15
    BY DEF Fields, Bytes, VarOf
  <2>2. ASSUME NEW v \in 4..15 PROVE \E f \in Fields, k \in Bytes : v = VarOf(f, k)
    <3>1. v \div 4 \in Fields /\ (v % 4) + 1 \in Bytes /\ v = VarOf(v \div 4, (v % 4) + 1)
      BY DEF Fields, Bytes, VarOf
    <3>2. QED
      BY <3>1
  <2>3. QED
    BY <2>1, <2>2
<1>2. Vars = (0..2) \cup (4..15)
  BY <1>1 DEF Vars, Markers
<1>3. /\ IsFiniteSet(0..2) /\ Cardinality(0..2) = 3
      /\ IsFiniteSet(4..15) /\ Cardinality(4..15) = 12
  <2>1. ASSUME NEW a \in Int, NEW b \in Int, a <= b
        PROVE  IsFiniteSet(a..b) /\ Cardinality(a..b) = b - a + 1
    BY <2>1, FS_Interval
  <2>2. IsFiniteSet(0..2) /\ Cardinality(0..2) = 2 - 0 + 1
    BY <2>1, 0 \in Int, 2 \in Int, 0 <= 2, Zenon
  <2>3. IsFiniteSet(4..15) /\ Cardinality(4..15) = 15 - 4 + 1
    BY <2>1, 4 \in Int, 15 \in Int, 4 <= 15, Zenon
  <2>4. QED
    BY <2>2, <2>3
<1>4. (0..2) \cap (4..15) = {} /\ Cardinality({}) = 0
  BY FS_EmptySet
<1>5. Cardinality((0..2) \cup (4..15)) = 3 + 12 - 0
  BY <1>3, <1>4, FS_Union
<1>6. QED
  BY <1>2, <1>5 DEF NSaves

\* No two of the writes go to one variable.
LEMMA SaveAddrsDiffer ==
  ASSUME NEW i \in 1..15
  PROVE  /\ SaveAddr(i) \in Vars
         /\ \A j \in 1..15 : SaveAddr(i) = SaveAddr(j) => i = j
PROOF
  BY VarsAre DEF SaveAddr

LEMMA FactoryIsAConfiguration == Factory \in Configuration
PROOF
<1>1. <<192, 168, 1, 246>> \in [Bytes -> 0..255]
  BY DEF Bytes
<1>2. <<192, 168, 1, 1>> \in [Bytes -> 0..255]
  BY DEF Bytes
<1>3. <<255, 255, 255, 0>> \in [Bytes -> 0..255]
  BY DEF Bytes
<1>4. QED
  BY <1>1, <1>2, <1>3 DEF Factory, Configuration, Fields

LEMMA ZeroIsAConfiguration == [f \in Fields |-> Zero] \in Configuration
PROOF
<1>1. Zero \in [Bytes -> 0..255]
  BY DEF Bytes, Zero
<1>2. QED
  BY <1>1 DEF Configuration

\* Where all fifteen variables of a configuration are in the store, they are what
\* is loaded, whatever the locals held.
LEMMA WholeIsLoaded ==
  ASSUME NEW c \in Configuration, Holds(NSaves, c)
  PROVE  [f \in Fields |-> [k \in Bytes |-> LoadedByte(k)[f]]] = c
PROOF
<1>1. ASSUME NEW f \in Fields, NEW k \in Bytes
      PROVE  store[VarOf(f, k)] = c[f][k] /\ store[VarOf(f, k)] # NotFound
  <2>1. VarOf(f, k) \in 4..15 /\ VarOf(f, k) \div 4 = f /\ (VarOf(f, k) % 4) + 1 = k
    BY DEF VarOf, Fields, Bytes
  <2>2. store[SaveAddr(VarOf(f, k))] = SaveData(VarOf(f, k), c)
    BY <2>1, VarsAre DEF Holds
  <2>3. SaveAddr(VarOf(f, k)) = VarOf(f, k) /\ SaveData(VarOf(f, k), c) = c[f][k]
    BY <2>1 DEF SaveAddr, SaveData
  <2>4. c[f][k] \in 0..255
    BY DEF Configuration
  <2>5. QED
    BY <2>2, <2>3, <2>4, ConfigAssumption
<1>2. ASSUME NEW k \in Bytes
      PROVE  \A f \in Fields : LoadedByte(k)[f] = c[f][k]
  <2> DEFINE Eq(b) == b = [f \in Fields |->
                IF store[VarOf(f, k)] # NotFound THEN store[VarOf(f, k)]
                ELSE IF f = 1 THEN Junk ELSE b[f - 1]]
             w == [f \in Fields |-> store[VarOf(f, k)]]
  <2>1. LoadedByte(k) = CHOOSE b : Eq(b)
    BY DEF LoadedByte
  <2>2. Eq(w)
    BY <1>1
  <2>3. Eq(CHOOSE b : Eq(b))
    BY <2>2
  <2>4. QED
    BY ZenonT(30), <1>1, <2>1, <2>3
<1>3. QED
  BY <1>2 DEF Configuration

-----------------------------------------------------------------------------
(* The configuration: the invariant is inductive *)

LEMMA ConfigAtStart ==
  ASSUME ConfigInit PROVE ConfigInv
PROOF
<1>1. store = [v \in Vars |-> NotFound] /\ req = {}
  BY DEF ConfigInit, EE!Init
<1>2. ConfigTypeInv
  BY <1>1, VarsAre, ZeroIsAConfiguration DEF ConfigInit, ConfigTypeInv
<1>3. QED
  BY <1>1, <1>2
  DEF ConfigInit, ConfigInv, WritesNext, WrittenSoFar, SavedIsHeld, FactoryNotLoaded, SavedIsLoaded, Kept

\* One more variable is in the store: the others keep what they hold.
LEMMA OneMoreIsHeld ==
  ASSUME NEW c, NEW n \in 1..15, Holds(n - 1, c), store = [v \in Vars |-> store[v]],
         store' = [store EXCEPT ![SaveAddr(n)] = SaveData(n, c)]
  PROVE  Holds(n, c)' /\ store' = [v \in Vars |-> store'[v]]
PROOF
<1>1. ASSUME NEW i \in 1..n PROVE store'[SaveAddr(i)] = SaveData(i, c)
  <2>1. SaveAddr(n) \in Vars /\ SaveAddr(i) \in Vars /\ (SaveAddr(i) = SaveAddr(n) => i = n)
    BY SaveAddrsDiffer
  <2>2. CASE i = n
    BY <2>1, <2>2
  <2>3. CASE i # n
    <3>1. i \in 1..(n - 1)
      BY <2>3
    <3>2. QED
      BY <2>1, <2>3, <3>1 DEF Holds
  <2>4. QED
    BY <2>2, <2>3
<1>2. QED
  BY <1>1 DEF Holds

\* While nothing but the net changes of what the invariant looks at, it stays.
LEMMA ConfigStutters ==
  ASSUME ConfigInv, UNCHANGED <<store, req, split, pc, next, net, packet, loaded, saved>>
  PROVE  ConfigInv'
PROOF
  BY DEF ConfigInv, ConfigTypeInv, WritesNext, WrittenSoFar, SavedIsHeld, FactoryNotLoaded,
         SavedIsLoaded, Kept, Holds, Config

\* A write that takes effect in the page in service.
LEMMA EndWriteKeeps ==
  ASSUME ConfigInv, EndWrite PROVE ConfigInv'
PROOF
<1>1. /\ pc \in {"factory", "save"} /\ next \in 1..15 /\ NSaves = 15 /\ saved = <<>>
      /\ req = {[addr |-> SaveAddr(next), data |-> SaveData(next, Config)]}
  BY VarsAre DEF EndWrite, ConfigInv, WritesNext, WrittenSoFar, ConfigTypeInv
<1>2. store' = [store EXCEPT ![SaveAddr(next)] = SaveData(next, Config)]
  <2>1. PICK r \in req : store' = [store EXCEPT ![r.addr] = r.data]
    BY DEF EndWrite, EE!Commit
  <2>2. r.addr = SaveAddr(next) /\ r.data = SaveData(next, Config)
    BY <1>1
  <2>3. QED
    BY <2>1, <2>2
<1>3. req' = {} /\ next' = next + 1 /\ UNCHANGED <<split, pc, packet, loaded, saved, net>>
  BY DEF EndWrite
<1>4. Config' = Config
  BY <1>3 DEF Config
<1>5. store' = [v \in Vars |-> store'[v]]
  BY <1>2 DEF ConfigInv, ConfigTypeInv
<1>6. ~split => \A i \in 1..next : store'[SaveAddr(i)] = SaveData(i, Config)
  BY <1>1, <1>2, OneMoreIsHeld DEF ConfigInv, WrittenSoFar, ConfigTypeInv, Holds
<1>7. WrittenSoFar'
  BY <1>1, <1>3, <1>4, <1>6 DEF WrittenSoFar, Holds
<1>8. QED
  BY <1>1, <1>3, <1>5, <1>7
  DEF ConfigInv, ConfigTypeInv, WritesNext, SavedIsHeld, FactoryNotLoaded, SavedIsLoaded, Kept

\* A write that finds the page full moves no other variable, which is why it counts
\* as split unless it is the first.
LEMMA EndTransferKeeps ==
  ASSUME ConfigInv, EndTransfer PROVE ConfigInv'
PROOF
<1>1. /\ pc \in {"factory", "save"} /\ next \in 1..15 /\ NSaves = 15 /\ saved = <<>>
      /\ req = {[addr |-> SaveAddr(next), data |-> SaveData(next, Config)]}
  BY VarsAre DEF EndTransfer, ConfigInv, WritesNext, WrittenSoFar, ConfigTypeInv
<1>2. store' = [v \in Vars |-> IF v = SaveAddr(next) THEN SaveData(next, Config) ELSE NotFound]
  <2>1. PICK r \in req : store' = Only(r)
    BY DEF EndTransfer
  <2>2. r.addr = SaveAddr(next) /\ r.data = SaveData(next, Config)
    BY <1>1
  <2>3. QED
    BY <2>1, <2>2 DEF Only
<1>3. /\ req' = {} /\ next' = next + 1 /\ split' = (split \/ next > 1)
      /\ UNCHANGED <<pc, packet, loaded, saved, net>>
  BY DEF EndTransfer
<1>4. Config' = Config
  BY <1>3 DEF Config
<1>5. store' = [v \in Vars |-> store'[v]]
  BY <1>2
<1>6. ~split' => \A i \in 1..next : store'[SaveAddr(i)] = SaveData(i, Config)
  <2>1. ASSUME ~split' PROVE next = 1
    <3>1. ~(next > 1)
      BY <1>3, <2>1, Zenon
    <3>2. QED
      BY <1>1, <3>1
  <2>2. SaveAddr(next) \in Vars
    BY <1>1, SaveAddrsDiffer
  <2>3. store'[SaveAddr(next)] = SaveData(next, Config)
    BY <1>2, <2>2
  <2>4. QED
    BY <2>1, <2>3
<1>7. WrittenSoFar'
  BY <1>1, <1>3, <1>4, <1>6 DEF WrittenSoFar, Holds
<1>8. QED
  BY <1>1, <1>3, <1>5, <1>7
  DEF ConfigInv, ConfigTypeInv, WritesNext, SavedIsHeld, FactoryNotLoaded, SavedIsLoaded, Kept

\* The last variable is written: what counts as saved from now on is in the store.
LEMMA EndSaveKeeps ==
  ASSUME ConfigInv, EndSave PROVE ConfigInv'
PROOF
<1>1. /\ pc \in {"factory", "save"} /\ next - 1 = NSaves /\ NSaves = 15
      /\ req = {}
  BY VarsAre DEF EndSave, ConfigInv, WritesNext, ConfigTypeInv
<1>2. /\ saved' = Config /\ next' = 1 /\ UNCHANGED <<store, req, split, net, loaded>>
      /\ pc' = (IF pc = "factory" THEN "run" ELSE "off")
      /\ packet' \in Configuration
  BY ZeroIsAConfiguration DEF EndSave, ConfigInv, ConfigTypeInv
<1>3. Config \in Configuration
  BY FactoryIsAConfiguration DEF ConfigInv, ConfigTypeInv, Config
<1>4. ~split => Holds(NSaves, Config)
  BY <1>1 DEF ConfigInv, WrittenSoFar
<1>5. SavedIsHeld'
  BY <1>2, <1>3, <1>4 DEF SavedIsHeld, Kept, Holds
<1>6. SavedIsLoaded'
  BY <1>1, <1>2 DEF SavedIsLoaded, ConfigInv, FactoryNotLoaded
<1>7. QED
  BY <1>1, <1>2, <1>5, <1>6
  DEF ConfigInv, ConfigTypeInv, WritesNext, WrittenSoFar, FactoryNotLoaded

\* A power-up that loads gets all of a configuration that is held.
LEMMA LoadConfigKeeps ==
  ASSUME ConfigInv, LoadConfig PROVE ConfigInv'
PROOF
<1>1. /\ net' = [f \in Fields |-> [k \in Bytes |-> LoadedByte(k)[f]]]
      /\ pc = "off" /\ pc' = "run" /\ UNCHANGED <<store, req, split, next, packet, saved>>
  BY DEF LoadConfig
<1>2. Kept => net' = saved
  BY <1>1, WholeIsLoaded DEF ConfigInv, SavedIsHeld
<1>3. QED
  BY <1>1, <1>2
  DEF ConfigInv, ConfigTypeInv, WritesNext, WrittenSoFar, SavedIsHeld, FactoryNotLoaded,
      SavedIsLoaded, Kept, Holds

\* A loss of power between two saves changes no variable, and one that cuts a save
\* short meets nothing that counts as saved.
LEMMA PowerLossKeeps ==
  ASSUME ConfigInv, PowerLoss PROVE ConfigInv'
PROOF
<1>1. /\ pc' = "off" /\ next' = 1 /\ packet' \in Configuration
      /\ UNCHANGED <<net, loaded, saved, split>>
  BY ZeroIsAConfiguration DEF PowerLoss
<1>2. req' = {}
  BY DEF PowerLoss, CrashInPage, CrashInTransfer, EE!Crash
<1>3. store' = [v \in Vars |-> store'[v]]
  BY DEF PowerLoss, CrashInPage, CrashInTransfer, EE!Crash, Only, ConfigInv, ConfigTypeInv
<1>4. CASE saved = <<>>
  BY <1>1, <1>2, <1>3, <1>4, VarsAre
  DEF ConfigInv, ConfigTypeInv, WritesNext, WrittenSoFar, SavedIsHeld, FactoryNotLoaded,
      SavedIsLoaded, Kept
<1>5. CASE saved # <<>>
  <2>1. store' = store
    BY <1>5
    DEF PowerLoss, CrashInPage, CrashInTransfer, EE!Crash, ConfigInv, WritesNext, WrittenSoFar
  <2>2. QED
    BY <1>1, <1>2, <1>3, <2>1, VarsAre
    DEF ConfigInv, ConfigTypeInv, WritesNext, WrittenSoFar, SavedIsHeld, FactoryNotLoaded,
        SavedIsLoaded, Kept, Holds
<1>6. QED
  BY <1>4, <1>5

\* The steps that begin a write of all or of one variable.
LEMMA StartsKeep ==
  ASSUME ConfigInv, WriteFactory \/ ConfigCgi \/ StartWrite PROVE ConfigInv'
PROOF
<1>1. CASE WriteFactory
  <2>1. /\ pc' = "factory" /\ next' = 1 /\ ~loaded' /\ saved' = <<>>
        /\ pc = "off" /\ UNCHANGED <<store, req, packet>>
    BY <1>1 DEF WriteFactory
  <2>2. QED
    BY <2>1, VarsAre
    DEF ConfigInv, ConfigTypeInv, WritesNext, WrittenSoFar, SavedIsHeld, FactoryNotLoaded,
        SavedIsLoaded, Kept, Holds
<1>2. CASE ConfigCgi
  <2>1. /\ pc' = "save" /\ next' = 1 /\ saved' = <<>>
        /\ pc = "run" /\ UNCHANGED <<store, req>>
    BY <1>2 DEF ConfigCgi
  <2>2. packet' \in Configuration
    <3>1. PICK given \in SUBSET Fields : \E a \in [given -> Addresses] :
            packet' = [f \in Fields |-> IF f \in given THEN a[f] ELSE packet[f]]
      BY <1>2 DEF ConfigCgi
    <3>2. PICK a \in [given -> Addresses] :
            packet' = [f \in Fields |-> IF f \in given THEN a[f] ELSE packet[f]]
      BY <3>1
    <3>3. (\A f \in given : a[f] \in [Bytes -> 0..255]) /\ packet \in Configuration
      BY ConfigAssumption DEF Bytes, ConfigInv, ConfigTypeInv
    <3>4. QED
      BY <3>2, <3>3 DEF Configuration
  <2>3. QED
    BY <2>1, <2>2, VarsAre
    DEF ConfigInv, ConfigTypeInv, WritesNext, WrittenSoFar, SavedIsHeld, FactoryNotLoaded,
        SavedIsLoaded, Kept, Holds
<1>3. CASE StartWrite
  <2>1. /\ pc \in {"factory", "save"} /\ next <= NSaves
        /\ req' = {[addr |-> SaveAddr(next), data |-> SaveData(next, Config)]}
        /\ UNCHANGED <<store, split, pc, next, net, packet, loaded, saved>>
    BY <1>3 DEF StartWrite, EE!Request
  <2>2. Config' = Config
    BY <2>1 DEF Config
  <2>3. QED
    BY <2>1, <2>2
    DEF ConfigInv, ConfigTypeInv, WritesNext, WrittenSoFar, SavedIsHeld, FactoryNotLoaded,
        SavedIsLoaded, Kept, Holds
<1>4. QED
  BY <1>1, <1>2, <1>3

LEMMA ConfigInvStays ==
  ASSUME ConfigInv, [ConfigNext]_configVars PROVE ConfigInv'
PROOF
  BY StartsKeep, LoadConfigKeeps, EndWriteKeeps, EndTransferKeeps, EndSaveKeeps, PowerLossKeeps,
     ConfigStutters
  DEF ConfigNext, configVars

\* For any addresses, any room in a page and any number of power losses, a
\* configuration that was written whole into one page is in use after every later
\* power-up that loads, until the next one is being written.
THEOREM SavedConfigIsLoaded == ConfigSpec => []SavedIsLoaded
PROOF
<1>1. ConfigInv => SavedIsLoaded
  BY DEF ConfigInv
<1>2. QED
  BY <1>1, ConfigAtStart, ConfigInvStays, PTL DEF ConfigSpec

\* And no power-up takes it for wrong.
THEOREM SavedConfigIsKept == ConfigSpec => SavedIsKept
PROOF
<1>1. ASSUME ConfigInv, [ConfigNext]_configVars
      PROVE  [(pc = "off" /\ Kept) => pc' # "factory"]_configVars
  <2>1. ASSUME pc = "off", Kept, pc' = "factory" PROVE FALSE
    <3>1. \A m \in Markers : store[m] = MarkerOf[m]
      <4>1. Holds(NSaves, saved) /\ NSaves = 15
        BY <1>1, <2>1, VarsAre DEF ConfigInv, SavedIsHeld
      <4>2. ASSUME NEW m \in Markers PROVE store[m] = MarkerOf[m]
        <5>1. m + 1 \in 1..15 /\ SaveAddr(m + 1) = m /\ SaveData(m + 1, saved) = MarkerOf[m]
          BY DEF Markers, SaveAddr, SaveData
        <5>2. QED
          BY <4>1, <5>1 DEF Holds
      <4>3. QED
        BY <4>2
    <3>2. WriteFactory
      BY <1>1, <2>1
      DEF ConfigNext, configVars, LoadConfig, StartWrite, EndWrite, EndTransfer, EndSave, ConfigCgi,
          PowerLoss, ConfigInv, WritesNext
    <3>3. QED
      BY <3>1, <3>2 DEF WriteFactory
  <2>2. QED
    BY <2>1
<1>2. QED
  BY <1>1, ConfigAtStart, ConfigInvStays, PTL DEF ConfigSpec, SavedIsKept

-----------------------------------------------------------------------------
(* The SD card: the time a call takes *)

\* What an initialisation may take a card for, and find that it is.
Probed == {"Unknown", "MMC", "SD1", "SD2", "probe"}
Types == Probed \cup {"SD2|BLOCK"}

\* The commands that are sent together.
Commands ==
  {<<>>, App("ACMD41"), App("ACMD23")} \cup
  {<<c>> : c \in {"CMD0", "CMD8", "ACMD41", "CMD1", "CMD58", "CMD16", "CMD17", "CMD18", "CMD12",
                 "ACMD23", "CMD24", "CMD25"}}

\* The states of the driver.
Driver ==
  [Stat : BOOLEAN, CardType : Types, Timer1 : Nat, Timer2 : Nat,
   pc : {"idle", "power", "select", "answer", "token", "xmit", "stop"}, cmd : Commands,
   op : {"none", "init", "read", "write", "sync"}, sector : Nat, count : Nat, left : Nat,
   data : Seq(Data), ty : Probed, res : {"RES_OK", "RES_ERROR"}]

InitEnd == POWER_WAIT + READY_WAIT + INIT_WAIT
InitLate == {<<"ACMD41">>, <<"CMD1">>, <<"CMD58">>, <<"CMD16">>}

\* An initialisation checks Timer1 before each command but the second half of an
\* application command and the first after CMD8, which INIT_WAIT leaves time for.
InitInTime(d, e) ==
  \/ d.pc = "power" /\ e + d.Timer1 <= POWER_WAIT
  \/ d.pc = "select" /\ d.cmd = <<"CMD0">> /\ e + d.Timer2 <= POWER_WAIT + READY_WAIT
  \/ /\ d.pc = "select" /\ d.cmd = <<"CMD8">>
     /\ d.Timer1 = d.Timer2 + (INIT_WAIT - READY_WAIT) /\ e + d.Timer1 <= InitEnd
  \/ /\ d.pc = "select" /\ d.cmd = App("ACMD41")
     /\ d.Timer1 > 0 => e + d.Timer1 <= InitEnd
     /\ e + d.Timer2 < InitEnd + READY_WAIT
  \/ /\ d.pc = "select" /\ d.cmd \in InitLate
     /\ d.Timer1 > 0 => e + d.Timer1 <= InitEnd
     /\ e + d.Timer2 < InitEnd + 2 * READY_WAIT

SyncInTime(d, e) == d.pc = "select" /\ e + d.Timer2 <= READY_WAIT

Sent(d) == d.count - d.left

ReadInTime(d, e) ==
  \/ /\ d.pc = "select" /\ d.cmd = (IF d.count = 1 THEN <<"CMD17">> ELSE <<"CMD18">>)
     /\ d.left = d.count /\ e + d.Timer2 <= READY_WAIT
  \/ /\ d.pc = "token" /\ d.left > 0
     /\ e + d.Timer1 <= READY_WAIT + Sent(d) * TOKEN_WAIT + TOKEN_WAIT
  \/ /\ d.pc = "answer" /\ d.cmd = <<"CMD12">> /\ d.count > 1
     /\ e <= READY_WAIT + d.count * TOKEN_WAIT

WriteInTime(d, e) ==
  \/ /\ d.pc = "select" /\ d.left = d.count
     /\ \/ d.count = 1 /\ d.cmd = <<"CMD24">> /\ e + d.Timer2 <= READY_WAIT
        \/ d.count > 1 /\ d.cmd = App("ACMD23") /\ e + d.Timer2 <= READY_WAIT
        \/ d.count > 1 /\ d.cmd = <<"ACMD23">> /\ e + d.Timer2 <= 2 * READY_WAIT
        \/ d.count > 1 /\ d.cmd = <<"CMD25">> /\ e + d.Timer2 <= 3 * READY_WAIT
  \/ d.pc = "xmit" /\ d.count = 1 /\ d.left = 1 /\ e + d.Timer2 <= 2 * READY_WAIT
  \/ /\ d.pc = "xmit" /\ d.count > 1 /\ d.left > 0
     /\ e + d.Timer2 <= Sent(d) * READY_WAIT + 4 * READY_WAIT
  \/ /\ d.pc = "stop" /\ d.count > 1
     /\ e + d.Timer2 <= d.count * READY_WAIT + 4 * READY_WAIT

\* The invariant on a state d of the driver and the milliseconds e its call has taken.
InTime(d, e) ==
  /\ d \in Driver /\ e \in Nat
  /\ d.left <= d.count
  /\ \/ d.pc = "idle" /\ e = 0
     \/ d.op = "init" /\ InitInTime(d, e)
     \/ d.op = "sync" /\ SyncInTime(d, e)
     \/ d.op = "read" /\ d.count > 0 /\ ReadInTime(d, e)
     \/ d.op = "write" /\ d.count > 0 /\ WriteInTime(d, e)

TimeInv == InTime(drv, elapsed)

-----------------------------------------------------------------------------
(* The SD card: what it holds *)

Xfers == {None, "read", "reads", "write", "writes"}

\* The states of the card.
CardStates ==
  [kind : Kinds, mode : {"off", "idle", "ready"}, xfer : Xfers, at : Int,
   pend : SUBSET (Used \X Data), cells : [Sectors -> Data]]

CardTypeInv ==
  /\ card \in CardStates
  /\ \A p, q \in card.pend : p = q
  /\ known \in [Used -> SUBSET Data] /\ durable \in [Used -> SUBSET Data]
  /\ card.mode # "ready" => card.xfer = None

\* Sector s holds v, or will when the card is ready.
WillHold(k, s, v) ==
  /\ \A p \in k.pend : p[1] = s => p[2] = v
  /\ (\A p \in k.pend : p[1] # s) => k.cells[s] = v

\* What the card holds and what it is programming is what the program may know.
CellsKnown ==
  /\ \A p \in card.pend : p[2] \in known[p[1]] /\ p[2] \in durable[p[1]]
  /\ \A s \in Used :
       /\ card.cells[s] \in durable[s]
       /\ (\A p \in card.pend : p[1] # s) => card.cells[s] \in known[s]

\* What has been read is true, and the sectors of a call are those of the model.
DataKnown ==
  /\ drv.op = "read" => \A i \in 1..Len(drv.data) :
       drv.sector + i - 1 \in Used /\ drv.data[i] \in known[drv.sector + i - 1]
  /\ (drv.op \in {"read", "write"} /\ drv.pc # "idle") => Span(drv) \subseteq Used
  /\ (drv.op = "read" /\ drv.pc # "idle") => Len(drv.data) = Sent(drv)
  /\ drv.op = "write" => Len(drv.data) = drv.count
  /\ (drv.op = "write" /\ drv.pc # "idle") =>
       \A i \in 1..Len(drv.data) : /\ drv.data[i] \in known[drv.sector + i - 1]
                                   /\ drv.data[i] \in durable[drv.sector + i - 1]

\* A card in use is addressed as its kind wants it.
Identified(d, k) == d.Stat =>
  /\ k.mode # "idle"
  /\ k.mode = "ready" => (d.CardType = "SD2|BLOCK" <=> k.kind = "SDHC")

\* During initialisation a card of high capacity gets ready only when it is taken for
\* one of version 2.
Identifying(d, k) ==
  /\ (d.op = "init" /\ d.pc # "idle") => ~d.Stat
  /\ (d.op = "init" /\ d.pc = "select" /\ d.cmd # <<"CMD0">>) =>
       /\ k.xfer = None
       /\ d.cmd = <<"CMD8">> => k.mode # "ready"
       /\ (k.mode = "ready" /\ k.kind = "SDHC") => d.ty = "SD2"
       /\ d.cmd = <<"CMD16">> => d.ty # "SD2"
       /\ d.cmd = <<"CMD58">> => d.ty = "SD2"
  /\ d.op # "init" /\ d.pc # "idle" => d.Stat

\* The transfer a card in use is in is that of the call, at its sector.
Transferring(d, k) ==
  /\ (d.Stat /\ d.pc \in {"idle", "select"}) => k.xfer \in {None, "writes"}
  /\ d.pc = "token" =>
       /\ k.pend = {}
       /\ k.mode = "ready" => /\ k.xfer = (IF d.count = 1 THEN "read" ELSE "reads")
                              /\ k.at = d.sector + Sent(d)
  /\ d.pc = "answer" => k.xfer \in {None, "reads"} /\ k.pend = {}
  /\ (d.pc = "xmit" /\ k.mode = "ready") =>
       /\ k.xfer = (IF d.count = 1 THEN "write" ELSE "writes")
       /\ k.at = d.sector + Sent(d)
  /\ d.pc = "stop" => k.xfer \in {None, "writes"}
  /\ (d.pc \in {"xmit", "stop"} /\ k.mode = "ready") =>
       \A i \in 1..Sent(d) : WillHold(k, d.sector + i - 1, d.data[i])

DataInv ==
  /\ CardTypeInv /\ CellsKnown /\ DataKnown
  /\ Identified(drv, card) /\ Identifying(drv, card) /\ Transferring(drv, card)

-----------------------------------------------------------------------------
(* The SD card: lemmas on the helpers of the driver *)

\* The waits are whole milliseconds, and CMD8 is answered before INIT_WAIT is over.
LEMMA Waits ==
  /\ BLOCK \in Nat \ {0} /\ POWER_WAIT \in Nat \ {0} /\ INIT_WAIT \in Nat \ {0}
  /\ READY_WAIT \in Nat \ {0} /\ TOKEN_WAIT \in Nat \ {0} /\ INIT_WAIT > READY_WAIT
PROOF
  BY CardAssumption

\* A call that returns.
LEMMA ReturnsIs ==
  ASSUME NEW d \in Driver, NEW ok \in BOOLEAN
  PROVE  LET r == Returns(d, ok) IN
         /\ r \in Driver /\ r.pc = "idle" /\ r.Stat = d.Stat /\ r.CardType = d.CardType
         /\ r.left = 0 /\ r.count = 0
         /\ r.res = (IF ok THEN "RES_OK" ELSE "RES_ERROR")
         /\ r.op = (IF ok /\ d.op = "read" THEN "read" ELSE "none")
         /\ r.op = "read" => r.sector = d.sector /\ r.data = d.data
PROOF
<1>1. Stopped \in Driver
  BY DEF Stopped, Driver, Types, Probed, Commands
<1>2. CASE ok /\ d.op = "read"
  <2>1. Returns(d, ok) = [Stopped EXCEPT !.Stat = d.Stat, !.CardType = d.CardType,
                            !.res = "RES_OK", !.op = "read", !.sector = d.sector, !.data = d.data]
    BY <1>2 DEF Returns
  <2>2. /\ d.sector \in Nat /\ d.data \in Seq(Data) /\ d.Stat \in BOOLEAN /\ d.CardType \in Types
    BY DEF Driver
  <2>3. Returns(d, ok) = [Stat |-> d.Stat, CardType |-> d.CardType, Timer1 |-> 0, Timer2 |-> 0,
           pc |-> "idle", cmd |-> <<>>, op |-> "read", sector |-> d.sector, count |-> 0, left |-> 0,
           data |-> d.data, ty |-> "Unknown", res |-> "RES_OK"]
    BY ZenonT(30), <2>1 DEF Stopped
  <2>4. Returns(d, ok) \in Driver
    BY <2>2, <2>3 DEF Driver, Types, Probed, Commands
  <2>5. /\ Returns(d, ok).op = "read" /\ Returns(d, ok).res = "RES_OK" /\ Returns(d, ok).pc = "idle"
        /\ Returns(d, ok).left = 0 /\ Returns(d, ok).count = 0
    BY <2>3
  <2>6. /\ Returns(d, ok).Stat = d.Stat /\ Returns(d, ok).CardType = d.CardType
        /\ Returns(d, ok).sector = d.sector /\ Returns(d, ok).data = d.data
    BY <2>3
  <2>7. QED
    BY <1>2, <2>4, <2>5, <2>6
<1>3. CASE ~(ok /\ d.op = "read")
  <2>1. Returns(d, ok) = [Stopped EXCEPT !.Stat = d.Stat, !.CardType = d.CardType,
                            !.res = IF ok THEN "RES_OK" ELSE "RES_ERROR"]
    BY <1>3 DEF Returns
  <2>2. QED
    BY ZenonT(30), <1>1, <1>3, <2>1 DEF Driver, Stopped
<1>4. QED
  BY <1>2, <1>3

\* A command or a block the driver waits to send.
LEMMA SendIs ==
  ASSUME NEW d \in Driver, NEW cmds \in Commands
  PROVE  /\ send_cmd(d, cmds) \in Driver
         /\ send_cmd(d, cmds) = [d EXCEPT !.Timer2 = READY_WAIT, !.pc = "select", !.cmd = cmds]
PROOF
<1>1. send_cmd(d, cmds) = [d EXCEPT !.Timer2 = READY_WAIT, !.pc = "select", !.cmd = cmds]
  BY DEF send_cmd, Wait2, Driver
<1>2. QED
  BY ZenonT(30), <1>1, Waits DEF Driver

\* A command that goes alone.
LEMMA OneCommand ==
  ASSUME NEW d, NEW c, NEW r, d.cmd = <<c>>
  PROVE  AfterCommand(d, r) = Answered([d EXCEPT !.Timer2 = 0], c, r)
PROOF
  BY DEF AfterCommand

\* An application command.
LEMMA TwoCommands ==
  ASSUME NEW d, NEW c, NEW r, d.cmd = App(c)
  PROVE  /\ r = "more" => AfterCommand(d, r) = Answered([d EXCEPT !.Timer2 = 0], c, r)
         /\ r # "more" => AfterCommand(d, r) = send_cmd(d, <<c>>)
PROOF
<1>1. Len(d.cmd) = 2 /\ d.cmd[2] = c /\ Tail(d.cmd) = <<c>>
  BY DEF App
<1>2. QED
  BY <1>1 DEF AfterCommand

\* The command sequences of an initialisation are not confused.
LEMMA InitCommandsDiffer ==
  ASSUME NEW s
  PROVE  /\ s = <<"CMD0">> => s # <<"CMD8">> /\ s # App("ACMD41") /\ s \notin InitLate
         /\ s = <<"CMD8">> => s # App("ACMD41") /\ s \notin InitLate
         /\ s = App("ACMD41") => s \notin InitLate
PROOF
<1>1. \A x \in InitLate : Len(x) = 1 /\ x[1] \in {"ACMD41", "CMD1", "CMD58", "CMD16"}
  BY DEF InitLate
<1>2. s = <<"CMD0">> => Len(s) = 1 /\ s[1] = "CMD0"
  OBVIOUS
<1>3. s = <<"CMD8">> => Len(s) = 1 /\ s[1] = "CMD8"
  OBVIOUS
<1>4. s = App("ACMD41") => Len(s) = 2
  BY DEF App
<1>5. QED
  BY <1>1, <1>2, <1>3, <1>4

-----------------------------------------------------------------------------
(* The SD card: every call ends in time *)

\* The milliseconds of the call after a step that does not wait.
Lasts(d, e) == IF d.pc = "idle" THEN 0 ELSE e

\* A call that returns is in time.
LEMMA ReturnsInTime ==
  ASSUME NEW d \in Driver, NEW ok \in BOOLEAN, NEW e
  PROVE  InTime(Returns(d, ok), Lasts(Returns(d, ok), e))
PROOF
  BY ReturnsIs DEF InTime, Lasts

\* An initialisation that knows the type is in time.
LEMMA InitialisedInTime ==
  ASSUME NEW d \in Driver, NEW ty \in Types, NEW e
  PROVE  InTime(Initialised(d, ty), Lasts(Initialised(d, ty), e))
PROOF
<1>1. [d EXCEPT !.CardType = ty, !.Stat = ty # "Unknown"] \in Driver
  BY DEF Driver
<1>2. QED
  BY <1>1, ReturnsInTime DEF Initialised

\* What a state of an initialisation leaves of the time.
Initialising(d, e) ==
  d \in Driver /\ d.op = "init" /\ d.left <= d.count /\ e \in Nat /\ (d.Timer1 > 0 => e + d.Timer1 <= InitEnd)

\* So is one that sends the last commands of its type,
LEMMA LastInitInTime ==
  ASSUME NEW d, NEW e, Initialising(d, e)
  PROVE  InTime(LastInit(d), Lasts(LastInit(d), e))
PROOF
<1>1. d \in Driver /\ d.Timer1 \in Nat
  BY DEF Initialising, Driver
<1>2. CASE d.Timer1 = 0
  BY <1>1, <1>2, InitialisedInTime DEF LastInit, Types, Probed
<1>3. ASSUME NEW c \in {"CMD58", "CMD16"}, d.Timer1 # 0
      PROVE  InTime(send_cmd(d, <<c>>), Lasts(send_cmd(d, <<c>>), e))
  <2> DEFINE n == send_cmd(d, <<c>>)
  <2>1. n \in Driver /\ n = [d EXCEPT !.Timer2 = READY_WAIT, !.pc = "select", !.cmd = <<c>>]
    BY <1>1, SendIs DEF Commands
  <2>2. /\ n.pc = "select" /\ n.op = "init" /\ n.cmd = <<c>> /\ n.Timer2 = READY_WAIT
        /\ n.Timer1 = d.Timer1 /\ n.left <= n.count
    BY <1>1, <2>1 DEF Initialising, Driver
  <2>3. e + n.Timer2 < InitEnd + 2 * READY_WAIT
    BY <1>1, <1>3, <2>2, Waits DEF Initialising, InitEnd
  <2>4. InitInTime(n, e)
    BY <2>2, <2>3 DEF InitInTime, InitLate, Initialising
  <2>5. QED
    BY <2>1, <2>2, <2>4 DEF InTime, Lasts, Initialising
<1>4. CASE d.Timer1 # 0
  BY <1>1, <1>3, <1>4 DEF LastInit
<1>5. QED
  BY <1>2, <1>4

\* and one that asks the card once more whether it is ready.
LEMMA PollInTime ==
  ASSUME NEW d, NEW e, Initialising(d, e)
  PROVE  InTime(Poll(d), Lasts(Poll(d), e))
PROOF
<1>1. d \in Driver /\ d.Timer1 \in Nat
  BY DEF Initialising, Driver
<1>2. CASE d.Timer1 = 0
  BY <1>2, LastInitInTime DEF Poll
<1>3. ASSUME NEW cmds \in {<<"CMD1">>, App("ACMD41")}, d.Timer1 # 0
      PROVE  InTime(send_cmd(d, cmds), Lasts(send_cmd(d, cmds), e))
  <2> DEFINE n == send_cmd(d, cmds)
  <2>1. n \in Driver /\ n = [d EXCEPT !.Timer2 = READY_WAIT, !.pc = "select", !.cmd = cmds]
    BY <1>1, SendIs DEF Commands
  <2>2. /\ n.pc = "select" /\ n.op = "init" /\ n.cmd = cmds /\ n.Timer2 = READY_WAIT
        /\ n.Timer1 = d.Timer1 /\ n.left <= n.count
    BY <1>1, <2>1 DEF Initialising, Driver
  <2>3. e + n.Timer2 < InitEnd + READY_WAIT /\ e + n.Timer2 < InitEnd + 2 * READY_WAIT
    BY <1>1, <1>3, <2>2, Waits DEF Initialising, InitEnd
  <2>4. InitInTime(n, e)
    BY <2>2, <2>3 DEF InitInTime, InitLate, Initialising
  <2>5. QED
    BY <2>1, <2>2, <2>4 DEF InTime, Lasts, Initialising
<1>4. CASE d.Timer1 # 0
  BY <1>1, <1>3, <1>4 DEF Poll
<1>5. QED
  BY <1>2, <1>4

\* The answer to a command of the initialisation.
LEMMA InitAnswerInTime ==
  ASSUME NEW d, NEW e, InTime(d, e), d.op = "init", d.pc = "select", NEW r
  PROVE  InTime(AfterCommand(d, r), Lasts(AfterCommand(d, r), e))
PROOF
<1> DEFINE z == [d EXCEPT !.Timer2 = 0]
<1>1. d \in Driver /\ e \in Nat /\ d.left <= d.count /\ InitInTime(d, e)
      /\ d.Timer1 \in Nat /\ d.Timer2 \in Nat
  BY DEF InTime, Driver
<1>2. z \in Driver /\ z.Timer1 = d.Timer1 /\ z.op = "init" /\ z.left <= z.count /\ z.ty = d.ty
  BY <1>1 DEF Driver
<1>3. "Unknown" \in Types
  BY DEF Types, Probed
<1>4. CASE d.cmd = <<"CMD0">>
  <2>1. AfterCommand(d, r) = IF r = "one" THEN send_cmd([z EXCEPT !.Timer1 = INIT_WAIT], <<"CMD8">>)
                             ELSE Initialised(z, "Unknown")
    <3>1. AfterCommand(d, r) = Answered(z, "CMD0", r)
      BY <1>4, OneCommand
    <3>2. QED
      BY <3>1 DEF Answered
  <2> DEFINE n == send_cmd([z EXCEPT !.Timer1 = INIT_WAIT], <<"CMD8">>)
  <2>2. [z EXCEPT !.Timer1 = INIT_WAIT] \in Driver
    BY <1>2, Waits DEF Driver
  <2>3. n \in Driver /\ n = [[z EXCEPT !.Timer1 = INIT_WAIT] EXCEPT
                                !.Timer2 = READY_WAIT, !.pc = "select", !.cmd = <<"CMD8">>]
    BY <2>2, SendIs DEF Commands
  <2>4. /\ n.pc = "select" /\ n.op = "init" /\ n.cmd = <<"CMD8">> /\ n.Timer2 = READY_WAIT
        /\ n.Timer1 = INIT_WAIT /\ n.left <= n.count
    BY <1>2, <2>3 DEF Driver
  <2>5. e <= POWER_WAIT + READY_WAIT
    BY <1>1, <1>4, InitCommandsDiffer, Waits DEF InitInTime
  <2>6. InitInTime(n, e)
    BY <1>1, <2>4, <2>5, Waits DEF InitInTime, InitEnd
  <2>7. InTime(n, Lasts(n, e))
    BY <1>1, <2>3, <2>4, <2>6 DEF InTime, Lasts
  <2>8. QED
    BY <1>2, <1>3, <2>1, <2>7, InitialisedInTime
<1>5. CASE d.cmd = <<"CMD8">>
  <2>1. AfterCommand(d, r) = CASE r = "one" -> Poll([z EXCEPT !.ty = "SD2"])
                               [] r = "mismatch" -> Initialised(z, "Unknown")
                               [] OTHER -> send_cmd([z EXCEPT !.ty = "probe"], App("ACMD41"))
    <3>1. AfterCommand(d, r) = Answered(z, "CMD8", r)
      BY <1>5, OneCommand
    <3>2. QED
      BY <3>1 DEF Answered
  <2>2. e + d.Timer1 <= InitEnd /\ d.Timer1 > 0
    BY <1>1, <1>5, Waits, InitCommandsDiffer DEF InitInTime
  <2>3. Initialising([z EXCEPT !.ty = "SD2"], e)
    BY <1>1, <1>2, <2>2 DEF Initialising, Driver, Types, Probed
  <2> DEFINE q == [z EXCEPT !.ty = "probe"]
             n == send_cmd(q, App("ACMD41"))
  <2>4. q \in Driver /\ q.Timer1 = d.Timer1 /\ q.op = "init" /\ q.left <= q.count
    BY <1>2 DEF Driver, Types, Probed
  <2>5. n \in Driver /\ n = [q EXCEPT !.Timer2 = READY_WAIT, !.pc = "select", !.cmd = App("ACMD41")]
    BY <2>4, SendIs DEF Commands
  <2>6. /\ n.pc = "select" /\ n.op = "init" /\ n.cmd = App("ACMD41") /\ n.Timer2 = READY_WAIT
        /\ n.Timer1 = d.Timer1 /\ n.left <= n.count
    BY <2>4, <2>5 DEF Driver
  <2>7. InitInTime(n, e)
    BY <1>1, <2>2, <2>6, Waits DEF InitInTime, InitEnd
  <2>8. InTime(n, Lasts(n, e))
    BY <1>1, <2>5, <2>6, <2>7 DEF InTime, Lasts
  <2>9. QED
    BY <1>2, <1>3, <2>1, <2>3, <2>8, InitialisedInTime, PollInTime
<1>6. ASSUME d.Timer1 > 0 => e + d.Timer1 <= InitEnd, NEW c \in {"ACMD41", "CMD1", "CMD58", "CMD16"}
      PROVE  InTime(Answered(z, c, r), Lasts(Answered(z, c, r), e))
  <2>1. Initialising(z, e)
    BY <1>1, <1>2, <1>6 DEF Initialising
  <2>2. CASE c = "ACMD41" /\ d.ty = "probe"
    <3>1. Answered(z, c, r) = Poll([z EXCEPT !.ty = IF r \in {"zero", "one"} THEN "SD1" ELSE "MMC"])
      BY <1>2, <2>2 DEF Answered
    <3>2. Initialising([z EXCEPT !.ty = IF r \in {"zero", "one"} THEN "SD1" ELSE "MMC"], e)
      BY <1>2, <2>1 DEF Initialising, Driver, Types, Probed
    <3>3. QED
      BY <3>1, <3>2, PollInTime
  <2>3. CASE (c = "ACMD41" /\ d.ty # "probe") \/ c = "CMD1"
    <3>1. Answered(z, c, r) = IF r = "zero" THEN LastInit(z) ELSE Poll(z)
      BY <1>2, <2>3 DEF Answered
    <3>2. QED
      BY <2>1, <3>1, PollInTime, LastInitInTime
  <2>4. CASE c = "CMD58"
    <3>1. Answered(z, c, r) = Initialised(z, IF r # "zero" THEN "Unknown"
                                     ELSE IF card.kind = "SDHC" THEN "SD2|BLOCK" ELSE "SD2")
      BY <2>4 DEF Answered
    <3>2. QED
      BY <1>2, <3>1, InitialisedInTime DEF Types, Probed
  <2>5. CASE c = "CMD16"
    <3>1. Answered(z, c, r) = Initialised(z, IF r = "zero" THEN z.ty ELSE "Unknown")
      BY <2>5 DEF Answered
    <3>2. z.ty \in Types
      BY <1>2 DEF Driver, Types
    <3>3. QED
      BY <1>2, <1>3, <3>1, <3>2, InitialisedInTime
  <2>6. QED
    BY <2>2, <2>3, <2>4, <2>5
<1>7. CASE d.cmd \in InitLate
  <2>1. d.Timer1 > 0 => e + d.Timer1 <= InitEnd
    BY <1>1, <1>7, InitCommandsDiffer DEF InitInTime
  <2>2. PICK c \in {"ACMD41", "CMD1", "CMD58", "CMD16"} : d.cmd = <<c>>
    BY <1>7 DEF InitLate
  <2>3. QED
    BY <1>6, <2>1, <2>2, OneCommand
<1>8. CASE d.cmd = App("ACMD41")
  <2>1. (d.Timer1 > 0 => e + d.Timer1 <= InitEnd) /\ e + d.Timer2 < InitEnd + READY_WAIT
    BY <1>1, <1>8, InitCommandsDiffer DEF InitInTime
  <2> DEFINE n == send_cmd(d, <<"ACMD41">>)
  <2>2. n \in Driver /\ n = [d EXCEPT !.Timer2 = READY_WAIT, !.pc = "select", !.cmd = <<"ACMD41">>]
    BY <1>1, SendIs DEF Commands
  <2>3. /\ n.pc = "select" /\ n.op = "init" /\ n.cmd = <<"ACMD41">> /\ n.Timer2 = READY_WAIT
        /\ n.Timer1 = d.Timer1 /\ n.left <= n.count
    BY <1>1, <2>2 DEF Driver
  <2>4. e + n.Timer2 < InitEnd + 2 * READY_WAIT
    BY <1>1, <2>1, <2>3, Waits DEF InitEnd
  <2>5. InitInTime(n, e)
    BY <2>1, <2>3, <2>4 DEF InitInTime, InitLate
  <2>6. InTime(n, Lasts(n, e))
    BY <1>1, <2>2, <2>3, <2>5 DEF InTime, Lasts
  <2>7. QED
    BY <1>6, <1>8, <2>1, <2>6, TwoCommands
<1>9. QED
  BY <1>1, <1>4, <1>5, <1>7, <1>8 DEF InitInTime

\* A product grows with its first factor.
LEMMA MoreBlocks ==
  ASSUME NEW t \in Nat, NEW m \in Nat, NEW n \in Nat, m <= n
  PROVE  m * t \in Nat /\ m * t <= n * t /\ (m + 1) * t = m * t + t
PROOF
<1>1. m * t \in Nat /\ n * t \in Nat /\ (n - m) * t \in Nat
  OBVIOUS
<1>2. n * t = m * t + (n - m) * t
  OBVIOUS
<1>3. (m + 1) * t = m * t + t
  OBVIOUS
<1>4. QED
  BY <1>1, <1>2, <1>3

\* A read: the wait for the card, and one for each block.
LEMMA ReceiveInTime ==
  ASSUME NEW d \in Driver, NEW e \in Nat, d.op = "read", d.left > 0, d.left <= d.count,
         e <= READY_WAIT + Sent(d) * TOKEN_WAIT
  PROVE  InTime(Receive(d), Lasts(Receive(d), e))
PROOF
<1> DEFINE n == Receive(d)
<1>1. n = [d EXCEPT !.Timer1 = TOKEN_WAIT, !.pc = "token"]
  BY DEF Receive
<1>2. d.left \in Nat /\ d.count \in Nat /\ Sent(d) \in Nat
  BY DEF Driver, Sent
<1>3. /\ n \in Driver /\ n.pc = "token" /\ n.op = "read" /\ n.Timer1 = TOKEN_WAIT
      /\ n.left = d.left /\ n.count = d.count
  BY <1>1, Waits DEF Driver
<1>4. Sent(n) = Sent(d) /\ Sent(d) * TOKEN_WAIT \in Nat
  BY <1>2, <1>3, Waits, MoreBlocks DEF Sent
<1>5. e + n.Timer1 <= READY_WAIT + Sent(n) * TOKEN_WAIT + TOKEN_WAIT
  BY <1>3, <1>4, Waits
<1>6. QED
  BY <1>2, <1>3, <1>5 DEF InTime, ReadInTime, Lasts

\* CMD12 ends a read of several blocks in time.
LEMMA StopReadingInTime ==
  ASSUME NEW d \in Driver, NEW e \in Nat, d.op = "read", d.count > 1, d.left <= d.count,
         e <= READY_WAIT + d.count * TOKEN_WAIT
  PROVE  InTime(StopReading(d), Lasts(StopReading(d), e))
PROOF
<1> DEFINE n == StopReading(d)
<1>1. n = [d EXCEPT !.cmd = <<"CMD12">>, !.pc = "answer"]
  BY DEF StopReading
<1>2. d.left \in Nat /\ d.count \in Nat
  BY DEF Driver
<1>3. /\ n \in Driver /\ n.pc = "answer" /\ n.op = "read" /\ n.cmd = <<"CMD12">>
      /\ n.left = d.left /\ n.count = d.count
  BY <1>1 DEF Driver, Commands
<1>4. QED
  BY <1>2, <1>3 DEF InTime, ReadInTime, Lasts

\* A block has come or not.
LEMMA BlockReadInTime ==
  ASSUME NEW d, NEW e, InTime(d, e), d.pc = "token", NEW ok \in BOOLEAN, NEW v, ok => v \in Data
  PROVE  InTime(AfterBlock(d, ok, v), Lasts(AfterBlock(d, ok, v), e))
PROOF
<1> DEFINE n == IF ok THEN [d EXCEPT !.left = @ - 1, !.data = Append(@, v)] ELSE d
<1>1. /\ d \in Driver /\ e \in Nat /\ d.op = "read" /\ d.left \in Nat /\ d.count \in Nat
      /\ d.left <= d.count /\ d.left > 0 /\ d.Timer1 \in Nat
      /\ e + d.Timer1 <= READY_WAIT + Sent(d) * TOKEN_WAIT + TOKEN_WAIT
  BY DEF InTime, Driver, InitInTime, SyncInTime, ReadInTime, WriteInTime
<1>2. n \in Driver /\ n.op = "read" /\ n.count = d.count /\ n.left <= n.count
  <2>1. CASE ok
    <3>1. n = [d EXCEPT !.left = d.left - 1, !.data = Append(d.data, v)]
      BY <2>1
    <3>2. Append(d.data, v) \in Seq(Data) /\ d.left - 1 \in Nat
      BY <1>1, <2>1 DEF Driver
    <3>3. n \in Driver /\ n.left = d.left - 1
      BY <1>1, <3>1, <3>2, Zenon DEF Driver
    <3>4. QED
      BY <1>1, <3>1, <3>3 DEF Driver
  <2>2. CASE ~ok
    BY <1>1, <2>2
  <2>3. QED
    BY <2>1, <2>2
<1>3. ok => n.left = d.left - 1
  BY <1>1 DEF Driver
<1>4. Sent(d) \in Nat /\ Sent(d) + 1 <= d.count
  BY <1>1 DEF Sent
<1>5. /\ (Sent(d) + 1) * TOKEN_WAIT = Sent(d) * TOKEN_WAIT + TOKEN_WAIT
      /\ (Sent(d) + 1) * TOKEN_WAIT <= d.count * TOKEN_WAIT
      /\ (Sent(d) + 1) * TOKEN_WAIT \in Nat /\ d.count * TOKEN_WAIT \in Nat /\ Sent(d) * TOKEN_WAIT \in Nat
  BY <1>1, <1>4, Waits, MoreBlocks
<1>6. e <= READY_WAIT + (Sent(d) + 1) * TOKEN_WAIT
  BY <1>1, <1>5, Waits
<1>7. CASE d.count = 1
  BY <1>2, <1>7, ReturnsInTime DEF AfterBlock
<1>8. CASE d.count > 1 /\ ok /\ n.left > 0
  <2>1. AfterBlock(d, ok, v) = Receive(n)
    <3>1. AfterBlock(d, ok, v) = CASE d.count = 1 -> Returns(n, ok)
                                   [] d.count > 1 /\ ok /\ n.left > 0 -> Receive(n)
                                   [] OTHER -> StopReading(n)
      BY DEF AfterBlock
    <3> HIDE DEF n
    <3>2. d.count # 1
      BY <1>8
    <3>3. QED
      BY <1>8, <3>1, <3>2, Zenon
  <2>2. Sent(n) = Sent(d) + 1
    BY <1>1, <1>2, <1>3, <1>8 DEF Sent
  <2>3. QED
    BY <1>1, <1>2, <1>6, <1>8, <2>1, <2>2, ReceiveInTime
<1>9. CASE d.count > 1 /\ ~(ok /\ n.left > 0)
  <2>1. AfterBlock(d, ok, v) = StopReading(n)
    BY <1>9 DEF AfterBlock
  <2>2. e <= READY_WAIT + d.count * TOKEN_WAIT
    BY <1>1, <1>5, <1>6, Waits
  <2>3. QED
    BY <1>1, <1>2, <1>9, <2>1, <2>2, StopReadingInTime
<1>10. QED
  BY <1>1, <1>7, <1>8, <1>9

\* The answer to a command of a read.
LEMMA ReadAnswerInTime ==
  ASSUME NEW d, NEW e, InTime(d, e), d.op = "read", d.pc \in {"select", "answer"}, NEW r
  PROVE  InTime(AfterCommand(d, r), Lasts(AfterCommand(d, r), e))
PROOF
<1> DEFINE z == [d EXCEPT !.Timer2 = 0]
<1>1. /\ d \in Driver /\ e \in Nat /\ ReadInTime(d, e) /\ d.left \in Nat /\ d.count \in Nat
      /\ d.left <= d.count /\ d.count > 0 /\ d.Timer2 \in Nat
  BY DEF InTime, Driver
<1>2. z \in Driver /\ z.op = "read" /\ z.left = d.left /\ z.count = d.count
  BY <1>1 DEF Driver
<1>3. CASE d.pc = "answer"
  <2>1. AfterCommand(d, r) = Answered(z, "CMD12", r)
    BY <1>1, <1>3, OneCommand DEF ReadInTime
  <2>2. Answered(z, "CMD12", r) = Returns(z, z.left = 0)
    BY DEF Answered
  <2>3. QED
    BY <1>2, <2>1, <2>2, ReturnsInTime
<1>4. CASE d.pc = "select"
  <2>1. PICK c \in {"CMD17", "CMD18"} : d.cmd = <<c>>
    BY <1>1, <1>4 DEF ReadInTime
  <2>2. AfterCommand(d, r) = Answered(z, c, r)
    BY <2>1, OneCommand
  <2>3. Answered(z, c, r) = IF r = "zero" THEN Receive(z) ELSE Returns(z, FALSE)
    BY <2>1 DEF Answered
  <2>4. e <= READY_WAIT /\ d.left = d.count
    BY <1>1, <1>4, Waits DEF ReadInTime
  <2>5. Sent(z) = 0 /\ e <= READY_WAIT + Sent(z) * TOKEN_WAIT
    BY <1>1, <1>2, <2>4, Waits DEF Sent
  <2>6. QED
    BY <1>1, <1>2, <2>2, <2>3, <2>4, <2>5, ReceiveInTime, ReturnsInTime
<1>5. QED
  BY <1>3, <1>4

\* A write: three waits for the commands, one for each block and one to stop.
LEMMA Wait2Is ==
  ASSUME NEW d \in Driver, NEW p \in {"xmit", "stop"}
  PROVE  /\ Wait2(d, p) \in Driver /\ Wait2(d, p).pc = p /\ Wait2(d, p).Timer2 = READY_WAIT
         /\ Wait2(d, p).op = d.op /\ Wait2(d, p).left = d.left /\ Wait2(d, p).count = d.count
PROOF
<1>1. Wait2(d, p) = [d EXCEPT !.Timer2 = READY_WAIT, !.pc = p]
  BY DEF Wait2
<1>2. QED
  BY <1>1, Waits DEF Driver

\* A block was accepted or not.
LEMMA BlockSentInTime ==
  ASSUME NEW d, NEW e, InTime(d, e), d.pc = "xmit", NEW ok \in BOOLEAN
  PROVE  InTime(AfterData(d, ok), Lasts(AfterData(d, ok), e))
PROOF
<1> DEFINE n == IF ok THEN [d EXCEPT !.left = @ - 1] ELSE d
<1>1. /\ d \in Driver /\ e \in Nat /\ d.op = "write" /\ d.left \in Nat /\ d.count \in Nat
      /\ d.left <= d.count /\ d.left > 0 /\ d.Timer2 \in Nat /\ d.count > 0
      /\ d.count > 1 => e + d.Timer2 <= Sent(d) * READY_WAIT + 4 * READY_WAIT
  BY DEF InTime, Driver, InitInTime, SyncInTime, ReadInTime, WriteInTime
<1>2. n \in Driver /\ n.op = "write" /\ n.count = d.count /\ n.left <= n.count
  BY <1>1 DEF Driver
<1>3. ok => n.left = d.left - 1
  BY <1>1 DEF Driver
<1>4. Sent(d) \in Nat /\ Sent(d) + 1 <= d.count
  BY <1>1 DEF Sent
<1>5. /\ (Sent(d) + 1) * READY_WAIT = Sent(d) * READY_WAIT + READY_WAIT
      /\ (Sent(d) + 1) * READY_WAIT <= d.count * READY_WAIT
      /\ (Sent(d) + 1) * READY_WAIT \in Nat /\ d.count * READY_WAIT \in Nat /\ Sent(d) * READY_WAIT \in Nat
  <2>1. READY_WAIT \in Nat /\ d.count \in Nat /\ Sent(d) + 1 \in Nat
    BY <1>1, <1>4, Waits
  <2>2. (Sent(d) + 1) * READY_WAIT = Sent(d) * READY_WAIT + READY_WAIT /\ Sent(d) * READY_WAIT \in Nat
    BY <1>4, <2>1, MoreBlocks
  <2>3. (Sent(d) + 1) * READY_WAIT <= d.count * READY_WAIT /\ (Sent(d) + 1) * READY_WAIT \in Nat
    BY <1>4, <2>1, MoreBlocks
  <2>4. d.count * READY_WAIT \in Nat
    BY <2>1
  <2>5. QED
    BY <2>2, <2>3, <2>4
<1>6. CASE d.count = 1
  BY <1>2, <1>6, ReturnsInTime DEF AfterData
<1>7. CASE d.count > 1 /\ ok /\ n.left > 0
  <2> DEFINE m == Wait2(n, "xmit")
  <2>1. AfterData(d, ok) = m
    <3>1. AfterData(d, ok) = CASE d.count = 1 -> Returns(n, ok)
                               [] d.count > 1 /\ ok /\ n.left > 0 -> Transmit(n)
                               [] OTHER -> Wait2(n, "stop")
      BY DEF AfterData
    <3> HIDE DEF n
    <3>2. d.count # 1
      BY <1>7
    <3>3. QED
      BY <1>7, <3>1, <3>2, Zenon DEF Transmit
  <2>2. /\ m \in Driver /\ m.pc = "xmit" /\ m.Timer2 = READY_WAIT /\ m.op = "write"
        /\ m.left = d.left - 1 /\ m.count = d.count /\ m.left > 0
    BY <1>2, <1>3, <1>7, Wait2Is
  <2>3. Sent(m) = Sent(d) + 1
    BY <1>1, <2>2 DEF Sent
  <2>4. e + m.Timer2 <= Sent(m) * READY_WAIT + 4 * READY_WAIT
    BY <1>1, <1>5, <1>7, <2>2, <2>3, Waits
  <2>5. WriteInTime(m, e)
    BY <1>7, <2>2, <2>4 DEF WriteInTime
  <2>6. QED
    BY <1>1, <2>1, <2>2, <2>5 DEF InTime, Lasts
<1>8. CASE d.count > 1 /\ ~(ok /\ n.left > 0)
  <2> DEFINE m == Wait2(n, "stop")
  <2>1. AfterData(d, ok) = m
    BY <1>8 DEF AfterData
  <2>2. /\ m \in Driver /\ m.pc = "stop" /\ m.Timer2 = READY_WAIT /\ m.op = "write"
        /\ m.left <= m.count /\ m.count = d.count
    BY ZenonT(30), <1>2, <1>8, Wait2Is
  <2>3. e + m.Timer2 <= d.count * READY_WAIT + 4 * READY_WAIT
    BY <1>1, <1>5, <1>8, <2>2, Waits
  <2>4. WriteInTime(m, e)
    BY <1>8, <2>2, <2>3 DEF WriteInTime
  <2>5. QED
    BY <1>1, <2>1, <2>2, <2>4 DEF InTime, Lasts
<1>9. QED
  BY <1>1, <1>6, <1>7, <1>8

\* The answer to a command of a write.
LEMMA WriteAnswerInTime ==
  ASSUME NEW d, NEW e, InTime(d, e), d.op = "write", d.pc = "select", NEW r
  PROVE  InTime(AfterCommand(d, r), Lasts(AfterCommand(d, r), e))
PROOF
<1> DEFINE z == [d EXCEPT !.Timer2 = 0]
<1>1. /\ d \in Driver /\ e \in Nat /\ WriteInTime(d, e) /\ d.left \in Nat /\ d.count \in Nat
      /\ d.left = d.count /\ d.count > 0 /\ d.Timer2 \in Nat
  BY DEF InTime, Driver, WriteInTime
<1>2. /\ z \in Driver /\ z.op = "write" /\ z.left = d.left /\ z.count = d.count
  BY <1>1 DEF Driver
<1>3. ASSUME NEW c \in {"ACMD23", "CMD25"}, NEW x \in Driver, x.op = "write", x.left = d.left, x.count = d.count,
             d.count > 1, e + READY_WAIT <= (IF c = "ACMD23" THEN 2 * READY_WAIT ELSE 3 * READY_WAIT)
      PROVE  InTime(send_cmd(x, <<c>>), Lasts(send_cmd(x, <<c>>), e))
  <2> DEFINE n == send_cmd(x, <<c>>)
  <2>1. n \in Driver /\ n = [x EXCEPT !.Timer2 = READY_WAIT, !.pc = "select", !.cmd = <<c>>]
    <3>1. <<c>> \in Commands
      BY DEF Commands
    <3>2. QED
      BY <3>1, SendIs
  <2>2. /\ n.pc = "select" /\ n.op = "write" /\ n.cmd = <<c>> /\ n.Timer2 = READY_WAIT
        /\ n.left = d.left /\ n.count = d.count
    BY <1>3, <2>1 DEF Driver
  <2>3. WriteInTime(n, e)
    BY <1>1, <1>3, <2>2 DEF WriteInTime
  <2>4. QED
    BY <1>1, <2>1, <2>2, <2>3 DEF InTime, Lasts
<1>4. ASSUME r = "zero", d.count = 1 => e <= READY_WAIT, e <= 3 * READY_WAIT
      PROVE  InTime(Transmit(z), Lasts(Transmit(z), e))
  <2> DEFINE m == Wait2(z, "xmit")
  <2>1. /\ m \in Driver /\ m.pc = "xmit" /\ m.Timer2 = READY_WAIT /\ m.op = "write"
        /\ m.left = d.left /\ m.count = d.count
    BY <1>2, Wait2Is
  <2>2. Sent(m) = 0
    BY <1>1, <2>1 DEF Sent
  <2>3. WriteInTime(m, e)
    BY <1>1, <1>4, <2>1, <2>2, Waits DEF WriteInTime
  <2>4. QED
    BY <1>1, <2>1, <2>3 DEF InTime, Lasts, Transmit
<1>5. CASE d.count = 1
  <2>1. d.cmd = <<"CMD24">> /\ e <= READY_WAIT
    BY <1>1, <1>5, Waits DEF WriteInTime
  <2>2. AfterCommand(d, r) = Answered(z, "CMD24", r)
    BY <2>1, OneCommand
  <2>3. Answered(z, "CMD24", r) = IF r = "zero" THEN Transmit(z) ELSE Returns(z, FALSE)
    BY DEF Answered
  <2>4. r = "zero" => InTime(Transmit(z), Lasts(Transmit(z), e))
    BY <1>1, <1>4, <1>5, <2>1, Waits
  <2>5. InTime(Returns(z, FALSE), Lasts(Returns(z, FALSE), e))
    BY <1>2, ReturnsInTime
  <2> HIDE DEF z
  <2>6. QED
    BY <2>2, <2>3, <2>4, <2>5
<1>6. CASE d.count > 1 /\ d.cmd = App("ACMD23") /\ e + d.Timer2 <= READY_WAIT
  <2>1. AfterCommand(d, r) = IF r = "more" THEN Answered(z, "ACMD23", r) ELSE send_cmd(d, <<"ACMD23">>)
    BY <1>6, TwoCommands
  <2>2. Answered(z, "ACMD23", r) = send_cmd(z, <<"CMD25">>)
    BY DEF Answered
  <2>3. InTime(send_cmd(z, <<"CMD25">>), Lasts(send_cmd(z, <<"CMD25">>), e))
    <3>1. e + READY_WAIT <= 3 * READY_WAIT
      BY <1>1, <1>6, Waits
    <3> HIDE DEF z
    <3>2. QED
      BY <1>2, <1>3, <1>6, <3>1
  <2>4. InTime(send_cmd(d, <<"ACMD23">>), Lasts(send_cmd(d, <<"ACMD23">>), e))
    BY <1>1, <1>3, <1>6, Waits
  <2>5. QED
    BY <2>1, <2>2, <2>3, <2>4
<1>7. CASE d.count > 1 /\ d.cmd = <<"ACMD23">> /\ e + d.Timer2 <= 2 * READY_WAIT
  <2>1. AfterCommand(d, r) = Answered(z, "ACMD23", r)
    BY <1>7, OneCommand
  <2>2. Answered(z, "ACMD23", r) = send_cmd(z, <<"CMD25">>)
    BY DEF Answered
  <2>3. InTime(send_cmd(z, <<"CMD25">>), Lasts(send_cmd(z, <<"CMD25">>), e))
    <3>1. e + READY_WAIT <= 3 * READY_WAIT
      BY <1>1, <1>7, Waits
    <3> HIDE DEF z
    <3>2. QED
      BY <1>2, <1>3, <1>7, <3>1
  <2>4. QED
    BY <2>1, <2>2, <2>3
<1>8. CASE d.count > 1 /\ d.cmd = <<"CMD25">> /\ e + d.Timer2 <= 3 * READY_WAIT
  <2>1. AfterCommand(d, r) = Answered(z, "CMD25", r)
    BY <1>8, OneCommand
  <2>2. Answered(z, "CMD25", r) = IF r = "zero" THEN Transmit(z) ELSE Returns(z, FALSE)
    BY DEF Answered
  <2>3. e <= 3 * READY_WAIT
    BY <1>1, <1>8, Waits
  <2>4. r = "zero" => InTime(Transmit(z), Lasts(Transmit(z), e))
    BY <1>4, <1>8, <2>3
  <2>5. InTime(Returns(z, FALSE), Lasts(Returns(z, FALSE), e))
    BY <1>2, ReturnsInTime
  <2> HIDE DEF z
  <2>6. QED
    BY <2>1, <2>2, <2>4, <2>5
<1>9. QED
  BY <1>1, <1>5, <1>6, <1>7, <1>8 DEF WriteInTime

\* A millisecond of a wait that is not over.
LEMMA TimerInTime ==
  ASSUME NEW d, NEW e, InTime(d, e), d.pc \in {"power", "select", "token", "xmit", "stop"},
         ~TimerOver(d)
  PROVE  InTime([d EXCEPT !.Timer1 = Down(@), !.Timer2 = Down(@)], e + 1)
PROOF
<1> DEFINE n == [d EXCEPT !.Timer1 = Down(@), !.Timer2 = Down(@)]
<1>1. d \in Driver /\ e \in Nat /\ d.Timer1 \in Nat /\ d.Timer2 \in Nat
  BY DEF InTime, Driver
<1>2. /\ Down(d.Timer1) \in Nat /\ Down(d.Timer2) \in Nat
      /\ d.Timer1 > 0 => Down(d.Timer1) = d.Timer1 - 1
      /\ d.Timer2 > 0 => Down(d.Timer2) = d.Timer2 - 1
      /\ Down(d.Timer1) > 0 => d.Timer1 > 0
  BY <1>1 DEF Down
<1>3. /\ n \in Driver /\ n.Timer1 = Down(d.Timer1) /\ n.Timer2 = Down(d.Timer2)
      /\ n.pc = d.pc /\ n.cmd = d.cmd /\ n.op = d.op /\ n.count = d.count /\ n.left = d.left
  BY <1>1, <1>2 DEF Driver
<1>4. /\ d.pc \in {"select", "xmit", "stop"} => d.Timer2 > 0
      /\ d.pc \in {"power", "token"} => d.Timer1 > 0
  BY <1>1 DEF TimerOver
<1>5. Sent(n) = Sent(d)
  BY <1>3 DEF Sent
<1>6. d.left <= d.count /\ n.left <= n.count
  BY <1>3 DEF InTime
<1>7. CASE d.op = "init" /\ InitInTime(d, e)
  <2>1. CASE d.pc = "power" /\ e + d.Timer1 <= POWER_WAIT
    BY <1>1, <1>2, <1>3, <1>4, <1>6, <1>7, <2>1, Waits DEF InTime, InitInTime
  <2>2. CASE d.pc = "select" /\ d.cmd = <<"CMD0">> /\ e + d.Timer2 <= POWER_WAIT + READY_WAIT
    BY <1>1, <1>2, <1>3, <1>4, <1>6, <1>7, <2>2, Waits DEF InTime, InitInTime
  <2>3. CASE /\ d.pc = "select" /\ d.cmd = <<"CMD8">>
             /\ d.Timer1 = d.Timer2 + (INIT_WAIT - READY_WAIT) /\ e + d.Timer1 <= InitEnd
    <3>1. d.Timer1 > 0 /\ d.Timer2 > 0
      BY <1>1, <1>4, <2>3, Waits
    <3>2. n.Timer1 = n.Timer2 + (INIT_WAIT - READY_WAIT) /\ e + 1 + n.Timer1 <= InitEnd
      BY <1>1, <1>2, <1>3, <2>3, <3>1, Waits DEF InitEnd
    <3>3. InitInTime(n, e + 1)
      BY <1>3, <2>3, <3>2 DEF InitInTime
    <3>4. QED
      BY <1>1, <1>3, <1>6, <1>7, <3>3 DEF InTime
  <2>4. CASE /\ d.pc = "select" /\ d.cmd = App("ACMD41")
             /\ d.Timer1 > 0 => e + d.Timer1 <= InitEnd
             /\ e + d.Timer2 < InitEnd + READY_WAIT
    <3>1. /\ n.Timer1 > 0 => e + 1 + n.Timer1 <= InitEnd
          /\ e + 1 + n.Timer2 < InitEnd + READY_WAIT
      BY <1>1, <1>2, <1>3, <1>4, <2>4, Waits DEF InitEnd
    <3>2. InitInTime(n, e + 1)
      BY <1>3, <2>4, <3>1 DEF InitInTime
    <3>3. QED
      BY <1>1, <1>3, <1>6, <1>7, <3>2 DEF InTime
  <2>5. CASE /\ d.pc = "select" /\ d.cmd \in InitLate
             /\ d.Timer1 > 0 => e + d.Timer1 <= InitEnd
             /\ e + d.Timer2 < InitEnd + 2 * READY_WAIT
    <3>1. /\ n.Timer1 > 0 => e + 1 + n.Timer1 <= InitEnd
          /\ e + 1 + n.Timer2 < InitEnd + 2 * READY_WAIT
      BY <1>1, <1>2, <1>3, <1>4, <2>5, Waits DEF InitEnd
    <3>2. InitInTime(n, e + 1)
      BY <1>3, <2>5, <3>1 DEF InitInTime
    <3>3. QED
      BY <1>1, <1>3, <1>6, <1>7, <3>2 DEF InTime
  <2>6. QED
    BY <1>7, <2>1, <2>2, <2>3, <2>4, <2>5 DEF InitInTime
<1>8. CASE d.op = "sync" /\ SyncInTime(d, e)
  BY <1>1, <1>2, <1>3, <1>4, <1>6, <1>8, Waits DEF InTime, SyncInTime
<1>9. CASE d.op = "read" /\ d.count > 0 /\ ReadInTime(d, e)
  <2>1. Sent(d) * TOKEN_WAIT \in Int
    BY <1>1, Waits DEF Sent, Driver
  <2>2. ReadInTime(n, e + 1)
    BY <1>1, <1>2, <1>3, <1>4, <1>5, <1>9, <2>1, Waits DEF ReadInTime
  <2>3. QED
    BY <1>1, <1>3, <1>6, <1>9, <2>2 DEF InTime
<1>10. CASE d.op = "write" /\ d.count > 0 /\ WriteInTime(d, e)
  <2>1. Sent(d) * READY_WAIT \in Int /\ d.count * READY_WAIT \in Int
    BY <1>1, Waits DEF Sent, Driver
  <2>2. WriteInTime(n, e + 1)
    BY <1>1, <1>2, <1>3, <1>4, <1>5, <1>10, <2>1, Waits DEF WriteInTime
  <2>3. QED
    BY <1>1, <1>3, <1>6, <1>10, <2>2 DEF InTime
<1>11. QED
  BY <1>7, <1>8, <1>9, <1>10 DEF InTime

\* The number of sectors that a call may name.
LEMMA UsedIsFinite == Cardinality(Used) \in Nat /\ Used \subseteq Nat
PROOF
<1>1. PICK n \in Nat : Sectors = 0..n
  BY CardAssumption
<1>2. IsFiniteSet(Sectors)
  <2>1. ASSUME NEW a \in Int, NEW b \in Int, a <= b PROVE IsFiniteSet(a..b)
    BY <2>1, FS_Interval
  <2>2. 0 \in Int /\ n \in Int /\ 0 <= n
    BY <1>1
  <2>3. QED
    BY <1>1, <2>1, <2>2, Zenon
<1>3. IsFiniteSet(Used)
  BY <1>2, CardAssumption, FS_Subset
<1>4. QED
  BY <1>1, <1>3, FS_CardinalityType, CardAssumption

\* A call begins with the driver idle.
LEMMA CallIs ==
  ASSUME drv \in Driver, NEW op \in {"init", "read", "write", "sync"}, NEW s \in Nat, NEW n \in Nat,
         NEW data \in Seq(Data)
  PROVE  LET c == Call(op, s, n, data) IN
         /\ c \in Driver /\ c.op = op /\ c.sector = s /\ c.count = n /\ c.left = n /\ c.data = data
         /\ c.Stat = drv.Stat /\ c.CardType = drv.CardType
PROOF
  BY DEF Call, Driver

\* The milliseconds a step that does not wait leaves.
LEMMA BecomesInTime ==
  ASSUME NEW d, NEW k, Becomes(d, k), InTime(d, Lasts(d, elapsed))
  PROVE  TimeInv'
PROOF
  BY DEF Becomes, TimeInv, Lasts

\* A call that begins is in time.
LEMMA InitializeInTime ==
  ASSUME TimeInv, disk_initialize PROVE TimeInv'
PROOF
<1>1. drv \in Driver /\ drv.pc = "idle" /\ elapsed = 0 /\ elapsed' = 0 /\ <<>> \in Seq(Data)
  BY DEF TimeInv, InTime, InitInTime, SyncInTime, ReadInTime, WriteInTime, disk_initialize, Start
<1> DEFINE c == Call("init", 0, 0, <<>>)
<1>2. c \in Driver /\ c.op = "init" /\ c.left = 0 /\ c.count = 0
  BY <1>1 DEF Call, Driver
<1> HIDE DEF c
<1>3. drv' = [c EXCEPT !.Stat = FALSE, !.Timer1 = POWER_WAIT, !.pc = "power"]
  BY DEF disk_initialize, Start, c
<1>4. /\ drv' \in Driver /\ drv'.pc = "power" /\ drv'.op = "init" /\ drv'.left = 0 /\ drv'.count = 0
      /\ drv'.Timer1 = POWER_WAIT
  BY <1>2, <1>3, Waits DEF Driver
<1>5. QED
  BY <1>1, <1>4, Waits DEF TimeInv, InTime, InitInTime

\* The same for disk_ioctl(CTRL_SYNC),
LEMMA SyncStartsInTime ==
  ASSUME TimeInv, CTRL_SYNC PROVE TimeInv'
PROOF
<1>1. drv \in Driver /\ drv.pc = "idle" /\ elapsed = 0 /\ elapsed' = 0 /\ <<>> \in Seq(Data)
  BY DEF TimeInv, InTime, InitInTime, SyncInTime, ReadInTime, WriteInTime, CTRL_SYNC, Start
<1> DEFINE c == Call("sync", 0, 0, <<>>)
<1>2. c \in Driver /\ c.op = "sync" /\ c.left = 0 /\ c.count = 0
  BY <1>1 DEF Call, Driver
<1> HIDE DEF c
<1>3. drv' = [c EXCEPT !.Timer2 = READY_WAIT, !.pc = "select"]
  BY DEF CTRL_SYNC, Start, Wait2, c
<1>4. /\ drv' \in Driver /\ drv'.pc = "select" /\ drv'.op = "sync" /\ drv'.left = 0 /\ drv'.count = 0
      /\ drv'.Timer2 = READY_WAIT
  BY <1>2, <1>3, Waits DEF Driver
<1>5. QED
  BY <1>1, <1>4, Waits DEF TimeInv, InTime, SyncInTime

\* A transfer of n blocks starts with the first command.
LEMMA TransferStartsInTime ==
  ASSUME TimeInv, NEW op \in {"read", "write"}, NEW s \in Nat, NEW n \in Nat \ {0}, NEW data \in Seq(Data),
         NEW cmds \in Commands,
         \/ op = "read" /\ n = 1 /\ cmds = <<"CMD17">>
         \/ op = "read" /\ n > 1 /\ cmds = <<"CMD18">>
         \/ op = "write" /\ n = 1 /\ cmds = <<"CMD24">>
         \/ op = "write" /\ n > 1 /\ cmds \in {App("ACMD23"), <<"CMD25">>},
         Start(send_cmd(Call(op, s, n, data), cmds))
  PROVE  /\ TimeInv'
         /\ drv' = [Call(op, s, n, data) EXCEPT !.Timer2 = READY_WAIT, !.pc = "select", !.cmd = cmds]
PROOF
<1>1. drv \in Driver /\ drv.pc = "idle" /\ elapsed = 0 /\ elapsed' = 0
  BY DEF TimeInv, InTime, InitInTime, SyncInTime, ReadInTime, WriteInTime, Start
<1> DEFINE c == Call(op, s, n, data)
<1>2. c \in Driver /\ c.op = op /\ c.left = n /\ c.count = n
  BY <1>1, CallIs
<1> HIDE DEF c
<1>3. drv' \in Driver /\ drv' = [c EXCEPT !.Timer2 = READY_WAIT, !.pc = "select", !.cmd = cmds]
  BY <1>2, SendIs DEF Start, c
<1>4. /\ drv'.pc = "select" /\ drv'.op = op /\ drv'.left = n /\ drv'.count = n
      /\ drv'.Timer2 = READY_WAIT /\ drv'.cmd = cmds
  BY <1>2, <1>3 DEF Driver
<1>5. CASE op = "read"
  BY <1>1, <1>3, <1>4, <1>5, Waits DEF TimeInv, InTime, ReadInTime, c
<1>6. CASE op = "write"
  <2>1. WriteInTime(drv', elapsed')
    BY <1>1, <1>4, <1>6, Waits DEF WriteInTime
  <2>2. QED
    BY <1>1, <1>3, <1>4, <1>6, <2>1 DEF TimeInv, InTime, c
<1>7. QED
  BY <1>5, <1>6

\* for disk_read
LEMMA ReadStartsInTime ==
  ASSUME TimeInv, NEW s \in Used, NEW n \in Nat \ {0}, disk_read(s, n) PROVE TimeInv'
PROOF
<1>1. s \in Nat
  BY UsedIsFinite
<1> DEFINE e == <<>>
<1>0. e \in Seq(Data)
  OBVIOUS
<1> HIDE DEF e
<1>2. <<"CMD17">> \in Commands /\ <<"CMD18">> \in Commands
  BY DEF Commands
<1>3. CASE n = 1
  <2>1. Start(send_cmd(Call("read", s, n, e), <<"CMD17">>))
    BY <1>3 DEF disk_read, e
  <2>2. QED
    BY <1>0, <1>1, <1>2, <1>3, <2>1, TransferStartsInTime
<1>4. CASE n > 1
  <2>1. Start(send_cmd(Call("read", s, n, e), <<"CMD18">>))
    BY <1>4 DEF disk_read, e
  <2>2. QED
    BY <1>0, <1>1, <1>2, <1>4, <2>1, TransferStartsInTime
<1>5. QED
  BY <1>3, <1>4

\* and for disk_write.
LEMMA WriteStartsInTime ==
  ASSUME TimeInv, NEW s \in Used, NEW n \in Nat \ {0}, NEW data \in [1..n -> Data], disk_write(s, data)
  PROVE  TimeInv'
PROOF
<1>1. s \in Nat /\ data \in Seq(Data) /\ Len(data) = n
  BY UsedIsFinite
<1>2. <<"CMD24">> \in Commands /\ App("ACMD23") \in Commands /\ <<"CMD25">> \in Commands
  BY DEF Commands
<1>3. CASE n = 1
  <2>1. Start(send_cmd(Call("write", s, n, data), <<"CMD24">>))
    BY <1>1, <1>3 DEF disk_write
  <2>2. QED
    BY <1>1, <1>2, <1>3, <2>1, TransferStartsInTime
<1>4. CASE n > 1 /\ drv.CardType # "MMC"
  <2>1. Start(send_cmd(Call("write", s, n, data), App("ACMD23")))
    BY <1>1, <1>4 DEF disk_write
  <2>2. QED
    BY <1>1, <1>2, <1>4, <2>1, TransferStartsInTime
<1>5. CASE n > 1 /\ drv.CardType = "MMC"
  <2>1. Start(send_cmd(Call("write", s, n, data), <<"CMD25">>))
    BY <1>1, <1>5 DEF disk_write
  <2>2. QED
    BY <1>1, <1>2, <1>5, <2>1, TransferStartsInTime
<1>6. QED
  BY <1>3, <1>4, <1>5

\* Whatever the card answers, or after how long nothing.
LEMMA AnswerInTime ==
  ASSUME TimeInv, drv.op # "sync", drv.pc \in {"select", "answer"}, NEW r
  PROVE  InTime(AfterCommand(drv, r), Lasts(AfterCommand(drv, r), elapsed))
PROOF
<1>1. \/ drv.op = "init" /\ drv.pc = "select"
      \/ drv.op = "read"
      \/ drv.op = "write" /\ drv.pc = "select"
  BY DEF TimeInv, InTime, InitInTime, SyncInTime, ReadInTime, WriteInTime
<1>2. QED
  BY <1>1, InitAnswerInTime, ReadAnswerInTime, WriteAnswerInTime DEF TimeInv

\* A wait that is over leaves the call in time.
LEMMA TimeoutInTime ==
  ASSUME TimeInv, TimerOver(drv)
  PROVE  InTime(AfterTimeout(drv), Lasts(AfterTimeout(drv), elapsed))
PROOF
<1>1. drv \in Driver /\ elapsed \in Nat /\ drv.left <= drv.count
  BY DEF TimeInv, InTime
<1>2. CASE drv.pc = "power"
  <2> DEFINE n == send_cmd(drv, <<"CMD0">>)
  <2>1. n \in Driver /\ n = [drv EXCEPT !.Timer2 = READY_WAIT, !.pc = "select", !.cmd = <<"CMD0">>]
    BY ZenonT(30), <1>1, SendIs DEF Commands
  <2>2. /\ n.pc = "select" /\ n.op = "init" /\ n.cmd = <<"CMD0">> /\ n.Timer2 = READY_WAIT
        /\ n.left <= n.count /\ elapsed + drv.Timer1 <= POWER_WAIT
    BY <1>1, <1>2, <2>1 DEF Driver, TimeInv, InTime, InitInTime, SyncInTime, ReadInTime, WriteInTime
  <2>3. InitInTime(n, elapsed)
    BY <1>1, <2>2, Waits DEF InitInTime, Driver
  <2>4. AfterTimeout(drv) = n
    BY <1>2 DEF AfterTimeout
  <2>5. QED
    BY <1>1, <2>1, <2>2, <2>3, <2>4 DEF InTime, Lasts
<1>3. drv.op = "sync" \/ drv.pc = "stop" => InTime(Returns(drv, FALSE), Lasts(Returns(drv, FALSE), elapsed))
  BY <1>1, ReturnsInTime
<1>4. CASE drv.pc = "select"
  <2>1. CASE drv.op = "sync"
    BY <1>3, <1>4, <2>1 DEF AfterTimeout
  <2>2. CASE drv.op # "sync"
    BY <1>4, <2>2, AnswerInTime DEF AfterTimeout
  <2>3. QED
    BY <2>1, <2>2
<1>5. CASE drv.pc = "token"
  BY <1>5, BlockReadInTime DEF AfterTimeout, TimeInv
<1>6. CASE drv.pc = "xmit"
  BY <1>6, BlockSentInTime DEF AfterTimeout, TimeInv
<1>7. CASE drv.pc = "stop"
  BY <1>3, <1>7 DEF AfterTimeout
<1>8. drv.pc \in {"power", "select", "token", "xmit", "stop"}
  BY DEF TimerOver
<1>9. QED
  BY <1>2, <1>4, <1>5, <1>6, <1>7, <1>8

\* The invariant bounds the calls.
LEMMA TimeInvBounds == ASSUME TimeInv PROVE CallsEndInTime
PROOF
<1>1. /\ drv \in Driver /\ elapsed \in Nat /\ drv.left <= drv.count /\ drv.left \in Nat /\ drv.count \in Nat
      /\ drv.Timer1 \in Nat /\ drv.Timer2 \in Nat
  BY DEF TimeInv, InTime, Driver
<1>2. CASE drv.pc = "idle"
  <2>1. elapsed = 0
    BY <1>2 DEF TimeInv, InTime, InitInTime, SyncInTime, ReadInTime, WriteInTime
  <2>2. drv.count * TOKEN_WAIT \in Nat /\ (drv.count + 4) * READY_WAIT \in Nat
    BY <1>1, Waits
  <2>3. MaxTime(drv) >= 0
    BY <1>1, <2>2, Waits DEF MaxTime
  <2>4. QED
    BY <2>1, <2>3 DEF CallsEndInTime
<1>3. CASE drv.pc # "idle" /\ drv.op = "init" /\ InitInTime(drv, elapsed)
  <2>1. elapsed <= POWER_WAIT + READY_WAIT + (INIT_WAIT - 1) + 2 * READY_WAIT
    BY <1>1, <1>3, Waits DEF InitInTime, InitEnd
  <2>2. QED
    BY <1>3, <2>1 DEF CallsEndInTime, MaxTime
<1>4. CASE drv.pc # "idle" /\ drv.op = "sync" /\ SyncInTime(drv, elapsed)
  BY <1>1, <1>4, Waits DEF SyncInTime, CallsEndInTime, MaxTime
<1>5. CASE drv.pc # "idle" /\ drv.op = "read" /\ drv.count > 0 /\ ReadInTime(drv, elapsed)
  <2>1. drv.count * TOKEN_WAIT \in Nat
    BY <1>1, Waits
  <2>2. drv.pc = "token" => Sent(drv) * TOKEN_WAIT + TOKEN_WAIT <= drv.count * TOKEN_WAIT
                            /\ Sent(drv) * TOKEN_WAIT \in Nat
    <3>1. HAVE drv.pc = "token"
    <3>2. drv.left > 0
      BY <1>5, <3>1 DEF ReadInTime
    <3>3. Sent(drv) \in Nat /\ Sent(drv) + 1 <= drv.count
      BY <1>1, <3>2 DEF Sent
    <3>4. (Sent(drv) + 1) * TOKEN_WAIT = Sent(drv) * TOKEN_WAIT + TOKEN_WAIT /\ Sent(drv) * TOKEN_WAIT \in Nat
      BY <1>1, <3>3, Waits, MoreBlocks
    <3>5. (Sent(drv) + 1) * TOKEN_WAIT <= drv.count * TOKEN_WAIT
      BY <1>1, <3>3, Waits, MoreBlocks
    <3>6. QED
      BY <3>4, <3>5
  <2>3. elapsed <= READY_WAIT + drv.count * TOKEN_WAIT
    BY <1>1, <1>5, <2>1, <2>2, Waits DEF ReadInTime
  <2>4. QED
    BY <1>5, <2>3 DEF CallsEndInTime, MaxTime
<1>6. CASE drv.pc # "idle" /\ drv.op = "write" /\ drv.count > 0 /\ WriteInTime(drv, elapsed)
  <2>1. CASE drv.count = 1
    <3>1. elapsed <= 2 * READY_WAIT
      BY <1>1, <1>6, <2>1, Waits DEF WriteInTime
    <3>2. QED
      BY <1>6, <2>1, <3>1 DEF CallsEndInTime, MaxTime
  <2>2. CASE drv.count > 1
    <3>1. /\ drv.count * READY_WAIT \in Nat /\ (drv.count + 4) * READY_WAIT = drv.count * READY_WAIT + 4 * READY_WAIT
      BY <1>1, Waits
    <3>2. Sent(drv) \in Nat /\ Sent(drv) <= drv.count
      BY <1>1 DEF Sent
    <3>3. Sent(drv) * READY_WAIT <= drv.count * READY_WAIT /\ Sent(drv) * READY_WAIT \in Nat
      BY <1>1, <3>2, Waits, MoreBlocks
    <3>4. elapsed <= drv.count * READY_WAIT + 4 * READY_WAIT
      BY <1>1, <1>6, <2>2, <3>1, <3>3, Waits DEF WriteInTime
    <3>5. QED
      BY <1>6, <2>2, <3>1, <3>4 DEF CallsEndInTime, MaxTime
  <2>3. QED
    BY <1>1, <1>6, <2>1, <2>2
<1>7. QED
  BY <1>2, <1>3, <1>4, <1>5, <1>6 DEF TimeInv, InTime, InitInTime, SyncInTime, ReadInTime, WriteInTime

-----------------------------------------------------------------------------
(* The SD card: lemmas on the card *)

CardInv == TimeInv /\ DataInv

\* Division undoes the multiplication by the size of a block.
LEMMA BlockAddress ==
  ASSUME NEW s \in Nat, NEW b \in Nat \ {0}
  PROVE  (s * b) % b = 0 /\ (s * b) \div b = s
PROOF
<1> DEFINE q == (s * b) \div b
           r == (s * b) % b
<1>1. s * b \in Nat
  OBVIOUS
<1>2. q \in Int /\ r \in 0..(b - 1) /\ s * b = b * q + r
  BY <1>1
<1>3. q \in Int /\ s - q \in Int
  BY <1>2
<1>4. (s - q) * b = r
  BY <1>2
<1> HIDE DEF q, r
<1>5. s - q < 1
  <2>1. ASSUME s - q >= 1 PROVE FALSE
    <3>1. (s - q) * b = b + (s - q - 1) * b /\ (s - q - 1) * b >= 0
      BY <1>2, <2>1
    <3>2. QED
      BY <1>2, <1>4, <3>1
  <2>2. QED
    BY <1>3, <2>1
<1>6. s - q > -1
  <2>1. ASSUME q - s >= 1 PROVE FALSE
    <3>1. (q - s) * b = b + (q - s - 1) * b /\ (q - s - 1) * b >= 0
      BY <1>2, <2>1
    <3>2. (q - s) * b = 0 - r
      BY <1>2, <1>4
    <3>3. QED
      BY <1>2, <3>1, <3>2
  <2>2. QED
    BY <1>3, <2>1
<1>7. q = s
  BY <1>2, <1>5, <1>6
<1>8. r = 0
  BY <1>2, <1>4, <1>7
<1>9. QED
  BY <1>7, <1>8 DEF q, r

\* A card that is addressed as its kind wants it takes the sector that is meant.
LEMMA AddressIsRight ==
  ASSUME NEW d \in Driver, NEW k \in CardStates, d.Stat, Identified(d, k), k.mode = "ready",
         d.sector \in Sectors
  PROVE  SectorAt(k, Address(d)) = d.sector
PROOF
<1>1. CASE k.kind = "SDHC"
  <2>1. Address(d) = d.sector
    BY <1>1 DEF Identified, Address
  <2>2. QED
    BY <1>1, <2>1 DEF SectorAt
<1>2. CASE k.kind # "SDHC"
  <2>1. Address(d) = d.sector * BLOCK
    BY <1>2 DEF Identified, Address
  <2>2. d.sector \in Nat /\ BLOCK \in Nat \ {0}
    BY Waits DEF Driver
  <2>3. (d.sector * BLOCK) % BLOCK = 0 /\ (d.sector * BLOCK) \div BLOCK = d.sector
    BY <2>2, BlockAddress
  <2>4. Address(d) % BLOCK = 0 /\ Address(d) \div BLOCK = d.sector
    BY <2>1, <2>3
  <2>5. QED
    BY <1>2, <2>4 DEF SectorAt
<1>3. QED
  BY <1>1, <1>2

\* The card after CMD0.
AtReset(k) == [k EXCEPT !.mode = "idle", !.xfer = None]

\* CMD0 resets the card.
LEMMA ResetAnswer ==
  ASSUME NEW k, NEW c, c = "CMD0", NEW a, NEW hcs, NEW x \in Answers(k, c, a, hcs)
  PROVE  \/ x[1] = "more" /\ x[2] = k
         \/ x[1] = "one" /\ x[2] = AtReset(k)
PROOF
<1>1. Answers(k, c, a, hcs) = {<<"more", k>>, <<"one", AtReset(k)>>}
  BY DEF Answers, AtReset
<1>2. QED
  BY <1>1

\* CMD12 ends its transfer.
LEMMA StopAnswer ==
  ASSUME NEW k, NEW c, c = "CMD12", NEW a, NEW hcs, NEW x \in Answers(k, c, a, hcs)
  PROVE  \/ k.mode = "off" /\ x[2] = k
         \/ k.mode # "off" /\ x[2] = [k EXCEPT !.xfer = None]
PROOF
<1>1. CASE k.mode = "off"
  <2>1. Answers(k, c, a, hcs) = {<<"more", k>>}
    BY <1>1 DEF Answers
  <2>2. QED
    BY <1>1, <2>1
<1>2. CASE k.mode # "off"
  <2>1. Answers(k, c, a, hcs) = {<<"zero", [k EXCEPT !.xfer = None]>>}
    BY <1>2 DEF Answers
  <2>2. QED
    BY <1>2, <2>1
<1>3. QED
  BY <1>1, <1>2

\* A card that is in no transfer carries a command out or says nothing, and one that
\* waits for blocks does not take a command for one.
LEMMA OtherAnswer ==
  ASSUME NEW k, k.xfer \in {None, "writes"}, NEW c, c # "CMD0", c # "CMD12", NEW a, NEW hcs,
         NEW x \in Answers(k, c, a, hcs)
  PROVE  \/ x[1] = "more" /\ x[2] = k
         \/ k.mode # "off" /\ k.xfer = None /\ x \in Obeys(k, c, a, hcs)
PROOF
<1>1. CASE k.mode = "off" \/ k.xfer = "writes"
  <2>1. Answers(k, c, a, hcs) = {<<"more", k>>}
    BY <1>1 DEF Answers, None
  <2>2. QED
    BY <2>1
<1>2. CASE k.mode # "off" /\ k.xfer = None
  <2>1. Answers(k, c, a, hcs) = {<<"more", k>>} \cup Obeys(k, c, a, hcs)
    BY <1>2 DEF Answers, None
  <2>2. QED
    BY <1>2, <2>1
<1>3. QED
  BY <1>1, <1>2

\* What a card that carries out a command is then.
TransferOf(c) ==
  CASE c = "CMD17" -> "read" [] c = "CMD18" -> "reads" [] c = "CMD24" -> "write" [] c = "CMD25" -> "writes"

AtTransfer(k, c, s) == [k EXCEPT !.xfer = TransferOf(c), !.at = s]

\* A card that obeys the command of a transfer begins it at the sector of the address.
LEMMA ObeysTransfer ==
  ASSUME NEW k, NEW c \in {"CMD17", "CMD18", "CMD24", "CMD25"}, NEW a, NEW hcs, NEW x \in Obeys(k, c, a, hcs)
  PROVE  /\ k.mode = "ready" /\ SectorAt(k, a) # -1 /\ x[1] = "zero"
         /\ x[2] = AtTransfer(k, c, SectorAt(k, a))
PROOF
<1>1. Obeys(k, c, a, hcs) = Xfer(k, TransferOf(c), a)
  BY DEF Obeys, TransferOf
<1>2. QED
  BY <1>1 DEF Xfer, AtTransfer

\* A card that starts up becomes ready now or later; a high-capacity card only if it is told to (HCS).
LEMMA ObeysStart ==
  ASSUME NEW k, NEW c \in {"ACMD41", "CMD1"}, NEW a, NEW hcs, NEW x \in Obeys(k, c, a, hcs)
  PROVE  \/ x[1] = "one" /\ x[2] = k
         \/ x[1] = "zero" /\ x[2] = [k EXCEPT !.mode = "ready"] /\ (k.kind = "SDHC" => hcs)
PROOF
<1>1. Obeys(k, c, a, hcs) \subseteq
        {<<"one", k>>} \cup
        IF k.kind = "SDHC" /\ ~hcs THEN {} ELSE {<<"zero", [k EXCEPT !.mode = "ready"]>>}
  BY DEF Obeys
<1>2. QED
  BY <1>1

\* The other commands leave the card as it is.
LEMMA ObeysOther ==
  ASSUME NEW k, NEW c \in {"CMD8", "CMD55", "CMD16", "CMD58", "ACMD23"}, NEW a, NEW hcs,
         NEW x \in Obeys(k, c, a, hcs)
  PROVE  /\ x[2] = k
         /\ c \in {"CMD16", "CMD58"} => k.mode # "idle"
PROOF
<1>1. CASE c = "CMD8"
  BY <1>1 DEF Obeys
<1>2. CASE c = "CMD55"
  BY <1>2 DEF Obeys
<1>3. CASE c \in {"CMD16", "CMD58", "ACMD23"}
  BY <1>3 DEF Obeys
<1>4. QED
  BY <1>1, <1>2, <1>3

\* What a step that does not wait makes of the card: it is the card k, with the
\* transfer of a single block ended when the driver deselects it.
LEMMA BecomesIs ==
  ASSUME NEW d, NEW k \in CardStates, Becomes(d, k)
  PROVE  /\ card' \in CardStates
         /\ card'.kind = k.kind /\ card'.mode = k.mode /\ card'.pend = k.pend /\ card'.cells = k.cells
         /\ card'.xfer = (IF d.pc \in {"idle", "select"} /\ k.xfer \in {"read", "write"}
                          THEN None ELSE k.xfer)
         /\ card'.xfer # None => card'.at = k.at
PROOF
<1> DEFINE after == IF d.pc \in {"idle", "select"} THEN Deselected(k) ELSE k
<1>1. card' = IF after.xfer = None THEN [after EXCEPT !.at = 0] ELSE after
  BY DEF Becomes
<1>2. /\ after \in CardStates /\ after.kind = k.kind /\ after.mode = k.mode /\ after.pend = k.pend
      /\ after.cells = k.cells /\ after.at = k.at
      /\ after.xfer = (IF d.pc \in {"idle", "select"} /\ k.xfer \in {"read", "write"}
                       THEN None ELSE k.xfer)
  BY DEF Deselected, CardStates, Xfers, None
<1> HIDE DEF after
<1>3. QED
  BY <1>1, <1>2 DEF CardStates

-----------------------------------------------------------------------------
(* The SD card: what the answer to a command makes of the driver *)

\* Command sequences are told apart by their commands.
LEMMA CommandsDiffer ==
  ASSUME NEW a, NEW b
  PROVE  (<<a>> = <<b>> => a = b) /\ App(a) # <<b>>
PROOF
  BY DEF App

\* A call goes on with the sectors and the data it began with.
SameCall(d, n) ==
  /\ n.op = d.op /\ n.sector = d.sector /\ n.count = d.count /\ n.left = d.left /\ n.data = d.data
  /\ n.Stat = d.Stat /\ n.CardType = d.CardType

\* send_cmd leaves the call as it is.
LEMMA SendKeeps ==
  ASSUME NEW d \in Driver, NEW cmds \in Commands
  PROVE  LET n == send_cmd(d, cmds) IN SameCall(d, n) /\ n.ty = d.ty /\ n.pc = "select" /\ n.cmd = cmds
PROOF
<1>1. send_cmd(d, cmds) = [d EXCEPT !.Timer2 = READY_WAIT, !.pc = "select", !.cmd = cmds]
  BY SendIs
<1>2. QED
  BY <1>1 DEF Driver, SameCall

\* An initialisation that fails, and one that goes on, for a card it takes for a ty.
InitFails(n) == n.pc = "idle" /\ n.op = "none" /\ ~n.Stat
InitWaits(n, ty) ==
  /\ n.pc = "select" /\ n.op = "init" /\ ~n.Stat /\ n.ty = ty
  /\ \/ n.cmd \in {App("ACMD41"), <<"ACMD41">>, <<"CMD1">>}
     \/ n.cmd = <<"CMD58">> /\ ty = "SD2"
     \/ n.cmd = <<"CMD16">> /\ ty # "SD2"
InitFinds(n, ty) == n.pc = "idle" /\ n.op = "none" /\ n.CardType = ty

\* What the steps of an initialisation come to: a failure, the next command or a type.
LEMMA InitialisedIs ==
  ASSUME NEW d \in Driver, d.op = "init", NEW ty \in Types
  PROVE  /\ InitFinds(Initialised(d, ty), ty)
         /\ ty = "Unknown" => InitFails(Initialised(d, ty))
PROOF
<1> DEFINE m == [d EXCEPT !.CardType = ty, !.Stat = ty # "Unknown"]
<1>1. m \in Driver /\ m.op = "init" /\ m.CardType = ty
  BY DEF Driver
<1>2. ty = "Unknown" => m.Stat = FALSE
  BY DEF Driver
<1> HIDE DEF m
<1> DEFINE ok == ty # "Unknown"
<1>3. Initialised(d, ty) = Returns(m, ok) /\ ok \in BOOLEAN
  BY DEF Initialised, m
<1> HIDE DEF ok
<1> DEFINE n == Initialised(d, ty)
<1>4. n.pc = "idle" /\ n.CardType = m.CardType /\ n.op = (IF ok /\ m.op = "read" THEN "read" ELSE "none")
  BY <1>1, <1>3, ReturnsIs
<1>5. n.Stat = m.Stat
  BY <1>1, <1>3, ReturnsIs
<1> HIDE DEF n
<1>6. n.op = "none"
  BY <1>1, <1>4
<1>7. QED
  BY <1>1, <1>2, <1>4, <1>5, <1>6 DEF InitFinds, InitFails, n

\* The last command of an initialisation is sent, or there is none.
LEMMA LastInitIs ==
  ASSUME NEW d \in Driver, d.op = "init", ~d.Stat
  PROVE  InitFails(LastInit(d)) \/ InitWaits(LastInit(d), d.ty)
PROOF
<1>1. d.Timer1 \in Nat
  BY DEF Driver
<1>2. CASE d.Timer1 = 0
  BY <1>2, InitialisedIs DEF LastInit, Types, Probed
<1>3. CASE d.Timer1 > 0 /\ d.ty = "SD2"
  <2>1. LastInit(d) = send_cmd(d, <<"CMD58">>) /\ <<"CMD58">> \in Commands
    BY <1>3 DEF LastInit, Commands
  <2>2. QED
    BY <1>3, <2>1, SendKeeps DEF SameCall, InitWaits
<1>4. CASE d.Timer1 > 0 /\ d.ty # "SD2"
  <2>1. LastInit(d) = send_cmd(d, <<"CMD16">>) /\ <<"CMD16">> \in Commands
    BY <1>4 DEF LastInit, Commands
  <2>2. QED
    BY <1>4, <2>1, SendKeeps DEF SameCall, InitWaits
<1>5. QED
  BY <1>1, <1>2, <1>3, <1>4

\* The card is asked again, or the initialisation gives up.
LEMMA PollIs ==
  ASSUME NEW d \in Driver, d.op = "init", ~d.Stat
  PROVE  InitFails(Poll(d)) \/ InitWaits(Poll(d), d.ty)
PROOF
<1>1. CASE d.Timer1 = 0
  BY <1>1, LastInitIs DEF Poll
<1>2. CASE d.Timer1 # 0
  <2>1. PICK cmds \in {<<"CMD1">>, App("ACMD41")} : Poll(d) = send_cmd(d, cmds)
    BY <1>2 DEF Poll
  <2>2. cmds \in Commands
    BY DEF Commands
  <2>3. QED
    BY <2>1, <2>2, SendKeeps DEF SameCall, InitWaits
<1>3. QED
  BY <1>1, <1>2

\* The answer to a command of an initialisation.
LEMMA InitAnswered ==
  ASSUME NEW d \in Driver, d.op = "init", ~d.Stat, NEW r,
         d.cmd \in {<<"CMD0">>, <<"CMD8">>, App("ACMD41")} \cup InitLate
  PROVE  LET n == AfterCommand(d, r) IN
         \/ InitFails(n)
         \/ /\ d.cmd = <<"CMD0">> /\ r = "one"
            /\ n.pc = "select" /\ n.op = "init" /\ ~n.Stat /\ n.cmd = <<"CMD8">>
         \/ d.cmd = <<"CMD8">> /\ InitWaits(n, n.ty)
         \/ /\ d.cmd \in {App("ACMD41"), <<"ACMD41">>, <<"CMD1">>} /\ InitWaits(n, n.ty)
            /\ d.ty = "probe" \/ n.ty = d.ty
         \/ /\ d.cmd = <<"CMD58">> /\ r = "zero"
            /\ InitFinds(n, IF card.kind = "SDHC" THEN "SD2|BLOCK" ELSE "SD2")
         \/ d.cmd = <<"CMD16">> /\ r = "zero" /\ InitFinds(n, d.ty)
PROOF
<1> DEFINE z == [d EXCEPT !.Timer2 = 0]
           n == AfterCommand(d, r)
<1>1. z \in Driver /\ z.op = "init" /\ ~z.Stat /\ z.ty = d.ty
  BY DEF Driver
<1>2. "Unknown" \in Types /\ "SD2|BLOCK" \in Types /\ "SD2" \in Types /\ d.ty \in Types
  BY DEF Types, Probed, Driver
<1>3. InitFails(Initialised(z, "Unknown"))
  BY <1>1, <1>2, InitialisedIs
<1>4. ASSUME NEW ty \in Probed
      PROVE  LET y == [z EXCEPT !.ty = ty] IN
             y \in Driver /\ y.op = "init" /\ ~y.Stat /\ y.ty = ty
  BY <1>1 DEF Driver
<1>5. ASSUME NEW ty \in Probed
      PROVE  LET p == Poll([z EXCEPT !.ty = ty]) IN InitFails(p) \/ InitWaits(p, p.ty)
  <2>1. LET p == Poll([z EXCEPT !.ty = ty]) IN InitFails(p) \/ InitWaits(p, ty)
    BY <1>4, PollIs
  <2>2. QED
    BY <2>1 DEF InitWaits
<1> HIDE DEF z
<1>6. CASE d.cmd = <<"CMD0">>
  <2>1. n = Answered(z, "CMD0", r)
    BY <1>6, OneCommand DEF z
  <2>2. CASE r = "one"
    <3> DEFINE y == [z EXCEPT !.Timer1 = INIT_WAIT]
    <3>1. n = send_cmd(y, <<"CMD8">>)
      BY <2>1, <2>2 DEF Answered
    <3>2. y \in Driver /\ y.op = "init" /\ ~y.Stat /\ <<"CMD8">> \in Commands
      BY <1>1, Waits DEF Driver, Commands
    <3> HIDE DEF y, n
    <3>3. n.pc = "select" /\ n.op = "init" /\ ~n.Stat /\ n.cmd = <<"CMD8">>
      BY <3>1, <3>2, SendKeeps DEF SameCall
    <3>4. QED
      BY <1>6, <2>2, <3>3 DEF n
  <2>3. CASE r # "one"
    BY <1>3, <2>1, <2>3 DEF Answered
  <2>4. QED
    BY <2>2, <2>3
<1>7. CASE d.cmd = <<"CMD8">>
  <2>1. n = Answered(z, "CMD8", r)
    BY <1>7, OneCommand DEF z
  <2>2. CASE r = "one"
    <3>1. n = Poll([z EXCEPT !.ty = "SD2"]) /\ "SD2" \in Probed
      BY <2>1, <2>2 DEF Answered, Probed
    <3>2. QED
      BY <1>5, <1>7, <3>1
  <2>3. CASE r = "mismatch"
    BY <1>3, <2>1, <2>3 DEF Answered
  <2>4. CASE r # "one" /\ r # "mismatch"
    <3> DEFINE y == [z EXCEPT !.ty = "probe"]
    <3>1. n = send_cmd(y, App("ACMD41"))
      BY <2>1, <2>4 DEF Answered
    <3>2. y \in Driver /\ y.op = "init" /\ ~y.Stat /\ y.ty = "probe" /\ App("ACMD41") \in Commands
      BY <1>1 DEF Driver, Commands, Probed
    <3> HIDE DEF y, n
    <3>3. InitWaits(n, n.ty)
      BY <3>1, <3>2, SendKeeps DEF SameCall, InitWaits
    <3>4. QED
      BY <1>7, <3>3 DEF n
  <2>5. QED
    BY <2>2, <2>3, <2>4
<1>8. ASSUME NEW c \in {"ACMD41", "CMD1"}
      PROVE  LET m == Answered(z, c, r) IN
             InitFails(m) \/ (InitWaits(m, m.ty) /\ (d.ty = "probe" \/ m.ty = d.ty))
  <2>1. CASE c = "ACMD41" /\ d.ty = "probe"
    <3>1. PICK ty \in Probed : Answered(z, c, r) = Poll([z EXCEPT !.ty = ty])
      BY <1>1, <2>1 DEF Answered, Probed
    <3>2. QED
      BY <1>5, <2>1, <3>1
  <2>2. CASE ~(c = "ACMD41" /\ d.ty = "probe")
    <3>1. Answered(z, c, r) = IF r = "zero" THEN LastInit(z) ELSE Poll(z)
      BY <1>1, <2>2 DEF Answered
    <3>2. QED
      BY <1>1, <3>1, LastInitIs, PollIs DEF InitWaits
  <2>3. QED
    BY <2>1, <2>2
<1>9. CASE d.cmd \in {<<"ACMD41">>, <<"CMD1">>}
  <2>1. PICK c \in {"ACMD41", "CMD1"} : d.cmd = <<c>>
    BY <1>9
  <2>2. n = Answered(z, c, r)
    BY <2>1, OneCommand DEF z
  <2>3. QED
    BY <1>8, <1>9, <2>2
<1>10. CASE d.cmd = App("ACMD41")
  <2>1. CASE r = "more"
    <3>1. n = Answered(z, "ACMD41", r)
      BY <1>10, <2>1, TwoCommands DEF z
    <3>2. QED
      BY <1>8, <1>10, <3>1
  <2>2. CASE r # "more"
    <3>1. n = send_cmd(d, <<"ACMD41">>) /\ <<"ACMD41">> \in Commands
      BY <1>10, <2>2, TwoCommands DEF Commands
    <3> HIDE DEF n
    <3>2. InitWaits(n, n.ty) /\ n.ty = d.ty
      BY <3>1, SendKeeps DEF SameCall, InitWaits
    <3>3. QED
      BY <1>10, <3>2 DEF n
  <2>3. QED
    BY <2>1, <2>2
<1>11. CASE d.cmd = <<"CMD58">>
  <2>1. n = Answered(z, "CMD58", r)
    BY <1>11, OneCommand DEF z
  <2>2. CASE r = "zero"
    <3>1. n = Initialised(z, IF card.kind = "SDHC" THEN "SD2|BLOCK" ELSE "SD2")
      BY <2>1, <2>2 DEF Answered
    <3>2. QED
      BY <1>1, <1>2, <1>11, <2>2, <3>1, InitialisedIs
  <2>3. CASE r # "zero"
    BY <1>3, <2>1, <2>3 DEF Answered
  <2>4. QED
    BY <2>2, <2>3
<1>12. CASE d.cmd = <<"CMD16">>
  <2>1. n = Answered(z, "CMD16", r)
    BY <1>12, OneCommand DEF z
  <2>2. CASE r = "zero"
    <3>1. n = Initialised(z, d.ty)
      BY <1>1, <2>1, <2>2 DEF Answered
    <3>2. QED
      BY <1>1, <1>2, <1>12, <2>2, <3>1, InitialisedIs
  <2>3. CASE r # "zero"
    BY <1>3, <2>1, <2>3 DEF Answered
  <2>4. QED
    BY <2>2, <2>3
<1>13. QED
  BY <1>6, <1>7, <1>9, <1>10, <1>11, <1>12 DEF InitLate

-----------------------------------------------------------------------------
(* The SD card: the answers to the commands of a transfer *)

\* A call that ends with an error.
Ended(d, n) ==
  /\ n.pc = "idle" /\ n.op = "none" /\ n.res = "RES_ERROR" /\ n.Stat = d.Stat /\ n.CardType = d.CardType

\* A call that returns an error.
LEMMA EndedIs ==
  ASSUME NEW d \in Driver PROVE Ended(d, Returns(d, FALSE))
PROOF
  BY ReturnsIs DEF Ended

\* The answer to the command of a transfer.
LEMMA TransferAnswered ==
  ASSUME NEW d \in Driver, NEW c \in {"CMD17", "CMD18", "CMD24", "CMD25"}, d.cmd = <<c>>, NEW r
  PROVE  LET n == AfterCommand(d, r) IN
         \/ r # "zero" /\ Ended(d, n)
         \/ r = "zero" /\ SameCall(d, n) /\ n.pc = (IF c \in {"CMD17", "CMD18"} THEN "token" ELSE "xmit")
PROOF
<1> DEFINE z == [d EXCEPT !.Timer2 = 0]
           n == AfterCommand(d, r)
<1>1. z \in Driver /\ SameCall(d, z)
  BY DEF Driver, SameCall
<1>2. n = Answered(z, c, r)
  BY OneCommand
<1>3. Ended(d, Returns(z, FALSE))
  BY <1>1, EndedIs DEF Ended, SameCall
<1> HIDE DEF z
<1>4. CASE r # "zero"
  <2>1. n = Returns(z, FALSE)
    BY <1>2, <1>4 DEF Answered
  <2>2. QED
    BY <1>3, <1>4, <2>1
<1>5. CASE r = "zero" /\ c \in {"CMD17", "CMD18"}
  <2>1. n = [z EXCEPT !.Timer1 = TOKEN_WAIT, !.pc = "token"]
    BY <1>2, <1>5 DEF Answered, Receive
  <2> HIDE DEF n
  <2>2. n.pc = "token" /\ SameCall(d, n)
    BY <1>1, <2>1 DEF Driver, SameCall
  <2>3. QED
    BY <1>5, <2>2 DEF n
<1>6. CASE r = "zero" /\ c \in {"CMD24", "CMD25"}
  <2>1. n = [z EXCEPT !.Timer2 = READY_WAIT, !.pc = "xmit"]
    BY <1>2, <1>6 DEF Answered, Transmit, Wait2
  <2> HIDE DEF n
  <2>2. n.pc = "xmit" /\ SameCall(d, n)
    BY <1>1, <2>1 DEF Driver, SameCall
  <2>3. QED
    BY <1>6, <2>2 DEF n
<1>7. QED
  BY <1>4, <1>5, <1>6

\* The commands before that of a write go on whatever is answered.
LEMMA AnnounceAnswered ==
  ASSUME NEW d \in Driver, d.cmd \in {App("ACMD23"), <<"ACMD23">>}, NEW r
  PROVE  LET n == AfterCommand(d, r) IN SameCall(d, n) /\ n.pc = "select"
PROOF
<1> DEFINE z == [d EXCEPT !.Timer2 = 0]
           n == AfterCommand(d, r)
<1>1. z \in Driver /\ SameCall(d, z)
  BY DEF Driver, SameCall
<1>2. <<"CMD25">> \in Commands /\ <<"ACMD23">> \in Commands
  BY DEF Commands
<1> HIDE DEF z
<1>3. Answered(z, "ACMD23", r) = send_cmd(z, <<"CMD25">>)
  BY DEF Answered
<1>4. n = send_cmd(z, <<"CMD25">>) \/ n = send_cmd(d, <<"ACMD23">>)
  <2>1. CASE d.cmd = App("ACMD23")
    BY <1>3, <2>1, TwoCommands DEF z
  <2>2. CASE d.cmd = <<"ACMD23">>
    BY <1>3, <2>2, OneCommand DEF z
  <2>3. QED
    BY <2>1, <2>2
<1> HIDE DEF n
<1>5. CASE n = send_cmd(z, <<"CMD25">>)
  BY <1>1, <1>2, <1>5, SendKeeps DEF SameCall, n
<1>6. CASE n = send_cmd(d, <<"ACMD23">>)
  BY <1>2, <1>6, SendKeeps DEF n
<1>7. QED
  BY <1>4, <1>5, <1>6

\* The answer to CMD12 ends the read, or leaves it waiting.
LEMMA StopReadingAnswered ==
  ASSUME NEW d \in Driver, d.op = "read", d.cmd = <<"CMD12">>, NEW r
  PROVE  LET n == AfterCommand(d, r) IN
         /\ n.pc = "idle" /\ n.op \in {"none", "read"} /\ n.Stat = d.Stat /\ n.CardType = d.CardType
         /\ n.op = "read" => n.sector = d.sector /\ n.data = d.data
PROOF
<1> DEFINE z == [d EXCEPT !.Timer2 = 0]
<1>1. z \in Driver /\ SameCall(d, z)
  BY DEF Driver, SameCall
<1> HIDE DEF z
<1> DEFINE ok == z.left = 0
<1>2. AfterCommand(d, r) = Returns(z, ok) /\ ok \in BOOLEAN
  <2>1. AfterCommand(d, r) = Answered(z, "CMD12", r)
    BY OneCommand DEF z
  <2>2. QED
    BY <2>1 DEF Answered
<1> HIDE DEF ok
<1>3. QED
  BY <1>1, <1>2, ReturnsIs DEF SameCall

-----------------------------------------------------------------------------
(* The SD card: what a step leaves of what is known *)

\* The card after an answer: what it holds and is programming is as it was.
Untouched(k) ==
  /\ k \in CardStates /\ k.kind = card.kind /\ k.pend = card.pend /\ k.cells = card.cells
  /\ k.mode # "ready" => k.xfer = None

\* A card that is left alone is untouched.
LEMMA CardIsUntouched == ASSUME DataInv PROVE Untouched(card)
PROOF
  BY DEF DataInv, CardTypeInv, Untouched

\* A step that keeps the cells keeps what is known of them.
LEMMA StoreKept ==
  ASSUME DataInv, NEW n, NEW k, Untouched(k), Becomes(n, k), known' = known, durable' = durable
  PROVE  CardTypeInv' /\ CellsKnown'
PROOF
<1>1. /\ card' \in CardStates /\ card'.mode = k.mode /\ card'.pend = card.pend /\ card'.cells = card.cells
      /\ card'.xfer = None \/ card'.xfer = k.xfer
  BY BecomesIs DEF Untouched
<1>2. CardTypeInv'
  BY <1>1 DEF DataInv, CardTypeInv, Untouched
<1>3. CellsKnown'
  BY <1>1 DEF DataInv, CellsKnown
<1>4. QED
  BY <1>2, <1>3

\* Only a write that ends well lets a sector be known, and only a wait that ends well
\* what is durable.
LEMMA KnownKept ==
  ASSUME NEW n, NEW k, Becomes(n, k)
  PROVE  /\ n.pc # "idle" \/ n.res # "RES_OK" \/ drv.op # "write" => known' = known
         /\ n.pc # "idle" \/ n.res # "RES_OK" \/ drv.op # "sync" => durable' = durable
PROOF
  BY DEF Becomes

\* A card is still addressed as its kind wants it, by the same driver.
LEMMA StillIdentified ==
  ASSUME NEW d, NEW n, NEW k, NEW m, Identified(d, k), n.Stat = d.Stat, n.CardType = d.CardType,
         m.kind = k.kind, m.mode = k.mode
  PROVE  Identified(n, m)
PROOF
  BY DEF Identified

\* A call of a card in use that fails.
LEMMA CallFails ==
  ASSUME DataInv, drv \in Driver, NEW n, NEW k, Untouched(k), k.mode = card.mode,
         k.xfer \in {None, "writes", "read", "write"}, Ended(drv, n), Becomes(n, k)
  PROVE  DataInv'
PROOF
<1>1. known' = known /\ durable' = durable /\ drv' = n
  BY KnownKept DEF Ended, Becomes
<1>2. CardTypeInv' /\ CellsKnown'
  BY <1>1, StoreKept
<1>3. /\ card'.kind = card.kind /\ card'.mode = card.mode /\ card'.xfer \in {None, "writes"}
  BY BecomesIs DEF Ended, Untouched
<1>4. DataKnown'
  BY <1>1 DEF DataKnown, Ended
<1>5. Identified(drv', card')
  BY <1>1, <1>3, StillIdentified DEF DataInv, Ended
<1>6. Identifying(drv', card') /\ Transferring(drv', card')
  BY <1>1, <1>3 DEF Ended, Identifying, Transferring
<1>7. QED
  BY <1>2, <1>4, <1>5, <1>6 DEF DataInv

\* A call that goes on to its next command.
LEMMA CallGoesOn ==
  ASSUME DataInv, drv \in Driver, drv.op = "write", drv.pc = "select", drv.left = drv.count,
         NEW n, SameCall(drv, n), n.pc = "select", Becomes(n, card)
  PROVE  DataInv'
PROOF
<1>1. known' = known /\ durable' = durable /\ drv' = n
  BY KnownKept DEF Becomes
<1>2. CardTypeInv' /\ CellsKnown'
  BY <1>1, StoreKept, CardIsUntouched
<1>3. /\ card'.kind = card.kind /\ card'.mode = card.mode /\ card'.xfer \in {None, "writes"}
  <2>1. drv.Stat /\ card.xfer \in {None, "writes"}
    BY DEF DataInv, Identifying, Transferring
  <2>2. QED
    BY <2>1, BecomesIs, CardIsUntouched DEF Untouched
<1>4. DataKnown'
  BY <1>1 DEF DataInv, DataKnown, SameCall, Span, Sent
<1>5. Identified(drv', card')
  BY <1>1, <1>3, StillIdentified DEF DataInv, SameCall
<1>6. Identifying(drv', card') /\ Transferring(drv', card')
  BY <1>1, <1>3 DEF SameCall, Identifying, Transferring, DataInv
<1>7. QED
  BY <1>2, <1>4, <1>5, <1>6 DEF DataInv

-----------------------------------------------------------------------------
(* The SD card: the steps of an initialisation *)

\* A step of an initialisation that leaves the card in no transfer.
LEMMA InitStep ==
  ASSUME DataInv, drv.op = "init", NEW n, NEW k, Untouched(k), Becomes(n, k), n.op \in {"none", "init"},
         n.pc \in {"idle", "select"}, n.op = "init" => ~n.Stat, n.pc # "idle" => n.op = "init",
         n.Stat => k.xfer = None, Identified(n, k),
         n.pc = "select" =>
           /\ k.xfer = None
           /\ n.cmd = <<"CMD8">> => k.mode # "ready"
           /\ (k.mode = "ready" /\ k.kind = "SDHC") => n.ty = "SD2"
           /\ n.cmd = <<"CMD16">> => n.ty # "SD2"
           /\ n.cmd = <<"CMD58">> => n.ty = "SD2"
  PROVE  DataInv'
PROOF
<1>1. known' = known /\ durable' = durable /\ drv' = n
  BY KnownKept DEF Becomes
<1>2. CardTypeInv' /\ CellsKnown'
  BY <1>1, StoreKept
<1>3. /\ card'.kind = k.kind /\ card'.mode = k.mode /\ card'.xfer \in {None, k.xfer}
  BY BecomesIs DEF Untouched
<1>4. DataKnown'
  BY <1>1 DEF DataKnown
<1>5. Identified(drv', card')
  BY <1>1, <1>3, StillIdentified
<1>6. Identifying(drv', card')
  BY <1>1, <1>3 DEF Identifying
<1>7. Transferring(drv', card')
  BY <1>1, <1>3 DEF Transferring
<1>8. QED
  BY <1>2, <1>4, <1>5, <1>6, <1>7 DEF DataInv

\* The answers of the card to the commands of an initialisation.
LEMMA InitAnswers ==
  ASSUME DataInv, drv.op = "init", drv.pc = "select",
         drv.cmd \in {<<"CMD0">>, <<"CMD8">>, App("ACMD41")} \cup InitLate, NEW a,
         NEW x \in Answers(card, drv.cmd[1], a, drv.ty = "SD2")
  PROVE  /\ Untouched(x[2])
         /\ drv.cmd = <<"CMD0">> /\ x[1] = "one" => x[2].mode = "idle" /\ x[2].xfer = None
         /\ drv.cmd # <<"CMD0">> =>
              /\ x[2].xfer = None
              /\ \/ x[2].mode = card.mode
                 \/ drv.cmd \in {<<"ACMD41">>, <<"CMD1">>} /\ (card.kind = "SDHC" => drv.ty = "SD2")
         /\ drv.cmd \in {<<"CMD58">>, <<"CMD16">>} /\ x[1] = "zero" => x[2].mode # "idle"
PROOF
<1> DEFINE hcs == drv.ty = "SD2"
<1>0. x \in Answers(card, drv.cmd[1], a, hcs) /\ (hcs => drv.ty = "SD2")
  OBVIOUS
<1> HIDE DEF hcs
<1>1. Untouched(card) /\ card \in CardStates
  BY CardIsUntouched DEF Untouched
<1>2. CASE drv.cmd = <<"CMD0">>
  <2>1. x \in Answers(card, drv.cmd[1], a, hcs) /\ drv.cmd[1] = "CMD0"
    BY <1>0, <1>2
  <2>2. CASE x[1] = "more" /\ x[2] = card
    BY <1>1, <1>2, <2>2
  <2>3. CASE x[1] = "one" /\ x[2] = AtReset(card)
    BY <1>1, <1>2, <2>3 DEF AtReset, Untouched, CardStates, Xfers
  <2>4. \/ x[1] = "more" /\ x[2] = card
        \/ x[1] = "one" /\ x[2] = AtReset(card)
    BY <2>1, ResetAnswer
  <2>5. QED
    BY <2>2, <2>3, <2>4
<1>3. CASE drv.cmd # <<"CMD0">>
  <2>1. card.xfer = None
    BY <1>3 DEF DataInv, Identifying
  <2>2. PICK c \in {"CMD8", "CMD55", "ACMD41", "CMD1", "CMD58", "CMD16"} :
          /\ drv.cmd = (IF c = "CMD55" THEN App("ACMD41") ELSE <<c>>) /\ drv.cmd[1] = c
    <3>1. App("ACMD41")[1] = "CMD55"
      BY DEF App
    <3>2. QED
      BY <1>3, <3>1 DEF InitLate
  <2>3. \/ x[1] = "more" /\ x[2] = card
        \/ card.mode # "off" /\ x \in Obeys(card, c, a, hcs)
    BY <1>0, <2>1, <2>2, OtherAnswer
  <2>4. CASE x[1] = "more" /\ x[2] = card
    BY <1>1, <1>3, <2>1, <2>4
  <2>5. CASE x \in Obeys(card, c, a, hcs) /\ c \in {"ACMD41", "CMD1"}
    <3>1. CASE x[1] = "one" /\ x[2] = card
      BY <1>1, <1>3, <2>1, <3>1, <2>2, <2>5, CommandsDiffer
    <3>2. CASE x[2] = [card EXCEPT !.mode = "ready"] /\ (card.kind = "SDHC" => hcs)
      <4>1. Untouched(x[2]) /\ x[2].xfer = None
        BY <1>1, <2>1, <3>2 DEF Untouched, CardStates
      <4>2. drv.cmd \in {<<"ACMD41">>, <<"CMD1">>}
        BY <2>2, <2>5
      <4>3. drv.cmd \notin {<<"CMD58">>, <<"CMD16">>}
        BY <2>2, <2>5, CommandsDiffer
      <4>4. QED
        BY <1>0, <1>3, <3>2, <4>1, <4>2, <4>3
    <3>3. QED
      BY <2>5, <3>1, <3>2, ObeysStart
  <2>6. CASE x \in Obeys(card, c, a, hcs) /\ c \in {"CMD8", "CMD55", "CMD16", "CMD58"}
    <3>1. x[2] = card /\ (c \in {"CMD16", "CMD58"} => card.mode # "idle")
      BY <2>6, ObeysOther
    <3>2. drv.cmd \in {<<"CMD58">>, <<"CMD16">>} => c \in {"CMD16", "CMD58"}
      BY <2>2, CommandsDiffer
    <3>3. QED
      BY <1>1, <1>3, <2>1, <3>1, <3>2
  <2>7. QED
    BY <2>3, <2>4, <2>5, <2>6
<1>4. QED
  BY <1>2, <1>3

\* An answer, or the end of the wait for one.
Heard(x) ==
  \/ card.pend = {} /\ x \in Answers(card, drv.cmd[1], Address(drv), drv.ty = "SD2")
  \/ drv.pc = "select" /\ x[1] = "more" /\ x[2] = card

\* A command of an initialisation keeps the invariant.
LEMMA InitHears ==
  ASSUME TimeInv, DataInv, drv.op = "init", drv.pc = "select", NEW x, Heard(x),
         Becomes(AfterCommand(drv, x[1]), x[2])
  PROVE  DataInv'
PROOF
<1> DEFINE n == AfterCommand(drv, x[1])
           k == x[2]
<1>1. /\ drv \in Driver /\ drv.cmd \in {<<"CMD0">>, <<"CMD8">>, App("ACMD41")} \cup InitLate
      /\ ~drv.Stat
  BY DEF TimeInv, InTime, InitInTime, DataInv, Identifying
<1>2. Untouched(card) /\ (drv.cmd # <<"CMD0">> => card.xfer = None)
  BY CardIsUntouched DEF DataInv, Identifying
<1>3. /\ Untouched(k)
      /\ drv.cmd = <<"CMD0">> /\ x[1] = "one" => k.mode = "idle" /\ k.xfer = None
      /\ drv.cmd # <<"CMD0">> =>
           /\ k.xfer = None
           /\ \/ k.mode = card.mode
              \/ drv.cmd \in {<<"ACMD41">>, <<"CMD1">>} /\ (card.kind = "SDHC" => drv.ty = "SD2")
      /\ drv.cmd \in {<<"CMD58">>, <<"CMD16">>} /\ x[1] = "zero" => k.mode # "idle"
  <2>1. CASE x \in Answers(card, drv.cmd[1], Address(drv), drv.ty = "SD2")
    BY <1>1, <2>1, InitAnswers
  <2>2. CASE x[1] = "more" /\ x[2] = card
    BY <1>2, <2>2
  <2>3. QED
    BY <2>1, <2>2 DEF Heard
<1> HIDE DEF k, n
<1>4. Becomes(n, k)
  BY DEF n, k
<1>5. /\ k.kind = card.kind
      /\ drv.cmd = <<"CMD8">> => card.mode # "ready" /\ k.mode = card.mode
      /\ drv.cmd # <<"CMD0">> => ((card.mode = "ready" /\ card.kind = "SDHC") => drv.ty = "SD2")
      /\ drv.cmd = <<"CMD16">> => drv.ty # "SD2"
      /\ drv.cmd = <<"CMD58">> => drv.ty = "SD2"
  <2>1. drv.cmd = <<"CMD8">> => drv.cmd # <<"CMD0">> /\ drv.cmd # <<"ACMD41">> /\ drv.cmd # <<"CMD1">>
    BY CommandsDiffer
  <2>2. <<"CMD16">> # <<"CMD0">> /\ <<"CMD58">> # <<"CMD0">>
    BY CommandsDiffer
  <2>3. QED
    BY <1>3, <2>1, <2>2 DEF DataInv, Identifying, Untouched
<1>6. CASE InitFails(n)
  BY <1>1, <1>3, <1>4, <1>6, InitStep DEF InitFails, Identified
<1>7. CASE /\ drv.cmd = <<"CMD0">> /\ x[1] = "one"
           /\ n.pc = "select" /\ n.op = "init" /\ ~n.Stat /\ n.cmd = <<"CMD8">>
  <2>1. n.cmd # <<"CMD16">> /\ n.cmd # <<"CMD58">>
    BY <1>7, CommandsDiffer
  <2>2. k.mode = "idle" /\ k.xfer = None
    BY <1>3, <1>7
  <2>3. QED
    BY <1>1, <1>3, <1>4, <1>7, <2>1, <2>2, InitStep DEF Identified
<1>8. ASSUME InitWaits(n, n.ty), k.xfer = None, (k.mode = "ready" /\ k.kind = "SDHC") => n.ty = "SD2"
      PROVE  DataInv'
  <2>1. /\ n.cmd # <<"CMD8">>
        /\ n.cmd = <<"CMD16">> => n.ty # "SD2"
        /\ n.cmd = <<"CMD58">> => n.ty = "SD2"
    BY <1>8, CommandsDiffer DEF InitWaits
  <2>2. n.pc = "select" /\ n.op = "init" /\ ~n.Stat
    BY <1>8 DEF InitWaits
  <2>3. QED
    BY <1>1, <1>3, <1>4, <1>8, <2>1, <2>2, InitStep DEF Identified
<1>9. CASE drv.cmd = <<"CMD8">> /\ InitWaits(n, n.ty)
  <2>1. k.mode # "ready" /\ k.xfer = None
    BY <1>3, <1>5, <1>9, CommandsDiffer
  <2>2. QED
    BY <1>8, <1>9, <2>1
<1>10. CASE /\ drv.cmd \in {App("ACMD41"), <<"ACMD41">>, <<"CMD1">>} /\ InitWaits(n, n.ty)
            /\ drv.ty = "probe" \/ n.ty = drv.ty
  <2>1. drv.cmd # <<"CMD0">>
    BY <1>10, CommandsDiffer
  <2>2. k.xfer = None /\ (k.mode = "ready" /\ k.kind = "SDHC" => drv.ty = "SD2")
    BY <1>3, <1>5, <2>1
  <2>3. (k.mode = "ready" /\ k.kind = "SDHC") => n.ty = "SD2"
    BY <1>10, <2>2
  <2>4. QED
    BY <1>8, <1>10, <2>2, <2>3
<1>11. ASSUME NEW ty, InitFinds(n, ty), x[1] = "zero", drv.cmd \in {<<"CMD58">>, <<"CMD16">>},
              k.mode = "ready" => (ty = "SD2|BLOCK" <=> k.kind = "SDHC")
       PROVE  DataInv'
  <2>1. k.xfer = None /\ k.mode # "idle"
    BY <1>3, <1>11, CommandsDiffer
  <2>2. Identified(n, k)
    BY <1>11, <2>1 DEF Identified, InitFinds
  <2>3. n.pc = "idle" /\ n.op = "none"
    BY <1>11 DEF InitFinds
  <2>4. QED
    BY <1>1, <1>3, <1>4, <2>1, <2>2, <2>3, InitStep
<1>12. CASE /\ drv.cmd = <<"CMD58">> /\ x[1] = "zero"
            /\ InitFinds(n, IF card.kind = "SDHC" THEN "SD2|BLOCK" ELSE "SD2")
  BY <1>5, <1>11, <1>12
<1>13. CASE drv.cmd = <<"CMD16">> /\ x[1] = "zero" /\ InitFinds(n, drv.ty)
  <2>1. k.mode = card.mode /\ drv.ty # "SD2"
    BY <1>3, <1>5, <1>13, CommandsDiffer
  <2>2. drv.ty # "SD2|BLOCK"
    BY <1>1 DEF Driver, Probed
  <2>3. k.mode = "ready" => k.kind # "SDHC"
    BY <1>5, <1>13, <2>1, CommandsDiffer
  <2>4. QED
    BY <1>11, <1>13, <2>2, <2>3
<1>14. QED
  BY <1>1, <1>6, <1>7, <1>9, <1>10, <1>12, <1>13, InitAnswered DEF n

-----------------------------------------------------------------------------
(* The SD card: the blocks of a transfer *)

\* After a block that came or not.
LEMMA AfterBlockIs ==
  ASSUME NEW d \in Driver, d.op = "read", d.left > 0, d.count > 0, NEW ok \in BOOLEAN, NEW v, ok => v \in Data
  PROVE  LET n == AfterBlock(d, ok, v) IN
         \/ d.count = 1 /\ ~ok /\ Ended(d, n)
         \/ /\ d.count = 1 /\ ok /\ n.pc = "idle" /\ n.op = "read" /\ n.sector = d.sector
            /\ n.data = Append(d.data, v) /\ n.Stat = d.Stat /\ n.CardType = d.CardType
         \/ /\ d.count > 1 /\ n.pc \in {"token", "answer"} /\ n.op = "read" /\ n.sector = d.sector
            /\ n.count = d.count /\ n.Stat = d.Stat /\ n.CardType = d.CardType
            /\ ok => n.data = Append(d.data, v) /\ n.left = d.left - 1
            /\ ~ok => n.data = d.data /\ n.left = d.left
            /\ n.pc = "token" => ok
PROOF
<1> DEFINE e == IF ok THEN [d EXCEPT !.left = @ - 1, !.data = Append(@, v)] ELSE d
           n == AfterBlock(d, ok, v)
<1>1. d.left - 1 \in Nat /\ d.count \in Nat /\ d.data \in Seq(Data) /\ (ok => Append(d.data, v) \in Seq(Data))
  BY DEF Driver
<1>2. /\ e \in Driver /\ e.op = "read" /\ e.sector = d.sector /\ e.count = d.count /\ e.Stat = d.Stat
      /\ e.CardType = d.CardType
      /\ IF ok THEN e.data = Append(d.data, v) /\ e.left = d.left - 1
               ELSE e.data = d.data /\ e.left = d.left
  <2>1. CASE ok
    <3>1. e = [d EXCEPT !.left = d.left - 1, !.data = Append(d.data, v)]
      BY <2>1
    <3> HIDE DEF e
    <3>2. e \in Driver
      BY <1>1, <2>1, <3>1, Zenon DEF Driver
    <3>3. QED
      BY <2>1, <3>1, <3>2 DEF Driver
  <2>2. CASE ~ok
    BY <2>2
  <2>3. QED
    BY <2>1, <2>2
<1>3. n = CASE d.count = 1 -> Returns(e, ok)
            [] d.count > 1 /\ ok /\ e.left > 0 -> Receive(e)
            [] OTHER -> StopReading(e)
  BY DEF AfterBlock
<1>4. ~ok => e = d
  OBVIOUS
<1> HIDE DEF e, n
<1>5. CASE d.count = 1
  <2>1. n = Returns(e, ok)
    BY <1>3, <1>5
  <2>2. CASE ok
    <3>1. /\ n.pc = "idle" /\ n.op = "read" /\ n.sector = e.sector /\ n.data = e.data /\ n.Stat = e.Stat
          /\ n.CardType = e.CardType
      BY <1>2, <2>1, <2>2, ReturnsIs
    <3>2. QED
      BY <1>2, <1>5, <2>2, <3>1 DEF n
  <2>3. CASE ~ok
    <3>1. Ended(d, n)
      BY <1>4, <2>1, <2>3, EndedIs
    <3>2. QED
      BY <1>5, <2>3, <3>1 DEF n
  <2>4. QED
    BY <2>2, <2>3
<1>6. CASE d.count > 1 /\ ok /\ e.left > 0
  <2>1. d.count # 1
    BY <1>1, <1>6
  <2>2. n = Receive(e)
    BY <1>3, <1>6, <2>1, Zenon
  <2>3. n = [e EXCEPT !.Timer1 = TOKEN_WAIT, !.pc = "token"]
    BY <2>2 DEF Receive
  <2>4. /\ n.pc = "token" /\ n.op = e.op /\ n.sector = e.sector /\ n.count = e.count /\ n.left = e.left
        /\ n.data = e.data /\ n.Stat = e.Stat /\ n.CardType = e.CardType
    BY <1>2, <2>3 DEF Driver
  <2>5. QED
    BY <1>2, <1>6, <2>4 DEF n
<1>7. CASE d.count > 1 /\ ~(ok /\ e.left > 0)
  <2>1. n = StopReading(e)
    BY <1>1, <1>3, <1>7
  <2>2. n = [e EXCEPT !.cmd = <<"CMD12">>, !.pc = "answer"]
    BY <2>1 DEF StopReading
  <2>3. /\ n.pc = "answer" /\ n.op = e.op /\ n.sector = e.sector /\ n.count = e.count /\ n.left = e.left
        /\ n.data = e.data /\ n.Stat = e.Stat /\ n.CardType = e.CardType
    BY <1>2, <2>2 DEF Driver
  <2>4. QED
    BY <1>2, <1>7, <2>3 DEF n
<1>8. QED
  BY <1>1, <1>5, <1>6, <1>7

\* After a block that was taken or not.
LEMMA AfterDataIs ==
  ASSUME NEW d \in Driver, d.op = "write", d.left > 0, d.count > 0, NEW ok \in BOOLEAN
  PROVE  LET n == AfterData(d, ok) IN
         \/ d.count = 1 /\ ~ok /\ Ended(d, n)
         \/ /\ d.count = 1 /\ ok /\ n.pc = "idle" /\ n.op = "none" /\ n.res = "RES_OK"
            /\ n.Stat = d.Stat /\ n.CardType = d.CardType
         \/ /\ d.count > 1 /\ n.pc \in {"xmit", "stop"} /\ n.op = "write" /\ n.sector = d.sector
            /\ n.count = d.count /\ n.Stat = d.Stat /\ n.CardType = d.CardType /\ n.data = d.data
            /\ n.left = (IF ok THEN d.left - 1 ELSE d.left)
            /\ n.pc = "xmit" => ok
PROOF
<1> DEFINE e == IF ok THEN [d EXCEPT !.left = @ - 1] ELSE d
           n == AfterData(d, ok)
<1>1. d.left - 1 \in Nat /\ d.count \in Nat
  BY DEF Driver
<1>2. /\ e \in Driver /\ e.op = "write" /\ e.sector = d.sector /\ e.count = d.count /\ e.Stat = d.Stat
      /\ e.CardType = d.CardType /\ e.data = d.data
      /\ e.left = (IF ok THEN d.left - 1 ELSE d.left)
  BY <1>1 DEF Driver
<1>3. n = CASE d.count = 1 -> Returns(e, ok)
            [] d.count > 1 /\ ok /\ e.left > 0 -> Transmit(e)
            [] OTHER -> Wait2(e, "stop")
  BY DEF AfterData
<1>4. ~ok => e = d
  OBVIOUS
<1> HIDE DEF e, n
<1>5. CASE d.count = 1
  <2>1. n = Returns(e, ok)
    BY <1>3, <1>5
  <2>2. CASE ok
    <3>1. /\ n.pc = "idle" /\ n.op = "none" /\ n.res = "RES_OK" /\ n.Stat = e.Stat
          /\ n.CardType = e.CardType
      BY <1>2, <2>1, <2>2, ReturnsIs
    <3>2. QED
      BY <1>2, <1>5, <2>2, <3>1 DEF n
  <2>3. CASE ~ok
    <3>1. Ended(d, n)
      BY <1>4, <2>1, <2>3, EndedIs
    <3>2. QED
      BY <1>5, <2>3, <3>1 DEF n
  <2>4. QED
    BY <2>2, <2>3
<1>6. ASSUME NEW p \in {"xmit", "stop"}, n = Wait2(e, p)
      PROVE  /\ n.pc = p /\ n.op = "write" /\ n.sector = d.sector /\ n.count = d.count
             /\ n.left = e.left /\ n.data = d.data /\ n.Stat = d.Stat /\ n.CardType = d.CardType
  <2>1. n = [e EXCEPT !.Timer2 = READY_WAIT, !.pc = p]
    BY <1>6 DEF Wait2
  <2>2. QED
    BY <1>2, <2>1 DEF Driver
<1>7. CASE d.count > 1 /\ ok /\ e.left > 0
  <2>1. d.count # 1
    BY <1>1, <1>7
  <2>2. n = Wait2(e, "xmit")
    BY <1>3, <1>7, <2>1, Zenon DEF Transmit
  <2>3. QED
    BY <1>2, <1>6, <1>7, <2>2 DEF n
<1>8. CASE d.count > 1 /\ ~(ok /\ e.left > 0)
  <2>1. n = Wait2(e, "stop")
    BY <1>1, <1>3, <1>8
  <2>2. QED
    BY <1>2, <1>6, <1>8, <2>1 DEF n
<1>9. QED
  BY <1>1, <1>5, <1>7, <1>8

\* The sectors of a call in use are those of the model.
LEMMA InUse ==
  ASSUME TimeInv, DataInv, drv.op \in {"read", "write"}, drv.pc # "idle"
  PROVE  /\ drv \in Driver /\ drv.Stat /\ drv.count > 0 /\ drv.left <= drv.count
         /\ drv.sector \in Nat /\ drv.count \in Nat /\ drv.left \in Nat
         /\ \A i \in 0..(drv.count - 1) : drv.sector + i \in Used
         /\ drv.sector \in Sectors
PROOF
<1>1. drv \in Driver /\ drv.count > 0 /\ drv.left <= drv.count
  BY DEF TimeInv, InTime, InitInTime, SyncInTime
<1>2. drv.sector \in Nat /\ drv.count \in Nat /\ drv.left \in Nat
  BY <1>1 DEF Driver
<1>3. drv.Stat
  BY DEF DataInv, Identifying
<1>4. \A i \in 0..(drv.count - 1) : drv.sector + i \in Used
  <2>1. Span(drv) \subseteq Used
    BY DEF DataInv, DataKnown
  <2>2. ASSUME NEW i \in 0..(drv.count - 1) PROVE drv.sector + i \in Span(drv)
    BY <1>2 DEF Span
  <2>3. QED
    BY <2>1, <2>2
<1>5. drv.sector \in Sectors
  <2>1. drv.sector + 0 \in Used
    BY <1>1, <1>2, <1>4
  <2>2. QED
    BY <1>2, <2>1, CardAssumption
<1>6. QED
  BY <1>1, <1>2, <1>3, <1>4, <1>5

\* The first command of a transfer that moves data, or the last of those before it.
LEMMA TransferHears ==
  ASSUME TimeInv, DataInv, drv.op \in {"read", "write"}, drv.pc = "select", drv.left = drv.count,
         NEW c, drv.cmd = <<c>>,
         c = (IF drv.op = "read" THEN IF drv.count = 1 THEN "CMD17" ELSE "CMD18"
                                 ELSE IF drv.count = 1 THEN "CMD24" ELSE "CMD25"),
         NEW x, Heard(x), Becomes(AfterCommand(drv, x[1]), x[2])
  PROVE  DataInv'
PROOF
<1> DEFINE n == AfterCommand(drv, x[1])
           k == x[2]
           hcs == drv.ty = "SD2"
<1>1. /\ drv \in Driver /\ drv.Stat /\ drv.count > 0 /\ drv.sector \in Nat /\ drv.count \in Nat
      /\ drv.sector \in Sectors
  BY InUse
<1>2. c \in {"CMD17", "CMD18", "CMD24", "CMD25"} /\ drv.cmd[1] = c /\ c # "CMD0" /\ c # "CMD12"
  OBVIOUS
<1>3. Untouched(card) /\ card \in CardStates /\ card.xfer \in {None, "writes"} /\ Identified(drv, card)
  BY <1>1, CardIsUntouched DEF DataInv, Transferring, Untouched
<1>4. /\ x[1] # "zero" => Ended(drv, n)
      /\ x[1] = "zero" => SameCall(drv, n) /\ n.pc = (IF c \in {"CMD17", "CMD18"} THEN "token" ELSE "xmit")
  BY <1>1, <1>2, TransferAnswered
<1> HIDE DEF n, k, hcs
<1>5. Becomes(n, k)
  BY DEF n, k
<1>6. CASE k = card /\ x[1] = "more"
  BY <1>1, <1>3, <1>4, <1>5, <1>6, CallFails
<1>7. CASE x \in Obeys(card, c, Address(drv), hcs) /\ card.pend = {}
  <2>1. /\ card.mode = "ready" /\ SectorAt(card, Address(drv)) # -1 /\ x[1] = "zero"
        /\ k = AtTransfer(card, c, SectorAt(card, Address(drv)))
    BY <1>2, <1>7, ObeysTransfer DEF k
  <2>2. SectorAt(card, Address(drv)) = drv.sector
    BY <1>1, <1>3, <2>1, AddressIsRight
  <2>3. TransferOf(c) = (IF drv.op = "read" THEN IF drv.count = 1 THEN "read" ELSE "reads"
                                            ELSE IF drv.count = 1 THEN "write" ELSE "writes")
    BY DEF TransferOf
  <2>4. /\ Untouched(k) /\ k.mode = "ready" /\ k.at = drv.sector /\ k.xfer = TransferOf(c)
    <3>1. k = [card EXCEPT !.xfer = TransferOf(c), !.at = drv.sector]
      BY <2>1, <2>2 DEF AtTransfer
    <3>2. TransferOf(c) \in Xfers /\ drv.sector \in Int
      BY <1>1, <2>3 DEF Xfers
    <3> HIDE DEF k
    <3>3. QED
      BY <1>3, <2>1, <3>1, <3>2 DEF Untouched, CardStates
  <2>5. SameCall(drv, n) /\ n.pc = (IF drv.op = "read" THEN "token" ELSE "xmit")
    BY <1>4, <2>1
  <2>6. known' = known /\ durable' = durable /\ drv' = n
    BY <1>5, <2>5, KnownKept DEF Becomes
  <2>7. CardTypeInv' /\ CellsKnown'
    BY <1>5, <2>4, <2>6, StoreKept
  <2>8. /\ card'.kind = card.kind /\ card'.mode = card.mode /\ card'.pend = {} /\ card'.cells = card.cells
        /\ card'.xfer = TransferOf(c) /\ card'.at = drv.sector
    <3>1. k \in CardStates /\ TransferOf(c) # None
      BY <2>3, <2>4 DEF Untouched, None
    <3>2. n.pc \notin {"idle", "select"}
      BY <2>5
    <3>3. QED
      BY <1>5, <1>7, <2>1, <2>4, <3>1, <3>2, BecomesIs DEF Untouched
  <2>9. DataKnown'
    BY <2>5, <2>6 DEF DataInv, DataKnown, SameCall, Span, Sent
  <2>10. Identified(drv', card')
    BY <1>3, <2>5, <2>6, <2>8, StillIdentified DEF SameCall
  <2>11. Identifying(drv', card')
    BY <1>1, <2>5, <2>6 DEF Identifying, SameCall
  <2>12. Transferring(drv', card')
    <3>1. Sent(drv') = 0 /\ drv'.sector + Sent(drv') = drv.sector
      BY <1>1, <2>5, <2>6 DEF Sent, SameCall
    <3>2. drv'.count = drv.count /\ drv'.pc = (IF drv.op = "read" THEN "token" ELSE "xmit")
      BY <2>5, <2>6 DEF SameCall
    <3>3. \A i \in 1..Sent(drv') : FALSE
      BY <3>1
    <3>4. QED
      BY <2>3, <2>6, <2>8, <3>1, <3>2, <3>3 DEF Transferring
  <2>13. QED
    BY <2>7, <2>9, <2>10, <2>11, <2>12 DEF DataInv
<1>8. (k = card /\ x[1] = "more") \/ (x \in Obeys(card, c, Address(drv), hcs) /\ card.pend = {})
  <2>1. CASE card.pend = {} /\ x \in Answers(card, c, Address(drv), hcs)
    BY <1>2, <1>3, <2>1, OtherAnswer DEF k
  <2>2. QED
    BY <1>2, <2>1 DEF Heard, hcs, k
<1>9. QED
  BY <1>6, <1>7, <1>8

\* A block that the card sends, or that does not come.
LEMMA BlockRead ==
  ASSUME TimeInv, DataInv, drv.pc = "token", NEW ok \in BOOLEAN, NEW v, NEW k,
         Becomes(AfterBlock(drv, ok, v), k),
         \/ ~ok /\ k = card
         \/ /\ ok /\ card.xfer \in {"read", "reads"} /\ card.at \in Sectors
            /\ v = card.cells[card.at] /\ k = [card EXCEPT !.at = @ + 1]
  PROVE  DataInv'
PROOF
<1> DEFINE n == AfterBlock(drv, ok, v)
<1>1. drv.op = "read" /\ drv.left > 0
  BY DEF TimeInv, InTime, InitInTime, SyncInTime, ReadInTime, WriteInTime
<1>2. /\ drv \in Driver /\ drv.Stat /\ drv.count > 0 /\ drv.sector \in Nat /\ drv.count \in Nat
      /\ drv.left \in Nat /\ drv.left <= drv.count
      /\ \A i \in 0..(drv.count - 1) : drv.sector + i \in Used
  BY <1>1, InUse
<1>3. Sent(drv) \in 0..(drv.count - 1) /\ Len(drv.data) = Sent(drv) /\ drv.data \in Seq(Data)
  BY <1>1, <1>2 DEF Sent, DataInv, DataKnown, Driver
<1>4. /\ Untouched(card) /\ card \in CardStates /\ card.pend = {}
      /\ card.xfer # None => /\ card.xfer = (IF drv.count = 1 THEN "read" ELSE "reads")
                             /\ card.at = drv.sector + Sent(drv)
  BY CardIsUntouched DEF DataInv, CardTypeInv, Transferring, Untouched
<1>5. /\ Untouched(k) /\ k.mode = card.mode /\ k.pend = {} /\ k.xfer = card.xfer
      /\ k.at = (IF ok THEN card.at + 1 ELSE card.at)
  <2>1. card.at + 1 \in Int
    BY <1>4 DEF CardStates
  <2>2. QED
    BY <1>4, <2>1 DEF Untouched, CardStates
<1>6. ok => v \in Data /\ v \in known[drv.sector + Sent(drv)] /\ drv.sector + Sent(drv) \in Used
            /\ card.at = drv.sector + Sent(drv)
  <2>1. HAVE ok
  <2>2. card.at = drv.sector + Sent(drv) /\ v = card.cells[card.at] /\ card.at \in Sectors
    BY <1>4, <2>1 DEF None
  <2>3. drv.sector + Sent(drv) \in Used
    BY <1>2, <1>3
  <2>4. v \in known[drv.sector + Sent(drv)]
    BY <1>4, <2>2, <2>3 DEF DataInv, CellsKnown
  <2>5. v \in Data
    BY <1>4, <2>2 DEF CardStates
  <2>6. QED
    BY <2>2, <2>3, <2>4, <2>5
<1>7. \/ drv.count = 1 /\ ~ok /\ Ended(drv, n)
      \/ /\ drv.count = 1 /\ ok /\ n.pc = "idle" /\ n.op = "read" /\ n.sector = drv.sector
         /\ n.data = Append(drv.data, v) /\ n.Stat = drv.Stat /\ n.CardType = drv.CardType
      \/ /\ drv.count > 1 /\ n.pc \in {"token", "answer"} /\ n.op = "read" /\ n.sector = drv.sector
         /\ n.count = drv.count /\ n.Stat = drv.Stat /\ n.CardType = drv.CardType
         /\ ok => n.data = Append(drv.data, v) /\ n.left = drv.left - 1
         /\ ~ok => n.data = drv.data /\ n.left = drv.left
         /\ n.pc = "token" => ok
  <2>1. ok => v \in Data
    BY <1>6
  <2>2. drv \in Driver /\ drv.op = "read" /\ drv.left > 0 /\ drv.count > 0
    BY <1>1, <1>2
  <2>3. QED
    BY <2>1, <2>2, AfterBlockIs, ZenonT(30)
<1> HIDE DEF n
<1>8. Becomes(n, k)
  BY DEF n
<1>9. CASE drv.count = 1 /\ ~ok /\ Ended(drv, n)
  <2>1. k.xfer \in {None, "writes", "read", "write"}
    BY <1>4, <1>5, <1>9
  <2>2. QED
    BY <1>2, <1>5, <1>8, <1>9, <2>1, CallFails
<1>10. known' = known /\ durable' = durable /\ drv' = n
  BY <1>1, <1>8, KnownKept DEF Becomes
<1>11. CardTypeInv' /\ CellsKnown'
  BY <1>5, <1>8, <1>10, StoreKept
<1>12. /\ card'.kind = card.kind /\ card'.mode = card.mode /\ card'.pend = {}
       /\ card'.xfer = (IF n.pc \in {"idle", "select"} /\ k.xfer \in {"read", "write"} THEN None ELSE k.xfer)
       /\ card'.xfer # None => card'.at = k.at
  BY <1>5, <1>8, BecomesIs DEF Untouched
<1>13. ok => /\ Len(Append(drv.data, v)) = Sent(drv) + 1
             /\ \A i \in 1..Len(Append(drv.data, v)) :
                  /\ drv.sector + i - 1 \in Used
                  /\ Append(drv.data, v)[i] \in known[drv.sector + i - 1]
  <2>1. HAVE ok
  <2>2. Len(Append(drv.data, v)) = Sent(drv) + 1
    BY <1>3, <1>6, <2>1
  <2>3. ASSUME NEW i \in 1..(Sent(drv) + 1)
        PROVE  drv.sector + i - 1 \in Used /\ Append(drv.data, v)[i] \in known[drv.sector + i - 1]
    <3>1. CASE i = Sent(drv) + 1
      <4>1. Append(drv.data, v)[i] = v /\ drv.sector + i - 1 = drv.sector + Sent(drv)
        BY <1>2, <1>3, <1>6, <2>1, <3>1
      <4>2. QED
        BY <1>6, <2>1, <4>1
    <3>2. CASE i # Sent(drv) + 1
      <4>1. i \in 1..Len(drv.data) /\ Append(drv.data, v)[i] = drv.data[i]
        BY <1>3, <1>6, <2>1, <3>2
      <4>2. QED
        BY <1>1, <4>1 DEF DataInv, DataKnown
    <3>3. QED
      BY <3>1, <3>2
  <2>4. QED
    BY <2>2, <2>3
<1>14. CASE /\ drv.count = 1 /\ ok /\ n.pc = "idle" /\ n.op = "read" /\ n.sector = drv.sector
            /\ n.data = Append(drv.data, v) /\ n.Stat = drv.Stat /\ n.CardType = drv.CardType
  <2>1. DataKnown'
    BY <1>10, <1>13, <1>14 DEF DataKnown
  <2>2. Identified(drv', card')
    BY <1>10, <1>12, <1>14, StillIdentified DEF DataInv
  <2>3. card'.xfer = None
    BY <1>4, <1>5, <1>12, <1>14
  <2>4. Identifying(drv', card') /\ Transferring(drv', card')
    BY <1>10, <1>14, <2>3 DEF Identifying, Transferring
  <2>5. QED
    BY <1>11, <2>1, <2>2, <2>4 DEF DataInv
<1>15. CASE /\ drv.count > 1 /\ n.pc \in {"token", "answer"} /\ n.op = "read" /\ n.sector = drv.sector
            /\ n.count = drv.count /\ n.Stat = drv.Stat /\ n.CardType = drv.CardType
            /\ ok => n.data = Append(drv.data, v) /\ n.left = drv.left - 1
            /\ ~ok => n.data = drv.data /\ n.left = drv.left
            /\ n.pc = "token" => ok
  <2>1. (ok => Sent(n) = Sent(drv) + 1) /\ (~ok => Sent(n) = Sent(drv)) /\ Span(n) = Span(drv)
    <3>1. ok => Sent(n) = Sent(drv) + 1
      BY <1>2, <1>15 DEF Sent
    <3>2. ~ok => Sent(n) = Sent(drv)
      BY <1>15 DEF Sent
    <3>3. Span(n) = Span(drv)
      BY <1>15 DEF Span
    <3>4. QED
      BY <3>1, <3>2, <3>3
  <2>2. DataKnown'
    <3>1. \A i \in 1..Len(n.data) : n.sector + i - 1 \in Used /\ n.data[i] \in known[n.sector + i - 1]
      <4>1. CASE ok
        BY <1>13, <1>15, <4>1
      <4>2. CASE ~ok
        BY <1>1, <1>15, <4>2 DEF DataInv, DataKnown
      <4>3. QED
        BY <4>1, <4>2
    <3>2. Len(n.data) = Sent(n)
      BY <1>3, <1>13, <1>15, <2>1
    <3>3. Span(n) \subseteq Used
      BY <1>1, <2>1 DEF DataInv, DataKnown
    <3>4. QED
      BY <1>10, <1>15, <3>1, <3>2, <3>3 DEF DataKnown
  <2>3. Identified(drv', card')
    BY <1>10, <1>12, <1>15, StillIdentified DEF DataInv
  <2>4. Identifying(drv', card')
    BY <1>2, <1>10, <1>15 DEF Identifying
  <2>5. card'.xfer = card.xfer
    BY <1>5, <1>12, <1>15
  <2>6. n.pc = "token" => /\ card'.mode = "ready" => card'.xfer = (IF n.count = 1 THEN "read" ELSE "reads")
                                                     /\ card'.at = n.sector + Sent(n)
    <3>1. HAVE n.pc = "token"
    <3>2. ok /\ card.xfer # None
      BY <1>15, <3>1 DEF None
    <3>3. card'.at = card.at + 1 /\ n.sector + Sent(n) = card.at + 1
      <4>1. card'.at = card.at + 1
        BY <1>5, <1>12, <2>5, <3>2
      <4>2. card.at = drv.sector + Sent(drv) /\ Sent(drv) \in Nat
        BY <1>3, <1>6, <3>2
      <4>3. n.sector = drv.sector /\ Sent(n) = Sent(drv) + 1
        BY <1>15, <2>1, <3>2
      <4>4. QED
        BY <1>2, <4>1, <4>2, <4>3
    <3>4. QED
      BY <1>4, <1>15, <2>5, <3>2, <3>3
  <2>7. card'.xfer \in {None, "reads"}
    BY <1>4, <1>15, <2>5
  <2>8. Transferring(drv', card')
    BY <1>10, <1>12, <1>15, <2>6, <2>7 DEF Transferring
  <2>9. QED
    BY <1>11, <2>2, <2>3, <2>4, <2>8 DEF DataInv
<1>16. QED
  BY <1>7, <1>9, <1>14, <1>15

\* The sectors of a write hold what has been taken.
LEMMA WillHoldKept ==
  ASSUME NEW k, NEW m, NEW s, NEW v, WillHold(k, s, v), m.pend = k.pend, m.cells = k.cells
  PROVE  WillHold(m, s, v)
PROOF
  BY DEF WillHold

\* A write of one block that is taken is known.
LEMMA OneBlockWritten ==
  ASSUME TimeInv, DataInv, drv.op = "write", drv.pc # "idle", drv.count = 1, drv.left = 1, NEW n, NEW k,
         n.pc = "idle", n.op = "none", n.res = "RES_OK", n.Stat = drv.Stat, n.CardType = drv.CardType,
         k \in CardStates, k.kind = card.kind, k.mode = card.mode, k.cells = card.cells, k.xfer = "write",
         card.mode = "ready", k.pend = {<<drv.sector, drv.data[1]>>}, card.pend = {}, Becomes(n, k)
  PROVE  DataInv'
PROOF
<1>1. /\ drv \in Driver /\ drv.Stat /\ drv.sector \in Nat /\ drv.sector + 0 \in Used
  BY InUse
<1>2. Len(drv.data) = 1 /\ drv.data \in Seq(Data) /\ drv.data[1] \in Data
  BY <1>1 DEF DataInv, DataKnown, Driver
<1>3. Span(drv) = {drv.sector} /\ drv.sector \in Used
  BY <1>1 DEF Span
<1>4. /\ drv' = n /\ durable' = durable
      /\ known' = [s \in Used |-> IF s = drv.sector THEN {drv.data[1]} ELSE known[s]]
  <2>1. known' = [s \in Used |-> IF s \in Span(drv) THEN {drv.data[s - drv.sector + 1]} ELSE known[s]]
    BY DEF Becomes
  <2>2. drv.sector - drv.sector + 1 = 1
    BY <1>1
  <2>3. QED
    BY <1>3, <2>1, <2>2, KnownKept DEF Becomes
<1>5. /\ card' \in CardStates /\ card'.kind = card.kind /\ card'.mode = "ready"
      /\ card'.pend = {<<drv.sector, drv.data[1]>>} /\ card'.cells = card.cells /\ card'.xfer = None
  BY BecomesIs
<1>6. CardTypeInv'
  BY <1>2, <1>4, <1>5 DEF DataInv, CardTypeInv
<1>7. CellsKnown'
  <2>1. drv.data[1] \in durable[drv.sector]
    <3>1. \A i \in 1..Len(drv.data) : drv.data[i] \in durable[drv.sector + i - 1]
      BY DEF DataInv, DataKnown
    <3>2. drv.sector + 1 - 1 = drv.sector /\ 1 \in 1..Len(drv.data)
      BY <1>1, <1>2
    <3>3. QED
      BY <3>1, <3>2
  <2>2. \A p \in card'.pend : p[2] \in known'[p[1]] /\ p[2] \in durable'[p[1]]
    BY <1>3, <1>4, <1>5, <2>1
  <2>3. ASSUME NEW s \in Used
        PROVE  /\ card'.cells[s] \in durable'[s]
               /\ (\A p \in card'.pend : p[1] # s) => card'.cells[s] \in known'[s]
    <3>1. card.cells[s] \in durable[s] /\ card.cells[s] \in known[s]
      BY DEF DataInv, CellsKnown
    <3>2. (\A p \in card'.pend : p[1] # s) => s # drv.sector
      BY <1>5
    <3>3. QED
      BY <1>4, <1>5, <3>1, <3>2
  <2>4. QED
    BY <2>2, <2>3 DEF CellsKnown
<1>8. DataKnown'
  BY <1>4 DEF DataKnown
<1>9. Identified(drv', card')
  BY <1>4, <1>5, StillIdentified DEF DataInv
<1>10. Identifying(drv', card') /\ Transferring(drv', card')
  BY <1>4, <1>5 DEF Identifying, Transferring
<1>11. QED
  BY <1>6, <1>7, <1>8, <1>9, <1>10 DEF DataInv

\* A write of several blocks after one that was taken or not.
LEMMA BlocksGoOn ==
  ASSUME TimeInv, DataInv, drv.op = "write", drv.pc = "xmit", drv.count > 1, NEW n, NEW k,
         n.pc \in {"xmit", "stop"}, n.op = "write", n.sector = drv.sector,
         n.count = drv.count, n.Stat = drv.Stat, n.CardType = drv.CardType, n.data = drv.data,
         k \in CardStates, k.kind = card.kind, k.mode = card.mode, k.cells = card.cells,
         k.xfer = card.xfer, \A p, q \in k.pend : p = q,
         \A p \in k.pend : p[2] \in known[p[1]] /\ p[2] \in durable[p[1]],
         \A s \in Used : (\A p \in k.pend : p[1] # s) => card.cells[s] \in known[s],
         n.pc = "xmit" /\ k.mode = "ready" => k.at = n.sector + Sent(n),
         k.mode = "ready" => \A i \in 1..Sent(n) : WillHold(k, n.sector + i - 1, n.data[i]),
         Becomes(n, k)
  PROVE  DataInv'
PROOF
<1>1. drv' = n /\ durable' = durable /\ known' = known
  BY KnownKept DEF Becomes
<1>2. /\ card' \in CardStates /\ card'.kind = card.kind /\ card'.mode = card.mode
      /\ card'.pend = k.pend /\ card'.cells = card.cells /\ card'.xfer = card.xfer
      /\ card'.xfer # None => card'.at = k.at
  BY BecomesIs
<1>3. CardTypeInv'
  BY <1>1, <1>2 DEF DataInv, CardTypeInv
<1>4. CellsKnown'
  BY <1>1, <1>2 DEF DataInv, CellsKnown
<1>5. DataKnown'
  BY <1>1 DEF DataInv, DataKnown, Span
<1>6. Identified(drv', card')
  BY <1>1, <1>2, StillIdentified DEF DataInv
<1>7. Identifying(drv', card')
  BY <1>1 DEF DataInv, Identifying
<1>8. Transferring(drv', card')
  <2>1. /\ card.mode = "ready" => card.xfer = "writes"
        /\ card.mode # "ready" => card.xfer = None
    BY DEF DataInv, Transferring, CardTypeInv
  <2>2. card'.xfer \in {None, "writes"}
    BY <1>2, <2>1
  <2>3. n.pc = "xmit" /\ card'.mode = "ready" => card'.at = n.sector + Sent(n)
    BY <1>2, <2>1 DEF None
  <2>4. card'.mode = "ready" => \A i \in 1..Sent(n) : WillHold(card', n.sector + i - 1, n.data[i])
    BY <1>2, WillHoldKept
  <2>5. n.count # 1
    BY InUse
  <2>6. QED
    BY <1>1, <1>2, <2>1, <2>2, <2>3, <2>4, <2>5 DEF Transferring
<1>9. QED
  BY <1>3, <1>4, <1>5, <1>6, <1>7, <1>8 DEF DataInv

\* A block that the card takes, or does not.
LEMMA BlockWritten ==
  ASSUME TimeInv, DataInv, drv.pc = "xmit", NEW ok \in BOOLEAN, NEW k, Becomes(AfterData(drv, ok), k),
         \/ ~ok /\ k = card
         \/ /\ ok /\ card.pend = {} /\ card.xfer \in {"write", "writes"}
            /\ k = [card EXCEPT !.pend = {<<card.at, drv.data[drv.count - drv.left + 1]>>}, !.at = @ + 1]
  PROVE  DataInv'
PROOF
<1> DEFINE n == AfterData(drv, ok)
<1>1. drv.op = "write" /\ drv.left > 0 /\ (drv.count = 1 => drv.left = 1)
  BY DEF TimeInv, InTime, InitInTime, SyncInTime, ReadInTime, WriteInTime
<1>2. /\ drv \in Driver /\ drv.Stat /\ drv.count > 0 /\ drv.sector \in Nat /\ drv.count \in Nat
      /\ drv.left \in Nat /\ drv.left <= drv.count
      /\ \A i \in 0..(drv.count - 1) : drv.sector + i \in Used
  BY <1>1, InUse
<1>3. /\ Sent(drv) \in 0..(drv.count - 1) /\ Len(drv.data) = drv.count /\ drv.data \in Seq(Data)
      /\ \A i \in 1..Len(drv.data) : /\ drv.data[i] \in known[drv.sector + i - 1]
                                     /\ drv.data[i] \in durable[drv.sector + i - 1]
  BY <1>1, <1>2 DEF Sent, DataInv, DataKnown, Driver
<1>4. /\ Untouched(card) /\ card \in CardStates
      /\ card.mode # "ready" => card.xfer = None
      /\ card.mode = "ready" => /\ card.xfer = (IF drv.count = 1 THEN "write" ELSE "writes")
                                /\ card.at = drv.sector + Sent(drv)
                                /\ \A i \in 1..Sent(drv) : WillHold(card, drv.sector + i - 1, drv.data[i])
  BY CardIsUntouched DEF DataInv, CardTypeInv, Transferring, Untouched
<1>5. \/ drv.count = 1 /\ ~ok /\ Ended(drv, n)
      \/ /\ drv.count = 1 /\ ok /\ n.pc = "idle" /\ n.op = "none" /\ n.res = "RES_OK"
         /\ n.Stat = drv.Stat /\ n.CardType = drv.CardType
      \/ /\ drv.count > 1 /\ n.pc \in {"xmit", "stop"} /\ n.op = "write" /\ n.sector = drv.sector
         /\ n.count = drv.count /\ n.Stat = drv.Stat /\ n.CardType = drv.CardType /\ n.data = drv.data
         /\ n.left = (IF ok THEN drv.left - 1 ELSE drv.left)
         /\ n.pc = "xmit" => ok
  BY <1>1, <1>2, AfterDataIs, Zenon
<1> HIDE DEF n
<1>6. Becomes(n, k)
  BY DEF n
<1>7. CASE drv.count = 1 /\ ~ok
  <2>1. Ended(drv, n)
    BY <1>5, <1>7
  <2>2. k = card /\ k.xfer \in {None, "writes", "read", "write"}
    BY <1>4, <1>7
  <2>3. QED
    BY <1>2, <1>4, <1>6, <2>1, <2>2, CallFails
<1> DEFINE s == drv.sector + Sent(drv)
           v == drv.data[Sent(drv) + 1]
<1>8. ok => /\ card.mode = "ready" /\ card.pend = {} /\ card.at = s /\ s \in Used /\ v \in Data
            /\ v \in known[s] /\ v \in durable[s]
            /\ k = [card EXCEPT !.pend = {<<s, v>>}, !.at = s + 1]
            /\ k \in CardStates
  <2>1. HAVE ok
  <2>2. card.mode = "ready" /\ card.pend = {} /\ card.at = s
    BY <1>4, <2>1 DEF None
  <2>3. s \in Used
    BY <1>2, <1>3
  <2>4. Sent(drv) + 1 \in 1..Len(drv.data) /\ drv.sector + (Sent(drv) + 1) - 1 = s
    BY <1>2, <1>3
  <2>5. v \in Data /\ v \in known[s] /\ v \in durable[s]
    <3>1. drv.data[Sent(drv) + 1] \in known[drv.sector + (Sent(drv) + 1) - 1]
          /\ drv.data[Sent(drv) + 1] \in durable[drv.sector + (Sent(drv) + 1) - 1]
      BY <1>3, <2>4
    <3>2. v \in Data
      BY <1>3, <2>4
    <3>3. QED
      BY <2>4, <3>1, <3>2
  <2>6. k = [card EXCEPT !.pend = {<<s, v>>}, !.at = s + 1]
    <3>1. k = [card EXCEPT !.pend = {<<card.at, drv.data[drv.count - drv.left + 1]>>}, !.at = card.at + 1]
      BY <2>1
    <3>2. drv.count - drv.left + 1 = Sent(drv) + 1
      BY DEF Sent
    <3>3. QED
      BY <2>2, <3>1, <3>2
  <2>7. s + 1 \in Int /\ {<<s, v>>} \in SUBSET (Used \X Data)
    BY <1>2, <1>3, <2>3, <2>5
  <2> HIDE DEF s, v
  <2>8. k \in CardStates
    BY <1>4, <2>6, <2>7 DEF CardStates
  <2>9. QED
    BY <2>2, <2>3, <2>5, <2>6, <2>8
<1>9. CASE drv.count = 1 /\ ok
  <2>1. Sent(drv) = 0 /\ s = drv.sector /\ v = drv.data[1] /\ drv.left = 1
    BY <1>1, <1>2, <1>9 DEF Sent
  <2>2. k = [card EXCEPT !.pend = {<<drv.sector, drv.data[1]>>}, !.at = s + 1]
    BY <1>8, <1>9, <2>1
  <2> HIDE DEF s, v
  <2>3. /\ k.kind = card.kind /\ k.mode = card.mode /\ k.cells = card.cells /\ k.xfer = "write"
        /\ k.pend = {<<drv.sector, drv.data[1]>>}
    BY <1>4, <1>8, <1>9, <2>2 DEF CardStates
  <2>4. /\ n.pc = "idle" /\ n.op = "none" /\ n.res = "RES_OK" /\ n.Stat = drv.Stat /\ n.CardType = drv.CardType
    BY <1>5, <1>9
  <2>5. QED
    BY <1>1, <1>6, <1>8, <1>9, <2>1, <2>3, <2>4, OneBlockWritten
<1>10. CASE drv.count > 1
  <2>1. /\ n.pc \in {"xmit", "stop"} /\ n.op = "write" /\ n.sector = drv.sector
        /\ n.count = drv.count /\ n.Stat = drv.Stat /\ n.CardType = drv.CardType /\ n.data = drv.data
        /\ n.left = (IF ok THEN drv.left - 1 ELSE drv.left)
        /\ n.pc = "xmit" => ok
    BY <1>5, <1>10
  <2>2. CASE ~ok
    <3>1. k = card /\ Sent(n) = Sent(drv) /\ n.pc = "stop"
      BY <2>1, <2>2 DEF Sent
    <3>2. /\ \A p, q \in k.pend : p = q
          /\ \A p \in k.pend : p[2] \in known[p[1]] /\ p[2] \in durable[p[1]]
          /\ \A t \in Used : (\A p \in k.pend : p[1] # t) => card.cells[t] \in known[t]
      BY <3>1 DEF DataInv, CardTypeInv, CellsKnown
    <3>3. k.mode = "ready" => \A i \in 1..Sent(n) : WillHold(k, n.sector + i - 1, n.data[i])
      BY <1>4, <2>1, <3>1
    <3>4. QED
      BY <1>1, <1>4, <1>6, <1>10, <2>1, <3>1, <3>2, <3>3, BlocksGoOn
  <2>3. CASE ok
    <3>1. Sent(n) = Sent(drv) + 1 /\ n.sector + Sent(n) = s + 1
      <4>1. n.left = drv.left - 1 /\ n.count = drv.count /\ n.sector = drv.sector
        BY <2>1, <2>3
      <4>2. Sent(n) = Sent(drv) + 1 /\ Sent(drv) \in Nat
        BY <1>2, <4>1 DEF Sent
      <4>3. QED
        BY <1>2, <4>1, <4>2
    <3>2. /\ k.pend = {<<s, v>>} /\ k.at = s + 1 /\ k.kind = card.kind /\ k.mode = card.mode
          /\ k.cells = card.cells /\ k.xfer = card.xfer /\ k \in CardStates
      <4> HIDE DEF s, v
      <4>1. QED
        BY <1>4, <1>8, <2>3 DEF CardStates
    <3>3. /\ \A p, q \in k.pend : p = q
          /\ \A p \in k.pend : p[2] \in known[p[1]] /\ p[2] \in durable[p[1]]
      <4> HIDE DEF s, v
      <4>1. QED
        BY <1>8, <2>3, <3>2
    <3>4. \A t \in Used : card.cells[t] \in known[t]
      BY <1>8, <2>3 DEF DataInv, CellsKnown
    <3>5. ASSUME NEW i \in 1..Sent(n) PROVE WillHold(k, n.sector + i - 1, n.data[i])
      <4>1. CASE i = Sent(n)
        <5>1. n.sector + i - 1 = s /\ n.data[i] = v
          BY <1>2, <1>3, <2>1, <3>1, <4>1
        <5> HIDE DEF s, v
        <5>2. QED
          BY <3>2, <5>1 DEF WillHold
      <4>2. CASE i # Sent(n)
        <5>1. i \in 1..Sent(drv) /\ drv.sector + i - 1 # s
          BY <1>2, <1>3, <3>1, <4>2
        <5>2. WillHold(card, drv.sector + i - 1, drv.data[i])
          BY <1>4, <1>8, <2>3, <5>1
        <5> HIDE DEF s, v
        <5>3. card.cells[drv.sector + i - 1] = drv.data[i]
          BY <1>8, <2>3, <5>2 DEF WillHold
        <5>4. QED
          BY <2>1, <3>2, <5>1, <5>3 DEF WillHold
      <4>3. QED
        BY <4>1, <4>2
    <3>6. n.pc = "xmit" /\ k.mode = "ready" => k.at = n.sector + Sent(n)
      BY <3>1, <3>2
    <3> HIDE DEF s, v
    <3>7. QED
      BY <1>1, <1>6, <1>10, <2>1, <3>2, <3>3, <3>4, <3>5, <3>6, BlocksGoOn
  <2>4. QED
    BY <2>2, <2>3
<1>11. QED
  BY <1>2, <1>7, <1>9, <1>10

\* A write of several blocks is stopped.
LEMMA WriteStops ==
  ASSUME TimeInv, DataInv, StopToken
  PROVE  DataInv'
PROOF
<1> DEFINE ok == drv.left = 0
           n == Returns(drv, ok)
           k == [card EXCEPT !.xfer = None]
<1>1. drv.op = "write" /\ drv.pc = "stop" /\ card.pend = {}
  BY DEF StopToken, Busy, TimeInv, InTime, InitInTime, SyncInTime, ReadInTime, WriteInTime
<1>2. /\ drv \in Driver /\ drv.Stat /\ drv.count > 0 /\ drv.sector \in Nat /\ drv.count \in Nat
      /\ drv.left \in Nat
  BY <1>1, InUse
<1>3. Becomes(n, k) /\ ok \in BOOLEAN
  BY DEF StopToken
<1>4. Untouched(k) /\ k.mode = card.mode /\ k.xfer = None
  BY CardIsUntouched DEF Untouched, CardStates, Xfers
<1> HIDE DEF k
<1>5. /\ n.pc = "idle" /\ n.op = "none" /\ n.Stat = drv.Stat /\ n.CardType = drv.CardType
      /\ n.res = (IF ok THEN "RES_OK" ELSE "RES_ERROR")
  <2> HIDE DEF ok
  <2>1. QED
    BY <1>1, <1>2, <1>3, ReturnsIs
<1> HIDE DEF n
<1>6. CASE ~(ok /\ card.mode = "ready")
  <2>1. known' = known /\ durable' = durable /\ drv' = n
    BY <1>1, <1>3, <1>4, <1>5, <1>6 DEF Becomes
  <2>2. CardTypeInv' /\ CellsKnown'
    BY <1>3, <1>4, <2>1, StoreKept
  <2>3. /\ card'.kind = card.kind /\ card'.mode = card.mode /\ card'.xfer = None
    BY <1>3, <1>4, BecomesIs DEF Untouched
  <2>4. DataKnown'
    BY <1>5, <2>1 DEF DataKnown
  <2>5. Identified(drv', card')
    BY <1>5, <2>1, <2>3, StillIdentified DEF DataInv
  <2>6. Identifying(drv', card') /\ Transferring(drv', card')
    BY <1>5, <2>1, <2>3 DEF Identifying, Transferring
  <2>7. QED
    BY <2>2, <2>4, <2>5, <2>6 DEF DataInv
<1>7. CASE ok /\ card.mode = "ready"
  <2>1. /\ drv' = n /\ durable' = durable
        /\ known' = [s \in Used |-> IF s \in Span(drv) THEN {drv.data[s - drv.sector + 1]} ELSE known[s]]
    BY <1>1, <1>3, <1>4, <1>5, <1>7 DEF Becomes
  <2>2. /\ card' \in CardStates /\ card'.kind = card.kind /\ card'.mode = card.mode
        /\ card'.pend = {} /\ card'.cells = card.cells /\ card'.xfer = None
    BY <1>1, <1>3, <1>4, BecomesIs DEF Untouched
  <2>3. ASSUME NEW s \in Used, s \in Span(drv)
        PROVE  /\ drv.data[s - drv.sector + 1] \in Data
               /\ card.cells[s] = drv.data[s - drv.sector + 1]
    <3>1. Sent(drv) = drv.count /\ Len(drv.data) = drv.count /\ drv.data \in Seq(Data)
      BY <1>1, <1>2, <1>7 DEF Sent, DataInv, DataKnown, Driver
    <3>2. s \in Int /\ s - drv.sector + 1 \in 1..drv.count /\ drv.sector + (s - drv.sector + 1) - 1 = s
      BY <1>2, <2>3 DEF Span
    <3>3. \A i \in 1..Sent(drv) : WillHold(card, drv.sector + i - 1, drv.data[i])
      BY <1>1, <1>7 DEF DataInv, Transferring
    <3>4. WillHold(card, s, drv.data[s - drv.sector + 1])
      BY <3>1, <3>2, <3>3
    <3>5. drv.data[s - drv.sector + 1] \in Data
      BY <3>1, <3>2
    <3>6. QED
      BY <1>1, <3>4, <3>5 DEF WillHold
  <2>4. CardTypeInv'
    <3>1. known' \in [Used -> SUBSET Data]
      BY <2>1, <2>3 DEF DataInv, CardTypeInv
    <3>2. QED
      BY <2>1, <2>2, <3>1 DEF DataInv, CardTypeInv
  <2>5. CellsKnown'
    <3>1. ASSUME NEW s \in Used PROVE card.cells[s] \in known'[s] /\ card.cells[s] \in durable[s]
      <4>1. card.cells[s] \in known[s] /\ card.cells[s] \in durable[s]
        BY <1>1 DEF DataInv, CellsKnown
      <4>2. QED
        BY <2>1, <2>3, <4>1
    <3>2. QED
      BY <2>1, <2>2, <3>1 DEF CellsKnown
  <2>6. DataKnown'
    BY <1>5, <2>1 DEF DataKnown
  <2>7. Identified(drv', card')
    BY <1>5, <2>1, <2>2, StillIdentified DEF DataInv
  <2>8. Identifying(drv', card') /\ Transferring(drv', card')
    BY <1>5, <2>1, <2>2 DEF Identifying, Transferring
  <2>9. QED
    BY <2>4, <2>5, <2>6, <2>7, <2>8 DEF DataInv
<1>8. QED
  BY <1>6, <1>7

\* CTRL_SYNC has waited for the card.
LEMMA SyncEnds ==
  ASSUME TimeInv, DataInv, Synced
  PROVE  DataInv'
PROOF
<1> DEFINE n == Returns(drv, TRUE)
<1>1. /\ drv \in Driver /\ drv.op = "sync" /\ drv.pc = "select" /\ card.pend = {} /\ Becomes(n, card)
  BY DEF Synced, Busy, TimeInv, InTime
<1>2. /\ n.pc = "idle" /\ n.op = "none" /\ n.Stat = drv.Stat /\ n.CardType = drv.CardType
  BY <1>1, ReturnsIs
<1> HIDE DEF n
<1>3. known' = known /\ durable' \in {known, durable} /\ drv' = n
  BY <1>1 DEF Becomes
<1>4. Untouched(card) /\ card.xfer \in {None, "writes"}
  BY <1>1, CardIsUntouched DEF DataInv, Identifying, Transferring
<1>5. /\ card' \in CardStates /\ card'.kind = card.kind /\ card'.mode = card.mode
      /\ card'.pend = {} /\ card'.cells = card.cells /\ card'.xfer = card.xfer
  BY <1>1, <1>4, BecomesIs DEF Untouched
<1>6. CardTypeInv'
  BY <1>3, <1>5 DEF DataInv, CardTypeInv
<1>7. CellsKnown'
  <2>1. \A s \in Used : card.cells[s] \in known[s] /\ card.cells[s] \in durable[s]
    BY <1>1 DEF DataInv, CellsKnown
  <2>2. QED
    BY <1>3, <1>5, <2>1 DEF CellsKnown
<1>8. DataKnown'
  BY <1>2, <1>3 DEF DataKnown
<1>9. Identified(drv', card')
  BY <1>2, <1>3, <1>5, StillIdentified DEF DataInv
<1>10. Identifying(drv', card') /\ Transferring(drv', card')
  BY <1>2, <1>3, <1>4, <1>5 DEF Identifying, Transferring
<1>11. QED
  BY <1>6, <1>7, <1>8, <1>9, <1>10 DEF DataInv

\* An answer to a command of a transfer, or the end of the wait for one.
LEMMA ReadHears ==
  ASSUME TimeInv, DataInv, drv.op = "read", drv.pc \in {"select", "answer"}, NEW x, Heard(x),
         Becomes(AfterCommand(drv, x[1]), x[2])
  PROVE  DataInv'
PROOF
<1>1. ReadInTime(drv, elapsed) /\ drv \in Driver
  BY DEF TimeInv, InTime
<1>2. CASE drv.pc = "select"
  <2>1. drv.left = drv.count /\ drv.cmd = <<IF drv.count = 1 THEN "CMD17" ELSE "CMD18">>
    BY <1>1, <1>2 DEF ReadInTime
  <2>2. QED
    BY <1>2, <2>1, TransferHears
<1>3. CASE drv.pc = "answer"
  <2> DEFINE n == AfterCommand(drv, x[1])
             k == x[2]
             hcs == drv.ty = "SD2"
  <2>1. drv.cmd = <<"CMD12">> /\ drv.cmd[1] = "CMD12"
    BY <1>1, <1>3 DEF ReadInTime
  <2>2. /\ n.pc = "idle" /\ n.op \in {"none", "read"} /\ n.Stat = drv.Stat /\ n.CardType = drv.CardType
        /\ n.op = "read" => n.sector = drv.sector /\ n.data = drv.data
    BY <1>1, <2>1, StopReadingAnswered
  <2>3. Untouched(card) /\ card \in CardStates /\ card.xfer \in {None, "reads"}
    BY <1>3, CardIsUntouched DEF DataInv, Transferring, Untouched
  <2> HIDE DEF hcs
  <2>4. \/ card.mode = "off" /\ k = card
        \/ card.mode # "off" /\ k = [card EXCEPT !.xfer = None]
    <3>1. x \in Answers(card, drv.cmd[1], Address(drv), hcs)
      BY <1>3 DEF Heard, hcs
    <3>2. QED
      BY <2>1, <3>1, StopAnswer
  <2>5. Untouched(k) /\ k.mode = card.mode /\ k.xfer = None
    <3>1. CASE card.mode = "off" /\ k = card
      BY <2>3, <3>1 DEF Untouched
    <3>2. CASE k = [card EXCEPT !.xfer = None]
      BY <2>3, <3>2 DEF Untouched, CardStates, Xfers
    <3>3. QED
      BY <2>4, <3>1, <3>2
  <2>6. Becomes(n, k)
    OBVIOUS
  <2> HIDE DEF n, k
  <2>7. known' = known /\ durable' = durable /\ drv' = n
    BY <2>6, KnownKept DEF Becomes
  <2>8. CardTypeInv' /\ CellsKnown'
    BY <2>5, <2>6, <2>7, StoreKept
  <2>9. /\ card'.kind = card.kind /\ card'.mode = card.mode /\ card'.xfer = None
    BY <2>5, <2>6, BecomesIs DEF Untouched
  <2>10. DataKnown'
    BY <2>2, <2>7 DEF DataInv, DataKnown
  <2>11. Identified(drv', card')
    BY <2>2, <2>7, <2>9, StillIdentified DEF DataInv
  <2>12. Identifying(drv', card') /\ Transferring(drv', card')
    BY <2>2, <2>7, <2>9 DEF Identifying, Transferring
  <2>13. QED
    BY <2>8, <2>10, <2>11, <2>12 DEF DataInv
<1>4. QED
  BY <1>2, <1>3

\* The command of a write keeps the invariant.
LEMMA WriteHears ==
  ASSUME TimeInv, DataInv, drv.op = "write", drv.pc = "select", NEW x, Heard(x),
         Becomes(AfterCommand(drv, x[1]), x[2])
  PROVE  DataInv'
PROOF
<1>1. WriteInTime(drv, elapsed) /\ drv \in Driver
  BY DEF TimeInv, InTime
<1>2. drv.left = drv.count
  BY <1>1 DEF WriteInTime
<1>3. CASE drv.cmd = <<IF drv.count = 1 THEN "CMD24" ELSE "CMD25">>
  BY <1>2, <1>3, TransferHears
<1>4. CASE drv.cmd \in {App("ACMD23"), <<"ACMD23">>}
  <2> DEFINE hcs == drv.ty = "SD2"
  <2>1. card.xfer \in {None, "writes"}
    BY DEF DataInv, Identifying, Transferring
  <2>2. drv.cmd[1] \in {"CMD55", "ACMD23"}
    BY <1>4 DEF App
  <2> HIDE DEF hcs
  <2>3. x[2] = card
    <3>1. CASE x \in Answers(card, drv.cmd[1], Address(drv), hcs)
      <4>1. x[2] = card \/ x \in Obeys(card, drv.cmd[1], Address(drv), hcs)
        BY <2>1, <2>2, <3>1, OtherAnswer
      <4>2. drv.cmd[1] \in {"CMD8", "CMD55", "CMD16", "CMD58", "ACMD23"}
        BY <2>2
      <4>3. x \in Obeys(card, drv.cmd[1], Address(drv), hcs) => x[2] = card
        BY <4>2, ObeysOther
      <4>4. QED
        BY <4>1, <4>3
    <3>2. QED
      BY <3>1 DEF Heard, hcs
  <2>4. SameCall(drv, AfterCommand(drv, x[1])) /\ AfterCommand(drv, x[1]).pc = "select"
    BY <1>1, <1>4, AnnounceAnswered
  <2>5. QED
    BY <1>1, <1>2, <2>3, <2>4, CallGoesOn
<1>5. QED
  BY <1>1, <1>3, <1>4 DEF WriteInTime

\* Whatever the card answers, or after how long nothing.
LEMMA Hears ==
  ASSUME TimeInv, DataInv, drv.op # "sync", drv.pc \in {"select", "answer"}, NEW x, Heard(x),
         Becomes(AfterCommand(drv, x[1]), x[2])
  PROVE  DataInv'
PROOF
<1>1. \/ drv.op = "init" /\ drv.pc = "select"
      \/ drv.op = "read"
      \/ drv.op = "write" /\ drv.pc = "select"
  BY DEF TimeInv, InTime, InitInTime, SyncInTime, ReadInTime, WriteInTime
<1>2. QED
  BY <1>1, InitHears, ReadHears, WriteHears

-----------------------------------------------------------------------------
(* The SD card: the steps *)

\* One lemma for each action: it keeps the data invariant.
LEMMA CommandKeeps == ASSUME TimeInv, DataInv, Command PROVE DataInv'
PROOF
<1>1. drv.op # "sync" /\ drv.pc \in {"select", "answer"} /\ card.pend = {}
  BY DEF Command, Busy, DataInv, Transferring
<1>2. PICK x \in Answers(card, drv.cmd[1], Address(drv), drv.ty = "SD2") :
        Becomes(AfterCommand(drv, x[1]), x[2])
  BY DEF Command
<1>3. Heard(x)
  BY <1>1, <1>2 DEF Heard
<1>4. QED
  BY <1>1, <1>2, <1>3, Hears

\* Token keeps it.
LEMMA TokenKeeps == ASSUME TimeInv, DataInv, Token PROVE DataInv'
PROOF
<1>1. CASE /\ card.xfer \in {"read", "reads"} /\ card.at \in Sectors
           /\ Becomes(AfterBlock(drv, TRUE, card.cells[card.at]), [card EXCEPT !.at = @ + 1])
  BY <1>1, BlockRead DEF Token
<1>2. CASE Becomes(AfterBlock(drv, FALSE, None), card)
  BY <1>2, BlockRead DEF Token
<1>3. QED
  BY <1>1, <1>2 DEF Token

\* Block keeps it.
LEMMA BlockKeeps == ASSUME TimeInv, DataInv, Block PROVE DataInv'
PROOF
<1>1. drv.pc = "xmit" /\ card.pend = {}
  BY DEF Block, Busy
<1>2. CASE /\ card.xfer \in {"write", "writes"}
           /\ Becomes(AfterData(drv, TRUE),
                      [card EXCEPT !.pend = {<<card.at, drv.data[drv.count - drv.left + 1]>>}, !.at = @ + 1])
  BY <1>1, <1>2, BlockWritten
<1>3. CASE Becomes(AfterData(drv, FALSE), card)
  BY <1>1, <1>3, BlockWritten
<1>4. QED
  BY <1>2, <1>3 DEF Block

\* TimesOut keeps it.
LEMMA TimesOutKeeps == ASSUME TimeInv, DataInv, TimesOut PROVE DataInv'
PROOF
<1>1. drv \in Driver /\ TimerOver(drv) /\ Becomes(AfterTimeout(drv), card)
  BY DEF TimesOut, TimeInv, InTime
<1>2. drv.pc \in {"power", "select", "token", "xmit", "stop"}
  BY <1>1 DEF TimerOver
<1>3. Untouched(card)
  BY CardIsUntouched
<1>4. CASE drv.pc = "power"
  <2> DEFINE n == send_cmd(drv, <<"CMD0">>)
  <2>1. drv.op = "init" /\ ~drv.Stat
    BY <1>4 DEF TimeInv, InTime, InitInTime, SyncInTime, ReadInTime, WriteInTime, DataInv, Identifying
  <2>2. Becomes(n, card) /\ <<"CMD0">> \in Commands
    BY <1>1, <1>4 DEF AfterTimeout, Commands
  <2>3. SameCall(drv, n) /\ n.pc = "select" /\ n.cmd = <<"CMD0">>
    BY <1>1, <2>2, SendKeeps
  <2> HIDE DEF n
  <2>4. known' = known /\ durable' = durable /\ drv' = n
    BY <2>2, <2>3, KnownKept DEF Becomes
  <2>5. CardTypeInv' /\ CellsKnown'
    BY <1>3, <2>2, <2>4, StoreKept
  <2>6. DataKnown' /\ drv'.op = "init" /\ ~drv'.Stat /\ drv'.pc = "select" /\ drv'.cmd = <<"CMD0">>
    BY <2>1, <2>3, <2>4 DEF DataKnown, SameCall
  <2>7. Identified(drv', card') /\ Identifying(drv', card') /\ Transferring(drv', card')
    BY <2>6 DEF Identified, Identifying, Transferring
  <2>8. QED
    BY <2>5, <2>6, <2>7 DEF DataInv
<1>5. ASSUME drv.pc = "stop" \/ (drv.pc = "select" /\ drv.op = "sync") PROVE DataInv'
  <2>2. AfterTimeout(drv) = Returns(drv, FALSE)
    BY <1>5 DEF AfterTimeout
  <2>3. card.xfer \in {None, "writes"}
    BY <1>5 DEF DataInv, Identifying, Transferring
  <2>4. QED
    BY <1>1, <1>3, <2>2, <2>3, CallFails, EndedIs
<1>6. CASE drv.pc = "select"
  <2>1. CASE drv.op = "sync"
    BY <1>5, <1>6, <2>1
  <2>2. CASE drv.op # "sync"
    <3> DEFINE x == <<"more", card>>
    <3>1. Becomes(AfterCommand(drv, x[1]), x[2]) /\ x[1] = "more" /\ x[2] = card
      BY <1>1, <1>6, <2>2 DEF AfterTimeout
    <3>2. Heard(x)
      BY <1>6, <3>1 DEF Heard
    <3> HIDE DEF x
    <3>3. QED
      BY <1>6, <2>2, <3>1, <3>2, Hears
  <2>3. QED
    BY <2>1, <2>2
<1>7. CASE drv.pc = "token"
  BY <1>1, <1>7, BlockRead DEF AfterTimeout
<1>8. CASE drv.pc = "xmit"
  BY <1>1, <1>8, BlockWritten DEF AfterTimeout
<1>9. CASE drv.pc = "stop"
  BY <1>5, <1>9
<1>10. QED
  BY <1>2, <1>4, <1>6, <1>7, <1>8, <1>9

\* A call that begins.
LEMMA CallBegins ==
  ASSUME TimeInv, DataInv, drv.pc = "idle", UNCHANGED <<card, known, durable>>,
         drv'.op \in {"init", "sync"}, drv'.CardType = drv.CardType,
         drv'.op = "init" => drv'.pc = "power" /\ ~drv'.Stat,
         drv'.op = "sync" => drv'.pc = "select" /\ drv'.Stat /\ drv.Stat
  PROVE  DataInv'
PROOF
<1>1. CardTypeInv' /\ CellsKnown'
  BY DEF DataInv, CardTypeInv, CellsKnown
<1>2. DataKnown'
  BY DEF DataKnown
<1>3. Identified(drv', card')
  BY DEF DataInv, Identified
<1>4. Identifying(drv', card') /\ Transferring(drv', card')
  BY DEF DataInv, Identifying, Transferring
<1>5. QED
  BY <1>1, <1>2, <1>3, <1>4 DEF DataInv

\* The driver has its type.
LEMMA DriverIs == ASSUME TimeInv PROVE drv \in Driver
PROOF
  BY DEF TimeInv, InTime

\* disk_initialize keeps it.
LEMMA InitializeKeeps == ASSUME TimeInv, DataInv, disk_initialize PROVE DataInv'
PROOF
<1> DEFINE c == Call("init", 0, 0, <<>>)
<1>1. c.op = "init" /\ c \in Driver /\ c.CardType = drv.CardType
  <2>1. drv \in Driver /\ <<>> \in Seq(Data)
    BY DriverIs
  <2>2. QED
    BY <2>1 DEF Call, Driver
<1>2. drv.pc = "idle" /\ UNCHANGED <<card, known, durable>>
      /\ drv' = [c EXCEPT !.Stat = FALSE, !.Timer1 = POWER_WAIT, !.pc = "power"]
  BY DEF disk_initialize, Start
<1> HIDE DEF c
<1>3. drv'.op = "init" /\ drv'.CardType = drv.CardType /\ drv'.pc = "power" /\ ~drv'.Stat
  BY <1>1, <1>2 DEF Driver
<1>4. QED
  BY <1>2, <1>3, CallBegins

\* disk_ioctl(CTRL_SYNC) keeps it.
LEMMA SyncKeeps == ASSUME TimeInv, DataInv, CTRL_SYNC PROVE DataInv'
PROOF
<1> DEFINE c == Call("sync", 0, 0, <<>>)
<1>1. c.op = "sync" /\ c \in Driver /\ c.CardType = drv.CardType /\ c.Stat = drv.Stat
  <2>1. drv \in Driver /\ <<>> \in Seq(Data)
    BY DriverIs
  <2>2. QED
    BY <2>1 DEF Call, Driver
<1>2. drv.pc = "idle" /\ drv.Stat /\ UNCHANGED <<card, known, durable>>
      /\ drv' = [c EXCEPT !.Timer2 = READY_WAIT, !.pc = "select"]
  BY DEF CTRL_SYNC, Start, Wait2
<1> HIDE DEF c
<1>3. drv'.op = "sync" /\ drv'.CardType = drv.CardType /\ drv'.pc = "select" /\ drv'.Stat = drv.Stat
  BY <1>1, <1>2 DEF Driver
<1>4. QED
  BY <1>2, <1>3, CallBegins

\* The call a transfer starts with.
LEMMA TransferStarts ==
  ASSUME TimeInv, NEW op \in {"read", "write"}, NEW s \in Nat, NEW n \in Nat \ {0}, NEW data \in Seq(Data),
         NEW cmds \in Commands, Start(send_cmd(Call(op, s, n, data), cmds))
  PROVE  /\ drv.pc = "idle" /\ card' = card
         /\ drv'.op = op /\ drv'.sector = s /\ drv'.count = n /\ drv'.left = n /\ drv'.data = data
         /\ drv'.Stat = drv.Stat /\ drv'.CardType = drv.CardType /\ drv'.pc = "select"
PROOF
<1>1. drv \in Driver
  BY DriverIs
<1> DEFINE c == Call(op, s, n, data)
<1>2. /\ c \in Driver /\ c.op = op /\ c.sector = s /\ c.count = n /\ c.left = n /\ c.data = data
      /\ c.Stat = drv.Stat /\ c.CardType = drv.CardType
  BY <1>1 DEF Call, Driver
<1>3. drv.pc = "idle" /\ drv' = send_cmd(c, cmds) /\ card' = card
  BY DEF Start
<1> HIDE DEF c
<1>4. QED
  BY <1>2, <1>3, SendKeeps DEF SameCall

\* A transfer that begins.
LEMMA TransferBegins ==
  ASSUME TimeInv, DataInv, NEW op \in {"read", "write"}, NEW s \in Nat, NEW n \in Nat \ {0},
         NEW data \in Seq(Data), NEW cmds \in Commands, drv.Stat, s..(s + n - 1) \subseteq Used,
         Start(send_cmd(Call(op, s, n, data), cmds)),
         op = "read" => data = <<>>, op = "write" => Len(data) = n,
         known' \in [Used -> SUBSET Data], durable' \in [Used -> SUBSET Data],
         \A t \in Used : known[t] \subseteq known'[t] /\ durable[t] \subseteq durable'[t],
         op = "write" => \A i \in 1..n : data[i] \in known'[s + i - 1] /\ data[i] \in durable'[s + i - 1]
  PROVE  DataInv'
PROOF
<1>1. drv.pc = "idle"
  BY DEF Start
<1>2. /\ card' = card /\ drv'.op = op /\ drv'.sector = s /\ drv'.count = n /\ drv'.left = n
      /\ drv'.data = data /\ drv'.Stat /\ drv'.CardType = drv.CardType /\ drv'.pc = "select"
  BY TransferStarts
<1>3. Span(drv') = s..(s + n - 1) /\ Sent(drv') = 0
  BY <1>2 DEF Span, Sent
<1>4. CardTypeInv'
  BY <1>2 DEF DataInv, CardTypeInv
<1>5. CellsKnown'
  <2>1. \A p \in card.pend : p[1] \in Used
    BY DEF DataInv, CardTypeInv, CardStates
  <2>2. QED
    BY <1>2, <2>1 DEF DataInv, CellsKnown
<1>6. DataKnown'
  <2>2. CASE op = "read"
    <3>1. Len(data) = 0
      BY <2>2
    <3>2. \A i \in 1..Len(data) : FALSE
      BY <3>1
    <3>3. QED
      BY <1>2, <1>3, <2>2, <3>1, <3>2 DEF DataKnown
  <2>3. CASE op = "write"
    BY <1>2, <1>3, <2>3 DEF DataKnown
  <2>4. QED
    BY <2>2, <2>3
<1>7. Identified(drv', card')
  BY <1>2, StillIdentified DEF DataInv
<1>8. Identifying(drv', card')
  BY <1>2 DEF Identifying
<1>9. Transferring(drv', card')
  BY <1>1, <1>2, <1>3 DEF DataInv, Transferring
<1>10. QED
  BY <1>4, <1>5, <1>6, <1>7, <1>8, <1>9 DEF DataInv

\* disk_read keeps it.
LEMMA ReadKeeps ==
  ASSUME TimeInv, DataInv, NEW s \in Used, NEW n \in Nat \ {0}, s..(s + n - 1) \subseteq Used, disk_read(s, n)
  PROVE  DataInv'
PROOF
<1> DEFINE e == <<>>
<1>1. e \in Seq(Data) /\ e = <<>> /\ s \in Nat
  BY UsedIsFinite
<1>2. PICK cmds \in {<<"CMD17">>, <<"CMD18">>} : Start(send_cmd(Call("read", s, n, e), cmds))
  BY DEF disk_read
<1> HIDE DEF e
<1>3. cmds \in Commands
  BY DEF Commands
<1>4. known' = known /\ durable' = durable /\ drv.Stat
  BY DEF disk_read
<1>5. known \in [Used -> SUBSET Data] /\ durable \in [Used -> SUBSET Data]
  BY DEF DataInv, CardTypeInv
<1>6. QED
  BY <1>1, <1>2, <1>3, <1>4, <1>5, TransferBegins

\* disk_write keeps it.
LEMMA WriteKeeps ==
  ASSUME TimeInv, DataInv, NEW s \in Used, NEW n \in Nat \ {0}, s..(s + n - 1) \subseteq Used,
         NEW data \in [1..n -> Data], disk_write(s, data)
  PROVE  DataInv'
PROOF
<1> DEFINE With(f) ==
      [t \in Used |-> IF t \in s..(s + n - 1) THEN f[t] \cup {data[t - s + 1]} ELSE f[t]]
<1>1. s \in Nat /\ data \in Seq(Data) /\ Len(data) = n /\ drv.Stat
  BY UsedIsFinite DEF disk_write
<1>2. known' = With(known) /\ durable' = With(durable)
  BY <1>1 DEF disk_write
<1>3. PICK cmds \in {<<"CMD24">>, App("ACMD23"), <<"CMD25">>} : Start(send_cmd(Call("write", s, n, data), cmds))
  BY <1>1 DEF disk_write
<1>4. cmds \in Commands
  BY DEF Commands
<1>5. ASSUME NEW f \in [Used -> SUBSET Data]
      PROVE  /\ With(f) \in [Used -> SUBSET Data]
             /\ \A t \in Used : f[t] \subseteq With(f)[t]
             /\ \A i \in 1..n : data[i] \in With(f)[s + i - 1]
  <2>1. \A t \in Used : t \in s..(s + n - 1) => data[t - s + 1] \in Data
    BY <1>1
  <2>2. ASSUME NEW i \in 1..n PROVE data[i] \in With(f)[s + i - 1]
    <3>1. s + i - 1 \in s..(s + n - 1) /\ (s + i - 1) - s + 1 = i
      BY <1>1
    <3>2. s + i - 1 \in Used
      BY <3>1
    <3>3. QED
      BY <3>1, <3>2
  <2>3. QED
    BY <2>1, <2>2
<1> HIDE DEF With
<1>6. known \in [Used -> SUBSET Data] /\ durable \in [Used -> SUBSET Data]
  BY DEF DataInv, CardTypeInv
<1>7. QED
  BY <1>1, <1>2, <1>3, <1>4, <1>5, <1>6, TransferBegins

\* disk_timerproc keeps it.
LEMMA TimerKeeps == ASSUME TimeInv, DataInv, disk_timerproc PROVE DataInv'
PROOF
<1>1. UNCHANGED <<card, known, durable>> /\ SameCall(drv, drv') /\ drv'.pc = drv.pc /\ drv'.cmd = drv.cmd
      /\ drv'.ty = drv.ty
  BY DriverIs DEF disk_timerproc, SameCall, Driver
<1>2. Sent(drv') = Sent(drv) /\ Span(drv') = Span(drv)
  BY <1>1 DEF Sent, Span, SameCall
<1>3. CardTypeInv' /\ CellsKnown'
  BY <1>1 DEF DataInv, CardTypeInv, CellsKnown
<1>4. DataKnown'
  BY <1>1, <1>2 DEF DataInv, DataKnown, SameCall
<1>5. Identified(drv', card') /\ Identifying(drv', card')
  BY <1>1 DEF DataInv, Identified, Identifying, SameCall
<1>6. Transferring(drv', card')
  BY <1>1, <1>2 DEF DataInv, Transferring, SameCall
<1>7. QED
  BY <1>3, <1>4, <1>5, <1>6 DEF DataInv

\* The end of a programming keeps it.
LEMMA ProgrammedKeeps == ASSUME TimeInv, DataInv, Programmed PROVE DataInv'
PROOF
<1>1. PICK p \in card.pend : card' = [card EXCEPT !.cells[p[1]] = p[2], !.pend = {}]
  BY DEF Programmed
<1>2. UNCHANGED <<drv, known, durable>>
  BY DEF Programmed
<1>3. card \in CardStates /\ p[1] \in Used /\ p[2] \in Data /\ Used \subseteq Sectors
      /\ card.pend = {p}
  BY CardAssumption DEF DataInv, CardTypeInv, CardStates
<1>4. /\ card' \in CardStates /\ card'.kind = card.kind /\ card'.mode = card.mode /\ card'.xfer = card.xfer
      /\ card'.at = card.at /\ card'.pend = {} /\ card'.cells = [card.cells EXCEPT ![p[1]] = p[2]]
  BY <1>1, <1>3 DEF CardStates
<1>5. \A s \in Used : card'.cells[s] = IF s = p[1] THEN p[2] ELSE card.cells[s]
  BY <1>3, <1>4 DEF CardStates
<1>6. CardTypeInv'
  BY <1>2, <1>4 DEF DataInv, CardTypeInv
<1>7. CellsKnown'
  BY <1>2, <1>3, <1>4, <1>5 DEF DataInv, CellsKnown
<1>8. DataKnown'
  BY <1>2 DEF DataInv, DataKnown
<1>9. Identified(drv', card') /\ Identifying(drv', card')
  BY <1>2, <1>4 DEF DataInv, Identified, Identifying
<1>10. ASSUME NEW s \in Used, NEW v, WillHold(card, s, v) PROVE WillHold(card', s, v)
  BY <1>3, <1>4, <1>5, <1>10 DEF WillHold
<1>11. drv.pc \in {"xmit", "stop"} => \A i \in 1..Sent(drv) : drv.sector + i - 1 \in Used
  <2>1. HAVE drv.pc \in {"xmit", "stop"}
  <2>2. drv.op = "write"
    BY <2>1 DEF TimeInv, InTime, InitInTime, SyncInTime, ReadInTime, WriteInTime
  <2>3. /\ drv.sector \in Nat /\ drv.count \in Nat /\ drv.left \in Nat
        /\ \A i \in 0..(drv.count - 1) : drv.sector + i \in Used
    BY <2>1, <2>2, InUse
  <2>4. ASSUME NEW i \in 1..Sent(drv) PROVE drv.sector + i - 1 \in Used
    <3>1. i - 1 \in 0..(drv.count - 1) /\ drv.sector + (i - 1) = drv.sector + i - 1
      BY <2>3 DEF Sent
    <3>2. QED
      BY <2>3, <3>1
  <2>5. QED
    BY <2>4
<1>12. (drv.pc \in {"xmit", "stop"} /\ card'.mode = "ready") =>
         \A i \in 1..Sent(drv) : WillHold(card', drv.sector + i - 1, drv.data[i])
  <2>1. HAVE drv.pc \in {"xmit", "stop"} /\ card'.mode = "ready"
  <2>2. \A i \in 1..Sent(drv) : WillHold(card, drv.sector + i - 1, drv.data[i])
    BY <1>4, <2>1 DEF DataInv, Transferring
  <2>3. QED
    BY <1>10, <1>11, <2>1, <2>2
<1>13. Transferring(drv', card')
  <2>1. drv.pc \notin {"token", "answer"}
    BY <1>3 DEF DataInv, Transferring
  <2>2. QED
    BY <1>2, <1>4, <1>12, <2>1 DEF DataInv, Transferring
<1>14. QED
  BY <1>6, <1>7, <1>8, <1>9, <1>13 DEF DataInv

\* A loss of power of the card keeps it.
LEMMA PowerKeeps == ASSUME TimeInv, DataInv, CardLosesPower PROVE DataInv'
PROOF
<1>1. /\ UNCHANGED <<drv, durable>> /\ known' = [s \in Used |-> known[s] \cup durable[s]]
      /\ card' = [card EXCEPT !.mode = "off", !.xfer = None, !.pend = {}]
  BY DEF CardLosesPower
<1>2. card \in CardStates /\ known \in [Used -> SUBSET Data] /\ durable \in [Used -> SUBSET Data]
  BY DEF DataInv, CardTypeInv
<1>3. /\ card' \in CardStates /\ card'.kind = card.kind /\ card'.mode = "off" /\ card'.xfer = None
      /\ card'.pend = {} /\ card'.cells = card.cells
  BY <1>1, <1>2 DEF CardStates, Xfers
<1>4. \A s \in Used : known[s] \subseteq known'[s]
  BY <1>1
<1>5. CardTypeInv'
  BY <1>1, <1>2, <1>3 DEF CardTypeInv
<1>6. CellsKnown'
  BY <1>1, <1>3 DEF DataInv, CellsKnown
<1>7. DataKnown'
  <2>1. (drv.op = "write" /\ drv.pc # "idle") =>
          \A i \in 1..Len(drv.data) : drv.sector + i - 1 \in Used
    <3>1. HAVE drv.op = "write" /\ drv.pc # "idle"
    <3>2. /\ drv.sector \in Nat /\ drv.count \in Nat
          /\ \A i \in 0..(drv.count - 1) : drv.sector + i \in Used
      BY <3>1, InUse
    <3>3. Len(drv.data) = drv.count
      BY <3>1 DEF DataInv, DataKnown
    <3>4. ASSUME NEW i \in 1..Len(drv.data) PROVE drv.sector + i - 1 \in Used
      <4>1. i - 1 \in 0..(drv.count - 1) /\ drv.sector + (i - 1) = drv.sector + i - 1
        BY <3>2, <3>3
      <4>2. QED
        BY <3>2, <4>1
    <3>5. QED
      BY <3>4
  <2>2. QED
    BY <1>1, <1>4, <2>1 DEF DataInv, DataKnown
<1>8. Identified(drv', card') /\ Identifying(drv', card')
  BY <1>1, <1>3 DEF DataInv, Identified, Identifying
<1>9. Transferring(drv', card')
  BY <1>1, <1>3 DEF Transferring
<1>10. QED
  BY <1>5, <1>6, <1>7, <1>8, <1>9 DEF DataInv

\* A new card, and the states the steps begin in.
LEMMA NewCardIs ==
  ASSUME NEW k \in Kinds, NEW f \in [Used -> Data]
  PROVE  LET c == NewCard(k, f) IN
         /\ c \in CardStates /\ c.mode = "off" /\ c.xfer = None /\ c.pend = {}
         /\ \A s \in Used : c.cells[s] = f[s]
PROOF
<1>1. Used \subseteq Sectors /\ (CHOOSE d \in Data : TRUE) \in Data
  BY CardAssumption
<1>2. QED
  BY <1>1 DEF NewCard, CardStates, Xfers

\* Another card establishes it.
LEMMA NewCardKeeps ==
  ASSUME NEW k \in Kinds, NEW f \in [Used -> Data], card' = NewCard(k, f),
         known' = [s \in Used |-> {f[s]}], durable' = known', drv'.pc = "idle", drv'.op = "none"
  PROVE  DataInv'
PROOF
<1>1. /\ card' \in CardStates /\ card'.mode = "off" /\ card'.xfer = None /\ card'.pend = {}
      /\ \A s \in Used : card'.cells[s] = f[s]
  BY NewCardIs
<1>2. CardTypeInv' /\ CellsKnown'
  BY <1>1 DEF CardTypeInv, CellsKnown
<1>3. DataKnown'
  BY DEF DataKnown
<1>4. Identified(drv', card') /\ Identifying(drv', card') /\ Transferring(drv', card')
  BY <1>1 DEF Identified, Identifying, Transferring
<1>5. QED
  BY <1>2, <1>3, <1>4 DEF DataInv

\* A reset of the board keeps it.
LEMMA ResetKeeps == ASSUME DataInv, Reset PROVE DataInv'
PROOF
<1>1. UNCHANGED <<card, known, durable>> /\ ~drv'.Stat /\ drv'.pc = "idle" /\ drv'.op = "none"
  BY DEF Reset, Stopped
<1>2. CardTypeInv' /\ CellsKnown'
  BY <1>1 DEF DataInv, CardTypeInv, CellsKnown
<1>3. DataKnown'
  BY <1>1 DEF DataKnown
<1>4. Identified(drv', card') /\ Identifying(drv', card') /\ Transferring(drv', card')
  BY <1>1 DEF Identified, Identifying, Transferring
<1>5. QED
  BY <1>2, <1>3, <1>4 DEF DataInv

-----------------------------------------------------------------------------
(* The SD card: the theorems *)

\* The state of the driver after a reset.
LEMMA StoppedIs == Stopped \in Driver /\ Stopped.left = 0 /\ Stopped.count = 0 /\ Stopped.pc = "idle"
PROOF
  BY DEF Stopped, Driver, Types, Probed, Commands

\* The invariant holds at first, and every step keeps it.
LEMMA CardInvInit == CardInit => CardInv
PROOF
<1> SUFFICES ASSUME CardInit PROVE CardInv
  OBVIOUS
<1>1. PICK k \in Kinds, f \in [Used -> Data] :
        card = NewCard(k, f) /\ known = [s \in Used |-> {f[s]}] /\ durable = known
  BY DEF CardInit
<1>2. /\ card \in CardStates /\ card.mode = "off" /\ card.xfer = None /\ card.pend = {}
      /\ \A s \in Used : card.cells[s] = f[s]
  BY <1>1, NewCardIs
<1>3. drv.pc = "idle" /\ drv.op = "none" /\ drv = Stopped /\ elapsed = 0
  BY DEF CardInit, Stopped
<1>4. TimeInv
  BY <1>3, StoppedIs DEF TimeInv, InTime
<1>5. CardTypeInv /\ CellsKnown
  BY <1>1, <1>2 DEF CardTypeInv, CellsKnown
<1>6. DataKnown
  BY <1>3 DEF DataKnown
<1>7. Identified(drv, card) /\ Identifying(drv, card) /\ Transferring(drv, card)
  BY <1>2, <1>3 DEF Identified, Identifying, Transferring
<1>8. QED
  BY <1>4, <1>5, <1>6, <1>7 DEF CardInv, DataInv

\* Every step keeps it.
LEMMA CardInvNext == CardInv /\ [CardNext]_cardVars => CardInv'
PROOF
<1> SUFFICES ASSUME TimeInv, DataInv, [CardNext]_cardVars PROVE TimeInv' /\ DataInv'
  BY DEF CardInv
<1>1. CASE disk_initialize
  BY <1>1, InitializeInTime, InitializeKeeps
<1>2. CASE CTRL_SYNC
  BY <1>2, SyncStartsInTime, SyncKeeps
<1>3. ASSUME NEW s \in Used, NEW n \in 1..Cardinality(Used), s..(s + n - 1) \subseteq Used,
             disk_read(s, n) \/ \E data \in [1..n -> Data] : disk_write(s, data)
      PROVE  TimeInv' /\ DataInv'
  <2>1. n \in Nat \ {0}
    BY UsedIsFinite
  <2>2. CASE disk_read(s, n)
    BY <1>3, <2>1, <2>2, ReadStartsInTime, ReadKeeps
  <2>3. ASSUME NEW data \in [1..n -> Data], disk_write(s, data) PROVE TimeInv' /\ DataInv'
    BY <1>3, <2>1, <2>3, WriteStartsInTime, WriteKeeps
  <2>4. QED
    BY <1>3, <2>2, <2>3
<1>4. CASE Synced
  <2>1. Becomes(Returns(drv, TRUE), card) /\ drv \in Driver
    BY <1>4, DriverIs DEF Synced
  <2>2. TimeInv'
    BY <2>1, ReturnsInTime, BecomesInTime
  <2>3. QED
    BY <1>4, <2>2, SyncEnds
<1>5. CASE Command
  <2>1. drv.op # "sync" /\ drv.pc \in {"select", "answer"}
    BY <1>5 DEF Command
  <2>2. PICK x \in Answers(card, drv.cmd[1], Address(drv), drv.ty = "SD2") :
          Becomes(AfterCommand(drv, x[1]), x[2])
    BY <1>5 DEF Command
  <2>3. InTime(AfterCommand(drv, x[1]), Lasts(AfterCommand(drv, x[1]), elapsed))
    BY <2>1, AnswerInTime
  <2>4. QED
    BY <1>5, <2>2, <2>3, BecomesInTime, CommandKeeps
<1>6. CASE Token
  <2>1. TimeInv'
    <3>1. card.at \in Sectors => card.cells[card.at] \in Data
      BY DEF DataInv, CardTypeInv, CardStates
    <3>2. CASE /\ card.xfer \in {"read", "reads"} /\ card.at \in Sectors
               /\ Becomes(AfterBlock(drv, TRUE, card.cells[card.at]), [card EXCEPT !.at = @ + 1])
      BY <1>6, <3>1, <3>2, BlockReadInTime, BecomesInTime DEF Token, TimeInv
    <3>3. CASE Becomes(AfterBlock(drv, FALSE, None), card)
      BY <1>6, <3>3, BlockReadInTime, BecomesInTime DEF Token, TimeInv
    <3>4. QED
      BY <1>6, <3>2, <3>3 DEF Token
  <2>2. QED
    BY <1>6, <2>1, TokenKeeps
<1>7. CASE Block
  <2>1. PICK ok \in BOOLEAN : (\E k : Becomes(AfterData(drv, ok), k)) /\ drv.pc = "xmit"
    BY <1>7 DEF Block
  <2>2. InTime(AfterData(drv, ok), Lasts(AfterData(drv, ok), elapsed))
    BY <2>1, BlockSentInTime DEF TimeInv
  <2>3. QED
    BY <1>7, <2>1, <2>2, BecomesInTime, BlockKeeps
<1>8. CASE StopToken
  <2> DEFINE ok == drv.left = 0
  <2>1. Becomes(Returns(drv, ok), [card EXCEPT !.xfer = None]) /\ ok \in BOOLEAN /\ drv \in Driver
    BY <1>8, DriverIs DEF StopToken
  <2> HIDE DEF ok
  <2>2. InTime(Returns(drv, ok), Lasts(Returns(drv, ok), elapsed))
    BY <2>1, ReturnsInTime
  <2>3. QED
    BY <1>8, <2>1, <2>2, BecomesInTime, WriteStops
<1>9. CASE TimesOut
  <2>1. Becomes(AfterTimeout(drv), card) /\ TimerOver(drv)
    BY <1>9 DEF TimesOut
  <2>2. QED
    BY <1>9, <2>1, TimeoutInTime, BecomesInTime, TimesOutKeeps
<1>10. CASE disk_timerproc
  <2>1. TimeInv'
    BY <1>10, TimerInTime DEF disk_timerproc, TimeInv
  <2>2. QED
    BY <1>10, <2>1, TimerKeeps
<1>11. CASE Programmed
  BY <1>11, ProgrammedKeeps DEF Programmed, TimeInv
<1>12. CASE CardLosesPower
  BY <1>12, PowerKeeps DEF CardLosesPower, TimeInv
<1>13. CASE CardExchanged
  <2>1. drv' = drv /\ elapsed' = elapsed /\ drv.pc = "idle" /\ drv.op = "none"
    BY <1>13 DEF CardExchanged
  <2>2. PICK k \in Kinds, f \in [Used -> Data] :
          card' = NewCard(k, f) /\ known' = [s \in Used |-> {f[s]}] /\ durable' = known'
    BY <1>13 DEF CardExchanged
  <2>3. QED
    BY <2>1, <2>2, NewCardKeeps DEF TimeInv
<1>14. CASE Reset
  <2>1. TimeInv'
    BY <1>14, StoppedIs DEF Reset, TimeInv, InTime
  <2>2. QED
    BY <1>14, <2>1, ResetKeeps
<1>15. CASE UNCHANGED cardVars
  BY <1>15 DEF cardVars, TimeInv, DataInv, CardTypeInv, CellsKnown, DataKnown
<1>16. QED
  BY <1>1, <1>2, <1>3, <1>4, <1>5, <1>6, <1>7, <1>8, <1>9, <1>10, <1>11, <1>12, <1>13, <1>14, <1>15
     DEF CardNext

\* So it always holds.
LEMMA CardInvHolds == CardSpec => []CardInv
PROOF
  BY CardInvInit, CardInvNext, PTL DEF CardSpec

\* Every call of the disk layer ends within the sum of its waits, whatever the card does.
THEOREM CallsEnd == CardSpec => []CallsEndInTime
PROOF
<1>1. CardInv => CallsEndInTime
  BY TimeInvBounds DEF CardInv
<1>2. QED
  BY <1>1, CardInvHolds, PTL

\* What disk_read delivers is what the last successful disk_write of each sector wrote.
THEOREM ReadsAreTrue == CardSpec => []ReadsWhatWasWritten
PROOF
<1>1. CardInv => ReadsWhatWasWritten
  BY DEF CardInv, DataInv, DataKnown, ReadsWhatWasWritten
<1>2. QED
  BY <1>1, CardInvHolds, PTL
==============================================================================
