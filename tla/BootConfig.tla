----------------------------- MODULE BootConfig -----------------------------
(***************************************************************************)
(* The network configuration kept in the emulated EEPROM: test_eeprom of   *)
(* main.c loads it at power-up or writes the factory setting, and          *)
(* config.cgi of the web server (http_post_cgi_handler, saveip of          *)
(* httpUtil.c) writes a new one and restarts the processor.                *)
(*                                                                         *)
(* Fifteen variables make one configuration: the markers 0 to 2, then the  *)
(* four bytes of the IP address (4 to 7), of the gateway (8 to 11) and of  *)
(* the subnet mask (12 to 15).  The EEPROM is the abstract store EEStore,  *)
(* which EEPROM implements as long as the page has room.  None of these    *)
(* variables is in VirtAddVarTab: the page transfer of a write that finds  *)
(* the page full moves none of the others.                                 *)
(***************************************************************************)
EXTENDS Naturals, Sequences, FiniteSets

CONSTANTS
  Addresses,       \* the addresses a request can give, as tuples of four bytes
  NotFound, Junk,  \* no such variable; an uninitialised halfword
  StackMayMatch,   \* may uninitialised markers hold the right values?
  PageRoom,        \* slots of a page (255 in the build)
  MaxCrashes       \* bound on power losses

ASSUME ConfigAssumption ==
  /\ Addresses \subseteq [1..4 -> 0..255] /\ NotFound \notin 0..255
  /\ StackMayMatch \in BOOLEAN
  /\ PageRoom \in Nat \ {0} /\ MaxCrashes \in Nat

Fields == 1..3   \* 1 IP address, 2 gateway, 3 subnet mask
Bytes == 1..4
Markers == 0..2
MarkerOf == [m \in Markers |-> CASE m = 0 -> 123 [] m = 1 -> 456 [] m = 2 -> 789]
VarOf(f, k) == 4 * f + (k - 1)
Vars == Markers \cup {VarOf(f, k) : f \in Fields, k \in Bytes}
NSaves == Cardinality(Vars)

Zero == <<0, 0, 0, 0>>
Factory == <<<<192, 168, 1, 246>>, <<192, 168, 1, 1>>, <<255, 255, 255, 0>>>>
\* What gWIZNETINFO is initialised with.
Default == <<<<192, 168, 1, 246>>, <<192, 168, 1, 1>>, <<255, 255, 255, 1>>>>

VARIABLES
  store, req, \* the EEPROM: see EEStore
  room,       \* free slots of the page in service
  pc,         \* "off", "run", or the configuration being written
  next,       \* number of the variable to write next
  net,        \* gWIZNETINFO: the addresses in use
  packet,     \* network_info_common of s2e_packet
  crashes,    \* power losses so far
  loaded,     \* ghost: the last power-up took the markers to be right
  saved,      \* ghost: the configuration last written whole; <<>> for none
  split       \* ghost: a page transfer came between its writes

configVars == <<store, req, room, split, pc, next, net, packet, crashes, loaded, saved>>

EE == INSTANCE EEStore WITH Addrs <- Vars, ValuesOf <- [v \in Vars |-> {}], sound <- TRUE

-----------------------------------------------------------------------------
(* Power-up: test_eeprom *)

\* The locals a, b, c and d are shared by the three addresses and initialised
\* by none: a variable that is not found leaves in its place the byte of the
\* address before, or what the stack held.
LoadedByte(k) ==
  LET byte[f \in Fields] ==
        IF store[VarOf(f, k)] # NotFound THEN store[VarOf(f, k)]
        ELSE IF f = 1 THEN Junk ELSE byte[f - 1]
  IN  byte

LoadConfig ==
  /\ pc = "off"
  /\ \A m \in Markers : \/ store[m] = MarkerOf[m]
                        \/ store[m] = NotFound /\ StackMayMatch
  /\ net' = [f \in Fields |-> [k \in Bytes |-> LoadedByte(k)[f]]]
  /\ pc' = "run" /\ loaded' = TRUE
  /\ UNCHANGED <<store, req, room, split, next, packet, crashes, saved>>

\* The factory setting is written, and not loaded.
WriteFactory ==
  /\ pc = "off"
  /\ \E m \in Markers : store[m] # MarkerOf[m]
  /\ net' = Default
  /\ pc' = "factory" /\ next' = 1 /\ loaded' = FALSE
  /\ saved' = <<>> /\ split' = FALSE
  /\ UNCHANGED <<store, req, room, packet, crashes>>

-----------------------------------------------------------------------------
(* Writing a configuration: fifteen calls of EE_WriteVariable in this order,  *)
(* their results ignored.                                                     *)

\* Mutant: the markers go to the variables 1, 2 and 0.
SaveAddrMutant(i) == IF i <= 3 THEN i % 3 ELSE i

SaveAddr(i) == IF i <= 3 THEN i - 1 ELSE i
\* Mutant: the gateway and the subnet mask change places.
SaveDataMutant(i, config) ==
  IF i <= 3 THEN MarkerOf[i - 1]
  ELSE config[IF i \div 4 = 1 THEN 1 ELSE 5 - (i \div 4)][(i % 4) + 1]

SaveData(i, config) == IF i <= 3 THEN MarkerOf[i - 1] ELSE config[i \div 4][(i % 4) + 1]

Config == IF pc = "factory" THEN Factory ELSE packet

StartWrite ==
  /\ pc \in {"factory", "save"} /\ next <= NSaves
  /\ EE!Request(SaveAddr(next), SaveData(next, Config))
  /\ UNCHANGED <<room, split, pc, next, net, packet, crashes, loaded, saved>>

Only(r) == [v \in Vars |-> IF v = r.addr THEN r.data ELSE NotFound]

EndWrite ==
  /\ req # {} /\ room > 0
  /\ EE!Commit /\ req' = {}
  /\ room' = room - 1
  /\ next' = next + 1
  /\ UNCHANGED <<split, pc, net, packet, crashes, loaded, saved>>

\* The page was full: only the variable being written is in the new page.
EndTransfer ==
  /\ req # {} /\ room = 0
  /\ \E r \in req : store' = Only(r)
  /\ req' = {}
  /\ room' = PageRoom - 1
  /\ split' = (split \/ next > 1)
  /\ next' = next + 1
  /\ UNCHANGED <<pc, net, packet, crashes, loaded, saved>>

\* After the last variable test_eeprom returns to main, and config.cgi answers
\* and restarts the processor, which clears s2e_packet.
EndSave ==
  /\ pc \in {"factory", "save"} /\ next > NSaves
  /\ saved' = Config
  /\ next' = 1
  /\ IF pc = "factory" THEN pc' = "run" /\ UNCHANGED packet
                       ELSE pc' = "off" /\ packet' = [f \in Fields |-> Zero]
  /\ UNCHANGED <<store, req, room, split, net, crashes, loaded>>

-----------------------------------------------------------------------------
(* config.cgi: each address is looked for on its own.  One the request does *)
(* not give keeps the value it has in s2e_packet, which starts as zeros: it *)
(* is never loaded from the EEPROM, and set_S2E_Packet_to_factory_value is  *)
(* never reached.                                                           *)

ConfigCgi ==
  /\ pc = "run"
  /\ \E given \in SUBSET Fields : \E a \in [given -> Addresses] :
       packet' = [f \in Fields |-> IF f \in given THEN a[f] ELSE packet[f]]
  /\ pc' = "save" /\ next' = 1
  /\ saved' = <<>> /\ split' = FALSE
  /\ UNCHANGED <<store, req, room, net, crashes, loaded>>

\* A write that power cuts short may have used its slot.
CrashInPage ==
  /\ EE!Crash
  /\ room' \in {room} \cup (IF req # {} /\ room > 0 THEN {room - 1} ELSE {})

\* A transfer that power cuts short is completed by EE_Init.
CrashInTransfer ==
  /\ req # {} /\ room = 0
  /\ \/ \E r \in req : store' = Only(r) /\ room' = PageRoom - 1
     \/ store' = [v \in Vars |-> NotFound] /\ room' \in {PageRoom - 1, PageRoom}
  /\ req' = {}

PowerLoss ==
  /\ pc # "off" /\ crashes < MaxCrashes
  /\ CrashInPage \/ CrashInTransfer
  /\ pc' = "off" /\ next' = 1 /\ packet' = [f \in Fields |-> Zero]
  /\ crashes' = crashes + 1
  /\ UNCHANGED <<net, loaded, saved, split>>

ConfigInit ==
  /\ EE!Init /\ room = PageRoom /\ split = FALSE
  /\ pc = "off" /\ next = 1
  /\ net = Default /\ packet = [f \in Fields |-> Zero]
  /\ crashes = 0 /\ loaded = FALSE /\ saved = <<>>

ConfigNext == LoadConfig \/ WriteFactory \/ StartWrite \/ EndWrite \/ EndTransfer \/ EndSave \/ ConfigCgi \/ PowerLoss

ConfigSpec == ConfigInit /\ [][ConfigNext]_configVars

-----------------------------------------------------------------------------
(* Properties *)

\* A configuration has been written whole, the page not filling up meanwhile.
Kept == saved # <<>> /\ ~split

\* It is then the one in use after every later power-up that loads, until the next
\* one is being written: saveip and test_eeprom agree on the variables, their order
\* and their widths, whatever an earlier save cut short has left.
SavedIsLoaded == (pc = "run" /\ loaded /\ Kept) => net = saved

\* And no power-up takes the EEPROM for wrong and puts the factory setting over it.
SavedIsKept == [][(pc = "off" /\ Kept) => pc' # "factory"]_configVars

\* Right markers mean right data: each address that is loaded is one that was
\* once given as a whole.
NoTornAddress ==
  (pc = "run" /\ loaded) =>
    \A f \in Fields : net[f] \in {Zero, Factory[f]} \cup Addresses
=============================================================================
