------------------------------ MODULE Storage ------------------------------
(***************************************************************************)
(* What has to survive a loss of power: the configuration in the emulated  *)
(* EEPROM, the files of a FAT volume, and the sectors of an SD card.  They *)
(* share no state, so each is followed alone: a behaviour chooses one and  *)
(* stays with it.                                                          *)
(***************************************************************************)
EXTENDS BootConfig, FatVolume, SdCard

VARIABLE unit   \* the part that runs

Init ==
  /\ unit \in {"config", "volume", "card"}
  /\ ConfigInit /\ FatInit /\ CardInit
  \* what does not run is an empty volume and a card of zeros
  /\ unit # "volume" => fs.free = NFree
  /\ unit # "card" =>
       card = NewCard(CHOOSE k \in Kinds : TRUE, [s \in Used |-> CHOOSE d \in Data : TRUE])

RunConfig == unit = "config" /\ ConfigNext /\ UNCHANGED <<unit, fatVars, cardVars>>

RunVolume == unit = "volume" /\ FatNext /\ UNCHANGED <<unit, configVars, cardVars>>

RunCard == unit = "card" /\ CardNext /\ UNCHANGED <<unit, configVars, fatVars>>

Next == RunConfig \/ RunVolume \/ RunCard

Spec == Init /\ [][Next]_<<unit, configVars, fatVars, cardVars>>
=============================================================================
