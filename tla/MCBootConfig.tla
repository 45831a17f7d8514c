---------------------------- MODULE MCBootConfig ----------------------------
(* Instances of BootConfig for TLC: the addresses a configuration page sends. *)
EXTENDS BootConfig

TwoAddresses == {<<10, 0, 0, 9>>, <<10, 0, 1, 1>>}
=============================================================================
