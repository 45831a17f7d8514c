------------------------------ MODULE MCEEPROM ------------------------------
(* Instances of EEPROM for TLC: two variables a and b; 65535 is Blank. *)
EXTENDS EEPROM

\* The application's values; 65535 is one that no erased halfword can be told
\* from.
TwoValues == [a \in {1, 2} |-> IF a = 1 THEN {10, 11} ELSE {20, 65535}]
FewValues == [a \in {1, 2} |-> IF a = 1 THEN {10, 65535} ELSE {20}]

\* VirtAddVarTab holding the application's variables, or (as in the build) only
\* one that the application does not write.
BothTabled == <<1, 2>>
OneTabled == <<1>>
ForeignTab == <<3>>
ForeignValues == [a \in {1, 2, 3} |-> IF a = 3 THEN {} ELSE TwoValues[a]]
=============================================================================
