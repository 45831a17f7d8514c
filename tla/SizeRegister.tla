---------------------------- MODULE SizeRegister ----------------------------
(***************************************************************************)
(* getSn_RX_RSR and getSn_TX_FSR of w5500.c: a register of two bytes is    *)
(* read byte by byte over SPI while the chip raises it, twice, until two   *)
(* readings agree or the first one is zero.  Between two commands of the   *)
(* driver both registers only grow.                                        *)
(***************************************************************************)
EXTENDS Integers

CONSTANT BYTE   \* the values of one byte: 256

ASSUME ByteAssumption == BYTE \in Nat \ {0}

VARIABLES
  sizeReg,   \* the register
  readPc,    \* the place in the function: "call", "hi1", "lo1", "hi2", "lo2", "done"
  hi,        \* the byte read last
  val1, val, \* the two readings
  seen       \* history: the register when the low byte of val1 was read

sizeVars == <<sizeReg, readPc, hi, val1, val, seen>>

Byte == 0..(BYTE - 1)
Size == [hi : Byte, lo : Byte]
NoSize == [hi |-> 0, lo |-> 0]
AtMost(a, b) == a.hi < b.hi \/ (a.hi = b.hi /\ a.lo <= b.lo)

-----------------------------------------------------------------------------
\* The chip receives or sends: external.
Grow ==
  /\ \E s \in Size : AtMost(sizeReg, s) /\ sizeReg' = s
  /\ UNCHANGED <<readPc, hi, val1, val, seen>>

CallRead ==
  /\ readPc \in {"call", "done"} /\ readPc' = "hi1"
  /\ val1' = NoSize /\ val' = NoSize
  /\ UNCHANGED <<sizeReg, hi, seen>>

ReadHigh ==
  /\ \/ readPc = "hi1" /\ readPc' = "lo1"
     \/ readPc = "hi2" /\ readPc' = "lo2"
  /\ hi' = sizeReg.hi
  /\ UNCHANGED <<sizeReg, val1, val, seen>>

\* The do-while loop ends when the readings agree; val is kept when val1 is zero.
ReadFirst ==
  /\ readPc = "lo1"
  /\ val1' = [hi |-> hi, lo |-> sizeReg.lo] /\ seen' = sizeReg
  /\ readPc' = IF val1' # NoSize THEN "hi2" ELSE IF val = NoSize THEN "done" ELSE "hi1"
  /\ UNCHANGED <<sizeReg, hi, val>>

\* Mutant: the second reading is believed without comparing.
AgreeMutant(a, b) == TRUE

Agree(a, b) == a = b

ReadSecond ==
  /\ readPc = "lo2"
  /\ val' = [hi |-> hi, lo |-> sizeReg.lo]
  /\ readPc' = IF Agree(val1, val') THEN "done" ELSE "hi1"
  /\ UNCHANGED <<sizeReg, hi, val1, seen>>

-----------------------------------------------------------------------------
SizeInit ==
  /\ sizeReg = NoSize /\ readPc = "call"
  /\ hi = 0 /\ val1 = NoSize /\ val = NoSize /\ seen = NoSize

SizeNext == Grow \/ CallRead \/ ReadHigh \/ ReadFirst \/ ReadSecond

SizeSpec == SizeInit /\ [][SizeNext]_sizeVars

-----------------------------------------------------------------------------
(* Properties *)

SizeTypeOK ==
  /\ sizeReg \in Size /\ val1 \in Size /\ val \in Size /\ seen \in Size
  /\ hi \in Byte
  /\ readPc \in {"call", "hi1", "lo1", "hi2", "lo2", "done"}

\* What is returned is a size the register had during the call, or zero: bytes of two
\* different sizes are never put together, however the register moves between them.
\* (Zero may be returned when the low byte was read after a carry.)
ReadIsTrue == readPc = "done" => val \in {NoSize, seen}
=============================================================================
