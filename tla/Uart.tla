-------------------------------- MODULE Uart --------------------------------
(***************************************************************************)
(* The receiver of UART1: USART1_IRQHandler of stm32f10x_it.c stores each  *)
(* byte and starts a time-out that TIM2_IRQHandler counts down to ONTIME;  *)
(* usart1Process of main.c, polled by the main loop, then prints the       *)
(* buffer and clears it.  Both change the buffer and its index.            *)
(*                                                                         *)
(* USART1_index is not volatile and is the counter of the clearing loop:   *)
(* the compiler may keep it in a register there or not.                    *)
(***************************************************************************)
EXTENDS Integers, Sequences

CONSTANTS
  RX_BUFFER_SIZE0,
  U1OUT,        \* the time-out after a byte (50 ms)
  MaxMessage    \* the longest message sent

STOP == 0
ONTIME == 1

ASSUME UartAssumption ==
  /\ RX_BUFFER_SIZE0 \in Nat \ {0} /\ MaxMessage \in Nat \ {0}
  /\ U1OUT \in Nat /\ U1OUT > ONTIME

Cells == 0..(RX_BUFFER_SIZE0 - 1)
NUL == 0
Other == MaxMessage + 1   \* a byte of a message no property follows

VARIABLES
  u1out,
  USART1_index,
  USART1_rx_data_buff,
  uartPc,      \* the place in usart1Process
  uartReg,     \* its register: the cell that is printed or cleared
  inMemory,    \* is the counter of the clearing loop kept in memory?
  quick,       \* has no byte come since the loop last had to wait?
  printed,     \* what has been printed of the buffer
  message,     \* bytes sent of the current message
  alone        \* history: had the loop finished when the message began?

uartVars == <<u1out, USART1_index, USART1_rx_data_buff, uartPc, uartReg, inMemory, quick, printed,
              message, alone>>

MessageByte(k) == IF alone THEN k ELSE Other
Resting == uartPc = "poll" /\ u1out = STOP

-----------------------------------------------------------------------------
(* Interrupts *)

\* A byte is stored, beyond the buffer when the index is; what follows the buffer are
\* the counters of the timer, which this module leaves out.
Store(byte) ==
  /\ u1out' = U1OUT
  /\ USART1_rx_data_buff' =
       [i \in Cells |-> IF i = USART1_index THEN byte ELSE USART1_rx_data_buff[i]]
  /\ USART1_index' = IF USART1_index + 1 = RX_BUFFER_SIZE0 THEN 0 ELSE USART1_index + 1
  /\ quick' = FALSE
  /\ UNCHANGED <<uartPc, uartReg, inMemory, printed>>

\* A byte takes as long as a character that is printed, and longer than the steps of
\* the loop that wait for nothing.
ByteMayCome == uartPc \in {"poll", "print"} \/ quick

\* The bytes of a message come faster than the time-out, ...
NextByte ==
  /\ ByteMayCome /\ u1out > ONTIME /\ message \in 1..(MaxMessage - 1)
  /\ message' = message + 1
  /\ Store(MessageByte(message'))
  /\ UNCHANGED alone

\* ... and the next message comes after it, be the one before processed or not.
FirstByte ==
  /\ ByteMayCome /\ u1out <= ONTIME
  /\ message' = 1 /\ alone' = Resting
  /\ Store(IF Resting THEN 1 ELSE Other)

TimerTick ==
  /\ u1out > ONTIME /\ u1out' = u1out - 1
  /\ UNCHANGED <<USART1_index, USART1_rx_data_buff, uartPc, uartReg, inMemory, quick, printed,
                 message, alone>>

-----------------------------------------------------------------------------
(* usart1Process *)

Goto(p) == uartPc' = p
Sent == UNCHANGED <<message, alone>>
AtOnce == UNCHANGED quick

TestTimeout ==
  /\ uartPc = "poll" /\ u1out = ONTIME
  /\ Goto("stop") /\ quick' = TRUE /\ printed' = <<>> /\ uartReg' = 0
  /\ Sent /\ UNCHANGED <<u1out, USART1_index, USART1_rx_data_buff, inMemory>>

StopTimeout ==
  /\ uartPc = "stop" /\ u1out' = STOP
  /\ Goto("print")
  /\ Sent /\ AtOnce /\ UNCHANGED <<USART1_index, USART1_rx_data_buff, uartReg, inMemory, printed>>

\* printf writes the buffer up to a zero; one that is full has none, and printf goes on
\* into the counters behind it.
PrintByte ==
  /\ uartPc = "print" /\ uartReg \in Cells /\ USART1_rx_data_buff[uartReg] # NUL
  /\ printed' = Append(printed, USART1_rx_data_buff[uartReg])
  /\ uartReg' = uartReg + 1
  /\ Sent /\ AtOnce /\ UNCHANGED <<u1out, USART1_index, USART1_rx_data_buff, uartPc, inMemory>>

Printed == uartPc = "print" /\ (uartReg \in Cells => USART1_rx_data_buff[uartReg] = NUL)

StartClearing ==
  /\ Printed
  /\ inMemory' \in BOOLEAN /\ quick' = TRUE
  /\ USART1_index' = IF inMemory' THEN 0 ELSE USART1_index
  /\ uartReg' = 0 /\ printed' = <<>> /\ Goto("clear")
  /\ Sent /\ UNCHANGED <<u1out, USART1_rx_data_buff>>

Cleared(b, c) == [b EXCEPT ![c] = NUL]

Counter == IF inMemory THEN USART1_index ELSE uartReg

ClearByte ==
  /\ uartPc = "clear" /\ Counter < RX_BUFFER_SIZE0
  /\ USART1_rx_data_buff' = Cleared(USART1_rx_data_buff, Counter)
  /\ uartReg' = Counter + 1 /\ Goto("count")
  /\ Sent /\ AtOnce /\ UNCHANGED <<u1out, USART1_index, inMemory, printed>>

CountUp ==
  /\ uartPc = "count"
  /\ USART1_index' = IF inMemory THEN uartReg ELSE USART1_index
  /\ Goto("clear")
  /\ Sent /\ AtOnce /\ UNCHANGED <<u1out, USART1_rx_data_buff, uartReg, inMemory, printed>>

LeaveLoop ==
  /\ uartPc = "clear" /\ Counter >= RX_BUFFER_SIZE0
  /\ Goto("reset")
  /\ Sent /\ AtOnce /\ UNCHANGED <<u1out, USART1_index, USART1_rx_data_buff, uartReg, inMemory, printed>>

\* Mutant: the index is not reset.
FirstIndexMutant == USART1_index

FirstIndex == 0

ResetIndex ==
  /\ uartPc = "reset" /\ USART1_index' = FirstIndex
  /\ Goto("poll") /\ uartReg' = 0 /\ inMemory' = FALSE
  /\ Sent /\ AtOnce /\ UNCHANGED <<u1out, USART1_rx_data_buff, printed>>

usart1Process ==
  \/ TestTimeout \/ StopTimeout \/ PrintByte \/ StartClearing
  \/ ClearByte \/ CountUp \/ LeaveLoop \/ ResetIndex

-----------------------------------------------------------------------------
UartInit ==
  /\ u1out = U1OUT /\ USART1_index = 0
  /\ USART1_rx_data_buff = [i \in Cells |-> NUL]
  /\ uartPc = "poll" /\ uartReg = 0 /\ inMemory = FALSE /\ quick = TRUE /\ printed = <<>>
  /\ message = 0 /\ alone = FALSE

UartNext == FirstByte \/ NextByte \/ TimerTick \/ usart1Process

UartSpec == UartInit /\ [][UartNext]_uartVars

-----------------------------------------------------------------------------
(* Properties *)

\* A message shorter than the buffer that begins when the loop has finished is printed
\* whole and alone, unless another one begins before the end of the printing.
PrintedWhole ==
  (Printed /\ alone /\ message < RX_BUFFER_SIZE0) => printed = [k \in 1..message |-> k]
=============================================================================
