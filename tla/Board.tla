------------------------------- MODULE Board -------------------------------
(***************************************************************************)
(* The main program: w5500_lib_init waits for the link, IWDG_Config starts *)
(* the watchdog, and the main loop of main.c feeds it, serves the network  *)
(* and calls SNTP_run when the seconds counted by TIM2_IRQHandler exceed   *)
(* one.  A call of the network may take any time, or hang.                 *)
(***************************************************************************)
EXTENDS Integers

CONSTANTS
  WATCHDOG,   \* the time of the watchdog, in seconds (13)
  SECONDS     \* the values of sec_cnt (256)

\* The second counter does not wrap within two periods of the watchdog.
ASSUME BoardAssumption ==
  WATCHDOG \in Nat \ {0} /\ SECONDS \in Nat /\ SECONDS > 2 * WATCHDOG

VARIABLES
  mainPc,     \* the place in main
  phyLink,    \* is the cable plugged in?
  iwdg,       \* seconds since the watchdog was fed
  seconds,    \* sec_cnt
  sinceRun    \* history: seconds in the main loop since SNTP_run was called

boardVars == <<mainPc, phyLink, iwdg, seconds, sinceRun>>

\* sinceRun is counted up to here.
MaxWait == 2 * WATCHDOG + 2

-----------------------------------------------------------------------------
(* Hardware *)

CableMoves ==
  /\ phyLink' = ~phyLink
  /\ UNCHANGED <<mainPc, iwdg, seconds, sinceRun>>

\* Mutant: the watchdog is not enabled before the first pass.
WatchedMutant == FALSE

Watched == mainPc \notin {"link", "start"}
Bites == Watched /\ iwdg = WATCHDOG

\* TIM2_IRQHandler, each second; the rest of the pass is short, and touches no counter.
CountSecond ==
  /\ ~Bites /\ mainPc \notin {"feed", "uart"}
  /\ seconds' = IF seconds + 1 = SECONDS THEN 0 ELSE seconds + 1
  /\ iwdg' = IF Watched THEN iwdg + 1 ELSE 0
  /\ sinceRun' = IF Watched /\ sinceRun < MaxWait THEN sinceRun + 1 ELSE sinceRun
  /\ UNCHANGED <<mainPc, phyLink>>

\* After a reset the watchdog is off until it is started again.
WatchdogReset ==
  /\ Bites
  /\ mainPc' = "link" /\ seconds' = 0 /\ sinceRun' = 0 /\ iwdg' = 0
  /\ UNCHANGED phyLink

-----------------------------------------------------------------------------
(* main *)

Goes(from, to) == mainPc = from /\ mainPc' = to /\ UNCHANGED phyLink
Counting == UNCHANGED <<seconds, sinceRun>>

\* w5500_lib_init: without a link it waits for ever.
LinkFound == Goes("link", "start") /\ phyLink /\ Counting /\ UNCHANGED iwdg

\* SNTP_init, snmpd_init, loadwebpages and IWDG_Config
Started == Goes("start", "feed") /\ iwdg' = 0 /\ Counting

Feed == Goes("feed", "network") /\ iwdg' = 0 /\ Counting

\* networkSevices returns: nothing says when.
Served == Goes("network", "test") /\ Counting /\ UNCHANGED iwdg

\* Mutant: a counter that went past two at once is not seen.
SntpDueMutant == seconds = 2

SntpDue == seconds > 1

TestSeconds ==
  /\ Goes("test", IF SntpDue THEN "clear" ELSE "uart")
  /\ Counting /\ UNCHANGED iwdg

\* A second counted since the test is lost.
ClearSeconds == Goes("clear", "sntp") /\ seconds' = 0 /\ UNCHANGED <<sinceRun, iwdg>>

CallSntp == Goes("sntp", "uart") /\ sinceRun' = 0 /\ UNCHANGED <<seconds, iwdg>>

LoopEnd == Goes("uart", "feed") /\ Counting /\ UNCHANGED iwdg

OwnSteps == LinkFound \/ Started \/ Feed \/ TestSeconds \/ ClearSeconds \/ CallSntp \/ LoopEnd

-----------------------------------------------------------------------------
BoardInit ==
  /\ mainPc = "link" /\ phyLink = FALSE
  /\ iwdg = 0 /\ seconds = 0 /\ sinceRun = 0

BoardNext == CableMoves \/ CountSecond \/ WatchdogReset \/ OwnSteps \/ Served

BoardSpec == BoardInit /\ [][BoardNext]_boardVars

-----------------------------------------------------------------------------
(* Properties *)

\* SNTP_run is called, or the board reset, within twice the time of the watchdog and a
\* second, though the seconds are tested and cleared in two steps, and wrap round before
\* the loop.
SntpInTime == sinceRun < MaxWait

\* Once the cable stays in, the loop goes on for ever: a call of the network that never
\* returns ends in a reset, and the reset in the loop.
LoopGoesOn == <>[]phyLink => []<>(mainPc = "feed")
=============================================================================
