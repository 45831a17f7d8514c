------------------------------- MODULE SdCard -------------------------------
(***************************************************************************)
(* FatFs/mmcstm32.c: the SD card layer under FatFs, with the card and the  *)
(* millisecond interrupt.                                                  *)
(*                                                                         *)
(* A step is what the program does between two waits, each of which is a   *)
(* loop over xchg_spi that Timer1 or Timer2 may end.  A step that does not *)
(* wait takes less than a millisecond, and a loop whose time is up is left *)
(* before the next.  The card may refuse or leave unanswered any command,  *)
(* be busy or silent for as long as it likes, lose its power, and be       *)
(* exchanged between two calls.                                            *)
(***************************************************************************)
EXTENDS Integers, Sequences, FiniteSets

CONSTANTS
  Sectors,      \* sectors of a card, 0..n
  Used,         \* those that are read and written: a bound
  Data,         \* what a sector may hold
  Kinds,        \* cards there are: MMC, SD1, SD2 and SDHC
  BLOCK,        \* 512, the address of sector 1 in a card addressed by bytes
  POWER_WAIT, INIT_WAIT, READY_WAIT, TOKEN_WAIT   \* 10, 1000, 500 and 200 ms

ASSUME CardAssumption ==
  /\ Sectors \subseteq Nat /\ (\E n \in Sectors : Sectors = 0..n)
  /\ Used \subseteq Sectors /\ Data # {}
  /\ Kinds \subseteq {"MMC", "SD1", "SD2", "SDHC"}
  /\ {BLOCK, POWER_WAIT, INIT_WAIT, READY_WAIT, TOKEN_WAIT} \subseteq Nat \ {0}
  /\ INIT_WAIT > READY_WAIT

VARIABLES
  drv,      \* Stat (is STA_NOINIT clear), CardType, Timer1, Timer2, and of the call:
            \*   pc: where it waits;  cmd: commands to send;  op, sector, count, left
            \*   data: sectors to write, or read so far;  ty;  res: its result
            \*   (a timer that no loop looks at any more is 0)
  card,     \* kind, mode, xfer: data it sends or waits for, at: their sector,
            \* pend: the sector it is programming, {} for none;  cells: what it holds
  elapsed,  \* ghost: milliseconds the call has taken
  known,    \* ghost: what each sector may hold for the program
  durable   \* ghost: what it may hold if the card loses its power

cardVars == <<drv, card, elapsed, known, durable>>

None == "none"
Stopped ==
  [Stat |-> FALSE, CardType |-> "Unknown", Timer1 |-> 0, Timer2 |-> 0, pc |-> "idle",
   cmd |-> <<>>, op |-> "none", sector |-> 0, count |-> 0, left |-> 0, data |-> <<>>,
   ty |-> "Unknown", res |-> "RES_OK"]
Span(d) == d.sector..(d.sector + d.count - 1)
NewCard(k, f) ==
  [kind |-> k, mode |-> "off", xfer |-> None, at |-> 0, pend |-> {},
   cells |-> [s \in Sectors |-> IF s \in Used THEN f[s] ELSE CHOOSE d \in Data : TRUE]]
Busy == card.pend # {}

-----------------------------------------------------------------------------
(* The program.  Answers of the card: "zero", "one", "more" (an error, or no *)
(* answer at all), and "mismatch" for a CMD8 that is not echoed.             *)

\* CMD55 goes before an application command.
App(c) == <<"CMD55", c>>
Wait2(d, pc) == [d EXCEPT !.Timer2 = READY_WAIT, !.pc = pc]
send_cmd(d, cmds) == [Wait2(d, "select") EXCEPT !.cmd = cmds]

\* deselect() ends every call.
Returns(d, ok) ==
  IF ok /\ d.op = "read"
  THEN [Stopped EXCEPT !.Stat = d.Stat, !.CardType = d.CardType, !.res = "RES_OK",
                       !.op = "read", !.sector = d.sector, !.data = d.data]
  ELSE [Stopped EXCEPT !.Stat = d.Stat, !.CardType = d.CardType,
                       !.res = IF ok THEN "RES_OK" ELSE "RES_ERROR"]

Initialised(d, ty) == Returns([d EXCEPT !.CardType = ty, !.Stat = ty # "Unknown"], ty # "Unknown")

\* The initialisation commands are repeated while Timer1 runs.
LastInit(d) ==
  CASE d.Timer1 = 0 -> Initialised(d, "Unknown")
    [] d.Timer1 > 0 /\ d.ty = "SD2" -> send_cmd(d, <<"CMD58">>)
    [] OTHER -> send_cmd(d, <<"CMD16">>)
Poll(d) ==
  IF d.Timer1 = 0 THEN LastInit(d)
  ELSE send_cmd(d, IF d.ty = "MMC" THEN <<"CMD1">> ELSE App("ACMD41"))

Receive(d) == [d EXCEPT !.Timer1 = TOKEN_WAIT, !.pc = "token"]
Transmit(d) == Wait2(d, "xmit")
\* CMD12 goes to the card while it is selected, without a wait.
StopReading(d) == [d EXCEPT !.cmd = <<"CMD12">>, !.pc = "answer"]

Answered(d, c, r) ==
  CASE c = "CMD55" -> d
    [] c = "CMD0" -> IF r = "one" THEN send_cmd([d EXCEPT !.Timer1 = INIT_WAIT], <<"CMD8">>)
                     ELSE Initialised(d, "Unknown")
    [] c = "CMD8" -> CASE r = "one" -> Poll([d EXCEPT !.ty = "SD2"])
                       [] r = "mismatch" -> Initialised(d, "Unknown")
                       [] OTHER -> send_cmd([d EXCEPT !.ty = "probe"], App("ACMD41"))
    [] c = "ACMD41" /\ d.ty = "probe" ->
         Poll([d EXCEPT !.ty = IF r \in {"zero", "one"} THEN "SD1" ELSE "MMC"])
    [] (c = "ACMD41" /\ d.ty # "probe") \/ c = "CMD1" ->
         IF r = "zero" THEN LastInit(d) ELSE Poll(d)
    [] c = "CMD58" -> Initialised(d, IF r # "zero" THEN "Unknown"
                                     ELSE IF card.kind = "SDHC" THEN "SD2|BLOCK" ELSE "SD2")
    [] c = "CMD16" -> Initialised(d, IF r = "zero" THEN d.ty ELSE "Unknown")
    [] c \in {"CMD17", "CMD18"} -> IF r = "zero" THEN Receive(d) ELSE Returns(d, FALSE)
    [] c = "CMD12" -> Returns(d, d.left = 0)
    [] c = "ACMD23" -> send_cmd(d, <<"CMD25">>)
    [] c \in {"CMD24", "CMD25"} -> IF r = "zero" THEN Transmit(d) ELSE Returns(d, FALSE)

\* The answer to the first command of drv.cmd; an error of CMD55 is the answer to
\* the command after it.
AfterCommand(d, r) ==
  IF Len(d.cmd) = 2 /\ r # "more" THEN send_cmd(d, Tail(d.cmd))
  ELSE Answered([d EXCEPT !.Timer2 = 0], d.cmd[Len(d.cmd)], r)

\* After rcvr_datablock.
AfterBlock(d, ok, v) ==
  LET e == IF ok THEN [d EXCEPT !.left = @ - 1, !.data = Append(@, v)] ELSE d
  IN  CASE d.count = 1 -> Returns(e, ok)
        [] d.count > 1 /\ ok /\ e.left > 0 -> Receive(e)
        [] OTHER -> StopReading(e)

\* After xmit_datablock; a transfer of several is stopped by a token of its own.
AfterData(d, ok) ==
  LET e == IF ok THEN [d EXCEPT !.left = @ - 1] ELSE d
  IN  CASE d.count = 1 -> Returns(e, ok)
        [] d.count > 1 /\ ok /\ e.left > 0 -> Transmit(e)
        [] OTHER -> Wait2(e, "stop")

TimerOverMutant(d) == d.pc \in {"power", "token"} /\ d.Timer1 = 0
TimerOver(d) ==
  \/ d.pc \in {"select", "xmit", "stop"} /\ d.Timer2 = 0
  \/ d.pc \in {"power", "token"} /\ d.Timer1 = 0

\* What the program does when a wait ends by time.
AfterTimeout(d) ==
  CASE d.pc = "power" -> send_cmd(d, <<"CMD0">>)
    [] d.pc = "select" /\ d.op = "sync" -> Returns(d, FALSE)
    [] d.pc = "select" /\ d.op # "sync" -> AfterCommand(d, "more")
    [] d.pc = "token" -> AfterBlock(d, FALSE, None)
    [] d.pc = "xmit" -> AfterData(d, FALSE)
    [] d.pc = "stop" -> Returns(d, FALSE)

AddressMutant(d) == d.sector * BLOCK
Address(d) == IF d.CardType = "SD2|BLOCK" THEN d.sector ELSE d.sector * BLOCK

-----------------------------------------------------------------------------
(* The card. *)

V2 == {"SD2", "SDHC"}

\* The sector a card takes an address for: none if there is no such sector.
SectorAt(k, a) ==
  CASE k.kind = "SDHC" /\ a \in Sectors -> a
    [] k.kind # "SDHC" /\ a % BLOCK = 0 /\ a \div BLOCK \in Sectors -> a \div BLOCK
    [] OTHER -> -1

Xfer(k, x, a) ==
  IF k.mode = "ready" /\ SectorAt(k, a) # -1
  THEN {<<"zero", [k EXCEPT !.xfer = x, !.at = SectorAt(k, a)]>>} ELSE {}

\* What a card that carries out command c answers, and what it is then.  A card of high
\* capacity gets ready only for a host that announces that it knows such cards (hcs).
Obeys(k, c, a, hcs) ==
  LET idle == k.mode = "idle"
      start == {<<"one", k>>} \cup
                 IF k.kind = "SDHC" /\ ~hcs THEN {} ELSE {<<"zero", [k EXCEPT !.mode = "ready"]>>}
  IN  CASE c = "CMD8" /\ idle /\ k.kind \in V2 -> {<<"one", k>>, <<"mismatch", k>>}
        [] c = "CMD55" /\ k.kind # "MMC" -> {<<IF idle THEN "one" ELSE "zero", k>>}
        [] c = "ACMD41" /\ idle /\ k.kind # "MMC" -> start
        [] c = "CMD1" /\ idle -> start
        [] c \in {"CMD16", "CMD58", "ACMD23"} /\ ~idle -> {<<"zero", k>>}
        [] c = "CMD17" -> Xfer(k, "read", a)
        [] c = "CMD18" -> Xfer(k, "reads", a)
        [] c = "CMD24" -> Xfer(k, "write", a)
        [] c = "CMD25" -> Xfer(k, "writes", a)
        [] OTHER -> {}

\* A card that still sends data gives bytes of it for an answer, one that waits for
\* data takes a command for none; CMD0 and CMD12 end both.
Answers(k, c, a, hcs) ==
  CASE k.mode = "off" /\ c # "CMD0" -> {<<"more", k>>}
    [] c = "CMD0" -> {<<"more", k>>, <<"one", [k EXCEPT !.mode = "idle", !.xfer = None]>>}
    [] c = "CMD12" /\ k.mode # "off" -> {<<"zero", [k EXCEPT !.xfer = None]>>}
    [] k.xfer = "reads" /\ c \notin {"CMD0", "CMD12"} -> {<<r, k>> : r \in {"zero", "one", "more"}}
    [] k.xfer = "writes" /\ c \notin {"CMD0", "CMD12"} -> {<<"more", k>>}
    [] OTHER -> {<<"more", k>>} \cup Obeys(k, c, a, hcs)

\* A transfer of one block ends when the card is deselected.
Deselected(k) == IF k.xfer \in {"read", "write"} THEN [k EXCEPT !.xfer = None] ELSE k

-----------------------------------------------------------------------------
(* Steps. *)

\* What a call that returns lets be known: a write that succeeded, and what CTRL_SYNC
\* waited for.  A card that has lost its power meanwhile looks like one that is ready.
Becomes(d, k) ==
  LET done == d.pc = "idle" /\ d.res = "RES_OK" /\ k.mode = "ready"
      after == IF d.pc \in {"idle", "select"} THEN Deselected(k) ELSE k
      written(s) == drv.data[s - drv.sector + 1]
  IN  /\ drv' = d
      /\ card' = IF after.xfer = None THEN [after EXCEPT !.at = 0] ELSE after
      /\ elapsed' = IF d.pc = "idle" THEN 0 ELSE elapsed
      /\ known' = IF done /\ drv.op = "write"
                  THEN [s \in Used |-> IF s \in Span(drv) THEN {written(s)} ELSE known[s]]
                  ELSE known
      /\ durable' = IF done /\ drv.op = "sync" THEN known ELSE durable

Start(d) ==
  /\ drv.pc = "idle"
  /\ drv' = d
  /\ UNCHANGED <<card, elapsed>>

Call(op, s, n, data) ==
  [drv EXCEPT !.op = op, !.sector = s, !.count = n, !.left = n, !.data = data]

disk_initialize ==
  /\ Start([Call("init", 0, 0, <<>>) EXCEPT !.Stat = FALSE, !.Timer1 = POWER_WAIT, !.pc = "power"])
  /\ UNCHANGED <<known, durable>>

disk_read(s, n) ==
  /\ drv.Stat
  /\ Start(send_cmd(Call("read", s, n, <<>>), IF n = 1 THEN <<"CMD17">> ELSE <<"CMD18">>))
  /\ UNCHANGED <<known, durable>>

disk_write(s, data) ==
  LET n == Len(data)
      With(f) == [t \in Used |-> IF t \in s..(s + n - 1) THEN f[t] \cup {data[t - s + 1]} ELSE f[t]]
  IN  /\ drv.Stat
      /\ Start(send_cmd(Call("write", s, n, data),
                        CASE n = 1 -> <<"CMD24">>
                          [] n > 1 /\ drv.CardType # "MMC" -> App("ACMD23")
                          [] OTHER -> <<"CMD25">>))
      /\ known' = With(known) /\ durable' = With(durable)

CTRL_SYNC ==
  /\ drv.Stat
  /\ Start(Wait2(Call("sync", 0, 0, <<>>), "select"))
  /\ UNCHANGED <<known, durable>>

\* select() finds the card ready.
Synced ==
  /\ drv.pc = "select" /\ drv.op = "sync" /\ ~Busy
  /\ Becomes(Returns(drv, TRUE), card)

Command ==
  /\ drv.op # "sync"
  /\ drv.pc = "answer" \/ (drv.pc = "select" /\ ~Busy)
  /\ \E a \in Answers(card, drv.cmd[1], Address(drv), drv.ty = "SD2") :
       Becomes(AfterCommand(drv, a[1]), a[2])

\* The card sends the block, an error token, or what it is sending already.
Token ==
  /\ drv.pc = "token" /\ card.mode # "off"
  /\ \/ /\ card.xfer \in {"read", "reads"} /\ card.at \in Sectors
        /\ Becomes(AfterBlock(drv, TRUE, card.cells[card.at]), [card EXCEPT !.at = @ + 1])
     \/ Becomes(AfterBlock(drv, FALSE, None), card)

\* The card accepts a block and programs it, or rejects it.
Block ==
  LET v == drv.data[drv.count - drv.left + 1]
  IN  /\ drv.pc = "xmit" /\ ~Busy
      /\ \/ /\ card.xfer \in {"write", "writes"} /\ card.at \in Sectors
            /\ Becomes(AfterData(drv, TRUE), [card EXCEPT !.pend = {<<card.at, v>>}, !.at = @ + 1])
         \/ Becomes(AfterData(drv, FALSE), card)

StopToken ==
  /\ drv.pc = "stop" /\ ~Busy
  /\ Becomes(Returns(drv, drv.left = 0), [card EXCEPT !.xfer = None])

TimesOut ==
  /\ TimerOver(drv)
  /\ drv.pc \in {"select", "xmit", "stop"} => card.mode # "off"   \* nothing pulls the line down
  /\ Becomes(AfterTimeout(drv), card)

Down(t) == IF t > 0 THEN t - 1 ELSE 0

\* disk_timerproc, each millisecond of a wait.
disk_timerproc ==
  /\ drv.pc \in {"power", "select", "token", "xmit", "stop"} /\ ~TimerOver(drv)
  /\ drv' = [drv EXCEPT !.Timer1 = Down(@), !.Timer2 = Down(@)]
  /\ elapsed' = elapsed + 1
  /\ UNCHANGED <<card, known, durable>>

Programmed ==
  /\ \E p \in card.pend : card' = [card EXCEPT !.cells[p[1]] = p[2], !.pend = {}]
  /\ UNCHANGED <<drv, elapsed, known, durable>>

\* The card loses its power, and with it perhaps the block it was programming.
CardLosesPower ==
  /\ card' = [card EXCEPT !.mode = "off", !.xfer = None, !.pend = {}]
  /\ known' = [s \in Used |-> known[s] \cup durable[s]]
  /\ UNCHANGED <<drv, elapsed, durable>>

\* Another card is put in between two calls; nothing is asked of what was read from
\* the old one.
CardExchanged ==
  /\ drv.pc = "idle" /\ drv.op = "none"
  /\ \E k \in Kinds, f \in [Used -> Data] :
       /\ card' = NewCard(k, f)
       /\ known' = [s \in Used |-> {f[s]}] /\ durable' = known'
  /\ UNCHANGED <<drv, elapsed>>

\* The processor is reset, the card is not.
Reset ==
  /\ drv' = Stopped /\ elapsed' = 0
  /\ UNCHANGED <<card, known, durable>>

CardInit ==
  /\ drv = Stopped /\ elapsed = 0
  /\ \E k \in Kinds, f \in [Used -> Data] :
       /\ card = NewCard(k, f)
       /\ known = [s \in Used |-> {f[s]}] /\ durable = known

CardNext ==
  \/ disk_initialize \/ CTRL_SYNC
  \/ \E s \in Used, n \in 1..Cardinality(Used) :
       /\ s..(s + n - 1) \subseteq Used
       /\ \/ disk_read(s, n)
          \/ \E data \in [1..n -> Data] : disk_write(s, data)
  \/ Synced \/ Command \/ Token \/ Block \/ StopToken \/ TimesOut
  \/ disk_timerproc \/ Programmed \/ CardLosesPower \/ CardExchanged \/ Reset

CardSpec == CardInit /\ [][CardNext]_cardVars

-----------------------------------------------------------------------------
(* Properties. *)

\* A disk_read that succeeds delivers what the last successful disk_write of each sector
\* wrote, whatever the card refused, however late it was, whichever transfers were cut
\* short, and after a loss of the card's power what CTRL_SYNC had waited for.
ReadsWhatWasWritten ==
  drv.pc = "idle" /\ drv.op = "read" =>
    \A i \in 1..Len(drv.data) : drv.data[i] \in known[drv.sector + i - 1]

\* Every call ends within the sum of its waits, whatever the card does.
MaxTime(d) ==
  CASE d.op = "init" -> POWER_WAIT + READY_WAIT + (INIT_WAIT - 1) + 2 * READY_WAIT
    [] d.op = "sync" -> READY_WAIT
    [] d.op = "read" -> READY_WAIT + d.count * TOKEN_WAIT
    [] d.op = "write" /\ d.count = 1 -> 2 * READY_WAIT
    [] d.op = "write" /\ d.count > 1 -> (d.count + 4) * READY_WAIT
    [] OTHER -> 0
CallsEndInTime == elapsed <= MaxTime(drv)
=============================================================================
