# A TLA+ model of the STM32F103 + W5500 time server

The repository is the firmware of a small network device: an STM32F103C8 with a
WIZnet W5500 behind SPI. It serves NTP, keeps its own clock with an SNTP client,
answers SNMPv1 requests, and has a web server on which its network address is
configured; the address is kept in an EEPROM emulated in two flash pages. One
endless loop (`main.c`) polls everything; three interrupts (TIM2 each
millisecond, EXTI3 from the W5500, USART1) run under it. There is no operating
system, no lock and no queue other than the socket buffers of the chip.

What can go wrong here is hardly reachable by a test on the bench: the power may
fail between any two flash operations, an interrupt may come between any two
memory accesses, the chip changes a socket's state between two register reads,
and every peer may fall silent, repeat itself or answer late. The modules below
model those interleavings; TLC checks them on small instances and TLAPS proves
the facts that matter most for every instance.

All paths below are relative to `src/source/`.

## 1. Inventory

| Part | State | Operations | Interacts with | What is hard |
|---|---|---|---|---|
| EEPROM emulation, `ethernet/httpServer/eeprom_stm.c` | two flash pages: a header halfword and slots of (data, address) | `EE_Init`, `EE_ReadVariable`, `EE_WriteVariable`, `EE_PageTransfer`, `EE_Format` | called by the configuration | power loss between any two flash operations, failing operations, the full page |
| Network configuration, `main.c` `test_eeprom`, `httpUtil.c` `saveip` | 3 markers and 12 address bytes in the EEPROM, `gWIZNETINFO`, `s2e_packet` | load at power-up, save from config.cgi, restart | EEPROM below, web server above | fifteen writes that are not one; uninitialised locals |
| NTP server, `ethernet/ntpserver.c` | request and reply packets, `recvTime`/`micros_recv` shared with EXTI3 | `NTPUDP`, `EXTI3_IRQHandler`, `wzn_event_handle` | socket 0, TIM2, TIM3 | interrupt against in-place byte swaps, the receive flag, several datagrams |
| SNTP client and DNS, `ethernet/SNTP/sntp.c`, `ethernet/DNS/dns.c` | `TimeIsSet`, `RetrySend`, `sycnPeriod`, `timenow`, DNS retry counters | `SNTP_init`, `SNTP_run`, `DNS_run` | one socket for both, TIM2 | late, lost answers; counters shared with the interrupt |
| Web server, `ethernet/httpServer/httpServer.c` | `HTTPSock_Status` per socket | `httpServer_run`, request handler, body in parts | TCP calls of `socket.c`, configuration | the chip moves between register reads; closes, resets, reuse of sockets |
| HTTP parser and CGI, `httpParser.c`, `httpUtil.c` | the request buffer | split method, URI and parameters | web server | text handling, sequential |
| SNMP agent, `ethernet/SNMP/snmp.c`, `snmp_custom.c` | the object table, request and response buffers, `errorStatus` | `snmpd_init` with its trap, `snmpd_run` | UDP socket, tick of TIM2 | nested lengths, multi-binding requests, repeated requests |
| Sockets, `ethernet/socket.c` | `sock_is_sending`, `sock_remained_size`, `sock_any_port` | `socket`, `listen`, `send`, `recv`, `sendto`, `recvfrom`, `close` | chip registers | polling against a chip that changes state |
| W5500 driver, `W5500/w5500.c`, `wizchip_conf.c`, `spiconfig.c` | none of its own | register and buffer access | SPI | registers of two bytes that the chip changes while they are read |
| Start-up, main loop, link check, watchdog, `main.c`, `w5500init.c`, `rccHandler.c` | link status, watchdog, `sec_cnt` | `w5500_lib_init`, `checklink`, `IWDG_Config`, the endless loop | everything | waits without limit, before and after the watchdog is on; a counter tested and cleared outside the interrupt |
| Timers and UART, `timerHandler.c`, `stm32f10x_it.c`, `uartHandler.c` | `msec_cnt`, `sec_cnt`, `timenow`, 25-byte receive buffer | TIM2, USART1 interrupts, `usart1Process` | the main loop | shared counters and buffer |
| DHCP client, `ethernet/DHCP/dhcp.c` | `dhcp_state`, tick and retry count, server, lease time, address | `DHCP_run`, `DHCP_init`, `DHCP_stop`, `DHCP_time_handler` | UDP socket, callbacks that set the chip's address; not in the build | several servers, late and lost answers, renewal |
| TFTP client, `ethernet/TFTP/tftp.c` | `g_tftp_state`, block number, server port, time-out and retry counts, receive buffer | `TFTP_run`, `TFTP_read_request`, `TFTP_init`, `TFTP_exit`, `tftp_timeout_handler` | UDP socket, `save_data`; not in the build | lost, repeated and reordered blocks, repetitions on both sides |
| FatFs, `FatFs/ff.c` | `FATFS`: the disk window, free count, last cluster; `FIL` of each open file with its sector buffer | `f_mount`, `f_open`, `f_read`, `f_write`, `f_lseek`, `f_truncate`, `f_sync`, `f_close`, `f_unlink`, `f_rename`, `f_getfree` | the disk below; no caller, the calls in `main.c:64-70` are commented out | power loss between any two sectors a call writes, two caches over one disk, the full volume |
| SD card layer, `FatFs/mmcstm32.c` | `Stat`, `CardType`, `Timer1`, `Timer2` | `disk_initialize`, `disk_read`, `disk_write`, `disk_ioctl`, `disk_timerproc` | called by FatFs; TIM2 counts its timers; the card, on the SPI of the W5500 | a card that refuses, is late, loses its power, is exchanged; transfers cut short |
| FTP, MQTT, `util/` | | | not part of the build | not reached |

What makes each part correct, in a sentence, and where it is stated:

- *EEPROM*: an acknowledged write is what the next read delivers, whatever power
  losses lie between; the main program always finds one page in service; a read
  never delivers another variable's data.
- *Configuration*: what config.cgi saved is what the next power-up loads; a torn
  save is not taken for a configuration.
- *NTP server*: the stamps of a reply are those of its request, in order and in
  network byte order; a request that is alone is taken.
- *SNTP*: only the time server sets the time; requests are spaced; the time is set
  again and again although messages are lost.
- *Web server*: the parts of a page given to `send` leave no gap and do not overlap,
  and belong to the page last asked for on that socket; no request keeps a socket
  for ever.
- *SNMP*: an answer can be taken apart by its lengths, a SET is read back, a walk sees
  every entry.
- *UDP sockets*: datagrams come out of `recvfrom` in order, whole or in consecutive
  parts, each with its sender.
- *Size registers*: what is read is a size the register really had.
- *Main loop*: it goes on whatever a network call does, and calls `SNTP_run` in time.
- *UART*: a message is printed whole, and no byte of it in a later one.
- *FatFs*: whenever power fails what was synchronised is on the disk, and the chains there are
  sound but for `f_rename` and a file cut by `f_truncate`; what is written is read back; no
  cluster is lost while the power lasts.
- *SD card*: a read that succeeds delivers what was written; every call ends, whatever the card does.
- *DHCP*: the chip carries the address the client renews, no longer than its lease;
  there is a lease again and again.
- *TFTP*: a transfer that reports success saved the file, and every transfer ends.

The hazards behind these, each at its line, are the list `hazards` in
PROJECT.json; a hazard no property covers says why.

## 2. Modules

| Module | Models | Kind |
|---|---|---|
| `EEStore` | what the EEPROM promises: a map from variables to values that a write changes at once or, when power fails, at once or not at all | abstract specification |
| `EEPROM` | `eeprom_stm.c`, one action per flash operation | detailed specification; implements `EEStore` |
| `EEPROMProofs` | theorems of `EEPROM`, and that it implements `EEStore` | proofs |
| `BootConfig` | `test_eeprom`, `set_basic_config_setting`, `saveip` and the restart, over the store that `EEStore` describes | composition with the abstract store |
| `FatVolume` | `ff.c` on a FAT32 volume with a root directory of short names, and the disk under it | program, disk |
| `SdCard` | `mmcstm32.c` with the millisecond interrupt and a card | program, interrupt, card |
| `Storage` | `BootConfig`, `FatVolume` and `SdCard`: what has to survive a loss of power | composition |
| `NtpServer` | `ntpserver.c` with EXTI3, TIM2, TIM3 and the registers of socket 0 | program and interrupt |
| `Sntp` | `sntp.c` and `dns.c` with TIM2 and a lossy network | program, interrupt, network |
| `UdpQueue` | what `recvfrom` promises: a queue of datagrams read in parts | abstract specification |
| `UdpSocket` | `socket`, `close` and `recvfrom` of `socket.c` in UDP mode, with `wiz_recv_data` and the receive buffer of the chip | detailed specification; implements `UdpQueue` |
| `SizeRegister` | `getSn_RX_RSR` and `getSn_TX_FSR`, byte by byte | program, chip |
| `Uart` | `USART1_IRQHandler`, the time-out of TIM2, `usart1Process` | program, two interrupts |
| `Board` | `main`: start-up, watchdog, the endless loop and its seconds | program, interrupt, hardware |
| `Dhcp` | `dhcp.c` with several servers and a lossy network | program, interrupt, network |
| `Tftp` | `tftp.c` with a server and a network that loses, repeats and reorders | program, interrupt, network |
| `Units` | the seven modules above that share no state, side by side, with the fairness of each | composition |
| `HttpServer` | `httpServer.c` and the TCP calls of `socket.c` down to single register reads, with the chip and the peers | program, chip, peers |
| `Snmp` | `snmp.c` and `snmp_custom.c` with several managers | program, network |
| `ServerProofs`, `SnmpProofs` | theorems of `HttpServer` and `NtpServer`; of `Snmp` | proofs |
| `UnitsProofs` | theorems of `Sntp`, `Dhcp`, `Tftp`, `Board`, `SizeRegister` and `Uart`, that `UdpSocket` implements `UdpQueue`, and that all of it holds of `Units` | proofs |
| `FatInvariant`, `FatProofs` | the inductive invariant of the volume of `FatVolume` with the steps inside a call; the calls, and the theorems on the disk | proofs |
| `FatData` | with the second half of `FatProofs`, the inductive invariant of what the files hold, and the theorems on it | proofs |
| `StorageProofs` | theorems of `BootConfig` and of `SdCard` | proofs |
| `MCEEPROM`, `MCBootConfig`, `MCStorage`, `MCHttpServer`, `MCSnmp`, `MCUnits` | values of the constants for TLC | instances |

### EEPROM

`header[p]` and `slot[p][i]` are the flash: the page status halfword, and the data
and address halfwords of each slot. `pc` names the place of the driver in
`EE_Init` (`i_...`), `EE_Format` (`f_...`), a write (`w_...`) and a page transfer
(`t_...`); `idx` and `at` are its loop variables; `ret` is what it returned.
`acked` is a history variable: the value each variable had when a write was
acknowledged, with `Unknown` for one whose write was cut off. An erase or a
programmed halfword is one step; `PowerLoss` may happen between any two and
`FLASH_...` may fail (`MaxFaults`). The model assumes that a single flash
operation is atomic: a halfword is programmed or not, a page erased or not. Flash
left by an earlier program is one of the initial states.

- `OnePageInService`: whenever the driver is called, one page is valid and the
  other erased and blank, ready for the next transfer.
- `AckedIsReadBack`: `EE_ReadVariable` delivers what was acknowledged.
- `InitReturnsItsCodes`, `WritesAreAccepted`: `EE_Init` never returns a `PAGE_FULL`
  or `NO_VALID_PAGE` that its caller cannot handle, and no write is refused in
  service.
- `ReadsOwnData`: the weakest promise, kept even with failing flash operations.
- `ImplementsStore`: the refinement of `EEStore`. The store is `sound` as long as no
  flash operation failed and no power loss met two valid pages; after that
  (`Unsound`) it promises nothing but `ReadsOwnData`.
- `InServiceAfterPowerUp`: after every power-up the driver gets into service.

`RoomAssumption` (a page has more slots than the table has variables) is what the
constants of the build satisfy (255 slots, 3 variables).

### BootConfig

Fifteen variables, a write of one of them is one step of the store. `Junk` stands
for what an uninitialised local of `test_eeprom` holds when a variable is not
found; `StackMayMatch` lets it be the right marker. As none of the variables is in
`VirtAddVarTab`, the write that finds the page full drops the others: `PageRoom` is
when that happens. `ConfigCgi` looks for each of the three addresses on its own, as
`set_basic_config_setting` does: one the request does not give keeps what `s2e_packet` has.
That record starts as zeros at every start and is loaded neither from the EEPROM nor from the
compiled defaults, because nothing calls `load_S2E_Packet_from_storage`
(`ConfigData.c:67`); so a form with an empty field saves zeros, or what an earlier
request left, and no property forbids it, as no comment or test says what should happen.
`SavedIsLoaded` and `SavedIsKept` speak of a save that was
written whole into one page; `NoTornAddress` is refuted, see section 5.

### FatVolume

A volume is its allocation table, its directory and the FSINFO; `FatSector` and `DirSector`
say which entries share a sector. `disk` is what the disk holds of it, `data` its sectors of
file data. `vol` is the table and the directory as the calls see them through the window, and
`win` the sector the window has and whether it is changed; `fs` is the free count, the last
cluster and whether the FSINFO is to be written; `file` holds a `FIL` for each file, with its
sector buffer. Nothing runs beside a call but the power, so a step is what a call does up to
and with the next sector it writes: it writes one sector at most, and before it changes
anything in memory, and the power may fail between any two steps. `call` is the call in
progress, with the place it has got to (`pc`) and its local variables:

| `pc` | where | steps |
|---|---|---|
| `free` | the loop of `remove_chain`, one cluster each time | `FreeCluster` |
| `grow`, `link` | `create_chain`: before a cluster is marked, between that and its link | `FollowChain`, `VolumeFull`, `TakeCluster`; `LinkCluster` |
| `next`, `sector` | the loops of `f_read` and `f_write`, on a cluster boundary and in a sector | `NextToRead`, `NextToWrite`; `FlushBuffer`, `ReadSector`, `WriteSector` |
| `seek`, `seeked` | the loop of `f_lseek` (and of `f_open` with `SEEKEND`), and behind it | `SeekOn`, `SeekInCluster`; `FlushBuffer`, `Seeked` |
| `emptied` | `f_open` behind `remove_chain` | `OverIsEmptied` |
| `cut` | `f_truncate` behind `remove_chain` | `Cut` |
| `entry`, `window`, `info` | `f_sync`: the entry; `sync_fs`: the window, the FSINFO | `SyncEntry`, `sync_window`, `WriteInfo` |
| `remove` | `f_rename` between its two entries | `RemoveOld` |
| `done` | the return | `Return` |

What leads to `pc` for the first time is the call itself (`OpenFile`, `WriteFile` ...). A look at
a sector of the table or the directory moves the window, which alone may write it back:
`Window(S, s, changed)` is what moving over the sectors `S` to `s` does, of which only the first
move can write. `PowerFails` may come between any two steps and mounts again what the disk
holds. Where it comes while files are exposed (see below) the volume is `torn`: what is on
the disk at that moment is still looked at, and the behaviour ends. A transfer of several sectors is
one step for each. The second copy of the table is not kept, as nothing reads it.

`content` and `promise` are history variables: what a file holds for the application, and
what it must hold on the disk even if the power fails now, which is what it held when
`f_sync`, `f_close`, `f_unlink` or `f_rename` last returned, unless a call has since
changed that part (`Open`: nothing is promised). `Unset` is a unit that a seek beyond the end
added; its value is undefined.

- `DiskIsSound`: at every instant at which no file is exposed the chains on the disk end, are long
  enough for their files, and share no cluster. Lost clusters are allowed: FatFs does not
  exclude them.
- `SyncedSurvives`: what is promised is on the disk, always, also when a failure has torn
  other files.
- `ReadsBack`: `f_read` delivers what was written there last, until the volume is torn.
- `ClustersAccounted`: until power fails, the table's used clusters are those of the
  files, the free count is right once known, and only a full volume cuts a write short.
- `NoAssertionFails`: until the volume is torn no call returns `FR_INT_ERR`, "assertion failed".

There are two windows of time in which files are exposed to a loss of power (`Exposed`):
between `f_truncate` and the end of the next `f_sync`, when clusters are free that the entry on the
disk still names, and during `f_rename`, which says of itself that an interruption can
cause a cross-link (`ff.c:5021`). In them `DiskIsSound` says nothing; without the exception TLC
finds both. A failure there tears the volume, and what FatFs then does with it is not
modelled: a file that was cut to one of its several clusters has its old length
again, and reading on, or once another file has taken its clusters, ends in `FR_INT_ERR` or in the data of
that file. `f_rename` to the name a file already has registers a second entry before it removes the
first, as the code does; a directory that has no free entry for it, which the code
would make longer, is left out. `ClustersAccounted` is
not promised after a power loss: FatFs does not look for clusters lost by it, and takes the
free count from an FSINFO that was left behind.

### SdCard

`drv` is what the driver keeps and, while a call runs, where it waits (`pc`): in
`select()` before a command, for the token of a block, for room to send one, for the end
of a transfer. What happens between two waits is one step, in which `Answered`,
`AfterBlock` and `AfterData` follow the nested conditions of the calls. `card` answers a
command, leaves it unanswered or answers with an error as it likes; a card that still sends
data answers with bytes of it, one that waits for data takes no command. `CardLosesPower`
and `Reset` may come at any point, `CardExchanged` between two calls. `known` and `durable`
are history variables: what a sector may hold for the caller, as long as the card has
power and after it was lost; `elapsed` counts the milliseconds of a call. `card.pend` is
the block that the card has accepted and is programming, if there is one; it is busy then.

- `ReadsWhatWasWritten`: a `disk_read` that succeeds delivers what the last successful
  `disk_write` wrote, be the card addressed by bytes or by sectors, whatever was refused,
  late or cut short before; after a loss of power, what `CTRL_SYNC` had waited for.
- `CallsEndInTime`: each call ends within a bound computed from its waits (`MaxTime`); TLC
  reaches each of the bounds.

What is assumed of the card, which is not in the repository: it ends a transfer of one block
when it is deselected and any transfer at CMD0 and CMD12, it programs a sector whole or not
at all, and it programs what it has accepted unless it loses its power. A step that waits
for nothing takes less than a millisecond.

### Storage

`BootConfig`, `FatVolume` and `SdCard` share no variable. `Init` chooses one of them and
follows it alone, as in `Units`. The disk of `FatVolume` writes a sector whole or not at all
and never fails; what it takes from the layer below is what `SdCard` shows, a write that is
reported is what is read later, but the two are not run together.

### NtpServer

One step is one access to a register or a variable that EXTI3 also uses; an
interrupt is taken before the next step of the loop. A time stamp carries the
instant it stands for, and whether it is in host or network order, so the in-place
`htonl` of `recvTime` is visible when an interrupt comes in between. `Sn_RX_RSR` is the
register itself, which the chip raises by the size of a datagram and its header and
`recvfrom` lowers; `NTPUDP` looks at nothing else.
`FreshIsStamped`: a reply to a request that arrived on a quiet socket carries the
time of that request's arrival, in network order, before its transmit time.
`OriginEchoed`: the reply returns the transmit stamp of the request it answers.
`AloneIsTaken`: a request that stays alone in the socket is eventually read.

`clock` counts ticks; `timenow` advances every `SecPeriod` of them (999 interrupts) and
the fraction turns round every `CntPeriod` (1000 ms). `StampsRise`, that a reply is
never stamped as sent before its request was received, holds while the two are equal and
is refuted when they are not, as in the code.

### Sntp

`Tick` is the second of TIM2, which advances `sec_cnt`, `RetrySend`, `sycnPeriod`
and `dns_1s_tick` between any two steps. The counters saturate one past the value
they are compared with, which changes nothing. The answers of the network are
abstracted to what they are (`address`, `failure`, `time`) and the port they go
to. `SetByServer` says that `timenow` comes from the time server unless `DNS_run`
gave up: only then may a late DNS answer reach the socket on which `SNTP_run` listens,
because `DNS_run` returns without closing it (`dns.c:542`). `RequestsSpaced`: two
time requests are more than `RETRY_SEND` seconds apart. `KeepsTime` (`TimeIsKept` in
`Units`): the time is set infinitely often. `TypeOK` bounds the time spent in `DNS_run`.

### UdpSocket and UdpQueue

The receive buffer `rxMem` holds the bytes of datagrams, each behind its header (eight
bytes in the chip, one here), and wraps; `rxWr` and `rxRd` wrap at another, larger
value, as the 16-bit pointers of the chip do, and may start just below the wrap. A byte
that was given back is `Junk` and shows if it is read again. `udpPc` is the place in
`recvfrom`: the wait for a datagram, its header, its data; datagrams arrive between
them. The history variable `udpQueue` lists the datagrams that are not read to the end,
and how much of the first is read; no guard and no variable of the code depends on it.
`ImplementsQueue` says that what `recvfrom` takes from the buffer is what `UdpQueue`
takes from that list: order, senders and contents survive short reads
(`sock_remained_size`), datagrams without payload, wraps, a full buffer, and the socket
being opened again.

### SizeRegister

A size is two bytes of `BYTE` values, read high byte first while the chip raises it.
`ReadIsTrue`: the value returned is one the register had during the call, or zero.
That it needs both readings to agree is what the mutant shows.

### Uart

`USART1_IRQHandler` and `usart1Process` both write the buffer and `USART1_index`, which
is the receiver's position and the loop counter of the clearing loop. `inMemory` chooses
whether the compiler keeps that counter in memory there or in a register; both
are modelled. `quick` says that a byte takes longer than the steps of the loop that wait
for nothing; bytes come freely while the loop polls or prints. `PrintedWhole`
is stated for messages shorter than the buffer that begin when the loop has
finished. A message of exactly 25 bytes has no terminator: `printf` goes on into what the
linker put behind the buffer (the counters of the timer, `Listings/stmw5500.map:4180`).

### Board

`mainPc` goes from the wait for the link through the start of the watchdog into the
loop. `Served` (the return of `networkSevices`) has no fairness: a network call may
hang, and only the watchdog ends it. `SntpInTime` bounds the time between two calls of
`SNTP_run`, though a second counted between `main.c:97` and `main.c:99` is lost and the
8-bit counter wraps; `LoopGoesOn`: once the cable stays in, the loop is entered again and
again.

### Dhcp

A message is its type and the server it comes from. `Parse` is what `parseDHCPMSG` does
with any message in any state: the server and the lease time are overwritten before the
type is looked at, and `DHCP_XID` is never compared. `LeaseIsCarried`: while leased or
renewing, the chip has the address that is asked for. `LeaseNotOutlived`: the renewal and
its repetitions are over before the lease is, unless a message of another exchange came
in (`mixed`); without that condition TLC finds a lease whose time was overwritten by a
late offer of another server. `GetsALease` (`LeaseIsGot`): unless stopped, the client gets
a lease again and again.

### Tftp

The network delivers any message sent so far, any number of times, or never. The server
opens a port for each request it takes, so a repeated request may have two.
`SuccessIsWhole`: a transfer that ends with success saved every block once and in
order, unless a message of an earlier transfer was taken for one of this (`strayed`).
Without that condition TLC finds the last block of an earlier transfer, which is short,
end the new one with success and nothing saved: `recv_tftp_data` looks at the length of a block
it did not accept (`tftp.c:429`). `ParseAgain` is the buffer being parsed once more when
nothing has come (`len` is unsigned, `tftp.c:633`). `TransferEnds`: every
transfer ends, whatever the network does.

### Units

These seven parts share no variable, so no step of one changes what another does.
`Units` chooses one in `Init` and follows it alone: this checks each of them in full, in
one run, without the product of their states. Its fairness is stated part by part.

### HttpServer

The main loop calls `httpServer_run` for each sequence number in turn; `pc` stops
before each register read of `Sn_SR`, `Sn_IR`, `Sn_RX_RSR`, `Sn_TX_FSR`, at which
the chip may have moved. `HTTPSock_Status` is modelled with all its fields that
matter (status, page, length, offset). `sr`, `rx`, `tx`, `busy` and `ir` are the chip's
registers. Peers connect, ask, close and reset at any time; SENDOK,
acknowledgement and timeout come from the chip. A page has a length in
units, of which one call hands out `ChunkLen`. A request is reduced to what its
answer needs: a page, a short answer (CGI, 400, 404), or config.cgi, after which
the board restarts. `ReceiveFaults` is the path after an error of `recv`: `len` is
unsigned, so the terminator is stored far beyond the buffer, which ends in a
fault and a watchdog restart.

- `RecordsAreConsistent`: a record in the middle of a page has a page and an offset
  strictly inside it, and one that waits for a request is clean: no page starts at
  a left-over offset.
- `PagesAreTiled`: the parts handed to `send` tile the page.
- `SocketsComeBack`: a socket whose peer has asked something comes back to listening.

### Snmp

A request is a record with the kind of request, the form of its length fields
(one byte, or 0x81/0x82 and one or two bytes) and its bindings. Values are byte
sequences of their real length, so every length that `insertRespLen` writes can
be compared with the size of what really follows. `parse.index` is `response_msg.index`: each
binding of an answer has its place in the datagram (`at`), so the size of a part is the
distance of two places and not a sum. `Table` is the real table of 14
entries. `VarBindMissing`, `VarBindGet`, `VarBindSet`, `VarBindBadValue` are
the ways through `parseVarBind`; datagrams may arrive between them. `request_msg.buffer` and
`response_msg.buffer` have `MAX_SNMPMSG_LEN` bytes, and the code checks neither the length of a datagram
nor `response_msg.index` against it. A request that is longer (`ReceiveOverruns`), or a binding that brings
the answer beyond it (`Add`), sets `overrun`: `len` and `index` of the message and whatever the
linker put behind it are overwritten, and the model says nothing of the agent from then
on. The three properties speak of the time before.

- `LengthsNest`: all four levels of lengths are right, in answers and in the trap, and
  the bindings fill the list without a gap. The lengths of the bindings are right in
  every answer; those of the three outer levels in answers whose three outer headers have
  one form that has room for the message. The code needs the restriction: `parseSequenceOf`
  returns its size without its own header and `parseRequest` counts its own
  header instead, and a short form is kept when the answer outgrows it. Without
  the restriction TLC finds a GET of sysDescr, sysContact and sysName as a
  counterexample (129 bytes of values and names behind a one-byte length).
- `SetsAreReadBack`: for texts only the beginning, as `setEntry` does not terminate
  the new text, and no more than up to a zero in it, as `getEntry` counts with `strlen`.
- `WalkEnds`: a GETNEXT walk ends, having seen all entries once and in table order.

## 3. Runs

| Run | Shows | Bounds |
|---|---|---|
| `EEPROM_recovery` | the driver's promises under power loss anywhere, and once more inside each recovery | 2 variables, 5 slots, both in the table, 1 power loss per recovery; 2.9 million states |
| `EEPROM_store` | refinement of `EEStore`, getting into service, and no foreign data with a failing operation or power lost with two valid pages | 2 variables, 3 slots, 1 fault |
| `EEPROM_untabled` | refutes `AckedIsReadBack` for the variables the firmware uses | 3 slots |
| `Storage` | configuration: saves are loaded and kept; files: the five properties of `FatVolume`; SD card: what is read, how long a call takes | 2 power losses, a page of 15 slots, requests that give an address for any of the fields, the others being zeros; 2 files, 4 clusters, 4 calls, 1 power loss; cards of 3 sectors, 2 of them used; 1.3 million states |
| `BootConfig_torn` | refutes `NoTornAddress` | 1 power loss |
| `NtpServer` | stamps, echo, progress | 4 datagrams of 48 or 68 bytes, send may fail |
| `NtpServer_wedge` | refutes `RequestsAreTaken` | 2 datagrams |
| `NtpServer_clock` | refutes `StampsRise` | 1 datagram, a second of 3 ticks and a fraction of 4 |
| `Units` | the time client, UDP sockets, size registers, UART, main loop, DHCP and TFTP, each alone | see below; 127 000 states |
| `HttpServer` | records, tiling, progress | 2 sockets, pages of one and of three parts |
| `HttpServer_send` | refutes `SendsComplete` | 1 socket |
| `Snmp` | lengths, read-back, walk | 9 requests, one of them and the answer of another longer than a buffer of 512 bytes, 1 datagram queued, the whole table; 371 000 states |

Why the bounds suffice. Two variables are one being written and one that must be
preserved; five slots let a page be written several times over before it fills, and
the page fills and is transferred over and over without any bound on the number
of writes or of power losses (only those inside one recovery are counted, in
`initCrashes`). One address, given for any of the fields, and the zeros of those a
request leaves out are the two values that tell one field, and an old configuration, from
another; `BootConfig_torn` has two addresses. A save of fifteen variables fills a page of fifteen, and what the
lost ones before it left behind puts the next across the end of a page at every offset. A volume
of four clusters, of one sector of two units, with two table entries and one directory entry in a
sector: a file of three units has a whole and a part of a sector, two links are in different
sectors, and the search for a free cluster wraps. `Layouts` begins with an empty
volume, a full one, and one with a single free cluster between two files; names are
interchangeable, so two of them are symmetric. Four calls open two files and write both, or
fill, seek, truncate and write again, or open, write, close and open once more; the free count may be
unknown at first. A card addressed by bytes and one addressed by sectors
tell the two forms of address apart; two used sectors make transfers of one and of two
blocks, and a third lets a wrong address hit a sector; calls, faults of the card, losses of
its power and exchanges are not counted. Its waits are of 1 ms, that of the initialisation 2 ms: they
keep the order of the real ones (10, 1000, 500 and 200 ms) where the code depends on it, that a
command may take its time within an initialisation. Two sockets are enough because `httpServer_run`
touches one record and one socket per call, and its only shared state is
the parsed request, which does not outlive the call; a page of three parts has a
first, a middle and a last one. The times of `Sntp` keep the order of the real
ones (DNS 3 s, retry 5 s, resynchronisation 160 s; here 2, 3 and 7); only the distance is
smaller. In `Units` a UDP buffer of four bytes holds up to two datagrams with their
headers, wraps with every one of three, and the pointers wrap at eight; numbers of
datagrams are used over and over, so the run has no last datagram. A byte of three values
has a carry into the high byte and one that is followed by another. The UART buffer of
three is shorter than the longest message of four, so it is overrun, filled exactly
and not filled. Two DHCP servers suffice for an answer that is not from the chosen
one; their leases (6 s and 8 s) are as long as a renewal with its repetition takes, or
longer. Two TFTP transfers of two blocks, with two ports of the server, let messages of
one transfer reach the next and both ports answer one request; the two time-outs that
fail a transfer (five in the code) let one repetition succeed. The watchdog of 2 s keeps
its relation to the two seconds of the loop, and `sec_cnt` wraps at 8. Values of one, three
and four bytes, one of them with a zero in it, suffice for `Snmp` because lengths only add up. `Storage` and `Snmp` may stop, at the end of
the calls or on a torn volume, and behind an overrun; deadlock is not checked there, and in `Snmp`
`WalkEnds` would notice a stop without one. `MaxLag` bounds how
late the main loop may call `SNTP_run` (the loop does not block for longer than a
transmission timeout of the chip); `MaxSeen` is never reached.

Fairness. The processor takes its next step (`WF` of the driver, of `NTPUDP`, of
`SNTP_run`, of `Processor`, of `snmpd_run`, of `DHCP_run`, of the time-out of
`TFTP_run`, and of `OwnSteps` of the main program, which leave out the network
calls): `main.c` polls in an endless loop and
the interrupts return. The chip finishes a command and gives up a transmission
after its own retries (`WF` of `SendDone`, `Closed`, `Acknowledged \/ TimesOut`).
TIM2 counts (`WF` of `Tick`, of `CountSecond`, of the two time handlers) and the watchdog bites.
For `TimeIsKept`, `LeaseIsGot` and `WalkEnds`, the network and the peer answer again and
again if they are asked again and again (`SF`), and for a lease some acknowledged
address must be free: no progress can be promised without it. `TransferEnds` asks nothing
of the network, `LoopGoesOn` only that the cable stays in. No
fairness is assumed of clients' requests, of closes or of resets.

## 4. Proofs

The theorems below hold for every value of the constants that satisfies the named
assumptions of the modules; those TLC evaluates on every run. Each is proved from an
inductive invariant, with one step per action, and one below it for each conjunct the
action can disturb.

### EEPROMProofs

For every set of variables and values, every number of slots, faults and power losses:

- `TypeCorrect`: `Spec => []TypeOK`. Slots are programmed inside a page, and both
  copying loops stay inside `VirtAddVarTab`.
- `ReadsAreOwn`: `Spec => []ReadsOwnData`. A read delivers data that was written
  for that variable, or says that there is none, whatever fails.

`ReadsOwnData` is not inductive: it speaks of reads, and a write or a copy is
spread over two flash operations, data first. The inductive invariant `IInv` adds
that every slot with an address holds data of that variable (`SlotsOwnData`), also the
slot whose address is still to be programmed (`HalfWritten`), that the argument kept
through a transfer belongs to its variable (`ArgOwnsData`), and that `idx` is in the
table between the two halves of a copy (`CopyInTable`).

If also a page has room for a transfer and for every recovery that may be cut short
(`RecoveryRoom`: `NSlots > NumbOfVar * (MaxInitCrashes + 2)`):

- `OnePageIsInService`: `Spec => []OnePageInService`.
- `InitFindsRoom`: `Spec => InitReturnsItsCodes`.
- `WritesAreTaken`: `Spec => WritesAreAccepted`.

Every recovery that is cut short may leave a copy of each variable in the receiving
page, and the next one begins behind them. `PagesInv` says for each value of `pc` what
state the two headers are in and beyond which slot the receiving page is free: slot
`1 + NumbOfVar * (1 + initCrashes)` when a recovery begins (`Budget`), one more for each
variable it has copied. The 255 slots and three variables of the build have room for 82
power losses in a row inside recoveries. The run `EEPROM_recovery` has fewer slots than
`RecoveryRoom` asks for: the condition is sufficient, not necessary.

If, further, every variable is in the table that a transfer copies (`AllTabled`, which the
firmware's own variables are not: the run `EEPROM_untabled` refutes `AckedIsReadBack`
without it):

- `AckedAreReadBack`: `Spec => []AckedIsReadBack`.
- `DriverImplementsStore`: `Spec => ImplementsStore`, the refinement of `EEStore`.

Both need `SlotsInv` (the free slots of a page are its last ones, and a slot without
address is the last in use), so that a programmed address changes what its own variable
reads as and nothing else (`AddrShows`), and a programmed data halfword nothing at all
(`DataHides`). `AcksInv` says which page holds the acknowledged data at each `pc`, and
for the copying loops that the variables before `idx` are on both pages. `CopyInv` says
the same without the history variable, of what the pages read as. The abstract value of
the flash, `Durable`, is what `EE_Init` would make of it at that moment; the step lemmas
`WriteSimulates`, `TransferSimulates` and `InitSimulates` show that it changes at one step
of a write only: the programming of the address, of the variable's slot or of its slot on
the page that a transfer fills. The page headers move under it without effect.

### UnitsProofs: the clients

*DHCP*. For any servers, lease times, numbers of retries and waiting times (`DhcpAssumption`):

- `AddressIsTheLeases`: `DhcpSpec => []LeaseIsCarried`, from `Chosen`: in a lease there is
  a server and an address, and the lease time is its own unless another exchange meddled.
- `LeaseEndsInTime`: `DhcpSpec => []LeaseNotOutlived`, for leases that are long enough for a
  renewal and its repetitions (`LeaseAssumption`; about 46 s with the code's constants).
  `LeaseAge` and `RenewalAge` bound the age of the lease by `dhcp_tick_1s` and the
  repetitions used up.

*TFTP*. For files of any length, any number of transfers and of ports of the server, and every
loss, repetition and order of messages (`TftpAssumption`):

- `FileIsWhole`: `TftpSpec => []SuccessIsWhole`. `TftpInv` relates three parties: a message
  of the server has been sent by its port and not beyond where that port is
  (`FromServer`), no port of this transfer is more than one block ahead of the client and
  no acknowledgement ahead of what was saved (`InStep`), and what was saved are the blocks up to
  `g_block_num` (`SavedSoFar`). `BufferDone` is needed for `ParseAgain`: a datagram that is
  parsed a second time must change nothing.

*The time client*. For all waiting times, periods and numbers of retries (`SntpAssumption`):

- `TimeIsTheServers`: `SntpSpec => []SetByServer`. The invariant `SourceInv` says who has
  the socket open on which port (`OwnPort`) and that nothing but time answers is on its
  way to the port of `SNTP_run` or waits there (`OnlyTime`); `DNS_run` that gives up breaks
  the first, which is why `SetByServer` excepts it.
- `RequestsAreSpaced`: `SntpSpec => RequestsSpaced`. The counter that `SNTP_run` tests is
  never ahead of the time since the last request (`Spaced` of `TimesInv`).

### ServerProofs: the web server

For any number of sockets, any pages and any length of a part (`SeqNumsAssumption`,
`PageAssumption`, `BufferAssumption`), whatever the peers and the chip do between two
register reads:

- `RecordsStayConsistent`: `Spec => []RecordsAreConsistent`.
- `PagesStayTiled`: `Spec => []PagesAreTiled`.

The invariant `HttpInv` says of each record how far its page was handed over
(`InProcess`, `Done`, `Waiting`) and of the response in `send` which part of which page
it is (`Header`, `Part`); the state of the chip is left free but for what `httpServer_run`
has just read (`Outside`).

### UnitsProofs: the UDP socket

For all lengths of datagrams and of reads, and every buffer that fits a whole number of
times, twice at least, in the range of the pointers (`UdpAssumption`; 2^16 and at most
16384 in the chip):

- `SocketIsQueue`: `UdpSpec => ImplementsQueue`. The invariant `SocketInv` ties the buffer to
  the history: there are positions, counted from `Sn_RX_RD`, at which the datagrams of
  `udpQueue` lie one behind the other up to the chip's pointer (`Layout`), each with its header
  and its bytes but for what is read (`Holds`); only the first may be begun, and then
  `sock_remained_size` is what is left of it (`FirstBegun`); `recvfrom` looks for a header
  only where none is begun (`HeaderThere`). Counted from `Sn_RX_RD` the positions do not wrap;
  that the wraps of the pointers and of the buffer agree is in `SameCell` and `Distance`,
  and there the buffer has to fit a whole number of times. A step moves all positions by
  what it reads (`HoldsNearer`), and what the chip stores comes behind them
  (`StoredBehind`).

### UnitsProofs: main loop, registers, UART, and together

The main loop. For every watchdog time, and every width of `sec_cnt` that holds two of them
(`BoardAssumption`: `SECONDS > 2 * WATCHDOG`; 256 and 13 s in the code):

- `SntpIsCalledInTime`: `BoardSpec => []SntpInTime`. `BoardInv` relates the time since the
  last call to the watchdog's, place by place in the loop (`PassBound`), and to `sec_cnt`,
  which lags behind by a watchdog time at most and wraps only in the first pass, as it may
  be anything when the loop is entered (`SecondsFollow`).

The size registers. For every width of a byte and every way in which the chip raises the register:

- `SizesAreTrue`: `SizeSpec => []ReadIsTrue`. `ReadIsTrue` speaks of the end of the call
  only; the invariant `SizeInv` follows the four reads: the high byte read first is not
  above the register (`HighIsOld`), the first reading has its low byte from a size the
  register had and its high byte from that or an earlier one (`FirstIsOlder`), and the
  high byte of the second reading is not older than that size (`SecondIsNewer`). When
  the readings agree the high bytes are squeezed to that size.

The UART. For buffers, messages and time-outs of any length (`UartAssumption`), and for
both ways of compiling the clearing loop:

- `MessagesArePrinted`: `UartSpec => []PrintedWhole`. `Clearing` says what the loop has
  cleared when no byte has come since the time-out was stopped, wherever its counter is
  kept; `InBuffer`, that a message which began in an empty buffer stands at its beginning,
  zeros behind it; `NoneAfter`, that it gets no byte after its time-out; `PrintedSoFar`,
  what the loop has printed of it. The last byte of the buffer stays zero behind a message
  that is shorter than it, which is where `PrintedWhole` needs its condition.

Together.

- `UnitsBehave`: `Spec => SntpSpec /\ DhcpSpec /\ TftpSpec /\ UdpSpec /\ SizeSpec /\ UartSpec /\ BoardSpec`.
  What is proved of the units holds of the specification that the run `Units` checks.
- `UnitsAreTyped`: `Spec => []TypeOK`, from `SntpIsTyped` and the type invariants of the
  other parts. That `DNS_run` ends in time is a part of it: `DnsSpent` says that every
  repetition has used up a waiting time.

### ServerProofs: the NTP server

For any two timers, any number of requests and of ticks (`NtpAssumption`):

- `FreshStampsAreTrue`: `NtpSpec => []FreshIsStamped`. A request that finds the server at rest
  waits first with its flag set (`FreshWaits`); the flag keeps INTn low, so EXTI3, which needs
  an edge, runs once for it (`StampedFrom`) and not again until the flags are cleared
  (`FreshAlone`). `FreshStamps` then follows the two stamps through the load and the store of
  each in-place `htonl`, from host order into the packet in network order.
- `OriginIsEchoed`: `NtpSpec => []OriginEchoed`, when every datagram is at least as long as
  an NTP message (`WholeRequests`). `RegisterCounts` relates `Sn_RX_RSR` to the datagrams that
  wait: a single one has exactly its size, and two cannot have the size of one. Without
  `WholeRequests` two datagrams of 20 bytes have it, and `NTPUDP` answers
  the first of them with what an earlier request left in `clientPacket`.

`StampsRise` is not proved but refuted: see section 5.

### StorageProofs

The configuration. For any addresses, any room in a page, any number of power losses and
whatever an uninitialised local holds (`ConfigAssumption`):

- `SavedConfigIsLoaded`: `ConfigSpec => []SavedIsLoaded`.
- `SavedConfigIsKept`: `ConfigSpec => SavedIsKept`.

`ConfigInv` says that the variables of `saveip` before `next` are in the store as they are
being saved (`WrittenSoFar`, `WritesNext`), and all of them while a configuration counts as
saved (`SavedIsHeld`). That the fifteen addresses differ (`SaveAddrsDiffer`) lets each write
keep those before it, and `WholeIsLoaded` is the agreement between `saveip` and `test_eeprom`: what
the one writes the other reads as the same configuration, markers included.

The SD card. For any cards, sectors, data and waits (`CardAssumption`: the wait of the
initialisation is longer than that of a command), and transfers of any length:

- `CallsEnd`: `CardSpec => []CallsEndInTime`. The invariant `TimeInv` adds to the time a call
  has taken what is left on its timer, and bounds the sum at each place a call waits
  (`InitInTime`, `ReadInTime`, `WriteInTime`, `SyncInTime`), by the blocks already sent. The
  initialisation is the hard one, as its two timers run at the same time: whoever asks the
  card again looks at `Timer1` first, but the second half of an application command and the
  last command do not, which is why two more waits of a command are in its bound.
- `ReadsAreTrue`: `CardSpec => []ReadsWhatWasWritten`. The invariant `DataInv` says that what
  the card holds, or programs, is what the program may know of each sector (`CellsKnown`);
  that a card in use is addressed by sectors if and only if it wants that (`Identified`), for
  which the initialisation must not take a high-capacity card for an older one, although the
  card may leave any command unanswered (`Identifying`); and that a card that still has its
  power is in the transfer of this call at the sector of this block (`Transferring`). In a
  write, the blocks that were sent are held or being programmed (`WillHold`).

### FatInvariant and FatProofs

For a volume of any number of clusters, of any cluster, sector and entry sizes, any files and
layouts, any number of calls with any lengths and offsets, and any number of power failures
(`SizeAssumption`, `LayoutAssumption`), wherever the power fails:

- `VolumeIsKept`: `FatSpec => []VolumeInv`, on which the next three rest: `FatInv` until a failure tears
  the volume; after that, that no call runs and no file is open.
- `DiskStaysSound`: `FatSpec => []DiskIsSound`.
- `ClustersAreAccounted`: `FatSpec => []ClustersAccounted`.
- `AssertionsHold`: `FatSpec => []NoAssertionFails`.

The properties make the exceptions that section 2 states: `DiskIsSound` while files are
exposed, `NoAssertionFails` once the volume is torn. None of the three is inductive: they speak of the disk, of the time between calls, or of the
moment a call ends. `FatInv` says that there are chains, one for each file and one of nobody's
(`ChainsFit`), which share no cluster and which the table in the window links to their ends
(`Chained`). Nobody's chain is what `remove_chain` has still to free, or the cluster that
`create_chain` has marked and not linked (`Floating`). As long as the power has not failed every
cluster marked as used is in one of them (`Complete`), which is what the free count is compared
with (`Counts`). The entries and the FILs name the heads of the chains: a file that is not open
by its entry (`EntryFits`); an open one by its FIL (`ChainFits`), while its entry may lag behind until
`f_sync`, and after `f_truncate` says nothing that could be relied on (`Loose`). The current
cluster is that of the unit before the pointer, and of the one behind it inside the loops of
`f_read`, `f_write` and `f_lseek` (`PointerFits`): that `get_fat` is never asked of a wrong cluster,
and so no assertion fails, follows from this.

The disk differs from what is seen through the window in the window's own sector only
(`Agrees`). So a disk to which the window is written holds just what was seen before that step
(`WrittenIs`), and it is enough that what is seen is sound at every step that may write it
(`VolFine`): there the order of the code comes in, as a new cluster is marked before it is linked
and linked before an entry or a length needs it, and an entry is emptied before its chain is freed.
`DiskFine` is the invariant for the disk; it holds wherever the power may fail, and beyond that
within `f_sync` as soon as the window has been written (`Steady`). `Fine` is the form of `Sound` that the
steps keep, with the chains named.

The chains are sequences that exist, not the values of a recursive operator, and what they need
of induction is in the library's facts about sequences and finite sets: a chain has no cluster twice
(`OneChain`), so the volume's clusters bound its length, and `Chain(t, c)` is it (`ChainIs`).

### FatData

For the same volumes, calls and power failures:

- `DataIsKept`: `FatSpec => [](~torn => DataInv)`, on which `FilesAreRead` rests. A failure behind `f_truncate`
  may leave two files with one cluster, so nothing of the kind is claimed of a torn volume.
- `FilesAreRead`: `FatSpec => []ReadsBack`.
- `SyncedIsKept`: `FatSpec => []SyncedSurvives`.

`DataInv` stands on `FatInv`: it speaks of the chain that the table shows for each file
(`ChainOf`), of which `FatInv` says that it ends and shares no cluster. A unit of a file is in one place, the
sector `Loc` of that chain. It is what the disk has there, unless the buffer of the file has a
newer one, and if the buffer has that sector it has that unit (`Fits`): this is what the direct
transfers past the buffer could break. A buffer that has yet to be written is for a cluster
of its own file, or for one that `f_truncate` took from it and nobody else has (`Own`), so
it cannot destroy another file. It belongs to a file that is marked as changed
(`Marked`), which `f_sync` and `f_close` go by; and a pointer inside a sector has that
sector in the buffer (`Inside`), which the next write relies on.

What is promised is the beginning of what the file holds, and it is in the sectors, not only in the
buffer (`Pledge`); the disk has an entry for it, and a chain that begins as the file's does
(`DiskKeeps`), although the window may hold newer ones; and outside the calls that change it, a file
that is not marked as changed has all that it holds promised (`Current`). For that, `f_sync` must
write the buffer before the entry and the entry before it returns (`AtReturn`), and a cluster may be
taken from a file only when nothing in it is promised. `SyncedIsKept` makes no exception for a torn
volume: what is promised then is of files whose entries and chains are whole on the disk
(`DiskKeeps`) in every step before the failure, also within `f_rename` and behind `f_truncate`, as
those took their own promises back; and a name is on the disk no more than once but for the file
that is being renamed (`NamedOnce`). `VolumeData` is the invariant that goes on across the failure.

A step that leaves a file alone (`OtherData`), only moves its pointer (`PointerData`) or lengthens its
chain (`GrowthData`) keeps `DataInv` for reasons of its own, which the steps of the calls share; those
that move units between the buffer and the disk (`FlushStep`, `ReadSectorData`, `WriteSectorData`) and those that give
clusters back (`CutData`, `FreeClusterData`) each have a proof of their own.

### SnmpProofs

For any requests of well-formed messages (`SnmpAssumption`), with any number of bindings, any
values and any mixture of the forms of a length field, and for buffers of any length. All three
are claimed until a request or an answer overruns its buffer (`overrun`):

- `LengthsAreTrue`: `Spec => []LengthsNest`. `Assembled` follows an answer while it is put
  together: each binding begins where the one before ends (`Chained`) and its length is its
  own (`Measured`), `parse.index` is the end of the last one (`EndOf`), and the size that
  `parseSequenceOf` has added up is its distance from the head of the list. A binding never
  outgrows the form it came with: echoed it is as long as it was, and what `getEntry` puts
  in its place is shorter than the smallest form allows (`AddKeeps`, `WireIs`).
- `SetsAreKept`: `Spec => []SetsAreReadBack`. `TableInv` says of each entry that it has the
  shape its type demands (`IsStored`), and that it holds what was set last (`Holds`): a text
  begins with it, an integer is what `getValue` makes of it and `dataLen` its length. A read
  writes to the entry too (`Refreshed`), but only what `strlen` counts.
- `WalksAreInOrder`: `Spec => [](~overrun => WalkIsInOrder)`. A request of a walk says by its number which
  name it must carry (`Numbered`), so it does not matter how often it is repeated or what the
  agent did since, and an answer says by its number which name it must bring (`Answers`). This
  is the safety half of `WalkEnds`, and all that a walk is promised without fairness.

### Only model-checked

All liveness properties: they need fairness and ENABLED, which the prover does not take. Every
safety invariant of a run that passes is also a theorem. What the runs that refute
something check is not.

## 5. Where code and comments disagree

Each is a run that TLC refutes, listed under `findings` in PROJECT.json.

- `EEPROM_untabled`: `VirtAddVarTab` holds 0x5555, 0x6666, 0x7777, the firmware
  writes 0 to 15; the first page transfer loses what the configuration wrote.
- `BootConfig_torn`: the markers are written before the addresses they vouch for.
- `NtpServer_clock`: `timenow` advances every 999 ms, the fraction turns round every
  1000 ms and is not reset with it (`timerHandler.c:47`, `102`); within a second it
  falls back, and a reply is stamped as sent before its request was received.
- `NtpServer_wedge`: only a receive size of exactly 56 is read, and the register
  counts all datagrams waiting; after two requests nothing is read any more.
- `HttpServer_send`: `send` on a blocking socket returns `SOCK_BUSY`, and the page
  loses the part.

Others met on the way that have no run of their own: two valid pages are
formatted away, and an acknowledged write may be lost after a failed transfer
(`AckedIsReadBack` and the store are promised while `faults = 0`); the
resynchronisation period is 160 s where `sntp.c:20` says an hour, the retry 5 s where
`sntp.c:19` says a minute; a HEAD request is answered with a body
(`httpServer.c:558`); an empty field of the configuration form is saved as zeros
(`ConfigData.c:14`); neither buffer of the SNMP agent is checked against its 512 bytes
(`snmp.c:164`, `519`); a file cut by `f_truncate` and not synchronised before the power fails has
its old length over freed clusters (`ff.c:4736`), which FatFs shares with its like; a socket found closed is opened
again without resetting its record (`httpServer.c:265-275`), so a new connection is
given the rest of the page of the one before; the DNS query is repeated with length 0 (`dns.c:549`); a
request of a kind the agent does not know is answered with a message that ends
after the community (`snmp.c:668`); after a DHCP refusal the chip keeps the address it
has (`dhcp.c:788`); a TFTP transfer ends with success on any short block
(`tftp.c:429`); the watchdog of 13 s is shorter than the 31.8 s after which the chip gives
up a TCP transmission that nobody acknowledges, so `send` may end in a reset; PA1 is both the
link indicator of `w5500init.c:158` and the blinking LED of `main.c:116`; `CTRL_SYNC` takes a card that
has lost its power for one that is ready (`mmcstm32.c:337`), so `SdCard` promises nothing of
what it was to make durable then; a failed `disk_initialize` leaves the SPI, which the W5500 shares, at
its slow clock (`mmcstm32.c:267`, `304`); `CTRL_TRIM` always fails, as `MMC_GET_CSD` has no case
(`mmcstm32.c:378`); `MMC_GET_TYPE` assigns its own parameter and returns nothing
(`mmcstm32.c:333`); a read of 128 sectors may take 26 s, twice the time of the watchdog.

## 6. Not modelled

- The HTTP parser and CGI helpers: text handling without state that others share; what a
  request asks for is a choice of `HttpServer`. The register accesses of the W5500 driver
  other than the size registers, `wizchip_conf.c`, the SPI and GPIO set-up: each is a
  sequence of transfers that nothing interrupts to its harm.
- Of FatFs: long names, sub-directories, `f_readdir`, `f_mkdir`, `f_stat`, attributes, labels,
  `f_mkfs`, the string functions, FAT12/16 and exFAT, disk errors, what becomes of a
  torn volume, and the code page
  tables of `ffunicode.c` (a third of all lines of the repository are numbers in them).
- Of the SD card layer: the geometry of `GET_SECTOR_COUNT` and `GET_BLOCK_SIZE`, `MMC_GET_TYPE` and
  `CTRL_TRIM`; `diskio.c`, a skeleton outside the build; `stm32f1fatfs.c`. `util/`, both FTP ends and MQTT: not in the build, and
  nothing in the firmware provides the file system or the broker they need. DHCP and TFTP
  are not in the build either, but need nothing but a UDP socket, and the configuration
  already has the setting for DHCP.
- Device headers, start-up assembly and register definitions: they hold no behaviour.
- Durations of flash and SPI operations; counters that wrap after 49 days; TFTP block
  numbers beyond 65535; an infinite DHCP lease.
- What the SNMP agent does after a message has overrun its buffer.
- Malformed messages of SNMP, DNS, DHCP, TFTP and HTTP.
- `sendto` of the UDP sockets apart from its use in `NtpServer`, `Sntp` and `Snmp`; MACRAW and
  IPRAW sockets.

## 7. Plan

1. Done: `EEPROM`, `EEStore`, `BootConfig`, `FatVolume`, `SdCard`, `Storage`, `NtpServer`, `Sntp`, `HttpServer`,
   `Snmp`, `UdpSocket`, `UdpQueue`, `SizeRegister`, `Uart`, `Board`, `Dhcp`, `Tftp`, `Units`.
2. Composition: `NtpServer` with `Sntp` (what the NTP server announces before the
   time is set); `BootConfig` over `EEPROM` itself for a small configuration; an abstract
   delivery specification that `HttpServer` implements; sub-directories and disk errors in
   `FatVolume`, and with them `FatVolume` over `SdCard`.
3. Proofs: every safety invariant of the passing runs is proved. What could follow is the
   composition of 2.
