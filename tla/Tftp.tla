-------------------------------- MODULE Tftp --------------------------------
(***************************************************************************)
(* The TFTP client of tftp.c: TFTP_run, polled, takes the blocks of a file *)
(* in order, acknowledges every block it is sent, repeats its last message *)
(* after a time-out, and ends with the first block that is short.          *)
(*                                                                         *)
(* The server opens a port of its own for every request it gets, so one    *)
(* that is repeated may have two.  The network loses, repeats, delays and  *)
(* reorders: a message once sent may be delivered at any time, or never.   *)
(***************************************************************************)
EXTENDS Integers, Sequences

CONSTANTS
  g_timeout,      \* seconds until a message is repeated
  MAX_TRIES,      \* time-outs after which the transfer fails (5)
  FileBlocks,     \* the blocks of the file; the last one alone is short
  MaxTransfers, MaxPorts

ASSUME TftpAssumption == FileBlocks \in Nat \ {0}

VARIABLES
  tftpState, g_block_num,
  g_server_port,         \* 0: none
  g_resend_flag, tftp_time_cnt, tftp_retry_cnt,
  g_progress_state,
  saved,                 \* the blocks given to save_data in this transfer
  g_tftp_rcv_buf,        \* the last datagram, while its fields are as they came
  toClient, toServer,    \* all the messages sent so far
  ports,                 \* the server's ports: [of: transfer, sent: block]
  transfer,              \* history: the number of the transfer
  strayed                \* history: has it taken a message of an earlier one?

tftpVars == <<tftpState, g_block_num, g_server_port, g_resend_flag, tftp_time_cnt,
              tftp_retry_cnt, g_progress_state, saved, g_tftp_rcv_buf, toClient, toServer,
              ports, transfer, strayed>>

NoDatagram == [type |-> "none"]
Data(n, p, t) == [type |-> "DATA", block |-> n, port |-> p, of |-> t, short |-> n = FileBlocks]
Oack(p, t) == [type |-> "OACK", port |-> p, of |-> t]
Refusal(t) == [type |-> "ERROR", port |-> 0, of |-> t]
Rrq(t) == [type |-> "RRQ", of |-> t]
Ack(n, p) == [type |-> "ACK", block |-> n, port |-> p]

Running == tftpState # "NONE"

-----------------------------------------------------------------------------
(* The server *)

Answered(m) == toClient' = toClient \cup {m}
ServerOnly == UNCHANGED <<tftpState, g_block_num, g_server_port, g_resend_flag, tftp_time_cnt,
                          tftp_retry_cnt, g_progress_state, saved, g_tftp_rcv_buf, toServer,
                          transfer, strayed>>

\* A request is refused, or a new port answers it with the options or the first block.
ServerRequest(m) ==
  /\ m.type = "RRQ"
  /\ \/ Answered(Refusal(m.of)) /\ UNCHANGED ports
     \/ /\ Len(ports) < MaxPorts
        /\ \E n \in {0, 1} :
             /\ ports' = Append(ports, [of |-> m.of, sent |-> n])
             /\ Answered(IF n = 0 THEN Oack(Len(ports) + 1, m.of) ELSE Data(1, Len(ports) + 1, m.of))
  /\ ServerOnly

ServerAck(m) ==
  /\ m.type = "ACK" /\ m.port \in DOMAIN ports
  /\ m.block = ports[m.port].sent /\ m.block < FileBlocks
  /\ ports' = [ports EXCEPT ![m.port].sent = @ + 1]
  /\ Answered(Data(m.block + 1, m.port, ports[m.port].of))
  /\ ServerOnly

-----------------------------------------------------------------------------
(* Pieces of the client *)

Sends(m) == toServer' = toServer \cup {m}

init_tftp(result) ==
  /\ tftpState' = "NONE" /\ g_block_num' = 0 /\ g_server_port' = 0
  /\ g_resend_flag' = FALSE /\ tftp_retry_cnt' = 0 /\ tftp_time_cnt' = 0
  /\ g_progress_state' = result

\* tftp_cancel_timeout, and tftp_reg_timeout by the message that follows.
Restarted == g_resend_flag' = TRUE /\ tftp_retry_cnt' = 0 /\ tftp_time_cnt' = 0

\* tftp_reg_timeout alone
Registered ==
  /\ g_resend_flag' = TRUE
  /\ tftp_retry_cnt' = IF g_resend_flag THEN tftp_retry_cnt ELSE 0
  /\ tftp_time_cnt' = IF g_resend_flag THEN tftp_time_cnt ELSE 0

\* The port of the server is that of the last datagram before the answer was accepted.
PortAfter(m) == IF tftpState = "RRQ" THEN m.port ELSE g_server_port

\* Mutant: a block that was taken is taken again.
NextBlockMutant(n) == n # 0

NextBlock(n) == n = IF tftpState = "DATA" THEN g_block_num + 1 ELSE 1

-----------------------------------------------------------------------------
(* recv_tftp_packet, on a datagram of the server *)

KeepBlock(m) ==
  /\ m.type = "DATA" /\ NextBlock(m.block) /\ ~m.short
  /\ saved' = Append(saved, m.block)
  /\ tftpState' = "DATA" /\ g_block_num' = m.block /\ g_server_port' = PortAfter(m)
  /\ Sends(Ack(m.block, PortAfter(m)))
  /\ Restarted /\ UNCHANGED g_progress_state

RepeatAck(m) ==
  /\ m.type = "DATA" /\ ~NextBlock(m.block) /\ ~m.short
  /\ g_server_port' = PortAfter(m)
  /\ Sends(Ack(m.block, PortAfter(m)))
  /\ Registered /\ UNCHANGED <<saved, tftpState, g_block_num, g_progress_state>>

\* Any short block ends the transfer.
EndOfFile(m) ==
  /\ m.type = "DATA" /\ m.short
  /\ saved' = IF NextBlock(m.block) THEN Append(saved, m.block) ELSE saved
  /\ Sends(Ack(m.block, PortAfter(m)))
  /\ init_tftp("SUCCESS")

TakeOptions(m) ==
  /\ m.type = "OACK" /\ tftpState = "RRQ"
  /\ tftpState' = "OACK" /\ g_server_port' = m.port
  /\ Sends(Ack(0, m.port))
  /\ Restarted /\ UNCHANGED <<saved, g_block_num, g_progress_state>>

TakeError(m) ==
  /\ m.type = "ERROR"
  /\ init_tftp("FAIL")
  /\ UNCHANGED <<saved, toServer>>

\* An OACK, unless it answers a request, is dropped.
DropOptions(m) ==
  /\ m.type = "OACK" /\ tftpState # "RRQ"
  /\ UNCHANGED <<saved, toServer, tftpState, g_block_num, g_server_port, g_resend_flag,
                 tftp_retry_cnt, tftp_time_cnt, g_progress_state>>

recv_tftp_packet(m) ==
  /\ KeepBlock(m) \/ RepeatAck(m) \/ EndOfFile(m) \/ TakeOptions(m) \/ TakeError(m) \/ DropOptions(m)
  /\ strayed' = (strayed \/ m.of # transfer)
  /\ UNCHANGED <<toClient, ports, transfer>>

-----------------------------------------------------------------------------
(* TFTP_run: the time-out, then the datagram; the interrupt may come between *)

\* Mutant: a repeated message starts the count again.
TriesMutant == 1

Tries == tftp_retry_cnt + 1

TimedOut ==
  /\ g_resend_flag /\ tftp_time_cnt >= g_timeout
  /\ Sends(IF tftpState = "RRQ" THEN Rrq(transfer) ELSE Ack(g_block_num, g_server_port))
  /\ IF Tries < MAX_TRIES
     THEN /\ tftp_time_cnt' = 0 /\ tftp_retry_cnt' = Tries
          /\ UNCHANGED <<tftpState, g_block_num, g_server_port, g_resend_flag, g_progress_state>>
     ELSE init_tftp("FAIL")
  /\ UNCHANGED <<saved, g_tftp_rcv_buf, toClient, ports, transfer, strayed>>

\* DATA and ERROR are converted in the buffer, and not recognised a second time.
Receive(m) ==
  /\ Running /\ recv_tftp_packet(m)
  /\ g_tftp_rcv_buf' = IF m.type = "OACK" THEN m ELSE NoDatagram

\* init_tftp forgets the address of the server: whatever comes then is dropped.
DropDatagram(m) ==
  /\ ~Running /\ g_tftp_rcv_buf' = m
  /\ UNCHANGED <<tftpState, g_block_num, g_server_port, g_resend_flag, tftp_time_cnt, tftp_retry_cnt,
                 g_progress_state, saved, toClient, toServer, ports, transfer, strayed>>

\* Nothing has come: len is unsigned, so -1 is 65535, and the buffer is parsed again, if
\* from_ip, which was never set, happens to be the server.
ParseAgain ==
  /\ Running /\ g_tftp_rcv_buf # NoDatagram
  /\ \E p \in 0..Len(ports) :
       recv_tftp_packet(IF g_tftp_rcv_buf.type # "DATA" THEN [g_tftp_rcv_buf EXCEPT !.port = p]
                        ELSE [g_tftp_rcv_buf EXCEPT !.port = p, !.short = FALSE])
  /\ g_tftp_rcv_buf' = IF g_tftp_rcv_buf.type = "OACK" THEN g_tftp_rcv_buf ELSE NoDatagram

\* Nothing has come, and nothing is parsed.
NothingReceived == UNCHANGED tftpVars

TFTP_read_request ==
  /\ ~Running /\ transfer < MaxTransfers
  /\ transfer' = transfer + 1 /\ saved' = <<>> /\ strayed' = FALSE
  /\ g_progress_state' = "PROGRESS" /\ tftpState' = "RRQ"
  /\ Sends(Rrq(transfer')) /\ Registered
  /\ UNCHANGED <<g_block_num, g_server_port, g_tftp_rcv_buf, toClient, ports>>

\* TFTP_exit, and TFTP_init for the next transfer
TFTP_exit ==
  /\ Running /\ init_tftp("PROGRESS")
  /\ UNCHANGED <<saved, g_tftp_rcv_buf, toClient, toServer, ports, transfer, strayed>>

tftp_timeout_handler ==
  /\ g_resend_flag /\ tftp_time_cnt < g_timeout
  /\ tftp_time_cnt' = tftp_time_cnt + 1
  /\ UNCHANGED <<tftpState, g_block_num, g_server_port, g_resend_flag, tftp_retry_cnt,
                 g_progress_state, saved, g_tftp_rcv_buf, toClient, toServer, ports, transfer, strayed>>

-----------------------------------------------------------------------------
TftpInit ==
  /\ tftpState = "NONE" /\ g_block_num = 0 /\ g_server_port = 0
  /\ g_resend_flag = FALSE /\ tftp_time_cnt = 0 /\ tftp_retry_cnt = 0
  /\ g_progress_state = "PROGRESS" /\ saved = <<>> /\ g_tftp_rcv_buf = NoDatagram
  /\ toClient = {} /\ toServer = {} /\ ports = <<>> /\ transfer = 0 /\ strayed = FALSE

\* After the last transfer nothing that is sent or dropped matters.
TftpNext ==
  \/ /\ Running \/ transfer < MaxTransfers
     /\ \/ \E m \in toServer : ServerRequest(m) \/ ServerAck(m)
        \/ \E m \in toClient : Receive(m) \/ DropDatagram(m)
  \/ TimedOut \/ ParseAgain \/ NothingReceived
  \/ TFTP_read_request \/ TFTP_exit \/ tftp_timeout_handler

TftpSpec == TftpInit /\ [][TftpNext]_tftpVars

-----------------------------------------------------------------------------
(* Properties *)

\* A transfer that ends with success has saved every block of the file once, in order,
\* whatever is lost, repeated or answered by two ports, unless a message of an earlier
\* transfer was taken for one of this.
SuccessIsWhole ==
  (g_progress_state = "SUCCESS" /\ ~strayed) => saved = [n \in 1..FileBlocks |-> n]

\* Every transfer ends, however many messages are lost or repeated.
TransferEnds == Running ~> ~Running
=============================================================================
