------------------------------- MODULE Units -------------------------------
(***************************************************************************)
(* The parts of the firmware and of its library that share no state with   *)
(* one another: the time client, the DHCP client, the TFTP client, the     *)
(* receiving side of a UDP socket, the size registers, UART1 and the main  *)
(* program.  As no step of one can change what another does, each is       *)
(* followed alone: a behaviour chooses a part and stays with it.           *)
(***************************************************************************)
EXTENDS Sntp, Dhcp, Tftp, UdpSocket, SizeRegister, Uart, Board

VARIABLE unit   \* the part that runs

unitVars == <<unit, sntpVars, dhcpVars, tftpVars, udpVars, sizeVars, uartVars, boardVars>>

Init ==
  /\ unit \in {"sntp", "dhcp", "tftp", "udp", "size", "uart", "board"}
  /\ SntpInit /\ DhcpInit /\ TftpInit /\ UdpInit /\ SizeInit /\ UartInit /\ BoardInit

RunSntp ==
  /\ unit = "sntp" /\ SntpNext
  /\ UNCHANGED <<unit, dhcpVars, tftpVars, udpVars, sizeVars, uartVars, boardVars>>

RunDhcp ==
  /\ unit = "dhcp" /\ DhcpNext
  /\ UNCHANGED <<unit, sntpVars, tftpVars, udpVars, sizeVars, uartVars, boardVars>>

RunTftp ==
  /\ unit = "tftp" /\ TftpNext
  /\ UNCHANGED <<unit, sntpVars, dhcpVars, udpVars, sizeVars, uartVars, boardVars>>

RunUdp ==
  /\ unit = "udp" /\ UdpNext
  /\ UNCHANGED <<unit, sntpVars, dhcpVars, tftpVars, sizeVars, uartVars, boardVars>>

RunSize ==
  /\ unit = "size" /\ SizeNext
  /\ UNCHANGED <<unit, sntpVars, dhcpVars, tftpVars, udpVars, uartVars, boardVars>>

RunUart ==
  /\ unit = "uart" /\ UartNext
  /\ UNCHANGED <<unit, sntpVars, dhcpVars, tftpVars, udpVars, sizeVars, boardVars>>

RunBoard ==
  /\ unit = "board" /\ BoardNext
  /\ UNCHANGED <<unit, sntpVars, dhcpVars, tftpVars, udpVars, sizeVars, uartVars>>

Next == RunSntp \/ RunDhcp \/ RunTftp \/ RunUdp \/ RunSize \/ RunUart \/ RunBoard

-----------------------------------------------------------------------------
(* Fairness *)

\* The timer and the processor run; a time server that is asked again and again
\* answers again and again, and the answers get through.
SntpFairness ==
  /\ WF_sntpVars(unit = "sntp" /\ Tick)
  /\ WF_sntpVars(unit = "sntp" /\ DNS_run)
  /\ WF_sntpVars(unit = "sntp" /\ SNTP_run)
  /\ SF_sntpVars(unit = "sntp" /\ AnswerTime)
  /\ SF_sntpVars(unit = "sntp" /\ DeliverTime)

\* DHCP_run is polled and the seconds are counted; of the offers taken again and again
\* some request is granted, and of the acknowledgements some arrives in time and its
\* address is free.
DhcpFairness ==
  /\ WF_dhcpVars(unit = "dhcp" /\ \E m \in mail \cup {Silence} : DHCP_run(m))
  /\ WF_dhcpVars(unit = "dhcp" /\ DHCP_time_handler)
  /\ SF_dhcpVars(unit = "dhcp" /\ OfferGranted)
  /\ SF_dhcpVars(unit = "dhcp" /\ \E m \in mail : TakeAck(m))

\* TFTP_run is polled and the seconds are counted; nothing is asked of the network.
TftpFairness ==
  /\ WF_tftpVars(unit = "tftp" /\ TimedOut)
  /\ WF_tftpVars(unit = "tftp" /\ tftp_timeout_handler)

\* Time goes on, the watchdog bites, and the program goes on where it waits for nothing:
\* not in a call of the network.
BoardFairness ==
  /\ WF_boardVars(unit = "board" /\ CountSecond)
  /\ WF_boardVars(unit = "board" /\ WatchdogReset)
  /\ WF_boardVars(unit = "board" /\ OwnSteps)

Spec ==
  /\ Init /\ [][Next]_unitVars
  /\ SntpFairness /\ DhcpFairness /\ TftpFairness /\ BoardFairness

-----------------------------------------------------------------------------
(* Properties *)

\* The types of all parts, and: DNS_run ends within one waiting time more than its
\* retries, and DHCP_run repeats no message more than MAX_DHCP_RETRY times.
TypeOK == SntpTypeOK /\ DhcpTypeOK /\ SizeTypeOK

\* KeepsTime and GetsALease of the modules, when that part is the one that runs:
\* SNTP_run sets the time again and again, and DHCP_run gets a lease again and again.
TimeIsKept == unit = "sntp" => KeepsTime
LeaseIsGot == unit = "dhcp" => GetsALease
=============================================================================
