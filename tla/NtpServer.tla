------------------------------ MODULE NtpServer ------------------------------
(***************************************************************************)
(* The NTP server: NTPUDP of ntpserver.c, called by every turn of the main *)
(* loop, the interrupt EXTI3 that stamps the receipt of a request, the     *)
(* registers of socket 0 of the W5500 they share, and the two timers the   *)
(* time stamps are made of.                                                *)
(*                                                                         *)
(* One step is one access to a shared register or variable.  An interrupt  *)
(* is taken before the next step of the main loop.                         *)
(***************************************************************************)
EXTENDS Integers, Sequences

CONSTANTS
  Sizes,        \* payload sizes of the datagrams clients send
  MaxArrivals,  \* bound on the datagrams sent
  SendMayFail,  \* may sendto time out (no answer to the ARP request)?
  SecPeriod,    \* steps of the clock per increment of timenow (TIM2)
  CntPeriod,    \* steps of the clock per turn of the counter of TIM3
  MaxTime       \* bound on the clock

ASSUME NtpAssumption ==
  /\ Sizes \subseteq Nat \ {0} /\ MaxArrivals \in Nat /\ MaxTime \in Nat
  /\ SendMayFail \in BOOLEAN
  /\ SecPeriod \in Nat \ {0} /\ CntPeriod \in Nat \ {0}

NtpHeader == 8           \* address, port and length before every payload
NTP_PACKET_SIZE == 48
NTP_PACKET_RAWSIZE == 56

VARIABLES
  ntpRx,       \* datagrams waiting in the receive buffer of socket 0
  Sn_RX_RSR,   \* the register of their bytes, headers included
  recvFlag,    \* Sn_IR(RECV)
  sendFlag,    \* Sn_IR(SENDOK) or Sn_IR(TIMEOUT)
  pend,        \* is EXTI3 pending?
  inIsr,       \* is EXTI3_IRQHandler between its two readings?
  recvTime,    \* the seconds of the receipt
  micros_recv, \* the fraction of the receipt
  ntpPc,       \* the place of the main loop in NTPUDP
  reg,         \* the value loaded to be swapped
  req,         \* the datagram being answered
  origin,      \* whose transmit time stamp clientPacket holds
  packet,      \* the stamps of serverPacket: [t2s, t2f, t3s, t3f]
  reply,       \* the last reply sent; <<>> for none
  clock,       \* milliseconds since power-up
  arrivals     \* datagrams sent so far

ntpChip == <<ntpRx, Sn_RX_RSR, recvFlag, sendFlag, pend>>
stamps == <<inIsr, recvTime, micros_recv>>
answer == <<reg, req, origin, packet, reply>>
ntpVars == <<ntpChip, stamps, answer, ntpPc, clock, arrivals>>

\* TIM2 counts up timenow each SecPeriod; TIM3 counts the fraction of a second.
Timenow == clock \div SecPeriod
Cnt == clock % CntPeriod
Now == [at |-> clock, sec |-> Timenow, cnt |-> Cnt]
Zero == [at |-> 0, sec |-> 0, cnt |-> 0]

\* A stamp is in host order, in network order, or neither.
Unset == [time |-> Zero, form |-> "unset"]

\* htonl undoes itself; scaling a fraction twice gives neither form.
\* Mutant: the order is left as it is.
HtonlMutant(s) == s

Htonl(s) == [s EXCEPT !.form = CASE @ = "host" -> "wire" [] @ = "wire" -> "host" [] OTHER -> @]
Scale(s) == [s EXCEPT !.form = IF @ = "host" THEN "wire" ELSE "junk"]

-----------------------------------------------------------------------------
(* The chip and the interrupt *)

\* INTn is low while a flag is set; EXTI3 needs a falling edge.
Edge == ~(recvFlag \/ sendFlag)

Quiet == ntpRx = <<>> /\ ntpPc = "poll" /\ ~pend /\ ~inIsr

Arrive(size) ==
  /\ arrivals < MaxArrivals
  /\ ntpRx' = Append(ntpRx, [id |-> arrivals + 1, size |-> size, at |-> clock,
                             fresh |-> Quiet /\ Edge])
  /\ Sn_RX_RSR' = Sn_RX_RSR + NtpHeader + size
  /\ recvFlag' = TRUE /\ pend' = (pend \/ Edge)
  /\ arrivals' = arrivals + 1
  /\ UNCHANGED <<sendFlag, stamps, answer, ntpPc, clock>>

IsrMicros ==
  /\ pend /\ ~inIsr
  /\ micros_recv' = [time |-> Now, form |-> "host"]
  /\ pend' = FALSE /\ inIsr' = TRUE
  /\ UNCHANGED <<ntpRx, Sn_RX_RSR, recvFlag, sendFlag, recvTime, answer, ntpPc, clock, arrivals>>

IsrSeconds ==
  /\ inIsr
  /\ recvTime' = [time |-> Now, form |-> "host"]
  /\ inIsr' = FALSE
  /\ UNCHANGED <<ntpChip, micros_recv, answer, ntpPc, clock, arrivals>>

Tick ==
  /\ clock < MaxTime /\ clock' = clock + 1
  /\ UNCHANGED <<ntpChip, stamps, answer, ntpPc, arrivals>>

-----------------------------------------------------------------------------
(* NTPUDP *)

At(p) == ntpPc = p /\ ~pend /\ ~inIsr

\* Mutant: the size is taken without the header.
HasRequestMutant == Sn_RX_RSR = NTP_PACKET_SIZE

\* The register counts every datagram waiting.
HasRequest == Sn_RX_RSR = NTP_PACKET_RAWSIZE

\* Nothing to do: the other services have their turn.
Pass ==
  /\ At("poll") /\ ~HasRequest
  /\ UNCHANGED ntpVars

\* Mutant: the request is not copied into clientPacket.
OriginOfMutant(d) == origin

\* A datagram without the 48 bytes of a request leaves the stamp in
\* clientPacket as it was.
OriginOf(d) == IF d.size = NTP_PACKET_SIZE THEN d.id ELSE origin

Receive ==
  /\ At("poll") /\ HasRequest /\ ntpRx # <<>>
  /\ req' = Head(ntpRx) /\ ntpRx' = Tail(ntpRx)
  /\ Sn_RX_RSR' = Sn_RX_RSR - NtpHeader - Head(ntpRx).size
  /\ origin' = OriginOf(Head(ntpRx))
  /\ ntpPc' = "loadSec"
  /\ UNCHANGED <<recvFlag, sendFlag, pend, stamps, reg, packet, reply, clock, arrivals>>

LoadSeconds ==
  /\ At("loadSec")
  /\ reg' = recvTime /\ ntpPc' = "storeSec"
  /\ UNCHANGED <<ntpChip, stamps, req, origin, packet, reply, clock, arrivals>>

StoreSeconds ==
  /\ At("storeSec")
  /\ recvTime' = Htonl(reg)
  /\ packet' = [packet EXCEPT !.t2s = recvTime']
  /\ ntpPc' = "loadFrac"
  /\ UNCHANGED <<ntpChip, inIsr, micros_recv, reg, req, origin, reply, clock, arrivals>>

LoadMicros ==
  /\ At("loadFrac")
  /\ reg' = micros_recv /\ ntpPc' = "storeFrac"
  /\ UNCHANGED <<ntpChip, stamps, req, origin, packet, reply, clock, arrivals>>

StoreMicros ==
  /\ At("storeFrac")
  /\ micros_recv' = Scale(reg)
  /\ packet' = [packet EXCEPT !.t2f = micros_recv']
  /\ ntpPc' = "transmitSec"
  /\ UNCHANGED <<ntpChip, inIsr, recvTime, reg, req, origin, reply, clock, arrivals>>

TransmitSeconds ==
  /\ At("transmitSec")
  /\ packet' = [packet EXCEPT !.t3s = Htonl([time |-> Now, form |-> "host"])]
  /\ ntpPc' = "transmitFrac"
  /\ UNCHANGED <<ntpChip, stamps, reg, req, origin, reply, clock, arrivals>>

TransmitFraction ==
  /\ At("transmitFrac")
  /\ packet' = [packet EXCEPT !.t3f = Scale([time |-> Now, form |-> "host"])]
  /\ ntpPc' = "send"
  /\ UNCHANGED <<ntpChip, stamps, reg, req, origin, reply, clock, arrivals>>

\* sendto waits for the chip to report.
SendOk ==
  /\ ntpPc = "send"
  /\ sendFlag' = TRUE /\ pend' = (pend \/ Edge)
  /\ reply' = [req |-> req, origin |-> origin, packet |-> packet]
  /\ ntpPc' = "sent"
  /\ UNCHANGED <<ntpRx, Sn_RX_RSR, recvFlag, stamps, reg, req, origin, packet, clock, arrivals>>

SendTimeout ==
  /\ ntpPc = "send" /\ SendMayFail
  /\ sendFlag' = TRUE /\ pend' = (pend \/ Edge)
  /\ ntpPc' = "timedOut"
  /\ UNCHANGED <<ntpRx, Sn_RX_RSR, recvFlag, stamps, answer, clock, arrivals>>

SendFlagAfter == FALSE

\* sendto clears the flag it saw.  After a time-out NTPUDP returns at once.
SendReturns ==
  /\ At("sent") \/ At("timedOut")
  /\ sendFlag' = SendFlagAfter
  /\ ntpPc' = IF ntpPc = "sent" THEN "event" ELSE "poll"
  /\ UNCHANGED <<ntpRx, Sn_RX_RSR, recvFlag, pend, stamps, answer, clock, arrivals>>

-----------------------------------------------------------------------------
(* wzn_event_handle.  Its other branch clears SENDOK, which sendto has done. *)

ReadFlags ==
  /\ At("event")
  /\ ntpPc' = IF recvFlag THEN "clear" ELSE "poll"
  /\ UNCHANGED <<ntpChip, stamps, answer, clock, arrivals>>

ClearRecv ==
  /\ At("clear")
  /\ recvFlag' = FALSE
  /\ ntpPc' = "poll"
  /\ UNCHANGED <<ntpRx, Sn_RX_RSR, sendFlag, pend, stamps, answer, clock, arrivals>>

-----------------------------------------------------------------------------
NtpInit ==
  /\ ntpRx = <<>> /\ Sn_RX_RSR = 0 /\ recvFlag = FALSE /\ sendFlag = FALSE /\ pend = FALSE
  /\ inIsr = FALSE /\ recvTime = Unset /\ micros_recv = Unset
  /\ ntpPc = "poll" /\ reg = Unset
  /\ req = [id |-> 0, size |-> 0, at |-> 0, fresh |-> FALSE] /\ origin = 0
  /\ packet = [t2s |-> Unset, t2f |-> Unset, t3s |-> Unset, t3f |-> Unset]
  /\ reply = <<>>
  /\ clock = 0 /\ arrivals = 0

Isr == IsrMicros \/ IsrSeconds

NTPUDP ==
  \/ Pass \/ Receive
  \/ LoadSeconds \/ StoreSeconds \/ LoadMicros \/ StoreMicros
  \/ TransmitSeconds \/ TransmitFraction
  \/ SendReturns \/ ReadFlags \/ ClearRecv

NtpChip == SendOk \/ SendTimeout

NtpNext == Isr \/ NTPUDP \/ NtpChip \/ Tick \/ \E size \in Sizes : Arrive(size)

NtpSpec == NtpInit /\ [][NtpNext]_ntpVars

\* Interrupts are taken, the main loop runs on and the chip ends a transmission.
NtpFairSpec == NtpSpec /\ WF_ntpVars(Isr) /\ WF_ntpVars(NTPUDP) /\ WF_ntpVars(NtpChip)

-----------------------------------------------------------------------------
(* Properties *)

\* The receive time stamp T2 of the reply r is that of the request it answers: in
\* network order, and taken after the request came and before the reply left.
StampedAtReceipt(r) ==
  \A s \in {r.packet.t2s, r.packet.t2f} :
    s.form = "wire" /\ s.time.at \in r.req.at..r.packet.t3s.time.at

\* A reply to a request that came with the line high, nothing waiting and no
\* request in work carries the time of its receipt, whatever went wrong before.
FreshIsStamped == (reply # <<>> /\ reply.req.fresh) => StampedAtReceipt(reply)

\* The transmit time stamp a client sent comes back to that client.
OriginEchoed == reply # <<>> => reply.origin = reply.req.id

\* A request that waits alone is answered, whatever was sent, timed out or stamped
\* before it, unless another datagram joins it.
AloneIsTaken == \A i \in 1..MaxArrivals :
  (Len(ntpRx) = 1 /\ ntpRx[1].id = i /\ ntpRx[1].size = NTP_PACKET_SIZE)
    ~> (req.id = i \/ Len(ntpRx) > 1)

\* Every request is taken in the end.
RequestsAreTaken == \A i \in 1..MaxArrivals :
  (\E k \in 1..Len(ntpRx) : ntpRx[k].id = i) ~> (req.id = i)

\* The seconds and the fraction of a stamp were read in one instant.
AtOnce(s, f) == s.time.at = f.time.at

\* The counter of TIM3 is the fraction of the second that TIM2 counts: of two stamps
\* of one reply, each read at once, the transmission is not before the receipt.
StampsRise ==
  LET p == reply.packet IN
  (reply # <<>> /\ AtOnce(p.t2s, p.t2f) /\ AtOnce(p.t3s, p.t3f) /\ p.t2s.form = "wire")
    => \/ p.t2s.time.sec < p.t3s.time.sec
       \/ p.t2s.time.sec = p.t3s.time.sec /\ p.t2f.time.cnt <= p.t3f.time.cnt
=============================================================================
