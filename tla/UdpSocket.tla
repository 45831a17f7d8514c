------------------------------ MODULE UdpSocket ------------------------------
(***************************************************************************)
(* Receiving UDP: socket, close and recvfrom of socket.c with              *)
(* wiz_recv_data of w5500.c, over the receive buffer of the W5500.  The    *)
(* chip puts a header before every datagram and stores both from rxWr on;  *)
(* the pointers run through PTR values (2^16), the buffer has RXBUF bytes. *)
(* A header of eight bytes is one byte here.                               *)
(***************************************************************************)
EXTENDS Integers, Sequences

CONSTANTS
  MaxId,       \* datagrams are numbered from 1 to MaxId, over and over
  PayloadLens, ReadLens, RXBUF, PTR

ASSUME UdpAssumption ==
  /\ MaxId \in Nat \ {0} /\ PayloadLens \subseteq Nat /\ ReadLens \subseteq Nat
  /\ RXBUF \in Nat \ {0} /\ PTR \in Nat /\ \E m \in 2..PTR : PTR = m * RXBUF

Ids == 1..MaxId

VARIABLES
  rxMem,               \* the receive buffer
  rxWr, rxRd,          \* the chip's write pointer and Sn_RX_RD
  udpOpen,
  nextId,              \* the number of the next datagram
  sock_remained_size,
  sock_pack_info,
  udpPc,               \* the place in recvfrom: "idle", "wait", "head", "data"
  udpLen,              \* its argument len
  udpSender,           \* what it stored in addr and port
  udpGot,              \* sender and bytes of the last call
  udpQueue             \* ghost: the datagrams not read to the end, with the bytes read of them

udpVars == <<rxMem, rxWr, rxRd, udpOpen, nextId, sock_remained_size, sock_pack_info,
             udpPc, udpLen, udpSender, udpGot, udpQueue>>

\* A byte of datagram id: its header, of a payload of len bytes, or payload byte at.
HeaderByte(i, n) == [id |-> i, at |-> 0, len |-> n]
DataByte(i, k) == [id |-> i, at |-> k, len |-> 0]
Junk == [id |-> 0, at |-> 0, len |-> 0]
Cell(p) == rxMem[p % RXBUF]
Unread == (rxWr - rxRd) % PTR
Plus(p, n) == (p + n) % PTR

\* The buffer with bytes stored from p on.
Stored(p, bytes) ==
  [c \in 0..(RXBUF - 1) |->
     IF (c - p) % RXBUF < Len(bytes) THEN bytes[1 + ((c - p) % RXBUF)] ELSE rxMem[c]]

\* What has been read is the chip's again, and must not be read twice.
Freed(p, n) ==
  [c \in 0..(RXBUF - 1) |-> IF (c - p) % RXBUF < n THEN Junk ELSE rxMem[c]]

Smaller(a, b) == IF a < b THEN a ELSE b

\* What is not read to the end when n bytes more of the first datagram have been read.
Advanced(n) ==
  CASE udpQueue = <<>> -> <<>>
    [] udpQueue # <<>> /\ Head(udpQueue).off + n = Head(udpQueue).len -> Tail(udpQueue)
    [] OTHER -> [udpQueue EXCEPT ![1].off = @ + n]

-----------------------------------------------------------------------------
(* The chip: external *)

\* A datagram for which there is no room is dropped.
DatagramComes(n) ==
  /\ udpOpen /\ Unread + n + 1 <= RXBUF
  /\ rxMem' = Stored(rxWr, <<HeaderByte(nextId, n)>>
                           \o [k \in 1..n |-> DataByte(nextId, k)])
  /\ rxWr' = Plus(rxWr, n + 1)
  /\ nextId' = 1 + (nextId % MaxId)
  /\ udpQueue' = Append(udpQueue, [id |-> nextId, off |-> 0, len |-> n])
  /\ UNCHANGED <<rxRd, udpOpen, sock_remained_size, sock_pack_info,
                 udpPc, udpLen, udpSender, udpGot>>

-----------------------------------------------------------------------------
(* socket and close *)

\* Mutant: the rest of a datagram is not forgotten.
RemainedMutant == sock_remained_size

Remained == 0

\* socket closes what was open; OPEN sets the pointers.
OpenSocket ==
  /\ udpPc = "idle" /\ udpOpen' = TRUE
  /\ \E p \in {0, PTR - 1} : rxWr' = p /\ rxRd' = p
  /\ rxMem' = Freed(0, RXBUF)
  /\ sock_remained_size' = Remained /\ sock_pack_info' = {} /\ udpQueue' = <<>>
  /\ UNCHANGED <<nextId, udpPc, udpLen, udpSender, udpGot>>

CloseSocket ==
  /\ udpPc = "idle" /\ udpOpen /\ udpOpen' = FALSE
  /\ rxRd' = rxWr /\ rxMem' = Freed(0, RXBUF)
  /\ sock_remained_size' = Remained /\ sock_pack_info' = {} /\ udpQueue' = <<>>
  /\ UNCHANGED <<rxWr, nextId, udpPc, udpLen, udpSender, udpGot>>

-----------------------------------------------------------------------------
(* recvfrom *)

\* A closed socket is refused after the check for a rest.
CallRecvfrom(n) ==
  /\ udpPc = "idle" /\ udpOpen
  /\ udpLen' = n
  /\ udpPc' = IF sock_remained_size = 0 THEN "wait" ELSE "data"
  /\ UNCHANGED <<rxMem, rxWr, rxRd, udpOpen, nextId, sock_remained_size, sock_pack_info,
                 udpSender, udpGot, udpQueue>>

\* getSn_RX_RSR may give zero a while longer, see SizeRegister.
WaitDatagram ==
  /\ udpPc = "wait" /\ Unread # 0
  /\ udpPc' = "head"
  /\ UNCHANGED <<rxMem, rxWr, rxRd, udpOpen, nextId, sock_remained_size, sock_pack_info,
                 udpLen, udpSender, udpGot, udpQueue>>

TakeHeader ==
  /\ udpPc = "head"
  /\ udpSender' = Cell(rxRd).id
  /\ sock_remained_size' = Cell(rxRd).len
  /\ sock_pack_info' = {"FIRST"}
  /\ rxRd' = Plus(rxRd, 1) /\ rxMem' = Freed(rxRd, 1)
  /\ udpPc' = "data"
  /\ UNCHANGED <<rxWr, udpOpen, nextId, udpLen, udpGot, udpQueue>>

TakeData ==
  /\ udpPc = "data"
  /\ LET n == Smaller(udpLen, sock_remained_size) IN
       /\ udpGot' = [id |-> udpSender, bytes |-> [k \in 1..n |-> Cell(Plus(rxRd, k - 1))]]
       /\ rxRd' = Plus(rxRd, n) /\ rxMem' = Freed(rxRd, n)
       /\ sock_remained_size' = sock_remained_size - n
       /\ udpQueue' = Advanced(n)
  /\ sock_pack_info' = IF sock_remained_size' = 0 THEN {} ELSE sock_pack_info \cup {"REMAINED"}
  /\ udpPc' = "idle"
  /\ UNCHANGED <<rxWr, udpOpen, nextId, udpLen, udpSender>>

-----------------------------------------------------------------------------
UdpInit ==
  /\ rxMem = [c \in 0..(RXBUF - 1) |-> Junk] /\ rxWr = 0 /\ rxRd = 0
  /\ udpOpen = FALSE /\ nextId = 1
  /\ sock_remained_size = 0 /\ sock_pack_info = {}
  /\ udpPc = "idle" /\ udpLen = 0 /\ udpSender = 0 /\ udpGot = [id |-> 0, bytes |-> <<>>]
  /\ udpQueue = <<>>

UdpNext ==
  \/ \E n \in PayloadLens : DatagramComes(n)
  \/ OpenSocket \/ CloseSocket
  \/ \E n \in ReadLens : CallRecvfrom(n)
  \/ WaitDatagram \/ TakeHeader \/ TakeData

UdpSpec == UdpInit /\ [][UdpNext]_udpVars

-----------------------------------------------------------------------------
(* Refinement *)

Queue == INSTANCE UdpQueue WITH queue <- udpQueue, got <- udpGot

\* recvfrom gives the datagrams as UdpQueue promises, through wraps of the pointers and
\* of the buffer, partial reads, datagrams without payload and sockets opened again.
ImplementsQueue == Queue!QSpec
=============================================================================
