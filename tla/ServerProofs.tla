---------------------------- MODULE ServerProofs ----------------------------
(***************************************************************************)
(* Theorems of the servers.  Of NtpServer: the stamps of its replies, for  *)
(* requests of any size, any number of them, timers of any period and a    *)
(* clock without bound.  Of HttpServer: the records of the sockets are     *)
(* consistent and the parts of a page tile it, for any number of sockets,  *)
(* any pages and any length of a part, whatever the peers and the chip do  *)
(* between two reads of a register.                                        *)
(***************************************************************************)
EXTENDS NtpServer, HttpServer, TLAPS

-----------------------------------------------------------------------------
(* The invariant *)

Instant == [at : Nat, sec : Int, cnt : Int]
Stamp == [time : Instant, form : {"unset", "host", "wire", "junk"}]
Datagram == [id : Nat, size : Nat, at : Nat, fresh : BOOLEAN]
Stamps4 == [t2s : Stamp, t2f : Stamp, t3s : Stamp, t3f : Stamp]

\* The type invariant: every variable has its type.
NtpTypeInv ==
  /\ ntpRx \in Seq(Datagram) /\ Sn_RX_RSR \in Int
  /\ recvTime \in Stamp /\ micros_recv \in Stamp /\ reg \in Stamp
  /\ packet \in Stamps4
  /\ req \in Datagram /\ origin \in Nat
  /\ clock \in Nat /\ arrivals \in Nat

\* The stamp s was taken by the interrupt since the instant t, and nobody has
\* changed its order.
TakenSince(s, t) == s.form = "host" /\ t <= s.time.at /\ s.time.at <= clock

\* The same stamp, turned into network order.
TurnedSince(s, t) == s.form = "wire" /\ t <= s.time.at /\ s.time.at <= clock

\* The interrupt for the request that came at t is still to come, between its
\* readings, or over.
StampedFrom(t) ==
  \/ pend /\ ~inIsr
  \/ ~pend /\ inIsr /\ TakenSince(micros_recv, t)
  \/ ~pend /\ ~inIsr /\ TakenSince(micros_recv, t) /\ TakenSince(recvTime, t)

\* A request that found the server at rest waits first, with its flag set, which
\* keeps the line low: no other interrupt can come.
FreshWaits == \A i \in 1..Len(ntpRx) :
  /\ ntpRx[i].at <= clock
  /\ ntpRx[i].fresh => i = 1 /\ ntpPc = "poll" /\ recvFlag /\ StampedFrom(ntpRx[i].at)

InWork == {"loadSec", "storeSec", "loadFrac", "storeFrac", "transmitSec", "transmitFrac", "send"}

\* While such a request is answered no interrupt comes ...
FreshAlone == (req.fresh /\ ntpPc \in InWork) => recvFlag /\ ~pend /\ ~inIsr

\* ... and its stamps are, step by step, as they were taken or as they are sent.
FreshStamps == (req.fresh /\ ntpPc \in InWork) =>
  /\ ntpPc = "loadSec" => TakenSince(recvTime, req.at)
  /\ ntpPc = "storeSec" => TakenSince(reg, req.at)
  /\ ntpPc \in {"loadSec", "storeSec", "loadFrac"} => TakenSince(micros_recv, req.at)
  /\ ntpPc = "storeFrac" => TakenSince(reg, req.at)
  /\ ntpPc \notin {"loadSec", "storeSec"} => TurnedSince(packet.t2s, req.at)
  /\ ntpPc \in {"transmitSec", "transmitFrac", "send"} => TurnedSince(packet.t2f, req.at)
  /\ ntpPc \in {"transmitFrac", "send"} =>
       /\ packet.t2s.time.at <= packet.t3s.time.at
       /\ packet.t2f.time.at <= packet.t3s.time.at

NtpInv == NtpTypeInv /\ FreshWaits /\ FreshAlone /\ FreshStamps /\ FreshIsStamped

\* Every datagram clients send is at least as long as an NTP message.
WholeRequests == \A n \in Sizes : n >= NTP_PACKET_SIZE

\* The register is the sum: with nothing or one datagram waiting exactly, and with
\* several it is beyond the size of one.
RegisterCounts ==
  /\ Sn_RX_RSR >= NTP_PACKET_RAWSIZE * Len(ntpRx)
  /\ Len(ntpRx) = 0 => Sn_RX_RSR = 0
  /\ Len(ntpRx) = 1 => Sn_RX_RSR = NtpHeader + ntpRx[1].size

\* While a request is answered clientPacket holds its time stamp.
OriginIsTheirs == ntpPc \in InWork => origin = req.id

OriginInv == NtpTypeInv /\ RegisterCounts /\ OriginIsTheirs /\ OriginEchoed

-----------------------------------------------------------------------------
(* Lemmas on the operators *)

\* The two timers read at any instant make a stamp of that instant.
LEMMA NowIsInstant ==
  ASSUME clock \in Nat
  PROVE  Now \in Instant /\ Now.at = clock
PROOF
<1>1. Timenow \in Int /\ Cnt \in Int
  BY NtpAssumption DEF Timenow, Cnt
<1>2. QED
  BY <1>1 DEF Now, Instant

\* htonl and the scaling of a fraction keep the instant of a stamp and turn host
\* order into network order.
LEMMA TurningKeepsInstants ==
  ASSUME NEW s \in Stamp
  PROVE  /\ Htonl(s) \in Stamp /\ Htonl(s).time = s.time
         /\ Scale(s) \in Stamp /\ Scale(s).time = s.time
         /\ s.form = "host" => Htonl(s).form = "wire" /\ Scale(s).form = "wire"
PROOF
<1>1. Htonl(s) \in Stamp /\ Htonl(s).time = s.time /\ (s.form = "host" => Htonl(s).form = "wire")
  <2>1. Htonl(s) = [time |-> s.time, form |-> IF s.form = "host" THEN "wire"
                       ELSE IF s.form = "wire" THEN "host" ELSE s.form]
    BY DEF Htonl, Stamp
  <2>2. QED
    BY <2>1 DEF Stamp
<1>2. Scale(s) \in Stamp /\ Scale(s).time = s.time /\ (s.form = "host" => Scale(s).form = "wire")
  <2>1. Scale(s) = [time |-> s.time, form |-> IF s.form = "host" THEN "wire" ELSE "junk"]
    BY DEF Scale, Stamp
  <2>2. QED
    BY <2>1 DEF Stamp
<1>3. QED
  BY <1>1, <1>2

-----------------------------------------------------------------------------
(* Types *)

LEMMA TypesAtStart ==
  ASSUME NtpInit PROVE NtpTypeInv
PROOF
<1>1. Unset \in Stamp
  BY DEF Unset, Zero, Stamp, Instant
<1>2. ntpRx \in Seq(Datagram)
  BY DEF NtpInit
<1>3. req \in Datagram
  BY DEF NtpInit, Datagram
<1>4. packet \in Stamps4
  BY <1>1 DEF NtpInit, Stamps4
<1>5. QED
  BY <1>1, <1>2, <1>3, <1>4 DEF NtpInit, NtpTypeInv

\* Every step keeps the types.
LEMMA TypesStay ==
  ASSUME NtpTypeInv, [NtpNext]_ntpVars PROVE NtpTypeInv'
PROOF
<1> USE DEF NtpTypeInv
<1>1. Now \in Instant
  BY NowIsInstant
<1>2. ASSUME NEW size \in Sizes, Arrive(size) PROVE NtpTypeInv'
  <2>1. size \in Nat
    BY NtpAssumption
  <2>2. (Quiet /\ Edge) \in BOOLEAN
    BY DEF Quiet, Edge
  <2>3. [id |-> arrivals + 1, size |-> size, at |-> clock, fresh |-> Quiet /\ Edge] \in Datagram
    BY <2>1, <2>2 DEF Datagram
  <2>4. ntpRx' \in Seq(Datagram)
    BY <1>2, <2>3 DEF Arrive
  <2>5. QED
    BY <1>2, <2>1, <2>4 DEF Arrive, NtpHeader, stamps, answer
<1>3. CASE IsrMicros
  <2>1. micros_recv' \in Stamp
    BY <1>1, <1>3 DEF IsrMicros, Stamp
  <2>2. QED
    BY <1>3, <2>1 DEF IsrMicros, answer
<1>4. CASE IsrSeconds
  <2>1. recvTime' \in Stamp
    BY <1>1, <1>4 DEF IsrSeconds, Stamp
  <2>2. QED
    BY <1>4, <2>1 DEF IsrSeconds, answer, ntpChip
<1>5. CASE Tick
  BY <1>5 DEF Tick, ntpChip, stamps, answer
<1>6. CASE Receive
  <2>1. Head(ntpRx) \in Datagram /\ Tail(ntpRx) \in Seq(Datagram)
    BY <1>6 DEF Receive
  <2>2. Head(ntpRx).size \in Nat /\ OriginOf(Head(ntpRx)) \in Nat
    BY <2>1 DEF Datagram, OriginOf
  <2>3. QED
    BY <1>6, <2>1, <2>2 DEF Receive, stamps, NtpHeader
<1>7. CASE LoadSeconds \/ LoadMicros
  BY <1>7 DEF LoadSeconds, LoadMicros, ntpChip, stamps
<1>8. CASE StoreSeconds
  <2>1. recvTime' \in Stamp
    BY <1>8, TurningKeepsInstants DEF StoreSeconds
  <2>2. packet' \in Stamps4
    BY <1>8, <2>1 DEF StoreSeconds, Stamps4
  <2>3. QED
    BY <1>8, <2>1, <2>2 DEF StoreSeconds, ntpChip
<1>9. CASE StoreMicros
  <2>1. micros_recv' \in Stamp
    BY <1>9, TurningKeepsInstants DEF StoreMicros
  <2>2. packet' \in Stamps4
    BY <1>9, <2>1 DEF StoreMicros, Stamps4
  <2>3. QED
    BY <1>9, <2>1, <2>2 DEF StoreMicros, ntpChip
<1>10. CASE TransmitSeconds \/ TransmitFraction
  <2>1. [time |-> Now, form |-> "host"] \in Stamp
    BY <1>1 DEF Stamp
  <2>2. packet' \in Stamps4
    BY <1>10, <2>1, TurningKeepsInstants DEF TransmitSeconds, TransmitFraction, Stamps4
  <2>3. QED
    BY <1>10, <2>2 DEF TransmitSeconds, TransmitFraction, ntpChip, stamps
<1>11. CASE SendOk \/ SendTimeout
  BY <1>11 DEF SendOk, SendTimeout, stamps, answer
<1>12. CASE SendReturns \/ ReadFlags \/ ClearRecv
  BY <1>12 DEF SendReturns, ReadFlags, ClearRecv, ntpChip, stamps, answer
<1>13. CASE Pass \/ UNCHANGED ntpVars
  BY <1>13 DEF Pass, ntpVars, ntpChip, stamps, answer
<1>14. QED
  BY <1>2, <1>3, <1>4, <1>5, <1>6, <1>7, <1>8, <1>9, <1>10, <1>11, <1>12, <1>13
  DEF NtpNext, Isr, NTPUDP, NtpChip

-----------------------------------------------------------------------------
(* The origin of a reply *)

\* The register keeps counting: a request is taken only when it is alone.
LEMMA RegisterKeepsCounting ==
  ASSUME WholeRequests, NtpTypeInv, RegisterCounts, [NtpNext]_ntpVars PROVE RegisterCounts'
PROOF
<1> USE DEF NtpHeader, NTP_PACKET_RAWSIZE, NTP_PACKET_SIZE
<1>1. ASSUME NEW size \in Sizes, Arrive(size) PROVE RegisterCounts'
  <2>1. size \in Nat /\ size >= 48
    BY NtpAssumption DEF WholeRequests
  <2>2. Len(ntpRx') = Len(ntpRx) + 1 /\ Len(ntpRx) \in Nat
    BY <1>1 DEF Arrive, NtpTypeInv
  <2>3. Len(ntpRx) = 0 => ntpRx'[1].size = size
    BY <1>1, <2>2 DEF Arrive, NtpTypeInv
  <2>4. Sn_RX_RSR' = Sn_RX_RSR + 8 + size /\ Sn_RX_RSR \in Int
    BY <1>1 DEF Arrive, NtpTypeInv
  <2>5. QED
    BY <2>1, <2>2, <2>3, <2>4 DEF RegisterCounts
<1>2. CASE Receive
  <2>1. Len(ntpRx) \in Nat /\ Len(ntpRx) # 0
    BY <1>2 DEF Receive, NtpTypeInv
  <2>2. Len(ntpRx) = 1
    <3>1. Sn_RX_RSR = 56
      BY <1>2 DEF Receive, HasRequest
    <3>2. 56 >= 56 * Len(ntpRx)
      BY <3>1 DEF RegisterCounts
    <3>3. QED
      BY <2>1, <3>2
  <2>3. Len(ntpRx') = 0 /\ Head(ntpRx) = ntpRx[1] /\ ntpRx[1] \in Datagram
    BY <1>2, <2>2 DEF Receive, NtpTypeInv
  <2>4. ntpRx[1].size \in Nat
    BY <2>3 DEF Datagram
  <2>5. Sn_RX_RSR' = 0
    BY <1>2, <2>2, <2>3, <2>4 DEF Receive, RegisterCounts
  <2>6. QED
    BY <2>3, <2>5 DEF RegisterCounts
<1>3. CASE UNCHANGED <<ntpRx, Sn_RX_RSR>>
  BY <1>3 DEF RegisterCounts
<1>4. QED
  BY <1>1, <1>2, <1>3
  DEF NtpNext, Isr, NTPUDP, NtpChip, ntpVars, ntpChip, IsrMicros, IsrSeconds, Tick, Pass,
      LoadSeconds, StoreSeconds, LoadMicros, StoreMicros, TransmitSeconds, TransmitFraction,
      SendOk, SendTimeout, SendReturns, ReadFlags, ClearRecv

\* A request taken is a whole one, so clientPacket gets its time stamp.
LEMMA OriginStaysTheirs ==
  ASSUME NtpTypeInv, RegisterCounts, OriginIsTheirs, WholeRequests, [NtpNext]_ntpVars
  PROVE  OriginIsTheirs'
PROOF
<1>1. CASE Receive
  <2>1. Len(ntpRx) \in Nat /\ Len(ntpRx) # 0
    BY <1>1 DEF Receive, NtpTypeInv
  <2>2. Len(ntpRx) = 1
    BY <1>1, <2>1 DEF Receive, HasRequest, RegisterCounts, NTP_PACKET_RAWSIZE, NtpTypeInv
  <2>3. Head(ntpRx) = ntpRx[1] /\ ntpRx[1].size \in Nat
    <3>1. ntpRx \in Seq(Datagram) /\ ntpRx # <<>>
      BY <1>1 DEF Receive, NtpTypeInv
    <3>2. Head(ntpRx) = ntpRx[1] /\ ntpRx[1] \in Datagram
      BY <2>2, <3>1
    <3>3. QED
      BY <3>2 DEF Datagram
  <2>4. Head(ntpRx).size = NTP_PACKET_SIZE
    BY <1>1, <2>2, <2>3
    DEF Receive, HasRequest, RegisterCounts, NTP_PACKET_RAWSIZE, NTP_PACKET_SIZE, NtpHeader
  <2>5. QED
    BY <1>1, <2>4 DEF Receive, OriginOf, OriginIsTheirs
<1>2. CASE UNCHANGED <<req, origin>> /\ (ntpPc' \in InWork => ntpPc \in InWork)
  BY <1>2 DEF OriginIsTheirs
<1>3. QED
  BY <1>1, <1>2
  DEF NtpNext, Isr, NTPUDP, NtpChip, Arrive, ntpVars, ntpChip, answer, stamps, At, InWork,
      IsrMicros, IsrSeconds, Tick, Pass, LoadSeconds, StoreSeconds, LoadMicros, StoreMicros,
      TransmitSeconds, TransmitFraction, SendOk, SendTimeout, SendReturns, ReadFlags, ClearRecv

\* For any timers and any number of requests, each as long as an NTP message at
\* least, the time stamp a client sent comes back to that client, whatever is lost,
\* joined or timed out.
THEOREM OriginIsEchoed ==
  ASSUME WholeRequests
  PROVE  NtpSpec => []OriginEchoed
PROOF
<1>1. ASSUME NtpInit PROVE OriginInv
  <2>1. RegisterCounts
    <3>1. Len(ntpRx) = 0 /\ Sn_RX_RSR = 0
      BY <1>1 DEF NtpInit
    <3>2. QED
      BY <3>1 DEF RegisterCounts, NTP_PACKET_RAWSIZE
  <2>2. OriginIsTheirs /\ OriginEchoed
    BY <1>1 DEF NtpInit, OriginIsTheirs, OriginEchoed, InWork
  <2>3. QED
    BY <1>1, <2>1, <2>2, TypesAtStart DEF OriginInv
<1>2. ASSUME OriginInv, [NtpNext]_ntpVars PROVE OriginInv'
  <2>1. NtpTypeInv' /\ RegisterCounts' /\ OriginIsTheirs'
    BY <1>2, TypesStay, RegisterKeepsCounting, OriginStaysTheirs DEF OriginInv
  <2>2. ASSUME SendOk PROVE OriginEchoed'
    BY <1>2, <2>2 DEF SendOk, OriginInv, OriginIsTheirs, OriginEchoed, InWork
  <2>3. ASSUME UNCHANGED reply PROVE OriginEchoed'
    BY <1>2, <2>3 DEF OriginInv, OriginEchoed
  <2>4. OriginEchoed'
    BY <1>2, <2>2, <2>3
    DEF NtpNext, Isr, NTPUDP, NtpChip, Arrive, ntpVars, ntpChip, answer, stamps, IsrMicros,
        IsrSeconds, Tick, Pass, Receive, LoadSeconds, StoreSeconds, LoadMicros, StoreMicros,
        TransmitSeconds, TransmitFraction, SendTimeout, SendReturns, ReadFlags, ClearRecv
  <2>5. QED
    BY <2>1, <2>4 DEF OriginInv
<1>3. OriginInv => OriginEchoed
  BY DEF OriginInv
<1>4. QED
  BY <1>1, <1>2, <1>3, PTL DEF NtpSpec

-----------------------------------------------------------------------------
(* The receive time stamp of a request that finds the server at rest *)

\* The steps that neither touch the receive buffer nor the flags the line hangs on
\* belong to a request in work, so no fresh one waits.
LEMMA FreshKeepsWaiting ==
  ASSUME NtpTypeInv, FreshWaits, [NtpNext]_ntpVars PROVE FreshWaits'
PROOF
<1> SUFFICES ASSUME NEW i \in 1..Len(ntpRx')
             PROVE  /\ ntpRx'[i].at <= clock'
                    /\ ntpRx'[i].fresh =>
                         i = 1 /\ ntpPc' = "poll" /\ recvFlag' /\ StampedFrom(ntpRx[i].at)'
  BY DEF FreshWaits
<1>1. Now.at = clock
  BY NowIsInstant DEF NtpTypeInv
<1>2. ASSUME i \in 1..Len(ntpRx)
      PROVE  /\ ntpRx[i].at \in Nat /\ ntpRx[i].at <= clock
             /\ ntpRx[i].fresh => i = 1 /\ ntpPc = "poll" /\ recvFlag /\ StampedFrom(ntpRx[i].at)
  <2>1. ntpRx[i] \in Datagram
    BY <1>2 DEF NtpTypeInv
  <2>2. QED
    BY <1>2, <2>1 DEF FreshWaits, Datagram
<1>3. ASSUME NEW size \in Sizes, Arrive(size)
      PROVE  /\ ntpRx'[i].at <= clock'
             /\ ntpRx'[i].fresh =>
                  i = 1 /\ ntpPc' = "poll" /\ recvFlag' /\ StampedFrom(ntpRx[i].at)'
  <2>1. Len(ntpRx') = Len(ntpRx) + 1 /\ Len(ntpRx) \in Nat
    BY <1>3 DEF Arrive, NtpTypeInv
  <2>2. CASE i = Len(ntpRx) + 1
    <3>1. ntpRx'[i] = [id |-> arrivals + 1, size |-> size, at |-> clock, fresh |-> Quiet /\ Edge]
      BY <1>3, <2>2 DEF Arrive, NtpTypeInv
    <3>2. ntpRx'[i].at = clock /\ ntpRx'[i].fresh = (Quiet /\ Edge)
      BY <3>1
    <3>3. ASSUME Quiet, Edge
          PROVE  i = 1 /\ ntpPc' = "poll" /\ recvFlag' /\ pend' /\ ~inIsr'
      <4>1. ntpRx = <<>> /\ ntpPc = "poll" /\ ~inIsr
        BY <3>3 DEF Quiet
      <4>2. Len(ntpRx) = 0
        BY <4>1
      <4>3. UNCHANGED <<ntpPc, inIsr>>
        BY <1>3 DEF Arrive, stamps
      <4>4. recvFlag' /\ pend'
        BY <1>3, <3>3 DEF Arrive
      <4>5. QED
        BY <2>2, <4>1, <4>2, <4>3, <4>4
    <3>4. clock' = clock
      BY <1>3 DEF Arrive
    <3>5. ntpRx'[i].fresh => Quiet /\ Edge
      BY <3>2, Zenon
    <3>6. ntpRx'[i].at <= clock'
      BY <3>2, <3>4 DEF NtpTypeInv
    <3>7. QED
      BY <3>3, <3>5, <3>6 DEF StampedFrom
  <2>3. CASE i \in 1..Len(ntpRx)
    <3>1. ntpRx'[i] = ntpRx[i]
      BY <1>3, <2>3 DEF Arrive, NtpTypeInv
    <3>2. UNCHANGED <<inIsr, recvTime, micros_recv, ntpPc, clock>> /\ recvFlag'
      BY <1>3 DEF Arrive, stamps
    <3>3. recvFlag => pend' = (pend \/ FALSE)
      BY <1>3 DEF Arrive, Edge
    <3>4. QED
      BY <1>2, <2>3, <3>1, <3>2, <3>3 DEF StampedFrom, TakenSince
  <2>4. QED
    BY <2>1, <2>2, <2>3
<1>4. ASSUME IsrMicros
      PROVE  /\ ntpRx'[i].at <= clock'
             /\ ntpRx'[i].fresh =>
                  i = 1 /\ ntpPc' = "poll" /\ recvFlag' /\ StampedFrom(ntpRx[i].at)'
  <2>1. UNCHANGED <<ntpRx, recvFlag, ntpPc, clock>> /\ pend /\ ~pend' /\ inIsr'
    BY <1>4 DEF IsrMicros
  <2>2. micros_recv'.form = "host" /\ micros_recv'.time.at = clock
    BY <1>1, <1>4 DEF IsrMicros
  <2>3. QED
    BY <1>2, <2>1, <2>2 DEF StampedFrom, TakenSince, NtpTypeInv
<1>5. ASSUME IsrSeconds
      PROVE  /\ ntpRx'[i].at <= clock'
             /\ ntpRx'[i].fresh =>
                  i = 1 /\ ntpPc' = "poll" /\ recvFlag' /\ StampedFrom(ntpRx[i].at)'
  <2>1. UNCHANGED <<ntpRx, recvFlag, pend, micros_recv, ntpPc, clock>> /\ inIsr /\ ~inIsr'
    BY <1>5 DEF IsrSeconds, ntpChip
  <2>2. recvTime'.form = "host" /\ recvTime'.time.at = clock
    BY <1>1, <1>5 DEF IsrSeconds
  <2>3. QED
    BY <1>2, <2>1, <2>2 DEF StampedFrom, TakenSince, NtpTypeInv
<1>6. ASSUME Tick
      PROVE  /\ ntpRx'[i].at <= clock'
             /\ ntpRx'[i].fresh =>
                  i = 1 /\ ntpPc' = "poll" /\ recvFlag' /\ StampedFrom(ntpRx[i].at)'
  <2>1. /\ UNCHANGED <<ntpRx, recvFlag, pend, inIsr, recvTime, micros_recv, ntpPc>>
        /\ clock' = clock + 1
    BY <1>6 DEF Tick, ntpChip, stamps
  <2>2. ASSUME NEW s \in Stamp, NEW t, TakenSince(s, t)
        PROVE  s.form = "host" /\ t <= s.time.at /\ s.time.at <= clock'
    BY SMTT(30), <2>1, <2>2 DEF TakenSince, Stamp, Instant, NtpTypeInv
  <2>3. QED
    BY <1>2, <2>1, <2>2 DEF StampedFrom, TakenSince, NtpTypeInv
<1>7. ASSUME Receive
      PROVE  ntpRx'[i].at <= clock' /\ ~ntpRx'[i].fresh
  <2>1. ntpRx # <<>> /\ ntpRx' = Tail(ntpRx) /\ clock' = clock
    BY <1>7 DEF Receive
  <2>2. i + 1 \in 1..Len(ntpRx) /\ ntpRx'[i] = ntpRx[i + 1] /\ i + 1 # 1
    BY <2>1 DEF NtpTypeInv
  <2>3. QED
    BY <2>1, <2>2 DEF FreshWaits
<1>8. ASSUME ntpPc # "poll", UNCHANGED <<ntpRx, clock>>
      PROVE  ntpRx'[i].at <= clock' /\ ~ntpRx'[i].fresh
  BY <1>2, <1>8
<1>9. ASSUME UNCHANGED ntpVars
      PROVE  /\ ntpRx'[i].at <= clock'
             /\ ntpRx'[i].fresh =>
                  i = 1 /\ ntpPc' = "poll" /\ recvFlag' /\ StampedFrom(ntpRx[i].at)'
  BY <1>2, <1>9 DEF ntpVars, ntpChip, stamps, StampedFrom, TakenSince
<1>10. ASSUME \/ LoadSeconds \/ StoreSeconds \/ LoadMicros \/ StoreMicros \/ TransmitSeconds
              \/ TransmitFraction \/ SendOk \/ SendTimeout \/ SendReturns \/ ReadFlags \/ ClearRecv
       PROVE  ntpPc # "poll" /\ UNCHANGED <<ntpRx, clock>>
  BY <1>10
  DEF LoadSeconds, StoreSeconds, LoadMicros, StoreMicros, TransmitSeconds, TransmitFraction,
      SendOk, SendTimeout, SendReturns, ReadFlags, ClearRecv, At, ntpChip
<1>11. QED
  BY <1>3, <1>4, <1>5, <1>6, <1>7, <1>8, <1>9, <1>10 DEF NtpNext, Isr, NTPUDP, NtpChip, Pass

\* A request that has just been taken had its stamp before it was.
LEMMA TakenIsStamped ==
  ASSUME NtpTypeInv, FreshWaits, Receive
  PROVE  /\ req'.at <= clock /\ req' \in Datagram
         /\ req'.fresh => /\ recvFlag /\ ~pend /\ ~inIsr
                          /\ TakenSince(micros_recv, req'.at) /\ TakenSince(recvTime, req'.at)
PROOF
<1>1. req' = ntpRx[1] /\ 1 \in 1..Len(ntpRx) /\ ntpRx[1] \in Datagram
  BY DEF Receive, NtpTypeInv
<1>2. ntpRx[1].at <= clock /\ (ntpRx[1].fresh => recvFlag /\ StampedFrom(ntpRx[1].at))
  BY <1>1 DEF FreshWaits
<1>3. ~pend /\ ~inIsr
  BY DEF Receive, At
<1>4. QED
  BY <1>1, <1>2, <1>3 DEF StampedFrom

\* Until its reply has left, the flag of such a request keeps the line low.
LEMMA FreshStaysAlone ==
  ASSUME NtpTypeInv, FreshWaits, FreshAlone, [NtpNext]_ntpVars PROVE FreshAlone'
PROOF
<1> SUFFICES ASSUME req'.fresh, ntpPc' \in InWork PROVE recvFlag' /\ ~pend' /\ ~inIsr'
  BY DEF FreshAlone
<1>1. CASE Receive
  BY <1>1, TakenIsStamped DEF Receive, stamps
<1>2. ASSUME NEW size \in Sizes, Arrive(size) PROVE recvFlag' /\ ~pend' /\ ~inIsr'
  BY <1>2 DEF Arrive, Edge, FreshAlone, stamps, answer
<1>3. CASE IsrMicros \/ IsrSeconds
  BY <1>3 DEF IsrMicros, IsrSeconds, FreshAlone, answer
<1>4. CASE SendOk \/ SendTimeout \/ SendReturns \/ ReadFlags \/ ClearRecv
  BY <1>4 DEF SendOk, SendTimeout, SendReturns, ReadFlags, ClearRecv, InWork
<1>5. CASE UNCHANGED <<req, recvFlag, pend, inIsr>> /\ ntpPc \in InWork
  BY <1>5 DEF FreshAlone
<1>6. QED
  BY <1>1, <1>2, <1>3, <1>4, <1>5
  DEF NtpNext, Isr, NTPUDP, NtpChip, Tick, Pass, ntpVars, ntpChip, stamps, answer, LoadSeconds,
      StoreSeconds, LoadMicros, StoreMicros, TransmitSeconds, TransmitFraction, At, InWork

\* Each step of the answer turns the stamps it holds and puts them in the packet.
LEMMA FreshStampsStay ==
  ASSUME NtpTypeInv, FreshWaits, FreshAlone, FreshStamps, [NtpNext]_ntpVars PROVE FreshStamps'
PROOF
<1> SUFFICES ASSUME req'.fresh, ntpPc' \in InWork PROVE FreshStamps'
  BY DEF FreshStamps
<1>1. Now \in Instant /\ Now.at = clock
  BY NowIsInstant DEF NtpTypeInv
<1>2. req.at \in Nat /\ clock \in Nat /\ packet \in Stamps4
  BY DEF NtpTypeInv, Datagram
<1>3. CASE Receive
  <2>1. ntpPc' = "loadSec" /\ UNCHANGED <<recvTime, micros_recv, clock>>
    BY <1>3 DEF Receive, stamps
  <2>2. QED
    BY <1>3, <2>1, TakenIsStamped DEF FreshStamps, TakenSince
<1>4. CASE LoadSeconds
  <2>1. /\ ntpPc = "loadSec" /\ ntpPc' = "storeSec" /\ reg' = recvTime
        /\ UNCHANGED <<req, micros_recv, clock>>
    BY <1>4 DEF LoadSeconds, At, stamps
  <2>2. QED
    BY <2>1 DEF FreshStamps, TakenSince, InWork
<1>5. CASE StoreSeconds
  <2>1. /\ ntpPc = "storeSec" /\ ntpPc' = "loadFrac" /\ recvTime' = Htonl(reg)
        /\ packet' = [packet EXCEPT !.t2s = recvTime']
        /\ UNCHANGED <<req, micros_recv, clock>>
    BY <1>5 DEF StoreSeconds, At
  <2>2. packet'.t2s = Htonl(reg)
    BY <1>2, <2>1 DEF Stamps4
  <2>3. TakenSince(reg, req.at) /\ TakenSince(micros_recv, req.at)
    BY <2>1 DEF FreshStamps, InWork
  <2>4. TurnedSince(packet.t2s, req.at)'
    BY <2>1, <2>2, <2>3, TurningKeepsInstants DEF TurnedSince, TakenSince, NtpTypeInv
  <2>5. QED
    BY <2>1, <2>3, <2>4 DEF FreshStamps, TakenSince
<1>6. CASE LoadMicros
  <2>1. /\ ntpPc = "loadFrac" /\ ntpPc' = "storeFrac" /\ reg' = micros_recv
        /\ UNCHANGED <<req, packet, clock>>
    BY <1>6 DEF LoadMicros, At, stamps
  <2>2. QED
    BY <2>1 DEF FreshStamps, TakenSince, TurnedSince, InWork
<1>7. CASE StoreMicros
  <2>1. /\ ntpPc = "storeFrac" /\ ntpPc' = "transmitSec" /\ micros_recv' = Scale(reg)
        /\ packet' = [packet EXCEPT !.t2f = micros_recv']
        /\ UNCHANGED <<req, clock>>
    BY <1>7 DEF StoreMicros, At
  <2>2. packet'.t2f = Scale(reg) /\ packet'.t2s = packet.t2s
    BY <1>2, <2>1 DEF Stamps4
  <2>3. TakenSince(reg, req.at) /\ TurnedSince(packet.t2s, req.at)
    BY <2>1 DEF FreshStamps, InWork
  <2>4. TurnedSince(packet.t2f, req.at)' /\ TurnedSince(packet.t2s, req.at)'
    BY <2>1, <2>2, <2>3, TurningKeepsInstants DEF TurnedSince, TakenSince, NtpTypeInv
  <2>5. QED
    BY <2>1, <2>4 DEF FreshStamps
<1>8. CASE TransmitSeconds
  <2> DEFINE s == [time |-> Now, form |-> "host"]
  <2>1. /\ ntpPc = "transmitSec" /\ ntpPc' = "transmitFrac"
        /\ packet' = [packet EXCEPT !.t3s = Htonl(s)]
        /\ UNCHANGED <<req, clock>>
    BY <1>8 DEF TransmitSeconds, At
  <2>2. s \in Stamp /\ s.time.at = clock
    BY <1>1 DEF Stamp
  <2>3. /\ packet'.t3s.time.at = clock
        /\ packet'.t2f = packet.t2f /\ packet'.t2s = packet.t2s
    BY <1>2, <2>1, <2>2, TurningKeepsInstants DEF Stamps4
  <2>4. TurnedSince(packet.t2f, req.at) /\ TurnedSince(packet.t2s, req.at)
    BY <2>1 DEF FreshStamps, InWork
  <2>5. QED
    BY <2>1, <2>3, <2>4 DEF FreshStamps, TurnedSince
<1>9. CASE TransmitFraction
  <2>1. /\ ntpPc = "transmitFrac" /\ ntpPc' = "send"
        /\ packet'.t2s = packet.t2s /\ packet'.t2f = packet.t2f /\ packet'.t3s = packet.t3s
        /\ UNCHANGED <<req, clock>>
    BY <1>2, <1>9 DEF TransmitFraction, At, Stamps4
  <2>2. QED
    BY <2>1 DEF FreshStamps, TurnedSince, InWork
<1>10. CASE Tick
  <2>1. UNCHANGED <<req, ntpPc, reg, recvTime, micros_recv, packet>> /\ clock' = clock + 1
    BY <1>10 DEF Tick, answer, stamps
  <2>2. ASSUME NEW s \in Stamp, NEW t
        PROVE  /\ TakenSince(s, t) => s.form = "host" /\ t <= s.time.at /\ s.time.at <= clock'
               /\ TurnedSince(s, t) => s.form = "wire" /\ t <= s.time.at /\ s.time.at <= clock'
    BY <1>2, <2>1 DEF TakenSince, TurnedSince, Stamp, Instant
  <2>3. packet.t2s \in Stamp /\ packet.t2f \in Stamp
    BY <1>2 DEF Stamps4
  <2>4. /\ TakenSince(recvTime, req.at) => TakenSince(recvTime, req.at)'
        /\ TakenSince(micros_recv, req.at) => TakenSince(micros_recv, req.at)'
        /\ TakenSince(reg, req.at) => TakenSince(reg, req.at)'
        /\ TurnedSince(packet.t2s, req.at) => TurnedSince(packet.t2s, req.at)'
        /\ TurnedSince(packet.t2f, req.at) => TurnedSince(packet.t2f, req.at)'
    BY <2>1, <2>2, <2>3 DEF TakenSince, TurnedSince, NtpTypeInv
  <2>5. QED
    BY <2>1, <2>4 DEF FreshStamps
<1>11. CASE IsrMicros \/ IsrSeconds
  BY <1>11 DEF IsrMicros, IsrSeconds, FreshAlone, answer
<1>12. CASE SendOk \/ SendTimeout \/ SendReturns \/ ReadFlags \/ ClearRecv
  BY <1>12 DEF SendOk, SendTimeout, SendReturns, ReadFlags, ClearRecv, InWork
<1>13. CASE UNCHANGED <<req, ntpPc, reg, recvTime, micros_recv, packet, clock>>
  BY <1>13 DEF FreshStamps, TakenSince, TurnedSince
<1>14. QED
  BY <1>3, <1>4, <1>5, <1>6, <1>7, <1>8, <1>9, <1>10, <1>11, <1>12, <1>13
  DEF NtpNext, Isr, NTPUDP, NtpChip, Arrive, Pass, ntpVars, ntpChip, stamps, answer

\* For any timers, datagrams of any size, number and order, and transmissions that
\* fail or not, a request that finds the server at rest is answered with the time of
\* its receipt, in network order.
THEOREM FreshStampsAreTrue == NtpSpec => []FreshIsStamped
PROOF
<1>1. ASSUME NtpInit PROVE NtpInv
  <2>1. Len(ntpRx) = 0
    BY <1>1 DEF NtpInit
  <2>2. FreshWaits
    BY <2>1 DEF FreshWaits
  <2>3. FreshAlone /\ FreshStamps /\ FreshIsStamped
    BY <1>1 DEF NtpInit, FreshAlone, FreshStamps, FreshIsStamped, InWork
  <2>4. QED
    BY <1>1, <2>2, <2>3, TypesAtStart DEF NtpInv
<1>2. ASSUME NtpInv, [NtpNext]_ntpVars PROVE NtpInv'
  <2>1. NtpTypeInv' /\ FreshWaits' /\ FreshAlone' /\ FreshStamps'
    BY <1>2, TypesStay, FreshKeepsWaiting, FreshStaysAlone, FreshStampsStay DEF NtpInv
  <2>2. ASSUME SendOk PROVE FreshIsStamped'
    <3>1. reply' = [req |-> req, origin |-> origin, packet |-> packet] /\ ntpPc = "send"
      BY <2>2 DEF SendOk
    <3>2. SUFFICES ASSUME req.fresh PROVE StampedAtReceipt(reply)'
      BY <3>1 DEF FreshIsStamped
    <3>3. /\ TurnedSince(packet.t2s, req.at) /\ packet.t2s.time.at <= packet.t3s.time.at
          /\ TurnedSince(packet.t2f, req.at) /\ packet.t2f.time.at <= packet.t3s.time.at
      BY <1>2, <3>1, <3>2 DEF NtpInv, FreshStamps, InWork
    <3>4. packet \in Stamps4 /\ req \in Datagram
      BY <1>2 DEF NtpInv, NtpTypeInv
    <3>5. /\ packet.t2s.time.at \in req.at..packet.t3s.time.at
          /\ packet.t2f.time.at \in req.at..packet.t3s.time.at
      BY <3>3, <3>4 DEF TurnedSince, Stamps4, Stamp, Instant, Datagram
    <3>6. QED
      BY <3>1, <3>3, <3>5 DEF StampedAtReceipt, TurnedSince
  <2>3. ASSUME UNCHANGED reply PROVE FreshIsStamped'
    BY <1>2, <2>3 DEF NtpInv, FreshIsStamped, StampedAtReceipt
  <2>4. FreshIsStamped'
    BY <1>2, <2>2, <2>3
    DEF NtpNext, Isr, NTPUDP, NtpChip, Arrive, ntpVars, ntpChip, answer, stamps, IsrMicros,
        IsrSeconds, Tick, Pass, Receive, LoadSeconds, StoreSeconds, LoadMicros, StoreMicros,
        TransmitSeconds, TransmitFraction, SendTimeout, SendReturns, ReadFlags, ClearRecv
  <2>5. QED
    BY <2>1, <2>4 DEF NtpInv
<1>3. NtpInv => FreshIsStamped
  BY DEF NtpInv
<1>4. QED
  BY <1>1, <1>2, <1>3, PTL DEF NtpSpec

-----------------------------------------------------------------------------
(* The web server *)

USE SeqNumsAssumption, PageAssumption, BufferAssumption

InSend == pc \in {"send", "sendIR", "sendFSR", "sent"}

\* What the variables of the program may be.
States == {"CLOSED", "INIT", "LISTEN", "ESTABLISHED", "CLOSE_WAIT", "CLOSING"}
PagesOrNone == Pages \cup {NoPage}
Stored == [sock_status : {"IDLE", "RES_INPROC", "RES_DONE"}, file_start : PagesOrNone,
           file_len : Nat, file_offset : Nat]

\* The part of the types that the proof needs: the chip may do what it likes.
HttpTypeInv ==
    /\ HTTPSock_Status \in [Seqs -> Stored]
    /\ cur \in Seqs
    /\ pc \in {"run", "listening", "recv"} \/ InSend
    /\ served \in [Seqs -> PagesOrNone]
    /\ handed \in [Seqs -> Nat]
    /\ rx \in [Seqs -> Requests \cup {NoRequest}]
    /\ sr \in [Seqs -> States]

\* In the middle of a page the record says which, how long, and what was handed over.
InProcess(s) ==
    LET st == HTTPSock_Status[s]
    IN  st.sock_status = "RES_INPROC" =>
          /\ st.file_start \in Pages /\ st.file_start = served[s]
          /\ st.file_len = PageLen[st.file_start]
          /\ 0 < st.file_offset /\ st.file_offset < st.file_len
          /\ st.file_offset = handed[s]

\* At the end of a response the whole page was handed over.
Done(s) ==
    LET st == HTTPSock_Status[s]
    IN  st.sock_status = "RES_DONE" =>
          /\ st.file_len = 0
          /\ served[s] \in Pages => handed[s] = PageLen[served[s]]

\* A record that waits for a request is clean, except while its page is begun.
Waiting(s) ==
    (HTTPSock_Status[s].sock_status = "IDLE" /\ ~(s = cur /\ InSend /\ out.what = "body")) =>
        HTTPSock_Status[s] = IdleStatus

Records == \A s \in Seqs : InProcess(s) /\ Done(s) /\ Waiting(s)

\* Between its calls send() has nothing to send, and what is received is asked for.
Outside ==
    /\ ~InSend => out = NoSend
    /\ pc = "recv" => /\ Status = "IDLE"
                      /\ sr[cur] \in {"ESTABLISHED", "CLOSE_WAIT", "CLOSED"}
                      /\ sr[cur] # "CLOSED" => rx[cur] \in Requests

\* What send() is given: an answer or a header, the first part of a page, or the next.
Header ==
    (InSend /\ out.what # "body") =>
        /\ Status = "IDLE" /\ handed[cur] = 0
        /\ \/ out.what = "page" /\ out.page \in Pages /\ served[cur] = out.page
           \/ out.what \in {"short", "config"} /\ served[cur] = NoPage

Part ==
    (InSend /\ out.what = "body") =>
        \/ \E page \in Pages :
             /\ HTTPSock_Status[cur] = Remember(IdleStatus, page)
             /\ out = FirstPart(IdleStatus, page)
             /\ served[cur] = page /\ handed[cur] = 0
        \/ Status = "RES_INPROC" /\ out = RemainingPart(HTTPSock_Status[cur])

HttpInv == HttpTypeInv /\ Records /\ Outside /\ Header /\ Part

\* The modulus of the main loop.
LEMMA NextIsASocket == ASSUME NEW i \in Seqs PROVE (i + 1) % SeqNums \in Seqs
  BY DEF Seqs

\* The invariant implies what the runs check.
LEMMA ConsistentHolds == HttpInv => RecordsAreConsistent
  BY DEF HttpInv, HttpTypeInv, Records, InProcess, Done, Waiting, RecordsAreConsistent, InSend

LEMMA TiledHolds == HttpInv => PagesAreTiled
<1> SUFFICES ASSUME HttpInv PROVE PagesAreTiled
  OBVIOUS
<1> USE DEF HttpInv
<1>1. ASSUME NEW s \in Seqs, HTTPSock_Status[s].sock_status = "RES_DONE", served[s] \in Pages
      PROVE  handed[s] = PageLen[served[s]]
  BY <1>1 DEF Records, Done
<1>2. ASSUME InSend, out.what = "body"
      PROVE  /\ out.page = served[cur] /\ out.page \in Pages
             /\ out.from = handed[cur] /\ out.len > 0
             /\ out.from + out.len <= PageLen[out.page]
  <2>1. ASSUME NEW page \in Pages, out = FirstPart(IdleStatus, page),
               served[cur] = page, handed[cur] = 0
        PROVE  /\ out.page = served[cur] /\ out.page \in Pages
               /\ out.from = handed[cur] /\ out.len > 0
               /\ out.from + out.len <= PageLen[out.page]
    BY <2>1 DEF FirstPart, IdleStatus, Least
  <2>2. CASE Status = "RES_INPROC" /\ out = RemainingPart(HTTPSock_Status[cur])
    BY <2>2 DEF RemainingPart, Least, Status, Records, InProcess, HttpTypeInv, Stored
  <2> QED
    BY <1>2, <2>1, <2>2 DEF Part
<1> QED
  BY <1>1, <1>2 DEF PagesAreTiled, InSend

\* Power-up and restart.
LEMMA FreshIsFine ==
  ASSUME HTTPSock_Status = [s \in Seqs |-> IdleStatus], cur = 0, pc = "run", out = NoSend,
         served = [s \in Seqs |-> NoPage], handed = [s \in Seqs |-> 0],
         rx = [s \in Seqs |-> NoRequest], sr = [s \in Seqs |-> "CLOSED"]
  PROVE  HttpInv
<1>1. 0 \in Seqs
  BY DEF Seqs
<1>2. IdleStatus \in Stored
  BY DEF IdleStatus, Stored, PagesOrNone
<1>3. HttpTypeInv
  BY <1>1, <1>2 DEF HttpTypeInv, PagesOrNone, States
<1>4. Records /\ Outside /\ Header /\ Part
  BY DEF Records, InProcess, Done, Waiting, Outside, Header, Part, InSend, IdleStatus
<1> QED
  BY <1>3, <1>4 DEF HttpInv

-----------------------------------------------------------------------------
(* The peers and the chip *)

\* What changes neither the records nor where the processor stands: a request that is
\* being received stays there, unless the connection ends.
LEMMA RegistersKeep ==
  ASSUME HttpInv, UNCHANGED <<HTTPSock_Status, cur, pc, out, served, handed>>,
         rx' \in [Seqs -> Requests \cup {NoRequest}], sr' \in [Seqs -> States],
         pc = "recv" => \/ sr'[cur] = "CLOSED"
                        \/ sr'[cur] \in {"ESTABLISHED", "CLOSE_WAIT"} /\ rx'[cur] \in Requests
  PROVE  HttpInv'
<1> USE DEF HttpInv
<1>1. HttpTypeInv'
  BY DEF HttpTypeInv, InSend
<1>2. Records'
  BY DEF Records, InProcess, Done, Waiting, InSend
<1>3. Outside' /\ Header' /\ Part'
  BY DEF Outside, Header, Part, InSend, Status
<1> QED
  BY <1>1, <1>2, <1>3

\* A step of a peer or of the chip, on any socket.
LEMMA OthersKeep ==
  ASSUME HttpInv, NEW s \in Seqs, Chip(s) \/ Peer(s)
  PROVE  HttpInv'
<1>1. UNCHANGED <<HTTPSock_Status, cur, pc, out, served, handed>>
  BY DEF Chip, Peer, SendDone, Acknowledged, TimesOut, Closed, Connect, Ask, PeerCloses,
         PeerResets, server, history
<1>2. /\ rx' \in [Seqs -> Requests \cup {NoRequest}] /\ sr' \in [Seqs -> States]
      /\ cur \in Seqs
      /\ pc = "recv" => /\ sr[cur] \in {"ESTABLISHED", "CLOSE_WAIT", "CLOSED"}
                        /\ sr[cur] # "CLOSED" => rx[cur] \in Requests
  BY DEF HttpInv, HttpTypeInv, Outside, States, Chip, Peer, SendDone, Acknowledged, TimesOut,
         Closed, Connect, Ask, PeerCloses, PeerResets, Drop
<1>3. \/ UNCHANGED <<sr, rx>>
      \/ sr' = [sr EXCEPT ![s] = "CLOSED"]
      \/ sr[s] = "ESTABLISHED" /\ sr' = [sr EXCEPT ![s] = "CLOSE_WAIT"] /\ UNCHANGED rx
      \/ sr[s] = "LISTEN" /\ sr' = [sr EXCEPT ![s] = "ESTABLISHED"] /\ UNCHANGED rx
      \/ UNCHANGED sr /\ \E r \in Requests : rx' = [rx EXCEPT ![s] = r]
  BY DEF Chip, Peer, SendDone, Acknowledged, TimesOut, Closed, Connect, Ask, PeerCloses,
         PeerResets, Drop
<1>4. \A k \in Seqs : k # s => sr'[k] = sr[k] /\ rx'[k] = rx[k]
  BY DEF HttpInv, HttpTypeInv, Chip, Peer, SendDone, Acknowledged, TimesOut,
         Closed, Connect, Ask, PeerCloses, PeerResets, Drop
<1>5. pc = "recv" => \/ sr'[cur] = "CLOSED"
                     \/ sr'[cur] \in {"ESTABLISHED", "CLOSE_WAIT"} /\ rx'[cur] \in Requests
  BY <1>2, <1>3, <1>4 DEF HttpInv, HttpTypeInv
<1> QED
  BY <1>1, <1>2, <1>5, RegistersKeep

-----------------------------------------------------------------------------
(* httpServer_run *)

\* The registers keep their types in every step of the processor.
LEMMA RegisterTypes ==
  ASSUME HttpInv, Processor
  PROVE  rx' \in [Seqs -> Requests \cup {NoRequest}] /\ sr' \in [Seqs -> States]
<1>1. \/ UNCHANGED <<sr, rx>>
      \/ \E t \in States : sr' = [sr EXCEPT ![cur] = t] /\ rx' = [rx EXCEPT ![cur] = NoRequest]
      \/ sr' = [sr EXCEPT ![cur] = "LISTEN"] /\ UNCHANGED rx
      \/ rx' = [rx EXCEPT ![cur] = NoRequest] /\ UNCHANGED sr
      \/ sr' = [s \in Seqs |-> "CLOSED"] /\ rx' = [s \in Seqs |-> NoRequest]
  BY DEF Processor, RunNothing, RunRequest, RunInProcess, RunDone, RunClosed, RunInit,
         ListenChecked, Received, ReceiveFaults, SendStatus, SendFlags, SendWaits, HeadSent,
         PartSent, AnswerSent, ConfigSent, chip, Restart, Disconnect, Close, CloseInto, Drop, States
<1> QED
  BY <1>1 DEF HttpInv, HttpTypeInv, States

\* A pass that changes no record, or clears that of the socket at its end.
LEMMA RunKeeps ==
  ASSUME HttpInv, RunNothing \/ RunRequest \/ RunInProcess \/ RunClosed \/ RunInit \/ ListenChecked
  PROVE  HttpInv'
<1> USE DEF HttpInv
<1>1. /\ UNCHANGED <<HTTPSock_Status, served, handed>> /\ ~InSend /\ pc # "recv"
      /\ cur' \in Seqs
      /\ \/ pc' \in {"run", "listening"} /\ out' = NoSend
         \/ cur' = cur /\ pc' = "recv" /\ out' = NoSend /\ Status = "IDLE" 
              /\ sr[cur] = "ESTABLISHED" /\ rx[cur] # NoRequest /\ UNCHANGED <<sr, rx>>
         \/ cur' = cur /\ pc' = "send" /\ Status = "RES_INPROC"
              /\ out' = RemainingPart(HTTPSock_Status[cur])
  BY NextIsASocket
  DEF RunNothing, RunRequest, RunInProcess, RunClosed, RunInit, ListenChecked, Running, ToNext,
      InSend, HttpTypeInv, Outside, history, chip
<1>2. HttpTypeInv'
  BY <1>1, RegisterTypes DEF HttpTypeInv, InSend, Processor
<1>3. Records'
  BY <1>1 DEF Records, InProcess, Done, Waiting, InSend
<1>4. Outside'
  BY <1>1 DEF Outside, InSend, Status, HttpTypeInv
<1>5. Header' /\ Part'
  BY <1>1 DEF Header, Part, InSend, Status, RemainingPart
<1> QED
  BY <1>2, <1>3, <1>4, <1>5

\* The end of a response.
LEMMA DoneKeeps ==
  ASSUME HttpInv, RunDone
  PROVE  HttpInv'
<1> USE DEF HttpInv
<1>1. /\ HTTPSock_Status' = [HTTPSock_Status EXCEPT ![cur] = IdleStatus]
      /\ served' = [served EXCEPT ![cur] = NoPage] /\ handed' = [handed EXCEPT ![cur] = 0]
      /\ pc' = "run" /\ cur' \in Seqs /\ out' = NoSend /\ ~InSend
  BY NextIsASocket DEF RunDone, NewResponse, ToNext, Running, InSend, HttpTypeInv
<1>2. IdleStatus \in Stored
  BY DEF IdleStatus, Stored, PagesOrNone
<1>3. HttpTypeInv'
  BY <1>1, <1>2, RegisterTypes DEF HttpTypeInv, Processor, PagesOrNone
<1>4. Records'
  BY <1>1 DEF Records, InProcess, Done, Waiting, HttpTypeInv, IdleStatus, InSend
<1>5. Outside' /\ Header' /\ Part'
  BY <1>1 DEF Outside, Header, Part, InSend
<1> QED
  BY <1>3, <1>4, <1>5

\* A request is parsed, or the board restarts.
LEMMA ReceivedKeeps ==
  ASSUME HttpInv, Received
  PROVE  HttpInv'
<1> USE DEF HttpInv
<1>1. /\ pc = "recv" /\ pc' = "send" /\ UNCHANGED <<HTTPSock_Status, cur>>
      /\ rx[cur] \in Requests /\ Status = "IDLE"
      /\ served' = [served EXCEPT ![cur] = rx[cur].page] /\ handed' = [handed EXCEPT ![cur] = 0]
  BY DEF Received, NewResponse, Outside
<1>2. /\ out'.what = rx[cur].kind /\ out'.page = rx[cur].page
  BY DEF Received, NoSend
<1>3. \/ rx[cur].kind = "page" /\ rx[cur].page \in Pages
      \/ rx[cur].kind \in {"short", "config"} /\ rx[cur].page = NoPage
  BY <1>1 DEF Requests, PageRequests, OtherRequests
<1>4. HttpTypeInv'
  BY <1>1, <1>3, RegisterTypes DEF HttpTypeInv, Processor, PagesOrNone, InSend
<1>5. Records'
  BY <1>1, <1>2, <1>3 DEF Records, InProcess, Done, Waiting, HttpTypeInv, Status, InSend
<1>6. Outside' /\ Header' /\ Part'
  BY <1>1, <1>2, <1>3 DEF Outside, Header, Part, Status, InSend, HttpTypeInv
<1> QED
  BY <1>4, <1>5, <1>6

\* A restart of the board.
LEMMA RestartKeeps ==
  ASSUME Restart
  PROVE  HttpInv'
<1>1. 0 \in Seqs
  BY DEF Seqs
<1>2. IdleStatus \in Stored
  BY DEF IdleStatus, Stored, PagesOrNone
<1>3. HttpTypeInv'
  BY <1>1, <1>2 DEF Restart, HttpTypeInv, PagesOrNone, States
<1>4. Records' /\ Outside' /\ Header' /\ Part'
  BY DEF Restart, Records, InProcess, Done, Waiting, Outside, Header, Part, InSend, IdleStatus
<1> QED
  BY <1>3, <1>4 DEF HttpInv

-----------------------------------------------------------------------------
(* send() *)

\* Within send() only registers change.
LEMMA SendKeeps ==
  ASSUME HttpInv, SendStatus \/ SendFlags \/ SendWaits
  PROVE  HttpInv'
<1> USE DEF HttpInv
<1>1. /\ UNCHANGED <<HTTPSock_Status, cur, out, served, handed>> /\ InSend /\ InSend'
  BY DEF SendStatus, SendFlags, SendWaits, history, InSend
<1>2. HttpTypeInv'
  BY <1>1, RegisterTypes DEF HttpTypeInv, Processor
<1>3. Records'
  BY <1>1 DEF Records, InProcess, Done, Waiting
<1>4. Outside' /\ Header' /\ Part'
  BY <1>1 DEF Outside, Header, Part, Status, InSend
<1> QED
  BY <1>2, <1>3, <1>4

\* After the header the page is remembered, if it has more than one part.
LEMMA HeadKeeps ==
  ASSUME HttpInv, HeadSent
  PROVE  HttpInv'
<1> USE DEF HttpInv
<1>1. /\ InSend /\ out.what = "page" /\ pc' = "send" /\ UNCHANGED <<cur, served, handed>>
      /\ HTTPSock_Status' = [HTTPSock_Status EXCEPT ![cur] = Remember(@, out.page)]
      /\ out' = FirstPart(HTTPSock_Status[cur], out.page)
  BY DEF HeadSent, InSend, history
<1>2. /\ HTTPSock_Status[cur] = IdleStatus /\ out.page \in Pages
      /\ served[cur] = out.page /\ handed[cur] = 0
  BY <1>1 DEF Header, Records, Waiting, Status, HttpTypeInv
<1>3. /\ Remember(IdleStatus, out.page) \in Stored
      /\ Remember(IdleStatus, out.page).sock_status = "IDLE"
  BY <1>2 DEF Remember, IdleStatus, Stored, PagesOrNone
<1>4. HttpTypeInv'
  BY <1>1, <1>2, <1>3, RegisterTypes DEF HttpTypeInv, Processor, InSend
<1>5. HTTPSock_Status'[cur] = Remember(IdleStatus, out.page)
  BY <1>1, <1>2 DEF HttpTypeInv
<1>6. out'.what = "body"
  BY <1>1 DEF FirstPart
<1>7. Records'
  <2>1. InProcess(cur)' /\ Done(cur)' /\ Waiting(cur)'
    BY <1>1, <1>3, <1>5, <1>6 DEF InProcess, Done, Waiting, InSend
  <2>2. ASSUME NEW s \in Seqs, s # cur PROVE InProcess(s)' /\ Done(s)' /\ Waiting(s)'
    BY <1>1, <2>2 DEF Records, InProcess, Done, Waiting, HttpTypeInv
  <2> QED
    BY <1>1, <2>1, <2>2 DEF Records
<1>8. Outside' /\ Header' /\ Part'
  BY <1>1, <1>2, <1>5, <1>6 DEF Outside, Header, Part, InSend
<1> QED
  BY <1>4, <1>7, <1>8

\* The fields of a record after a part.
LEMMA AfterPartFields ==
  ASSUME NEW st \in Stored, NEW o, o.len \in Nat
  PROVE  LET t == AfterPart(st, o)
         IN  /\ t \in Stored
             /\ o.last => t.sock_status = "RES_DONE" /\ t.file_len = 0
             /\ ~o.last => /\ t.sock_status = IF st.file_len > 0 THEN "RES_INPROC" ELSE "RES_DONE"
                           /\ t.file_start = st.file_start /\ t.file_len = st.file_len
                           /\ t.file_offset = st.file_offset + o.len
<1> DEFINE cleared == [st EXCEPT !.file_start = NoPage, !.file_len = 0, !.file_offset = 0]
           advanced == [st EXCEPT !.file_offset = @ + o.len]
<1>1. cleared \in Stored /\ cleared.file_len = 0
  BY DEF Stored, PagesOrNone
<1>2. /\ advanced \in Stored /\ advanced.file_start = st.file_start
      /\ advanced.file_len = st.file_len /\ advanced.file_offset = st.file_offset + o.len
  BY DEF Stored
<1>3. ASSUME NEW u \in Stored
      PROVE  /\ Settled(u) \in Stored
             /\ Settled(u).sock_status = IF u.file_len > 0 THEN "RES_INPROC" ELSE "RES_DONE"
             /\ Settled(u).file_start = u.file_start /\ Settled(u).file_len = u.file_len
             /\ Settled(u).file_offset = u.file_offset
  BY DEF Settled, Stored
<1>4. AfterPart(st, o) = IF o.last THEN Settled(cleared) ELSE Settled(advanced)
  BY DEF AfterPart
<1> HIDE DEF cleared, advanced
<1> QED
  BY <1>1, <1>2, <1>3, <1>4

\* A record after a part: the next part begins where this one ended, or the page is over.
LEMMA PartAdvances ==
  ASSUME HttpInv, InSend, out.what = "body"
  PROVE  LET st == AfterPart(HTTPSock_Status[cur], out)
             h == handed[cur] + out.len
         IN  /\ st \in Stored /\ h \in Nat /\ served[cur] \in Pages
             /\ \/ /\ st.sock_status = "RES_INPROC" /\ st.file_start = served[cur]
                   /\ st.file_len = PageLen[served[cur]]
                   /\ 0 < st.file_offset /\ st.file_offset < st.file_len /\ st.file_offset = h
                \/ /\ st.sock_status = "RES_DONE" /\ st.file_len = 0
                   /\ h = PageLen[served[cur]]
<1> USE DEF HttpInv
<1> DEFINE o == HTTPSock_Status[cur]
           L == PageLen[served[cur]]
           t == AfterPart(o, out)
<1>1. o \in Stored
  BY DEF HttpTypeInv
<1>2. CASE \E page \in Pages :
             /\ HTTPSock_Status[cur] = Remember(IdleStatus, page)
             /\ out = FirstPart(IdleStatus, page)
             /\ served[cur] = page /\ handed[cur] = 0
  <2>1. PICK page \in Pages : /\ o = Remember(IdleStatus, page)
                              /\ out = FirstPart(IdleStatus, page)
                              /\ served[cur] = page /\ handed[cur] = 0
    BY <1>2
  <2>2. L \in Nat \ {0} /\ out.len = Least(L, ChunkLen) /\ ~out.last
    BY <2>1 DEF FirstPart
  <2>3. /\ o.file_offset = 0
        /\ L > ChunkLen => o.file_start = page /\ o.file_len = L
        /\ ~(L > ChunkLen) => o.file_len = 0
    BY <2>1 DEF Remember, IdleStatus
  <2>4. out.len \in Nat
    BY <2>2 DEF Least
  <2>5. /\ t \in Stored
        /\ t.sock_status = IF o.file_len > 0 THEN "RES_INPROC" ELSE "RES_DONE"
        /\ t.file_start = o.file_start /\ t.file_len = o.file_len
        /\ t.file_offset = o.file_offset + out.len
    BY <1>1, <2>2, <2>4, AfterPartFields
  <2> HIDE DEF t, o, L
  <2>6. /\ L > ChunkLen => out.len = ChunkLen
        /\ ~(L > ChunkLen) => out.len = L
    BY <2>2 DEF Least
  <2>7. /\ t \in Stored /\ handed[cur] + out.len \in Nat
        /\ \/ /\ t.sock_status = "RES_INPROC" /\ t.file_start = served[cur] /\ t.file_len = L
              /\ 0 < t.file_offset /\ t.file_offset < t.file_len
              /\ t.file_offset = handed[cur] + out.len
           \/ t.sock_status = "RES_DONE" /\ t.file_len = 0 /\ handed[cur] + out.len = L
    BY <2>1, <2>2, <2>3, <2>4, <2>5, <2>6
  <2> QED
    BY <2>1, <2>7 DEF t, o, L
<1>3. CASE Status = "RES_INPROC" /\ out = RemainingPart(HTTPSock_Status[cur])
  <2>1. /\ o.file_start = served[cur] /\ served[cur] \in Pages /\ o.file_len = L
        /\ 0 < o.file_offset /\ o.file_offset < L /\ o.file_offset = handed[cur]
        /\ L \in Nat \ {0} /\ o.file_offset \in Nat
    BY <1>1, <1>3 DEF Status, Records, InProcess, HttpTypeInv, Stored
  <2>2. /\ out.len = Least(L - o.file_offset, ChunkLen)
        /\ out.last <=> L - o.file_offset <= ChunkLen
    BY <1>3, <2>1 DEF RemainingPart
  <2>3. out.len \in Nat
    BY <2>1, <2>2 DEF Least
  <2>4. /\ t \in Stored
        /\ out.last => t.sock_status = "RES_DONE" /\ t.file_len = 0
        /\ ~out.last => /\ t.sock_status = IF o.file_len > 0 THEN "RES_INPROC" ELSE "RES_DONE"
                        /\ t.file_start = o.file_start /\ t.file_len = o.file_len
                        /\ t.file_offset = o.file_offset + out.len
    BY <1>1, <2>3, AfterPartFields
  <2> HIDE DEF t, o, L
  <2>5. /\ L - o.file_offset <= ChunkLen => out.len = L - o.file_offset
        /\ ~(L - o.file_offset <= ChunkLen) => out.len = ChunkLen
    BY <2>1, <2>2 DEF Least
  <2>6. /\ t \in Stored /\ handed[cur] + out.len \in Nat
        /\ \/ /\ t.sock_status = "RES_INPROC" /\ t.file_start = served[cur] /\ t.file_len = L
              /\ 0 < t.file_offset /\ t.file_offset < t.file_len
              /\ t.file_offset = handed[cur] + out.len
           \/ t.sock_status = "RES_DONE" /\ t.file_len = 0 /\ handed[cur] + out.len = L
    <3>1. CASE L - o.file_offset <= ChunkLen
      BY <2>1, <2>2, <2>3, <2>4, <2>5, <3>1
    <3>2. CASE ~(L - o.file_offset <= ChunkLen)
      BY <2>1, <2>2, <2>3, <2>4, <2>5, <3>2
    <3> QED
      BY <3>1, <3>2
  <2> QED
    BY <2>1, <2>6 DEF t, o, L
<1> QED
  BY <1>2, <1>3 DEF Part

\* A part is handed over.
LEMMA PartKeeps ==
  ASSUME HttpInv, PartSent
  PROVE  HttpInv'
<1> USE DEF HttpInv
<1> DEFINE st == AfterPart(HTTPSock_Status[cur], out)
           h == handed[cur] + out.len
<1>1. /\ InSend /\ out.what = "body" /\ pc' = "run" /\ cur' \in Seqs /\ out' = NoSend
      /\ UNCHANGED served
      /\ HTTPSock_Status' = [HTTPSock_Status EXCEPT ![cur] = st]
      /\ handed' = [handed EXCEPT ![cur] = h]
  BY NextIsASocket DEF PartSent, ToNext, InSend, HttpTypeInv
<1>2. /\ st \in Stored /\ h \in Nat /\ served[cur] \in Pages
      /\ \/ /\ st.sock_status = "RES_INPROC" /\ st.file_start = served[cur]
            /\ st.file_len = PageLen[served[cur]]
            /\ 0 < st.file_offset /\ st.file_offset < st.file_len /\ st.file_offset = h
         \/ /\ st.sock_status = "RES_DONE" /\ st.file_len = 0
            /\ h = PageLen[served[cur]]
  BY <1>1, PartAdvances
<1> HIDE DEF st, h
<1>3. HttpTypeInv'
  BY <1>1, <1>2, RegisterTypes DEF HttpTypeInv, Processor
<1>4. HTTPSock_Status'[cur] = st /\ handed'[cur] = h
  BY <1>1 DEF HttpTypeInv
<1>5. ASSUME NEW s \in Seqs, s = cur PROVE InProcess(s)' /\ Done(s)' /\ Waiting(s)'
  BY <1>1, <1>2, <1>4, <1>5 DEF InProcess, Done, Waiting
<1>6. Records'
  <2>1. ASSUME NEW s \in Seqs, s # cur PROVE InProcess(s)' /\ Done(s)' /\ Waiting(s)'
    BY <1>1, <2>1 DEF Records, InProcess, Done, Waiting, HttpTypeInv
  <2> QED
    BY <1>5, <2>1 DEF Records
<1>7. Outside' /\ Header' /\ Part'
  BY <1>1 DEF Outside, Header, Part, InSend
<1> QED
  BY <1>3, <1>6, <1>7

\* A short answer is sent.
LEMMA AnswerKeeps ==
  ASSUME HttpInv, AnswerSent
  PROVE  HttpInv'
<1> USE DEF HttpInv
<1>1. /\ InSend /\ out.what = "short" /\ pc' = "run" /\ cur' \in Seqs /\ out' = NoSend
      /\ UNCHANGED <<served, handed>>
      /\ HTTPSock_Status' = [HTTPSock_Status EXCEPT ![cur] = Settled(@)]
  BY NextIsASocket DEF AnswerSent, ToNext, InSend, HttpTypeInv, history
<1>2. HTTPSock_Status[cur] = IdleStatus /\ served[cur] = NoPage
  BY <1>1 DEF Header, Records, Waiting, Status, HttpTypeInv
<1>3. HTTPSock_Status' = [HTTPSock_Status EXCEPT ![cur] = [IdleStatus EXCEPT !.sock_status = "RES_DONE"]]
  BY <1>1, <1>2 DEF Settled, IdleStatus
<1>4. HttpTypeInv'
  BY <1>1, <1>3, RegisterTypes DEF HttpTypeInv, Processor, IdleStatus, Stored, PagesOrNone
<1>5. Records'
  BY <1>1, <1>2, <1>3 DEF Records, InProcess, Done, Waiting, HttpTypeInv, IdleStatus, InSend
<1>6. Outside' /\ Header' /\ Part'
  BY <1>1 DEF Outside, Header, Part, InSend
<1> QED
  BY <1>4, <1>5, <1>6

\* Every step of the server, its peers and the chip.
LEMMA HttpStep == HttpInv /\ [Next]_vars => HttpInv'
<1> SUFFICES ASSUME HttpInv, [Next]_vars PROVE HttpInv'
  OBVIOUS
<1>1. CASE UNCHANGED vars
  <2>1. UNCHANGED <<sr, rx, HTTPSock_Status, cur, pc, out, served, handed>>
    BY <1>1 DEF vars, chip, server, history
  <2> QED
    BY <2>1, RegistersKeep DEF HttpInv, HttpTypeInv, Outside
<1>2. CASE ReceiveFaults \/ ConfigSent
  BY <1>2, RestartKeeps DEF ReceiveFaults, ConfigSent
<1> QED
  BY <1>1, <1>2, OthersKeep, RunKeeps, DoneKeeps, ReceivedKeeps, SendKeeps, HeadKeeps, PartKeeps,
     AnswerKeeps
  DEF Next, Processor

-----------------------------------------------------------------------------
\* The invariant holds throughout.
THEOREM HttpInvariant == Spec => []HttpInv
<1>1. Init => HttpInv
  BY FreshIsFine DEF Init
<1> QED
  BY <1>1, HttpStep, PTL DEF Spec

\* No record is left over from a response that was broken off: httpServer_run never
\* begins a page in its middle, and file_len - file_offset never wraps.
THEOREM RecordsStayConsistent == Spec => []RecordsAreConsistent
  BY HttpInvariant, ConsistentHolds, PTL

\* The parts that send_http_response_body hands to send tile the page that was asked for.
THEOREM PagesStayTiled == Spec => []PagesAreTiled
  BY HttpInvariant, TiledHolds, PTL
=============================================================================
