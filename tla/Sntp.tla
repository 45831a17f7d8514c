-------------------------------- MODULE Sntp --------------------------------
(***************************************************************************)
(* The time client: SNTP_init of sntp.c, which blocks in DNS_run of dns.c  *)
(* until the name of the time server is resolved, then SNTP_run, called by *)
(* the main loop when two seconds have gone by, and the second counters    *)
(* that the timer interrupt TIM2 advances under both.  DNS and SNTP use    *)
(* the same socket.                                                        *)
(*                                                                         *)
(* The network may lose messages and deliver them late; the value of a     *)
(* time answer is abstracted to where it came from.                        *)
(***************************************************************************)
EXTENDS Integers, Sequences

CONSTANTS
  DNS_WAIT_TIME, MAX_DNS_RETRY,
  RETRY_SEND,      \* SNTP_run asks again when RetrySend exceeds it (5)
  SYNC_PERIOD,     \* seconds after which the time is asked for again (160)
  MaxLag           \* bound on sec_cnt: how late the main loop may call SNTP_run

ASSUME SntpAssumption ==
  /\ DNS_WAIT_TIME \in Nat \ {0} /\ MAX_DNS_RETRY \in Nat
  /\ RETRY_SEND \in Nat /\ SYNC_PERIOD \in Nat \ {0}
  /\ MaxLag \in Nat \ {0, 1}

DnsAnswers == {"address", "failure"}
Answers == DnsAnswers \cup {"time"}
RxCap == 2   \* bound on the datagrams waiting in the socket

VARIABLES
  sock,           \* "closed", or the local port SOCK_SNTP is open on
  rx,             \* datagrams waiting in it
  flight,         \* answers under way: [kind, port]
  asked,          \* questions under way: [kind, port]
  pc,             \* "boot", "dns" (in DNS_run) or "loop" (in the main loop)
  queries,        \* DNS queries sent
  retry_count, dns_1s_tick,
  dnsTime,        \* ghost: seconds spent in DNS_run
  gaveUp,         \* ghost: has DNS_run timed out?
  ip,             \* ntpTimeServer_ip: "default" or "resolved"
  sec_cnt, RetrySend, sycnPeriod, TimeIsSet,
  timenow,        \* where its value comes from: "reset", "server" or "junk"
  sinceRequest    \* ghost: seconds since the last time request

net == <<flight, asked>>
dns == <<queries, retry_count, dnsTime, gaveUp, ip>>
sntpVars == <<sock, rx, net, pc, dns, dns_1s_tick, sec_cnt, RetrySend, sycnPeriod,
              TimeIsSet, timenow, sinceRequest>>

\* The counters are only compared with their limits: saturating them one past
\* the limit changes nothing.
UpTo(n, limit) == IF n < limit THEN n + 1 ELSE limit
MaxDnsTime == (MAX_DNS_RETRY + 1) * DNS_WAIT_TIME

-----------------------------------------------------------------------------
(* The interrupt, each second *)

\* DNS_run polls all the time, and the main loop is at most MaxLag late.
Tick ==
  /\ pc = "dns" => dns_1s_tick < DNS_WAIT_TIME
  /\ pc = "loop" => sec_cnt < MaxLag
  /\ sec_cnt' = UpTo(sec_cnt, MaxLag)
  /\ RetrySend' = UpTo(RetrySend, RETRY_SEND + 1)
  /\ sycnPeriod' = UpTo(sycnPeriod, SYNC_PERIOD)
  /\ dns_1s_tick' = UpTo(dns_1s_tick, DNS_WAIT_TIME)
  /\ dnsTime' = IF pc = "dns" THEN dnsTime + 1 ELSE dnsTime
  /\ sinceRequest' = UpTo(sinceRequest, RETRY_SEND + 1)
  /\ UNCHANGED <<sock, rx, net, pc, queries, retry_count, gaveUp, ip, TimeIsSet, timenow>>

-----------------------------------------------------------------------------
(* DNS_run *)

DnsStart ==
  /\ pc = "boot"
  /\ retry_count' = 0 /\ dns_1s_tick' = 0
  /\ sock' = "any" /\ rx' = <<>>
  /\ asked' = asked \cup {[kind |-> "dns", port |-> "any"]}
  /\ queries' = 1
  /\ pc' = "dns"
  /\ UNCHANGED <<flight, dnsTime, gaveUp, ip, sec_cnt, RetrySend, sycnPeriod, TimeIsSet,
                 timenow, sinceRequest>>

\* Whatever has come is parsed as the answer, and the socket closed.
DnsReceive ==
  /\ pc = "dns" /\ rx # <<>>
  /\ ip' = IF Head(rx) = "address" THEN "resolved" ELSE ip
  /\ sock' = "closed" /\ rx' = <<>>
  /\ pc' = "loop"
  /\ UNCHANGED <<net, queries, retry_count, dnsTime, gaveUp, dns_1s_tick, sec_cnt, RetrySend,
                 sycnPeriod, TimeIsSet, timenow, sinceRequest>>

\* Mutant: the count is checked after it is advanced past the limit.
LastRetryMutant == retry_count > MAX_DNS_RETRY

LastRetry == retry_count >= MAX_DNS_RETRY

\* check_DNS_timeout says to send again; len is the number of bytes waiting,
\* which is 0 here, and sendto refuses to send nothing.
DnsRetry ==
  /\ pc = "dns" /\ rx = <<>>
  /\ dns_1s_tick >= DNS_WAIT_TIME /\ ~LastRetry
  /\ dns_1s_tick' = 0 /\ retry_count' = retry_count + 1
  /\ UNCHANGED <<sock, rx, net, pc, queries, dnsTime, gaveUp, ip, sec_cnt, RetrySend,
                 sycnPeriod, TimeIsSet, timenow, sinceRequest>>

\* DNS_run gives up, and leaves the socket open.
DnsGiveUp ==
  /\ pc = "dns" /\ rx = <<>>
  /\ dns_1s_tick >= DNS_WAIT_TIME /\ LastRetry
  /\ dns_1s_tick' = 0 /\ retry_count' = 0
  /\ pc' = "loop" /\ gaveUp' = TRUE
  /\ UNCHANGED <<sock, rx, net, queries, dnsTime, ip, sec_cnt, RetrySend, sycnPeriod,
                 TimeIsSet, timenow, sinceRequest>>

-----------------------------------------------------------------------------
(* SNTP_run *)

\* The time is asked for again: set from here on, until the answer.
Due == sycnPeriod >= SYNC_PERIOD
MustAsk == Due \/ TimeIsSet = 0

Called == pc = "loop" /\ sec_cnt > 1 /\ sec_cnt' = 0
Resync ==
  /\ sycnPeriod' = IF Due THEN 0 ELSE sycnPeriod
  /\ UNCHANGED <<pc, dns, dns_1s_tick>>

SntpRest ==
  /\ Called /\ ~MustAsk
  /\ Resync
  /\ UNCHANGED <<sock, rx, net, RetrySend, TimeIsSet, timenow, sinceRequest>>

\* Mutant: the buffer is read though nothing has come.
HeardMutant == IF rx = <<>> THEN <<"failure">> ELSE rx

Heard == rx

\* Any datagram waiting is the answer: neither its source nor its size is
\* looked at.
SntpReceive ==
  /\ Called /\ MustAsk /\ sock # "closed" /\ Heard # <<>>
  /\ Resync
  /\ timenow' = IF Head(Heard) = "time" THEN "server" ELSE "junk"
  /\ TimeIsSet' = 1
  /\ sock' = "closed" /\ rx' = <<>>
  /\ UNCHANGED <<net, RetrySend, sinceRequest>>

\* Mutant: RetrySend is not reset.
RetryAfterMutant == RetrySend

RetryAfter == 0

SntpSend ==
  /\ Called /\ MustAsk /\ sock # "closed" /\ Heard = <<>>
  /\ Resync
  /\ TimeIsSet' = 0
  /\ IF RetrySend > RETRY_SEND
     THEN /\ RetrySend' = RetryAfter /\ sinceRequest' = 0
          /\ asked' = asked \cup {[kind |-> "time", port |-> sock]}
     ELSE UNCHANGED <<RetrySend, sinceRequest, asked>>
  /\ UNCHANGED <<sock, rx, flight, timenow>>

\* Mutant: the client does not open its socket again.
SocketMutant == sock

Socket == "sntp"

SntpOpen ==
  /\ Called /\ MustAsk /\ sock = "closed"
  /\ Resync
  /\ TimeIsSet' = 0
  /\ sock' = Socket /\ rx' = <<>>
  /\ UNCHANGED <<net, RetrySend, timenow, sinceRequest>>

-----------------------------------------------------------------------------
(* The servers and the network *)

Answer(q) ==
  /\ asked' = asked \ {q}
  /\ \E kind \in (IF q.kind = "dns" THEN DnsAnswers ELSE {"time"}) :
       flight' = flight \cup {[kind |-> kind, port |-> q.port]}
  /\ UNCHANGED <<sock, rx, pc, dns, dns_1s_tick, sec_cnt, RetrySend, sycnPeriod,
                 TimeIsSet, timenow, sinceRequest>>

\* An answer to a port that is not open is dropped.
Deliver(a) ==
  /\ flight' = flight \ {a}
  /\ IF a.port = sock THEN Len(rx) < RxCap /\ rx' = Append(rx, a.kind) ELSE UNCHANGED rx
  /\ UNCHANGED <<sock, asked, pc, dns, dns_1s_tick, sec_cnt, RetrySend, sycnPeriod,
                 TimeIsSet, timenow, sinceRequest>>

Lose ==
  /\ \/ \E q \in asked : asked' = asked \ {q} /\ UNCHANGED flight
     \/ \E a \in flight : flight' = flight \ {a} /\ UNCHANGED asked
  /\ UNCHANGED <<sock, rx, pc, dns, dns_1s_tick, sec_cnt, RetrySend, sycnPeriod,
                 TimeIsSet, timenow, sinceRequest>>

-----------------------------------------------------------------------------
SntpInit ==
  /\ sock = "closed" /\ rx = <<>> /\ flight = {} /\ asked = {}
  /\ pc = "boot" /\ queries = 0 /\ retry_count = 0 /\ dnsTime = 0 /\ dns_1s_tick = 0
  /\ ip = "default" /\ gaveUp = FALSE
  /\ sec_cnt = 0 /\ RetrySend = 0 /\ sycnPeriod = 0 /\ TimeIsSet = 0
  /\ timenow = "reset" /\ sinceRequest = RETRY_SEND + 1

SNTP_run == SntpRest \/ SntpReceive \/ SntpSend \/ SntpOpen
DNS_run == DnsStart \/ DnsReceive \/ DnsRetry \/ DnsGiveUp
AnswerTime == \E q \in asked : q.kind = "time" /\ Answer(q)
DeliverTime == \E a \in flight : a.kind = "time" /\ Deliver(a)

SntpNext ==
  \/ Tick \/ DNS_run \/ SNTP_run \/ Lose
  \/ \E q \in asked : Answer(q)
  \/ \E a \in flight : Deliver(a)

SntpSpec == SntpInit /\ [][SntpNext]_sntpVars

-----------------------------------------------------------------------------
(* Properties *)

\* Types, and: DNS_run ends within one waiting time more than its retries.
SntpTypeOK ==
  /\ sock \in {"closed", "any", "sntp"} /\ (sock = "closed" => rx = <<>>)
  /\ Len(rx) <= RxCap
  /\ pc \in {"boot", "dns", "loop"}
  /\ dns_1s_tick \in 0..DNS_WAIT_TIME /\ retry_count \in 0..MAX_DNS_RETRY
  /\ dnsTime \in 0..MaxDnsTime
  /\ ip \in {"default", "resolved"} /\ gaveUp \in BOOLEAN
  /\ sec_cnt \in 0..MaxLag /\ RetrySend \in 0..(RETRY_SEND + 1)
  /\ sycnPeriod \in 0..SYNC_PERIOD /\ TimeIsSet \in {0, 1}
  /\ timenow \in {"reset", "server", "junk"}

\* Unless DNS_run timed out, the time that is set is the time server's: no message
\* of the name resolution that comes late gets into the socket of the client.
SetByServer == (TimeIsSet = 1 /\ ~gaveUp) => timenow = "server"

\* Two time requests are more than RETRY_SEND seconds apart, across a new
\* synchronisation and a new socket too.
RequestsSpaced ==
  [][(sinceRequest' = 0 /\ sinceRequest # 0) => sinceRequest > RETRY_SEND]_sntpVars

\* The time server sets the time again and again, and is asked again and again: no
\* state of the socket, the counters or the network stops the client for ever, and
\* no wrong time stays.
KeepsTime == []<>(TimeIsSet = 1 /\ timenow = "server") /\ []<>(TimeIsSet = 0)
=============================================================================
