---------------------------- MODULE UnitsProofs ----------------------------
(***************************************************************************)
(* Theorems of the units of the UDP side, each under its own               *)
(* specification, and that the run of all the units is a run of each: what *)
(* is proved of a unit holds where all are put together.                   *)
(*                                                                         *)
(* Dhcp: the chip carries the address of the lease, and the lease is not   *)
(* outlived, for any number of servers, leases and retries.                *)
(*                                                                         *)
(* Tftp: a transfer that ends with success has saved the file, for files   *)
(* of any length, any number of transfers and ports, and any loss,         *)
(* repetition and order of the messages.                                   *)
(*                                                                         *)
(* Sntp: whose answer sets the time, how long DNS_run takes, and how far   *)
(* apart two requests are, for all values of the times and numbers of      *)
(* retries.                                                                *)
(*                                                                         *)
(* UdpSocket: recvfrom implements UdpQueue, for all lengths of datagrams   *)
(* and of reads and for every buffer that fits in the range of the         *)
(* pointers a whole number of times, twice at least.                       *)
(*                                                                         *)
(* Board, SizeRegister and Uart: the main program, the size registers and  *)
(* UART1.                                                                  *)
(***************************************************************************)
EXTENDS Units, SequenceTheorems, TLAPS

-----------------------------------------------------------------------------
(* Dhcp *)

States == {"INIT", "DISCOVER", "REQUEST", "LEASED", "REREQUEST", "STOP"}

\* The types, with those of the counters.
Counters ==
  dhcp_retry_count \in 0..MAX_DHCP_RETRY /\ dhcp_tick_1s \in Nat /\ age \in Nat

TypeInv ==
  /\ dhcp_state \in States /\ Counters
  /\ mixed \in BOOLEAN
  /\ DHCP_SIP \in Servers \cup {None} /\ dhcp_lease_time \in Servers \cup {None}
  /\ DHCP_allocated_ip \in Servers \cup {None} /\ SIPR \in Servers \cup {None}
  /\ mail \subseteq Message

\* From the first request on there is an address; its lease time is that of its server,
\* unless another message came.
Chosen ==
  dhcp_state \in AtServer =>
    /\ DHCP_allocated_ip \in Servers /\ DHCP_SIP \in Servers
    /\ ~mixed => dhcp_lease_time = DHCP_allocated_ip

\* In a lease the counter gives its age, up to the second in which it is renewed.
LeaseAge ==
  (dhcp_state = "LEASED" /\ ~mixed) =>
    age = dhcp_tick_1s /\ age <= LeaseTime[DHCP_allocated_ip] \div 2 + 1

\* During a renewal every repetition has used up one waiting time.
RenewalAge ==
  (dhcp_state = "REREQUEST" /\ ~mixed) =>
    /\ dhcp_retry_count = MAX_DHCP_RETRY => dhcp_tick_1s = 0
    /\ age <= LeaseTime[DHCP_allocated_ip] \div 2 + 1
                + dhcp_retry_count * (DHCP_WAIT_TIME + 1) + dhcp_tick_1s
    /\ dhcp_tick_1s <= DHCP_WAIT_TIME + 1

DhcpInv == TypeInv /\ Chosen /\ LeaseIsCarried /\ LeaseAge /\ RenewalAge

USE DhcpAssumption

\* A message parsed leaves the types intact, and in a lease that stays unmixed it
\* leaves the lease time that of the server.
LEMMA ParseKeeps ==
  ASSUME TypeInv, NEW m \in mail \cup {Silence}, Parse(m)
  PROVE  /\ DHCP_SIP' \in Servers \cup {None} /\ dhcp_lease_time' \in Servers \cup {None}
         /\ mixed' \in BOOLEAN
         /\ Remaining(m) \subseteq Message
         /\ dhcp_state \in AtServer /\ Chosen /\ ~mixed' =>
              ~mixed /\ dhcp_lease_time' = DHCP_allocated_ip
         /\ DHCP_SIP \in Servers \/ m # Silence => DHCP_SIP' \in Servers
         /\ dhcp_state \notin AtServer => mixed' = FALSE
<1>1. m = Silence \/ (m \in Message /\ m.from \in Servers /\ m.type \in {"OFFER", "ACK", "NAK"})
  BY DEF TypeInv, Message
<1>2. DHCP_SIP' \in Servers \cup {None} /\ dhcp_lease_time' \in Servers \cup {None}
  BY <1>1 DEF Parse, Silence, TypeInv
<1>3. mixed' \in BOOLEAN /\ Remaining(m) \subseteq Message
  BY DEF Parse, TypeInv, Remaining
<1>4. dhcp_state \in AtServer /\ Chosen /\ ~mixed' =>
        ~mixed /\ dhcp_lease_time' = DHCP_allocated_ip
  <2> SUFFICES ASSUME dhcp_state \in AtServer, Chosen, ~mixed'
               PROVE  ~mixed /\ dhcp_lease_time' = DHCP_allocated_ip
    OBVIOUS
  <2>1. ~mixed /\ (m = Silence \/ m.from = DHCP_allocated_ip)
    BY DEF Parse, TypeInv
  <2>2. dhcp_lease_time = DHCP_allocated_ip
    BY <2>1 DEF Chosen
  <2> QED
    BY <2>1, <2>2 DEF Parse, Silence
<1>5. DHCP_SIP \in Servers \/ m # Silence => DHCP_SIP' \in Servers
  BY <1>1 DEF Parse
<1> QED
  BY <1>2, <1>3, <1>4, <1>5 DEF Parse


\* What the servers answer are messages.
LEMMA AskedKeeps ==
  ASSUME TypeInv, NEW m \in mail \cup {Silence}, Parse(m)
  PROVE  /\ Discover(Remaining(m)) => mail' \subseteq Message
         /\ \A adr, s \in Servers : Request(Remaining(m), adr, s) => mail' \subseteq Message
<1>1. Remaining(m) \subseteq Message
  BY ParseKeeps
<1>2. Discover(Remaining(m)) => mail' \subseteq Message
  BY <1>1 DEF Discover, Offers, Message
<1>3. ASSUME NEW adr \in Servers, NEW s \in Servers, Request(Remaining(m), adr, s)
      PROVE  mail' \subseteq Message
  <2>1. Replies(adr, s) \subseteq Message
    BY DEF Replies, Message
  <2> QED
    BY <1>1, <1>3, <2>1 DEF Request
<1> QED
  BY <1>2, <1>3

-----------------------------------------------------------------------------
(* DHCP_run *)

\* Outside a lease and its renewal nothing is claimed of the age.
LEMMA NoLease ==
  ASSUME TypeInv', dhcp_state' \notin Lasting
  PROVE  LeaseIsCarried' /\ LeaseAge' /\ RenewalAge'
  BY DEF LeaseIsCarried, LeaseAge, RenewalAge, Lasting

\* The way to a lease: discovery, offer, refusal, and what ends a lease or an attempt.
LEMMA SeekingKeeps ==
  ASSUME DhcpInv, NEW m \in mail \cup {Silence},
         \/ StartDiscovery(m) \/ TakeOffer(m) \/ Conflict(m) \/ TakeNak(m) \/ GiveUp(m)
  PROVE  DhcpInv'
<1> USE DEF DhcpInv
<1>0. Parse(m)
  BY DEF StartDiscovery, TakeOffer, Conflict, TakeNak, GiveUp, Waits
<1>1. CASE StartDiscovery(m)
  <2>1. TypeInv'
    BY <1>0, <1>1, ParseKeeps, AskedKeeps DEF StartDiscovery, TypeInv, Counters, States
  <2>2. Chosen' /\ dhcp_state' \notin Lasting
    BY <1>1 DEF StartDiscovery, Chosen, AtServer, Lasting
  <2> QED
    BY <2>1, <2>2, NoLease
<1>2. CASE TakeOffer(m)
  <2>1. m \in Message /\ m.from \in Servers /\ m # Silence /\ m.type = "OFFER"
    BY <1>2 DEF TakeOffer, Silence, None, TypeInv, Message
  <2>2. TypeInv'
    <3>1. mail' \subseteq Message
      BY <1>0, <1>2, <2>1, AskedKeeps DEF TakeOffer
    <3> QED
      BY <1>0, <1>2, <2>1, <3>1, ParseKeeps DEF TakeOffer, TypeInv, Counters, States
  <2>3. Chosen'
    BY <1>0, <1>2, <2>1 DEF TakeOffer, Parse, Chosen, None
  <2>4. dhcp_state' \notin Lasting
    BY <1>2 DEF TakeOffer, Lasting
  <2> QED
    BY <2>2, <2>3, <2>4, NoLease
<1>3. CASE Conflict(m) \/ TakeNak(m)
  <2>1. TypeInv'
    <3>1. Counters'
      BY <1>3 DEF Conflict, TakeNak, ResetTimeout, Counters
    <3> QED
      BY <1>0, <1>3, <3>1, ParseKeeps DEF Conflict, TakeNak, TypeInv, States
  <2>2. Chosen' /\ dhcp_state' \notin Lasting
    BY <1>3 DEF Conflict, TakeNak, Chosen, AtServer, Lasting
  <2> QED
    BY <2>1, <2>2, NoLease
<1>4. CASE GiveUp(m)
  <2>1. TypeInv'
    <3>1. Counters'
      BY <1>4 DEF GiveUp, ResetTimeout, Counters
    <3>2. mail' \subseteq Message
      BY <1>0, <1>4, ParseKeeps, AskedKeeps DEF GiveUp
    <3> QED
      BY <1>0, <1>4, <3>1, <3>2, ParseKeeps DEF GiveUp, Waits, TypeInv, States
  <2>2. Chosen' /\ dhcp_state' \notin Lasting
    BY <1>4 DEF GiveUp, Chosen, AtServer, Lasting
  <2> QED
    BY <2>1, <2>2, NoLease
<1> QED
  BY <1>1, <1>2, <1>3, <1>4

\* An acknowledgement begins a lease of age zero.
LEMMA AcknowledgedKeeps ==
  ASSUME DhcpInv, NEW m \in mail \cup {Silence}, TakeAck(m) \/ Renewed(m)
  PROVE  DhcpInv'
<1> USE DEF DhcpInv
<1>0. Parse(m) /\ dhcp_state \in AtServer /\ dhcp_state' = "LEASED"
  BY DEF TakeAck, Renewed, AtServer, Lasting
<1>1. DHCP_allocated_ip \in Servers /\ DHCP_allocated_ip' = DHCP_allocated_ip /\ SIPR' = DHCP_allocated_ip
  BY <1>0 DEF TakeAck, Renewed, Assigned, Chosen, LeaseIsCarried, Lasting
<1>2. TypeInv'
  <2>1. Counters'
    BY DEF TakeAck, Renewed, ResetTimeout, Counters
  <2> QED
    BY <1>0, <1>1, <2>1, ParseKeeps DEF TakeAck, Renewed, TypeInv, States
<1>3. Chosen'
  BY <1>0, <1>1, ParseKeeps DEF Chosen
<1>4. LeaseIsCarried'
  BY <1>1 DEF LeaseIsCarried, None
<1>5. LeaseAge'
  <2>1. LeaseTime[DHCP_allocated_ip] \in Nat
    BY <1>1
  <2>2. age' = 0 /\ dhcp_tick_1s' = 0
    BY DEF TakeAck, Renewed, ResetTimeout
  <2> QED
    BY <1>1, <2>1, <2>2 DEF LeaseAge
<1>6. RenewalAge'
  BY <1>0 DEF RenewalAge
<1> QED
  BY <1>2, <1>3, <1>4, <1>5, <1>6

\* A message taken in a lease changes no age; the renewal begins with the next second.
LEMMA LeasedKeeps ==
  ASSUME DhcpInv, NEW m \in mail \cup {Silence}, Renew(m) \/ Stay(m)
  PROVE  DhcpInv'
<1> USE DEF DhcpInv
<1>0. Parse(m) /\ dhcp_state = "LEASED" /\ dhcp_state \in AtServer /\ dhcp_state \in Lasting
  BY DEF Renew, Stay, AtServer, Lasting
<1>1. /\ DHCP_allocated_ip' = DHCP_allocated_ip /\ SIPR' = SIPR /\ age' = age
      /\ DHCP_allocated_ip \in Servers /\ DHCP_SIP' \in Servers
  BY <1>0, ParseKeeps DEF Renew, Stay, Chosen
<1>2. TypeInv'
  <2>1. Counters'
    BY <1>1 DEF Renew, Stay, ResetTimeout, TypeInv, Counters
  <2>2. mail' \subseteq Message
    BY <1>0, <1>1, ParseKeeps, AskedKeeps DEF Renew, Stay
  <2> QED
    BY <1>0, <1>1, <2>1, <2>2, ParseKeeps DEF Renew, Stay, TypeInv, States
<1>3. Chosen'
  BY <1>0, <1>1, ParseKeeps DEF Chosen
<1>4. LeaseIsCarried'
  BY <1>0, <1>1 DEF LeaseIsCarried
<1>5. LeaseAge'
  BY <1>0, <1>1, ParseKeeps DEF LeaseAge, Renew, Stay
<1>6. RenewalAge'
  <2> SUFFICES ASSUME Renew(m), ~mixed' PROVE RenewalAge'
    BY <1>0 DEF RenewalAge, Stay
  <2>1. age <= LeaseTime[DHCP_allocated_ip] \div 2 + 1
    BY <1>0, <1>1, ParseKeeps DEF LeaseAge
  <2>2. dhcp_retry_count' = 0 /\ dhcp_tick_1s' = 0
    BY DEF Renew, ResetTimeout
  <2>3. dhcp_retry_count' * (DHCP_WAIT_TIME + 1) = 0
    BY <2>2
  <2>4. LeaseTime[DHCP_allocated_ip] \in Nat
    BY <1>1
  <2> QED
    BY <1>1, <2>1, <2>2, <2>3, <2>4 DEF RenewalAge, TypeInv, Counters
<1> QED
  BY <1>2, <1>3, <1>4, <1>5, <1>6

\* Waiting: every repetition moves the time waited from the counter to the retries.
LEMMA WaitingKeeps ==
  ASSUME DhcpInv, NEW m \in mail \cup {Silence}, WaitOn(m) \/ Resend(m)
  PROVE  DhcpInv'
<1> USE DEF DhcpInv
<1>0. Parse(m) /\ dhcp_state' = dhcp_state /\ dhcp_state # "LEASED" /\ dhcp_state \in {"DISCOVER", "REQUEST", "REREQUEST"}
  BY DEF WaitOn, Resend, Waits
<1>1. DHCP_allocated_ip' = DHCP_allocated_ip /\ SIPR' = SIPR /\ age' = age
  BY DEF WaitOn, Resend, Waits
<1>2. dhcp_retry_count \in Nat /\ dhcp_retry_count < MAX_DHCP_RETRY
  BY DEF WaitOn, Resend, RetryLeft, TypeInv, Counters
<1>3. TypeInv'
  <2>1. mail' \subseteq Message
    <3>1. CASE WaitOn(m)
      BY <1>0, <3>1, ParseKeeps DEF WaitOn
    <3>2. CASE Resend(m) /\ dhcp_state = "DISCOVER"
      BY <1>0, <3>2, AskedKeeps DEF Resend
    <3>3. CASE Resend(m) /\ dhcp_state # "DISCOVER"
      <4>1. DHCP_allocated_ip \in Servers /\ DHCP_SIP' \in Servers
        BY <1>0, <3>3, ParseKeeps DEF Chosen, AtServer, Lasting
      <4> QED
        BY <1>0, <3>3, <4>1, AskedKeeps DEF Resend
    <3> QED
      BY <3>1, <3>2, <3>3
  <2>2. Counters'
    BY <1>1, <1>2 DEF WaitOn, Resend, Retries, TypeInv, Counters
  <2> QED
    BY <1>0, <1>1, <2>1, <2>2, ParseKeeps DEF TypeInv
<1>4. Chosen'
  BY <1>0, <1>1, ParseKeeps DEF Chosen
<1>5. LeaseIsCarried' /\ LeaseAge'
  BY <1>0, <1>1 DEF LeaseIsCarried, LeaseAge
<1>6. RenewalAge'
  <2> SUFFICES ASSUME dhcp_state = "REREQUEST", ~mixed' PROVE RenewalAge'
    BY <1>0 DEF RenewalAge
  <2>1. ~mixed /\ DHCP_allocated_ip \in Servers
    BY <1>0, ParseKeeps DEF AtServer, Lasting, Chosen
  <2>2. LeaseTime[DHCP_allocated_ip] \in Nat
    BY <2>1
  <2>3. CASE WaitOn(m)
    BY <1>0, <1>1, <1>2, <2>1, <2>3 DEF WaitOn, RenewalAge
  <2>4. CASE Resend(m)
    <3> DEFINE W == DHCP_WAIT_TIME + 1
    <3>1. dhcp_tick_1s = W /\ dhcp_tick_1s' = 0 /\ dhcp_retry_count' = dhcp_retry_count + 1
      BY <2>1, <2>4 DEF Resend, Late, Retries, RenewalAge, TypeInv, Counters
    <3>2. (dhcp_retry_count + 1) * W = dhcp_retry_count * W + W
      BY <1>2
    <3>3. age <= LeaseTime[DHCP_allocated_ip] \div 2 + 1 + dhcp_retry_count * W + W
      BY <2>1, <3>1 DEF RenewalAge
    <3>4. age <= LeaseTime[DHCP_allocated_ip] \div 2 + 1 + (dhcp_retry_count + 1) * W + 0
      <4> HIDE DEF W
      <4>1. W \in Nat
        BY DEF W
      <4>2. dhcp_retry_count * W \in Nat
        BY <1>2, <4>1
      <4> QED
        BY <1>2, <2>2, <3>2, <3>3, <4>1, <4>2 DEF TypeInv, Counters
    <3> QED
      BY <1>0, <1>1, <3>1, <3>4 DEF RenewalAge
  <2> QED
    BY <2>3, <2>4
<1> QED
  BY <1>3, <1>4, <1>5, <1>6

-----------------------------------------------------------------------------
(* The rest of the program, the clock and the network *)

\* A second: a lease that is due for renewal is not counted further.
LEMMA TickKeeps == DhcpInv /\ DHCP_time_handler => DhcpInv'
<1> SUFFICES ASSUME DhcpInv, DHCP_time_handler PROVE DhcpInv'
  OBVIOUS
<1> USE DEF DhcpInv
<1>1. TypeInv' /\ Chosen' /\ LeaseIsCarried'
  <2>1. Counters'
    BY DEF DHCP_time_handler, TypeInv, Counters
  <2> QED
    BY <2>1 DEF DHCP_time_handler, TypeInv, Chosen, LeaseIsCarried
<1>2. LeaseAge'
  <2> SUFFICES ASSUME dhcp_state = "LEASED", ~mixed PROVE LeaseAge'
    BY DEF DHCP_time_handler, LeaseAge
  <2>1. DHCP_allocated_ip \in Servers /\ dhcp_lease_time = DHCP_allocated_ip
    BY DEF Chosen, AtServer, Lasting
  <2>2. LeaseTime[DHCP_allocated_ip] \div 2 >= dhcp_tick_1s
    BY <2>1 DEF DHCP_time_handler, Pending, RenewDue, TypeInv, Counters
  <2> QED
    BY <2>1, <2>2 DEF DHCP_time_handler, LeaseAge, TypeInv, Counters, Lasting
<1>3. RenewalAge'
  <2> SUFFICES ASSUME dhcp_state = "REREQUEST", ~mixed PROVE RenewalAge'
    BY DEF DHCP_time_handler, RenewalAge
  <2>1. dhcp_tick_1s <= DHCP_WAIT_TIME /\ dhcp_retry_count < MAX_DHCP_RETRY
    BY DEF DHCP_time_handler, Pending, Late, RetryLeft, TypeInv, Counters
  <2>2. DHCP_allocated_ip \in Servers /\ LeaseTime[DHCP_allocated_ip] \in Nat
    BY DEF Chosen, AtServer, Lasting
  <2>3. age' = age + 1 /\ dhcp_tick_1s' = dhcp_tick_1s + 1
    BY DEF DHCP_time_handler, Lasting
  <2>4. dhcp_retry_count * (DHCP_WAIT_TIME + 1) \in Nat
    BY DEF TypeInv, Counters
  <2> QED
    BY <2>1, <2>2, <2>3, <2>4 DEF DHCP_time_handler, RenewalAge, TypeInv, Counters
<1> QED
  BY <1>1, <1>2, <1>3

\* Stopping and starting end every lease.
LEMMA StopKeeps == DhcpInv /\ (DHCP_stop \/ DHCP_init) => DhcpInv'
<1> SUFFICES ASSUME DhcpInv, DHCP_stop \/ DHCP_init PROVE DhcpInv'
  OBVIOUS
<1>1. TypeInv'
  <2>1. Counters'
    BY DEF DhcpInv, DHCP_stop, DHCP_init, TypeInv, ResetTimeout, Counters
  <2> QED
    BY <2>1 DEF DhcpInv, DHCP_stop, DHCP_init, TypeInv, States
<1>2. Chosen' /\ dhcp_state' \notin Lasting
  BY DEF DHCP_stop, DHCP_init, Chosen, AtServer, Lasting
<1> QED
  BY <1>1, <1>2, NoLease DEF DhcpInv

\* A lost message changes nothing the invariant speaks of.
LEMMA LossKeeps == ASSUME DhcpInv, NEW m \in mail, LoseMail(m) PROVE DhcpInv'
  BY DEF DhcpInv, LoseMail, TypeInv, Counters, Chosen, LeaseIsCarried, LeaseAge, RenewalAge

\* The invariant holds at the beginning.
LEMMA DhcpInitInv == DhcpInit => DhcpInv
<1> SUFFICES ASSUME DhcpInit PROVE DhcpInv
  OBVIOUS
<1>1. Counters
  BY DEF DhcpInit, Counters
<1>2. TypeInv
  BY <1>1 DEF DhcpInit, TypeInv, States
<1> QED
  BY <1>2 DEF DhcpInit, DhcpInv, Chosen, AtServer, Lasting, LeaseIsCarried, LeaseAge, RenewalAge

\* Every step preserves it.
LEMMA DhcpStep == DhcpInv /\ [DhcpNext]_dhcpVars => DhcpInv'
<1> SUFFICES ASSUME DhcpInv, [DhcpNext]_dhcpVars PROVE DhcpInv'
  OBVIOUS
<1>1. ASSUME NEW m \in mail \cup {Silence}, DHCP_run(m) PROVE DhcpInv'
  BY <1>1, SeekingKeeps, AcknowledgedKeeps, LeasedKeeps, WaitingKeeps DEF DHCP_run
<1>2. CASE UNCHANGED dhcpVars
  BY <1>2 DEF dhcpVars, DhcpInv, TypeInv, Counters, Chosen, LeaseIsCarried, LeaseAge, RenewalAge
<1> QED
  BY <1>1, <1>2, TickKeeps, StopKeeps, LossKeeps DEF DhcpNext

\* A lease that is renewed in time ends in time.
LEMMA InTime == DhcpInv => LeaseNotOutlived
<1> SUFFICES ASSUME DhcpInv, dhcp_state \in Lasting, ~mixed
             PROVE  age <= LeaseTime[DHCP_allocated_ip]
  BY DEF LeaseNotOutlived
<1> DEFINE L == LeaseTime[DHCP_allocated_ip]
           W == DHCP_WAIT_TIME + 1
<1>1. DHCP_allocated_ip \in Servers /\ L \in Nat
  BY DEF DhcpInv, Chosen, AtServer
<1>2. L \div 2 + 1 + MAX_DHCP_RETRY * W <= L
  BY <1>1, LeaseAssumption
<1>3. W \in Nat /\ dhcp_retry_count \in 0..MAX_DHCP_RETRY /\ dhcp_tick_1s \in Nat /\ age \in Nat
  BY DEF DhcpInv, TypeInv, Counters
<1>4. MAX_DHCP_RETRY * W \in Nat
  BY <1>3
<1>5. CASE dhcp_state = "LEASED"
  BY <1>1, <1>2, <1>3, <1>4, <1>5 DEF DhcpInv, LeaseAge
<1>6. CASE dhcp_state = "REREQUEST"
  <2>1. age <= L \div 2 + 1 + dhcp_retry_count * W + dhcp_tick_1s /\ dhcp_tick_1s <= W
    BY <1>6 DEF DhcpInv, RenewalAge
  <2>2. dhcp_retry_count * W + dhcp_tick_1s <= MAX_DHCP_RETRY * W
    <3>1. CASE dhcp_retry_count = MAX_DHCP_RETRY
      BY <1>6, <3>1, <1>3, <1>4 DEF DhcpInv, RenewalAge
    <3>2. CASE dhcp_retry_count < MAX_DHCP_RETRY
      <4> HIDE DEF W
      <4>1. (dhcp_retry_count + 1) * W <= MAX_DHCP_RETRY * W
        BY <1>3, <3>2
      <4>2. (dhcp_retry_count + 1) * W = dhcp_retry_count * W + W
        BY <1>3
      <4>3. dhcp_retry_count * W \in Nat
        BY <1>3
      <4> QED
        BY <1>3, <1>4, <2>1, <4>1, <4>2, <4>3
    <3> QED
      BY <1>3, <3>1, <3>2
  <2>3. dhcp_retry_count * W \in Nat /\ L \div 2 \in Nat
    BY <1>1, <1>3
  <2> DEFINE D == L \div 2
             R == dhcp_retry_count * W
             M == MAX_DHCP_RETRY * W
  <2>4. D \in Nat /\ R \in Nat /\ M \in Nat /\ D + 1 + M <= L /\ age <= D + 1 + R + dhcp_tick_1s
        /\ R + dhcp_tick_1s <= M
    BY <1>2, <1>4, <2>1, <2>2, <2>3
  <2> HIDE DEF W, D, R, M
  <2> QED
    BY <1>1, <1>3, <2>4
<1> QED
  BY <1>5, <1>6 DEF Lasting

-----------------------------------------------------------------------------
\* The invariant holds throughout.
THEOREM DhcpInvariant == DhcpSpec => []DhcpInv
  BY DhcpInitInv, DhcpStep, PTL DEF DhcpSpec

\* While the client holds a lease or renews it, the chip has the address it asks for:
\* DHCP_run puts no other address of an acknowledgement into it.
THEOREM AddressIsTheLeases == DhcpSpec => []LeaseIsCarried
<1>1. DhcpInv => LeaseIsCarried
  BY DEF DhcpInv
<1> QED
  BY <1>1, DhcpInvariant, PTL

\* The renewal of check_DHCP_timeout is over before the lease, unless a message of
\* another exchange came in.
THEOREM LeaseEndsInTime == DhcpSpec => []LeaseNotOutlived
  BY InTime, DhcpInvariant, PTL

-----------------------------------------------------------------------------
(* Tftp *)

PortNumbers == 1..Len(ports)

Messages ==
  [type : {"DATA"}, block : 1..FileBlocks, port : Nat, of : Nat, short : BOOLEAN]
    \cup [type : {"OACK", "ERROR"}, port : Nat, of : Nat]

TftpTypeInv ==
  /\ tftpState \in {"NONE", "RRQ", "OACK", "DATA"}
  /\ g_block_num \in 0..FileBlocks /\ g_server_port \in 0..Len(ports)
  /\ transfer \in Nat /\ (Running => transfer > 0)
  /\ ports \in Seq([of : Nat, sent : 0..FileBlocks])

\* A message of the server comes from a port of its transfer that has sent so far.
FromServer ==
  \A m \in toClient :
    /\ m \in Messages /\ m.of \in 1..transfer
    /\ m.type = "ERROR" => m.port = 0
    /\ m.type # "ERROR" => m.port \in PortNumbers /\ ports[m.port].of = m.of
    /\ m.type = "DATA" => m.block <= ports[m.port].sent /\ (m.short <=> m.block = FileBlocks)

\* A message of the client goes to a port there is.
FromClient ==
  \A m \in toServer :
    \/ m.type = "RRQ" /\ m.of \in 1..transfer
    \/ m.type = "ACK" /\ m.block \in Nat /\ m.port \in 0..Len(ports)

PortsOk == \A p \in PortNumbers : ports[p].of \in 1..transfer

Idle == ~Running => g_block_num = 0 /\ ~g_resend_flag

Going == Running => g_progress_state = "PROGRESS"

\* No port of this transfer is more than one block ahead of the client, which has
\* acknowledged nothing to it that it did not save.
InStep ==
  (Running /\ ~strayed) =>
    /\ g_block_num < FileBlocks
    /\ tftpState # "DATA" => g_block_num = 0
    /\ \A p \in PortNumbers : ports[p].of = transfer => ports[p].sent <= g_block_num + 1
    /\ \A m \in toServer :
         (m.type = "ACK" /\ m.port \in PortNumbers /\ ports[m.port].of = transfer) =>
           m.block <= g_block_num

SavedSoFar == (Running /\ ~strayed) => saved = [n \in 1..g_block_num |-> n]

BufferSent == g_tftp_rcv_buf = NoDatagram \/ g_tftp_rcv_buf \in toClient

\* A datagram of this transfer that is still in the buffer changes nothing.
BufferDone ==
  (Running /\ ~strayed /\ g_tftp_rcv_buf # NoDatagram /\ g_tftp_rcv_buf.of = transfer) =>
    g_tftp_rcv_buf.type = "OACK" /\ tftpState # "RRQ"

\* What does not depend on the buffer.
Transfers ==
  /\ TftpTypeInv /\ FromServer /\ FromClient /\ PortsOk /\ Idle /\ Going
  /\ InStep /\ SavedSoFar /\ SuccessIsWhole

TftpInv == Transfers /\ BufferSent /\ BufferDone

\* One more block.
LEMMA OneMore ==
  ASSUME NEW g \in Nat
  PROVE  Append([n \in 1..g |-> n], g + 1) = [n \in 1..(g + 1) |-> n]
<1> DEFINE s == [n \in 1..g |-> n]
           t == [n \in 1..(g + 1) |-> n]
<1>1. s \in Seq(Nat) /\ Len(s) = g
  OBVIOUS
<1>2. t \in Seq(Nat) /\ Len(t) = g + 1
  OBVIOUS
<1>3. Append(s, g + 1) \in Seq(Nat) /\ Len(Append(s, g + 1)) = g + 1
  BY <1>1
<1>4. \A k \in 1..(g + 1) : Append(s, g + 1)[k] = t[k]
  BY <1>1
<1> HIDE DEF s, t
<1>5. Append(s, g + 1) = t
  BY <1>2, <1>3, <1>4
<1> QED
  BY <1>5 DEF s, t

\* A sequence with another element in a place.
LEMMA OneChanged ==
  ASSUME NEW S, NEW s \in Seq(S), NEW i \in 1..Len(s), NEW e \in S
  PROVE  [s EXCEPT ![i] = e] \in Seq(S) /\ Len([s EXCEPT ![i] = e]) = Len(s)
  OBVIOUS

\* The fields of a port.
LEMMA PortFields ==
  ASSUME TftpTypeInv
  PROVE  /\ Len(ports) \in Nat
         /\ \A p \in PortNumbers : /\ ports[p] \in [of : Nat, sent : 0..FileBlocks]
                                   /\ ports[p].of \in Nat /\ ports[p].sent \in 0..FileBlocks
<1> DEFINE P == [of : Nat, sent : 0..FileBlocks]
<1>1. ports \in Seq(P)
  BY DEF TftpTypeInv
<1> HIDE DEF P
<1>2. Len(ports) \in Nat /\ \A p \in PortNumbers : ports[p] \in P
  BY <1>1 DEF PortNumbers
<1> QED
  BY <1>2 DEF P

-----------------------------------------------------------------------------
(* The server *)

\* A step of the server: its messages come from the port they say, and no port runs ahead.
LEMMA ServerKeeps ==
  ASSUME TftpInv, NEW m \in toServer, ServerRequest(m) \/ ServerAck(m)
  PROVE  TftpInv'
<1> USE TftpAssumption DEF TftpInv, Transfers
<1>0. /\ UNCHANGED <<tftpState, g_block_num, g_server_port, g_resend_flag, g_progress_state>>
      /\ UNCHANGED <<saved, g_tftp_rcv_buf, toServer, transfer, strayed>>
      /\ toClient \subseteq toClient'
  BY DEF ServerRequest, ServerAck, ServerOnly, Answered
<1>1. BufferSent' /\ BufferDone' /\ SavedSoFar' /\ SuccessIsWhole' /\ Idle' /\ Going'
  BY <1>0 DEF BufferSent, BufferDone, SavedSoFar, SuccessIsWhole, Idle, Going, Running
<1>2. CASE ServerRequest(m) /\ UNCHANGED ports /\ Answered(Refusal(m.of))
  <2>1. m.of \in 1..transfer
    BY <1>2 DEF ServerRequest, FromClient
  <2>2. TftpTypeInv' /\ FromClient' /\ PortsOk' /\ InStep'
    BY <1>0, <1>2 DEF TftpTypeInv, FromClient, PortsOk, InStep, Running, PortNumbers
  <2>3. Refusal(m.of) \in Messages
    BY <2>1 DEF Refusal, Messages, TftpTypeInv
  <2>4. FromServer'
    BY <1>0, <1>2, <2>1, <2>3 DEF FromServer, Answered, Refusal, PortNumbers, Messages
  <2> QED
    BY <1>1, <2>2, <2>4
<1>3. ASSUME ServerRequest(m), NEW n \in {0, 1}, 
             ports' = Append(ports, [of |-> m.of, sent |-> n]),
             Answered(IF n = 0 THEN Oack(Len(ports) + 1, m.of) ELSE Data(1, Len(ports) + 1, m.of))
      PROVE  TftpInv'
  <2>1. m.of \in 1..transfer
    BY <1>3 DEF ServerRequest, FromClient
  <2>2. /\ ports' \in Seq([of : Nat, sent : 0..FileBlocks]) /\ Len(ports') = Len(ports) + 1
        /\ \A p \in PortNumbers : ports'[p] = ports[p]
        /\ ports'[Len(ports) + 1] = [of |-> m.of, sent |-> n]
    BY <1>3, <2>1 DEF TftpTypeInv, PortNumbers
  <2>3. TftpTypeInv' /\ FromClient' /\ PortsOk'
    <3>1. TftpTypeInv'
      BY <1>0, <2>2, PortFields DEF TftpTypeInv, Running
    <3>2. FromClient'
      BY <1>0, <2>2, PortFields DEF FromClient
    <3>3. PortsOk'
      <4>1. \A p \in PortNumbers' : p \in PortNumbers \/ p = Len(ports) + 1
        BY <2>2, PortFields DEF PortNumbers
      <4>2. ports'[Len(ports) + 1].of = m.of
        BY <2>2
      <4>3. \A p \in PortNumbers : ports'[p].of \in 1..transfer
        BY <2>2 DEF PortsOk
      <4>4. \A p \in PortNumbers' : ports'[p].of \in 1..transfer
        BY <2>1, <4>1, <4>2, <4>3
      <4> QED
        BY <1>0, <4>4 DEF PortsOk
    <3> QED
      BY <3>1, <3>2, <3>3
  <2>4. InStep'
    <3> SUFFICES ASSUME Running, ~strayed PROVE InStep'
      BY <1>0 DEF InStep, Running
    <3>1. \A p \in PortNumbers' : ports'[p].of = transfer => ports'[p].sent <= g_block_num + 1
      <4>1. g_block_num \in Nat
        BY DEF TftpTypeInv
      <4>2. ports'[Len(ports) + 1].sent <= g_block_num + 1
        BY <2>2, <4>1
      <4>3. \A p \in PortNumbers' : p \in PortNumbers \/ p = Len(ports) + 1
        BY <2>2, PortFields DEF PortNumbers
      <4> QED
        BY <2>2, <4>2, <4>3 DEF InStep
    <3>2. \A k \in toServer :
            (k.type = "ACK" /\ k.port \in PortNumbers' /\ ports'[k.port].of = transfer) =>
              k.block <= g_block_num
      <4>1. \A k \in toServer : k.type = "ACK" => k.port \in 0..Len(ports)
        BY DEF FromClient
      <4>2. \A k \in toServer : k.type = "ACK" /\ k.port \in PortNumbers' => k.port \in PortNumbers
        BY <2>2, <4>1, PortFields DEF PortNumbers
      <4> QED
        BY <2>2, <4>2 DEF InStep
    <3> QED
      BY <1>0, <3>1, <3>2 DEF InStep, Running
  <2>5. FromServer'
    <3> DEFINE k == IF n = 0 THEN Oack(Len(ports) + 1, m.of) ELSE Data(1, Len(ports) + 1, m.of)
               Right(x) ==
                 /\ x \in Messages /\ x.of \in 1..transfer
                 /\ x.type = "ERROR" => x.port = 0
                 /\ x.type # "ERROR" => x.port \in PortNumbers' /\ ports'[x.port].of = x.of
                 /\ x.type = "DATA" => /\ x.block <= ports'[x.port].sent
                                       /\ (x.short <=> x.block = FileBlocks)
    <3>1. PortNumbers \subseteq PortNumbers' /\ Len(ports) + 1 \in PortNumbers'
      BY <2>2, PortFields DEF PortNumbers
    <3>2. \A x \in toClient : Right(x)
      BY <2>2, <3>1 DEF FromServer, Messages
    <3>3. \/ k = Oack(Len(ports) + 1, m.of) /\ n = 0
          \/ k = Data(1, Len(ports) + 1, m.of) /\ n = 1
      OBVIOUS
    <3>4. toClient' = toClient \cup {k}
      BY <1>3 DEF Answered
    <3> HIDE DEF k
    <3>5. ASSUME k = Oack(Len(ports) + 1, m.of) PROVE Right(k)
      <4>1. k \in Messages
        BY <2>1, <3>5, PortFields DEF Oack, Messages, TftpTypeInv
      <4>2. k.type = "OACK" /\ k.port = Len(ports) + 1 /\ k.of = m.of
        BY <3>5 DEF Oack
      <4> QED
        BY <2>1, <2>2, <3>1, <4>1, <4>2
    <3>6. ASSUME k = Data(1, Len(ports) + 1, m.of), n = 1 PROVE Right(k)
      <4>1. k \in Messages
        BY <2>1, <3>6, PortFields DEF Data, Messages, TftpTypeInv
      <4>2. k.type = "DATA" /\ k.block = 1 /\ k.port = Len(ports) + 1 /\ k.of = m.of
        BY <3>6 DEF Data
      <4>3. k.short <=> k.block = FileBlocks
        BY <3>6 DEF Data
      <4>4. ports'[k.port].of = k.of /\ ports'[k.port].sent = 1
        BY <2>2, <3>6, <4>2
      <4> QED
        BY <2>1, <3>1, <4>1, <4>2, <4>3, <4>4
    <3>7. \A x \in toClient' : Right(x)
      BY <3>2, <3>3, <3>5, <3>6, <3>4
    <3> QED
      BY <1>0, <3>7 DEF FromServer
  <2> QED
    BY <1>1, <2>3, <2>4, <2>5
<1>4. CASE ServerAck(m)
  <2> DEFINE q == m.port
  <2>1. /\ q \in PortNumbers /\ m.block = ports[q].sent /\ m.block \in 0..(FileBlocks - 1)
        /\ m.type = "ACK"
        /\ ports' = [ports EXCEPT ![q].sent = @ + 1]
        /\ toClient' = toClient \cup {Data(m.block + 1, q, ports[q].of)}
    <3>0. /\ q \in DOMAIN ports /\ m.block = ports[q].sent /\ m.block < FileBlocks
          /\ m.type = "ACK"
          /\ ports' = [ports EXCEPT ![q].sent = @ + 1]
          /\ toClient' = toClient \cup {Data(m.block + 1, q, ports[q].of)}
      BY <1>4 DEF ServerAck, Answered
    <3>2. DOMAIN ports = PortNumbers
      BY DEF TftpTypeInv, PortNumbers
    <3>1. /\ q \in PortNumbers /\ m.block = ports[q].sent /\ m.block < FileBlocks
          /\ m.type = "ACK"
          /\ ports' = [ports EXCEPT ![q].sent = @ + 1]
          /\ toClient' = toClient \cup {Data(m.block + 1, q, ports[q].of)}
      BY <3>0, <3>2
    <3> QED
      BY <3>1, PortFields
  <2>2. /\ ports' \in Seq([of : Nat, sent : 0..FileBlocks]) /\ Len(ports') = Len(ports)
        /\ \A p \in PortNumbers : /\ ports'[p].of = ports[p].of
                                  /\ ports'[p].sent = IF p = q THEN m.block + 1 ELSE ports[p].sent
    <3>1. \A p \in PortNumbers :
            ports'[p] = IF p = q THEN [ports[q] EXCEPT !.sent = @ + 1] ELSE ports[p]
      <4>1. DOMAIN ports = PortNumbers
        BY DEF TftpTypeInv, PortNumbers
      <4> QED
        BY <2>1, <4>1
    <3>2. [ports[q] EXCEPT !.sent = @ + 1] = [of |-> ports[q].of, sent |-> m.block + 1]
      <4>1. ports[q] \in [of : Nat, sent : 0..FileBlocks]
        BY <2>1, PortFields
      <4> QED
        BY <2>1, <4>1
    <3>3. [ports[q] EXCEPT !.sent = @ + 1] \in [of : Nat, sent : 0..FileBlocks]
      BY <2>1, <3>2, PortFields
    <3>4. ports' \in Seq([of : Nat, sent : 0..FileBlocks]) /\ Len(ports') = Len(ports)
      <4> DEFINE e == [ports[q] EXCEPT !.sent = @ + 1]
                 P == [of : Nat, sent : 0..FileBlocks]
      <4>1. ports' = [ports EXCEPT ![q] = e]
        BY <2>1
      <4>2. ports \in Seq(P) /\ q \in 1..Len(ports) /\ e \in P
        BY <2>1, <3>3 DEF TftpTypeInv, PortNumbers
      <4> HIDE DEF e, P
      <4>3. ports' \in Seq(P) /\ Len(ports') = Len(ports)
        BY <4>1, <4>2, OneChanged
      <4> QED
        BY <4>3 DEF P
    <3> QED
      BY <3>1, <3>2, <3>4
  <2> HIDE DEF q
  <2>3. TftpTypeInv' /\ FromClient' /\ PortsOk'
    BY <1>0, <2>2 DEF TftpTypeInv, FromClient, PortsOk, Running, PortNumbers
  <2>4. InStep'
    <3> SUFFICES ASSUME Running, ~strayed PROVE InStep'
      BY <1>0 DEF InStep, Running
    <3>1. ports[q].of = transfer => m.block <= g_block_num
      BY <2>1 DEF InStep, q
    <3>2. \A p \in PortNumbers : ports[p].of = transfer => ports[p].sent <= g_block_num + 1
      BY DEF InStep
    <3>3. ASSUME NEW p \in PortNumbers, ports'[p].of = transfer
          PROVE  ports'[p].sent <= g_block_num + 1
      <4>1. ports[p].of = transfer
        BY <2>2, <3>3
      <4>2. m.block \in Nat /\ g_block_num \in Nat
        BY <2>1 DEF TftpTypeInv
      <4>3. CASE p = q
        <5>1. ports'[p].sent = m.block + 1 /\ m.block <= g_block_num
          BY <2>2, <3>1, <4>1, <4>3
        <5> QED
          BY <4>2, <5>1
      <4>4. CASE p # q
        BY <2>2, <3>2, <4>1, <4>4
      <4> QED
        BY <4>3, <4>4
    <3>4. PortNumbers' = PortNumbers
      BY <2>2 DEF PortNumbers
    <3> QED
      BY <1>0, <2>2, <3>3, <3>4 DEF InStep, Running
  <2>5. FromServer'
    <3> DEFINE d == Data(m.block + 1, q, ports[q].of)
    <3>1. d \in Messages /\ d.of \in 1..transfer /\ d.type = "DATA"
      <4>1. /\ m.block + 1 \in 1..FileBlocks /\ q \in Nat
            /\ ports[q].of \in Nat /\ ports[q].of \in 1..transfer
        BY <2>1, PortFields DEF PortsOk, PortNumbers
      <4> QED
        BY <4>1 DEF Data, Messages
    <3>2. d.port \in PortNumbers' /\ ports'[d.port].of = d.of
      BY <2>1, <2>2 DEF Data, PortNumbers
    <3>3. d.block <= ports'[d.port].sent /\ (d.short <=> d.block = FileBlocks)
      <4>1. d.block = m.block + 1 /\ d.port = q /\ (d.short <=> m.block + 1 = FileBlocks)
        BY DEF Data
      <4>2. m.block + 1 <= ports'[q].sent
        BY <2>1, <2>2
      <4> QED
        BY <4>1, <4>2
    <3>4. ASSUME NEW k \in toClient, k.type = "DATA"
          PROVE  k.block <= ports'[k.port].sent
      <4>1. k.port \in PortNumbers /\ k.block <= ports[k.port].sent
        BY <3>4 DEF FromServer
      <4>2. k.block \in Nat
        BY <3>4 DEF FromServer, Messages
      <4>3. ports[k.port].sent \in Nat
        BY <4>1, PortFields
      <4>4. ports'[k.port].sent \in Nat /\ ports[k.port].sent <= ports'[k.port].sent
        <5>1. CASE k.port = q
          <6>1. ports'[k.port].sent = m.block + 1 /\ m.block = ports[k.port].sent
            BY <2>1, <2>2, <4>1, <5>1
          <6> QED
            BY <4>3, <6>1
        <5>2. CASE k.port # q
          <6>1. ports'[k.port].sent = ports[k.port].sent
            BY <2>2, <4>1, <5>2
          <6> QED
            BY <4>3, <6>1
        <5> QED
          BY <5>1, <5>2
      <4> QED
        BY <4>1, <4>2, <4>3, <4>4
    <3> HIDE DEF d
    <3>5. toClient' = toClient \cup {d}
      BY <2>1 DEF d
    <3> QED
      BY <1>0, <2>2, <3>1, <3>2, <3>3, <3>4, <3>5 DEF FromServer, PortNumbers
  <2> QED
    BY <1>1, <2>3, <2>4, <2>5
<1> QED
  BY <1>2, <1>3, <1>4 DEF ServerRequest

-----------------------------------------------------------------------------
(* recv_tftp_packet *)

\* A datagram that is read: its port may be any, its fields are in their ranges.
Readable(m) ==
  /\ m.type \in {"DATA", "OACK", "ERROR"} /\ m.of \in 1..transfer
  /\ m.port \in 0..Len(ports)
  /\ m.type = "DATA" => m.block \in 1..FileBlocks

\* A block of this transfer is at most one ahead.
Genuine(m) ==
  (m.type = "DATA" /\ m.of = transfer /\ ~strayed) =>
    m.block <= g_block_num + 1 /\ (m.short <=> m.block = FileBlocks)

\* What the client does with any datagram keeps it in step with the server.
LEMMA RecvKeeps ==
  ASSUME TftpInv, Running, NEW m, Readable(m), Genuine(m), recv_tftp_packet(m)
  PROVE  Transfers' /\ (m.type = "OACK" => tftpState' # "RRQ")
<1> USE TftpAssumption DEF TftpInv, Transfers
<1>1. UNCHANGED <<toClient, ports, transfer>> /\ strayed' = (strayed \/ m.of # transfer)
  BY DEF recv_tftp_packet
<1>2. FromServer' /\ PortsOk' /\ PortNumbers' = PortNumbers
  BY <1>1 DEF FromServer, PortsOk, PortNumbers
<1>3. PortAfter(m) \in 0..Len(ports)
  BY DEF PortAfter, Readable, TftpTypeInv
<1>4. ~strayed' => ~strayed /\ m.of = transfer
  BY <1>1
<1>5. (m.type = "DATA" /\ ~strayed') => (NextBlock(m.block) <=> m.block = g_block_num + 1)
  BY <1>4 DEF NextBlock, InStep
<1>6. ASSUME m.type = "DATA", Sends(Ack(m.block, PortAfter(m))) PROVE FromClient'
  BY <1>1, <1>3, <1>6 DEF Sends, Ack, FromClient, Readable
<1>7. CASE KeepBlock(m)
  <2>1. TftpTypeInv' /\ Idle' /\ Going'
    BY <1>1, <1>3, <1>7 DEF KeepBlock, TftpTypeInv, Idle, Going, Running, Readable
  <2>2. FromClient'
    BY <1>6, <1>7 DEF KeepBlock
  <2>3. SuccessIsWhole'
    BY <2>1, <1>7 DEF KeepBlock, Going, Running, SuccessIsWhole
  <2>4. CASE ~strayed'
    <3>1. g_block_num' = g_block_num + 1 /\ g_block_num' < FileBlocks /\ tftpState' = "DATA"
      BY <1>4, <1>5, <1>7, <2>4 DEF KeepBlock, Genuine, Readable, TftpTypeInv
    <3>2. saved' = Append([n \in 1..g_block_num |-> n], g_block_num + 1)
      BY <1>4, <1>5, <1>7, <2>4 DEF KeepBlock, SavedSoFar
    <3>3. SavedSoFar'
      BY <3>1, <3>2, OneMore DEF SavedSoFar, TftpTypeInv
    <3>4. \A p \in PortNumbers : ports[p].of = transfer => ports[p].sent <= g_block_num' + 1
      <4>1. \A p \in PortNumbers : ports[p].of = transfer => ports[p].sent <= g_block_num + 1
        BY <1>4, <2>4 DEF InStep
      <4> QED
        BY <3>1, <4>1, PortFields DEF TftpTypeInv
    <3>5. toServer' = toServer \cup {Ack(g_block_num', PortAfter(m))}
      BY <1>7 DEF KeepBlock, Sends
    <3>6. \A k \in toServer :
            (k.type = "ACK" /\ k.port \in PortNumbers /\ ports[k.port].of = transfer) =>
              k.block <= g_block_num'
      <4>1. \A k \in toServer :
              (k.type = "ACK" /\ k.port \in PortNumbers /\ ports[k.port].of = transfer) =>
                k.block <= g_block_num /\ k.block \in Nat
        BY <1>4, <2>4 DEF InStep, FromClient
      <4> QED
        BY SMTT(30), <3>1, <4>1 DEF TftpTypeInv
    <3>7. \A k \in toServer' :
            (k.type = "ACK" /\ k.port \in PortNumbers /\ ports[k.port].of = transfer) =>
              k.block <= g_block_num'
      BY <3>1, <3>5, <3>6 DEF Ack, TftpTypeInv
    <3>8. InStep'
      BY <1>1, <1>2, <3>1, <3>4, <3>7 DEF InStep
    <3> QED
      BY <1>2, <1>7, <2>1, <2>2, <2>3, <3>3, <3>8 DEF KeepBlock
  <2> QED
    BY <1>2, <1>7, <2>1, <2>2, <2>3, <2>4 DEF KeepBlock, InStep, SavedSoFar
<1>8. CASE RepeatAck(m)
  <2>1. TftpTypeInv' /\ Idle' /\ Going' /\ SavedSoFar'
    BY <1>1, <1>3, <1>8
    DEF RepeatAck, Registered, TftpTypeInv, Idle, Going, SavedSoFar, Running, Readable
  <2>2. FromClient'
    BY <1>6, <1>8 DEF RepeatAck
  <2>3. SuccessIsWhole'
    BY <2>1, <1>8 DEF RepeatAck, Going, Running, SuccessIsWhole
  <2>4. CASE ~strayed'
    <3>1. m.block <= g_block_num
      BY <1>4, <1>5, <1>8, <2>4 DEF RepeatAck, Genuine, Readable, TftpTypeInv
    <3>2. toServer' = toServer \cup {Ack(m.block, PortAfter(m))}
      BY <1>8 DEF RepeatAck, Sends
    <3>3. \A k \in toServer' :
            (k.type = "ACK" /\ k.port \in PortNumbers /\ ports[k.port].of = transfer) =>
              k.block <= g_block_num
      BY <1>4, <2>4, <3>1, <3>2 DEF InStep, Ack
    <3>4. InStep'
      BY <1>1, <1>2, <1>4, <1>8, <2>4, <3>3 DEF InStep, RepeatAck
    <3> QED
      BY <1>2, <1>8, <2>1, <2>2, <2>3, <3>4 DEF RepeatAck
  <2> QED
    BY <1>2, <1>8, <2>1, <2>2, <2>3, <2>4 DEF RepeatAck, InStep
<1>9. CASE EndOfFile(m)
  <2>1. ~Running' /\ g_block_num' = 0 /\ g_server_port' = 0 /\ ~g_resend_flag'
    BY <1>9 DEF EndOfFile, init_tftp, Running
  <2>2. TftpTypeInv' /\ Idle' /\ Going' /\ SavedSoFar' /\ InStep'
    BY <1>1, <1>9, <2>1
    DEF EndOfFile, init_tftp, TftpTypeInv, Idle, Going, SavedSoFar, InStep, Running
  <2>3. FromClient'
    BY <1>6, <1>9 DEF EndOfFile
  <2>4. SuccessIsWhole'
    <3> SUFFICES ASSUME ~strayed' PROVE saved' = [n \in 1..FileBlocks |-> n]
      BY DEF SuccessIsWhole
    <3>1. m.block = FileBlocks /\ m.block = g_block_num + 1
      BY <1>4, <1>9 DEF EndOfFile, Genuine, InStep, TftpTypeInv
    <3>2. saved' = Append([n \in 1..g_block_num |-> n], g_block_num + 1)
      BY <1>4, <1>5, <1>9, <3>1 DEF EndOfFile, SavedSoFar
    <3> QED
      BY <3>1, <3>2, OneMore DEF TftpTypeInv
  <2> QED
    BY <1>2, <1>9, <2>2, <2>3, <2>4 DEF EndOfFile
<1>10. CASE TakeOptions(m)
  <2>1. TftpTypeInv' /\ Idle' /\ Going' /\ SavedSoFar'
    BY <1>1, <1>10
    DEF TakeOptions, Restarted, TftpTypeInv, Idle, Going, SavedSoFar, Running, Readable
  <2>2. SuccessIsWhole'
    BY <2>1, <1>10 DEF TakeOptions, Going, Running, SuccessIsWhole
  <2>3. toServer' = toServer \cup {Ack(0, m.port)}
    BY <1>10 DEF TakeOptions, Sends
  <2>4. FromClient'
    BY <1>1, <2>3 DEF FromClient, Ack, Readable
  <2>5. InStep'
    BY <1>1, <1>2, <1>4, <1>10, <2>3 DEF InStep, Ack, TakeOptions, TftpTypeInv
  <2> QED
    BY <1>2, <1>10, <2>1, <2>2, <2>4, <2>5 DEF TakeOptions
<1>11. CASE TakeError(m)
  <2>1. ~Running' /\ g_progress_state' = "FAIL"
    BY <1>11 DEF TakeError, init_tftp, Running
  <2>2. TftpTypeInv' /\ Idle' /\ Going' /\ SavedSoFar' /\ InStep' /\ SuccessIsWhole'
    BY <1>1, <1>11, <2>1
    DEF TakeError, init_tftp, TftpTypeInv, Idle, Going, SavedSoFar, InStep, Running, SuccessIsWhole
  <2>3. FromClient'
    BY <1>1, <1>11 DEF TakeError, FromClient
  <2> QED
    BY <1>2, <1>11, <2>2, <2>3 DEF TakeError
<1>12. CASE DropOptions(m)
  BY <1>1, <1>2, <1>4, <1>12
  DEF DropOptions, TftpTypeInv, FromClient, Idle, Going, SavedSoFar, InStep, Running, SuccessIsWhole
<1> QED
  BY <1>7, <1>8, <1>9, <1>10, <1>11, <1>12 DEF recv_tftp_packet

\* A datagram that comes in.
LEMMA ReceiveKeeps ==
  ASSUME TftpInv, NEW m \in toClient, Receive(m)
  PROVE  TftpInv'
<1> USE TftpAssumption DEF TftpInv
<1>1. Running /\ recv_tftp_packet(m)
  BY DEF Receive
<1>2. m \in Messages /\ Readable(m)
  BY DEF Transfers, FromServer, Readable, Messages, PortNumbers, TftpTypeInv
<1>3. Genuine(m)
  <2> SUFFICES ASSUME m.type = "DATA", m.of = transfer, ~strayed
               PROVE  m.block <= g_block_num + 1 /\ (m.short <=> m.block = FileBlocks)
    BY DEF Genuine
  <2>1. /\ m.port \in PortNumbers /\ ports[m.port].of = transfer
        /\ m.block <= ports[m.port].sent /\ (m.short <=> m.block = FileBlocks)
    BY DEF Transfers, FromServer
  <2>2. ports[m.port].sent <= g_block_num + 1
    BY <1>1, <2>1 DEF Transfers, InStep
  <2>3. m.block \in Nat /\ ports[m.port].sent \in Nat /\ g_block_num \in Nat
    BY <1>2, <2>1, PortFields DEF Transfers, TftpTypeInv, Readable
  <2> QED
    BY <2>1, <2>2, <2>3
<1>4. Transfers' /\ (m.type = "OACK" => tftpState' # "RRQ")
  BY <1>1, <1>2, <1>3, RecvKeeps
<1>5. toClient' = toClient
  BY <1>1 DEF recv_tftp_packet
<1> QED
  BY <1>4, <1>5 DEF Receive, BufferSent, BufferDone

\* The buffer parsed again: a datagram of this transfer is dropped.
LEMMA DatagramKeeps ==
  ASSUME TftpInv, ParseAgain
  PROVE  TftpInv'
<1> USE TftpAssumption DEF TftpInv
<1> DEFINE buf == g_tftp_rcv_buf
           Read(p) == IF buf.type # "DATA" THEN [buf EXCEPT !.port = p]
                      ELSE [buf EXCEPT !.port = p, !.short = FALSE]
<1>1. PICK p \in 0..Len(ports) : recv_tftp_packet(Read(p))
  BY DEF ParseAgain
<1>2. /\ Running /\ buf # NoDatagram
      /\ g_tftp_rcv_buf' = IF buf.type = "OACK" THEN buf ELSE NoDatagram
  BY DEF ParseAgain
<1>3. buf \in toClient /\ buf \in Messages /\ buf.of \in 1..transfer
  BY <1>2 DEF BufferSent, Transfers, FromServer
<1>4. /\ Read(p).type = buf.type /\ Read(p).of = buf.of /\ Read(p).port = p
      /\ buf.type = "DATA" => Read(p).block = buf.block
  BY <1>3 DEF Messages
<1> HIDE DEF Read
<1>5. Readable(Read(p))
  BY <1>3, <1>4 DEF Readable, Messages
<1>6. Genuine(Read(p))
  BY <1>2, <1>4 DEF Genuine, BufferDone
<1>7. Transfers' /\ (buf.type = "OACK" => tftpState' # "RRQ")
  BY <1>1, <1>2, <1>4, <1>5, <1>6, RecvKeeps
<1>8. toClient' = toClient
  BY <1>1 DEF recv_tftp_packet
<1> QED
  BY <1>2, <1>3, <1>7, <1>8 DEF BufferSent, BufferDone

-----------------------------------------------------------------------------
(* The rest of the client *)

\* A message is repeated, or the transfer fails: nothing is acknowledged that was not.
LEMMA TimeOutKeeps ==
  ASSUME TftpInv, TimedOut
  PROVE  TftpInv'
<1> USE TftpAssumption DEF TftpInv, Transfers
<1>1. Running
  BY DEF TimedOut, Idle
<1>2. UNCHANGED <<saved, g_tftp_rcv_buf, toClient, ports, transfer, strayed>>
  BY DEF TimedOut
<1>3. FromServer' /\ PortsOk' /\ PortNumbers' = PortNumbers /\ BufferSent'
  BY <1>2 DEF FromServer, PortsOk, PortNumbers, BufferSent
<1>4. toServer' = toServer \cup {IF tftpState = "RRQ" THEN Rrq(transfer)
                                 ELSE Ack(g_block_num, g_server_port)}
  BY DEF TimedOut, Sends
<1>5. FromClient'
  BY <1>1, <1>2, <1>4 DEF FromClient, Rrq, Ack, TftpTypeInv
<1>6. CASE Tries < MAX_TRIES
  <2>1. UNCHANGED <<tftpState, g_block_num, g_server_port, g_resend_flag, g_progress_state>>
    BY <1>6 DEF TimedOut
  <2>2. TftpTypeInv' /\ Idle' /\ Going' /\ SavedSoFar' /\ SuccessIsWhole' /\ BufferDone'
    BY <1>2, <2>1 DEF TftpTypeInv, Idle, Going, SavedSoFar, SuccessIsWhole, BufferDone, Running
  <2>3. InStep'
    BY <1>2, <1>3, <1>4, <2>1 DEF InStep, Rrq, Ack, TftpTypeInv, Running
  <2> QED
    BY <1>3, <1>5, <2>2, <2>3
<1>7. CASE ~(Tries < MAX_TRIES)
  <2>1. init_tftp("FAIL")
    BY <1>7 DEF TimedOut
  <2> QED
    BY <1>2, <1>3, <1>5, <2>1
    DEF init_tftp, TftpTypeInv, Idle, Going, SavedSoFar, SuccessIsWhole, BufferDone, InStep, Running
<1> QED
  BY <1>6, <1>7

\* A new transfer: every port, message and datagram there is belongs to an earlier one.
LEMMA RequestKeeps ==
  ASSUME TftpInv, TFTP_read_request
  PROVE  TftpInv'
<1> USE TftpAssumption DEF TftpInv, Transfers
<1>1. /\ UNCHANGED <<g_block_num, g_server_port, g_tftp_rcv_buf, toClient, ports>>
      /\ transfer' = transfer + 1 /\ saved' = <<>> /\ tftpState' = "RRQ"
      /\ g_progress_state' = "PROGRESS" /\ g_resend_flag' = TRUE
      /\ toServer' = toServer \cup {Rrq(transfer + 1)} /\ g_block_num = 0
  BY DEF TFTP_read_request, Sends, Registered, Idle
<1>2. TftpTypeInv' /\ Idle' /\ Going' /\ SuccessIsWhole' /\ BufferSent'
  BY <1>1 DEF TftpTypeInv, Idle, Going, SuccessIsWhole, BufferSent, Running
<1>3. FromServer' /\ PortsOk' /\ FromClient'
  BY SMTT(30), <1>1 DEF FromServer, PortsOk, FromClient, PortNumbers, Rrq, TftpTypeInv
<1>4. \A p \in PortNumbers : ports[p].of # transfer'
  BY <1>1 DEF PortsOk, TftpTypeInv
<1>5. InStep'
  BY <1>1, <1>4 DEF InStep, PortNumbers, Rrq
<1>6. SavedSoFar'
  BY <1>1 DEF SavedSoFar
<1>7. BufferDone'
  BY <1>1 DEF BufferDone, BufferSent, FromServer, TftpTypeInv
<1> QED
  BY <1>2, <1>3, <1>5, <1>6, <1>7

\* The invariant holds at power-up.
LEMMA TftpInitInv == TftpInit => TftpInv
  BY TftpAssumption
  DEF TftpInit, TftpInv, Transfers, TftpTypeInv, FromServer, FromClient, PortsOk, Idle, Going,
      InStep, SavedSoFar, SuccessIsWhole, BufferSent, BufferDone, Running, PortNumbers

\* Every step keeps it.
LEMMA TftpStep == TftpInv /\ [TftpNext]_tftpVars => TftpInv'
<1> SUFFICES ASSUME TftpInv, [TftpNext]_tftpVars PROVE TftpInv'
  OBVIOUS
<1> USE TftpAssumption DEF TftpInv
<1>1. ASSUME NEW m \in toClient, DropDatagram(m) PROVE TftpInv'
  BY <1>1
  DEF DropDatagram, Transfers, TftpTypeInv, FromServer, FromClient, PortsOk, Idle, Going,
      InStep, SavedSoFar, SuccessIsWhole, BufferSent, BufferDone, Running, PortNumbers
<1>2. CASE TFTP_exit
  BY <1>2
  DEF TFTP_exit, init_tftp, Transfers, TftpTypeInv, FromServer, FromClient, PortsOk, Idle, Going,
      InStep, SavedSoFar, SuccessIsWhole, BufferSent, BufferDone, Running, PortNumbers
<1>3. CASE tftp_timeout_handler \/ NothingReceived \/ UNCHANGED tftpVars
  <2>1. UNCHANGED <<tftpState, g_block_num, g_server_port, g_resend_flag, g_progress_state, saved,
                    g_tftp_rcv_buf, toClient, toServer, ports, transfer, strayed>>
    BY <1>3 DEF tftp_timeout_handler, NothingReceived, tftpVars
  <2> QED
    BY <2>1
    DEF Transfers, TftpTypeInv, FromServer, FromClient, PortsOk, Idle, Going, InStep,
        SavedSoFar, SuccessIsWhole, BufferSent, BufferDone, Running, PortNumbers
<1> QED
  BY <1>1, <1>2, <1>3, ServerKeeps, ReceiveKeeps, DatagramKeeps, TimeOutKeeps, RequestKeeps
  DEF TftpNext

-----------------------------------------------------------------------------
\* A transfer that TFTP_run ends with success has given every block of the file to
\* save_data once and in order, unless a message of an earlier transfer was taken.
THEOREM FileIsWhole == TftpSpec => []SuccessIsWhole
<1>1. TftpSpec => []TftpInv
  BY TftpInitInv, TftpStep, PTL DEF TftpSpec
<1>2. TftpInv => SuccessIsWhole
  BY DEF TftpInv, Transfers
<1> QED
  BY <1>1, <1>2, PTL

-----------------------------------------------------------------------------
(* Sntp *)

HIDE DhcpAssumption
USE SntpAssumption

-----------------------------------------------------------------------------
(* Whose answer sets the time *)

\* DNS_run and SNTP_run have the socket open on ports of their own, but for the one that
\* DNS_run leaves open when it gives up.
OwnPort ==
  /\ sock \in {"closed", "any", "sntp"}
  /\ pc = "boot" => sock = "closed"
  /\ pc = "dns" => sock = "any"
  /\ (pc = "loop" /\ ~gaveUp) => sock # "any"

\* Nothing but time answers is on its way to the port of SNTP_run.
OnlyTime ==
  /\ \A q \in asked : q.port \in {"any", "sntp"} /\ (q.port = "sntp" => q.kind = "time")
  /\ \A a \in flight : /\ a.port \in {"any", "sntp"} /\ (a.port = "sntp" => a.kind = "time")
                       /\ a.kind \in Answers
  /\ sock = "sntp" => \A i \in 1..Len(rx) : rx[i] = "time"

Datagrams == rx \in Seq(Answers) /\ (sock = "closed" => rx = <<>>)

SourceInv == OwnPort /\ OnlyTime /\ Datagrams /\ SetByServer

\* The sources at power-up.
LEMMA SourceInit == SntpInit => SourceInv
  BY DEF SntpInit, SourceInv, OwnPort, OnlyTime, Datagrams, SetByServer

\* What neither opens, nor closes, nor fills the socket, nor sets the time.
LEMMA SourceKept ==
  ASSUME SourceInv, UNCHANGED <<sock, rx, pc, gaveUp, timenow, TimeIsSet>>,
         asked' \subseteq asked, flight' \subseteq flight
  PROVE  SourceInv'
BY DEF SourceInv, OwnPort, OnlyTime, Datagrams, SetByServer

\* DNS_run: its socket is its own, and closed unless it gives up.
LEMMA SourceDns ==
  ASSUME SourceInv, DNS_run
  PROVE  SourceInv'
<1> USE DEF SourceInv, OwnPort, OnlyTime, Datagrams, SetByServer, net, dns
<1>1. CASE DnsStart
  BY <1>1 DEF DnsStart
<1>2. CASE DnsReceive
  BY <1>2 DEF DnsReceive
<1>3. CASE DnsRetry
  BY <1>3, SourceKept DEF DnsRetry
<1>4. CASE DnsGiveUp
  BY <1>4 DEF DnsGiveUp
<1> QED
  BY <1>1, <1>2, <1>3, <1>4 DEF DNS_run

\* SNTP_run: what it hears has come to its own port.
LEMMA SourceSntp ==
  ASSUME SourceInv, SNTP_run
  PROVE  SourceInv'
<1> USE DEF SourceInv, net, dns
<1>1. pc = "loop" /\ UNCHANGED <<pc, gaveUp>>
  BY DEF SNTP_run, SntpRest, SntpReceive, SntpSend, SntpOpen, Called, Resync
<1>2. CASE SntpRest
  BY <1>2, SourceKept DEF SntpRest, Called, Resync
<1>3. CASE SntpReceive
  <2>1. /\ sock # "closed" /\ rx # <<>> /\ sock' = "closed" /\ rx' = <<>>
        /\ UNCHANGED <<asked, flight>>
        /\ timenow' = IF Head(rx) = "time" THEN "server" ELSE "junk"
    BY <1>3 DEF SntpReceive, Heard
  <2>2. OwnPort' /\ OnlyTime' /\ Datagrams'
    BY <1>1, <2>1 DEF OwnPort, OnlyTime, Datagrams
  <2>3. ~gaveUp => sock = "sntp"
    BY <1>1, <2>1 DEF OwnPort
  <2>4. sock = "sntp" => Head(rx) = "time"
    BY <2>1 DEF OnlyTime, Datagrams
  <2> QED
    BY <1>1, <2>1, <2>2, <2>3, <2>4 DEF SetByServer
<1>4. CASE SntpSend
  <2>1. /\ sock # "closed" /\ TimeIsSet' = 0 /\ UNCHANGED <<sock, rx, flight, timenow>>
        /\ asked' = asked \/ asked' = asked \cup {[kind |-> "time", port |-> sock]}
    BY <1>4 DEF SntpSend
  <2> QED
    BY <1>1, <2>1 DEF OwnPort, OnlyTime, Datagrams, SetByServer
<1>5. CASE SntpOpen
  BY <1>1, <1>5 DEF SntpOpen, Socket, OwnPort, OnlyTime, Datagrams, SetByServer
<1> QED
  BY <1>2, <1>3, <1>4, <1>5 DEF SNTP_run

\* The network keeps the kind and the port of what it carries.
LEMMA SourceNet ==
  ASSUME SourceInv, Lose \/ (\E q \in asked : Answer(q)) \/ (\E a \in flight : Deliver(a))
  PROVE  SourceInv'
<1> USE DEF SourceInv, dns
<1>1. CASE Lose
  BY <1>1, SourceKept DEF Lose
<1>2. ASSUME NEW q \in asked, Answer(q) PROVE SourceInv'
  <2>1. PICK kind \in (IF q.kind = "dns" THEN DnsAnswers ELSE {"time"}) :
          flight' = flight \cup {[kind |-> kind, port |-> q.port]}
    BY <1>2 DEF Answer
  <2>2. kind \in Answers /\ (q.kind = "time" => kind = "time")
    BY <2>1 DEF Answers
  <2>3. UNCHANGED <<sock, rx, pc, gaveUp, timenow, TimeIsSet>> /\ asked' = asked \ {q}
    BY <1>2 DEF Answer
  <2> QED
    BY <2>1, <2>2, <2>3 DEF OwnPort, OnlyTime, Datagrams, SetByServer
<1>3. ASSUME NEW a \in flight, Deliver(a) PROVE SourceInv'
  <2>1. /\ UNCHANGED <<sock, asked, pc, gaveUp, timenow, TimeIsSet>>
        /\ flight' \subseteq flight
    BY <1>3 DEF Deliver
  <2>2. CASE a.port # sock
    BY <1>3, <2>1, <2>2, SourceKept DEF Deliver
  <2>3. CASE a.port = sock
    <3>1. rx' = Append(rx, a.kind) /\ a.kind \in Answers /\ sock # "closed"
      BY <1>3, <2>3 DEF Deliver, OnlyTime
    <3>2. Datagrams'
      BY <2>1, <3>1 DEF Datagrams
    <3>3. sock = "sntp" => \A i \in 1..Len(rx') : rx'[i] = "time"
      <4> SUFFICES ASSUME sock = "sntp", NEW i \in 1..Len(rx') PROVE rx'[i] = "time"
        OBVIOUS
      <4>1. a.kind = "time" /\ \A j \in 1..Len(rx) : rx[j] = "time"
        BY <2>3 DEF OnlyTime
      <4>2. rx \in Seq(Answers)
        BY DEF Datagrams
      <4> QED
        BY <3>1, <4>1, <4>2
    <3> QED
      BY <2>1, <3>2, <3>3 DEF OwnPort, OnlyTime, SetByServer
  <2> QED
    BY <2>2, <2>3
<1> QED
  BY <1>1, <1>2, <1>3

\* Every step.
LEMMA SourceStep == SourceInv /\ [SntpNext]_sntpVars => SourceInv'
<1> SUFFICES ASSUME SourceInv, [SntpNext]_sntpVars PROVE SourceInv'
  OBVIOUS
<1>1. CASE Tick \/ UNCHANGED sntpVars
  BY <1>1, SourceKept DEF Tick, sntpVars, net, dns
<1> QED
  BY <1>1, SourceDns, SourceSntp, SourceNet DEF SntpNext

-----------------------------------------------------------------------------
(* How long DNS_run takes, and the counters *)

DnsCounters ==
  /\ dns_1s_tick \in 0..DNS_WAIT_TIME /\ retry_count \in 0..MAX_DNS_RETRY /\ dnsTime \in Nat
  /\ sec_cnt \in 0..MaxLag /\ sycnPeriod \in 0..SYNC_PERIOD
  /\ RetrySend \in 0..(RETRY_SEND + 1) /\ sinceRequest \in 0..(RETRY_SEND + 1)

\* Every retry of DNS_run has used up one waiting time.
DnsSpent ==
  /\ pc \in {"boot", "dns", "loop"}
  /\ pc = "boot" => dnsTime = 0
  /\ pc = "dns" => dnsTime <= retry_count * DNS_WAIT_TIME + dns_1s_tick
  /\ pc = "loop" => dnsTime <= MaxDnsTime

\* The counter that SNTP_run looks at does not run ahead of the last request.
Spaced == RetrySend <= sinceRequest

TimesInv == DnsCounters /\ DnsSpent /\ Spaced

\* Multiplication is monotonic, and one more time is one more.
LEMMA Times ==
  ASSUME NEW r \in Nat, NEW R \in Nat, r <= R, NEW W \in Nat
  PROVE  /\ r * W \in Nat /\ (r + 1) * W = r * W + W
         /\ r * W + W <= (R + 1) * W
<1>1. (R + 1) * W = r * W + (R - r) * W + W /\ (R - r) * W >= 0
  BY Z3
<1> QED
  BY <1>1

\* The times at power-up.
LEMMA TimesInit == SntpInit => TimesInv
  BY DEF SntpInit, TimesInv, DnsCounters, DnsSpent, Spaced

\* A second.
LEMMA TimesTick ==
  ASSUME TimesInv, Tick
  PROVE  TimesInv'
<1> USE DEF TimesInv, DnsCounters, UpTo
<1>1. DnsCounters'
  BY DEF Tick, net, dns
<1>2. Spaced'
  BY DEF Tick, Spaced
<1>3. DnsSpent'
  BY Times DEF Tick, DnsSpent, net, dns
<1> QED
  BY <1>1, <1>2, <1>3

\* DNS_run.
LEMMA TimesDns ==
  ASSUME TimesInv, DNS_run
  PROVE  TimesInv'
<1> USE DEF TimesInv, DnsCounters
<1> DEFINE W == DNS_WAIT_TIME
           spent == retry_count * W
<1>1. /\ spent \in Nat /\ (retry_count + 1) * W = spent + W
      /\ spent + W <= MaxDnsTime
  BY Times DEF MaxDnsTime
<1>2. CASE DnsStart
  BY <1>2 DEF DnsStart, DnsSpent, Spaced
<1>3. CASE DnsReceive
  <2>1. dnsTime <= spent + W
    BY <1>1, <1>3 DEF DnsReceive, DnsSpent
  <2>2. dnsTime <= MaxDnsTime
    <3> HIDE DEF spent, W
    <3>1. MaxDnsTime \in Int /\ W \in Int
      BY DEF MaxDnsTime, W
    <3> QED
      BY <1>1, <2>1, <3>1
  <2>3. pc' = "loop" /\ dnsTime' = dnsTime /\ (dns_1s_tick' = 0 \/ dns_1s_tick' = dns_1s_tick)
    BY <1>3 DEF DnsReceive
  <2>4. /\ retry_count' = 0 \/ retry_count' = retry_count
        /\ UNCHANGED <<sec_cnt, RetrySend, sycnPeriod, sinceRequest>>
    BY <1>3 DEF DnsReceive
  <2> QED
    BY <2>2, <2>3, <2>4 DEF DnsSpent, Spaced, MaxDnsTime
<1>4. CASE DnsRetry
  <2>1. dnsTime <= (retry_count + 1) * W
    BY <1>1, <1>4 DEF DnsRetry, DnsSpent
  <2>2. retry_count + 1 \in 0..MAX_DNS_RETRY
    BY <1>4 DEF DnsRetry, LastRetry
  <2> QED
    BY <1>4, <2>1, <2>2 DEF DnsRetry, DnsSpent, Spaced, net
<1>5. CASE DnsGiveUp
  <2>1. dnsTime <= spent + W
    BY <1>1, <1>5 DEF DnsGiveUp, DnsSpent
  <2>2. dnsTime <= MaxDnsTime
    <3> HIDE DEF spent, W
    <3>1. MaxDnsTime \in Int /\ W \in Int
      BY DEF MaxDnsTime, W
    <3> QED
      BY <1>1, <2>1, <3>1
  <2>3. pc' = "loop" /\ dnsTime' = dnsTime /\ (dns_1s_tick' = 0 \/ dns_1s_tick' = dns_1s_tick)
    BY <1>5 DEF DnsGiveUp
  <2>4. /\ retry_count' = 0 \/ retry_count' = retry_count
        /\ UNCHANGED <<sec_cnt, RetrySend, sycnPeriod, sinceRequest>>
    BY <1>5 DEF DnsGiveUp
  <2> QED
    BY <2>2, <2>3, <2>4 DEF DnsSpent, Spaced, MaxDnsTime
<1> QED
  BY <1>2, <1>3, <1>4, <1>5 DEF DNS_run

\* SNTP_run: a request puts both counters back.
LEMMA TimesSntp ==
  ASSUME TimesInv, SNTP_run
  PROVE  TimesInv'
<1>1. pc = "loop" /\ UNCHANGED <<pc, retry_count, dnsTime, dns_1s_tick>>
  BY DEF SNTP_run, SntpRest, SntpReceive, SntpSend, SntpOpen, Called, Resync, dns
<1>2. sec_cnt' = 0 /\ (sycnPeriod' = 0 \/ sycnPeriod' = sycnPeriod)
  BY DEF SNTP_run, SntpRest, SntpReceive, SntpSend, SntpOpen, Called, Resync
<1>3. (RetrySend' = 0 /\ sinceRequest' = 0) \/ UNCHANGED <<RetrySend, sinceRequest>>
  BY DEF SNTP_run, SntpRest, SntpReceive, SntpSend, SntpOpen, RetryAfter
<1> QED
  BY <1>1, <1>2, <1>3 DEF TimesInv, DnsCounters, DnsSpent, Spaced

\* Every step.
LEMMA TimesStep == TimesInv /\ [SntpNext]_sntpVars => TimesInv'
<1> SUFFICES ASSUME TimesInv, [SntpNext]_sntpVars PROVE TimesInv'
  OBVIOUS
<1>1. CASE Lose \/ (\E q \in asked : Answer(q)) \/ (\E a \in flight : Deliver(a))
           \/ UNCHANGED sntpVars
  <2>1. UNCHANGED <<pc, retry_count, dnsTime, dns_1s_tick, sec_cnt, RetrySend, sycnPeriod,
                    sinceRequest>>
    BY <1>1 DEF Lose, Answer, Deliver, sntpVars, dns
  <2> QED
    BY <2>1 DEF TimesInv, DnsCounters, DnsSpent, Spaced
<1> QED
  BY <1>1, TimesTick, TimesDns, TimesSntp DEF SntpNext

\* A request is sent only when RetrySend, and so the time since the last one, is long enough.
LEMMA RequestSpaced ==
  ASSUME TimesInv, [SntpNext]_sntpVars
  PROVE  [(sinceRequest' = 0 /\ sinceRequest # 0) => sinceRequest > RETRY_SEND]_sntpVars
<1> SUFFICES ASSUME SntpNext, sinceRequest' = 0, sinceRequest # 0
             PROVE  sinceRequest > RETRY_SEND
  OBVIOUS
<1>1. CASE SntpSend
  BY <1>1 DEF SntpSend, TimesInv, DnsCounters, Spaced
<1>2. CASE Tick
  BY <1>2 DEF Tick, UpTo, TimesInv, DnsCounters
<1>3. CASE ~SntpSend /\ ~Tick
  BY <1>3 DEF SntpNext, DNS_run, DnsStart, DnsReceive, DnsRetry, DnsGiveUp,
              SNTP_run, SntpRest, SntpReceive, SntpOpen, Lose, Answer, Deliver
<1> QED
  BY <1>1, <1>2, <1>3

-----------------------------------------------------------------------------
\* Unless DNS_run timed out, what SNTP_run takes for the time is the answer to a time
\* request, though DNS_run uses the same socket and SNTP_run looks at no source.
THEOREM TimeIsTheServers == SntpSpec => []SetByServer
<1>1. SntpSpec => []SourceInv
  BY SourceInit, SourceStep, PTL DEF SntpSpec
<1>2. SourceInv => SetByServer
  BY DEF SourceInv
<1> QED
  BY <1>1, <1>2, PTL

\* The time DNS_run takes and the counters stay within their bounds.
THEOREM TimesAreBounded == SntpSpec => []TimesInv
  BY TimesInit, TimesStep, PTL DEF SntpSpec

\* Two time requests are more than RETRY_SEND seconds apart, across synchronisations
\* and sockets.
THEOREM RequestsAreSpaced == SntpSpec => RequestsSpaced
  BY TimesAreBounded, RequestSpaced, PTL DEF SntpSpec, RequestsSpaced

-----------------------------------------------------------------------------
(* The types *)

Rest ==
  /\ Len(rx) <= RxCap
  /\ ip \in {"default", "resolved"} /\ gaveUp \in BOOLEAN
  /\ TimeIsSet \in {0, 1} /\ timenow \in {"reset", "server", "junk"}

\* What neither invariant says of the types is kept by each step.
LEMMA RestStep == SourceInv /\ Rest /\ [SntpNext]_sntpVars => Rest'
<1> SUFFICES ASSUME SourceInv, Rest, [SntpNext]_sntpVars PROVE Rest'
  OBVIOUS
<1> USE DEF Rest, net, dns, RxCap
<1>1. CASE UNCHANGED sntpVars \/ Tick \/ Lose
  BY <1>1 DEF sntpVars, Tick, Lose
<1>2. CASE DNS_run
  <2>1. gaveUp' \in BOOLEAN
    BY <1>2 DEF DNS_run, DnsStart, DnsReceive, DnsRetry, DnsGiveUp
  <2> QED
    BY <1>2, <2>1 DEF DNS_run, DnsStart, DnsReceive, DnsRetry, DnsGiveUp
<1>3. CASE SNTP_run
  BY <1>3 DEF SNTP_run, SntpRest, SntpReceive, SntpSend, SntpOpen, Resync
<1>4. ASSUME NEW q \in asked, Answer(q) PROVE Rest'
  BY <1>4 DEF Answer
<1>5. ASSUME NEW a \in flight, Deliver(a) PROVE Rest'
  <2>1. rx' = rx \/ (Len(rx) < RxCap /\ rx' = Append(rx, a.kind))
    BY <1>5 DEF Deliver
  <2>2. Len(rx') <= RxCap
    BY <2>1 DEF SourceInv, Datagrams
  <2> QED
    BY <1>5, <2>2 DEF Deliver
<1> QED
  BY <1>1, <1>2, <1>3, <1>4, <1>5 DEF SntpNext

\* The state of the time client stays in its types, and DNS_run ends within one waiting
\* time more than its retries.
THEOREM SntpIsTyped == SntpSpec => []SntpTypeOK
<1>1. SntpInit => Rest
  <2>1. SntpInit => gaveUp \in BOOLEAN /\ Len(rx) = 0
    BY DEF SntpInit
  <2> QED
    BY <2>1 DEF SntpInit, Rest, RxCap
<1>2. SourceInv /\ TimesInv /\ Rest => SntpTypeOK
  <2> SUFFICES ASSUME SourceInv, TimesInv, Rest PROVE SntpTypeOK
    OBVIOUS
  <2>1. MaxDnsTime \in Nat
    BY Times DEF MaxDnsTime
  <2>2. dnsTime <= MaxDnsTime
    <3>1. CASE pc = "boot"
      BY <2>1, <3>1 DEF TimesInv, DnsSpent
    <3>2. CASE pc = "dns"
      <4>1. retry_count * DNS_WAIT_TIME + DNS_WAIT_TIME <= MaxDnsTime /\ retry_count * DNS_WAIT_TIME \in Nat
        BY Times DEF TimesInv, DnsCounters, MaxDnsTime
      <4> QED
        BY <2>1, <3>2, <4>1 DEF TimesInv, DnsSpent, DnsCounters
    <3>3. CASE pc = "loop"
      BY <3>3 DEF TimesInv, DnsSpent
    <3> QED
      BY <3>1, <3>2, <3>3 DEF TimesInv, DnsSpent
  <2>3. pc \in {"boot", "dns", "loop"} /\ dnsTime \in 0..MaxDnsTime
    BY <2>1, <2>2 DEF TimesInv, DnsSpent, DnsCounters
  <2> QED
    BY <2>3 DEF SourceInv, OwnPort, Datagrams, TimesInv, DnsCounters, Rest, SntpTypeOK
<1>3. SntpSpec => []SourceInv
  BY SourceInit, SourceStep, PTL DEF SntpSpec
<1> QED
  BY <1>1, <1>2, <1>3, RestStep, TimesAreBounded, PTL DEF SntpSpec

-----------------------------------------------------------------------------
(* Pointers and cells *)

\* A value between 0 and B is its own rest, one a B below that is the rest with B added.
LEMMA OwnRest ==
  ASSUME NEW B \in Nat, 0 < B, NEW a \in Int
  PROVE  /\ a % B \in 0..(B - 1)
         /\ 0 <= a /\ a < B => a % B = a
         /\ a < 0 /\ -B <= a => a % B = a + B
  OBVIOUS

\* Every value is a multiple of B from its rest.
LEMMA RestApart ==
  ASSUME NEW B \in Nat, 0 < B, NEW a \in Int
  PROVE  \E k \in Int : a % B = a + k * B
<1>1. a = B * (a \div B) + (a % B) /\ a \div B \in Int /\ a % B \in Int
  OBVIOUS
<1>2. a % B = a + (-(a \div B)) * B
  BY <1>1
<1>3. -(a \div B) \in Int
  BY <1>1
<1> HIDE <1>1
<1> WITNESS -(a \div B) \in Int
<1> QED
  BY <1>2

\* Two rests that a multiple separates are the same.
LEMMA NoMultiple ==
  ASSUME NEW B \in Nat, 0 < B, NEW r \in 0..(B - 1), NEW s \in 0..(B - 1), NEW k \in Int,
         r = s + k * B
  PROVE  r = s
<1>1. CASE k >= 1
  <2>1. k * B >= B
    BY <1>1, Z3
  <2> QED
    BY <2>1
<1>2. CASE k <= -1
  <2>1. k * B <= -B
    BY <1>2, Z3
  <2> QED
    BY <2>1
<1>3. CASE k = 0
  BY <1>3
<1> QED
  BY <1>1, <1>2, <1>3

\* What is a multiple apart has the same rest.
LEMMA SameRest ==
  ASSUME NEW B \in Nat, 0 < B, NEW a \in Int, NEW b \in Int, NEW k \in Int, a = b + k * B
  PROVE  a % B = b % B
<1>1. PICK j \in Int : a % B = a + j * B
  BY RestApart
<1>2. PICK l \in Int : b % B = b + l * B
  BY RestApart
<1>3. a % B = (b % B) + (k + j - l) * B
  <2>1. (k + j - l) * B = k * B + j * B - l * B
    OBVIOUS
  <2> DEFINE x == k * B
             y == j * B
             z == l * B
  <2>2. x \in Int /\ y \in Int /\ z \in Int
    OBVIOUS
  <2>3. a = b + x /\ a % B = a + y /\ b % B = b + z
    BY <1>1, <1>2
  <2> QED
    BY <2>1, <2>2, <2>3
<1>4. a % B \in 0..(B - 1) /\ b % B \in 0..(B - 1)
  BY OwnRest
<1> QED
  BY <1>3, <1>4, NoMultiple

\* The buffer fits in the range of the pointers.
LEMMA BufferFits ==
  /\ RXBUF \in Nat /\ 0 < RXBUF /\ PTR \in Nat /\ 0 < PTR
  /\ 2 * RXBUF <= PTR
<1> USE UdpAssumption
<1>1. PICK m \in 2..PTR : PTR = m * RXBUF
  OBVIOUS
<1>2. m * RXBUF = 2 * RXBUF + (m - 2) * RXBUF /\ (m - 2) * RXBUF >= 0
  BY Z3
<1> QED
  BY <1>1, <1>2

USE BufferFits

\* A cell does not depend on how often the pointer to it went round.
LEMMA SameCell ==
  ASSUME NEW a \in Int, NEW o \in Int
  PROVE  ((a % PTR) + o) % RXBUF = (a + o) % RXBUF
<1>0. RXBUF \in Nat /\ 0 < RXBUF /\ PTR \in Nat /\ 0 < PTR
  BY UdpAssumption
<1>1. PICK m \in 2..PTR : PTR = m * RXBUF
  BY UdpAssumption
<1>2. PICK k \in Int : a % PTR = a + k * PTR
  BY <1>0, RestApart
<1>3. k * PTR = (k * m) * RXBUF /\ k * m \in Int
  BY <1>1, UdpAssumption
<1> DEFINE j == k * m
<1>4. j \in Int /\ (a % PTR) + o = a + o + j * RXBUF /\ (a % PTR) + o \in Int
  BY <1>2, <1>3, UdpAssumption
<1> DEFINE d == (a % PTR) + o
           e == a + o
<1>5. d \in Int /\ e \in Int /\ d = e + j * RXBUF
  BY <1>4
<1> HIDE DEF j, d, e
<1>6. d % RXBUF = e % RXBUF
  BY <1>0, <1>4, <1>5, SameRest
<1> QED
  BY <1>6 DEF d, e

\* How far a cell is from a pointer, where both are counted from another pointer.
LEMMA Distance ==
  ASSUME NEW rd \in Int, NEW o \in Int, NEW t \in Int
  PROVE  (((rd + o) % RXBUF) - ((rd + t) % PTR)) % RXBUF = (o - t) % RXBUF
<1>0. RXBUF \in Nat /\ 0 < RXBUF /\ PTR \in Nat /\ 0 < PTR /\ rd + t \in Int /\ rd + o \in Int
  BY UdpAssumption
<1>1. PICK m \in 2..PTR : PTR = m * RXBUF
  BY UdpAssumption
<1>2. PICK k \in Int : (rd + t) % PTR = rd + t + k * PTR
  BY <1>0, RestApart
<1>3. PICK l \in Int : (rd + o) % RXBUF = rd + o + l * RXBUF
  BY <1>0, RestApart
<1> DEFINE j == l - k * m
<1>4. j * RXBUF = l * RXBUF - k * PTR /\ j \in Int
  BY <1>1, UdpAssumption
<1> DEFINE x == l * RXBUF
           y == k * PTR
<1>5. x \in Int /\ y \in Int
  BY UdpAssumption
<1>6. (rd + t) % PTR = rd + t + y /\ (rd + o) % RXBUF = rd + o + x /\ j * RXBUF = x - y
  BY <1>2, <1>3, <1>4
<1> HIDE DEF j, x, y
<1>7. ((rd + o) % RXBUF) - ((rd + t) % PTR) = (o - t) + j * RXBUF
  BY <1>5, <1>6
<1>8. ((rd + o) % RXBUF) - ((rd + t) % PTR) \in Int
  BY <1>5, <1>6
<1>9. o - t \in Int /\ j \in Int
  BY <1>4
<1> DEFINE d == ((rd + o) % RXBUF) - ((rd + t) % PTR)
           e == o - t
<1>10. d \in Int /\ e \in Int /\ d = e + j * RXBUF
  BY <1>7, <1>8, <1>9
<1> HIDE DEF d, e
<1>11. d % RXBUF = e % RXBUF
  BY <1>0, <1>9, <1>10, SameRest
<1> QED
  BY <1>11 DEF d, e

-----------------------------------------------------------------------------
(* The buffer *)

\* The byte at distance o from Sn_RX_RD.
CellAt(o) == rxMem[(rxRd + o) % RXBUF]

\* The chip stores behind what is not read.
LEMMA StoredBehind ==
  ASSUME NEW t \in Nat, t <= RXBUF, rxRd \in Nat, rxWr = (rxRd + t) % PTR,
         NEW bytes, Len(bytes) \in Nat, t + Len(bytes) <= RXBUF
  PROVE  /\ \A o \in 0..(t - 1) : Stored(rxWr, bytes)[(rxRd + o) % RXBUF] = CellAt(o)
         /\ \A k \in 0..(Len(bytes) - 1) :
              Stored(rxWr, bytes)[(rxRd + (t + k)) % RXBUF] = bytes[1 + k]
<1>0. RXBUF \in Nat /\ 0 < RXBUF /\ t \in Int /\ t <= RXBUF /\ t >= 0
  BY UdpAssumption
<1>1. ASSUME NEW o \in Int PROVE /\ (rxRd + o) % RXBUF \in 0..(RXBUF - 1)
                                /\ (((rxRd + o) % RXBUF) - rxWr) % RXBUF = (o - t) % RXBUF
  <2>1. rxRd \in Int /\ rxRd + o \in Int
    OBVIOUS
  <2>2. (rxRd + o) % RXBUF \in 0..(RXBUF - 1)
    BY <1>0, <2>1, OwnRest
  <2>3. (((rxRd + o) % RXBUF) - ((rxRd + t) % PTR)) % RXBUF = (o - t) % RXBUF
    <3>1. rxRd \in Int /\ o \in Int /\ t \in Int
      BY <1>0, <2>1
    <3> QED
      BY ZenonT(30), <3>1, Distance
  <2> QED
    BY <2>2, <2>3
<1>2. ASSUME NEW o \in 0..(t - 1)
      PROVE  Stored(rxWr, bytes)[(rxRd + o) % RXBUF] = CellAt(o)
  <2>1. o \in Int /\ o - t \in Int /\ o - t < 0 /\ -RXBUF <= o - t
    BY <1>0
  <2>2. (o - t) % RXBUF = o - t + RXBUF
    BY <1>0, <2>1, OwnRest
  <2>3. ~((((rxRd + o) % RXBUF) - rxWr) % RXBUF < Len(bytes))
    BY <1>0, <1>1, <2>1, <2>2
  <2> QED
    BY <1>1, <2>1, <2>3 DEF Stored, CellAt
<1>3. ASSUME NEW k \in 0..(Len(bytes) - 1)
      PROVE  Stored(rxWr, bytes)[(rxRd + (t + k)) % RXBUF] = bytes[1 + k]
  <2> DEFINE o == t + k
             c == (rxRd + o) % RXBUF
  <2>1. o \in Int /\ o - t = k /\ k \in Int /\ 0 <= k /\ k < RXBUF
    BY <1>0
  <2>2. k % RXBUF = k
    BY <1>0, <2>1, OwnRest
  <2>3. c \in 0..(RXBUF - 1) /\ (c - rxWr) % RXBUF = (o - t) % RXBUF
    BY <1>1, <2>1
  <2> HIDE DEF o, c
  <2>4. (c - rxWr) % RXBUF = k /\ k < Len(bytes)
    BY <2>1, <2>2, <2>3
  <2>5. Stored(rxWr, bytes)[c] = bytes[1 + ((c - rxWr) % RXBUF)]
    BY <2>3, <2>4 DEF Stored
  <2> QED
    BY <2>4, <2>5 DEF o, c
<1> QED
  BY <1>2, <1>3

\* When n bytes are read and given back, what is behind them is n bytes nearer.
LEMMA FreedBefore ==
  ASSUME rxRd \in Nat, NEW n \in Nat, n <= RXBUF, rxMem' = Freed(rxRd, n), rxRd' = Plus(rxRd, n),
         NEW o \in Nat, o + n < RXBUF
  PROVE  CellAt(o)' = CellAt(o + n)
<1>0. /\ RXBUF \in Nat /\ 0 < RXBUF /\ PTR \in Nat /\ 0 < PTR /\ n \in Int /\ o \in Int
      /\ o + n \in Int /\ rxRd + n \in Int /\ rxRd + (o + n) \in Int /\ 0 <= o + n
  BY UdpAssumption
<1> DEFINE c == (rxRd + (o + n)) % RXBUF
<1>1. (rxRd' + o) % RXBUF = c
  <2>1. (((rxRd + n) % PTR) + o) % RXBUF = ((rxRd + n) + o) % RXBUF
    BY <1>0, SameCell
  <2>2. (rxRd + n) + o = rxRd + (o + n)
    BY <1>0
  <2> QED
    BY <2>1, <2>2 DEF Plus
<1>2. c \in 0..(RXBUF - 1)
  BY <1>0, OwnRest
<1>3. (c - rxRd) % RXBUF = o + n
  <2>1. PICK l \in Int : c = rxRd + (o + n) + l * RXBUF
    BY <1>0, RestApart
  <2>2. c - rxRd = (o + n) + l * RXBUF /\ c - rxRd \in Int
    BY <1>0, <1>2, <2>1
  <2>3. (c - rxRd) % RXBUF = (o + n) % RXBUF
    <3> DEFINE d == c - rxRd
               e == o + n
    <3>1. d \in Int /\ e \in Int /\ d = e + l * RXBUF
      BY <1>0, <2>2
    <3> HIDE DEF d, e
    <3>2. d % RXBUF = e % RXBUF
      BY <3>1, SameRest
    <3> QED
      BY <3>2 DEF d, e
  <2>4. (o + n) % RXBUF = o + n
    BY <1>0, OwnRest
  <2> QED
    BY <2>3, <2>4
<1>4. CellAt(o)' = rxMem'[c]
  BY <1>1 DEF CellAt
<1>5. CellAt(o + n) = rxMem[c]
  BY DEF CellAt
<1> HIDE DEF c
<1> QED
  BY <1>0, <1>2, <1>3, <1>4, <1>5 DEF Freed

\* Unread is the distance of the two pointers.
LEMMA UnreadIsDistance ==
  ASSUME NEW t \in Nat, t <= RXBUF, rxRd \in Nat, rxWr = (rxRd + t) % PTR
  PROVE  Unread = t
<1>0. PTR \in Nat /\ 0 < PTR /\ t \in Int /\ 0 <= t /\ t < PTR /\ rxRd + t \in Int
  BY UdpAssumption
<1>1. PICK k \in Int : rxWr = rxRd + t + k * PTR
  BY <1>0, RestApart
<1>2. rxWr - rxRd = t + k * PTR /\ rxWr - rxRd \in Int
  BY <1>0, <1>1
<1>3. (rxWr - rxRd) % PTR = t % PTR
  <2> DEFINE d == rxWr - rxRd
  <2>1. d \in Int /\ d = t + k * PTR
    BY <1>2
  <2> HIDE DEF d
  <2>2. d % PTR = t % PTR
    BY <1>0, <2>1, SameRest
  <2> QED
    BY <2>2 DEF d
<1>4. t % PTR = t
  BY <1>0, OwnRest
<1> QED
  BY <1>3, <1>4 DEF Unread

\* A pointer that moves behind another one, and one that it approaches.
LEMMA PointersMove ==
  ASSUME NEW a \in Int, NEW n \in Int, NEW t \in Int
  PROVE  /\ (((a + t) % PTR) + n) % PTR = (a + (t + n)) % PTR
         /\ (((a + n) % PTR) + (t - n)) % PTR = (a + t) % PTR
<1>0. PTR \in Nat /\ 0 < PTR /\ a + t \in Int /\ a + n \in Int
  OBVIOUS
<1>1. PICK k \in Int : (a + t) % PTR = a + t + k * PTR
  BY <1>0, RestApart
<1>2. PICK l \in Int : (a + n) % PTR = a + n + l * PTR
  BY <1>0, RestApart
<1>3. /\ ((a + t) % PTR) + n \in Int /\ ((a + t) % PTR) + n = (a + (t + n)) + k * PTR
      /\ ((a + n) % PTR) + (t - n) \in Int /\ ((a + n) % PTR) + (t - n) = (a + t) + l * PTR
  BY <1>0, <1>1, <1>2
<1> DEFINE d == ((a + t) % PTR) + n
           e == a + (t + n)
           f == ((a + n) % PTR) + (t - n)
           g == a + t
<1>4. d \in Int /\ e \in Int /\ f \in Int /\ g \in Int /\ d = e + k * PTR /\ f = g + l * PTR
  BY <1>3
<1> HIDE DEF d, e, f, g
<1>5. d % PTR = e % PTR /\ f % PTR = g % PTR
  BY <1>0, <1>4, SameRest
<1> QED
  BY <1>5 DEF d, e, f, g

-----------------------------------------------------------------------------
(* The invariant: the buffer from Sn_RX_RD on holds what udpQueue says. *)

N == Len(udpQueue)

\* Between the header and the last byte of a datagram.
Begun == udpPc = "data" \/ sock_remained_size # 0

Datagram == [id : Ids, off : Nat, len : PayloadLens]

SocketTypeInv ==
  /\ rxRd \in 0..(PTR - 1) /\ rxWr \in 0..(PTR - 1)
  /\ nextId \in Ids /\ udpQueue \in Seq(Datagram)
  /\ sock_remained_size \in Nat
  /\ udpPc \in {"idle", "wait", "head", "data"}
  /\ udpPc # "idle" => udpLen \in ReadLens

\* recvfrom looks for a header where no datagram is begun, and takes one that is there.
HeaderThere ==
  /\ udpPc \in {"wait", "head"} => sock_remained_size = 0
  /\ udpPc = "head" => udpQueue # <<>>

\* Only the first datagram is read in part, and what is left of it is remembered.
FirstBegun ==
  /\ Begun => /\ udpQueue # <<>> /\ udpSender = udpQueue[1].id
              /\ sock_remained_size = udpQueue[1].len - udpQueue[1].off
  /\ \A i \in 1..N : i > 1 \/ ~Begun => udpQueue[i].off = 0

\* The header of datagram i is at[i] bytes from Sn_RX_RD, behind it if it is read; the
\* last of at is where the chip writes.
Layout(at) ==
  /\ at[1] = IF Begun THEN -1 - udpQueue[1].off ELSE 0
  /\ \A i \in 1..N : at[i + 1] = at[i] + 1 + udpQueue[i].len
  /\ \A i \in 1..N, j \in 1..(N + 1) : i < j => at[i] + 1 + udpQueue[i].len <= at[j]
  /\ 0 <= at[N + 1] /\ at[N + 1] <= RXBUF
  /\ rxWr = (rxRd + at[N + 1]) % PTR

\* A datagram whose header is at distance p is in the buffer, but for what is read.
Holds(d, p) ==
  /\ p >= 0 => CellAt(p) = HeaderByte(d.id, d.len)
  /\ \A k \in 1..d.len : p + k >= 0 => CellAt(p + k) = DataByte(d.id, k)

Framed == \E at \in [1..(N + 1) -> Int] :
  Layout(at) /\ \A i \in 1..N : Holds(udpQueue[i], at[i])

SocketInv == SocketTypeInv /\ HeaderThere /\ FirstBegun /\ Framed

\* What the invariant speaks of.
shape == <<rxMem, rxWr, rxRd, nextId, sock_remained_size, udpSender, udpQueue>>

\* The invariant holds at power-up.
LEMMA SocketInitInv == UdpInit => SocketInv
<1> SUFFICES ASSUME UdpInit PROVE SocketInv
  OBVIOUS
<1> USE DEF UdpInit
<1>1. N = 0 /\ ~Begun /\ udpQueue \in Seq(Datagram)
  BY DEF N, Begun
<1>2. SocketTypeInv /\ HeaderThere /\ FirstBegun
  BY <1>1, UdpAssumption DEF SocketTypeInv, HeaderThere, FirstBegun, Ids
<1>3. Framed
  <2> DEFINE at == [i \in 1..1 |-> 0]
  <2>1. at \in [1..(N + 1) -> Int] /\ at[1] = 0 /\ at[N + 1] = 0
    BY <1>1
  <2>2. 0 % PTR = 0
    BY OwnRest
  <2>3. Layout(at)
    BY <1>1, <2>1, <2>2, UdpAssumption DEF Layout
  <2> QED
    BY <1>1, <2>1, <2>3 DEF Framed
<1> QED
  BY <1>2, <1>3 DEF SocketInv

\* A socket that is opened or closed has nothing unread.
LEMMA EmptyInv ==
  ASSUME SocketInv, rxWr' = rxRd', rxRd' \in 0..(PTR - 1), udpQueue' = <<>>,
         sock_remained_size' = 0, udpPc' = "idle", nextId' = nextId
  PROVE  SocketInv'
<1>1. N' = 0 /\ ~Begun' /\ udpQueue' \in Seq(Datagram)
  BY DEF N, Begun
<1>2. SocketTypeInv' /\ HeaderThere' /\ FirstBegun'
  BY <1>1 DEF SocketInv, SocketTypeInv, HeaderThere, FirstBegun
<1>3. Framed'
  <2>0. PICK at : at = [i \in 1..1 |-> 0]
    OBVIOUS
  <2>1. at \in [1..(N' + 1) -> Int] /\ at[1] = 0 /\ at[N' + 1] = 0
    BY <1>1, <2>0
  <2>4. (rxRd' + 0) % PTR = rxRd'
    <3>1. PICK p : p = rxRd'
      OBVIOUS
    <3>2. p \in 0..(PTR - 1)
      BY <3>1
    <3>3. (p + 0) % PTR = p
      BY ONLY <3>2, OwnRest, BufferFits
    <3> QED
      BY <3>1, <3>3
  <2>2. \A i \in 1..N' : FALSE
    BY <1>1
  <2>5. rxWr' = (rxRd' + at[N' + 1]) % PTR
    BY <2>1, <2>4
  <2>3. Layout(at)'
    <3>1. at[1] = IF Begun' THEN -1 - udpQueue'[1].off ELSE 0
      BY <1>1, <2>1
    <3>2. 0 <= at[N' + 1] /\ at[N' + 1] <= RXBUF
      BY <2>1
    <3> QED
      BY <2>2, <2>5, <3>1, <3>2 DEF Layout
  <2> QED
    BY <1>1, <2>1, <2>3 DEF Framed
<1> QED
  BY <1>2, <1>3 DEF SocketInv

\* A datagram comes: it is stored behind the others.
LEMMA ComesInv ==
  ASSUME SocketInv, NEW n \in PayloadLens, DatagramComes(n)
  PROVE  SocketInv'
<1> DEFINE bytes == <<HeaderByte(nextId, n)>> \o [k \in 1..n |-> DataByte(nextId, k)]
<1>0. PICK new : new = [id |-> nextId, off |-> 0, len |-> n]
  OBVIOUS
<1> HIDE DEF bytes
<1>1. /\ rxMem' = Stored(rxWr, bytes) /\ rxWr' = Plus(rxWr, n + 1)
      /\ udpQueue' = Append(udpQueue, new) /\ Unread + n + 1 <= RXBUF
      /\ UNCHANGED <<rxRd, sock_remained_size, udpPc, udpLen, udpSender>>
  BY <1>0 DEF DatagramComes, bytes
<1>2. new \in Datagram /\ nextId' \in Ids /\ n \in Nat
  BY <1>0, UdpAssumption DEF DatagramComes, SocketInv, SocketTypeInv, Datagram, Ids
<1>3. /\ udpQueue \in Seq(Datagram) /\ N \in Nat
      /\ udpQueue' \in Seq(Datagram) /\ N' = N + 1 /\ udpQueue'[N + 1] = new
      /\ \A i \in 1..N : udpQueue'[i] = udpQueue[i]
  BY <1>1, <1>2, AppendProperties DEF SocketInv, SocketTypeInv, N
<1>4. Begun' = Begun /\ (udpQueue # <<>> => N >= 1 /\ udpQueue' # <<>> /\ udpQueue'[1] = udpQueue[1])
  BY <1>1, <1>3, EmptySeq DEF Begun, N
<1>5. SocketTypeInv'
  <2>0. rxWr + (n + 1) \in Int
    BY <1>2 DEF SocketInv, SocketTypeInv
  <2>1. (rxWr + (n + 1)) % PTR \in 0..(PTR - 1)
    <3> DEFINE x == rxWr + (n + 1)
    <3> HIDE DEF x
    <3> QED
      BY <2>0, OwnRest DEF x
  <2>2. rxWr' \in 0..(PTR - 1)
    BY <1>1, <2>1 DEF Plus
  <2> QED
    BY <1>1, <1>2, <1>3, <2>2 DEF SocketInv, SocketTypeInv
<1>6. HeaderThere' /\ FirstBegun'
  <2>1. HeaderThere'
    BY <1>1, <1>4 DEF SocketInv, HeaderThere
  <2>2. ASSUME NEW i \in 1..N', i > 1 \/ ~Begun' PROVE udpQueue'[i].off = 0
    <3>1. CASE i \in 1..N
      BY <1>3, <1>4, <2>2, <3>1 DEF SocketInv, FirstBegun
    <3>2. CASE i = N + 1
      BY <1>0, <1>3, <3>2
    <3> QED
      BY <1>3, <3>1, <3>2
  <2> QED
    BY <1>1, <1>4, <2>1, <2>2 DEF SocketInv, FirstBegun
<1>7. Framed'
  <2>9. PICK at \in [1..(N + 1) -> Int] :
           Layout(at) /\ \A i \in 1..N : Holds(udpQueue[i], at[i])
    BY DEF SocketInv, Framed
  <2>10. PICK t : t = at[N + 1]
    OBVIOUS
  <2>1. t \in Nat /\ t <= RXBUF /\ rxRd \in Nat /\ rxWr = (rxRd + t) % PTR
    <3>1. 0 <= t /\ t <= RXBUF /\ rxWr = (rxRd + t) % PTR
      BY <2>9, <2>10 DEF Layout
    <3>2. N + 1 \in 1..(N + 1)
      BY <1>3
    <3>3. t \in Int
      BY <2>9, <2>10, <3>2
    <3>4. rxRd \in Nat
      BY DEF SocketInv, SocketTypeInv
    <3> QED
      BY <3>1, <3>3, <3>4
  <2>0. Unread = t /\ RXBUF \in Nat
    BY <2>1, UnreadIsDistance, UdpAssumption
  <2>8. \A i \in 1..N : udpQueue[i].len \in Nat
    <3>1. \A i \in 1..N : udpQueue[i] \in Datagram
      BY <1>3, ElementOfSeq DEF N
    <3> QED
      BY <3>1, UdpAssumption DEF Datagram
  <2>2. /\ Len(bytes) = n + 1 /\ Len(bytes) \in Nat /\ bytes[1] = HeaderByte(nextId, n)
        /\ \A k \in 1..n : bytes[1 + k] = DataByte(nextId, k)
    BY <1>2 DEF bytes
  <2>3. t + Len(bytes) <= RXBUF /\ t + n + 1 <= RXBUF
    <3>1. Unread \in Int /\ Unread = t /\ Unread + n + 1 <= RXBUF
      BY <1>1, <2>0, <2>1
    <3>2. t + n + 1 <= RXBUF /\ t + (n + 1) = t + n + 1
      BY <1>2, <2>1, <3>1
    <3> QED
      BY <2>2, <3>2
  <2>4. /\ \A o \in 0..(t - 1) : CellAt(o)' = CellAt(o)
        /\ \A k \in 0..n : CellAt(t + k)' = bytes[1 + k]
    <3>2. t + Len(bytes) <= RXBUF /\ Len(bytes) \in Nat /\ t <= RXBUF
      BY <2>1, <2>2, <2>3
    <3>0. PICK b : b = bytes
      OBVIOUS
    <3>3. t + Len(b) <= RXBUF /\ Len(b) \in Nat
      BY <3>0, <3>2
    <3>6. /\ t \in Nat /\ t <= RXBUF /\ rxRd \in Nat /\ rxWr = (rxRd + t) % PTR
          /\ Len(b) \in Nat /\ t + Len(b) <= RXBUF
      BY <2>1, <3>3
    <3>7. /\ \A o \in 0..(t - 1) : Stored(rxWr, b)[(rxRd + o) % RXBUF] = CellAt(o)
          /\ \A k \in 0..(Len(b) - 1) : Stored(rxWr, b)[(rxRd + (t + k)) % RXBUF] = b[1 + k]
      BY <3>6, StoredBehind DEF Stored, CellAt
    <3>4. ASSUME NEW o \in 0..(t - 1)
          PROVE  Stored(rxWr, b)[(rxRd + o) % RXBUF] = CellAt(o)
      BY <3>7
    <3>5. ASSUME NEW k \in 0..(Len(b) - 1)
          PROVE  Stored(rxWr, b)[(rxRd + (t + k)) % RXBUF] = b[1 + k]
      BY <3>7
    <3> QED
      BY <1>1, <1>2, <2>2, <3>0, <3>4, <3>5 DEF CellAt
  <2>11. PICK to : to = [i \in 1..(N + 2) |-> IF i = N + 2 THEN t + n + 1 ELSE at[i]]
    OBVIOUS
  <2>5. /\ to \in [1..(N' + 1) -> Int] /\ to[N' + 1] = t + n + 1 /\ to[N + 1] = t
        /\ \A i \in 1..(N + 1) : to[i] = at[i] /\ at[i] \in Int
    <3>4. \A i \in 1..(N + 1) : at[i] \in Int
      BY <2>9
    <3>1. /\ N \in Nat /\ N' + 1 = N + 2 /\ t + n + 1 \in Int
          /\ \A i \in 1..(N + 1) : at[i] \in Int
      BY <1>2, <1>3, <2>1, <3>4
    <3>2. PICK M : M = N
      OBVIOUS
    <3>3. /\ to \in [1..(M + 2) -> Int] /\ to[M + 2] = t + n + 1 /\ to[M + 1] = t
          /\ \A i \in 1..(M + 1) : to[i] = at[i] /\ at[i] \in Int
      BY <2>10, <2>11, <3>1, <3>2
    <3> QED
      BY <3>1, <3>2, <3>3
  <2>6. Layout(to)'
    <3>1. to[1] = IF Begun' THEN -1 - udpQueue'[1].off ELSE 0
      BY SMTT(30), <1>3, <1>4, <2>5, <2>9 DEF Layout, SocketInv, FirstBegun
    <3>2. \A i \in 1..N' : to[i + 1] = to[i] + 1 + udpQueue'[i].len
      <4> SUFFICES ASSUME NEW i \in 1..N' PROVE to[i + 1] = to[i] + 1 + udpQueue'[i].len
        OBVIOUS
      <4>1. CASE i \in 1..N
        <5>1. at[i + 1] = at[i] + 1 + udpQueue[i].len
          BY <2>9, <4>1 DEF Layout
        <5>2. to[i + 1] = at[i + 1] /\ to[i] = at[i] /\ udpQueue'[i] = udpQueue[i]
          BY SMTT(30), <1>3, <2>5, <4>1
        <5> QED
          BY <5>1, <5>2
      <4>2. CASE i = N + 1
        <5>1. udpQueue'[i].len = n /\ to[i] = t /\ to[i + 1] = t + n + 1
          BY <1>0, <1>3, <2>5, <4>2
        <5> QED
          BY <1>2, <2>1, <5>1
      <4> QED
        BY <1>3, <4>1, <4>2
    <3>3. \A i \in 1..N', j \in 1..(N' + 1) : i < j => to[i] + 1 + udpQueue'[i].len <= to[j]
      <4> SUFFICES ASSUME NEW i \in 1..N', NEW j \in 1..(N' + 1), i < j
                   PROVE  to[i] + 1 + udpQueue'[i].len <= to[j]
        OBVIOUS
      <4>1. CASE j \in 1..(N + 1)
        <5>1. i \in 1..N
          BY <1>3, <4>1
        <5>2. at[i] + 1 + udpQueue[i].len <= at[j]
          BY <2>9, <4>1, <5>1 DEF Layout
        <5>3. to[j] = at[j] /\ to[i] = at[i] /\ udpQueue'[i] = udpQueue[i]
          BY <1>3, <2>5, <4>1, <5>1
        <5> QED
          BY <5>2, <5>3
      <4>2. CASE j = N + 2 /\ i \in 1..N
        <5>1. at[i] + 1 + udpQueue[i].len <= t /\ udpQueue'[i] = udpQueue[i] /\ to[i] = at[i]
          BY SMTT(30), <1>3, <2>5, <2>8, <2>9, <2>10, <4>2 DEF Layout
        <5>2. udpQueue[i].len \in Nat /\ at[i] \in Int
          BY <1>3, <2>5, <2>8, <4>2
        <5> QED
          BY SMTT(30), <1>2, <1>3, <2>1, <2>5, <4>2, <5>1, <5>2
      <4>3. CASE j = N + 2 /\ i = N + 1
        BY SMTT(30), <1>0, <1>2, <1>3, <2>1, <2>5, <4>3
      <4> QED
        BY <1>3, <4>1, <4>2, <4>3
    <3>4. to[N' + 1] \in 0..RXBUF
      BY <1>2, <2>1, <2>3, <2>5, UdpAssumption
    <3>5. rxWr' = (rxRd' + to[N' + 1]) % PTR
      <4>1. (((rxRd + t) % PTR) + (n + 1)) % PTR = (rxRd + (t + (n + 1))) % PTR
        <5>1. n + 1 \in Int /\ rxRd \in Int /\ t \in Int
          BY <1>2, <2>1
        <5> QED
          BY ZenonT(30), <5>1, PointersMove
      <4>2. t + (n + 1) = t + n + 1
        BY <1>2, <2>1
      <4> QED
        BY <1>1, <2>1, <2>5, <4>1, <4>2 DEF Plus
    <3> QED
      BY <3>1, <3>2, <3>3, <3>4, <3>5 DEF Layout
  <2>7. ASSUME NEW i \in 1..N' PROVE Holds(udpQueue[i], to[i])'
    <3>1. CASE i \in 1..N
      <4>1. /\ udpQueue'[i] = udpQueue[i] /\ to[i] = at[i] /\ at[i] \in Int
            /\ Holds(udpQueue[i], at[i]) /\ at[i] + 1 + udpQueue[i].len <= t
        BY SMTT(30), <1>3, <2>5, <2>8, <2>9, <2>10, <3>1 DEF Layout
      <4>2. udpQueue[i].len \in Nat
        BY <2>8, <3>1
      <4>3. ASSUME NEW k \in 0..udpQueue[i].len, at[i] + k >= 0
            PROVE  CellAt(at[i] + k)' = CellAt(at[i] + k)
        <5>1. at[i] + k \in 0..(t - 1)
          BY SMTT(30), <2>1, <4>1, <4>2, <4>3
        <5> QED
          BY <2>4, <5>1
      <4>4. at[i] >= 0 => CellAt(at[i])' = CellAt(at[i])
        <5>1. at[i] + 0 = at[i] /\ 0 \in 0..udpQueue[i].len
          BY <4>1, <4>2
        <5> QED
          BY <4>3, <5>1
      <4> QED
        BY <4>1, <4>2, <4>3, <4>4 DEF Holds
    <3>2. CASE i = N + 1
      <4>1. udpQueue'[i] = new /\ to[i] = t
        BY <1>0, <1>3, <2>5, <3>2
      <4>2. CellAt(t)' = HeaderByte(nextId, n)
        <5>1. t + 0 = t /\ 1 + 0 = 1 /\ 0 \in 0..n
          BY <1>2, <2>1
        <5> QED
          BY <2>2, <2>4, <5>1
      <4>3. ASSUME NEW k \in 1..n PROVE CellAt(t + k)' = DataByte(nextId, k)
        <5>1. k \in 0..n
          BY <1>2
        <5> QED
          BY <2>2, <2>4, <5>1
      <4> QED
        BY <1>0, <4>1, <4>2, <4>3 DEF Holds
    <3> QED
      BY <1>3, <3>1, <3>2
  <2> QED
    BY <2>5, <2>6, <2>7 DEF Framed
<1> QED
  BY <1>5, <1>6, <1>7 DEF SocketInv

\* The types of the queue.
LEMMA QueueTypes ==
  ASSUME SocketInv
  PROVE  /\ N \in Nat /\ (udpQueue # <<>> => 1 \in 1..N /\ N >= 1)
         /\ \A i \in 1..N : /\ udpQueue[i] \in Datagram /\ udpQueue[i].id \in Ids
                           /\ udpQueue[i].off \in Nat
                           /\ udpQueue[i].len \in PayloadLens /\ udpQueue[i].len \in Nat
<1>1. udpQueue \in Seq(Datagram) /\ N \in Nat
  BY DEF SocketInv, SocketTypeInv, N
<1>2. udpQueue # <<>> => 1 \in 1..N /\ N >= 1
  BY <1>1, EmptySeq DEF N
<1>3. \A i \in 1..N : udpQueue[i] \in Datagram
  BY <1>1, ElementOfSeq DEF N
<1> QED
  BY <1>1, <1>2, <1>3, UdpAssumption DEF Datagram

\* Where neither the buffer nor the queue changes, nor what is begun.
LEMMA FramedKept ==
  ASSUME Framed, UNCHANGED <<rxMem, rxRd, rxWr, udpQueue>>, Begun' = Begun
  PROVE  Framed'
<1>1. PICK at \in [1..(N + 1) -> Int] : Layout(at) /\ \A i \in 1..N : Holds(udpQueue[i], at[i])
  BY DEF Framed
<1>2. N' = N
  BY DEF N
<1>3. Layout(at)'
  BY <1>1, <1>2 DEF Layout
<1>4. \A i \in 1..N : Holds(udpQueue[i], at[i])'
  BY <1>1 DEF Holds, CellAt
<1> QED
  BY <1>2, <1>3, <1>4 DEF Framed

\* A datagram is there when n bytes before it are read.
LEMMA HoldsNearer ==
  ASSUME rxRd \in Nat, NEW n \in Nat, n <= RXBUF, rxMem' = Freed(rxRd, n), rxRd' = Plus(rxRd, n),
         NEW d, NEW e, e.id = d.id, e.len = d.len, d.len \in Nat,
         NEW p \in Int, p + 1 + d.len <= RXBUF, Holds(d, p)
  PROVE  Holds(e, p - n)'
<1>1. ASSUME NEW k \in 0..d.len, (p - n) + k >= 0
      PROVE  CellAt((p - n) + k)' = CellAt(p + k) /\ p + k >= 0
  <2> DEFINE o == (p - n) + k
  <2>1. o \in Nat /\ o + n = p + k /\ o + n < RXBUF
    BY <1>1
  <2> HIDE DEF o
  <2>2. CellAt(o)' = CellAt(o + n)
    BY <2>1, FreedBefore
  <2> QED
    BY <2>1, <2>2 DEF o
<1>2. p - n >= 0 => CellAt(p - n)' = CellAt(p) /\ p >= 0
  <2>1. (p - n) + 0 = p - n /\ p + 0 = p /\ 0 \in 0..d.len
    OBVIOUS
  <2> QED
    BY <1>1, <2>1
<1>3. p - n >= 0 => CellAt(p - n)' = HeaderByte(e.id, e.len)
  BY <1>2 DEF Holds
<1>4. ASSUME NEW k \in 1..e.len, (p - n) + k >= 0
      PROVE  CellAt((p - n) + k)' = DataByte(e.id, k)
  <2>1. k \in 0..d.len /\ k \in 1..d.len
    OBVIOUS
  <2> QED
    BY <1>1, <1>4, <2>1 DEF Holds
<1> QED
  BY <1>3, <1>4 DEF Holds

\* recvfrom is called.
LEMMA CallInv ==
  ASSUME SocketInv, NEW n \in ReadLens, CallRecvfrom(n)
  PROVE  SocketInv'
<1>1. Begun' = Begun /\ N' = N
  BY DEF CallRecvfrom, Begun, N
<1>2. Framed'
  BY <1>1, FramedKept DEF CallRecvfrom, SocketInv
<1> QED
  BY <1>1, <1>2 DEF CallRecvfrom, SocketInv, SocketTypeInv, HeaderThere, FirstBegun

\* The wait ends: as nothing is begun, what is unread begins with a header.
LEMMA WaitInv ==
  ASSUME SocketInv, WaitDatagram
  PROVE  SocketInv'
<1>1. Begun' = Begun /\ ~Begun /\ N' = N
  BY DEF WaitDatagram, Begun, N, SocketInv, HeaderThere
<1>2. Framed'
  BY <1>1, FramedKept DEF WaitDatagram, SocketInv
<1>3. udpQueue # <<>>
  <2> SUFFICES ASSUME udpQueue = <<>> PROVE FALSE
    OBVIOUS
  <2>1. PICK at \in [1..(N + 1) -> Int] : Layout(at)
    BY DEF SocketInv, Framed
  <2>2. N = 0 /\ at[1] = 0
    BY <1>1, <2>1 DEF Layout, N
  <2>3. rxRd \in Nat /\ rxWr = (rxRd + 0) % PTR
    BY <2>1, <2>2 DEF Layout, SocketInv, SocketTypeInv
  <2>4. Unread = 0
    BY <2>3, UnreadIsDistance
  <2> QED
    BY <2>4 DEF WaitDatagram
<1> QED
  BY <1>1, <1>2, <1>3 DEF WaitDatagram, SocketInv, SocketTypeInv, HeaderThere, FirstBegun

\* The header is read: it is the one of the first datagram.
LEMMA HeaderInv ==
  ASSUME SocketInv, TakeHeader
  PROVE  SocketInv'
<1>1. /\ udpPc = "head" /\ udpPc' = "data" /\ udpQueue # <<>> /\ ~Begun /\ Begun' /\ N' = N
      /\ UNCHANGED <<rxWr, nextId, udpQueue, udpLen>>
      /\ rxMem' = Freed(rxRd, 1) /\ rxRd' = Plus(rxRd, 1)
  BY DEF TakeHeader, SocketInv, HeaderThere, Begun, N
<1>2. PICK at \in [1..(N + 1) -> Int] :
          Layout(at) /\ \A i \in 1..N : Holds(udpQueue[i], at[i])
  BY DEF SocketInv, Framed
<1>3. PICK d : d = udpQueue[1]
  OBVIOUS
<1>4. PICK t : t = at[N + 1]
  OBVIOUS
<1>5. /\ N \in Nat /\ N >= 1 /\ d.off = 0 /\ d.len \in Nat /\ rxRd \in Nat
      /\ \A i \in 1..N : udpQueue[i].len \in Nat
  BY <1>1, <1>3, QueueTypes DEF SocketInv, FirstBegun, SocketTypeInv
<1>6. /\ at[1] = 0 /\ t \in Int /\ 1 <= t /\ t <= RXBUF /\ rxWr = (rxRd + t) % PTR
      /\ \A i \in 1..(N + 1) : at[i] \in Int
  <2>1. at[1] + 1 + d.len <= t
    <3>1. 1 \in 1..N /\ N + 1 \in 1..(N + 1) /\ 1 < N + 1
      BY <1>5
    <3>2. \A i \in 1..N, j \in 1..(N + 1) : i < j => at[i] + 1 + udpQueue[i].len <= at[j]
      BY <1>2 DEF Layout
    <3>3. at[1] + 1 + udpQueue[1].len <= at[N + 1]
      BY <3>1, <3>2
    <3> QED
      BY <1>3, <1>4, <3>3
  <2>2. at[1] = 0 /\ \A i \in 1..(N + 1) : at[i] \in Int
    BY <1>1, <1>2, <1>5 DEF Layout
  <2>3. t \in Int /\ t <= RXBUF /\ rxWr = (rxRd + t) % PTR
    BY <1>2, <1>4, <1>5, <2>2 DEF Layout
  <2> QED
    BY <1>5, <2>1, <2>2, <2>3
<1>7. sock_remained_size' = d.len /\ udpSender' = d.id
  <2>1. CellAt(0) = HeaderByte(d.id, d.len)
    <3>1. 1 \in 1..N
      BY <1>5
    <3>2. Holds(d, 0)
      BY <1>2, <1>3, <1>6, <3>1
    <3> QED
      BY <3>2 DEF Holds
  <2>2. Cell(rxRd) = CellAt(0)
    BY <1>5 DEF Cell, CellAt
  <2> QED
    BY <2>1, <2>2 DEF TakeHeader, HeaderByte
<1>8. SocketTypeInv'
  <2>1. rxRd' \in 0..(PTR - 1)
    <3>1. rxRd + 1 \in Int
      BY <1>5
    <3>2. (rxRd + 1) % PTR \in 0..(PTR - 1)
      BY <3>1, OwnRest
    <3> QED
      BY <1>1, <3>2 DEF Plus
  <2> QED
    BY <1>1, <1>5, <1>7, <2>1 DEF SocketInv, SocketTypeInv
<1>9. HeaderThere'
  BY <1>1 DEF HeaderThere
<1>10. FirstBegun'
  <2>1. d.len = d.len - d.off
    BY <1>5
  <2> QED
    BY <1>1, <1>3, <1>7, <2>1 DEF FirstBegun, SocketInv
<1>11. Framed'
  <2>1. PICK to : to = [i \in 1..(N + 1) |-> at[i] - 1]
    OBVIOUS
  <2>2. to \in [1..(N' + 1) -> Int] /\ \A i \in 1..(N + 1) : to[i] = at[i] - 1
    BY <1>1, <1>6, <2>1
  <2>3. Layout(to)'
    <3>1. to[1] = -1 - d.off
      BY <1>5, <1>6, <2>2
    <3>2. ASSUME NEW i \in 1..N PROVE to[i + 1] = to[i] + 1 + udpQueue[i].len
      <4>1. at[i + 1] = at[i] + 1 + udpQueue[i].len
        BY <1>2 DEF Layout
      <4> QED
        BY SMTT(30), <1>5, <1>6, <2>2, <4>1
    <3>3. ASSUME NEW i \in 1..N, NEW j \in 1..(N + 1), i < j
          PROVE  to[i] + 1 + udpQueue[i].len <= to[j]
      <4>1. at[i] + 1 + udpQueue[i].len <= at[j]
        BY <1>2, <3>3 DEF Layout
      <4> QED
        BY SMTT(30), <1>5, <1>6, <2>2, <4>1
    <3>4. to[N + 1] = t - 1 /\ 0 <= to[N + 1] /\ to[N + 1] <= RXBUF
      BY SMTT(30), <1>4, <1>5, <1>6, <2>2
    <3>5. rxWr = (rxRd' + to[N + 1]) % PTR
      <4>1. (((rxRd + 1) % PTR) + (t - 1)) % PTR = (rxRd + t) % PTR
        <5>1. rxRd \in Int /\ t \in Int /\ 1 \in Int
          BY <1>5, <1>6
        <5> QED
          BY <5>1, PointersMove
      <4> QED
        BY <1>1, <1>6, <3>4, <4>1 DEF Plus
    <3> QED
      BY <1>1, <1>3, <3>1, <3>2, <3>3, <3>4, <3>5 DEF Layout
  <2>4. ASSUME NEW i \in 1..N PROVE Holds(udpQueue[i], to[i])'
    <3>1. PICK e : e = udpQueue[i]
      OBVIOUS
    <3>2. PICK p : p = at[i]
      OBVIOUS
    <3>3. p \in Int /\ e.len \in Nat /\ Holds(e, p) /\ p + 1 + e.len <= RXBUF
      <4>1. at[i] + 1 + udpQueue[i].len <= t
        BY <1>2, <1>4, <1>5 DEF Layout
      <4>2. /\ at[i] \in Int /\ udpQueue[i].len \in Nat /\ Holds(udpQueue[i], at[i])
            /\ at[i] + 1 + udpQueue[i].len <= RXBUF
        BY SMTT(30), <1>2, <1>5, <1>6, <4>1
      <4> QED
        BY <3>1, <3>2, <4>2
    <3>4. Holds(e, p - 1)'
      BY <1>1, <1>5, <1>6, <3>3, HoldsNearer
    <3>5. udpQueue'[i] = e /\ to[i] = p - 1
      BY <1>1, <1>5, <2>2, <3>1, <3>2
    <3> QED
      BY <3>4, <3>5 DEF Holds
  <2> QED
    BY <1>1, <2>2, <2>3, <2>4 DEF Framed
<1> QED
  BY <1>8, <1>9, <1>10, <1>11 DEF SocketInv

\* What recvfrom reads of a datagram that is begun.
Part == Smaller(udpLen, sock_remained_size)

\* It is at the beginning of what is unread.
LEMMA PartThere ==
  ASSUME SocketInv, udpPc = "data",
         NEW at \in [1..(N + 1) -> Int], Layout(at), NEW d, d = udpQueue[1]
  PROVE  /\ udpQueue # <<>> /\ N \in Nat /\ N >= 1 /\ d.off \in Nat /\ d.len \in Nat
         /\ udpLen \in ReadLens /\ Part \in Nat /\ Part <= sock_remained_size
         /\ sock_remained_size \in Nat /\ sock_remained_size = d.len - d.off
         /\ udpSender = d.id /\ at[1] = -1 - d.off
         /\ at[N + 1] \in Int /\ Part <= at[N + 1] /\ at[N + 1] <= RXBUF
<1>1. Begun
  BY DEF Begun
<1>2. /\ udpQueue # <<>> /\ N \in Nat /\ N >= 1 /\ d.off \in Nat /\ d.len \in Nat
      /\ udpLen \in ReadLens /\ udpLen \in Nat /\ sock_remained_size \in Nat
  BY <1>1, QueueTypes, UdpAssumption DEF SocketInv, SocketTypeInv, FirstBegun
<1>3. Part \in Nat /\ Part <= sock_remained_size
  BY <1>2 DEF Part, Smaller
<1>4. sock_remained_size = d.len - d.off /\ udpSender = d.id /\ at[1] = -1 - d.off
  BY <1>1 DEF SocketInv, FirstBegun, Layout
<1>5. at[1] + 1 + d.len <= at[N + 1] /\ at[N + 1] <= RXBUF /\ at[N + 1] \in Int
  BY <1>2 DEF Layout
<1>6. sock_remained_size <= at[N + 1]
  BY SMTT(30), <1>2, <1>4, <1>5
<1> QED
  BY <1>2, <1>3, <1>4, <1>5, <1>6

\* The data that recvfrom gives are the next bytes of the first datagram.
LEMMA DataAreNext ==
  ASSUME SocketInv, udpPc = "data", NEW k \in 1..Part
  PROVE  Cell(Plus(rxRd, k - 1)) = DataByte(udpQueue[1].id, udpQueue[1].off + k)
<1>1. PICK at \in [1..(N + 1) -> Int] :
          Layout(at) /\ \A i \in 1..N : Holds(udpQueue[i], at[i])
  BY DEF SocketInv, Framed
<1>2. PICK d : d = udpQueue[1]
  OBVIOUS
<1>3. PICK p : p = Part
  OBVIOUS
<1>4. /\ N \in Nat /\ N >= 1 /\ d.off \in Nat /\ d.len \in Nat /\ p \in Nat
      /\ p <= d.len - d.off /\ at[1] = -1 - d.off /\ k \in 1..p
  <2>1. /\ N \in Nat /\ N >= 1 /\ d.off \in Nat /\ d.len \in Nat /\ Part \in Nat
        /\ Part <= sock_remained_size /\ sock_remained_size = d.len - d.off
        /\ at[1] = -1 - d.off
    BY <1>1, <1>2, PartThere
  <2> QED
    BY <1>3, <2>1
<1>5. d.off + k \in 1..d.len /\ (-1 - d.off) + (d.off + k) = k - 1 /\ k - 1 >= 0
  <2>1. PICK o, l : o = d.off /\ l = d.len
    OBVIOUS
  <2>2. o \in Nat /\ l \in Nat /\ p \in Nat /\ p <= l - o /\ k \in Nat /\ 1 <= k /\ k <= p
    BY <1>4, <2>1
  <2>3. o + k \in 1..l /\ (-1 - o) + (o + k) = k - 1 /\ k - 1 >= 0
    BY <2>2
  <2> QED
    BY <2>1, <2>3
<1>6. Holds(d, -1 - d.off)
  BY <1>1, <1>2, <1>4
<1>7. CellAt(k - 1) = DataByte(d.id, d.off + k)
  BY <1>5, <1>6 DEF Holds
<1>8. Cell(Plus(rxRd, k - 1)) = CellAt(k - 1)
  <2> DEFINE a == rxRd + (k - 1)
  <2>1. a \in Int
    BY <1>4 DEF SocketInv, SocketTypeInv
  <2> HIDE DEF a
  <2>2. (a % PTR) + 0 \in Int /\ a % PTR \in Int /\ (a % PTR) + 0 = a % PTR /\ a + 0 = a
    BY <2>1
  <2>3. ((a % PTR) + 0) % RXBUF = (a + 0) % RXBUF
    <3>1. PICK z \in Int : z = 0
      OBVIOUS
    <3>2. ((a % PTR) + z) % RXBUF = (a + z) % RXBUF
      BY <2>1, SameCell
    <3> QED
      BY <3>1, <3>2
  <2>4. (a % PTR) % RXBUF = a % RXBUF
    BY <2>2, <2>3
  <2> QED
    BY <2>4 DEF a, Cell, Plus, CellAt
<1> QED
  BY <1>2, <1>7, <1>8

\* Data are read: the datagram goes on behind them, or the next one follows.
LEMMA DataInv ==
  ASSUME SocketInv, TakeData
  PROVE  SocketInv'
<1>1. PICK at \in [1..(N + 1) -> Int] :
          Layout(at) /\ \A i \in 1..N : Holds(udpQueue[i], at[i])
  BY DEF SocketInv, Framed
<1>2. PICK d : d = udpQueue[1]
  OBVIOUS
<1>3. PICK n : n = Part
  OBVIOUS
<1>4. PICK t : t = at[N + 1]
  OBVIOUS
<1>5. /\ udpPc = "data" /\ udpPc' = "idle" /\ UNCHANGED <<rxWr, nextId, udpSender>>
      /\ rxRd' = Plus(rxRd, n) /\ rxMem' = Freed(rxRd, n) /\ udpQueue' = Advanced(n)
      /\ sock_remained_size' = sock_remained_size - n
  BY <1>3 DEF TakeData, Part
<1>6. /\ udpQueue # <<>> /\ N \in Nat /\ N >= 1 /\ d.off \in Nat /\ d.len \in Nat
      /\ n \in Nat /\ n <= sock_remained_size
      /\ sock_remained_size \in Nat /\ sock_remained_size = d.len - d.off
      /\ udpSender = d.id /\ at[1] = -1 - d.off
      /\ t \in Int /\ n <= t /\ t <= RXBUF
  BY <1>1, <1>2, <1>3, <1>4, <1>5, PartThere
<1>14. n \in Nat /\ t \in Int /\ t <= RXBUF
  BY <1>6
<1>7. /\ udpQueue \in Seq(Datagram) /\ rxRd \in Nat
      /\ \A i \in 1..N : udpQueue[i].len \in Nat
      /\ \A i \in 1..(N + 1) : at[i] \in Int
      /\ \A i \in 1..N : i > 1 => udpQueue[i].off = 0
  <2>1. udpQueue \in Seq(Datagram) /\ rxRd \in Nat
    BY DEF SocketInv, SocketTypeInv
  <2>2. \A i \in 1..N : udpQueue[i].len \in Nat
    BY QueueTypes
  <2>3. \A i \in 1..(N + 1) : at[i] \in Int
    OBVIOUS
  <2>4. \A i \in 1..N : i > 1 => udpQueue[i].off = 0
    BY DEF SocketInv, FirstBegun
  <2> QED
    BY <2>1, <2>2, <2>3, <2>4
<1>8. rxWr = (rxRd' + (t - n)) % PTR /\ rxRd' \in 0..(PTR - 1)
  <2>1. rxRd \in Int /\ n \in Int /\ t \in Int /\ rxRd + n \in Int
    BY <1>6, <1>7
  <2>2. (((rxRd + n) % PTR) + (t - n)) % PTR = (rxRd + t) % PTR
    BY ZenonT(30), <2>1, PointersMove
  <2>3. (rxRd + n) % PTR \in 0..(PTR - 1)
    BY <2>1, OwnRest
  <2> QED
    BY <1>1, <1>4, <1>5, <2>2, <2>3 DEF Plus, Layout
<1>9. Begun' <=> n # sock_remained_size
  BY <1>5, <1>6 DEF Begun
<1>10. Head(udpQueue) = d
  BY <1>2, <1>6, <1>7, HeadTailProperties
\* A datagram at i, and where it comes to be.
<1>11. ASSUME NEW i \in 1..N, NEW e, e.id = udpQueue[i].id, e.len = udpQueue[i].len
       PROVE  Holds(e, at[i] - n)'
  <2>1. PICK c : c = udpQueue[i]
    OBVIOUS
  <2>2. PICK p : p = at[i]
    OBVIOUS
  <2>3. /\ at[i] + 1 + udpQueue[i].len <= t /\ at[i] \in Int /\ udpQueue[i].len \in Nat
        /\ Holds(udpQueue[i], at[i])
    <3>1. i \in 1..(N + 1) /\ N + 1 \in 1..(N + 1) /\ i < N + 1
      BY <1>6
    <3>2. at[i] + 1 + udpQueue[i].len <= at[N + 1]
      BY <1>1, <3>1 DEF Layout
    <3> QED
      BY <1>1, <1>4, <1>7, <3>1, <3>2
  <2>4. p + 1 + c.len <= RXBUF /\ p \in Int /\ c.len \in Nat /\ Holds(c, p)
    <3>1. at[i] + 1 + udpQueue[i].len <= RXBUF
      BY <1>14, <2>3
    <3> QED
      BY <2>1, <2>2, <2>3, <3>1
  <2>5. Holds(e, p - n)'
    <3>1. /\ n <= RXBUF /\ e.id = c.id /\ e.len = c.len
          /\ rxMem' = Freed(rxRd, n) /\ rxRd' = Plus(rxRd, n)
      BY <1>5, <1>6, <1>11, <2>1
    <3>2. n \in Nat /\ rxRd \in Nat
      BY <1>6, <1>7
    <3> QED
      BY ZenonT(30), <2>4, <3>1, <3>2, HoldsNearer
  <2> QED
    BY <2>2, <2>5
<1>12. CASE n = sock_remained_size
  <2>1. udpQueue' = Tail(udpQueue)
    <3>1. udpQueue' = Advanced(n)
      BY <1>5
    <3>2. d.off + n = d.len
      BY <1>6, <1>12
    <3> QED
      BY <1>6, <1>10, <3>1, <3>2 DEF Advanced
  <2>2. /\ udpQueue' \in Seq(Datagram) /\ N' = N - 1 /\ N' \in Nat
        /\ \A i \in 1..(N - 1) : udpQueue'[i] = udpQueue[i + 1]
    BY <1>6, <1>7, <2>1, HeadTailProperties DEF N
  <2>3. ~Begun' /\ sock_remained_size' = 0
    BY <1>5, <1>6, <1>9, <1>12
  <2>4. SocketTypeInv' /\ HeaderThere'
    BY <1>5, <1>8, <2>2, <2>3 DEF SocketInv, SocketTypeInv, HeaderThere
  <2>5. FirstBegun'
    <3> SUFFICES ASSUME NEW i \in 1..N' PROVE udpQueue'[i].off = 0
      BY <2>3 DEF FirstBegun
    <3>1. i \in 1..(N - 1) /\ i + 1 \in 1..N /\ i + 1 > 1
      BY <1>6, <2>2
    <3> QED
      BY <1>7, <2>2, <3>1
  <2>6. PICK to : to = [i \in 1..N |-> at[i + 1] - n]
    OBVIOUS
  <2>7. to \in [1..(N' + 1) -> Int] /\ \A i \in 1..N : to[i] = at[i + 1] - n
    <3>1. \A i \in 1..N : i + 1 \in 1..(N + 1)
      BY <1>6
    <3>2. to \in [1..N -> Int] /\ \A i \in 1..N : to[i] = at[i + 1] - n
      BY <1>6, <1>7, <2>6, <3>1
    <3>3. N' + 1 = N
      BY <1>6, <2>2
    <3> QED
      BY <3>2, <3>3
  <2>8. Layout(to)'
    <3>1. to[1] = 0
      <4>1. at[1 + 1] = at[1] + 1 + d.len
        BY SMTT(30), <1>1, <1>2, <1>6 DEF Layout
      <4>2. at[1 + 1] = d.len - d.off
        BY SMTT(30), <1>6, <4>1
      <4>3. to[1] = at[1 + 1] - n
        BY <1>6, <2>7
      <4> QED
        BY <1>6, <1>12, <4>2, <4>3
    <3>2. ASSUME NEW i \in 1..N' PROVE to[i + 1] = to[i] + 1 + udpQueue'[i].len
      <4>0. PICK h : h = i + 1
        OBVIOUS
      <4>1. /\ i \in 1..(N - 1) /\ i \in 1..N /\ h \in 1..N /\ h \in 1..(N + 1)
            /\ h + 1 \in 1..(N + 1)
        BY <1>6, <2>2, <4>0
      <4>2. /\ at[h + 1] = at[h] + 1 + udpQueue[h].len /\ at[h] \in Int
            /\ at[h + 1] \in Int /\ udpQueue[h].len \in Nat
        BY <1>1, <1>7, <4>1 DEF Layout
      <4>3. to[h] = at[h + 1] - n /\ to[i] = at[h] - n /\ udpQueue'[i] = udpQueue[h]
        BY <2>2, <2>7, <4>0, <4>1
      <4>4. to[h] = to[i] + 1 + udpQueue[h].len
        BY SMTT(30), <1>14, <4>2, <4>3
      <4> QED
        BY <4>0, <4>3, <4>4
    <3>3. ASSUME NEW i \in 1..N', NEW j \in 1..(N' + 1), i < j
          PROVE  to[i] + 1 + udpQueue'[i].len <= to[j]
      <4>0. PICK h : h = i + 1
        OBVIOUS
      <4>1. PICK k : k = j + 1
        OBVIOUS
      <4>2. /\ i \in 1..(N - 1) /\ i \in 1..N /\ h \in 1..N /\ h \in 1..(N + 1)
            /\ j \in 1..N /\ k \in 1..(N + 1) /\ h < k
        BY <1>6, <2>2, <3>3, <4>0, <4>1
      <4>3. /\ at[h] + 1 + udpQueue[h].len <= at[k] /\ at[h] \in Int
            /\ at[k] \in Int /\ udpQueue[h].len \in Nat
        BY <1>1, <1>7, <4>2 DEF Layout
      <4>4. to[i] = at[h] - n /\ to[j] = at[k] - n /\ udpQueue'[i] = udpQueue[h]
        BY <2>2, <2>7, <4>0, <4>1, <4>2
      <4>5. (at[h] - n) + 1 + udpQueue[h].len <= at[k] - n
        <5>1. PICK x, y, l : x = at[h] /\ y = at[k] /\ l = udpQueue[h].len
          OBVIOUS
        <5>2. x + 1 + l <= y /\ x \in Int /\ y \in Int /\ l \in Nat
          BY <4>3, <5>1
        <5>3. (x - n) + 1 + l <= y - n
          BY <1>14, <5>2
        <5> QED
          BY <5>1, <5>3
      <4> QED
        BY <4>4, <4>5
    <3>4. to[N' + 1] = t - n
      <4>1. N' + 1 = N /\ N \in 1..N
        BY <1>6, <2>2
      <4> QED
        BY <1>4, <2>7, <4>1
    <3>5. 0 <= t - n /\ t - n <= RXBUF
      BY <1>6
    <3> QED
      BY <1>5, <1>8, <2>3, <3>1, <3>2, <3>3, <3>4, <3>5 DEF Layout
  <2>9. ASSUME NEW i \in 1..N' PROVE Holds(udpQueue[i], to[i])'
    <3>0. PICK h : h = i + 1
      OBVIOUS
    <3>1. PICK e : e = udpQueue[h]
      OBVIOUS
    <3>4. h \in 1..N /\ i \in 1..N /\ i \in 1..(N - 1)
      BY <1>6, <2>2, <3>0
    <3>2. udpQueue'[i] = e /\ to[i] = at[h] - n
      BY <2>2, <2>7, <3>0, <3>1, <3>4
    <3>3. Holds(e, at[h] - n)'
      BY <1>11, <3>1, <3>4
    <3> QED
      BY <3>2, <3>3 DEF Holds
  <2> QED
    BY <2>4, <2>5, <2>7, <2>8, <2>9 DEF SocketInv, Framed
<1>13. CASE n # sock_remained_size
  <2>1. d.off + n # d.len
    BY <1>6, <1>13
  <2>2. PICK f : f = [d EXCEPT !.off = @ + n]
    OBVIOUS
  <2>3. udpQueue' = [udpQueue EXCEPT ![1] = f]
    BY <1>2, <1>5, <1>6, <1>10, <2>1, <2>2 DEF Advanced
  <2>4. /\ d \in Datagram /\ f \in Datagram
        /\ f.off = d.off + n /\ f.len = d.len /\ f.id = d.id
    <3>1. d \in Datagram
      BY <1>2, <1>6, QueueTypes
    <3>2. d.off + n \in Nat
      BY <1>6
    <3> QED
      BY <2>2, <3>1, <3>2 DEF Datagram
  <2>5. /\ udpQueue' \in Seq(Datagram) /\ N' = N /\ udpQueue'[1] = f /\ udpQueue' # <<>>
        /\ \A i \in 1..N : i > 1 => udpQueue'[i] = udpQueue[i]
    <3>1. udpQueue' \in Seq(Datagram) /\ N' = N
      BY <1>6, <1>7, <2>3, <2>4 DEF N
    <3>2. udpQueue'[1] = f /\ \A i \in 1..N : i > 1 => udpQueue'[i] = udpQueue[i]
      BY <1>6, <1>7, <2>3 DEF N
    <3> QED
      BY <1>6, <3>1, <3>2, EmptySeq DEF N
  <2>6. /\ Begun' /\ sock_remained_size' \in Nat
        /\ sock_remained_size' = f.len - f.off
    BY SMTT(30), <1>5, <1>6, <1>9, <1>13, <2>4
  <2>7. SocketTypeInv' /\ HeaderThere'
    BY <1>5, <1>8, <2>5, <2>6 DEF SocketInv, SocketTypeInv, HeaderThere
  <2>8. FirstBegun'
    <3>1. \A i \in 1..N' : i > 1 => udpQueue'[i].off = 0
      BY <1>7, <2>5
    <3>2. udpSender' = udpQueue'[1].id
      BY <1>5, <1>6, <2>4, <2>5
    <3>3. sock_remained_size' = udpQueue'[1].len - udpQueue'[1].off
      BY <2>5, <2>6
    <3> QED
      BY <2>5, <2>6, <3>1, <3>2, <3>3 DEF FirstBegun
  <2>9. \A i \in 1..N : udpQueue'[i].len = udpQueue[i].len /\ udpQueue'[i].id = udpQueue[i].id
    <3> SUFFICES ASSUME NEW i \in 1..N
                 PROVE  udpQueue'[i].len = udpQueue[i].len /\ udpQueue'[i].id = udpQueue[i].id
      OBVIOUS
    <3>1. CASE i = 1
      <4>1. udpQueue'[i] = f /\ udpQueue[i] = d
        BY <1>2, <2>5, <3>1
      <4> QED
        BY <2>4, <4>1
    <3>2. CASE i > 1
      <4>1. udpQueue'[i] = udpQueue[i]
        BY <2>5, <3>2
      <4> QED
        BY <4>1
    <3>3. i = 1 \/ i > 1
      BY <1>6
    <3> QED
      BY <3>1, <3>2, <3>3
  <2>10. PICK to : to = [i \in 1..(N + 1) |-> at[i] - n]
    OBVIOUS
  <2>11. to \in [1..(N' + 1) -> Int] /\ \A i \in 1..(N + 1) : to[i] = at[i] - n
    BY <1>6, <1>7, <2>5, <2>10
  <2>12. Layout(to)'
    <3>1. to[1] = -1 - f.off
      BY <1>6, <2>4, <2>11
    <3>2. ASSUME NEW i \in 1..N PROVE to[i + 1] = to[i] + 1 + udpQueue'[i].len
      <4>1. i \in 1..(N + 1) /\ i + 1 \in 1..(N + 1)
        BY <1>6
      <4>2. /\ at[i + 1] = at[i] + 1 + udpQueue[i].len /\ at[i] \in Int /\ at[i + 1] \in Int
            /\ udpQueue[i].len \in Nat
        BY <1>1, <1>7, <4>1 DEF Layout
      <4>3. /\ to[i + 1] = at[i + 1] - n /\ to[i] = at[i] - n
            /\ udpQueue'[i].len = udpQueue[i].len
        BY <2>9, <2>11, <4>1
      <4>4. to[i + 1] = to[i] + 1 + udpQueue[i].len
        BY <1>14, <4>2, <4>3
      <4> QED
        BY <4>3, <4>4
    <3>3. ASSUME NEW i \in 1..N, NEW j \in 1..(N + 1), i < j
          PROVE  to[i] + 1 + udpQueue'[i].len <= to[j]
      <4>1. i \in 1..(N + 1)
        BY <1>6
      <4>2. /\ at[i] + 1 + udpQueue[i].len <= at[j] /\ at[i] \in Int /\ at[j] \in Int
            /\ udpQueue[i].len \in Nat
        BY <1>1, <1>7, <3>3, <4>1 DEF Layout
      <4>3. to[j] = at[j] - n /\ to[i] = at[i] - n /\ udpQueue'[i].len = udpQueue[i].len
        BY <2>9, <2>11, <4>1
      <4>4. to[i] + 1 + udpQueue[i].len <= to[j]
        BY <1>14, <4>2, <4>3
      <4> QED
        BY <4>3, <4>4
    <3>4. to[N + 1] = t - n
      BY <1>4, <1>6, <2>11
    <3>5. 0 <= t - n /\ t - n <= RXBUF
      BY <1>6
    <3> QED
      BY <1>5, <1>8, <2>5, <2>6, <3>1, <3>2, <3>3, <3>4, <3>5 DEF Layout
  <2>13. ASSUME NEW i \in 1..N PROVE Holds(udpQueue[i], to[i])'
    <3>1. PICK e : e = udpQueue'[i]
      OBVIOUS
    <3>2. e.id = udpQueue[i].id /\ e.len = udpQueue[i].len /\ to[i] = at[i] - n
      BY <1>6, <2>9, <2>11, <3>1
    <3>3. Holds(e, at[i] - n)'
      BY <1>11, <3>2
    <3> QED
      BY <3>1, <3>2, <3>3 DEF Holds
  <2> QED
    BY <2>5, <2>7, <2>8, <2>11, <2>12, <2>13 DEF SocketInv, Framed
<1> QED
  BY <1>12, <1>13

\* Every step preserves the invariant.
LEMMA SocketStep == SocketInv /\ [UdpNext]_udpVars => SocketInv'
<1> SUFFICES ASSUME SocketInv, [UdpNext]_udpVars PROVE SocketInv'
  OBVIOUS
<1>1. ASSUME NEW n \in PayloadLens, DatagramComes(n) PROVE SocketInv'
  BY <1>1, ComesInv
<1>2. CASE OpenSocket
  <2>1. PICK p \in {0, PTR - 1} : rxWr' = p /\ rxRd' = p
    BY <1>2 DEF OpenSocket
  <2>2. p \in 0..(PTR - 1)
    BY <2>1
  <2> QED
    BY <1>2, <2>1, <2>2, EmptyInv DEF OpenSocket, Remained
<1>3. CASE CloseSocket
  BY <1>3, EmptyInv DEF CloseSocket, Remained, SocketInv, SocketTypeInv
<1>4. ASSUME NEW n \in ReadLens, CallRecvfrom(n) PROVE SocketInv'
  BY <1>4, CallInv
<1>5. CASE WaitDatagram
  BY <1>5, WaitInv
<1>6. CASE TakeHeader
  BY <1>6, HeaderInv
<1>7. CASE TakeData
  BY <1>7, DataInv
<1>8. CASE UNCHANGED udpVars
  <2>1. Begun' = Begun /\ N' = N /\ Framed'
    BY <1>8, FramedKept DEF udpVars, Begun, N, SocketInv
  <2> QED
    BY <1>8, <2>1 DEF udpVars, SocketInv, SocketTypeInv, HeaderThere, FirstBegun
<1> QED
  BY <1>1, <1>2, <1>3, <1>4, <1>5, <1>6, <1>7, <1>8 DEF UdpNext

-----------------------------------------------------------------------------
(* The refinement *)

\* Reading data takes from the queue.
LEMMA DataIsTake ==
  ASSUME SocketInv, TakeData
  PROVE  Queue!Take
<1>1. PICK d : d = udpQueue[1]
  OBVIOUS
<1>2. PICK n : n = Part
  OBVIOUS
<1>3. /\ udpPc = "data" /\ udpQueue' = Advanced(n)
      /\ udpGot' = [id |-> udpSender, bytes |-> [k \in 1..n |-> Cell(Plus(rxRd, k - 1))]]
  BY <1>2 DEF TakeData, Part
<1>4. PICK at \in [1..(N + 1) -> Int] : Layout(at)
  BY DEF SocketInv, Framed
<1>5. /\ udpQueue # <<>> /\ udpLen \in ReadLens /\ udpSender = d.id
      /\ sock_remained_size = d.len - d.off
  BY <1>1, <1>3, <1>4, PartThere
<1>6. Head(udpQueue) = d
  BY <1>1, <1>5, HeadTailProperties DEF SocketInv, SocketTypeInv
<1>7. n = Queue!Smaller(udpLen, d.len - d.off)
  BY <1>2, <1>5 DEF Part, Smaller, Queue!Smaller
<1>8. \A k \in 1..n : Cell(Plus(rxRd, k - 1)) = [id |-> d.id, at |-> d.off + k, len |-> 0]
  BY <1>1, <1>2, <1>3, DataAreNext DEF DataByte
<1>9. udpGot' = [id |-> d.id,
                 bytes |-> [k \in 1..n |-> [id |-> d.id, at |-> d.off + k, len |-> 0]]]
  <2>1. [k \in 1..n |-> Cell(Plus(rxRd, k - 1))]
          = [k \in 1..n |-> [id |-> d.id, at |-> d.off + k, len |-> 0]]
    BY <1>8
  <2> QED
    BY <1>3, <1>5, <2>1
<1>10. udpQueue' = IF d.off + n = d.len THEN Tail(udpQueue)
                   ELSE [udpQueue EXCEPT ![1].off = @ + n]
  BY <1>3, <1>5, <1>6 DEF Advanced
<1> QED
  BY <1>5, <1>6, <1>7, <1>9, <1>10 DEF Queue!Take

\* Every step of the socket is one of the queue, or leaves it alone.
LEMMA QueueStep ==
  SocketInv /\ [UdpNext]_udpVars
    => [Queue!Arrive \/ Queue!Take \/ Queue!Drop]_<<udpQueue, udpGot>>
<1> SUFFICES ASSUME SocketInv, [UdpNext]_udpVars
             PROVE  [Queue!Arrive \/ Queue!Take \/ Queue!Drop]_<<udpQueue, udpGot>>
  OBVIOUS
<1>1. ASSUME NEW n \in PayloadLens, DatagramComes(n) PROVE Queue!Arrive
  BY <1>1 DEF DatagramComes, Queue!Arrive, SocketInv, SocketTypeInv
<1>2. CASE OpenSocket \/ CloseSocket
  BY <1>2 DEF OpenSocket, CloseSocket, Queue!Drop
<1>3. CASE TakeData
  BY <1>3, DataIsTake
<1>4. CASE (\E n \in ReadLens : CallRecvfrom(n)) \/ WaitDatagram \/ TakeHeader \/ UNCHANGED udpVars
  BY <1>4 DEF CallRecvfrom, WaitDatagram, TakeHeader, udpVars
<1> QED
  BY <1>1, <1>2, <1>3, <1>4 DEF UdpNext

\* recvfrom gives the datagrams in the order in which they came, each with its sender,
\* whole or in consecutive parts, for all lengths of datagrams and reads and through all
\* wraps of the pointers and of the buffer.
THEOREM SocketIsQueue == UdpSpec => ImplementsQueue
<1>1. UdpInit => Queue!QInit
  BY DEF UdpInit, Queue!QInit
<1> QED
  BY <1>1, SocketInitInv, SocketStep, QueueStep, PTL DEF UdpSpec, ImplementsQueue, Queue!QSpec

-----------------------------------------------------------------------------
(* Board: SNTP_run is called in time, for every time of the watchdog and      *)
(* every width of the second counter that holds two of them.                  *)

Places == {"link", "start", "feed", "network", "test", "clear", "sntp", "uart"}

BoardTypeInv ==
  /\ mainPc \in Places
  /\ iwdg \in 0..WATCHDOG /\ seconds \in 0..(SECONDS - 1) /\ sinceRun \in Nat

\* Before the loop nothing is counted.
Outside == mainPc \in {"link", "start"} => sinceRun = 0 /\ iwdg = 0

\* Where a pass ends, the call of SNTP_run is at most one watchdog time and a second ago,
\* and within the pass only what the watchdog allows is added.
PassBound ==
  /\ mainPc \in {"uart", "feed"} => sinceRun <= WATCHDOG + 1
  /\ mainPc \in {"network", "test", "clear", "sntp"} => sinceRun <= WATCHDOG + 1 + iwdg

\* Until the seconds are cleared they lag behind by a watchdog time at most: they wrap
\* only in the first pass, as they may be anything when the loop is entered.
SecondsFollow ==
  /\ mainPc \in {"uart", "feed", "network", "test"} => sinceRun <= WATCHDOG + seconds
  /\ mainPc \in {"uart", "feed"} => seconds <= WATCHDOG \/ sinceRun = 0
  /\ mainPc \in {"network", "test"} => seconds <= WATCHDOG + iwdg \/ sinceRun <= iwdg
  /\ mainPc = "sntp" => seconds <= iwdg

BoardInv == BoardTypeInv /\ Outside /\ PassBound /\ SecondsFollow

\* The bound claimed follows from the two above.
LEMMA BoundHolds == BoardInv => SntpInTime
  BY BoardAssumption DEF BoardInv, BoardTypeInv, Places, Outside, PassBound, SntpInTime, MaxWait

\* The invariant holds at power-up.
LEMMA BoardInitInv == BoardInit => BoardInv
  BY BoardAssumption DEF BoardInit, BoardInv, BoardTypeInv, Places, Outside, PassBound, SecondsFollow

\* A second, in or before the loop.
LEMMA SecondKeeps == BoardInv /\ CountSecond => BoardInv'
<1> SUFFICES ASSUME BoardInv, CountSecond PROVE BoardInv'
  OBVIOUS
<1> USE BoardAssumption DEF BoardInv
<1>1. mainPc' = mainPc /\ mainPc \notin {"feed", "uart"}
  BY DEF CountSecond
<1>2. CASE ~Watched
  BY <1>1, <1>2 DEF CountSecond, Watched, BoardTypeInv, Places, Outside, PassBound, SecondsFollow
<1>3. CASE Watched
  <2>1. iwdg' = iwdg + 1 /\ iwdg < WATCHDOG
    BY <1>3 DEF CountSecond, Bites, BoardTypeInv
  <2>2. sinceRun' = sinceRun + 1
    BY <1>3, BoundHolds DEF CountSecond, SntpInTime, BoardTypeInv
  <2>3. BoardTypeInv' /\ Outside'
    BY <1>1, <1>3, <2>1, <2>2 DEF CountSecond, Watched, BoardTypeInv, Outside
  <2>4. PassBound'
    BY <1>1, <2>1, <2>2 DEF PassBound, BoardTypeInv
  <2>5. SecondsFollow'
    BY <1>1, <2>1, <2>2 DEF CountSecond, SecondsFollow, BoardTypeInv
  <2> QED
    BY <2>3, <2>4, <2>5
<1> QED
  BY <1>2, <1>3

\* Every other step.
LEMMA BoardStep == BoardInv /\ [BoardNext]_boardVars => BoardInv'
<1> SUFFICES ASSUME BoardInv, [BoardNext]_boardVars PROVE BoardInv'
  OBVIOUS
<1> USE BoardAssumption DEF BoardInv, BoardTypeInv, Places, Outside, PassBound, SecondsFollow
<1>1. CASE CableMoves \/ UNCHANGED boardVars
  BY <1>1 DEF CableMoves, boardVars
<1>2. CASE WatchdogReset
  BY <1>2 DEF WatchdogReset
<1>3. CASE LinkFound \/ Started \/ Feed \/ Served
  BY <1>3 DEF LinkFound, Started, Feed, Served, Goes, Counting
<1>4. CASE TestSeconds
  BY <1>4 DEF TestSeconds, SntpDue, Goes, Counting
<1>5. CASE ClearSeconds \/ CallSntp \/ LoopEnd
  BY <1>5 DEF ClearSeconds, CallSntp, LoopEnd, Goes, Counting
<1> QED
  BY <1>1, <1>2, <1>3, <1>4, <1>5, SecondKeeps DEF BoardNext, OwnSteps

-----------------------------------------------------------------------------
\* SNTP_run is called, or the board reset, within twice the time of the watchdog and a
\* second: main tests, clears and calls in steps between which seconds may be counted.
THEOREM SntpIsCalledInTime == BoardSpec => []SntpInTime
<1>1. BoardSpec => []BoardInv
  BY BoardInitInv, BoardStep, PTL DEF BoardSpec
<1> QED
  BY <1>1, BoundHolds, PTL

-----------------------------------------------------------------------------
(* SizeRegister: what getSn_RX_RSR and getSn_TX_FSR return is true, for bytes *)
(* of any width and any way in which the register grows.                      *)

\* The byte read first is not above the one in the register.
HighIsOld == readPc \in {"lo1", "lo2"} => hi <= sizeReg.hi

\* While the second reading goes on, the first has its low byte from a size the
\* register had, its high byte from that one or an earlier one.
FirstIsOlder ==
  readPc \in {"hi2", "lo2"} =>
    /\ AtMost(seen, sizeReg)
    /\ val1.hi <= seen.hi /\ val1.lo = seen.lo

\* The high byte of the second reading is not older than that size.
SecondIsNewer == readPc = "lo2" => seen.hi <= hi

SizeInv == SizeTypeOK /\ HighIsOld /\ FirstIsOlder /\ SecondIsNewer /\ ReadIsTrue

\* The order of sizes is reflexive and transitive.
LEMMA AtMostOrder ==
  ASSUME NEW a \in Size, NEW b \in Size, NEW c \in Size
  PROVE  /\ AtMost(a, a)
         /\ AtMost(a, b) /\ AtMost(b, c) => AtMost(a, c)
         /\ AtMost(a, b) => a.hi <= b.hi
  BY ByteAssumption DEF AtMost, Size, Byte

\* The invariant holds at the first call.
LEMMA SizeInitInv == SizeInit => SizeInv
  BY ByteAssumption DEF SizeInit, SizeInv, SizeTypeOK, HighIsOld, FirstIsOlder,
     SecondIsNewer, ReadIsTrue, NoSize, Size, Byte

\* Each step of the chip and of the driver preserves the invariant.
LEMMA SizeStep == SizeInv /\ [SizeNext]_sizeVars => SizeInv'
<1> SUFFICES ASSUME SizeInv, [SizeNext]_sizeVars PROVE SizeInv'
  OBVIOUS
<1> USE ByteAssumption
<1>0. NoSize \in Size
  BY DEF NoSize, Size, Byte
<1>1. CASE Grow
  <2>1. PICK s \in Size : AtMost(sizeReg, s) /\ sizeReg' = s
    BY <1>1 DEF Grow
  <2>2. SizeTypeOK'
    BY <1>1, <2>1 DEF Grow, SizeInv, SizeTypeOK
  <2>3. HighIsOld' /\ FirstIsOlder'
    <3>1. sizeReg.hi <= s.hi
      BY <2>1, AtMostOrder DEF SizeInv, SizeTypeOK
    <3>2. AtMost(seen, sizeReg) => AtMost(seen, s)
      BY <2>1, AtMostOrder DEF SizeInv, SizeTypeOK
    <3> QED
      BY <1>1, <2>1, <3>1, <3>2 DEF Grow, SizeInv, SizeTypeOK, HighIsOld, FirstIsOlder, Size, Byte
  <2>4. SecondIsNewer' /\ ReadIsTrue'
    BY <1>1 DEF Grow, SizeInv, SecondIsNewer, ReadIsTrue
  <2> QED
    BY <2>2, <2>3, <2>4 DEF SizeInv
<1>2. CASE CallRead
  BY <1>0, <1>2 DEF CallRead, SizeInv, SizeTypeOK, HighIsOld, FirstIsOlder, SecondIsNewer,
     ReadIsTrue
<1>3. CASE ReadHigh
  <2>1. SizeTypeOK'
    BY <1>3 DEF ReadHigh, SizeInv, SizeTypeOK, Size
  <2>2. HighIsOld' /\ FirstIsOlder' /\ ReadIsTrue'
    BY <1>3 DEF ReadHigh, SizeInv, SizeTypeOK, HighIsOld, FirstIsOlder, ReadIsTrue, Size, Byte
  <2>3. SecondIsNewer'
    <3>1. CASE readPc = "hi2"
      <4>1. seen.hi <= sizeReg.hi
        BY <3>1, AtMostOrder DEF SizeInv, SizeTypeOK, FirstIsOlder
      <4> QED
        BY <1>3, <3>1, <4>1 DEF ReadHigh, SecondIsNewer
    <3>2. CASE readPc = "hi1"
      BY <1>3, <3>2 DEF ReadHigh, SecondIsNewer
    <3> QED
      BY <1>3, <3>1, <3>2 DEF ReadHigh
  <2> QED
    BY <2>1, <2>2, <2>3 DEF SizeInv
<1>4. CASE ReadFirst
  <2>1. SizeTypeOK'
    BY <1>4 DEF ReadFirst, SizeInv, SizeTypeOK, Size
  <2>2. FirstIsOlder'
    <3>1. AtMost(sizeReg, sizeReg) /\ hi <= sizeReg.hi
      BY <1>4, AtMostOrder DEF ReadFirst, SizeInv, SizeTypeOK, HighIsOld
    <3> QED
      BY <1>4, <3>1 DEF ReadFirst, FirstIsOlder
  <2>3. HighIsOld' /\ SecondIsNewer' /\ ReadIsTrue'
    BY <1>4 DEF ReadFirst, HighIsOld, SecondIsNewer, ReadIsTrue
  <2> QED
    BY <2>1, <2>2, <2>3 DEF SizeInv
<1>5. CASE ReadSecond
  <2>1. SizeTypeOK'
    BY <1>5 DEF ReadSecond, SizeInv, SizeTypeOK, Size
  <2>2. HighIsOld' /\ FirstIsOlder' /\ SecondIsNewer'
    BY <1>5 DEF ReadSecond, HighIsOld, FirstIsOlder, SecondIsNewer
  <2>3. ReadIsTrue'
    <3>1. CASE val1 = [hi |-> hi, lo |-> sizeReg.lo]
      <4>1. val1.hi = hi /\ val1.lo = seen.lo /\ val1.hi <= seen.hi /\ seen.hi <= hi
        BY <1>5, <3>1 DEF ReadSecond, SizeInv, FirstIsOlder, SecondIsNewer
      <4>2. val1.hi = seen.hi
        BY <4>1 DEF SizeInv, SizeTypeOK, Size, Byte
      <4>3. val1 = seen
        BY <4>1, <4>2 DEF SizeInv, SizeTypeOK, Size
      <4> QED
        BY <1>5, <3>1, <4>3 DEF ReadSecond, ReadIsTrue
    <3>2. CASE val1 # [hi |-> hi, lo |-> sizeReg.lo]
      BY <1>5, <3>2 DEF ReadSecond, ReadIsTrue, Agree
    <3> QED
      BY <3>1, <3>2
  <2> QED
    BY <2>1, <2>2, <2>3 DEF SizeInv
<1>6. CASE UNCHANGED sizeVars
  BY <1>6 DEF sizeVars, SizeInv, SizeTypeOK, HighIsOld, FirstIsOlder, SecondIsNewer, ReadIsTrue
<1> QED
  BY <1>1, <1>2, <1>3, <1>4, <1>5, <1>6 DEF SizeNext

\* Whatever getSn_RX_RSR and getSn_TX_FSR return is zero or a size the register had
\* during the call, for every width of a byte and every growth of the register.
THEOREM SizesAreTrue == SizeSpec => []ReadIsTrue
<1>1. SizeInv => ReadIsTrue
  BY DEF SizeInv
<1> QED
  BY SizeInitInv, SizeStep, <1>1, PTL DEF SizeSpec

-----------------------------------------------------------------------------
(* Uart: a message that begins when the loop has finished is printed whole,   *)
(* for buffers, messages and time-outs of any length, wherever the interrupts *)
(* fall and whichever way the clearing loop was compiled.                     *)

UartTypeInv ==
  /\ u1out \in 0..U1OUT /\ USART1_index \in Nat /\ uartReg \in Nat
  /\ USART1_rx_data_buff \in [Cells -> Nat] /\ printed \in Seq(Nat)
  /\ message \in 0..MaxMessage /\ alone \in BOOLEAN /\ inMemory \in BOOLEAN
  /\ uartPc \in {"poll", "stop", "print", "clear", "count", "reset"}

\* Before the cell n the buffer is cleared.
ClearTo(n) == \A i \in Cells : i < n => USART1_rx_data_buff[i] = NUL

\* While no byte has come since the time-out was stopped, the loop has cleared what it
\* has counted, and a loop that has finished leaves an empty buffer.
Clearing ==
  u1out = STOP =>
    /\ uartPc = "clear" => ClearTo(Counter)
    /\ uartPc = "count" => ClearTo(uartReg)
    /\ uartPc \in {"reset", "poll"} => ClearTo(RX_BUFFER_SIZE0)
    /\ uartPc = "poll" => USART1_index = 0

\* A message followed from its beginning gets no byte after its time-out.
NoneAfter ==
  alone => /\ message > 0
           /\ uartPc = "stop" => u1out <= ONTIME
           /\ uartPc \notin {"poll", "stop"} => u1out = STOP

\* It stands at the beginning of the buffer, alone, until it is printed.
InBuffer ==
  (alone /\ message < RX_BUFFER_SIZE0 /\ (uartPc \in {"stop", "print"} \/ (uartPc = "poll" /\ u1out # STOP))) =>
    /\ \A i \in Cells : USART1_rx_data_buff[i] = IF i < message THEN i + 1 ELSE NUL
    /\ uartPc = "poll" => USART1_index = message

\* What was printed is what the buffer begins with.
PrintedSoFar ==
  /\ uartPc = "stop" => uartReg = 0 /\ printed = <<>>
  /\ (alone /\ message < RX_BUFFER_SIZE0 /\ uartPc = "print") =>
       uartReg <= message /\ printed = [k \in 1..uartReg |-> k]

UartInv == UartTypeInv /\ Clearing /\ NoneAfter /\ InBuffer /\ PrintedSoFar

\* When the printing ends at a zero, it is the one behind the message.
LEMMA WholeHolds == UartInv => PrintedWhole
<1> SUFFICES ASSUME UartInv, Printed, alone, message < RX_BUFFER_SIZE0
             PROVE  printed = [k \in 1..message |-> k]
  BY DEF PrintedWhole
<1>1. uartReg <= message /\ printed = [k \in 1..uartReg |-> k]
  BY DEF UartInv, PrintedSoFar, Printed
<1>2. uartReg \in Cells
  BY <1>1, UartAssumption DEF Cells, UartInv, UartTypeInv
<1>3. ~(uartReg < message)
  BY <1>2, UartAssumption DEF Printed, UartInv, InBuffer, UartTypeInv, Cells, NUL
<1> QED
  BY <1>1, <1>3 DEF UartInv, UartTypeInv

\* The invariant holds at power-up.
LEMMA UartInitInv == UartInit => UartInv
<1> SUFFICES ASSUME UartInit PROVE UartInv
  OBVIOUS
<1>1. UartTypeInv
  <2>1. USART1_rx_data_buff \in [Cells -> Nat] /\ printed \in Seq(Nat)
    BY DEF UartInit, NUL
  <2>2. alone \in BOOLEAN /\ inMemory \in BOOLEAN
    BY DEF UartInit
  <2> QED
    BY <2>1, <2>2, UartAssumption DEF UartInit, UartTypeInv
<1>2. Clearing /\ NoneAfter /\ InBuffer /\ PrintedSoFar
  BY UartAssumption DEF UartInit, Clearing, NoneAfter, InBuffer, PrintedSoFar, STOP, ONTIME, ClearTo, NUL
<1> QED
  BY <1>1, <1>2 DEF UartInv

\* The first byte of a message.
LEMMA FirstByteKeeps == UartInv /\ FirstByte => UartInv'
<1> SUFFICES ASSUME UartInv, FirstByte PROVE UartInv'
  OBVIOUS
<1> USE UartAssumption
<1>1. UartTypeInv'
  BY DEF UartInv, UartTypeInv, FirstByte, Store, Resting, Other, Cells, STOP, ONTIME
<1>2. alone' => uartPc = "poll" /\ u1out = STOP /\ USART1_index = 0 /\ ClearTo(RX_BUFFER_SIZE0)
  BY DEF FirstByte, Resting, UartInv, Clearing
<1>3. u1out' > ONTIME /\ uartPc' = uartPc
  BY DEF FirstByte, Store
<1>4. Clearing' /\ NoneAfter'
  BY <1>2, <1>3 DEF FirstByte, Clearing, NoneAfter, STOP, ONTIME
<1>5. InBuffer'
  BY <1>2, <1>3 DEF FirstByte, Store, Resting, InBuffer, ClearTo, Cells, NUL, UartInv, UartTypeInv, STOP, ONTIME
<1>6. PrintedSoFar'
  BY <1>2, <1>3 DEF FirstByte, Store, PrintedSoFar, UartInv
<1> QED
  BY <1>1, <1>4, <1>5, <1>6 DEF UartInv

\* A further byte: of a message followed from its beginning only while the loop polls.
LEMMA NextByteKeeps == UartInv /\ NextByte => UartInv'
<1> SUFFICES ASSUME UartInv, NextByte PROVE UartInv'
  OBVIOUS
<1> USE UartAssumption
<1>1. UartTypeInv'
  <2>1. message' \in 1..MaxMessage /\ MessageByte(message') \in Nat
    BY DEF NextByte, MessageByte, Other
  <2> QED
    BY <2>1 DEF UartInv, UartTypeInv, NextByte, Store, Cells, ONTIME
<1>2. alone => uartPc = "poll" /\ u1out # STOP
  BY DEF NextByte, UartInv, NoneAfter, UartTypeInv, STOP, ONTIME
<1>3. u1out' > ONTIME /\ uartPc' = uartPc /\ alone' = alone
  BY DEF NextByte, Store
<1>4. Clearing' /\ NoneAfter'
  BY <1>2, <1>3 DEF NextByte, Clearing, NoneAfter, STOP, ONTIME, UartInv, UartTypeInv
<1>5. InBuffer'
  <2> SUFFICES ASSUME alone, message' < RX_BUFFER_SIZE0
               PROVE  /\ \A i \in Cells : USART1_rx_data_buff'[i] = IF i < message' THEN i + 1 ELSE NUL
                      /\ USART1_index' = message'
    BY <1>2, <1>3 DEF InBuffer
  <2>1. message' = message + 1 /\ message \in Nat /\ Store(message')
    BY DEF NextByte, MessageByte, UartInv, UartTypeInv
  <2>2. USART1_index = message /\ \A i \in Cells : USART1_rx_data_buff[i] = IF i < message THEN i + 1 ELSE NUL
    BY <1>2, <2>1 DEF InBuffer, UartInv
  <2> QED
    BY <2>1, <2>2 DEF Store, Cells, NUL
<1>6. PrintedSoFar'
  BY <1>2, <1>3 DEF NextByte, Store, PrintedSoFar, UartInv
<1> QED
  BY <1>1, <1>4, <1>5, <1>6 DEF UartInv

\* The loop and the timer.
LEMMA UartLoopKeeps == UartInv /\ (TimerTick \/ usart1Process) => UartInv'
<1> SUFFICES ASSUME UartInv, TimerTick \/ usart1Process PROVE UartInv'
  OBVIOUS
<1> USE UartAssumption DEF Goto, Sent, AtOnce, STOP, ONTIME, NUL
<1>1. CASE TimerTick
  BY <1>1 DEF TimerTick, UartInv, UartTypeInv, Clearing, NoneAfter, InBuffer, PrintedSoFar, ClearTo
<1>2. CASE TestTimeout
  BY <1>2 DEF TestTimeout, UartInv, UartTypeInv, Clearing, NoneAfter, InBuffer, PrintedSoFar
<1>3. CASE StopTimeout
  BY <1>3 DEF StopTimeout, UartInv, UartTypeInv, Clearing, NoneAfter, InBuffer, PrintedSoFar
<1>4. CASE PrintByte
  <2>1. UartTypeInv' /\ Clearing' /\ NoneAfter' /\ InBuffer'
    BY <1>4 DEF PrintByte, UartInv, UartTypeInv, Clearing, NoneAfter, InBuffer
  <2>2. PrintedSoFar'
    <3> SUFFICES ASSUME alone, message < RX_BUFFER_SIZE0
                 PROVE  uartReg' <= message /\ printed' = [k \in 1..uartReg' |-> k]
      BY <1>4 DEF PrintByte, PrintedSoFar
    <3>1. uartReg <= message /\ printed = [k \in 1..uartReg |-> k]
      BY <1>4 DEF PrintByte, UartInv, PrintedSoFar
    <3>2. uartReg < message /\ USART1_rx_data_buff[uartReg] = uartReg + 1
      BY <1>4 DEF PrintByte, UartInv, InBuffer, UartTypeInv, Cells
    <3> QED
      BY <1>4, <3>1, <3>2 DEF PrintByte, UartInv, UartTypeInv
  <2> QED
    BY <2>1, <2>2 DEF UartInv
<1>5. CASE StartClearing
  BY <1>5 DEF StartClearing, Printed, UartInv, UartTypeInv, Clearing, NoneAfter, InBuffer, PrintedSoFar, ClearTo, Counter, Cells
<1>6. CASE ClearByte
  BY <1>6 DEF ClearByte, Cleared, UartInv, UartTypeInv, Clearing, NoneAfter, InBuffer, PrintedSoFar, ClearTo, Counter, Cells
<1>7. CASE CountUp
  BY <1>7 DEF CountUp, UartInv, UartTypeInv, Clearing, NoneAfter, InBuffer, PrintedSoFar, ClearTo, Counter
<1>8. CASE LeaveLoop
  BY <1>8 DEF LeaveLoop, UartInv, UartTypeInv, Clearing, NoneAfter, InBuffer, PrintedSoFar, ClearTo, Counter, Cells
<1>9. CASE ResetIndex
  BY <1>9 DEF ResetIndex, FirstIndex, UartInv, UartTypeInv, Clearing, NoneAfter, InBuffer, PrintedSoFar, ClearTo
<1> QED
  BY <1>1, <1>2, <1>3, <1>4, <1>5, <1>6, <1>7, <1>8, <1>9 DEF usart1Process

\* Every step keeps the invariant.
LEMMA UartStep == UartInv /\ [UartNext]_uartVars => UartInv'
<1> SUFFICES ASSUME UartInv, [UartNext]_uartVars PROVE UartInv'
  OBVIOUS
<1>1. CASE UNCHANGED uartVars
  BY <1>1 DEF uartVars, UartInv, UartTypeInv, Clearing, NoneAfter, InBuffer, PrintedSoFar, ClearTo, Counter
<1> QED
  BY <1>1, FirstByteKeeps, NextByteKeeps, UartLoopKeeps DEF UartNext

\* A message shorter than the buffer that begins when usart1Process has finished is
\* printed whole and alone.
THEOREM MessagesArePrinted == UartSpec => []PrintedWhole
<1>1. UartSpec => []UartInv
  BY UartInitInv, UartStep, PTL DEF UartSpec
<1> QED
  BY <1>1, WholeHolds, PTL

-----------------------------------------------------------------------------
(* All units *)

\* A step of one unit is a step or a stutter of every unit.
LEMMA UnitSteps ==
  ASSUME [Next]_unitVars
  PROVE  /\ [SntpNext]_sntpVars /\ [DhcpNext]_dhcpVars /\ [TftpNext]_tftpVars
         /\ [UdpNext]_udpVars /\ [SizeNext]_sizeVars /\ [UartNext]_uartVars /\ [BoardNext]_boardVars
<1>1. CASE UNCHANGED unitVars
  BY <1>1 DEF unitVars
<1>2. CASE Next
  BY <1>2 DEF Next, RunSntp, RunDhcp, RunTftp, RunUdp, RunSize, RunUart, RunBoard
<1> QED
  BY <1>1, <1>2

\* The units put together behave as each of them alone: the theorems about the time client,
\* the DHCP and TFTP clients, the UDP socket, the size registers, UART1 and the main program
\* hold of Spec.
THEOREM UnitsBehave ==
  Spec => SntpSpec /\ DhcpSpec /\ TftpSpec /\ UdpSpec /\ SizeSpec /\ UartSpec /\ BoardSpec
<1>1. Init => /\ SntpInit /\ DhcpInit /\ TftpInit /\ UdpInit /\ SizeInit /\ UartInit
              /\ BoardInit
  BY DEF Init
<1> QED
  BY <1>1, UnitSteps, PTL DEF Spec, SntpSpec, DhcpSpec, TftpSpec, UdpSpec, SizeSpec, UartSpec, BoardSpec

\* The state of every unit stays in its types; DNS_run ends within one waiting time more
\* than its retries, and DHCP_run repeats no message more than MAX_DHCP_RETRY times.
THEOREM UnitsAreTyped == Spec => []TypeOK
<1>1. DhcpInv => DhcpTypeOK
  BY DEF DhcpInv, TypeInv, Counters, States, DhcpTypeOK
<1>2. SizeSpec => []SizeInv
  BY SizeInitInv, SizeStep, PTL DEF SizeSpec
<1>3. SizeInv => SizeTypeOK
  BY DEF SizeInv
<1>4. SntpTypeOK /\ DhcpTypeOK /\ SizeTypeOK => TypeOK
  BY DEF TypeOK
<1> QED
  BY <1>1, <1>2, <1>3, <1>4, UnitsBehave, SntpIsTyped, DhcpInvariant, PTL
============================================================================
