-------------------------------- MODULE Dhcp --------------------------------
(***************************************************************************)
(* The DHCP client of dhcp.c: DHCP_run, polled by the main loop, the       *)
(* counter that DHCP_time_handler advances each second, several servers    *)
(* and a network that loses, delays and reorders messages.  DHCP_run looks *)
(* at neither the transaction number nor the order of the messages.        *)
(*                                                                         *)
(* A message is its type and the server it comes from; every server offers *)
(* one address, named after it, for a time of its own.                     *)
(***************************************************************************)
EXTENDS Integers

CONSTANTS
  MAX_DHCP_RETRY, DHCP_WAIT_TIME,
  LeaseTime   \* the lease time of each server, in seconds

Servers == DOMAIN LeaseTime
None == "none"

ASSUME DhcpAssumption ==
  /\ MAX_DHCP_RETRY \in Nat /\ DHCP_WAIT_TIME \in Nat
  /\ None \notin Servers /\ \A s \in Servers : LeaseTime[s] \in Nat

\* A renewal and its repetitions fit into the second half of a lease.
ASSUME LeaseAssumption ==
  \A s \in Servers :
    LeaseTime[s] \div 2 + 1 + MAX_DHCP_RETRY * (DHCP_WAIT_TIME + 1) <= LeaseTime[s]

VARIABLES
  dhcp_state,
  dhcp_tick_1s,
  dhcp_retry_count,
  DHCP_SIP,           \* the server named by the last message
  dhcp_lease_time,    \* the server whose lease time it is
  DHCP_allocated_ip,  \* the server whose address it is
  SIPR,               \* the address the chip has
  mail,               \* answers under way or waiting in the socket
  mixed,              \* history: has a message of another exchange been taken?
  age                 \* history: seconds since the last acknowledgement taken

dhcpVars == <<dhcp_state, dhcp_tick_1s, dhcp_retry_count, DHCP_SIP, dhcp_lease_time,
              DHCP_allocated_ip, SIPR, mail, mixed, age>>

Message == [type : {"OFFER", "ACK", "NAK"}, from : Servers]
Silence == [type |-> None, from |-> None]
MayTake(m) == m = Silence \/ m \in mail
Remaining(m) == mail \ {m}

Lasting == {"LEASED", "REREQUEST"}
AtServer == Lasting \cup {"REQUEST"}

-----------------------------------------------------------------------------
(* The servers: a message that is sent may be lost later. *)

\* Every server answers a DISCOVER.
Offers == [type : {"OFFER"}, from : Servers]

\* The server that is named answers a REQUEST, and grants only the address it offered.
Replies(ip, server) ==
  {[type |-> t, from |-> server] : t \in IF ip = server THEN {"ACK", "NAK"} ELSE {"NAK"}}

Discover(rest) == mail' = rest \cup Offers
Request(rest, ip, server) == \E a \in Replies(ip, server) : mail' = rest \cup {a}

-----------------------------------------------------------------------------
(* DHCP_run *)

ResetTimeout == dhcp_tick_1s' = 0 /\ dhcp_retry_count' = 0

\* parseDHCPMSG takes the server and the lease time from the options of whatever has
\* come, before its type is looked at; a refusal has no lease time.
Parse(m) ==
  /\ MayTake(m)
  /\ DHCP_SIP' = IF m = Silence THEN DHCP_SIP ELSE m.from
  /\ dhcp_lease_time' = IF m.type \in {None, "NAK"} THEN dhcp_lease_time ELSE m.from
  /\ mixed' = (dhcp_state \in AtServer
                 /\ (mixed \/ (m # Silence /\ m.from # DHCP_allocated_ip)))

StartDiscovery(m) ==
  /\ dhcp_state = "INIT" /\ Parse(m)
  /\ DHCP_allocated_ip' = None
  /\ Discover(Remaining(m))
  /\ dhcp_state' = "DISCOVER"
  /\ UNCHANGED <<dhcp_tick_1s, dhcp_retry_count, SIPR, age>>

TakeOffer(m) ==
  /\ dhcp_state = "DISCOVER" /\ m.type = "OFFER" /\ Parse(m)
  /\ DHCP_allocated_ip' = m.from
  /\ Request(Remaining(m), m.from, m.from)
  /\ dhcp_state' = "REQUEST"
  /\ UNCHANGED <<dhcp_tick_1s, dhcp_retry_count, SIPR, age>>

\* Mutant: the address in the acknowledgement is put into the chip.
AssignedMutant(m) == m.from

Assigned(m) == DHCP_allocated_ip

\* check_DHCP_leasedIP: no answer to the ARP request for the address.
TakeAck(m) ==
  /\ dhcp_state = "REQUEST" /\ m.type = "ACK" /\ Parse(m)
  /\ SIPR' = Assigned(m)
  /\ ResetTimeout
  /\ mail' = Remaining(m)
  /\ dhcp_state' = "LEASED" /\ age' = 0
  /\ UNCHANGED DHCP_allocated_ip

\* The address is in use: the offer is declined, and the chip and the socket reset.
Conflict(m) ==
  /\ dhcp_state = "REQUEST" /\ m.type = "ACK" /\ Parse(m)
  /\ SIPR' = None
  /\ ResetTimeout
  /\ mail' = Remaining(m)
  /\ dhcp_state' = "INIT" /\ age' = 0
  /\ UNCHANGED DHCP_allocated_ip

\* A refusal: the address stays in the chip, and no DISCOVER is sent yet.
TakeNak(m) ==
  /\ dhcp_state \in {"REQUEST", "REREQUEST"} /\ m.type = "NAK" /\ Parse(m)
  /\ ResetTimeout
  /\ mail' = Remaining(m)
  /\ dhcp_state' = "DISCOVER" /\ age' = 0
  /\ UNCHANGED <<DHCP_allocated_ip, SIPR>>

\* Mutant: the lease is renewed when it ends.
RenewDueMutant(s) == LeaseTime[s] < dhcp_tick_1s

RenewDue(s) == LeaseTime[s] \div 2 < dhcp_tick_1s

Renew(m) ==
  /\ dhcp_state = "LEASED" /\ Parse(m)
  /\ RenewDue(dhcp_lease_time')
  /\ Request(Remaining(m), DHCP_allocated_ip, DHCP_SIP')
  /\ ResetTimeout
  /\ dhcp_state' = "REREQUEST"
  /\ UNCHANGED <<DHCP_allocated_ip, SIPR, age>>

\* In a lease every message is parsed and dropped.
Stay(m) ==
  /\ dhcp_state = "LEASED" /\ m # Silence /\ Parse(m)
  /\ ~RenewDue(dhcp_lease_time')
  /\ mail' = Remaining(m)
  /\ UNCHANGED <<dhcp_state, dhcp_tick_1s, dhcp_retry_count, DHCP_allocated_ip, SIPR, age>>

\* OLD_allocated_ip never differs, as the address of an ACK is not looked at.
Renewed(m) ==
  /\ dhcp_state = "REREQUEST" /\ m.type = "ACK" /\ Parse(m)
  /\ ResetTimeout
  /\ mail' = Remaining(m)
  /\ dhcp_state' = "LEASED" /\ age' = 0
  /\ UNCHANGED <<DHCP_allocated_ip, SIPR>>

\* The message, if any, is none the state waits for: check_DHCP_timeout is called.
Waits(m) ==
  /\ Parse(m)
  /\ \/ dhcp_state = "DISCOVER" /\ m.type # "OFFER"
     \/ dhcp_state \in {"REQUEST", "REREQUEST"} /\ m.type \notin {"ACK", "NAK"}
  /\ UNCHANGED <<DHCP_allocated_ip, SIPR>>

\* Mutant: the retries of a REQUEST are not counted.
RetriesMutant == dhcp_retry_count + (IF dhcp_state = "REQUEST" THEN 0 ELSE 1)

Retries == dhcp_retry_count + 1
RetryLeft == dhcp_retry_count < MAX_DHCP_RETRY
Late == DHCP_WAIT_TIME < dhcp_tick_1s

WaitOn(m) ==
  /\ Waits(m) /\ m # Silence /\ RetryLeft /\ ~Late
  /\ mail' = Remaining(m)
  /\ UNCHANGED <<dhcp_state, dhcp_tick_1s, dhcp_retry_count, age>>

Resend(m) ==
  /\ Waits(m) /\ RetryLeft /\ Late
  /\ IF dhcp_state = "DISCOVER" THEN Discover(Remaining(m))
     ELSE Request(Remaining(m), DHCP_allocated_ip, DHCP_SIP')
  /\ dhcp_tick_1s' = 0 /\ dhcp_retry_count' = Retries
  /\ UNCHANGED <<dhcp_state, age>>

\* After the last repetition the next call gives up, without waiting.
GiveUp(m) ==
  /\ Waits(m) /\ ~RetryLeft
  /\ IF dhcp_state = "DISCOVER"
     THEN dhcp_state' = "INIT" /\ mail' = Remaining(m)
     ELSE dhcp_state' = "DISCOVER" /\ Discover(Remaining(m))
  /\ ResetTimeout /\ age' = 0

DHCP_run(m) ==
  \/ StartDiscovery(m) \/ TakeOffer(m) \/ TakeAck(m) \/ Conflict(m) \/ TakeNak(m)
  \/ Renew(m) \/ Stay(m) \/ Renewed(m) \/ WaitOn(m) \/ Resend(m) \/ GiveUp(m)

-----------------------------------------------------------------------------
(* The rest of the program, the clock and the network *)

DHCP_stop ==
  /\ dhcp_state # "STOP" /\ dhcp_state' = "STOP"
  /\ age' = 0 /\ mixed' = FALSE
  /\ UNCHANGED <<dhcp_tick_1s, dhcp_retry_count, DHCP_SIP, dhcp_lease_time,
                 DHCP_allocated_ip, SIPR, mail>>

DHCP_init ==
  /\ dhcp_state = "STOP" /\ dhcp_state' = "INIT"
  /\ ResetTimeout /\ SIPR' = None
  /\ UNCHANGED <<DHCP_SIP, dhcp_lease_time, DHCP_allocated_ip, mail, mixed, age>>

\* DHCP_run is called more often than once a second: no second ends while it has
\* something to send.
Pending ==
  \/ dhcp_state = "INIT"
  \/ dhcp_state = "LEASED" /\ RenewDue(dhcp_lease_time)
  \/ dhcp_state \in {"DISCOVER", "REQUEST", "REREQUEST"} /\ (Late \/ ~RetryLeft)

DHCP_time_handler ==
  /\ dhcp_state # "STOP" /\ ~Pending
  /\ dhcp_tick_1s' = dhcp_tick_1s + 1
  /\ age' = IF dhcp_state \in Lasting THEN age + 1 ELSE 0
  /\ UNCHANGED <<dhcp_state, dhcp_retry_count, DHCP_SIP, dhcp_lease_time,
                 DHCP_allocated_ip, SIPR, mail, mixed>>

LoseMail(m) ==
  /\ mail' = mail \ {m}
  /\ UNCHANGED <<dhcp_state, dhcp_tick_1s, dhcp_retry_count, DHCP_SIP, dhcp_lease_time,
                 DHCP_allocated_ip, SIPR, mixed, age>>

DhcpInit ==
  /\ dhcp_state = "INIT" /\ dhcp_tick_1s = 0 /\ dhcp_retry_count = 0
  /\ DHCP_SIP = None /\ dhcp_lease_time = None /\ DHCP_allocated_ip = None
  /\ SIPR = None /\ mail = {} /\ mixed = FALSE /\ age = 0

\* A server grants the address it offered.
OfferGranted == \E m \in mail : TakeOffer(m) /\ [type |-> "ACK", from |-> m.from] \in mail'

DhcpNext ==
  \/ \E m \in mail \cup {Silence} : DHCP_run(m)
  \/ DHCP_stop \/ DHCP_init \/ DHCP_time_handler
  \/ \E m \in mail : LoseMail(m)

DhcpSpec == DhcpInit /\ [][DhcpNext]_dhcpVars

-----------------------------------------------------------------------------
(* Properties *)

DhcpTypeOK ==
  /\ dhcp_state \in {"INIT", "DISCOVER", "REQUEST", "LEASED", "REREQUEST", "STOP"}
  /\ dhcp_retry_count \in 0..MAX_DHCP_RETRY
  /\ {DHCP_SIP, dhcp_lease_time, DHCP_allocated_ip, SIPR} \subseteq Servers \cup {None}
  /\ mail \subseteq Message

\* While the client holds a lease or renews it, the chip has the address the client
\* asks to renew, whatever answers of other exchanges came in.
LeaseIsCarried ==
  dhcp_state \in Lasting => SIPR = DHCP_allocated_ip /\ SIPR # None

\* The client takes no address for its own beyond the end of the lease: the renewal
\* and its repetitions are over before, unless a message of another server came in.
LeaseNotOutlived ==
  (dhcp_state \in Lasting /\ ~mixed) => age <= LeaseTime[DHCP_allocated_ip]

\* As long as it is not stopped, the client gets a lease again and again.
GetsALease == <>[](dhcp_state # "STOP") => []<>(dhcp_state = "LEASED")
=============================================================================
