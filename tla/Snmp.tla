-------------------------------- MODULE Snmp --------------------------------
(***************************************************************************)
(* The SNMPv1 agent: snmpd_init and snmpd_run of snmp.c with the table of  *)
(* snmp_custom.c.  One call of snmpd_run takes one datagram from the       *)
(* socket, parses it and builds the answer binding by binding, while       *)
(* further datagrams may arrive.                                           *)
(*                                                                         *)
(* A message is a record: the kind of request, the form of each length     *)
(* field and the bindings.  Values are sequences of bytes, object names    *)
(* are indices of the table with their length, so that every length the    *)
(* program writes into the answer can be compared with what is there.      *)
(*                                                                         *)
(* Managers may repeat a request and miss any answer.  One of them walks   *)
(* the table with GETNEXT.                                                 *)
(*                                                                         *)
(* The buffers of a request and of its answer have MAX_SNMPMSG_LEN bytes,  *)
(* and nothing in the program checks an index into them.  A request or an  *)
(* answer that is longer is written over what lies behind, the indices of  *)
(* the message among it: the model says that this happens, and nothing of  *)
(* the agent afterwards.                                                   *)
(***************************************************************************)
EXTENDS Integers, Sequences, SequencesExt

CONSTANTS
  Requests,         \* requests of managers other than the walk, see IsMessage
  MAX_SNMPMSG_LEN,  \* bytes of request_msg.buffer, and of response_msg.buffer
  MaxQueue          \* bound on the datagrams waiting in SOCK_SNMP_AGENT

-----------------------------------------------------------------------------
(* Messages *)

Forms == {"short", "long1", "long2"}   \* of a length field: one byte, or 0x81, 0x82 and the length
DataTypes == {"octets", "oid", "integer", "ticks", "null"}

\* The bytes of a type-length header: the length in one byte, or in one or two
\* after a byte that says so; and the lengths it has room for.
Header(form) == CASE form = "short" -> 2 [] form = "long1" -> 3 [] form = "long2" -> 4
Capacity(form) == CASE form = "short" -> 128 [] form = "long1" -> 256 [] form = "long2" -> 65536

\* What a name and a value really occupy.
BindingContent(b) == 2 + b.oidlen + 2 + Len(b.val)

Bindings == [oid : Nat, oidlen : Nat, dataType : DataTypes, val : Seq(0..255), form : Forms]
Messages ==
  [type : {"get", "next", "set", "other"}, id : Nat,
   version : {"v1", "v2c"}, community : {"public", "secret"},   \* as long as each other
   msg : Forms, pdu : Forms, list : Forms, bindings : Seq(Bindings)]

\* What a request may look like.  Text is shorter than the 64 bytes of an entry and an
\* integer has at most four bytes; id 0 is kept for these managers.
MAX_STRING == 64
IsBinding(b) ==
  /\ BindingContent(b) < Capacity(b.form)
  /\ Len(b.val) < IF b.dataType \in {"octets", "oid"} THEN MAX_STRING ELSE 5
IsMessage(m) == m \in Messages /\ m.id = 0 /\ \A i \in DOMAIN m.bindings : IsBinding(m.bindings[i])

ASSUME SnmpAssumption ==
  /\ MaxQueue \in Nat \ {0} /\ MAX_SNMPMSG_LEN \in Nat
  /\ \A m \in Requests : IsMessage(m)

VARIABLES
  sock,        \* "closed" or "udp"
  rx,          \* datagrams waiting in the socket
  snmpData,    \* the table: per entry its bytes u and dataLen
  parse,       \* request_msg and response_msg while a request is parsed
  errorStatus, errorIndex,
  overrun,     \* has a message been written beyond its buffer?
  answer,      \* the datagram sent last
  lastSet,     \* ghost: per entry the value of the last SET that was applied
  walk         \* the walk: entries seen so far, and has it been told the end?

vars == <<sock, rx, snmpData, parse, overrun, errorStatus, errorIndex, answer, lastSet, walk>>

-----------------------------------------------------------------------------
(* The table: 14 entries, in the order of snmp_custom.c *)

Old(n) == [i \in 1..n |-> 111]     \* n bytes of initial text
Zero == [i \in 1..4 |-> 0]
Uptime == [i \in 1..4 |-> 7]       \* what currentUptime computes
LedStatus == [i \in 1..21 |-> 71]  \* what get_LEDStatus_all prints

Entry(oidlen, dataType, dataLen, u, get) ==
  [oidlen |-> oidlen, dataType |-> dataType, dataLen |-> dataLen, u |-> u, get |-> get]

\* get is what getfunction stores, <<>> when there is none
Table == <<
  Entry(8, "octets", 30, Old(21), <<>>),   Entry(8, "oid", 8, Old(8), <<>>),
  Entry(8, "ticks", 0, Zero, Uptime),      Entry(8, "octets", 30, Old(44), <<>>),
  Entry(8, "octets", 30, Old(22), <<>>),   Entry(8, "octets", 30, Old(6), <<>>),
  Entry(8, "integer", 4, <<255, 255, 255, 241>>, <<>>),
  Entry(8, "octets", 40, <<>>, LedStatus), Entry(8, "integer", 4, Zero, <<>>),
  Entry(8, "integer", 4, Zero, <<>>),      Entry(10, "octets", 30, Old(30), <<>>),
  Entry(10, "octets", 30, Old(31), <<>>),  Entry(10, "octets", 35, Old(23), <<>>),
  Entry(10, "oid", 10, Old(10), <<>>) >>

maxData == Len(Table)
Ids == 1..maxData
OID_NOT_FOUND == 0     \* the program counts entries from 0 and uses -1
IsText(id) == Table[id].dataType \in {"octets", "oid"}

Prefix(s, n) == SubSeq(s, 1, n)
From(s, n) == SubSeq(s, n, Len(s))

\* setEntry: text is copied over the text there, an integer is put together
\* by getValue.
Overwrite(u, val) == val \o From(u, Len(val) + 1)
getValue(val) == [i \in 1..4 |-> IF i > 4 - Len(val) THEN val[i - 4 + Len(val)] ELSE 0]
setEntryMutant(id, e, val) ==      \* dataLen is left as it was
  [u |-> IF IsText(id) THEN Overwrite(e.u, val) ELSE getValue(val), dataLen |-> e.dataLen]
setEntry(id, e, val) ==
  [u |-> IF IsText(id) THEN Overwrite(e.u, val) ELSE getValue(val), dataLen |-> Len(val)]

\* getEntry: the getfunction and strlen store into the entry before its value
\* is taken.
Zeros(u) == {n \in 1..Len(u) : u[n] = 0}
strlen(u) == IF Zeros(u) = {} THEN Len(u) ELSE (CHOOSE n \in Zeros(u) : \A k \in Zeros(u) : n <= k) - 1
Refreshed(id, e) ==
  LET u == IF Table[id].get = <<>> THEN e.u ELSE Table[id].get IN
  [u |-> u,
   dataLen |-> CASE Table[id].dataType = "octets" -> strlen(u)
                 [] Table[id].dataType # "octets" /\ Table[id].get # <<>> -> Len(u)
                 [] OTHER -> e.dataLen]
Wire(id, e) ==
  CASE IsText(id) -> Prefix(e.u, e.dataLen)
    [] ~ IsText(id) /\ e.dataLen = 0 -> e.u
    [] OTHER -> From(e.u, 5 - e.dataLen)

-----------------------------------------------------------------------------
(* Lengths *)

\* insertRespLen: the answer's length in the form the request used.
insertRespLen(form, size) == IF form = "long2" THEN size % 65536 ELSE size % 256

\* What a decoder reads there; -1 when it takes the byte for the start of a
\* longer form.
Decoded(form, written) == IF form = "short" /\ written >= 128 THEN -1 ELSE written

VersionSize == 3
CommunityLen == 6       \* "public"
CommunitySize == 2 + CommunityLen
RequestSize == 12       \* request id of four bytes, error status, error index
\* Where the list of an answer begins, and where each of its bindings ends.
ListStart(m) == Header(m.msg) + VersionSize + CommunitySize + Header(m.pdu) + RequestSize + Header(m.list)
BindingSize(b) == Header(b.form) + BindingContent(b)
End(b) == b.at + BindingSize(b)
RequestLen(m) == ListStart(m) + FoldSeq(LAMBDA b, n : n + BindingSize(b), 0, m.bindings)
\* What the parts of an answer really occupy.
ListContent(m) == (IF m.bindings = <<>> THEN ListStart(m) ELSE End(Last(m.bindings))) - ListStart(m)
RequestContent(m) == RequestSize + Header(m.list) + ListContent(m)
MessageContent(m) == VersionSize + CommunitySize + Header(m.pdu) + RequestContent(m)

-----------------------------------------------------------------------------
(* Parsing a request and building the answer *)

findEntryMutant(b) == IF b.oid \in Ids /\ b.oidlen = 8 THEN b.oid ELSE OID_NOT_FOUND   \* length of the wrong entry
findEntry(b) == IF b.oid \in Ids /\ b.oidlen = Table[b.oid].oidlen THEN b.oid ELSE OID_NOT_FOUND

\* The entry a binding is about.  GETNEXT takes the one after it, which after
\* OID_NOT_FOUND is the first.
NextId(id) == IF id + 1 > maxData THEN OID_NOT_FOUND ELSE id + 1
Target(type, b) == IF type = "next" THEN NextId(findEntry(b)) ELSE findEntry(b)

\* parseSequence adds a binding to the answer at response_msg.index, with its length in
\* the form the request used, wherever that is; parseSequenceOf adds up the sizes.
Idle == [busy |-> FALSE]
Parsing == parse.busy
Current == parse.request.bindings[Len(parse.bindings) + 1]
MoreBindings == Parsing /\ ~overrun /\ Len(parse.bindings) < Len(parse.request.bindings)
CurrentId == Target(parse.request.type, Current)
Add(oid, oidlen, dataType, val) ==
  LET size == 2 + oidlen + 2 + Len(val) IN
  /\ parse' = [parse EXCEPT
       !.bindings = Append(@, [oid |-> oid, oidlen |-> oidlen, dataType |-> dataType, val |-> val,
                               form |-> Current.form, at |-> parse.index,
                               written |-> insertRespLen(Current.form, size)]),
       !.index = @ + Header(Current.form) + 2 + oidlen + 2 + Len(val),
       !.size = @ + size + Header(Current.form)]
  /\ overrun' = (parse'.index > MAX_SNMPMSG_LEN)
Echo == Add(Current.oid, Current.oidlen, Current.dataType, Current.val)
Fail(status) ==
  /\ errorStatus' = status
  /\ errorIndex' = Len(parse.bindings)

\* parseVarBind, one action for each way through it
VarBindMissing ==
  /\ MoreBindings /\ CurrentId = OID_NOT_FOUND
  /\ Echo
  /\ Fail("noSuchName")
  /\ UNCHANGED <<sock, rx, snmpData, answer, lastSet, walk>>

VarBindGet ==
  /\ MoreBindings /\ CurrentId # OID_NOT_FOUND /\ parse.request.type # "set"
  /\ \E e \in {Refreshed(CurrentId, snmpData[CurrentId])} :
       /\ snmpData' = [snmpData EXCEPT ![CurrentId] = e]
       /\ Add(CurrentId, Table[CurrentId].oidlen, Table[CurrentId].dataType, Wire(CurrentId, e))
  /\ UNCHANGED <<sock, rx, errorStatus, errorIndex, answer, lastSet, walk>>

VarBindSet ==
  /\ MoreBindings /\ CurrentId # OID_NOT_FOUND /\ parse.request.type = "set"
  /\ Table[CurrentId].dataType = Current.dataType
  /\ snmpData' = [snmpData EXCEPT ![CurrentId] = setEntry(CurrentId, @, Current.val)]
  /\ lastSet' = [lastSet EXCEPT ![CurrentId] = <<Current.val>>]
  /\ Echo
  /\ UNCHANGED <<sock, rx, errorStatus, errorIndex, answer, walk>>

VarBindBadValue ==
  /\ MoreBindings /\ CurrentId # OID_NOT_FOUND /\ parse.request.type = "set"
  /\ Table[CurrentId].dataType # Current.dataType
  /\ Fail("badValue")
  /\ Echo
  /\ UNCHANGED <<sock, rx, snmpData, answer, lastSet, walk>>

\* The sizes on the way up.  The list is returned without its own header, the
\* request and the message with theirs.
RequestReturns == Header(parse.request.pdu) + RequestSize + parse.size
CommunityReturns == CommunitySize + RequestReturns
VersionReturns == CommunityReturns + VersionSize
MessageLengthMutant == VersionReturns   \* without the header
MessageLength == VersionReturns + Header(parse.request.msg)

Response ==
  LET m == parse.request IN
  [kind |-> "response", request |-> m,
   msg |-> m.msg, pdu |-> m.pdu, list |-> m.list, bindings |-> parse.bindings, len |-> parse.index,
   msgLen |-> insertRespLen(m.msg, MessageLength),
   pduLen |-> insertRespLen(m.pdu, RequestReturns),
   listLen |-> insertRespLen(m.list, parse.size),
   errorStatus |-> errorStatus,
   errorIndex |-> IF errorStatus = "noError" THEN 0 ELSE errorIndex + 1]

NoAnswer == [kind |-> "none"]
\* parseCommunity adds the -1 of parseRequest to its size: a request it does
\* not know is answered by version and community alone.
Stub(m) == [kind |-> "stub", request |-> m]

-----------------------------------------------------------------------------
(* snmpd_init and snmpd_run *)

\* initial_Trap: warmStart without bindings; the two lengths are counted back
\* from the end of the packet.
EnterpriseLen == 10
TrapFields == (2 + EnterpriseLen) + 6 + 3 + 3 + 3 + 2
TrapIndex == 2 + VersionSize + CommunitySize + 2 + TrapFields
Trap ==
  [kind |-> "trap", msgLen |-> TrapIndex - 2, pduLen |-> TrapIndex - (9 + CommunityLen)]

Init ==
  /\ sock = "closed"
  /\ rx = <<>>
  /\ snmpData = [id \in Ids |-> [u |-> Table[id].u, dataLen |-> Table[id].dataLen]]
  /\ parse = Idle
  /\ overrun = FALSE
  /\ errorStatus = "noError" /\ errorIndex = 0
  /\ answer = Trap
  /\ lastSet = [id \in Ids |-> <<>>]
  /\ walk = [seen |-> <<>>, ended |-> FALSE]

OpenSocket ==
  /\ sock = "closed"
  /\ sock' = "udp"
  /\ UNCHANGED <<rx, snmpData, parse, errorStatus, errorIndex, answer, lastSet, walk, overrun>>

\* recvfrom takes one datagram; parsing begins with the error cleared.
Accepted(m) == m.version = "v1" /\ m.community = "public"
ClearError ==
  /\ errorStatus' = "noError"
  /\ errorIndex' = 0
Received ==
  /\ sock = "udp" /\ ~Parsing /\ ~overrun /\ rx # <<>>
  /\ rx' = Tail(rx)
Receive ==
  /\ Received
  /\ RequestLen(Head(rx)) <= MAX_SNMPMSG_LEN
  /\ ClearError

\* recvfrom is given the bytes that wait as the room there is.
ReceiveOverruns ==
  /\ Received
  /\ RequestLen(Head(rx)) > MAX_SNMPMSG_LEN
  /\ overrun' = TRUE
  /\ UNCHANGED <<sock, snmpData, parse, errorStatus, errorIndex, answer, lastSet, walk>>

Refuse ==
  /\ Receive
  /\ ~Accepted(Head(rx))
  /\ UNCHANGED <<sock, snmpData, parse, answer, lastSet, walk, overrun>>

AnswerUnknown ==
  /\ Receive
  /\ Accepted(Head(rx)) /\ Head(rx).type = "other"
  /\ answer' = Stub(Head(rx))
  /\ UNCHANGED <<sock, snmpData, parse, lastSet, walk, overrun>>

ParseRequest ==
  /\ Receive
  /\ Accepted(Head(rx)) /\ Head(rx).type # "other"
  /\ parse' = [busy |-> TRUE, request |-> Head(rx), bindings |-> <<>>, size |-> 0,
             index |-> ListStart(Head(rx))]
  /\ UNCHANGED <<sock, snmpData, answer, lastSet, walk, overrun>>

SendResponse ==
  /\ Parsing /\ ~overrun /\ ~MoreBindings
  /\ answer' = Response
  /\ parse' = Idle
  /\ UNCHANGED <<sock, rx, snmpData, errorStatus, errorIndex, lastSet, walk, overrun>>

parseVarBind == VarBindMissing \/ VarBindGet \/ VarBindSet \/ VarBindBadValue
snmpd_run == OpenSocket \/ ReceiveOverruns \/ Refuse \/ AnswerUnknown \/ ParseRequest \/ parseVarBind \/ SendResponse

-----------------------------------------------------------------------------
(* The managers *)

\* What is sent to an agent that has overrun a buffer is of no account.
Queue(m) == /\ sock = "udp" /\ ~overrun
            /\ Len(rx) < MaxQueue
            /\ rx' = Append(rx, m)

Request(m) == Queue(m) /\ UNCHANGED <<sock, snmpData, parse, errorStatus, errorIndex, answer, lastSet, walk, overrun>>

\* The walk begins at a name above the whole table, which no entry has, and
\* goes on from the last name it was given.  Its requests carry their number.
Root == [oid |-> 0, oidlen |-> 5]
WalkFrom == IF walk.seen = <<>> THEN Root
            ELSE [oid |-> Last(walk.seen), oidlen |-> Table[Last(walk.seen)].oidlen]
WalkRequest ==
  [type |-> "next", id |-> Len(walk.seen) + 1, version |-> "v1", community |-> "public",
   msg |-> "short", pdu |-> "short", list |-> "short",
   bindings |-> << [oid |-> WalkFrom.oid, oidlen |-> WalkFrom.oidlen,
                    dataType |-> "null", val |-> <<>>, form |-> "short"] >>]

WalkAsk ==
  /\ ~walk.ended
  /\ Queue(WalkRequest)
  /\ UNCHANGED <<sock, snmpData, parse, errorStatus, errorIndex, answer, lastSet, walk, overrun>>

\* A manager that is given more names than there are has stopped: MaxSeen bounds
\* the walk and is not reached.
MaxSeen == maxData + 1
WalkHears ==
  /\ Len(walk.seen) < MaxSeen
  /\ answer.kind = "response" /\ ~walk.ended /\ answer.request.id = Len(walk.seen) + 1
  /\ walk' = IF answer.errorStatus = "noError"
               THEN [walk EXCEPT !.seen = Append(@, answer.bindings[1].oid)]
               ELSE [walk EXCEPT !.ended = TRUE]
  /\ answer' = NoAnswer
  /\ UNCHANGED <<sock, rx, snmpData, parse, errorStatus, errorIndex, lastSet, overrun>>

Next ==
  \/ OpenSocket \/ ReceiveOverruns \/ Refuse \/ AnswerUnknown \/ ParseRequest
  \/ VarBindMissing \/ VarBindGet \/ VarBindSet \/ VarBindBadValue \/ SendResponse
  \/ \E m \in Requests : Request(m)
  \/ WalkAsk \/ WalkHears

Spec == Init /\ [][Next]_vars

\* The main loop calls snmpd_run again and again; a walk that keeps asking is
\* heard, and hears, again and again.
FairSpec == Spec /\ WF_vars(snmpd_run) /\ SF_vars(WalkAsk) /\ SF_vars(WalkHears)

-----------------------------------------------------------------------------
(* Properties *)

\* The bindings of an answer follow one another from the head of the list to the end of
\* the datagram.
Contiguous(m) ==
  /\ \A i \in DOMAIN m.bindings :
       m.bindings[i].at = IF i = 1 THEN ListStart(m) ELSE End(m.bindings[i - 1])
  /\ m.len = Header(m.msg) + MessageContent(m)

\* While requests and answers have stayed within their buffers, every length the agent writes
\* is the length of what follows, so a manager can take the answer apart: for the trap, for each binding, and for each answer whose
\* three outer headers have one form that is long enough (the code counts the list's
\* header where it means the request's, and keeps the form of the request).
Fits(m, size) == m.msg = m.pdu /\ m.pdu = m.list /\ size < Capacity(m.msg)
AnswerNests ==
  /\ answer.kind = "trap" =>
       /\ answer.pduLen = TrapFields
       /\ answer.msgLen = VersionSize + CommunitySize + 2 + TrapFields
  /\ answer.kind = "response" =>
       /\ Contiguous(answer)
       /\ \A i \in DOMAIN answer.bindings :
            Decoded(answer.bindings[i].form, answer.bindings[i].written)
              = BindingContent(answer.bindings[i])
       /\ Fits(answer, MessageContent(answer)) =>
            /\ Decoded(answer.msg, answer.msgLen) = MessageContent(answer)
            /\ Decoded(answer.pdu, answer.pduLen) = RequestContent(answer)
            /\ Decoded(answer.list, answer.listLen) = ListContent(answer)
LengthsNest == ~overrun => AnswerNests

\* While requests and answers have stayed within their buffers, however many reads, failed
\* requests and writes to other entries came in between, a GET delivers the value of the last SET, if it was not empty: byte for byte for an
\* integer or an object name, and up to its first zero as the beginning of a text (the code
\* does not end the text where the new one ends).
EntriesHoldSets ==
  \A id \in Ids : lastSet[id] # <<>> /\ lastSet[id][1] # <<>> /\ Table[id].get = <<>> =>
    LET val == lastSet[id][1]
        read == Wire(id, Refreshed(id, snmpData[id])) IN
    IF Table[id].dataType = "octets" THEN IsPrefix(Prefix(val, strlen(val)), read) ELSE read = val
SetsAreReadBack == ~overrun => EntriesHoldSets

\* A walk that keeps asking is given every entry once, in the order of the table, and is
\* told the end after the last one, whatever other managers ask in between and however
\* often its requests arrive, unless one of their messages runs over its buffer.
WalkEnds == <>(overrun \/ (walk.ended /\ walk.seen = [i \in Ids |-> i]))
=============================================================================
