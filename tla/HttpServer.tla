----------------------------- MODULE HttpServer -----------------------------
(***************************************************************************)
(* The configuration web server: httpServer_run() called in turn for each  *)
(* of its sockets by the main loop, the blocking send()/recv() of the      *)
(* socket layer under it, and the W5500 that holds the TCP connections.    *)
(* The processor reads the chip's registers one at a time, so the peer and *)
(* the chip move between any two reads.                                    *)
(***************************************************************************)
EXTENDS Integers

CONSTANTS
    SeqNums,        \* number of sockets served (MAX_HTTPSOCK)
    Pages,          \* the registered pages (reg_httpServer_webContent)
    PageLen,        \* content_len of each page
    ChunkLen,       \* DATA_BUF_SIZE - 1: the longest body part of one send
    HeadLen,        \* length of a header, of a CGI answer, of an error page
    TxMax,          \* getSn_TxMAX
    NoPage

ASSUME SeqNumsAssumption == SeqNums \in Nat \ {0}
ASSUME PageAssumption == /\ PageLen \in [Pages -> Nat \ {0}]
                         /\ NoPage \notin Pages
ASSUME BufferAssumption == /\ ChunkLen \in Nat \ {0} /\ HeadLen \in Nat \ {0}
                           /\ TxMax \in Nat /\ ChunkLen <= TxMax /\ HeadLen <= TxMax

Seqs == 0 .. SeqNums - 1
NoRequest == [kind |-> "none", page |-> NoPage]
PageRequests == [kind : {"page"}, page : Pages]     \* GET or HEAD of a registered page
\* "short": answered by one send - a CGI with data, 400, 404, an unknown CGI;
\* "config": POST config.cgi, which saves the address and restarts the board
OtherRequests == [kind : {"short", "config"}, page : {NoPage}]
Requests == PageRequests \cup OtherRequests

VARIABLES
    sr,                 \* Sn_SR of each socket
    rx,                 \* the request waiting in the RX buffer
    tx,                 \* bytes of the TX buffer not acknowledged by the peer
    busy,               \* the chip is still carrying out a SEND command
    ir,                 \* Sn_IR: subset of {"SENDOK", "TIMEOUT"}
    sock_is_sending,    \* the bit of socket.c
    HTTPSock_Status,    \* sock_status, file_start, file_len, file_offset
    cur, pc,            \* the socket being run, where the processor stands
    out,                \* the send() under way: what, of which page, from, len
    served, handed,     \* history of the response under way: its page and
                        \* how much of it was handed to send()
    asked               \* the present connection has sent its request

chip == <<sr, rx, tx, busy, ir>>
server == <<sock_is_sending, HTTPSock_Status, cur, pc, out>>
history == <<served, handed, asked>>
vars == <<chip, server, history>>

IdleStatus == [sock_status |-> "IDLE", file_start |-> NoPage, file_len |-> 0, file_offset |-> 0]
NoSend == [what |-> "none", page |-> NoPage, from |-> 0, len |-> 0, last |-> FALSE]
Least(a, b) == IF a <= b THEN a ELSE b

Init ==
    /\ sr = [s \in Seqs |-> "CLOSED"]
    /\ rx = [s \in Seqs |-> NoRequest]
    /\ tx = [s \in Seqs |-> 0]
    /\ busy = [s \in Seqs |-> FALSE]
    /\ ir = [s \in Seqs |-> {}]
    /\ sock_is_sending = [s \in Seqs |-> FALSE]
    /\ HTTPSock_Status = [s \in Seqs |-> IdleStatus]
    /\ cur = 0 /\ pc = "run" /\ out = NoSend
    /\ served = [s \in Seqs |-> NoPage]
    /\ handed = [s \in Seqs |-> 0]
    /\ asked = [s \in Seqs |-> FALSE]

-----------------------------------------------------------------------------
(* Pieces of socket.c and httpServer.c shared by the steps below.          *)

\* the connection is over for the chip: nothing is left to send or to read
Drop(s, state) ==
    /\ sr' = [sr EXCEPT ![s] = state]
    /\ rx' = [rx EXCEPT ![s] = NoRequest]
    /\ tx' = [tx EXCEPT ![s] = 0]
    /\ busy' = [busy EXCEPT ![s] = FALSE]

\* close(): the CLOSE command, the interrupt flags and the driver's bits;
\* socket() goes on to OPEN
CloseInto(s, state) ==
    /\ Drop(s, state)
    /\ ir' = [ir EXCEPT ![s] = {}]
    /\ sock_is_sending' = [sock_is_sending EXCEPT ![s] = FALSE]

Close(s) == CloseInto(s, "CLOSED")

\* no DISCON when the peer has closed first
DisconnectMutant(s) ==
    IF sr[s] = "ESTABLISHED" THEN Drop(s, "CLOSING") ELSE UNCHANGED <<sr, rx, tx, busy>>

\* http_disconnect(): the DISCON command, whatever became of the connection
Disconnect(s) ==
    IF sr[s] \in {"ESTABLISHED", "CLOSE_WAIT"} THEN Drop(s, "CLOSING")
                                               ELSE UNCHANGED <<sr, rx, tx, busy>>

\* what the board forgets when it restarts
Restart ==
    /\ sr' = [s \in Seqs |-> "CLOSED"]
    /\ rx' = [s \in Seqs |-> NoRequest]
    /\ tx' = [s \in Seqs |-> 0]
    /\ busy' = [s \in Seqs |-> FALSE]
    /\ ir' = [s \in Seqs |-> {}]
    /\ sock_is_sending' = [s \in Seqs |-> FALSE]
    /\ HTTPSock_Status' = [s \in Seqs |-> IdleStatus]
    /\ cur' = 0 /\ pc' = "run" /\ out' = NoSend
    /\ served' = [s \in Seqs |-> NoPage]
    /\ handed' = [s \in Seqs |-> 0]
    /\ asked' = [s \in Seqs |-> FALSE]

\* history: a response about that page begins on the current socket
NewResponse(page) ==
    /\ served' = [served EXCEPT ![cur] = page]
    /\ handed' = [handed EXCEPT ![cur] = 0]

\* httpServer_run() returns and the main loop runs the next socket
ToNext == pc' = "run" /\ cur' = (cur + 1) % SeqNums /\ out' = NoSend

\* how much send_http_response_body() sends next, of which page, from where:
\* the first part when file_len is 0, else what remains from file_offset
FirstPart(st, page) ==
    [what |-> "body", page |-> page, from |-> st.file_offset,
     len |-> Least(PageLen[page], ChunkLen), last |-> FALSE]
RemainingPart(st) ==
    LET rest == st.file_len - st.file_offset
    IN  [what |-> "body", page |-> st.file_start, from |-> st.file_offset,
         len |-> Least(rest, ChunkLen), last |-> rest <= ChunkLen]

\* a page longer than one part is remembered for the following calls
Remember(st, page) ==
    IF PageLen[page] > ChunkLen
      THEN [st EXCEPT !.file_start = page, !.file_len = PageLen[page]] ELSE st

\* the state httpServer_run() chooses from what is left
Settled(st) == [st EXCEPT !.sock_status = IF st.file_len > 0 THEN "RES_INPROC" ELSE "RES_DONE"]

\* the offset is set to the length sent instead of being advanced by it
AfterPartMutant(st, o) ==
    Settled(IF o.last THEN [st EXCEPT !.file_start = NoPage, !.file_len = 0, !.file_offset = 0]
                      ELSE [st EXCEPT !.file_offset = o.len])

\* the bookkeeping after a part was handed to send()
AfterPart(st, o) ==
    Settled(IF o.last THEN [st EXCEPT !.file_start = NoPage, !.file_len = 0, !.file_offset = 0]
                      ELSE [st EXCEPT !.file_offset = @ + o.len])

-----------------------------------------------------------------------------
(* httpServer_run(cur): one action for each arm of its two switches.       *)

Status == HTTPSock_Status[cur].sock_status
Running(state) == pc = "run" /\ sr[cur] = state

\* LISTEN, an intermediate state of the chip, or connected and nothing asked
RunNothing ==
    /\ pc = "run"
    /\ \/ sr[cur] \in {"LISTEN", "CLOSING"}
       \/ sr[cur] = "ESTABLISHED" /\ Status = "IDLE" /\ rx[cur] = NoRequest
    /\ ToNext
    /\ UNCHANGED <<chip, sock_is_sending, HTTPSock_Status, history>>

\* getSn_RX_RSR > 0: recv() follows
RunRequest ==
    /\ Running("ESTABLISHED") /\ Status = "IDLE" /\ rx[cur] # NoRequest
    /\ pc' = "recv"
    /\ UNCHANGED <<chip, sock_is_sending, HTTPSock_Status, cur, out, history>>

RunInProcess ==
    /\ Running("ESTABLISHED") /\ Status = "RES_INPROC"
    /\ pc' = "send" /\ out' = RemainingPart(HTTPSock_Status[cur])
    /\ UNCHANGED <<chip, sock_is_sending, HTTPSock_Status, cur, history>>

\* the record is not cleared when the response ends or the peer closes
RunDoneMutant ==
    /\ \/ Running("ESTABLISHED") /\ Status = "RES_DONE"
       \/ Running("CLOSE_WAIT")
    /\ HTTPSock_Status' = [HTTPSock_Status EXCEPT ![cur].sock_status = "IDLE"]
    /\ Disconnect(cur)
    /\ NewResponse(NoPage)
    /\ ToNext
    /\ UNCHANGED <<ir, sock_is_sending, asked>>

\* the end of the response, or the peer has closed: forget it and disconnect
RunDone ==
    /\ \/ Running("ESTABLISHED") /\ Status = "RES_DONE"
       \/ Running("CLOSE_WAIT")
    /\ HTTPSock_Status' = [HTTPSock_Status EXCEPT ![cur] = IdleStatus]
    /\ Disconnect(cur)
    /\ NewResponse(NoPage)
    /\ ToNext
    /\ UNCHANGED <<ir, sock_is_sending, asked>>

\* socket(): close(), OPEN; HTTPSock_Status is left as it is
RunClosed ==
    /\ Running("CLOSED")
    /\ CloseInto(cur, "INIT")
    /\ ToNext
    /\ UNCHANGED <<HTTPSock_Status, history>>

\* listen(): the LISTEN command ...
RunInit ==
    /\ Running("INIT")
    /\ sr' = [sr EXCEPT ![cur] = "LISTEN"]
    /\ pc' = "listening"
    /\ UNCHANGED <<rx, tx, busy, ir, sock_is_sending, HTTPSock_Status, cur, out, history>>

\* ... and the socket is closed again if it is no longer LISTEN when looked at
ListenChecked ==
    /\ pc = "listening"
    /\ IF sr[cur] = "LISTEN" THEN UNCHANGED <<chip, sock_is_sending>> ELSE Close(cur)
    /\ ToNext
    /\ UNCHANGED <<HTTPSock_Status, history>>

\* recv() and http_process_handler() up to its first send(). The parsed
\* request decides the answer; a page is remembered in `served'.
Received ==
    /\ pc = "recv" /\ sr[cur] \in {"ESTABLISHED", "CLOSE_WAIT"}
    /\ out' = [NoSend EXCEPT !.what = rx[cur].kind, !.page = rx[cur].page, !.len = HeadLen]
    /\ NewResponse(rx[cur].page)
    /\ rx' = [rx EXCEPT ![cur] = NoRequest]
    /\ pc' = "send"
    /\ UNCHANGED <<sr, tx, busy, ir, sock_is_sending, HTTPSock_Status, cur, asked>>

\* recv() returns a negative error; len is unsigned, so the test for it never
\* holds, the end-of-string byte is stored 64 KB beyond RX_BUF, outside the
\* board's RAM, and the fault handler waits for the watchdog
ReceiveFaults ==
    /\ pc = "recv" /\ sr[cur] \notin {"ESTABLISHED", "CLOSE_WAIT"}
    /\ Restart

-----------------------------------------------------------------------------
(* send(), one register read at a time.                                    *)

Connected(s) == sr[s] \in {"ESTABLISHED", "CLOSE_WAIT"}

\* SOCKERR_SOCKSTATUS at once, or on to the interrupt flags or the free space
SendStatus ==
    /\ pc = "send"
    /\ pc' = CASE ~Connected(cur)       -> "sent"
               [] sock_is_sending[cur]  -> "sendIR"
               [] OTHER                 -> "sendFSR"
    /\ UNCHANGED <<chip, sock_is_sending, HTTPSock_Status, cur, out, history>>

SendFlags ==
    /\ pc = "sendIR"
    /\ \/ /\ "SENDOK" \in ir[cur]
          /\ ir' = [ir EXCEPT ![cur] = @ \ {"SENDOK"}]
          /\ sock_is_sending' = [sock_is_sending EXCEPT ![cur] = FALSE]
          /\ pc' = "sendFSR"
          /\ UNCHANGED <<sr, rx, tx, busy>>
       \/ /\ "SENDOK" \notin ir[cur] /\ "TIMEOUT" \in ir[cur]
          /\ Close(cur)                                     \* SOCKERR_TIMEOUT
          /\ pc' = "sent"
       \/ /\ ir[cur] \cap {"SENDOK", "TIMEOUT"} = {}        \* SOCK_BUSY
          /\ pc' = "sent"
          /\ UNCHANGED <<chip, sock_is_sending>>
    /\ UNCHANGED <<HTTPSock_Status, cur, out, history>>

\* the loop that waits for room; SEND; the connection may end while it waits
SendWaits ==
    /\ pc = "sendFSR"
    /\ \/ /\ ~Connected(cur) /\ Close(cur)
       \/ /\ Connected(cur) /\ out.len <= TxMax - tx[cur]
          /\ tx' = [tx EXCEPT ![cur] = @ + out.len]
          /\ busy' = [busy EXCEPT ![cur] = TRUE]
          /\ sock_is_sending' = [sock_is_sending EXCEPT ![cur] = TRUE]
          /\ UNCHANGED <<sr, rx, ir>>
    /\ pc' = "sent"
    /\ UNCHANGED <<HTTPSock_Status, cur, out, history>>

\* send() has returned. Its callers do not look at the result.
\* After the header of a page comes the first part of its body.
HeadSent ==
    /\ pc = "sent" /\ out.what = "page"
    /\ HTTPSock_Status' = [HTTPSock_Status EXCEPT ![cur] = Remember(@, out.page)]
    /\ out' = FirstPart(HTTPSock_Status[cur], out.page)
    /\ pc' = "send"
    /\ UNCHANGED <<chip, sock_is_sending, cur, history>>

PartSent ==
    /\ pc = "sent" /\ out.what = "body"
    /\ HTTPSock_Status' = [HTTPSock_Status EXCEPT ![cur] = AfterPart(@, out)]
    /\ handed' = [handed EXCEPT ![cur] = @ + out.len]
    /\ ToNext
    /\ UNCHANGED <<chip, sock_is_sending, served, asked>>

AnswerSent ==
    /\ pc = "sent" /\ out.what = "short"
    /\ HTTPSock_Status' = [HTTPSock_Status EXCEPT ![cur] = Settled(@)]
    /\ ToNext
    /\ UNCHANGED <<chip, sock_is_sending, history>>

\* HTTP_RESET: HTTPServer_ReStart() right after send() of the answer
ConfigSent ==
    /\ pc = "sent" /\ out.what = "config"
    /\ Restart

-----------------------------------------------------------------------------
(* The peers and the chip.                                                 *)

Connect(s) ==
    /\ sr[s] = "LISTEN"
    /\ sr' = [sr EXCEPT ![s] = "ESTABLISHED"]
    /\ asked' = [asked EXCEPT ![s] = FALSE]
    /\ UNCHANGED <<rx, tx, busy, ir, server, served, handed>>

\* one request on a connection, as the server closes it after one answer
Ask(s) ==
    /\ sr[s] = "ESTABLISHED" /\ ~asked[s]
    /\ asked' = [asked EXCEPT ![s] = TRUE]
    /\ \E r \in Requests : rx' = [rx EXCEPT ![s] = r]
    /\ UNCHANGED <<sr, tx, busy, ir, server, served, handed>>

PeerCloses(s) ==
    /\ sr[s] = "ESTABLISHED"
    /\ sr' = [sr EXCEPT ![s] = "CLOSE_WAIT"]
    /\ UNCHANGED <<rx, tx, busy, ir, server, history>>

PeerResets(s) ==
    /\ Connected(s)
    /\ Drop(s, "CLOSED")
    /\ UNCHANGED <<ir, server, history>>

\* the SEND command has been carried out
SendDone(s) ==
    /\ busy[s]
    /\ busy' = [busy EXCEPT ![s] = FALSE]
    /\ ir' = [ir EXCEPT ![s] = @ \cup {"SENDOK"}]
    /\ UNCHANGED <<sr, rx, tx, server, history>>

\* the peer acknowledges what was sent, or the chip gives the peer up
Acknowledged(s) ==
    /\ tx[s] > 0 /\ ~busy[s] /\ Connected(s)
    /\ tx' = [tx EXCEPT ![s] = 0]
    /\ UNCHANGED <<sr, rx, busy, ir, server, history>>

TimesOut(s) ==
    /\ tx[s] > 0 /\ Connected(s)
    /\ Drop(s, "CLOSED")
    /\ ir' = [ir EXCEPT ![s] = @ \cup {"TIMEOUT"}]
    /\ UNCHANGED <<server, history>>

\* the FIN exchange after DISCON ends, or times out
Closed(s) ==
    /\ sr[s] = "CLOSING"
    /\ Drop(s, "CLOSED")
    /\ UNCHANGED <<ir, server, history>>

-----------------------------------------------------------------------------
Processor ==
    \/ RunNothing \/ RunRequest \/ RunInProcess \/ RunDone \/ RunClosed
    \/ RunInit \/ ListenChecked \/ Received \/ ReceiveFaults
    \/ SendStatus \/ SendFlags \/ SendWaits
    \/ HeadSent \/ PartSent \/ AnswerSent \/ ConfigSent

Chip(s) == SendDone(s) \/ Acknowledged(s) \/ TimesOut(s) \/ Closed(s)
Peer(s) == Connect(s) \/ Ask(s) \/ PeerCloses(s) \/ PeerResets(s)

Next == Processor \/ \E s \in Seqs : Chip(s) \/ Peer(s)

\* the main loop goes on, and the chip ends every transmission and closing
Fairness ==
    /\ WF_vars(Processor)
    /\ \A s \in Seqs : /\ WF_vars(SendDone(s)) /\ WF_vars(Closed(s))
                       /\ WF_vars(Acknowledged(s) \/ TimesOut(s))

Spec == Init /\ [][Next]_vars /\ Fairness

-----------------------------------------------------------------------------
\* Whatever connections come and go, and wherever they break off, the record
\* of a socket that waits for a request is clean, and that of a socket in the
\* middle of a page has a page and an offset strictly inside it: no page
\* starts at a left-over offset, and file_len - file_offset never wraps
\* (httpServer_run, send_http_response_body).
RecordsAreConsistent ==
    \A s \in Seqs :
        LET st == HTTPSock_Status[s]
            answering == s = cur /\ pc # "run" /\ out.what \in {"page", "body"}
        IN  /\ st.sock_status = "IDLE" /\ ~answering => st = IdleStatus
            /\ st.sock_status = "RES_INPROC" =>
                  /\ st.file_start \in Pages /\ st.file_len = PageLen[st.file_start]
                  /\ 0 < st.file_offset /\ st.file_offset < st.file_len
            /\ st.sock_status = "RES_DONE" => st.file_len = 0

\* The parts of a page handed to send() on a socket tile the page last asked
\* for on that socket: each begins where the one before it ended, none reaches
\* beyond the end of the content, and the response is over only when the whole
\* page was handed over - although the sockets share one buffer and
\* one parsed request, and calls for other sockets come between the parts.
PagesAreTiled ==
    /\ pc \in {"send", "sendIR", "sendFSR", "sent"} /\ out.what = "body" =>
          /\ out.page = served[cur] /\ out.page \in Pages
          /\ out.from = handed[cur] /\ out.len > 0
          /\ out.from + out.len <= PageLen[out.page]
    /\ \A s \in Seqs :
          HTTPSock_Status[s].sock_status = "RES_DONE" /\ served[s] \in Pages =>
              handed[s] = PageLen[served[s]]

\* A request that has reached the board does not hold its socket for ever: the
\* socket listens again, however the peer behaves and whatever send() returns.
SocketsComeBack ==
    \A s \in Seqs : (sr[s] = "ESTABLISHED" /\ rx[s] # NoRequest) ~> sr[s] = "LISTEN"

\* socket.h promises of a blocking send() that it does not return until the
\* send is completed, and SOCK_BUSY in non-blocking mode only (the server's
\* sockets are blocking): when send() comes back and the connection is up, the
\* chip has taken what it was given.
SendsComplete ==
    [][(pc # "sent" /\ pc' = "sent" /\ Connected(cur)) => tx'[cur] = tx[cur] + out.len]_vars
=============================================================================
